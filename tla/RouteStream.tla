----------------------------- MODULE RouteStream -----------------------------
(***************************************************************************)
(* A route of an AudioRouter (platform.rs): the callback of the source     *)
(* device pushes samples into the route's ring (OutgoingRoute), that of    *)
(* the sink device takes frames out, interpolates between two of them and  *)
(* adapts its speed to the fill of the ring (IncomingRoute).  The two run  *)
(* concurrently; other routes of the devices have rings of their own.      *)
(*                                                                         *)
(* The ring is the FIFO that SpscRing implements, with the freedom of      *)
(* either side's view of it to lag behind.  A sample is the number of its  *)
(* frame, modulo FrameNumbers, and its channel.  The phase counts in units *)
(* of 1/Unit frame; the correction is added to the nominal step, not       *)
(* multiplied with it.                                                     *)
(***************************************************************************)
EXTENDS Integers, Sequences

CONSTANTS Capacity,         \* of the ring, in samples: a power of two, 16_384 frames or more
          STARTUP_FRAMES,
          Channels,         \* source_channels
          Unit,             \* phase units per frame
          Steps,            \* source over sink sample rate, in phase units
          MaxDrift,         \* bound of the correction, in phase units
          FrameNumbers      \* bound: frames are numbered modulo this

\* There are numbers enough to tell the frames in flight apart, and two output frames.
ASSUME RouteAssumption ==
  /\ {Capacity, STARTUP_FRAMES, Channels, Unit, MaxDrift, FrameNumbers} \subseteq Nat \ {0}
  /\ 2 <= STARTUP_FRAMES /\ STARTUP_FRAMES * Channels <= Capacity
  /\ Steps \subseteq Nat /\ \A s \in Steps : s > MaxDrift
  /\ FrameNumbers > Capacity \div Channels + 3
  /\ \A s \in Steps : s + MaxDrift + Unit < FrameNumbers * Unit

VARIABLES
  nominal_step,     \* for good
  source, sink,     \* what each device's callback does next; idle when there is none
  width,            \* the channels of the source callback's buffers
  channel,          \* of the sample it pushes
  pFrame,           \* number of the next new frame
  ring,             \* the samples between the callbacks
  used,             \* the producer's view of how many there are
  visible,          \* the consumer's view of how many there are
  current, next, phase, primed,
  torn,             \* history: a part of a frame was pushed and the rest was not
  position,         \* history: frame and phase of the last output frame, in units; -1 at first
  underran          \* history: an underrun was counted since the last output frame

sourceVars == <<source, width, channel, pFrame, used>>
heldVars == <<current, next, phase, primed>>
outputVars == <<position, underran>>
routeVars == <<nominal_step, sourceVars, ring, sink, visible, heldVars, outputVars, torn>>

RouteInit ==
  /\ nominal_step \in Steps
  /\ source = "idle" /\ width = Channels /\ channel = 0 /\ pFrame = 0
  /\ ring = << >> /\ used = 0 /\ visible = 0
  /\ sink = "idle" /\ current = << >> /\ next = << >> /\ phase = 0 /\ primed = FALSE
  /\ torn = FALSE /\ position = -1 /\ underran = FALSE

-----------------------------------------------------------------------------
(* audio_device_io_proc of the source: OutgoingRoute *)

\* A call with buffers of w channels; the device's format may change while it runs.
\* A call whose buffers disagree on the number of frames does nothing.  Bound: none is
\* followed after a frame was torn.
SourceCall(w) ==
  /\ source = "idle" /\ ~torn
  /\ width' = w
  /\ source' = "frame"
  /\ UNCHANGED <<nominal_step, channel, pFrame, used, ring, sink, visible, heldVars, outputVars, torn>>

\* No more frames in the buffers.
SourceReturn ==
  /\ source = "frame"
  /\ source' = "idle" /\ width' = Channels
  /\ UNCHANGED <<nominal_step, channel, pFrame, used, ring, sink, visible, heldVars, outputVars, torn>>

\* available: at least the samples that are there are believed to be.
LoadUsed == \E n \in Len(ring)..used : used' = n

\* Fault: room for one sample is taken for room for a frame.
SourceFrameOneSample ==
  /\ source = "frame"
  /\ LoadUsed
  /\ IF Capacity - used' < 1
     THEN UNCHANGED source
     ELSE source' = "push"
  /\ UNCHANGED <<nominal_step, width, channel, pFrame, ring, sink, visible, heldVars, outputVars, torn>>

\* A frame that does not fit is an overrun and is left out.
SourceFrame ==
  /\ source = "frame"
  /\ LoadUsed
  /\ IF Capacity - used' < Channels
     THEN UNCHANGED source
     ELSE source' = "push"
  /\ UNCHANGED <<nominal_step, width, channel, pFrame, ring, sink, visible, heldVars, outputVars, torn>>

\* read_audio_sample and push, which leaves out a sample that it sees no room for.
PushSample ==
  /\ source = "push" /\ channel < width
  /\ \E n \in Len(ring)..used :
       IF n < Capacity
       THEN ring' = Append(ring, <<pFrame, channel>>) /\ used' = n + 1
       ELSE ring' = ring /\ used' = n
  /\ channel' = (channel + 1) % Channels
  /\ IF channel + 1 = Channels
     THEN /\ source' = "frame"
          /\ pFrame' = (pFrame + 1) % FrameNumbers
     ELSE UNCHANGED <<source, pFrame>>
  /\ UNCHANGED <<nominal_step, width, sink, visible, heldVars, outputVars, torn>>

\* The buffers have no such channel: the call returns in the middle of the frame.
NoSample ==
  /\ source = "push" /\ channel >= width
  /\ source' = "idle" /\ width' = Channels
  /\ pFrame' = (pFrame + 1) % FrameNumbers /\ channel' = 0
  /\ torn' = TRUE
  /\ UNCHANGED <<nominal_step, used, ring, sink, visible, heldVars, outputVars>>

-----------------------------------------------------------------------------
(* audio_device_io_proc of the sink: IncomingRoute *)

SinkCall ==
  /\ sink = "idle" /\ ~torn
  /\ sink' = "frame"
  /\ UNCHANGED <<nominal_step, sourceVars, ring, visible, heldVars, outputVars, torn>>

\* No more frames in the buffers.
SinkReturn ==
  /\ sink = "frame"
  /\ sink' = "idle"
  /\ UNCHANGED <<nominal_step, sourceVars, ring, visible, heldVars, outputVars, torn>>

\* available: any number of the samples pushed since the last look may be seen.
LoadVisible == \E n \in visible..Len(ring) : visible' = n

\* read_source_frame: a whole frame leaves the ring.
read_source_frame ==
  /\ \E n \in visible..Len(ring) : n >= Channels /\ visible' = n - Channels
  /\ ring' = SubSeq(ring, Channels + 1, Len(ring))

\* It sees less than a frame, and the caller counts an underrun.
NoSourceFrame ==
  /\ LoadVisible /\ visible' < Channels
  /\ underran' = TRUE
  /\ UNCHANGED ring

Taken == SubSeq(ring, 1, Channels)

\* Silence until there are STARTUP_FRAMES.
PrimeWait ==
  /\ sink = "frame" /\ ~primed
  /\ LoadVisible
  /\ visible' \div Channels < STARTUP_FRAMES
  /\ UNCHANGED <<nominal_step, sink, sourceVars, ring, heldVars, outputVars, torn>>

Prime ==
  /\ sink = "frame" /\ ~primed
  /\ LoadVisible
  /\ visible' \div Channels >= STARTUP_FRAMES
  /\ sink' = "current"
  /\ UNCHANGED <<nominal_step, sourceVars, ring, heldVars, outputVars, torn>>

\* Priming takes two fresh frames, whatever is held.
PrimeCurrent ==
  /\ sink = "current"
  /\ \/ read_source_frame /\ current' = Taken /\ sink' = "next" /\ UNCHANGED underran
     \/ NoSourceFrame /\ sink' = "frame" /\ UNCHANGED current
  /\ UNCHANGED <<nominal_step, sourceVars, next, phase, primed, position, torn>>

PrimeNext ==
  /\ sink = "next"
  /\ \/ /\ read_source_frame /\ next' = Taken /\ sink' = "frame" /\ UNCHANGED underran
        /\ phase' = 0 /\ primed' = TRUE
     \/ NoSourceFrame /\ sink' = "frame" /\ UNCHANGED <<next, phase, primed>>
  /\ UNCHANGED <<nominal_step, sourceVars, current, position, torn>>

\* Half of MaxDrift for every STARTUP_FRAMES of distance, at most MaxDrift.
correction(available_frames) ==
  LET error == ((available_frames - STARTUP_FRAMES) * MaxDrift) \div (2 * STARTUP_FRAMES)
  IN  IF error > MaxDrift THEN MaxDrift ELSE IF error < -MaxDrift THEN -MaxDrift ELSE error

FrameOf(samples) == samples[1][1]
Units == FrameNumbers * Unit

\* The interpolated frame, then the step by the corrected ratio.
Interpolate ==
  /\ sink = "frame" /\ primed
  /\ LoadVisible
  /\ phase' = phase + nominal_step + correction(visible' \div Channels)
  /\ sink' = "advance"
  /\ position' = FrameOf(current) * Unit + phase
  /\ underran' = FALSE
  /\ UNCHANGED <<nominal_step, sourceVars, ring, current, next, primed, torn>>

\* Fault: the loop breaks out and unprimes before the underrun is counted.
AdvanceUncounted ==
  /\ sink = "advance" /\ phase >= Unit
  /\ current' = next
  /\ \/ /\ read_source_frame /\ next' = Taken /\ phase' = phase - Unit
        /\ UNCHANGED <<sink, primed, underran>>
     \/ /\ LoadVisible /\ visible' < Channels /\ primed' = FALSE /\ sink' = "add"
        /\ UNCHANGED <<ring, next, phase, underran>>
  /\ UNCHANGED <<nominal_step, sourceVars, position, torn>>

\* while self.phase >= 1.0 { ... }; an underrun breaks out and unprimes.
Advance ==
  /\ sink = "advance" /\ phase >= Unit
  /\ current' = next
  /\ \/ /\ read_source_frame /\ next' = Taken /\ phase' = phase - Unit
        /\ UNCHANGED <<sink, primed, underran>>
     \/ NoSourceFrame /\ primed' = FALSE /\ sink' = "add" /\ UNCHANGED <<next, phase>>
  /\ UNCHANGED <<nominal_step, sourceVars, position, torn>>

\* add_audio_sample for every channel of the sink, or a return when one is missing.
AddSamples ==
  /\ sink = "add" \/ (sink = "advance" /\ phase < Unit)
  /\ sink' \in {"frame", "idle"}
  /\ UNCHANGED <<nominal_step, sourceVars, ring, visible, heldVars, outputVars, torn>>

-----------------------------------------------------------------------------
RouteNext ==
  \/ \E w \in 1..Channels : SourceCall(w)
  \/ SourceFrame \/ PushSample \/ NoSample \/ SourceReturn
  \/ SinkCall \/ PrimeWait \/ Prime \/ PrimeCurrent \/ PrimeNext
  \/ Interpolate \/ Advance \/ AddSamples \/ SinkReturn

RouteSpec == RouteInit /\ [][RouteNext]_routeVars

-----------------------------------------------------------------------------
(* Properties *)

\* As long as no frame was torn, the two frames that are interpolated have all their
\* channels, each in its place, and are neighbours: the check for room before a frame
\* covers all its pushes, no part of a frame is taken, and re-priming keeps the pair.
WholeNeighbours ==
  ~torn /\ primed =>
    \E f \in 0..(FrameNumbers - 1) :
      /\ current = [c \in 1..Channels |-> <<f, c - 1>>]
      /\ next = [c \in 1..Channels |-> <<(f + 1) % FrameNumbers, c - 1>>]

\* As long as no frame was torn, the output moves on from one frame to the next by the
\* nominal ratio, within the bound of the correction; when it does not, an underrun was
\* counted, nothing is played twice, and no more than the one frame that was held is
\* passed over.
SmoothOrCounted ==
  [][~torn /\ position >= 0 /\ Interpolate =>
       LET moved == (position' - position) % Units
       IN  IF underran THEN moved \in 1..(nominal_step + MaxDrift + Unit)
           ELSE moved \in (nominal_step - MaxDrift)..(nominal_step + MaxDrift)]_routeVars
=============================================================================
