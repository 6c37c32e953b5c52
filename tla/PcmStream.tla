------------------------------ MODULE PcmStream ------------------------------
(***************************************************************************)
(* A PCM stream of vcable-coreaudio (pcm.rs): a producer that puts frames  *)
(* into a ring, and the RingResampler that takes them out, interpolates    *)
(* between two of them and adapts its speed to the fill of the ring.       *)
(*                                                                         *)
(* In a playback stream the producer is a client's PcmWriter and the       *)
(* resampler runs in the Core Audio callback; in a capture stream the      *)
(* callback produces and a client's PcmReader resamples.  The two run      *)
(* concurrently.  The ring is the FIFO that SpscRing implements, with the  *)
(* same freedom of either side's view of it to lag behind.                 *)
(*                                                                         *)
(* Frames are numbered modulo FrameNumbers; their samples are left out.    *)
(* The phase counts in units of 1/Unit frame.                              *)
(***************************************************************************)
EXTENDS Integers, Sequences, FiniteSets

CONSTANTS Capacity,      \* capacity_frames
          Target,        \* target_fill_frames
          Unit,          \* phase units per frame
          MaxDrift,      \* bound of the correction, in phase units
          MaxSlice,      \* bound: frames of one write
          FrameNumbers   \* bound: frames are numbered modulo this

\* The configurations a stream is started with: a drift of a million ppm or more is refused.
validate_config ==
  /\ Capacity >= 2
  /\ 0 < Target /\ Target < Capacity
  /\ MaxDrift < Unit

\* There are numbers enough to tell the frames in flight apart.
ASSUME PcmAssumption ==
  /\ {Capacity, Target, Unit, MaxDrift} \subseteq Nat
  /\ validate_config
  /\ MaxSlice \in Nat \ {0}
  /\ FrameNumbers \in Nat /\ FrameNumbers > Capacity + 3

VARIABLES direction,   \* "Playback" or "Capture", for good
          ring,        \* the frames between producer and consumer
          used,        \* the producer's view of how many there are
          visible,     \* the consumer's view of how many there are
          fill,        \* ring_fill_frames
          pState,      \* the producer's next step
          pCount,      \* frames of its call
          pFrame,      \* number of the next new frame
          cState,      \* the consumer's next step
          current, next, \* the held frames; None when have_current, have_next are false
          phase, primed, has_primed,
          owed,        \* a frame is popped, remove_fill is not yet called
          counting,    \* next_frame's count_as_underrun
          outcome,     \* what the last call of the consumer did
          delivered,   \* history: a frame has been delivered before this call
          life         \* open; callback stopped; closed

streamVars == <<life, direction>>
producerVars == <<pState, pCount, pFrame>>
heldVars == <<current, next, phase>>
primeVars == <<primed, has_primed>>
callVars == <<counting, outcome, delivered>>
vars == <<ring, used, visible, fill, producerVars, cState, heldVars, primeVars, owed, callVars, streamVars>>

None == -1
Frames == 0..(FrameNumbers - 1)
After(f) == (f + 1) % FrameNumbers
Held == Cardinality({f \in {"current", "next"} : (IF f = "current" THEN current ELSE next) # None})
Larger(a, b) == IF a > b THEN a ELSE b
Smaller(a, b) == IF a < b THEN a ELSE b

\* Faults: a threshold below the two frames that are needed; one above what fits.
priming_thresholdOneLess == Larger(Target, 2) - 1
priming_thresholdPadded == Capacity + 1

\* RingResampler::new; two frames are needed to interpolate.
priming_threshold_frames == Larger(Target, 2)
control_span_frames == Smaller(Target, Capacity - Target)

\* The rates of client and device, which resolve_pcm_device requires to be equal.
nominal_step == Unit

\* Fault: the distance from one frame below the target.
drift_correctionOffByOne(buffered) ==
  LET error == ((buffered - Target + 1) * MaxDrift) \div control_span_frames
  IN  Larger(-MaxDrift, Smaller(MaxDrift, error))

\* drift_correction, in phase units: proportional to the distance from the target.
drift_correction(buffered) ==
  LET error == ((buffered - Target) * MaxDrift) \div control_span_frames
  IN  Larger(-MaxDrift, Smaller(MaxDrift, error))

Init ==
  /\ direction \in {"Playback", "Capture"}
  /\ ring = << >> /\ used = 0 /\ visible = 0 /\ fill = 0
  /\ pState = "idle" /\ pCount = 0 /\ pFrame = 0
  /\ cState = "idle" /\ current = None /\ next = None /\ phase = 0
  /\ primed = FALSE /\ has_primed = FALSE /\ owed = FALSE
  /\ counting = FALSE /\ outcome = "none" /\ delivered = FALSE
  /\ life = "open"

-----------------------------------------------------------------------------
(* Producer *)

\* available: the frames the producer believes to be in the ring, at least those
\* that are.
LoadUsed == \E n \in Len(ring)..used : used' = n

\* A writer's call ends early on a closed stream; a capture callback has stopped
\* before the stream is closed.
MayProduce ==
  pState = "idle" /\ life \in (IF direction = "Playback" THEN {"open", "stopped"} ELSE {"open"})

\* try_write_interleaved of n frames, or one frame of the capture callback, up to
\* add_fill: only when all of them fit.
Accept(n) ==
  /\ MayProduce
  /\ LoadUsed
  /\ n <= Capacity - used'
  /\ pCount' = n /\ pState' = "fill"
  /\ UNCHANGED <<ring, visible, fill, pFrame, cState, heldVars, primeVars, owed, callVars, streamVars>>

\* BufferFull, or an overrun frame.
Refuse(n) ==
  /\ MayProduce
  /\ LoadUsed
  /\ n > Capacity - used'
  /\ UNCHANGED <<ring, visible, fill, producerVars, cState, heldVars, primeVars, owed, callVars, streamVars>>

AddFill ==
  /\ pState = "fill"
  /\ fill' = fill + pCount
  /\ pState' = "push"
  /\ UNCHANGED <<ring, used, visible, pCount, pFrame, cState, heldVars, primeVars, owed, callVars, streamVars>>

\* push_slice; what the call answers after its second look at closed changes nothing.
Push ==
  /\ pState = "push"
  /\ ring' = ring \o [k \in 1..pCount |-> (pFrame + k - 1) % FrameNumbers]
  /\ used' = used + pCount
  /\ pFrame' = (pFrame + pCount) % FrameNumbers
  /\ pState' = "idle" /\ pCount' = 0
  /\ UNCHANGED <<visible, fill, cState, heldVars, primeVars, owed, callVars, streamVars>>

-----------------------------------------------------------------------------
(* Consumer: prepare_next_frame *)

\* available: any number of the frames pushed since the last look may be seen.
LoadVisible == \E n \in visible..Len(ring) : visible' = n

Return(what) ==
  /\ cState' = "idle"
  /\ outcome' = what
  /\ delivered' = (delivered \/ what = "frame")

\* A playback callback has stopped before the stream is closed.  A reader looks at
\* closed only before and after all the frames of its call: a call that has taken a
\* frame goes on when the stream is closed, and then ends in StreamClosed.
MayConsume ==
  /\ cState = "idle" /\ ~owed
  /\ direction = "Playback" => life = "open"
  /\ direction = "Capture" => life # "closed" \/ outcome = "frame"

\* Fault: the silence before the first frame is counted too.
StarvedAlways(primedBefore) == IF direction = "Playback" THEN "underrun" ELSE "silence"

\* A call without a frame; the playback callback counts it once has_primed.
Starved(primedBefore) == IF direction = "Playback" /\ primedBefore THEN "underrun" ELSE "silence"

\* A call that is priming and does not see enough frames.
PrimeWait ==
  /\ MayConsume /\ ~primed
  /\ LoadVisible
  /\ visible' + Held < priming_threshold_frames
  /\ counting' = has_primed
  /\ Return(Starved(has_primed))
  /\ UNCHANGED <<ring, used, fill, producerVars, heldVars, primeVars, owed, streamVars>>

\* A call that is primed or now becomes so.
Prime ==
  /\ MayConsume
  /\ IF primed THEN UNCHANGED visible
     ELSE LoadVisible /\ visible' + Held >= priming_threshold_frames
  /\ counting' = has_primed
  /\ primed' = TRUE /\ has_primed' = TRUE
  /\ cState' = "current" /\ outcome' = "none"
  /\ UNCHANGED <<ring, used, fill, producerVars, heldVars, owed, delivered, streamVars>>

\* Fault: a pop that forgets remove_fill.
PopUncounted ==
  /\ \E n \in Larger(1, visible)..Len(ring) : visible' = n - 1
  /\ ring' = Tail(ring)
  /\ UNCHANGED owed

\* pop_frame: the oldest frame leaves the ring; its remove_fill is a step of its own.
Pop ==
  /\ \E n \in Larger(1, visible)..Len(ring) : visible' = n - 1
  /\ ring' = Tail(ring)
  /\ owed' = TRUE

\* It sees no frame.
PopNothing == visible = 0 /\ UNCHANGED <<ring, visible, owed>>

RemoveFill ==
  /\ owed
  /\ fill' = fill - 1 /\ owed' = FALSE
  /\ UNCHANGED <<ring, used, visible, producerVars, cState, heldVars, primeVars, callVars, streamVars>>

\* A pop that was needed sees no frame: what is held is kept, and priming starts
\* again.  (PrimedDelivers says that this does not happen.)
GiveUp ==
  /\ PopNothing
  /\ primed' = FALSE
  /\ Return(Starved(counting))
  /\ UNCHANGED <<current, next>>

\* if !self.have_current { ... }
TakeCurrent ==
  /\ cState = "current" /\ ~owed
  /\ \/ /\ IF current # None THEN UNCHANGED <<ring, visible, owed, current>>
           ELSE Pop /\ current' = Head(ring)
        /\ cState' = "next"
        /\ UNCHANGED <<next, primed, outcome, delivered>>
     \/ current = None /\ GiveUp
  /\ UNCHANGED <<used, fill, producerVars, phase, has_primed, counting, streamVars>>

\* if !self.have_next { ... }
TakeNext ==
  /\ cState = "next" /\ ~owed
  /\ \/ /\ IF next # None THEN UNCHANGED <<ring, visible, owed, next>>
           ELSE Pop /\ next' = Head(ring)
        /\ cState' = "mix"
        /\ UNCHANGED <<current, primed, outcome, delivered>>
     \/ next = None /\ GiveUp
  /\ UNCHANGED <<used, fill, producerVars, phase, has_primed, counting, streamVars>>

\* The interpolated frame, then the step by the corrected ratio.
Mix ==
  /\ cState = "mix" /\ ~owed
  /\ LoadVisible
  /\ phase' = phase + nominal_step + drift_correction(visible' + Held)
  /\ cState' = "advance"
  /\ UNCHANGED <<ring, used, fill, producerVars, current, next, primeVars, owed, callVars, streamVars>>

\* Fault: the next frame replaces the current one only when there is another.
AdvanceForgetful ==
  /\ cState = "advance" /\ ~owed
  /\ phase >= Unit /\ next # None
  /\ phase' = phase - Unit
  /\ \/ Pop /\ current' = next /\ next' = Head(ring)
     \/ PopNothing /\ next' = None /\ UNCHANGED current
  /\ UNCHANGED <<used, fill, producerVars, cState, primeVars, callVars, streamVars>>

\* while self.phase >= 1.0 && self.have_next { ... }
Advance ==
  /\ cState = "advance" /\ ~owed
  /\ phase >= Unit /\ next # None
  /\ current' = next /\ phase' = phase - Unit
  /\ \/ Pop /\ next' = Head(ring)
     \/ PopNothing /\ next' = None
  /\ UNCHANGED <<used, fill, producerVars, cState, primeVars, callVars, streamVars>>

Deliver ==
  /\ cState = "advance" /\ ~owed
  /\ phase < Unit \/ next = None
  /\ primed' = (next # None)
  /\ Return("frame")
  /\ UNCHANGED <<ring, used, visible, fill, producerVars, heldVars, has_primed, owed, counting, streamVars>>

-----------------------------------------------------------------------------
(* Drop of the stream *)

\* The platform stream stops its callback, which waits for one that is running.
Stop ==
  /\ life = "open"
  /\ IF direction = "Playback" THEN cState = "idle" /\ ~owed ELSE pState = "idle"
  /\ life' = "stopped"
  /\ UNCHANGED <<ring, used, visible, fill, producerVars, cState, heldVars, primeVars, owed, callVars, direction>>

Close ==
  /\ life = "stopped"
  /\ life' = "closed"
  /\ UNCHANGED <<ring, used, visible, fill, producerVars, cState, heldVars, primeVars, owed, callVars, direction>>

-----------------------------------------------------------------------------
Sizes == IF direction = "Playback" THEN 0..MaxSlice ELSE {1}

Produce == AddFill \/ Push \/ \E n \in Sizes : Accept(n) \/ Refuse(n)

Consume ==
  \/ PrimeWait \/ Prime
  \/ TakeCurrent \/ TakeNext
  \/ RemoveFill
  \/ Mix \/ Advance \/ Deliver

Next == Produce \/ Consume \/ Stop \/ Close

\* The callback runs as long as the device does; the client keeps offering frames
\* that fit, or calls for some; an index that was stored is seen some day.  Nobody
\* has to drop the stream.
Fairness ==
  /\ WF_vars(AddFill \/ Push)
  /\ SF_vars(Accept(1))
  /\ WF_vars(Consume)
  /\ SF_vars(Prime)

Spec == Init /\ [][Next]_vars /\ Fairness

-----------------------------------------------------------------------------
(* Properties *)

\* Type correctness, with the ring within capacity_frames and each side's view of it
\* on the safe side of the truth.
TypeOK ==
  /\ direction \in {"Playback", "Capture"}
  /\ ring \in Seq(Frames) /\ Len(ring) <= Capacity /\ fill \in Int
  /\ visible \in 0..Len(ring) /\ used \in Len(ring)..Capacity
  /\ pState \in {"idle", "fill", "push"} /\ pCount \in 0..MaxSlice /\ pFrame \in Frames
  /\ cState \in {"idle", "current", "next", "mix", "advance"}
  /\ current \in Frames \cup {None} /\ next \in Frames \cup {None} /\ phase \in Nat
  /\ primed \in BOOLEAN /\ has_primed \in BOOLEAN /\ owed \in BOOLEAN /\ counting \in BOOLEAN
  /\ outcome \in {"none", "frame", "silence", "underrun"} /\ delivered \in BOOLEAN
  /\ life \in {"open", "stopped", "closed"}

\* The fill metric never runs behind the ring, so the usize never wraps: add_fill
\* before the push and remove_fill after the pop, whatever the two sides do between
\* ("This prevents a consumer-side decrement from racing ahead").  It is exact
\* when no call is in progress.
FillCoversRing ==
  fill = Len(ring) + (IF pState = "push" THEN pCount ELSE 0) + (IF owed THEN 1 ELSE 0)

\* Once the threshold is seen, the same call delivers a frame: it never starves
\* between priming and its two frames, so re-priming cannot stutter.
PrimedDelivers ==
  [][~(cState \in {"current", "next"} /\ cState' = "idle")]_vars

\* No frame is skipped, repeated or reordered from the producer through the ring to
\* the two held frames, through every underrun and every re-priming; a stream that
\* has played keeps a frame to go on from.
Newest == IF next # None THEN next ELSE current
NoFrameLost ==
  /\ delivered => current # None
  /\ next # None => current # None /\ next = After(current)
  /\ \A k \in 1..(Len(ring) - 1) : ring[k + 1] = After(ring[k])
  /\ ring # << >> /\ Newest # None => ring[1] = After(Newest)
  /\ ring # << >> => pFrame = After(ring[Len(ring)])

\* The silence before the first frame is not an underrun, and every callback without
\* a frame after it is.
UnderrunsCounted ==
  /\ outcome = "underrun" => delivered
  /\ outcome = "silence" /\ direction = "Playback" => ~delivered

\* As long as the producer offers frames and the consumer calls, frames come: the
\* ring holds enough for the priming threshold.
KeepsDelivering == []<>(outcome = "frame" \/ life # "open")

\* The resampler interpolates: when a frame is mixed, the weight of the next frame is
\* below one.  An underrun in the middle of the advance must not leave a whole
\* frame in the phase.  Holds when Target is at least the two frames held; with
\* a Target of one the correction is positive although the ring is empty.
InterpolatesBetween == cState = "mix" => phase < Unit
==============================================================================
