------------------------------ MODULE Loopback ------------------------------
(***************************************************************************)
(* The loopback buffer of a virtual device (Device::Write, Device::Read in *)
(* VCableDriver.cpp): what is written to the output at sample time t is    *)
(* read from the input at t + kLoopbackLatencyFrames, through a ring of    *)
(* frames that carry the time they were written for as a tag.              *)
(*                                                                         *)
(* Write and Read run concurrently and share samples and tags without a    *)
(* lock, one atomic access at a time.  The release store of a tag and its  *)
(* acquire load order the samples of that frame; within the window below   *)
(* the two sides touch no frame's samples at once without it.              *)
(***************************************************************************)
EXTENDS Integers

CONSTANTS RingFrames,     \* kRingFrames
          Latency,        \* kLoopbackLatencyFrames
          inputChannels, outputChannels,
          MaxCall,        \* bound: frames of one I/O operation
          MaxFrame,       \* bound: sample times of a session
          MaxClients,     \* bound: running clients
          MaxSessions     \* bound: times I/O starts from nothing

ASSUME LoopbackAssumption ==
  /\ {RingFrames, Latency, inputChannels, outputChannels, MaxCall, MaxClients} \subseteq Nat \ {0}
  /\ Latency < RingFrames
  /\ MaxFrame \in Nat /\ MaxSessions \in Nat

VARIABLES tags,          \* ring frame -> time written for, plus one; 0 for none
          samples,       \* ring frame -> channel -> value
          runningClients,
          inputActive, outputActive,
          outputTime,    \* the sample time after the last WriteMix operation
          wFrame, wLeft, wChannel,          \* Write: absoluteFrame, frames to do, channel
          rState, rFrame, rLeft, rChannel,  \* Read: inputFrame, frames to do, channel
          rOut,          \* the output frame
          session,       \* history: which start of I/O this is
          published,     \* history: the times whose tag this session has stored
          rDue           \* history: the frame being read was published when its tag was read

ring == <<tags, samples>>
writer == <<wFrame, wLeft, wChannel, outputTime>>
reader == <<rState, rFrame, rLeft, rChannel, rOut, rDue>>
switches == <<inputActive, outputActive>>
clients == <<runningClients, session>>
vars == <<ring, writer, reader, switches, clients, published>>

sampleStride == IF inputChannels > outputChannels THEN inputChannels ELSE outputChannels
RingFrame(f) == f % RingFrames

\* Values: silence, or what a client gave for a channel of a time in a session.
Zero == <<0, 0, 0>>
Given(f, c) == <<session, f, c>>

Silence == [c \in 0..(inputChannels - 1) |-> Zero]

\* What belongs at the input Latency after f: the channels there are on both sides.
Whole(f) == [c \in 0..(inputChannels - 1) |-> IF c < outputChannels THEN Given(f, c) ELSE Zero]

Init ==
  /\ tags = [k \in 0..(RingFrames - 1) |-> 0]
  /\ samples = [k \in 0..(RingFrames - 1) |-> [c \in 0..(sampleStride - 1) |-> Zero]]
  /\ runningClients = 0 /\ session = 0
  /\ inputActive = TRUE /\ outputActive = TRUE
  /\ outputTime = 0 /\ wFrame = 0 /\ wLeft = 0 /\ wChannel = 0
  /\ rState = "idle" /\ rFrame = 0 /\ rLeft = 0 /\ rChannel = 0 /\ rOut = Silence /\ rDue = FALSE
  /\ published = {}

-----------------------------------------------------------------------------
(* Start and end of I/O *)

\* Fault: every client that starts clears the tags.
StartIOClearing ==
  /\ runningClients < MaxClients /\ (runningClients = 0 => session < MaxSessions)
  /\ runningClients' = runningClients + 1
  /\ tags' = [k \in 0..(RingFrames - 1) |-> 0]
  /\ IF runningClients = 0
     THEN session' = session + 1 /\ outputTime' = 0 /\ published' = {}
     ELSE UNCHANGED <<session, outputTime, published>>
  /\ UNCHANGED <<samples, wFrame, wLeft, wChannel, reader, switches>>

\* The first client clears the tags and sets the anchor from which sample time counts
\* anew; the host asks for no I/O operation before the call has returned.
StartIO ==
  /\ runningClients < MaxClients /\ (runningClients = 0 => session < MaxSessions)
  /\ runningClients' = runningClients + 1
  /\ IF runningClients = 0
     THEN /\ tags' = [k \in 0..(RingFrames - 1) |-> 0]
          /\ session' = session + 1 /\ outputTime' = 0 /\ published' = {}
     ELSE UNCHANGED <<tags, session, outputTime, published>>
  /\ UNCHANGED <<samples, wFrame, wLeft, wChannel, reader, switches>>

\* The host ends its I/O operations before the last client stops.
StopIO ==
  /\ runningClients > 0
  /\ runningClients = 1 => wLeft = 0 /\ rState = "idle"
  /\ runningClients' = runningClients - 1
  /\ UNCHANGED <<ring, writer, reader, switches, session, published>>

\* SetPropertyData of a stream's IsActive.
SetActive ==
  /\ \/ inputActive' = ~inputActive /\ UNCHANGED outputActive
     \/ outputActive' = ~outputActive /\ UNCHANGED inputActive
  /\ UNCHANGED <<ring, writer, reader, clients, published>>

-----------------------------------------------------------------------------
(* DoIOOperation *)

\* The cycle's time, a Float64 that is negative before the anchor.
SampleTime(t) == IF t < 0 THEN 0 ELSE t

\* The oldest frame that a Read at input time f, or a later one of its frames, takes.
Source(f) == IF f < Latency THEN 0 ELSE f - Latency

\* The host keeps input and output less than the ring apart.
InWindow(lastOut, in) == lastOut < Source(in) + RingFrames

\* WriteMix of n frames: output times grow, with or without gaps.
WriteMix(t, n) ==
  /\ runningClients > 0 /\ wLeft = 0
  /\ t >= outputTime /\ t + n - 1 <= MaxFrame
  /\ rState # "idle" => InWindow(t + n - 1, rFrame)
  /\ outputTime' = t + n
  /\ IF outputActive
     THEN wFrame' = SampleTime(t) /\ wLeft' = n /\ wChannel' = 0
     ELSE UNCHANGED <<wFrame, wLeft, wChannel>>
  /\ UNCHANGED <<ring, reader, switches, clients, published>>

\* ReadInput of n frames; an inactive input gives silence at once.
ReadInput(t, n) ==
  /\ runningClients > 0 /\ rState = "idle"
  /\ InWindow(outputTime - 1, SampleTime(t)) /\ SampleTime(t) + n - 1 <= MaxFrame + Latency
  /\ IF inputActive
     THEN rState' = "check" /\ rFrame' = SampleTime(t) /\ rLeft' = n
     ELSE UNCHANGED <<rState, rFrame, rLeft>>
  /\ UNCHANGED <<ring, writer, rChannel, rOut, rDue, switches, clients, published>>

-----------------------------------------------------------------------------
(* Device::Write *)

\* The channels of the frame one by one; those the output lacks become zero.
WriteSample ==
  /\ wLeft > 0 /\ wChannel < sampleStride
  /\ samples' = [samples EXCEPT ![RingFrame(wFrame)][wChannel] =
                   IF wChannel < outputChannels THEN Given(wFrame, wChannel) ELSE Zero]
  /\ wChannel' = wChannel + 1
  /\ UNCHANGED <<tags, wFrame, wLeft, outputTime, reader, switches, clients, published>>

\* Fault: the tag is stored before the samples.
WriteTagEarly ==
  /\ wLeft > 0
  /\ \/ /\ wChannel = 0 /\ tags[RingFrame(wFrame)] # wFrame + 1
        /\ tags' = [tags EXCEPT ![RingFrame(wFrame)] = wFrame + 1]
        /\ published' = published \cup {wFrame}
        /\ UNCHANGED <<wFrame, wLeft, wChannel>>
     \/ /\ wChannel = sampleStride
        /\ wFrame' = wFrame + 1 /\ wLeft' = wLeft - 1 /\ wChannel' = 0
        /\ UNCHANGED <<tags, published>>
  /\ UNCHANGED <<samples, outputTime, reader, switches, clients>>

\* Then the tag, and on to the next frame.
WriteTag ==
  /\ wLeft > 0 /\ wChannel = sampleStride
  /\ tags' = [tags EXCEPT ![RingFrame(wFrame)] = wFrame + 1]
  /\ published' = published \cup {wFrame}
  /\ wFrame' = wFrame + 1 /\ wLeft' = wLeft - 1 /\ wChannel' = 0
  /\ UNCHANGED <<samples, outputTime, reader, switches, clients>>

-----------------------------------------------------------------------------
(* Device::Read *)

\* The frame is there, with the very time it is wanted for.
Tagged(f) == f >= Latency /\ tags[RingFrame(f - Latency)] = f - Latency + 1

\* The output is cleared in advance; a frame that is not there stays silent.
ReadTag ==
  /\ rState = "check"
  /\ rState' = IF Tagged(rFrame) THEN "copy" ELSE "done"
  /\ rChannel' = 0 /\ rOut' = Silence
  /\ rDue' = (rFrame >= Latency /\ rFrame - Latency \in published)
  /\ UNCHANGED <<ring, writer, rFrame, rLeft, switches, clients, published>>

\* The channels there are on both sides, one by one.
ReadSample ==
  /\ rState = "copy"
  /\ rOut' = [rOut EXCEPT ![rChannel] = samples[RingFrame(rFrame - Latency)][rChannel]]
  /\ rChannel' = rChannel + 1
  /\ rState' = IF rChannel + 1 < inputChannels /\ rChannel + 1 < outputChannels THEN "copy" ELSE "done"
  /\ UNCHANGED <<ring, writer, rFrame, rLeft, rDue, switches, clients, published>>

ReadNext ==
  /\ rState = "done"
  /\ rFrame' = rFrame + 1 /\ rLeft' = rLeft - 1
  /\ rState' = IF rLeft = 1 THEN "idle" ELSE "check"
  /\ UNCHANGED <<ring, writer, rChannel, rOut, rDue, switches, clients, published>>

-----------------------------------------------------------------------------
Next ==
  \/ StartIO \/ StopIO \/ SetActive
  \/ \E t \in 0..MaxFrame, n \in 1..MaxCall : WriteMix(t, n)
  \/ \E t \in -1..(MaxFrame + Latency), n \in 1..MaxCall : ReadInput(t, n)
  \/ WriteSample \/ WriteTag
  \/ ReadTag \/ ReadSample \/ ReadNext

Spec == Init /\ [][Next]_vars

-----------------------------------------------------------------------------
(* Properties *)

\* What Read gives for a time is silence or the frame that was written for exactly
\* that time, in this session, with all its channels: never a part of a frame, a
\* frame of a ring's length before, or one of before the last start of I/O.
HearsThatFrame ==
  rState = "done" => rOut = Silence \/ (rFrame >= Latency /\ rOut = Whole(rFrame - Latency))

\* A frame whose Write was over when Read came to it is heard, whoever starts, stops
\* or switches a stream meanwhile.
PublishedHeard == rState = "done" /\ rDue => rOut = Whole(rFrame - Latency)
=============================================================================
