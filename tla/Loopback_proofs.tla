-------------------------- MODULE Loopback_proofs --------------------------
(***************************************************************************)
(* Proofs about the loopback buffer for every ring, latency, number of     *)
(* channels and length of an I/O operation: while the host keeps the two   *)
(* sides less than the ring apart, Read hears the very frame that Write    *)
(* published for its time, whole and of this session, or silence.          *)
(***************************************************************************)
EXTENDS Loopback, TLAPS

Slots == 0..(RingFrames - 1)
Values == Nat \X Nat \X Nat

TypeOK ==
  /\ tags \in [Slots -> Nat]
  /\ samples \in [Slots -> [0..(sampleStride - 1) -> Values]]
  /\ runningClients \in Nat /\ session \in Nat
  /\ inputActive \in BOOLEAN /\ outputActive \in BOOLEAN
  /\ outputTime \in Nat /\ wFrame \in Nat /\ wLeft \in Nat /\ wChannel \in 0..sampleStride
  /\ rState \in {"idle", "check", "copy", "done"} /\ rFrame \in Nat /\ rLeft \in Nat /\ rChannel \in Nat
  /\ rOut \in [0..(inputChannels - 1) -> Values] /\ rDue \in BOOLEAN
  /\ published \subseteq Nat

\* The host's side of the contract, as the operations it asks for keep it: no operation
\* without a client, the writer ends at the output time, and the reader has all that is
\* written so far in the ring's length before it.
Hosted ==
  /\ runningClients = 0 => wLeft = 0 /\ rState = "idle"
  /\ wLeft > 0 => wFrame + wLeft = outputTime
  /\ rState # "idle" => outputTime <= Source(rFrame) + RingFrames /\ rLeft > 0

\* The frame that Write has in hand, as far as it is written.
Channel(f, c) == IF c < outputChannels THEN Given(f, c) ELSE Zero
InHand == wLeft > 0 => \A c \in 0..(wChannel - 1) : samples[RingFrame(wFrame)][c] = Channel(wFrame, c)

\* What is published lies before what is written next.
Behind ==
  \A f \in published : f < outputTime /\ (wLeft > 0 => f < wFrame)

\* A tag names a published frame of its slot, whose samples are there unless Write is
\* about to replace them; a published frame has its tag, or a later one took its place.
Overwriting(k) == wLeft > 0 /\ RingFrame(wFrame) = k
TagsTrue ==
  \A k \in Slots : tags[k] # 0 =>
    /\ tags[k] - 1 \in published /\ RingFrame(tags[k] - 1) = k
    /\ Overwriting(k) \/ \A c \in 0..(sampleStride - 1) : samples[k][c] = Channel(tags[k] - 1, c)
Superseded == \A f \in published : tags[RingFrame(f)] >= f + 1

\* Read in the middle of a frame.
Copying ==
  rState = "copy" =>
    /\ Tagged(rFrame) /\ rChannel < inputChannels /\ rChannel < outputChannels
    /\ \A c \in 0..(inputChannels - 1) :
         rOut[c] = IF c < rChannel THEN Given(rFrame - Latency, c) ELSE Zero

IndInv ==
  /\ TypeOK /\ Hosted /\ InHand /\ Behind /\ TagsTrue /\ Superseded
  /\ Copying /\ HearsThatFrame /\ PublishedHeard

-----------------------------------------------------------------------------
(* Constants and operators *)

\* The constants, and the widest side of the device.
LEMMA Sizes ==
  /\ RingFrames \in Nat /\ RingFrames > 0 /\ Latency \in Nat /\ Latency > 0 /\ Latency < RingFrames
  /\ inputChannels \in Nat /\ inputChannels > 0 /\ outputChannels \in Nat /\ outputChannels > 0
  /\ MaxCall \in Nat /\ MaxClients \in Nat /\ MaxFrame \in Nat /\ MaxSessions \in Nat
  /\ sampleStride \in Nat /\ inputChannels <= sampleStride /\ outputChannels <= sampleStride
  BY LoopbackAssumption DEF sampleStride

\* Two frames less than the ring apart have different slots.
LEMMA SlotsDiffer ==
  /\ \A f \in Nat : RingFrame(f) \in Slots
  /\ \A f, g \in Nat : f < g /\ g < f + RingFrames => RingFrame(f) # RingFrame(g)
<1> DEFINE N == RingFrames
<1>1. N \in Nat /\ N > 0
  BY Sizes
<1> HIDE DEF N
<1>2. \A f \in Nat : (f % N) \in 0..(N - 1) /\ f = (f \div N) * N + (f % N) /\ f \div N \in Int
  BY <1>1
<1>3. ASSUME NEW f \in Nat, NEW g \in Nat, f < g, g < f + N, f % N = g % N
      PROVE  FALSE
  <2> DEFINE p == f \div N
             q == g \div N
             r == f % N
  <2>1. p \in Int /\ q \in Int /\ r \in Int /\ f = p * N + r /\ g = q * N + r
    BY <1>2, <1>3
  <2> HIDE DEF p, q, r
  <2>2. (q - p) * N = g - f
    BY <1>1, <2>1
  <2>3. CASE q - p <= 0
    <3>1. (q - p) * N <= 0
      BY <1>1, <2>1, <2>3
    <3> QED BY <1>3, <2>2, <3>1
  <2>4. CASE q - p >= 1
    <3>1. (q - p) * N >= N
      BY <1>1, <2>1, <2>4
    <3> QED BY <1>1, <1>3, <2>2, <3>1
  <2> QED BY <2>1, <2>3, <2>4
<1> QED
  BY <1>2, <1>3 DEF N, RingFrame, Slots

\* The values are of their kind.
LEMMA ValueTypes ==
  ASSUME session \in Nat
  PROVE  /\ Zero \in Values
         /\ \A f, c \in Nat : Given(f, c) \in Values /\ Channel(f, c) \in Values
         /\ Silence \in [0..(inputChannels - 1) -> Values]
<1>1. Zero \in Values
  BY DEF Zero, Values
<1>2. \A f, c \in Nat : Given(f, c) \in Values
  BY DEF Given, Values
<1> QED
  BY <1>1, <1>2 DEF Channel, Silence

\* A frame that is published when its reader is within the window still has its tag.
LEMMA StillTagged ==
  ASSUME IndInv, rState # "idle", rFrame >= Latency, rFrame - Latency \in published
  PROVE  Tagged(rFrame)
<1> DEFINE f == rFrame - Latency
           k == RingFrame(f)
           g == tags[k] - 1
<1>1. f \in Nat /\ k \in Slots /\ tags[k] \in Nat
  BY Sizes, SlotsDiffer DEF IndInv, TypeOK
<1>2. tags[k] >= f + 1
  BY DEF IndInv, Superseded
<1>3. g \in published /\ RingFrame(g) = k
  BY <1>1, <1>2 DEF IndInv, TagsTrue
<1>4. g \in Nat /\ g >= f /\ g < outputTime /\ outputTime \in Nat
  BY <1>1, <1>2, <1>3 DEF IndInv, TypeOK, Behind
<1>5. outputTime <= f + RingFrames
  BY Sizes DEF IndInv, TypeOK, Hosted, Source
<1>6. ~(f < g)
  <2> HIDE DEF f, g
  <2>1. g < f + RingFrames
    BY <1>1, <1>4, <1>5, Sizes
  <2> QED BY <1>1, <1>3, <1>4, <2>1, SlotsDiffer
<1>7. tags[k] = f + 1
  BY <1>1, <1>4, <1>6
<1> QED
  BY <1>7 DEF Tagged

\* Nobody overwrites a published frame that a reader within the window may want.
LEMMA NotOverwritten ==
  ASSUME IndInv, rState # "idle", rFrame >= Latency, rFrame - Latency \in published
  PROVE  ~Overwriting(RingFrame(rFrame - Latency))
<1> SUFFICES ASSUME wLeft > 0, RingFrame(wFrame) = RingFrame(rFrame - Latency) PROVE FALSE
  BY DEF Overwriting
<1> DEFINE f == rFrame - Latency
<1>1. f \in Nat /\ wFrame \in Nat /\ wLeft \in Nat /\ outputTime \in Nat
  BY Sizes DEF IndInv, TypeOK
<1>2. f < wFrame /\ wFrame < outputTime
  BY <1>1 DEF IndInv, Behind, Hosted
<1>3. outputTime <= f + RingFrames
  BY Sizes DEF IndInv, TypeOK, Hosted, Source
<1> HIDE DEF f
<1>4. wFrame < f + RingFrames
  BY <1>1, <1>2, <1>3, Sizes
<1> QED
  BY <1>1, <1>2, <1>4, SlotsDiffer DEF f

\* A frame whose tag is seen is published.
LEMMA TaggedPublished ==
  ASSUME IndInv, Tagged(rFrame)
  PROVE  rFrame >= Latency /\ rFrame - Latency \in Nat /\ rFrame - Latency \in published
<1>1. rFrame >= Latency /\ rFrame - Latency \in Nat
  BY Sizes DEF IndInv, TypeOK, Tagged
<1>2. RingFrame(rFrame - Latency) \in Slots
  BY <1>1, SlotsDiffer
<1>3. tags[RingFrame(rFrame - Latency)] # 0 /\ tags[RingFrame(rFrame - Latency)] - 1 = rFrame - Latency
  BY <1>1 DEF Tagged
<1> QED
  BY <1>1, <1>2, <1>3 DEF IndInv, TagsTrue

-----------------------------------------------------------------------------
(* The steps *)

\* Read's part depends on the ring only through the tag of the frame being copied.
LEMMA ReaderUntouched ==
  ASSUME IndInv, UNCHANGED <<rState, rFrame, rChannel, rOut, rDue, session>>,
         rState = "copy" => Tagged(rFrame)'
  PROVE  Copying' /\ HearsThatFrame' /\ PublishedHeard'
  BY DEF IndInv, Copying, HearsThatFrame, PublishedHeard, Given, Whole

\* The writer's and the ring's parts, when neither moves.
LEMMA RingUntouched ==
  ASSUME IndInv, UNCHANGED <<tags, samples, wFrame, wLeft, wChannel, outputTime, session, published>>
  PROVE  /\ InHand' /\ Behind' /\ TagsTrue' /\ Superseded'
         /\ Tagged(rFrame)' <=> (rFrame' >= Latency /\ tags[RingFrame(rFrame' - Latency)] = rFrame' - Latency + 1)
  BY DEF IndInv, InHand, Behind, TagsTrue, Superseded, Overwriting, Channel, Given, Tagged, RingFrame

\* Init establishes the invariant.
LEMMA InitIndInv == Init => IndInv
<1> SUFFICES ASSUME Init PROVE IndInv
  OBVIOUS
<1>1. TypeOK
  <2>1. session \in Nat /\ published \subseteq Nat /\ rDue \in BOOLEAN
    BY DEF Init
  <2>2. Zero \in Values /\ rOut \in [0..(inputChannels - 1) -> Values]
    BY <2>1, ValueTypes DEF Init
  <2>3. tags \in [Slots -> Nat] /\ samples \in [Slots -> [0..(sampleStride - 1) -> Values]]
    BY <2>2 DEF Init, Slots
  <2>4. wChannel \in 0..sampleStride
    BY Sizes DEF Init
  <2> QED BY <2>1, <2>2, <2>3, <2>4 DEF Init, TypeOK
<1>2. Hosted /\ InHand /\ Behind /\ Superseded
  BY DEF Init, Hosted, InHand, Behind, Superseded
<1>3. TagsTrue
  BY DEF Init, TagsTrue, Slots
<1>4. Copying /\ HearsThatFrame /\ PublishedHeard
  BY DEF Init, Copying, HearsThatFrame, PublishedHeard
<1> QED
  BY <1>1, <1>2, <1>3, <1>4 DEF IndInv

\* The first client finds nobody at work and starts with an empty ring of tags.
LEMMA StartIOStep ==
  ASSUME IndInv, StartIO
  PROVE  IndInv'
<1>1. /\ runningClients' = runningClients + 1
      /\ UNCHANGED <<samples, wFrame, wLeft, wChannel, rState, rFrame, rLeft, rChannel, rOut, rDue,
                     inputActive, outputActive>>
  BY DEF StartIO, reader, switches
<1>2. runningClients \in Nat /\ runningClients' # 0 /\ runningClients' \in Nat
  BY <1>1 DEF IndInv, TypeOK
<1>3. CASE runningClients = 0
  <2>1. /\ tags' = [k \in 0..(RingFrames - 1) |-> 0]
        /\ session' = session + 1 /\ outputTime' = 0 /\ published' = {}
        /\ wLeft = 0 /\ rState = "idle"
    BY <1>3 DEF StartIO, IndInv, Hosted
  <2>2. tags' \in [Slots -> Nat] /\ \A k \in Slots : tags'[k] = 0
    BY <2>1 DEF Slots
  <2>3. session' \in Nat /\ outputTime' \in Nat /\ published' \subseteq Nat
    BY <2>1 DEF IndInv, TypeOK
  <2>4. TypeOK'
    BY <1>1, <1>2, <2>2, <2>3 DEF IndInv, TypeOK
  <2>5. Hosted' /\ InHand' /\ Behind' /\ Superseded'
    BY <1>1, <1>2, <2>1 DEF Hosted, InHand, Behind, Superseded
  <2>6. TagsTrue'
    BY <2>2 DEF TagsTrue
  <2>7. Copying' /\ HearsThatFrame' /\ PublishedHeard'
    BY <1>1, <2>1 DEF Copying, HearsThatFrame, PublishedHeard
  <2> QED BY <2>4, <2>5, <2>6, <2>7 DEF IndInv
<1>4. CASE runningClients # 0
  <2>1. UNCHANGED <<tags, session, outputTime, published>>
    BY <1>4 DEF StartIO
  <2>2. TypeOK'
    BY <1>1, <1>2, <2>1 DEF IndInv, TypeOK
  <2>3. Hosted'
    BY <1>1, <1>2, <2>1 DEF IndInv, Hosted, Source
  <2>4. InHand' /\ Behind' /\ TagsTrue' /\ Superseded'
    BY <1>1, <2>1, RingUntouched
  <2>5. Copying' /\ HearsThatFrame' /\ PublishedHeard'
    BY <1>1, <2>1, ReaderUntouched, RingUntouched DEF IndInv, Copying, Tagged
  <2> QED BY <2>2, <2>3, <2>4, <2>5 DEF IndInv
<1> QED
  BY <1>3, <1>4

\* The last client stops when both sides are idle; switches and nothing change nothing here.
LEMMA StopStep ==
  ASSUME IndInv, StopIO \/ SetActive \/ UNCHANGED vars
  PROVE  IndInv'
<1>1. UNCHANGED <<tags, samples, wFrame, wLeft, wChannel, outputTime, session, published,
                 rState, rFrame, rLeft, rChannel, rOut, rDue>>
  BY DEF StopIO, SetActive, vars, ring, writer, reader, clients
<1>2. /\ runningClients' \in Nat
      /\ runningClients' = 0 => runningClients = 0 \/ (wLeft = 0 /\ rState = "idle")
      /\ inputActive' \in BOOLEAN /\ outputActive' \in BOOLEAN
  <2>1. CASE StopIO
    BY <2>1 DEF IndInv, TypeOK, StopIO, switches
  <2>2. CASE SetActive
    BY <2>2 DEF IndInv, TypeOK, SetActive, clients
  <2>3. CASE UNCHANGED vars
    BY <2>3 DEF IndInv, TypeOK, vars, switches, clients
  <2> QED BY <2>1, <2>2, <2>3
<1>3. TypeOK'
  BY <1>1, <1>2 DEF IndInv, TypeOK
<1>4. Hosted'
  BY <1>1, <1>2 DEF IndInv, Hosted, Source
<1>5. InHand' /\ Behind' /\ TagsTrue' /\ Superseded'
  BY <1>1, RingUntouched
<1>6. Copying' /\ HearsThatFrame' /\ PublishedHeard'
  BY <1>1, ReaderUntouched, RingUntouched DEF IndInv, Copying, Tagged
<1> QED
  BY <1>3, <1>4, <1>5, <1>6 DEF IndInv

\* WriteMix: a new operation begins at or after the output time, within the window.
LEMMA WriteMixStep ==
  ASSUME IndInv, NEW t \in 0..MaxFrame, NEW n \in 1..MaxCall, WriteMix(t, n)
  PROVE  IndInv'
<1>1. /\ wLeft = 0 /\ runningClients > 0 /\ t >= outputTime
      /\ rState # "idle" => t + n - 1 < Source(rFrame) + RingFrames
      /\ outputTime' = t + n
      /\ IF outputActive THEN wFrame' = SampleTime(t) /\ wLeft' = n /\ wChannel' = 0
         ELSE UNCHANGED <<wFrame, wLeft, wChannel>>
      /\ UNCHANGED <<tags, samples, session, runningClients, published, inputActive, outputActive,
                     rState, rFrame, rLeft, rChannel, rOut, rDue>>
  BY DEF WriteMix, InWindow, ring, reader, switches, clients
<1>2. /\ t \in Nat /\ n \in Nat /\ n > 0 /\ outputTime \in Nat /\ SampleTime(t) = t
      /\ wFrame \in Nat /\ Source(rFrame) \in Nat /\ RingFrames \in Nat
  BY Sizes DEF IndInv, TypeOK, SampleTime, Source
<1>3. TypeOK'
  <2>1. outputTime' \in Nat /\ wFrame' \in Nat /\ wLeft' \in Nat /\ wChannel' \in 0..sampleStride
    BY <1>1, <1>2, Sizes DEF IndInv, TypeOK
  <2> QED BY <1>1, <2>1 DEF IndInv, TypeOK
<1>4. Hosted'
  <2>1. wLeft' > 0 => wFrame' + wLeft' = outputTime'
    BY <1>1, <1>2
  <2>2. rState' # "idle" => outputTime' <= Source(rFrame)' + RingFrames /\ rLeft' > 0
    <3>1. rState # "idle" => t + n <= Source(rFrame) + RingFrames
      BY <1>1, <1>2
    <3>2. Source(rFrame)' = Source(rFrame)
      BY <1>1 DEF Source
    <3> QED BY <1>1, <3>1, <3>2 DEF IndInv, Hosted
  <2>3. runningClients' # 0
    BY <1>1 DEF IndInv, TypeOK
  <2> QED BY <2>1, <2>2, <2>3 DEF Hosted
<1>5. InHand'
  BY <1>1 DEF InHand
<1>6. Behind'
  <2> SUFFICES ASSUME NEW f \in published PROVE f < t + n /\ f < t
    BY <1>1, <1>2 DEF Behind
  <2>1. f \in Nat /\ f < outputTime
    BY DEF IndInv, TypeOK, Behind
  <2> QED BY <1>1, <1>2, <2>1
<1>7. TagsTrue' /\ Superseded'
  BY <1>1 DEF IndInv, TagsTrue, Superseded, Overwriting, Channel, Given
<1>8. Copying' /\ HearsThatFrame' /\ PublishedHeard'
  BY <1>1, ReaderUntouched DEF IndInv, Copying, Tagged
<1> QED
  BY <1>3, <1>4, <1>5, <1>6, <1>7, <1>8 DEF IndInv

\* ReadInput: a new operation begins within the window.
LEMMA ReadInputStep ==
  ASSUME IndInv, NEW t \in -1..(MaxFrame + Latency), NEW n \in 1..MaxCall, ReadInput(t, n)
  PROVE  IndInv'
<1>1. /\ rState = "idle" /\ runningClients > 0
      /\ outputTime - 1 < Source(SampleTime(t)) + RingFrames
      /\ IF inputActive THEN rState' = "check" /\ rFrame' = SampleTime(t) /\ rLeft' = n
         ELSE UNCHANGED <<rState, rFrame, rLeft>>
      /\ UNCHANGED <<tags, samples, wFrame, wLeft, wChannel, outputTime, session, runningClients,
                     published, inputActive, outputActive, rChannel, rOut, rDue>>
  BY DEF ReadInput, InWindow, ring, writer, switches, clients
<1>2. SampleTime(t) \in Nat /\ n \in Nat /\ n > 0
  BY Sizes DEF SampleTime
<1>3. Source(SampleTime(t)) \in Nat /\ outputTime \in Nat
  BY <1>2, Sizes DEF Source, IndInv, TypeOK
<1>4. TypeOK'
  BY <1>1, <1>2 DEF IndInv, TypeOK
<1>5. Hosted'
  <2>1. outputTime <= Source(SampleTime(t)) + RingFrames
    BY <1>1, <1>3, Sizes
  <2>2. rState' # "idle" => Source(rFrame)' = Source(SampleTime(t)) /\ rLeft' > 0
    BY <1>1, <1>2 DEF Source
  <2>3. runningClients' # 0
    BY <1>1 DEF IndInv, TypeOK
  <2> QED BY <1>1, <2>1, <2>2, <2>3 DEF IndInv, Hosted
<1>6. InHand' /\ Behind' /\ TagsTrue' /\ Superseded'
  BY <1>1, RingUntouched
<1>7. Copying' /\ HearsThatFrame' /\ PublishedHeard'
  BY <1>1 DEF Copying, HearsThatFrame, PublishedHeard
<1> QED
  BY <1>4, <1>5, <1>6, <1>7 DEF IndInv

\* A sample is written into the slot that Write has in hand and nowhere else.
LEMMA WriteSampleStep ==
  ASSUME IndInv, WriteSample
  PROVE  IndInv'
<1> DEFINE k == RingFrame(wFrame)
           v == Channel(wFrame, wChannel)
<1>1. /\ wLeft > 0 /\ wChannel < sampleStride
      /\ samples' = [samples EXCEPT ![k][wChannel] = v]
      /\ wChannel' = wChannel + 1
      /\ UNCHANGED <<tags, wFrame, wLeft, outputTime, session, runningClients, published,
                     inputActive, outputActive, rState, rFrame, rLeft, rChannel, rOut, rDue>>
  BY DEF WriteSample, reader, switches, clients, Channel
<1>2. /\ k \in Slots /\ wChannel \in 0..(sampleStride - 1) /\ wFrame \in Nat /\ session \in Nat
      /\ wChannel \in Nat
  BY <1>1, Sizes, SlotsDiffer DEF IndInv, TypeOK
<1>3. v \in Values
  BY <1>2, ValueTypes
<1> HIDE DEF v, k
<1>4. /\ samples' \in [Slots -> [0..(sampleStride - 1) -> Values]]
      /\ samples'[k][wChannel] = v
      /\ \A j \in Slots : \A c \in 0..(sampleStride - 1) :
           (j # k \/ c # wChannel) => samples'[j][c] = samples[j][c]
  BY <1>1, <1>2, <1>3 DEF IndInv, TypeOK
<1>5. TypeOK'
  <2>1. wChannel' \in 0..sampleStride
    BY <1>1, <1>2, Sizes
  <2> QED BY <1>1, <1>4, <2>1 DEF IndInv, TypeOK
<1>6. Hosted' /\ Behind' /\ Superseded'
  BY <1>1 DEF IndInv, Hosted, Behind, Superseded, Source
<1>7. InHand'
  <2> SUFFICES ASSUME NEW c \in 0..wChannel PROVE samples'[k][c] = Channel(wFrame, c)
    BY <1>1, <1>2 DEF InHand, k, Channel, Given
  <2>1. CASE c = wChannel
    BY <1>4, <2>1 DEF v
  <2>2. CASE c # wChannel
    <3>1. c \in 0..(wChannel - 1) /\ c \in 0..(sampleStride - 1)
      BY <1>2, <2>2, Sizes
    <3> QED BY <1>1, <1>2, <1>4, <2>2, <3>1 DEF IndInv, InHand, k
  <2> QED BY <2>1, <2>2
<1>8. TagsTrue'
  <2> SUFFICES ASSUME NEW j \in Slots, tags[j] # 0
               PROVE  /\ tags[j] - 1 \in published /\ RingFrame(tags[j] - 1) = j
                      /\ j = k \/ \A c \in 0..(sampleStride - 1) : samples'[j][c] = Channel(tags[j] - 1, c)
    BY <1>1 DEF TagsTrue, Overwriting, Channel, Given, k
  <2>1. CASE j = k
    BY <2>1 DEF IndInv, TagsTrue
  <2>2. CASE j # k
    BY <1>4, <2>2 DEF IndInv, TagsTrue, Overwriting, k
  <2> QED BY <2>1, <2>2
<1>9. Copying' /\ HearsThatFrame' /\ PublishedHeard'
  BY <1>1, ReaderUntouched DEF IndInv, Copying, Tagged
<1> QED
  BY <1>5, <1>6, <1>7, <1>8, <1>9 DEF IndInv

\* The tag is stored when all channels are: from now on the frame is whole.
LEMMA WriteTagStep ==
  ASSUME IndInv, WriteTag
  PROVE  IndInv'
<1> DEFINE k == RingFrame(wFrame)
<1>1. /\ wLeft > 0 /\ wChannel = sampleStride
      /\ tags' = [tags EXCEPT ![k] = wFrame + 1]
      /\ published' = published \cup {wFrame}
      /\ wFrame' = wFrame + 1 /\ wLeft' = wLeft - 1 /\ wChannel' = 0
      /\ UNCHANGED <<samples, outputTime, session, runningClients,
                     inputActive, outputActive, rState, rFrame, rLeft, rChannel, rOut, rDue>>
  BY DEF WriteTag, reader, switches, clients
<1>2. /\ k \in Slots /\ wFrame \in Nat /\ wLeft \in Nat /\ outputTime \in Nat
      /\ wFrame + wLeft = outputTime /\ published \subseteq Nat
      /\ \A f \in published : RingFrame(f) \in Slots
  BY <1>1, SlotsDiffer DEF IndInv, TypeOK, Hosted
<1>3. /\ tags' \in [Slots -> Nat] /\ tags'[k] = wFrame + 1
      /\ \A j \in Slots : tags[j] \in Nat /\ (j # k => tags'[j] = tags[j])
  <2> HIDE DEF k
  <2> QED BY <1>1, <1>2 DEF IndInv, TypeOK
<1>4. TypeOK'
  <2>1. wFrame' \in Nat /\ wLeft' \in Nat /\ wChannel' \in 0..sampleStride /\ published' \subseteq Nat
    BY <1>1, <1>2, Sizes
  <2> QED BY <1>1, <1>3, <2>1 DEF IndInv, TypeOK
<1>5. Hosted'
  BY <1>1, <1>2 DEF IndInv, TypeOK, Hosted, Source
<1>6. InHand'
  BY <1>1 DEF InHand
<1>7. Behind'
  <2> SUFFICES ASSUME NEW f \in published \cup {wFrame} PROVE f < outputTime /\ f < wFrame + 1
    BY <1>1 DEF Behind
  <2>1. CASE f = wFrame
    BY <1>1, <1>2, <2>1
  <2>2. CASE f \in published
    BY <1>1, <1>2, <2>2 DEF IndInv, Behind
  <2> QED BY <2>1, <2>2
<1>8. TagsTrue'
  <2> SUFFICES ASSUME NEW j \in Slots, tags'[j] # 0
               PROVE  /\ tags'[j] - 1 \in published' /\ RingFrame(tags'[j] - 1) = j
                      /\ \A c \in 0..(sampleStride - 1) : samples[j][c] = Channel(tags'[j] - 1, c)
    BY <1>1 DEF TagsTrue, Channel, Given
  <2>1. CASE j = k
    <3>1. tags'[j] - 1 = wFrame
      BY <1>2, <1>3, <2>1
    <3>2. \A c \in 0..(sampleStride - 1) : samples[k][c] = Channel(wFrame, c)
      BY <1>1 DEF IndInv, InHand
    <3> QED BY <1>1, <2>1, <3>1, <3>2
  <2>2. CASE j # k
    <3>1. tags'[j] = tags[j] /\ ~Overwriting(j)
      BY <1>3, <2>2 DEF Overwriting
    <3>2. /\ tags[j] - 1 \in published /\ RingFrame(tags[j] - 1) = j
          /\ \A c \in 0..(sampleStride - 1) : samples[j][c] = Channel(tags[j] - 1, c)
      BY <3>1 DEF IndInv, TagsTrue
    <3> QED BY <1>1, <3>1, <3>2
  <2> QED BY <2>1, <2>2
<1>9. Superseded'
  <2> SUFFICES ASSUME NEW f \in published \cup {wFrame} PROVE tags'[RingFrame(f)] >= f + 1
    BY <1>1 DEF Superseded
  <2>1. CASE f = wFrame
    BY <1>2, <1>3, <2>1
  <2>2. CASE f # wFrame /\ RingFrame(f) = k
    <3>1. f \in Nat /\ f < wFrame
      BY <1>1, <1>2, <2>2 DEF IndInv, Behind
    <3>2. wFrame + 1 >= f + 1
      BY <1>2, <3>1
    <3> QED BY <1>3, <2>2, <3>2
  <2>3. CASE f # wFrame /\ RingFrame(f) # k
    BY <1>2, <1>3, <2>3 DEF IndInv, Superseded
  <2> QED BY <2>1, <2>2, <2>3
<1>10. rState = "copy" => Tagged(rFrame)'
  <2> SUFFICES ASSUME rState = "copy" PROVE Tagged(rFrame)'
    OBVIOUS
  <2>1. Tagged(rFrame)
    BY DEF IndInv, Copying
  <2>2. rFrame >= Latency /\ rFrame - Latency \in Nat /\ rFrame - Latency \in published
    BY <2>1, TaggedPublished
  <2>3. RingFrame(rFrame - Latency) \in Slots /\ RingFrame(rFrame - Latency) # k
    BY <1>1, <2>2, NotOverwritten, SlotsDiffer DEF Overwriting
  <2>4. tags'[RingFrame(rFrame - Latency)] = tags[RingFrame(rFrame - Latency)]
    BY <1>3, <2>3
  <2> QED BY <1>1, <2>1, <2>4 DEF Tagged
<1>11. Copying' /\ HearsThatFrame' /\ PublishedHeard'
  BY <1>1, <1>10, ReaderUntouched
<1> QED
  BY <1>4, <1>5, <1>6, <1>7, <1>8, <1>9, <1>11 DEF IndInv

\* Read looks at the tag: a published frame is found, any other gives silence.
LEMMA ReadTagStep ==
  ASSUME IndInv, ReadTag
  PROVE  IndInv'
<1>1. /\ rState = "check" /\ rState' = IF Tagged(rFrame) THEN "copy" ELSE "done"
      /\ rChannel' = 0 /\ rOut' = Silence
      /\ rDue' = (rFrame >= Latency /\ rFrame - Latency \in published)
      /\ UNCHANGED <<tags, samples, wFrame, wLeft, wChannel, outputTime, session, runningClients,
                     published, inputActive, outputActive, rFrame, rLeft>>
  BY DEF ReadTag, ring, writer, switches, clients
<1>2. TypeOK'
  <2>1. rOut' \in [0..(inputChannels - 1) -> Values] /\ rDue' \in BOOLEAN /\ rChannel' \in Nat
    BY <1>1, ValueTypes DEF IndInv, TypeOK
  <2>2. rState' \in {"idle", "check", "copy", "done"}
    BY <1>1
  <2> QED BY <1>1, <2>1, <2>2 DEF IndInv, TypeOK
<1>3. Hosted'
  <2>1. rState # "idle" /\ rState' # "idle"
    BY <1>1
  <2> QED BY <1>1, <2>1 DEF IndInv, Hosted, Source
<1>4. InHand' /\ Behind' /\ TagsTrue' /\ Superseded'
  BY <1>1, RingUntouched
<1>5. Copying'
  <2> SUFFICES ASSUME rState' = "copy" PROVE Copying'
    BY DEF Copying
  <2>1. Tagged(rFrame)'
    BY <1>1 DEF Tagged
  <2>2. \A c \in 0..(inputChannels - 1) : rOut'[c] = Zero /\ ~(c < 0)
    BY <1>1 DEF Silence
  <2> QED BY <1>1, <2>1, <2>2, Sizes DEF Copying
<1>6. HearsThatFrame'
  BY <1>1 DEF HearsThatFrame, Silence
<1>7. PublishedHeard'
  BY <1>1, StillTagged DEF PublishedHeard
<1> QED
  BY <1>2, <1>3, <1>4, <1>5, <1>6, <1>7 DEF IndInv

\* Read copies a channel of a whole frame.
LEMMA ReadSampleStep ==
  ASSUME IndInv, ReadSample
  PROVE  IndInv'
<1> DEFINE f == rFrame - Latency
           k == RingFrame(f)
           v == samples[k][rChannel]
<1>1. /\ rState = "copy"
      /\ rOut' = [rOut EXCEPT ![rChannel] = v] /\ rChannel' = rChannel + 1
      /\ rState' = IF rChannel + 1 < inputChannels /\ rChannel + 1 < outputChannels THEN "copy" ELSE "done"
      /\ UNCHANGED <<tags, samples, wFrame, wLeft, wChannel, outputTime, session, runningClients,
                     published, inputActive, outputActive, rFrame, rLeft, rDue>>
  BY DEF ReadSample, ring, writer, switches, clients
<1>2. /\ Tagged(rFrame) /\ rChannel \in Nat /\ rChannel < inputChannels /\ rChannel < outputChannels
      /\ \A c \in 0..(inputChannels - 1) : rOut[c] = IF c < rChannel THEN Given(f, c) ELSE Zero
  BY <1>1 DEF IndInv, TypeOK, Copying
<1>3. rFrame >= Latency /\ f \in Nat /\ f \in published /\ k \in Slots /\ tags[k] = f + 1
  BY <1>2, TaggedPublished, SlotsDiffer DEF Tagged
<1>4. ~Overwriting(k)
  BY <1>1, <1>3, NotOverwritten
<1>5. v = Given(f, rChannel)
  <2>1. rChannel \in 0..(sampleStride - 1) /\ tags[k] # 0 /\ tags[k] - 1 = f
    BY <1>2, <1>3, Sizes
  <2>2. v = Channel(f, rChannel)
    BY <1>3, <1>4, <2>1 DEF IndInv, TagsTrue
  <2> QED BY <1>2, <2>2 DEF Channel
<1>6. v \in Values
  BY <1>2, <1>3, <1>5, ValueTypes DEF IndInv, TypeOK
<1>7. /\ rOut' \in [0..(inputChannels - 1) -> Values]
      /\ \A c \in 0..(inputChannels - 1) :
           rOut'[c] = IF c < rChannel + 1 THEN Given(f, c) ELSE Zero
  <2> HIDE DEF v, f
  <2>1. rChannel \in 0..(inputChannels - 1)
    BY <1>2, Sizes
  <2>2. rOut' \in [0..(inputChannels - 1) -> Values] /\ rOut'[rChannel] = v
        /\ \A c \in 0..(inputChannels - 1) : c # rChannel => rOut'[c] = rOut[c]
    BY <1>1, <1>6, <2>1 DEF IndInv, TypeOK
  <2>3. ASSUME NEW c \in 0..(inputChannels - 1)
        PROVE  rOut'[c] = IF c < rChannel + 1 THEN Given(f, c) ELSE Zero
    <3>1. CASE c = rChannel
      BY <1>2, <1>5, <2>2, <3>1
    <3>2. CASE c # rChannel
      <4>1. c < rChannel <=> c < rChannel + 1
        BY <1>2, <3>2, Sizes
      <4> QED BY <1>2, <2>2, <3>2, <4>1
    <3> QED BY <3>1, <3>2
  <2> QED BY <2>2, <2>3
<1>8. TypeOK'
  <2>1. rChannel' \in Nat /\ rState' \in {"idle", "check", "copy", "done"}
    BY <1>1, <1>2
  <2> QED BY <1>1, <1>7, <2>1 DEF IndInv, TypeOK
<1>9. Hosted'
  <2>1. rState # "idle" /\ rState' # "idle"
    BY <1>1
  <2> QED BY <1>1, <2>1 DEF IndInv, Hosted, Source
<1>10. InHand' /\ Behind' /\ TagsTrue' /\ Superseded'
  BY <1>1, RingUntouched
<1>11. CASE rState' = "copy"
  <2>1. rChannel + 1 < inputChannels /\ rChannel + 1 < outputChannels /\ Tagged(rFrame)'
    BY <1>1, <1>2, <1>11 DEF Tagged
  <2>2. Copying'
    BY <1>1, <1>7, <2>1 DEF Copying, Given
  <2>3. HearsThatFrame' /\ PublishedHeard'
    BY <1>11 DEF HearsThatFrame, PublishedHeard
  <2> QED BY <1>8, <1>9, <1>10, <2>2, <2>3 DEF IndInv
<1>12. CASE rState' # "copy"
  <2>1. ~(rChannel + 1 < inputChannels) \/ ~(rChannel + 1 < outputChannels)
    BY <1>1, <1>12
  <2>2. \A c \in 0..(inputChannels - 1) : c < rChannel + 1 <=> c < outputChannels
    BY <1>2, <2>1, Sizes
  <2>3. \A c \in 0..(inputChannels - 1) : rOut'[c] = IF c < outputChannels THEN Given(f, c) ELSE Zero
    BY <1>7, <2>2
  <2>4. rOut' = Whole(f)
    BY <1>7, <2>3 DEF Whole
  <2>5. Whole(rFrame - Latency)' = Whole(f)
    BY <1>1 DEF Whole, Given
  <2>6. HearsThatFrame' /\ PublishedHeard'
    BY <1>1, <1>3, <2>4, <2>5 DEF HearsThatFrame, PublishedHeard
  <2>7. Copying'
    BY <1>12 DEF Copying
  <2> QED BY <1>8, <1>9, <1>10, <2>6, <2>7 DEF IndInv
<1> QED
  BY <1>11, <1>12

\* On to the next frame, which is as near to the writer or nearer.
LEMMA ReadNextStep ==
  ASSUME IndInv, ReadNext
  PROVE  IndInv'
<1>1. /\ rState = "done" /\ rFrame' = rFrame + 1 /\ rLeft' = rLeft - 1
      /\ rState' = IF rLeft = 1 THEN "idle" ELSE "check"
      /\ UNCHANGED <<tags, samples, wFrame, wLeft, wChannel, outputTime, session, runningClients,
                     published, inputActive, outputActive, rChannel, rOut, rDue>>
  BY DEF ReadNext, ring, writer, switches, clients
<1>2. /\ rFrame \in Nat /\ rLeft \in Nat /\ rLeft > 0 /\ outputTime \in Nat
      /\ outputTime <= Source(rFrame) + RingFrames
  BY <1>1 DEF IndInv, TypeOK, Hosted
<1>3. TypeOK'
  <2>1. rFrame' \in Nat /\ rLeft' \in Nat /\ rState' \in {"idle", "check", "copy", "done"}
    BY <1>1, <1>2
  <2> QED BY <1>1, <2>1 DEF IndInv, TypeOK
<1>4. Hosted'
  <2>1. outputTime <= Source(rFrame + 1) + RingFrames
    BY <1>2, Sizes DEF Source
  <2>2. Source(rFrame)' = Source(rFrame + 1)
    BY <1>1 DEF Source
  <2>3. rState' # "idle" => rLeft - 1 > 0
    BY <1>1, <1>2
  <2> QED BY <1>1, <2>1, <2>2, <2>3 DEF IndInv, Hosted
<1>5. InHand' /\ Behind' /\ TagsTrue' /\ Superseded'
  BY <1>1, RingUntouched
<1>6. Copying' /\ HearsThatFrame' /\ PublishedHeard'
  BY <1>1 DEF Copying, HearsThatFrame, PublishedHeard
<1> QED
  BY <1>3, <1>4, <1>5, <1>6 DEF IndInv

\* Every step of the host, of Write and of Read preserves the invariant.
LEMMA NextIndInv == IndInv /\ [Next]_vars => IndInv'
<1> SUFFICES ASSUME IndInv, [Next]_vars PROVE IndInv'
  OBVIOUS
<1>1. CASE StartIO
  BY <1>1, StartIOStep
<1>2. CASE StopIO \/ SetActive \/ UNCHANGED vars
  BY <1>2, StopStep
<1>3. ASSUME NEW t \in 0..MaxFrame, NEW n \in 1..MaxCall, WriteMix(t, n) PROVE IndInv'
  BY <1>3, WriteMixStep
<1>4. ASSUME NEW t \in -1..(MaxFrame + Latency), NEW n \in 1..MaxCall, ReadInput(t, n) PROVE IndInv'
  BY <1>4, ReadInputStep
<1>5. CASE WriteSample \/ WriteTag
  BY <1>5, WriteSampleStep, WriteTagStep
<1>6. CASE ReadTag \/ ReadSample \/ ReadNext
  BY <1>6, ReadTagStep, ReadSampleStep, ReadNextStep
<1> QED
  BY <1>1, <1>2, <1>3, <1>4, <1>5, <1>6 DEF Next

-----------------------------------------------------------------------------
(* Theorems *)

\* The inductive invariant holds in every reachable state.
THEOREM Invariance == Spec => []IndInv
  BY InitIndInv, NextIndInv, PTL DEF Spec

\* Read gives silence or exactly the frame of its time and of this session, never a part of
\* one, one of a ring's length before or one of an earlier session.
THEOREM HearsItsFrame == Spec => []HearsThatFrame
<1>1. IndInv => HearsThatFrame
  BY DEF IndInv
<1> QED BY <1>1, Invariance, PTL

\* A frame that Write has published is heard: within the window it is neither overwritten
\* nor untagged, whoever starts or stops I/O or switches a stream meanwhile.
THEOREM HearsThePublished == Spec => []PublishedHeard
<1>1. IndInv => PublishedHeard
  BY DEF IndInv
<1> QED BY <1>1, Invariance, PTL
=============================================================================
