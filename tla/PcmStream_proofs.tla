-------------------------- MODULE PcmStream_proofs --------------------------
(***************************************************************************)
(* Proofs about a PCM stream for every capacity, target, drift and slice:  *)
(* the fill metric covers the ring, no frame is lost through underruns and *)
(* re-priming, a call that is primed delivers, underruns are counted as    *)
(* documented, and the resampler interpolates.                             *)
(***************************************************************************)
EXTENDS PcmStream, FiniteSetTheorems, SequenceTheorems, TLAPS

\* A producer that has looked keeps its room: only it adds frames.
Room == pState # "idle" => used + pCount <= Capacity

\* A frame that is pushed into an empty ring follows the frames that are held.
NextNumber == ring = << >> /\ Newest # None => pFrame = After(Newest)

\* What a call has seen suffices for the two frames it is about to take.
Supplied ==
  /\ cState = "idle" /\ primed => current # None /\ next # None
  /\ cState = "current" => IF current = None THEN visible >= 2 ELSE next # None \/ visible >= 1
  /\ cState = "next" => current # None /\ (next # None \/ visible >= 1)
  /\ cState = "mix" => current # None /\ next # None
  /\ cState = "advance" => current # None

\* A call that has begun delivers, so has_primed means a delivered frame.
Counted ==
  /\ cState = "idle" => (has_primed <=> delivered)
  /\ cState # "idle" => outcome = "none" /\ has_primed /\ (counting <=> delivered)

IndInv ==
  TypeOK /\ Room /\ FillCoversRing /\ NoFrameLost /\ NextNumber /\ Supplied /\ Counted /\ UnderrunsCounted

\* Where the phase may be: a positive correction is made only if there is a frame more to
\* advance to.
PhaseInv ==
  /\ cState # "advance" => phase < Unit
  /\ cState = "advance" =>
       /\ next = None => phase < Unit
       /\ phase < 2 * Unit \/ (phase < 3 * Unit /\ visible >= 1 /\ next # None)

-----------------------------------------------------------------------------
(* Constants and operators *)

\* What validate_config leaves of the configurations, and the two derived lengths.
LEMMA Configuration ==
  /\ Capacity \in Nat /\ Target \in Nat /\ Unit \in Nat /\ MaxDrift \in Nat
  /\ MaxSlice \in Nat /\ MaxSlice >= 1
  /\ Capacity >= 2 /\ 0 < Target /\ Target < Capacity /\ MaxDrift < Unit
  /\ FrameNumbers \in Nat /\ FrameNumbers > Capacity + 3
  /\ control_span_frames \in Nat /\ control_span_frames > 0
  /\ priming_threshold_frames \in Nat /\ priming_threshold_frames >= 2
BY PcmAssumption DEF validate_config, control_span_frames, priming_threshold_frames, Larger, Smaller

\* The remainder of a number that is at most once too large.
LEMMA Remainder ==
  ASSUME NEW n \in Nat, n > 0, NEW x \in Nat, x < 2 * n
  PROVE  x % n = IF x < n THEN x ELSE x - n
<1>1. (x % n) \in 0..(n - 1) /\ x = (x \div n) * n + (x % n) /\ x \div n \in Int
  OBVIOUS
<1> DEFINE q == x \div n
<1>2. q >= 0 /\ q < 2
  <2>1. CASE q <= -1
    <3>1. q * n <= -n
      BY <2>1, <1>1
    <3> QED BY <3>1, <1>1
  <2>2. CASE q >= 2
    <3>1. q * n >= 2 * n
      BY <2>2, <1>1
    <3> QED BY <3>1, <1>1
  <2> QED BY <2>1, <2>2, <1>1
<1>3. q = 0 \/ q = 1
  BY <1>1, <1>2
<1> QED
  BY <1>1, <1>3

\* The number after a frame's, and those of the frames of one push.
LEMMA FrameNumbering ==
  /\ \A f \in Frames : After(f) \in Frames
  /\ \A f \in Frames, k \in 0..Capacity :
       /\ (f + k) % FrameNumbers \in Frames
       /\ (f + k + 1) % FrameNumbers = After((f + k) % FrameNumbers)
  /\ \A f \in Frames : f % FrameNumbers = f
<1> DEFINE N == FrameNumbers
<1>1. N \in Nat /\ N > Capacity + 3 /\ Capacity \in Nat
  BY Configuration
<1>2. \A x \in Nat : x < 2 * N => x % N = IF x < N THEN x ELSE x - N
  BY <1>1, Remainder
<1> HIDE DEF N
<1>3. \A f \in Frames : f \in Nat /\ f < N
  BY <1>1 DEF Frames, N
<1>4. ASSUME NEW f \in Frames PROVE After(f) = IF f + 1 < N THEN f + 1 ELSE 0
  BY <1>1, <1>2, <1>3 DEF After, N
<1>5. ASSUME NEW f \in Frames, NEW k \in 0..Capacity
      PROVE  (f + k) % N \in Frames /\ (f + k + 1) % N = After((f + k) % N)
  <2> DEFINE x == f + k
             y == f + k + 1
  <2>1. x \in Nat /\ x < 2 * N /\ y \in Nat /\ y < 2 * N /\ y = x + 1
    BY <1>1, <1>3
  <2> HIDE DEF x, y
  <2>2. x % N = IF x < N THEN x ELSE x - N
    BY <1>2, <2>1
  <2>3. y % N = IF y < N THEN y ELSE y - N
    BY <1>2, <2>1
  <2>4. x % N \in Frames
    BY <1>1, <2>1, <2>2 DEF Frames, N
  <2>5. y % N = After(x % N)
    BY <1>1, <1>4, <2>1, <2>2, <2>3, <2>4
  <2> QED
    BY <2>4, <2>5 DEF x, y
<1>6. ASSUME NEW f \in Frames PROVE f % N = f /\ After(f) \in Frames
  BY <1>1, <1>2, <1>3, <1>4 DEF Frames, N
<1> QED
  BY <1>5, <1>6 DEF N

\* How many frames the resampler holds.
LEMMA HeldCount ==
  /\ current # None /\ next # None => Held = 2
  /\ current # None /\ next = None => Held = 1
  /\ current = None /\ next # None => Held = 1
  /\ current = None /\ next = None => Held = 0
  /\ Held \in Nat
<1> DEFINE S == {f \in {"current", "next"} : (IF f = "current" THEN current ELSE next) # None}
<1>1. S = (IF current # None THEN {"current"} ELSE {}) \cup (IF next # None THEN {"next"} ELSE {})
  OBVIOUS
<1>2. Cardinality({}) = 0 /\ IsFiniteSet({})
  BY FS_EmptySet
<1>3. /\ Cardinality({"current"}) = 1 /\ Cardinality({"next"}) = 1
      /\ Cardinality({"current", "next"}) = 2
  <2>1. Cardinality({"current"}) = 1 /\ IsFiniteSet({"current"}) /\ Cardinality({"next"}) = 1
    BY FS_Singleton
  <2>2. Cardinality({"current"} \cup {"next"}) = 2
    BY <2>1, FS_AddElement
  <2>3. {"current"} \cup {"next"} = {"current", "next"}
    OBVIOUS
  <2> QED BY <2>1, <2>2, <2>3
<1>4. Held = Cardinality(S)
  BY DEF Held
<1>5. CASE current # None /\ next # None
  <2>1. S = {"current", "next"}
    BY <1>1, <1>5
  <2> QED BY <1>3, <1>4, <1>5, <2>1
<1>6. CASE current # None /\ next = None
  <2>1. S = {"current"}
    BY <1>1, <1>6
  <2> QED BY <1>3, <1>4, <1>6, <2>1
<1>7. CASE current = None /\ next # None
  <2>1. S = {"next"}
    BY <1>1, <1>7
  <2> QED BY <1>3, <1>4, <1>7, <2>1
<1>8. CASE current = None /\ next = None
  <2>1. S = {}
    BY <1>1, <1>8
  <2> QED BY <1>2, <1>4, <1>8, <2>1
<1> QED
  BY <1>5, <1>6, <1>7, <1>8

\* The correction is less than a frame either way, and not positive up to the target.
LEMMA Correction ==
  ASSUME NEW b \in Nat
  PROVE  /\ drift_correction(b) \in Int
         /\ -Unit < drift_correction(b) /\ drift_correction(b) < Unit
         /\ b <= Target => drift_correction(b) <= 0
<1> DEFINE x == (b - Target) * MaxDrift
           error == x \div control_span_frames
<1>1. x \in Int /\ (b <= Target => x <= 0)
  BY Configuration
<1>2. error \in Int
  BY <1>1, Configuration
<1>3. x <= 0 => error <= 0
  <2> HIDE DEF x
  <2>1. x = error * control_span_frames + (x % control_span_frames)
    BY <1>1, Configuration
  <2>2. (x % control_span_frames) \in 0..(control_span_frames - 1)
    BY <1>1, Configuration
  <2> SUFFICES ASSUME x <= 0, error >= 1 PROVE FALSE
    BY <1>2
  <2>3. error * control_span_frames >= 1
    BY <1>2, Configuration
  <2> QED BY <1>1, <2>1, <2>2, <2>3, Configuration
<1>4. drift_correction(b) = Larger(-MaxDrift, Smaller(MaxDrift, error))
  BY DEF drift_correction
<1> HIDE DEF error, x
<1> QED
  BY <1>1, <1>2, <1>3, <1>4, Configuration DEF Larger, Smaller

-----------------------------------------------------------------------------
(* The ring *)

\* A pop shifts the frames by one.
LEMMA TailFrames ==
  ASSUME NEW s \in Seq(Frames), s # << >>
  PROVE  /\ Len(s) \in Nat /\ Len(s) >= 1 /\ Head(s) = s[1] /\ Head(s) \in Frames
         /\ Tail(s) \in Seq(Frames) /\ Len(Tail(s)) = Len(s) - 1
         /\ \A k \in 1..(Len(s) - 1) : Tail(s)[k] = s[k + 1]
  OBVIOUS

\* A push of n frames, numbered from f, continues the numbers of the ring.
LEMMA PushedFrames ==
  ASSUME NEW s \in Seq(Frames), NEW n \in 0..Capacity, NEW f \in Frames,
         \A k \in 1..(Len(s) - 1) : s[k + 1] = After(s[k]),
         s # << >> => f = After(s[Len(s)])
  PROVE  LET t == s \o [k \in 1..n |-> (f + k - 1) % FrameNumbers]
             g == (f + n) % FrameNumbers
         IN  /\ t \in Seq(Frames) /\ Len(t) = Len(s) + n /\ g \in Frames
             /\ \A k \in 1..(Len(t) - 1) : t[k + 1] = After(t[k])
             /\ s # << >> => t[1] = s[1]
             /\ s = << >> /\ n > 0 => t[1] = f
             /\ t # << >> => g = After(t[Len(t)])
             /\ t = << >> => g = f
             /\ s # << >> => t # << >>
<1> DEFINE new == [k \in 1..n |-> (f + k - 1) % FrameNumbers]
           t == s \o new
           g == (f + n) % FrameNumbers
<1>1. /\ Capacity \in Nat /\ FrameNumbers \in Nat /\ n \in Nat /\ n <= Capacity
      /\ f \in Nat /\ Len(s) \in Nat
  BY Configuration DEF Frames
<1>2. \A k \in 1..n : new[k] \in Frames
  <2> TAKE k \in 1..n
  <2>1. k - 1 \in 0..Capacity /\ f + (k - 1) = f + k - 1
    BY <1>1
  <2> QED BY <2>1, FrameNumbering
<1>3. \A k \in 1..(n - 1) : new[k + 1] = After(new[k])
  <2> TAKE k \in 1..(n - 1)
  <2>1. k - 1 \in 0..Capacity /\ f + (k - 1) = f + k - 1 /\ f + (k - 1) + 1 = f + (k + 1) - 1
        /\ k \in 1..n /\ k + 1 \in 1..n
    BY <1>1
  <2>2. (f + (k - 1) + 1) % FrameNumbers = After((f + (k - 1)) % FrameNumbers)
    BY <2>1, FrameNumbering
  <2> QED BY <2>1, <2>2
<1>4. n > 0 => new[1] = f
  <2>1. f + 1 - 1 = f
    BY <1>1
  <2> QED BY <1>1, <2>1, FrameNumbering
<1>5. n > 0 => g = After(new[n])
  <2> HAVE n > 0
  <2>1. n - 1 \in 0..Capacity /\ f + (n - 1) = f + n - 1 /\ f + (n - 1) + 1 = f + n /\ n \in 1..n
    BY <1>1
  <2>2. (f + (n - 1) + 1) % FrameNumbers = After((f + (n - 1)) % FrameNumbers)
    BY <2>1, FrameNumbering
  <2> QED BY <2>1, <2>2
<1>6. g \in Frames /\ (n = 0 => g = f)
  <2>1. n \in 0..Capacity /\ (n = 0 => f + n = f)
    BY <1>1
  <2> QED BY <2>1, FrameNumbering
<1>7. new \in Seq(Frames) /\ Len(new) = n
  <2>1. new \in [1..n -> Frames]
    BY <1>2
  <2> HIDE DEF new
  <2> QED BY <1>1, <2>1, SeqDef
<1> HIDE DEF new, g
<1>8. /\ t \in Seq(Frames) /\ Len(t) = Len(s) + n
      /\ \A k \in 1..(Len(s) + n) : t[k] = IF k <= Len(s) THEN s[k] ELSE new[k - Len(s)]
  BY <1>1, <1>7, ConcatProperties
<1> HIDE DEF t
<1>9. \A k \in 1..(Len(t) - 1) : t[k + 1] = After(t[k])
  <2> TAKE k \in 1..(Len(t) - 1)
  <2>1. CASE k < Len(s)
    <3>1. k \in 1..(Len(s) - 1) /\ k \in 1..(Len(s) + n) /\ k + 1 \in 1..(Len(s) + n) /\ k <= Len(s)
          /\ k + 1 <= Len(s)
      BY <1>1, <1>8, <2>1
    <3> QED BY <1>8, <3>1
  <2>2. CASE k = Len(s)
    <3>1. k \in 1..(Len(s) + n) /\ k + 1 \in 1..(Len(s) + n) /\ ~(k + 1 <= Len(s)) /\ n > 0
          /\ (k + 1) - Len(s) = 1 /\ s # << >>
      BY <1>1, <1>8, <2>2
    <3>2. t[k] = s[Len(s)] /\ t[k + 1] = f
      BY <1>4, <1>8, <2>2, <3>1
    <3> QED BY <3>1, <3>2
  <2>3. CASE k > Len(s)
    <3>1. k \in 1..(Len(s) + n) /\ k + 1 \in 1..(Len(s) + n) /\ ~(k <= Len(s)) /\ ~(k + 1 <= Len(s))
          /\ k - Len(s) \in 1..(n - 1) /\ (k + 1) - Len(s) = (k - Len(s)) + 1
      BY <1>1, <1>8, <2>3
    <3> QED BY <1>3, <1>8, <3>1
  <2> QED BY <1>1, <1>8, <2>1, <2>2, <2>3
<1>10. s # << >> => t[1] = s[1] /\ t # << >>
  <2> HAVE s # << >>
  <2>1. 1 \in 1..(Len(s) + n) /\ 1 <= Len(s) /\ Len(t) >= 1
    BY <1>1, <1>8
  <2> QED BY <1>8, <2>1
<1>11. s = << >> /\ n > 0 => t[1] = f
  <2> HAVE s = << >> /\ n > 0
  <2>1. Len(s) = 0 /\ 1 \in 1..(Len(s) + n) /\ ~(1 <= Len(s)) /\ 1 - Len(s) = 1
    BY <1>1
  <2> QED BY <1>4, <1>8, <2>1
<1>12. t # << >> => g = After(t[Len(t)])
  <2> HAVE t # << >>
  <2>1. CASE n > 0
    <3>1. Len(t) \in 1..(Len(s) + n) /\ ~(Len(t) <= Len(s)) /\ Len(t) - Len(s) = n
      BY <1>1, <1>8, <2>1
    <3> QED BY <1>5, <1>8, <2>1, <3>1
  <2>2. CASE n = 0
    <3>1. Len(t) = Len(s) /\ Len(s) >= 1 /\ Len(t) \in 1..(Len(s) + n) /\ s # << >>
      BY <1>1, <1>8, <2>2
    <3> QED BY <1>6, <1>8, <2>2, <3>1
  <2> QED BY <1>1, <2>1, <2>2
<1>13. t = << >> => g = f
  <2> HAVE t = << >>
  <2>1. n = 0
    BY <1>1, <1>8
  <2> QED BY <1>6, <2>1
<1> QED
  BY <1>6, <1>8, <1>9, <1>10, <1>11, <1>12, <1>13 DEF t, g, new

-----------------------------------------------------------------------------
(* The steps *)

\* The parts that speak of the frames' numbers and of the held frames depend on these
\* variables alone.
LEMMA FramesUntouched ==
  ASSUME NoFrameLost, NextNumber, UNCHANGED <<ring, pFrame, current, next, delivered>>
  PROVE  NoFrameLost' /\ NextNumber'
  BY DEF NoFrameLost, NextNumber, Newest

\* What the ring is worth to those who look: its length and what they see of it.
LEMMA RingBounds ==
  ASSUME TypeOK
  PROVE  /\ Len(ring) \in Nat /\ Len(ring) <= Capacity /\ Capacity \in Nat
         /\ visible \in Nat /\ visible <= Len(ring)
         /\ used \in Nat /\ Len(ring) <= used /\ used <= Capacity
         /\ pCount \in Nat /\ pCount <= MaxSlice /\ MaxSlice \in Nat
  BY Configuration DEF TypeOK

\* Init establishes the invariant.
LEMMA InitIndInv == Init => IndInv
<1> SUFFICES ASSUME Init PROVE IndInv
  OBVIOUS
<1>1. TypeOK
  <2>1. Len(<< >>) = 0 /\ << >> \in Seq(Frames)
    OBVIOUS
  <2>2. 0 \in Frames
    BY Configuration DEF Frames
  <2>3. Len(ring) = 0 /\ Len(ring) <= Capacity /\ visible \in 0..Len(ring) /\ used \in Len(ring)..Capacity
        /\ pCount \in 0..MaxSlice /\ ring \in Seq(Frames)
    BY <2>1, Configuration DEF Init
  <2>4. fill \in Int /\ phase \in Nat /\ pFrame \in Frames
        /\ current \in Frames \cup {None} /\ next \in Frames \cup {None}
    BY <2>2 DEF Init
  <2>5. /\ direction \in {"Playback", "Capture"}
        /\ pState \in {"idle", "fill", "push"}
        /\ cState \in {"idle", "current", "next", "mix", "advance"}
        /\ primed \in BOOLEAN /\ has_primed \in BOOLEAN /\ owed \in BOOLEAN /\ counting \in BOOLEAN
        /\ outcome \in {"none", "frame", "silence", "underrun"} /\ delivered \in BOOLEAN
        /\ life \in {"open", "stopped", "closed"}
    BY DEF Init
  <2> QED BY <2>3, <2>4, <2>5 DEF TypeOK
<1>2. NoFrameLost /\ NextNumber
  BY DEF Init, NoFrameLost, NextNumber, Newest
<1>3. Room /\ FillCoversRing /\ Supplied /\ Counted /\ UnderrunsCounted
  BY DEF Init, Room, FillCoversRing, Supplied, Counted, UnderrunsCounted
<1> QED
  BY <1>1, <1>2, <1>3 DEF IndInv

\* try_write_interleaved: the accepted frames have room whatever the consumer does.
LEMMA AcceptStep ==
  ASSUME IndInv, NEW n \in Sizes, Accept(n)
  PROVE  IndInv'
<1> USE DEF Accept, heldVars, primeVars, callVars, streamVars
<1>1. n \in 0..MaxSlice /\ n \in Nat
  BY Configuration DEF Sizes
<1>2. used' \in Nat /\ Len(ring) <= used' /\ used' <= used
  BY RingBounds DEF IndInv, LoadUsed
<1>3. TypeOK'
  BY <1>1, <1>2, RingBounds DEF IndInv, TypeOK
<1>4. Room'
  BY <1>1, <1>2, RingBounds DEF IndInv, Room
<1>5. FillCoversRing'
  BY DEF IndInv, TypeOK, FillCoversRing, MayProduce
<1>6. NoFrameLost' /\ NextNumber'
  BY FramesUntouched DEF IndInv
<1>7. Supplied' /\ Counted' /\ UnderrunsCounted'
  BY DEF IndInv, Supplied, Counted, UnderrunsCounted
<1> QED
  BY <1>3, <1>4, <1>5, <1>6, <1>7 DEF IndInv

\* BufferFull and overruns change only what the producer knows.
LEMMA RefuseStep ==
  ASSUME IndInv, NEW n \in Sizes, Refuse(n)
  PROVE  IndInv'
<1> USE DEF Refuse, heldVars, primeVars, callVars, streamVars, producerVars
<1>2. used' \in Nat /\ Len(ring) <= used' /\ used' <= used
  BY RingBounds DEF IndInv, LoadUsed
<1>3. TypeOK'
  BY <1>2, RingBounds DEF IndInv, TypeOK
<1>4. Room'
  BY DEF Room, MayProduce
<1>5. FillCoversRing'
  BY DEF IndInv, FillCoversRing
<1>6. NoFrameLost' /\ NextNumber'
  BY FramesUntouched DEF IndInv
<1>7. Supplied' /\ Counted' /\ UnderrunsCounted'
  BY DEF IndInv, Supplied, Counted, UnderrunsCounted
<1> QED
  BY <1>3, <1>4, <1>5, <1>6, <1>7 DEF IndInv

\* add_fill counts the frames before they are in the ring.
LEMMA AddFillStep ==
  ASSUME IndInv, AddFill
  PROVE  IndInv'
<1> USE DEF AddFill, heldVars, primeVars, callVars, streamVars
<1>3. TypeOK'
  BY RingBounds DEF IndInv, TypeOK
<1>4. Room'
  BY DEF IndInv, Room
<1>5. FillCoversRing'
  BY RingBounds DEF IndInv, TypeOK, FillCoversRing
<1>6. NoFrameLost' /\ NextNumber'
  BY FramesUntouched DEF IndInv
<1>7. Supplied' /\ Counted' /\ UnderrunsCounted'
  BY DEF IndInv, Supplied, Counted, UnderrunsCounted
<1> QED
  BY <1>3, <1>4, <1>5, <1>6, <1>7 DEF IndInv

\* push_slice: the new frames continue the ring's, or the held ones of an empty ring.
LEMMA PushStep ==
  ASSUME IndInv, Push
  PROVE  IndInv'
<1>0. /\ pState = "push" /\ pState' = "idle" /\ pCount' = 0 /\ used' = used + pCount
      /\ UNCHANGED <<visible, fill, cState, current, next, phase, primed, has_primed, owed,
                     counting, outcome, delivered, life, direction>>
  BY DEF Push, heldVars, primeVars, callVars, streamVars
<1>1. /\ ring \in Seq(Frames) /\ pCount \in 0..Capacity /\ pFrame \in Frames
      /\ used + pCount <= Capacity
      /\ \A k \in 1..(Len(ring) - 1) : ring[k + 1] = After(ring[k])
      /\ ring # << >> => pFrame = After(ring[Len(ring)])
  BY <1>0, RingBounds DEF IndInv, TypeOK, Room, NoFrameLost
<1>2. /\ ring' \in Seq(Frames) /\ Len(ring') = Len(ring) + pCount /\ pFrame' \in Frames
      /\ \A k \in 1..(Len(ring') - 1) : ring'[k + 1] = After(ring'[k])
      /\ ring # << >> => ring'[1] = ring[1] /\ ring' # << >>
      /\ ring = << >> /\ pCount > 0 => ring'[1] = pFrame
      /\ ring' # << >> => pFrame' = After(ring'[Len(ring')])
      /\ ring' = << >> => pFrame' = pFrame
  BY <1>1, PushedFrames DEF Push
<1>3. TypeOK'
  <2>1. /\ Len(ring') <= Capacity /\ visible' \in 0..Len(ring') /\ used' \in Len(ring')..Capacity
        /\ pCount' \in 0..MaxSlice
    BY <1>0, <1>1, <1>2, RingBounds DEF IndInv
  <2> QED BY <1>0, <1>2, <2>1 DEF IndInv, TypeOK
<1>4. Room'
  BY <1>0 DEF Room
<1>5. FillCoversRing'
  BY <1>0, <1>2, RingBounds DEF IndInv, TypeOK, FillCoversRing
<1>6. NoFrameLost'
  <2>1. ring' # << >> /\ Newest # None => ring'[1] = After(Newest)
    <3>1. CASE ring # << >>
      BY <1>2, <3>1 DEF IndInv, NoFrameLost
    <3>2. CASE ring = << >>
      <4>1. ring' # << >> => pCount > 0
        BY <1>2, <3>2, RingBounds DEF IndInv
      <4> QED BY <1>2, <3>2, <4>1 DEF IndInv, NextNumber
    <3> QED BY <3>1, <3>2
  <2> QED BY <1>0, <1>2, <2>1 DEF IndInv, NoFrameLost, Newest
<1>7. NextNumber'
  BY <1>0, <1>2 DEF IndInv, NextNumber, Newest
<1>8. Supplied' /\ Counted' /\ UnderrunsCounted'
  BY <1>0 DEF IndInv, Supplied, Counted, UnderrunsCounted
<1> QED
  BY <1>3, <1>4, <1>5, <1>6, <1>7, <1>8 DEF IndInv

\* A pop takes the oldest frame, and sees at most one frame less than before.
LEMMA PopFacts ==
  ASSUME IndInv, Pop
  PROVE  /\ ring # << >> /\ Head(ring) = ring[1] /\ Head(ring) \in Frames
         /\ ring' \in Seq(Frames) /\ Len(ring') = Len(ring) - 1
         /\ \A k \in 1..(Len(ring) - 1) : ring'[k] = ring[k + 1]
         /\ visible' \in Nat /\ visible' <= Len(ring') /\ visible' >= visible - 1 /\ owed' = TRUE
<1>1. /\ Len(ring) >= 1 /\ visible' \in Nat /\ visible' <= Len(ring) - 1 /\ visible' >= visible - 1
      /\ ring' = Tail(ring) /\ owed' = TRUE
  BY RingBounds DEF IndInv, Pop, Larger
<1>2. ring \in Seq(Frames) /\ ring # << >>
  BY <1>1 DEF IndInv, TypeOK
<1>3. /\ Head(ring) = ring[1] /\ Head(ring) \in Frames
      /\ Tail(ring) \in Seq(Frames) /\ Len(Tail(ring)) = Len(ring) - 1
      /\ \A k \in 1..(Len(ring) - 1) : Tail(ring)[k] = ring[k + 1]
  BY <1>2, TailFrames
<1> QED
  BY <1>1, <1>2, <1>3

\* What remains of the ring after a pop is in order, starts after the popped frame and
\* ends before the next new one.
LEMMA PopOrder ==
  ASSUME IndInv, Pop, UNCHANGED pFrame
  PROVE  /\ \A k \in 1..(Len(ring') - 1) : ring'[k + 1] = After(ring'[k])
         /\ ring' # << >> => ring'[1] = After(Head(ring)) /\ pFrame' = After(ring'[Len(ring')])
         /\ ring' = << >> => pFrame' = After(Head(ring))
         /\ Newest # None => Head(ring) = After(Newest)
<1>1. /\ Len(ring) \in Nat /\ ring \in Seq(Frames)
      /\ \A k \in 1..(Len(ring) - 1) : ring[k + 1] = After(ring[k])
      /\ ring # << >> /\ Newest # None => ring[1] = After(Newest)
      /\ ring # << >> => pFrame = After(ring[Len(ring)])
  BY RingBounds DEF IndInv, TypeOK, NoFrameLost
<1>2. /\ ring # << >> /\ Head(ring) = ring[1]
      /\ ring' \in Seq(Frames) /\ Len(ring') = Len(ring) - 1
      /\ \A k \in 1..(Len(ring) - 1) : ring'[k] = ring[k + 1]
  BY PopFacts
<1>3. ASSUME NEW k \in 1..(Len(ring') - 1)
      PROVE  ring'[k + 1] = After(ring'[k])
  <2>1. k \in 1..(Len(ring) - 1) /\ k + 1 \in 1..(Len(ring) - 1)
    BY <1>1, <1>2
  <2> QED BY <1>1, <1>2, <2>1
<1>4. ASSUME ring' # << >>
      PROVE  ring'[1] = After(Head(ring)) /\ pFrame' = After(ring'[Len(ring')])
  <2>1. Len(ring') >= 1 /\ 1 \in 1..(Len(ring) - 1) /\ Len(ring') \in 1..(Len(ring) - 1)
        /\ Len(ring') + 1 = Len(ring) /\ 1 + 1 = 2
    BY <1>1, <1>2, <1>4
  <2>2. ring'[1] = ring[2] /\ ring[2] = After(ring[1])
    BY <1>1, <1>2, <2>1
  <2>3. ring'[Len(ring')] = ring[Len(ring)]
    BY <1>2, <2>1
  <2> QED BY <1>1, <1>2, <2>2, <2>3
<1>5. ring' = << >> => pFrame' = After(Head(ring))
  <2> HAVE ring' = << >>
  <2>1. Len(ring) = 1
    BY <1>1, <1>2
  <2> QED BY <1>1, <1>2, <2>1
<1> QED
  BY <1>1, <1>2, <1>3, <1>4, <1>5

\* A call that does not see enough frames to start.
LEMMA PrimeWaitStep ==
  ASSUME IndInv, PrimeWait
  PROVE  IndInv'
<1> USE DEF PrimeWait, heldVars, primeVars, producerVars, streamVars, MayConsume, Return
<1>1. visible' \in Nat /\ visible' <= Len(ring)
  BY RingBounds DEF IndInv, LoadVisible
<1>2. outcome' \in {"silence", "underrun"} /\ (outcome' = "underrun" => has_primed)
      /\ (outcome' = "silence" /\ direction = "Playback" => ~has_primed)
  BY DEF Starved
<1>3. delivered' = delivered
  BY <1>2 DEF IndInv, TypeOK
<1>4. TypeOK'
  BY <1>1, <1>2, <1>3, RingBounds DEF IndInv, TypeOK
<1>5. Room' /\ FillCoversRing'
  BY DEF IndInv, Room, FillCoversRing
<1>6. NoFrameLost' /\ NextNumber'
  BY <1>3, FramesUntouched DEF IndInv
<1>7. Supplied'
  BY DEF Supplied
<1>8. Counted' /\ UnderrunsCounted'
  BY <1>2, <1>3 DEF IndInv, TypeOK, Counted, UnderrunsCounted
<1> QED
  BY <1>4, <1>5, <1>6, <1>7, <1>8 DEF IndInv

\* A call that is primed sees the frames it is going to need.
LEMMA PrimeStep ==
  ASSUME IndInv, Prime
  PROVE  IndInv'
<1> USE DEF Prime, heldVars, producerVars, streamVars, MayConsume
<1>1. visible' \in Nat /\ visible' <= Len(ring)
  BY RingBounds DEF IndInv, LoadVisible
<1>2. TypeOK'
  BY <1>1, RingBounds DEF IndInv, TypeOK
<1>3. Room' /\ FillCoversRing'
  BY DEF IndInv, Room, FillCoversRing
<1>4. NoFrameLost' /\ NextNumber'
  BY FramesUntouched DEF IndInv
<1>5. Supplied'
  <2>1. CASE primed
    BY <2>1 DEF IndInv, Supplied
  <2>2. CASE ~primed
    <3> DEFINE seen == visible'
    <3>1. seen \in Nat /\ seen + Held >= priming_threshold_frames
      BY <1>1, <2>2
    <3>2. next # None => current # None
      BY DEF IndInv, NoFrameLost
    <3> HIDE DEF seen, Prime
    <3>3. seen + Held >= 2
      BY <3>1, Configuration, HeldCount
    <3>4. (current = None => seen >= 2) /\ (next = None => seen >= 1)
      BY <3>1, <3>2, <3>3, HeldCount
    <3> USE DEF seen, Prime
    <3> QED BY <3>4 DEF Supplied
  <2> QED BY <2>1, <2>2
<1>6. Counted' /\ UnderrunsCounted'
  BY DEF IndInv, TypeOK, Counted, UnderrunsCounted
<1> QED
  BY <1>2, <1>3, <1>4, <1>5, <1>6 DEF IndInv

\* The counter is decremented after the frame has left the ring.
LEMMA RemoveFillStep ==
  ASSUME IndInv, RemoveFill
  PROVE  IndInv'
<1> USE DEF RemoveFill, heldVars, primeVars, producerVars, callVars, streamVars
<1>1. TypeOK'
  <2>1. fill' \in Int
    BY DEF IndInv, TypeOK
  <2>2. owed' \in BOOLEAN
    OBVIOUS
  <2>3. UNCHANGED <<ring, used, visible, pState, pCount, pFrame, cState, current, next, phase, primed,
                    has_primed, counting, outcome, delivered, life, direction>>
    OBVIOUS
  <2> QED BY <2>1, <2>2, <2>3 DEF IndInv, TypeOK
<1>2. Room'
  BY DEF IndInv, Room
<1>3. FillCoversRing'
  BY RingBounds DEF IndInv, TypeOK, FillCoversRing
<1>4. NoFrameLost' /\ NextNumber'
  BY FramesUntouched DEF IndInv
<1>5. Supplied' /\ Counted' /\ UnderrunsCounted'
  BY DEF IndInv, Supplied, Counted, UnderrunsCounted
<1> QED
  BY <1>1, <1>2, <1>3, <1>4, <1>5 DEF IndInv

\* No call gives up: the frames it needs were seen when it was primed.
LEMMA NeverGivesUp ==
  ASSUME IndInv
  PROVE  /\ cState = "current" /\ current = None => visible # 0
         /\ cState = "next" /\ next = None => visible # 0
  BY RingBounds DEF IndInv, Supplied

\* What the frames' order needs of a step that pops a frame to follow the held one.
LEMMA PoppedInOrder ==
  ASSUME IndInv, Pop, UNCHANGED <<pFrame, delivered>>,
         current' # None,
         \/ current' = Head(ring) /\ next' = None
         \/ next' = Head(ring) /\ next' = After(current')
  PROVE  NoFrameLost' /\ NextNumber'
<1>1. Head(ring) \in Frames /\ Head(ring) # None
  BY PopFacts, Configuration DEF Frames, None
<1>2. Newest' = Head(ring)
  BY <1>1 DEF Newest
<1>3. NoFrameLost'
  BY <1>2, PopOrder DEF IndInv, NoFrameLost
<1>4. NextNumber'
  BY <1>2, PopOrder DEF NextNumber
<1> QED
  BY <1>3, <1>4

\* A step that pops keeps the fill metric and the types of what the ring holds.
LEMMA PoppedCounted ==
  ASSUME IndInv, ~owed, Pop, UNCHANGED <<used, fill, pState, pCount, pFrame>>
  PROVE  /\ FillCoversRing' /\ Room'
         /\ ring' \in Seq(Frames) /\ Len(ring') <= Capacity
         /\ visible' \in 0..Len(ring') /\ used' \in Len(ring')..Capacity
<1>1. /\ ring' \in Seq(Frames) /\ Len(ring') = Len(ring) - 1
      /\ visible' \in Nat /\ visible' <= Len(ring') /\ owed' = TRUE
  BY PopFacts
<1>2. Len(ring') <= Capacity /\ visible' \in 0..Len(ring') /\ used' \in Len(ring')..Capacity
  BY <1>1, RingBounds DEF IndInv
<1>3. FillCoversRing'
  BY <1>1, RingBounds DEF IndInv, TypeOK, FillCoversRing
<1>4. Room'
  BY DEF IndInv, Room
<1> QED
  BY <1>1, <1>2, <1>3, <1>4

\* The current frame is held or taken from the ring.
LEMMA TakeCurrentStep ==
  ASSUME IndInv, TakeCurrent
  PROVE  IndInv' /\ cState' = "next"
<1>1. /\ cState = "current" /\ ~owed
      /\ UNCHANGED <<used, fill, pState, pCount, pFrame, phase, has_primed, counting, life, direction>>
  BY DEF TakeCurrent, producerVars, streamVars
<1>2. /\ IF current # None THEN UNCHANGED <<ring, visible, owed, current>>
         ELSE Pop /\ current' = Head(ring)
      /\ cState' = "next"
      /\ UNCHANGED <<next, primed, outcome, delivered>>
  BY <1>1, NeverGivesUp DEF TakeCurrent, GiveUp, PopNothing
<1>3. CASE current # None
  <2>1. UNCHANGED <<ring, visible, owed, current>>
    BY <1>2, <1>3
  <2>2. TypeOK'
    BY <1>1, <1>2, <2>1 DEF IndInv, TypeOK
  <2>3. Room' /\ FillCoversRing'
    BY <1>1, <2>1 DEF IndInv, Room, FillCoversRing
  <2>4. NoFrameLost' /\ NextNumber'
    BY <1>1, <1>2, <2>1, FramesUntouched DEF IndInv
  <2>5. Supplied' /\ Counted' /\ UnderrunsCounted'
    BY <1>1, <1>2, <1>3, <2>1 DEF IndInv, Supplied, Counted, UnderrunsCounted
  <2> QED BY <1>2, <2>2, <2>3, <2>4, <2>5 DEF IndInv
<1>4. CASE current = None
  <2>1. Pop /\ current' = Head(ring) /\ next' = None
    BY <1>2, <1>4 DEF IndInv, NoFrameLost
  <2>2. current' \in Frames /\ current' # None /\ owed' = TRUE
    BY <2>1, PopFacts, Configuration DEF Frames, None
  <2>3. /\ FillCoversRing' /\ Room'
        /\ ring' \in Seq(Frames) /\ Len(ring') <= Capacity
        /\ visible' \in 0..Len(ring') /\ used' \in Len(ring')..Capacity
    BY <1>1, <2>1, PoppedCounted
  <2>4. TypeOK'
    BY <1>1, <1>2, <2>2, <2>3 DEF IndInv, TypeOK
  <2>5. NoFrameLost' /\ NextNumber'
    BY <1>1, <1>2, <2>1, <2>2, PoppedInOrder
  <2>6. Supplied'
    <3>1. visible \in Nat /\ visible >= 2 /\ visible' \in Nat /\ visible' >= visible - 1
      BY <1>1, <1>4, <2>1, PopFacts, RingBounds DEF IndInv, Supplied
    <3>2. visible' >= 1
      BY <3>1
    <3> QED BY <1>2, <2>2, <3>2 DEF Supplied
  <2>7. Counted' /\ UnderrunsCounted'
    BY <1>1, <1>2 DEF IndInv, Counted, UnderrunsCounted
  <2> QED BY <1>2, <2>3, <2>4, <2>5, <2>6, <2>7 DEF IndInv
<1> QED
  BY <1>3, <1>4

\* So is the next one.
LEMMA TakeNextStep ==
  ASSUME IndInv, TakeNext
  PROVE  IndInv' /\ cState' = "mix"
<1>1. /\ cState = "next" /\ ~owed
      /\ UNCHANGED <<used, fill, pState, pCount, pFrame, phase, has_primed, counting, life, direction>>
  BY DEF TakeNext, producerVars, streamVars
<1>2. /\ IF next # None THEN UNCHANGED <<ring, visible, owed, next>>
         ELSE Pop /\ next' = Head(ring)
      /\ cState' = "mix"
      /\ UNCHANGED <<current, primed, outcome, delivered>>
  BY <1>1, NeverGivesUp DEF TakeNext, GiveUp, PopNothing
<1>3. current # None
  BY <1>1 DEF IndInv, Supplied
<1>4. CASE next # None
  <2>1. UNCHANGED <<ring, visible, owed, next>>
    BY <1>2, <1>4
  <2>2. TypeOK'
    BY <1>1, <1>2, <2>1 DEF IndInv, TypeOK
  <2>3. Room' /\ FillCoversRing'
    BY <1>1, <2>1 DEF IndInv, Room, FillCoversRing
  <2>4. NoFrameLost' /\ NextNumber'
    BY <1>1, <1>2, <2>1, FramesUntouched DEF IndInv
  <2>5. Supplied' /\ Counted' /\ UnderrunsCounted'
    BY <1>1, <1>2, <1>3, <1>4, <2>1 DEF IndInv, Supplied, Counted, UnderrunsCounted
  <2> QED BY <1>2, <2>2, <2>3, <2>4, <2>5 DEF IndInv
<1>5. CASE next = None
  <2>1. Pop /\ next' = Head(ring) /\ Newest = current
    BY <1>2, <1>5 DEF Newest
  <2>2. next' \in Frames /\ next' # None /\ owed' = TRUE
    BY <2>1, PopFacts, Configuration DEF Frames, None
  <2>3. /\ FillCoversRing' /\ Room'
        /\ ring' \in Seq(Frames) /\ Len(ring') <= Capacity
        /\ visible' \in 0..Len(ring') /\ used' \in Len(ring')..Capacity
    BY <1>1, <2>1, PoppedCounted
  <2>4. TypeOK'
    BY <1>1, <1>2, <2>2, <2>3 DEF IndInv, TypeOK
  <2>5. next' = After(current')
    BY <1>1, <1>2, <1>3, <2>1, PopOrder
  <2>6. NoFrameLost' /\ NextNumber'
    BY <1>1, <1>2, <1>3, <2>1, <2>5, PoppedInOrder
  <2>7. Supplied' /\ Counted' /\ UnderrunsCounted'
    BY <1>1, <1>2, <1>3, <2>2 DEF IndInv, Supplied, Counted, UnderrunsCounted
  <2> QED BY <1>2, <2>3, <2>4, <2>6, <2>7 DEF IndInv
<1> QED
  BY <1>4, <1>5

\* The corrected step is positive, less than two frames, and at most one frame unless the
\* ring has a frame left that is seen.
LEMMA CorrectedStep ==
  ASSUME IndInv, Mix
  PROVE  /\ phase' \in Nat /\ phase' < phase + 2 * Unit
         /\ Target >= 2 => phase' <= phase + Unit \/ visible' >= 1
<1> DEFINE seen == visible'
           corr == drift_correction(visible' + Held)
<1>1. seen \in Nat /\ phase' = phase + Unit + corr /\ phase \in Nat
  BY RingBounds DEF IndInv, TypeOK, Mix, LoadVisible, nominal_step
<1>2. Held = 2
  BY HeldCount DEF IndInv, Supplied, Mix
<1>3. corr = drift_correction(seen + 2)
  BY <1>2
<1> HIDE DEF seen, corr
<1>4. seen + 2 \in Nat
  BY <1>1
<1>5. /\ corr \in Int /\ -Unit < corr /\ corr < Unit
      /\ seen + 2 <= Target => corr <= 0
  BY <1>3, <1>4, Correction
<1>6. phase + Unit + corr \in Nat /\ phase + Unit + corr < phase + 2 * Unit
  BY <1>1, <1>5, Configuration
<1>7. Target >= 2 => phase + Unit + corr <= phase + Unit \/ seen >= 1
  BY <1>1, <1>5, Configuration
<1> QED
  BY <1>1, <1>6, <1>7 DEF seen

\* Mixing moves the phase alone.
LEMMA MixStep ==
  ASSUME IndInv, Mix
  PROVE  IndInv'
<1>1. /\ cState = "mix" /\ ~owed /\ cState' = "advance"
      /\ UNCHANGED <<ring, used, fill, pState, pCount, pFrame, current, next, primed, has_primed, owed,
                     counting, outcome, delivered, life, direction>>
  BY DEF Mix, producerVars, primeVars, callVars, streamVars
<1>2. phase' \in Nat
  BY CorrectedStep
<1>3. visible' \in 0..Len(ring)
  BY RingBounds DEF IndInv, Mix, LoadVisible
<1>4. TypeOK'
  BY <1>1, <1>2, <1>3 DEF IndInv, TypeOK
<1>5. Room' /\ FillCoversRing'
  BY <1>1 DEF IndInv, Room, FillCoversRing
<1>6. NoFrameLost' /\ NextNumber'
  BY <1>1, FramesUntouched DEF IndInv
<1>7. Supplied' /\ Counted' /\ UnderrunsCounted'
  BY <1>1 DEF IndInv, Supplied, Counted, UnderrunsCounted
<1> QED
  BY <1>4, <1>5, <1>6, <1>7 DEF IndInv

\* The advance: the next frame becomes the current one, and the ring gives another or none.
LEMMA AdvanceStep ==
  ASSUME IndInv, Advance
  PROVE  IndInv'
<1>1. /\ cState = "advance" /\ ~owed /\ phase >= Unit /\ next # None
      /\ current' = next /\ phase' = phase - Unit
      /\ (Pop /\ next' = Head(ring)) \/ (PopNothing /\ next' = None)
      /\ UNCHANGED <<used, fill, pState, pCount, pFrame, cState, primed, has_primed,
                     counting, outcome, delivered, life, direction>>
  BY DEF Advance, producerVars, primeVars, callVars, streamVars
<1>2. phase' \in Nat /\ current' \in Frames
  BY <1>1, Configuration DEF IndInv, TypeOK
<1>3. Supplied' /\ Counted' /\ UnderrunsCounted'
  BY <1>1 DEF IndInv, Supplied, Counted, UnderrunsCounted
<1>4. CASE Pop /\ next' = Head(ring)
  <2>1. next' \in Frames /\ next' # None /\ owed' = TRUE
    BY <1>4, PopFacts, Configuration DEF Frames, None
  <2>2. /\ FillCoversRing' /\ Room'
        /\ ring' \in Seq(Frames) /\ Len(ring') <= Capacity
        /\ visible' \in 0..Len(ring') /\ used' \in Len(ring')..Capacity
    BY <1>1, <1>4, PoppedCounted
  <2>3. TypeOK'
    BY <1>1, <1>2, <2>1, <2>2 DEF IndInv, TypeOK
  <2>4. next' = After(current')
    BY <1>1, <1>4, PopOrder DEF Newest
  <2>5. NoFrameLost' /\ NextNumber'
    BY <1>1, <1>4, <2>4, PoppedInOrder
  <2> QED BY <1>3, <2>2, <2>3, <2>5 DEF IndInv
<1>5. CASE PopNothing /\ next' = None
  <2>1. UNCHANGED <<ring, visible, owed>>
    BY <1>5 DEF PopNothing
  <2>2. TypeOK'
    BY <1>1, <1>2, <1>5, <2>1 DEF IndInv, TypeOK
  <2>3. Room' /\ FillCoversRing'
    BY <1>1, <2>1 DEF IndInv, Room, FillCoversRing
  <2>4. Newest' = Newest /\ Newest = next
    BY <1>1, <1>5 DEF Newest
  <2>5. NoFrameLost' /\ NextNumber'
    BY <1>1, <1>5, <2>1, <2>4 DEF IndInv, NoFrameLost, NextNumber
  <2> QED BY <1>3, <2>2, <2>3, <2>5 DEF IndInv
<1> QED
  BY <1>1, <1>4, <1>5

\* A delivered frame leaves the resampler primed exactly if two frames are held.
LEMMA DeliverStep ==
  ASSUME IndInv, Deliver
  PROVE  IndInv'
<1>1. /\ cState = "advance" /\ ~owed /\ cState' = "idle" /\ primed' = (next # None)
      /\ outcome' = "frame" /\ delivered' = TRUE
      /\ UNCHANGED <<ring, used, visible, fill, pState, pCount, pFrame, current, next, phase,
                     has_primed, owed, counting, life, direction>>
  BY DEF Deliver, Return, producerVars, heldVars, streamVars
<1>2. current # None
  BY <1>1 DEF IndInv, Supplied
<1>3. TypeOK'
  BY <1>1 DEF IndInv, TypeOK
<1>4. Room' /\ FillCoversRing'
  BY <1>1 DEF IndInv, Room, FillCoversRing
<1>5. NoFrameLost' /\ NextNumber'
  BY <1>1, <1>2 DEF IndInv, NoFrameLost, NextNumber, Newest
<1>6. Supplied' /\ Counted' /\ UnderrunsCounted'
  BY <1>1, <1>2 DEF IndInv, Supplied, Counted, UnderrunsCounted
<1> QED
  BY <1>3, <1>4, <1>5, <1>6 DEF IndInv

\* Dropping the stream, and a step of nothing.
LEMMA DropStep ==
  ASSUME IndInv, Stop \/ Close \/ UNCHANGED vars
  PROVE  IndInv'
<1>1. /\ life' \in {life, "stopped", "closed"}
      /\ UNCHANGED <<ring, used, visible, fill, pState, pCount, pFrame, cState, current, next, phase,
                     primed, has_primed, owed, counting, outcome, delivered, direction>>
  BY DEF Stop, Close, vars, producerVars, heldVars, primeVars, callVars, streamVars
<1>2. TypeOK'
  BY <1>1 DEF IndInv, TypeOK
<1>3. Room' /\ FillCoversRing'
  BY <1>1 DEF IndInv, Room, FillCoversRing
<1>4. NoFrameLost' /\ NextNumber'
  BY <1>1, FramesUntouched DEF IndInv
<1>5. Supplied' /\ Counted' /\ UnderrunsCounted'
  BY <1>1 DEF IndInv, Supplied, Counted, UnderrunsCounted
<1> QED
  BY <1>2, <1>3, <1>4, <1>5 DEF IndInv

\* Every step of the producer, of the consumer and of the drop preserves the invariant.
LEMMA NextIndInv == IndInv /\ [Next]_vars => IndInv'
<1> SUFFICES ASSUME IndInv, [Next]_vars PROVE IndInv'
  OBVIOUS
<1>1. ASSUME NEW n \in Sizes, Accept(n) \/ Refuse(n) PROVE IndInv'
  BY <1>1, AcceptStep, RefuseStep
<1>2. CASE AddFill \/ Push
  BY <1>2, AddFillStep, PushStep
<1>3. CASE PrimeWait \/ Prime
  BY <1>3, PrimeWaitStep, PrimeStep
<1>4. CASE TakeCurrent \/ TakeNext
  BY <1>4, TakeCurrentStep, TakeNextStep
<1>5. CASE RemoveFill
  BY <1>5, RemoveFillStep
<1>6. CASE Mix \/ Advance \/ Deliver
  BY <1>6, MixStep, AdvanceStep, DeliverStep
<1>7. CASE Stop \/ Close \/ UNCHANGED vars
  BY <1>7, DropStep
<1> QED
  BY <1>1, <1>2, <1>3, <1>4, <1>5, <1>6, <1>7 DEF Next, Produce, Consume

-----------------------------------------------------------------------------
(* Theorems *)

\* The inductive invariant holds in every reachable state of every stream.
THEOREM Invariance == Spec => []IndInv
  BY InitIndInv, NextIndInv, PTL DEF Spec

\* Every state is of the stream's type: the ring never exceeds capacity_frames, the consumer
\* never counts on a frame that is not there and the producer never on room that is not.
THEOREM TypeCorrect == Spec => []TypeOK
<1>1. IndInv => TypeOK
  BY DEF IndInv
<1> QED BY <1>1, Invariance, PTL

\* add_fill before the push and remove_fill after the pop keep ring_fill_frames at or above
\* what the ring holds, exactly by what is on its way: it never wraps below zero.
THEOREM FillNeverBehind == Spec => [](FillCoversRing /\ fill >= Len(ring) /\ fill >= 0)
<1>1. IndInv => FillCoversRing /\ fill >= Len(ring) /\ fill >= 0
  <2> SUFFICES ASSUME IndInv PROVE FillCoversRing /\ fill >= Len(ring) /\ fill >= 0
    OBVIOUS
  <2>1. FillCoversRing
    BY DEF IndInv
  <2>2. fill >= Len(ring) /\ fill >= 0
    BY <2>1, RingBounds DEF IndInv, FillCoversRing
  <2> QED BY <2>1, <2>2
<1> QED BY <1>1, Invariance, PTL

\* Frames reach the resampler in order, none skipped and none twice, through every underrun
\* and re-priming.
THEOREM FramesInOrder == Spec => []NoFrameLost
<1>1. IndInv => NoFrameLost
  BY DEF IndInv
<1> QED BY <1>1, Invariance, PTL

\* An underrun is counted only after a first frame, and a playback callback without a frame counts
\* one always then.
THEOREM UnderrunsAreCounted == Spec => []UnderrunsCounted
<1>1. IndInv => UnderrunsCounted
  BY DEF IndInv
<1> QED BY <1>1, Invariance, PTL

\* A call that was primed never starves between priming and its two frames: the branches of
\* prepare_next_frame that give up are not taken.
THEOREM PrimedCallsDeliver == Spec => PrimedDelivers
<1>1. IndInv /\ [Next]_vars => [~(cState \in {"current", "next"} /\ cState' = "idle")]_vars
  <2> SUFFICES ASSUME IndInv, Next, cState \in {"current", "next"} PROVE cState' # "idle"
    OBVIOUS
  <2>1. CASE Produce \/ RemoveFill \/ Stop \/ Close
    <3>1. cState' = cState
      BY <2>1 DEF Produce, Accept, Refuse, AddFill, Push, RemoveFill, Stop, Close
    <3> QED BY <3>1
  <2>2. CASE TakeCurrent \/ TakeNext
    BY <2>2, TakeCurrentStep, TakeNextStep
  <2>3. CASE PrimeWait \/ Prime \/ Mix \/ Advance \/ Deliver
    BY <2>3 DEF PrimeWait, Prime, Mix, Advance, Deliver, MayConsume
  <2> QED
    BY <2>1, <2>2, <2>3 DEF Next, Consume
<1> QED
  BY <1>1, Invariance, PTL DEF Spec, PrimedDelivers

\* The phase invariant for the targets that leave room for the two held frames.
LEMMA PhaseStep ==
  ASSUME Target >= 2, IndInv, PhaseInv, [Next]_vars
  PROVE  PhaseInv'
<1>1. phase \in Nat /\ Unit \in Nat /\ visible \in Nat
  BY Configuration, RingBounds DEF IndInv, TypeOK
<1>2. CASE (Produce \/ RemoveFill \/ Stop \/ Close \/ UNCHANGED vars)
  <2>1. UNCHANGED <<cState, phase, next, visible>>
    BY <1>2 DEF Produce, Accept, Refuse, AddFill, Push, RemoveFill, Stop, Close, vars, heldVars
  <2> QED BY <2>1 DEF PhaseInv
<1>3. CASE PrimeWait \/ Prime
  <2>1. cState # "advance" /\ cState' # "advance" /\ phase' = phase
    BY <1>3 DEF PrimeWait, Prime, MayConsume, Return, heldVars
  <2> QED BY <2>1 DEF PhaseInv
<1>4. CASE TakeCurrent \/ TakeNext
  <2>1. cState # "advance" /\ cState' # "advance" /\ phase' = phase
    BY <1>4, TakeCurrentStep, TakeNextStep DEF TakeCurrent, TakeNext
  <2> QED BY <2>1 DEF PhaseInv
<1>5. CASE Mix
  <2>1. cState = "mix" /\ cState' = "advance" /\ next' = next /\ next # None
    BY <1>5 DEF Mix, IndInv, Supplied
  <2>2. phase < Unit
    BY <2>1 DEF PhaseInv
  <2>3. /\ phase' \in Nat /\ phase' < phase + 2 * Unit
        /\ phase' <= phase + Unit \/ visible' >= 1
    BY <1>5, CorrectedStep
  <2>4. phase' < 2 * Unit \/ (phase' < 3 * Unit /\ visible' >= 1)
    <3> DEFINE p == phase'
               v == visible'
    <3>1. p \in Nat /\ p < phase + 2 * Unit /\ (p <= phase + Unit \/ v >= 1)
      BY <2>3
    <3> HIDE DEF p, v
    <3>2. p < 2 * Unit \/ (p < 3 * Unit /\ v >= 1)
      BY <1>1, <2>2, <3>1
    <3> QED BY <3>2 DEF p, v
  <2> QED BY <2>1, <2>4 DEF PhaseInv
<1>6. CASE Advance
  <2>1. /\ cState = "advance" /\ cState' = "advance" /\ phase >= Unit /\ next # None
        /\ phase' = phase - Unit
        /\ (Pop /\ next' = Head(ring)) \/ (PopNothing /\ next' = None)
    BY <1>6 DEF Advance
  <2>2. CASE Pop /\ next' = Head(ring)
    <3>1. next' # None
      BY <2>2, PopFacts, Configuration DEF Frames, None
    <3>2. phase - Unit < 2 * Unit
      BY <1>1, <2>1 DEF PhaseInv
    <3> QED BY <2>1, <3>1, <3>2 DEF PhaseInv
  <2>3. CASE PopNothing /\ next' = None
    <3>1. visible = 0
      BY <2>3 DEF PopNothing
    <3>2. phase < 2 * Unit
      BY <2>1, <3>1 DEF PhaseInv
    <3>3. phase - Unit < Unit /\ phase - Unit < 2 * Unit
      BY <1>1, <3>2
    <3> QED BY <2>1, <3>3 DEF PhaseInv
  <2> QED BY <2>1, <2>2, <2>3
<1>7. CASE Deliver
  <2>1. cState = "advance" /\ cState' = "idle" /\ phase' = phase /\ (phase < Unit \/ next = None)
    BY <1>7 DEF Deliver, Return, heldVars
  <2> QED BY <2>1 DEF PhaseInv
<1> QED
  BY <1>2, <1>3, <1>4, <1>5, <1>6, <1>7 DEF Next, Consume

\* With a target of at least the two frames that are held, the weight of the next frame is
\* below one whenever a frame is mixed, whatever the drift and however the ring runs dry.
THEOREM AlwaysInterpolates ==
  ASSUME Target >= 2
  PROVE  Spec => []InterpolatesBetween
<1>1. Init => PhaseInv
  BY Configuration DEF Init, PhaseInv
<1>2. IndInv /\ PhaseInv /\ [Next]_vars => PhaseInv'
  BY PhaseStep
<1>3. PhaseInv => InterpolatesBetween
  BY DEF PhaseInv, InterpolatesBetween
<1> QED
  BY <1>1, <1>2, <1>3, Invariance, PTL DEF Spec
=============================================================================
