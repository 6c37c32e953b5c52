---------------------------- MODULE Router_proofs ----------------------------
(***************************************************************************)
(* For any number of devices and in any order of calls, callbacks and      *)
(* failures, no IOProc outlives the contexts of its router.                *)
(*                                                                         *)
(* For any ring, channel count, rates and interleaving of the callbacks of *)
(* a route, what is interpolated are two whole frames in a row, and the    *)
(* output moves on by the corrected ratio unless an underrun was counted.  *)
(***************************************************************************)
EXTENDS Router, RouteStream, FiniteSetTheorems, TLAPS

TypeInv ==
  /\ contexts \in Seq(Devices)
  /\ pc \in {"gone", "create", "usage", "start", "running", "drop"}
  /\ at \in Nat \ {0}
  /\ pc # "gone" => at <= Len(contexts)
  /\ procedure_id \in [Devices -> BOOLEAN]
  /\ running \in [Devices -> BOOLEAN]
  /\ hal \in [Devices -> {"none", "made", "started"}]
  /\ present \in [Devices -> BOOLEAN]
  /\ callback \in [Devices -> BOOLEAN]

\* What is going on at a device is known to its context: each fact of Core Audio has
\* the flag that makes drop undo it.
Recorded ==
  \A d \in Devices :
    /\ hal[d] # "none" => procedure_id[d]
    /\ hal[d] = "started" => running[d]
    /\ callback[d] => running[d]
    /\ running[d] => procedure_id[d]
    /\ procedure_id[d] => d \in Owned

\* How far start and drop have come.
Stages ==
  /\ pc = "gone" => contexts = << >>
  /\ pc \in {"create", "usage"} => \A d \in Devices : ~running[d]
  /\ pc = "create" => \A k \in 1..(at - 1) : procedure_id[contexts[k]]
  /\ pc = "usage" => \A k \in 1..at : procedure_id[contexts[k]]
  /\ pc = "start" => \A k \in 1..Len(contexts) : procedure_id[contexts[k]]
  /\ pc = "drop" => \A k \in 1..(at - 1) : ~procedure_id[contexts[k]]

IndInv == TypeInv /\ Recorded /\ Stages

-----------------------------------------------------------------------------
\* At first there is no router, and no IOProc.
LEMMA InitIndInv == Init => IndInv
  BY DEF Init, IndInv, TypeInv, Recorded, Stages, Owned

\* The contexts of a new router are a sequence of devices.
LEMMA OrdersAreSequences ==
  ASSUME NEW devices \in Orders
  PROVE  devices \in Seq(Devices) /\ Len(devices) >= 1
<1>1. Cardinality(Devices) \in Nat
  BY RouterAssumption, FS_CardinalityType
<1>2. PICK n \in 1..Cardinality(Devices) : devices \in [1..n -> Devices]
  BY DEF Orders
<1>3. n \in Nat /\ n >= 1
  BY <1>1, <1>2
<1> QED
  BY <1>2, <1>3

\* Every step keeps the record of what is going on, and how far start and drop are.
LEMMA NextIndInv == IndInv /\ [Next]_vars => IndInv'
<1> SUFFICES ASSUME IndInv, [Next]_vars PROVE IndInv'
  OBVIOUS
<1> USE DEF IndInv, TypeInv
<1>1. CASE \E devices \in Orders : Start(devices)
  <2> PICK devices \in Orders : Start(devices)
    BY <1>1
  <2>1. TypeInv'
    BY OrdersAreSequences DEF Start, contextVars
  <2>2. \A d \in Devices : ~procedure_id[d]
    BY DEF Start, Stages, Recorded, Owned
  <2>3. Recorded'
    BY <2>2 DEF Start, contextVars, Recorded
  <2>4. Stages'
    BY <2>2 DEF Start, contextVars, Stages, Recorded
  <2> QED
    BY <2>1, <2>3, <2>4
<1>2. CASE CreateIOProcID
  <2>1. Device \in Devices /\ Device \in Owned
    BY <1>2 DEF CreateIOProcID, Device, Owned
  <2>2. TypeInv'
    BY <1>2, <2>1 DEF CreateIOProcID
  <2>3. Recorded'
    BY <1>2, <2>1 DEF CreateIOProcID, Recorded, Owned
  <2>4. Stages'
    BY <1>2, <2>1 DEF CreateIOProcID, Stages, Device
  <2> QED
    BY <2>2, <2>3, <2>4
<1>3. CASE CreateIOProcIDFail
  <2>1. Device \in Devices /\ Device \in Owned
    BY <1>3 DEF CreateIOProcIDFail, Device, Owned
  <2>2. PICK made \in BOOLEAN :
          /\ procedure_id' = [procedure_id EXCEPT ![Device] = made]
          /\ hal' = [hal EXCEPT ![Device] = IF made THEN "made" ELSE "none"]
    BY <1>3, <2>1 DEF CreateIOProcIDFail
  <2>3. TypeInv'
    BY <1>3, <2>1, <2>2 DEF CreateIOProcIDFail, Fail
  <2>4. Recorded'
    BY <1>3, <2>1, <2>2 DEF CreateIOProcIDFail, Recorded, Stages, Owned
  <2>5. Stages'
    BY <1>3 DEF CreateIOProcIDFail, Fail, Stages
  <2> QED
    BY <2>3, <2>4, <2>5
<1>4. CASE ConfigureStreamUsage
  <2>1. TypeInv'
    BY <1>4 DEF ConfigureStreamUsage, contextVars
  <2>2. Recorded'
    BY <1>4 DEF ConfigureStreamUsage, contextVars, Recorded, Owned
  <2>3. Stages'
    BY <1>4 DEF ConfigureStreamUsage, contextVars, Stages
  <2> QED
    BY <2>1, <2>2, <2>3
<1>5. CASE ConfigureStreamUsageFail \/ DeviceStartFail \/ Drop
  <2> USE DEF ConfigureStreamUsageFail, DeviceStartFail, Drop, Fail, contextVars
  <2>1. TypeInv'
    BY <1>5
  <2>2. Recorded'
    BY <1>5 DEF Recorded, Owned
  <2>3. Stages'
    BY <1>5 DEF Stages
  <2> QED
    BY <2>1, <2>2, <2>3
<1>6. CASE DeviceStart
  <2>1. Device \in Devices /\ procedure_id[Device]
    BY <1>6 DEF DeviceStart, Device, Stages
  <2>2. TypeInv'
    BY <1>6, <2>1 DEF DeviceStart, Onward
  <2>3. Recorded'
    BY <1>6, <2>1 DEF DeviceStart, Recorded, Owned
  <2>4. Stages'
    BY <1>6, <2>1 DEF DeviceStart, Onward, Stages
  <2> QED
    BY <2>2, <2>3, <2>4
<1>7. CASE DeviceStop
  <2>1. Device \in Devices
    BY <1>7 DEF DeviceStop, Device
  <2>2. TypeInv'
    BY <1>7, <2>1 DEF DeviceStop
  <2>3. Recorded'
    BY <1>7, <2>1 DEF DeviceStop, Recorded, Owned
  <2>4. Stages'
    BY <1>7 DEF DeviceStop, Stages
  <2> QED
    BY <2>2, <2>3, <2>4
<1>8. CASE DestroyIOProcID
  <2>1. Device \in Devices /\ ~running[Device]
    BY <1>8 DEF DestroyIOProcID, Device
  <2>2. TypeInv'
    BY <1>8, <2>1 DEF DestroyIOProcID, Onward
  <2>3. \A k \in 1..at : ~procedure_id'[contexts[k]]
    BY <1>8, <2>1 DEF DestroyIOProcID, Stages, Device
  <2>4. \A d \in Devices : procedure_id'[d] => d \in Owned'
    <3>1. CASE at < Len(contexts)
      BY <1>8, <2>1, <3>1 DEF DestroyIOProcID, Recorded, Owned
    <3>2. CASE at = Len(contexts)
      BY <1>8, <2>1, <2>3, <3>2 DEF DestroyIOProcID, Recorded, Owned
    <3> QED
      BY <1>8, <3>1, <3>2 DEF DestroyIOProcID
  <2>5. Recorded'
    BY <1>8, <2>1, <2>4 DEF DestroyIOProcID, Recorded
  <2>6. Stages'
    BY <1>8, <2>3 DEF DestroyIOProcID, Onward, Stages
  <2> QED
    BY <2>2, <2>5, <2>6
<1>9. CASE \E d \in Devices : CallbackBegin(d) \/ CallbackEnd(d) \/ Unplug(d) \/ Plug(d)
  <2> USE DEF CallbackBegin, CallbackEnd, Unplug, Plug, contextVars
  <2>1. TypeInv'
    <3>1. PICK d \in Devices : CallbackBegin(d) \/ CallbackEnd(d) \/ Unplug(d) \/ Plug(d)
      BY <1>9
    <3>2. CASE CallbackBegin(d) \/ CallbackEnd(d)
      BY <3>2
    <3>3. CASE Unplug(d) \/ Plug(d)
      BY <3>3
    <3> QED BY <3>1, <3>2, <3>3
  <2>2. Recorded'
    BY <1>9 DEF Recorded, Owned
  <2>3. Stages'
    BY <1>9 DEF Stages
  <2> QED
    BY <2>1, <2>2, <2>3
<1>10. CASE UNCHANGED vars
  BY <1>10 DEF vars, contextVars, Recorded, Stages, Owned
<1> QED
  BY <1>1, <1>2, <1>3, <1>4, <1>5, <1>6, <1>7, <1>8, <1>9, <1>10 DEF Next, Step

-----------------------------------------------------------------------------
\* An IOProc in Core Audio, and a running callback, always have their context: the
\* argument of the two safety comments of AudioRouter, for any number of devices.
THEOREM ContextsOutliveProcs == Spec => []NoDanglingProc
<1>1. IndInv => NoDanglingProc
  BY DEF IndInv, Recorded, NoDanglingProc
<1> QED
  BY <1>1, InitIndInv, NextIndInv, PTL DEF Spec

-----------------------------------------------------------------------------
(* The ring of a route *)

Samples == (0..(FrameNumbers - 1)) \X (0..(Channels - 1))

\* The states of the two callbacks, and of what they have between them.
RouteTypeOK ==
  /\ nominal_step \in Steps
  /\ source \in {"idle", "frame", "push"} /\ width \in 1..Channels
  /\ channel \in 0..(Channels - 1) /\ pFrame \in 0..(FrameNumbers - 1)
  /\ ring \in Seq(Samples)
  /\ used \in Nat /\ visible \in Nat
  /\ sink \in {"idle", "frame", "current", "next", "advance", "add"}
  /\ primed \in BOOLEAN /\ torn \in BOOLEAN /\ underran \in BOOLEAN
  /\ phase \in Nat /\ position \in Int
  /\ primed \/ sink = "next" => current \in [1..Channels -> Samples]
  /\ primed => next \in [1..Channels -> Samples]

\* Either side's view of the ring errs on its own safe side, and what was checked
\* before a frame still holds at each of its samples.
Views ==
  /\ visible <= Len(ring) /\ Len(ring) <= used /\ used <= Capacity
  /\ source = "push" => used + Channels - channel <= Capacity
  /\ source # "push" => channel = 0
  /\ sink = "current" => visible >= 2 * Channels
  /\ sink = "next" => visible >= Channels

\* Where the sink's callback is, and what it has prepared.
Prepared ==
  /\ sink \in {"current", "next", "add"} => ~primed
  /\ sink = "advance" => primed /\ ~underran /\ position >= 0
  /\ primed /\ sink # "advance" => phase < Unit

\* The samples of frame f, counted from the first one without wrapping.
Frame(f) == [c \in 1..Channels |-> <<f % FrameNumbers, c - 1>>]

\* The ring holds k whole frames, the first of them number h, and the samples of the
\* frame that is being pushed.
Content(h, k) ==
  /\ Len(ring) = k * Channels + channel
  /\ pFrame = (h + k) % FrameNumbers
  /\ \A j \in 0..k, c \in 0..(Channels - 1) :
       j * Channels + c < Len(ring) => ring[j * Channels + c + 1] = <<(h + j) % FrameNumbers, c>>

\* What the sink has taken is what was in front of the ring.
Held(h) ==
  /\ primed => h >= 2 /\ current = Frame(h - 2) /\ next = Frame(h - 1)
  /\ sink = "next" => h >= 1 /\ current = Frame(h - 1)

\* Where the output goes on, in units: at the phase it has come to, or, without a pair
\* of frames, at the first frame it will take.
Ahead(h) ==
  IF primed THEN (h - 2) * Unit + phase
  ELSE IF sink = "next" THEN (h - 1) * Unit ELSE h * Unit

\* How far that is from the last output frame, which was at p.
Clock(h, p) ==
  /\ primed => p < (h - 1) * Unit
  /\ IF underran THEN Ahead(h) - p \in 1..(nominal_step + MaxDrift + Unit)
     ELSE primed /\ Ahead(h) - p \in (nominal_step - MaxDrift)..(nominal_step + MaxDrift)

Whole ==
  \E h, k \in Nat :
    /\ Content(h, k)
    /\ Held(h)
    /\ position >= 0 => \E p, q \in Int : position = p - q * Units /\ Clock(h, p)

RouteInv == RouteTypeOK /\ Views /\ Prepared /\ (~torn => Whole)

-----------------------------------------------------------------------------
(* Numbers *)

(* A sample's place in the ring determines its frame and its channel. *)
LEMMA PlaceIsUnique ==
  ASSUME NEW n \in Nat \ {0}, NEW j \in Int, NEW k \in Int, NEW c \in 0..(n - 1), NEW d \in 0..(n - 1),
         j * n + c = k * n + d
  PROVE  j = k /\ c = d
<1>1. ASSUME NEW a \in Int, NEW b \in Int, a < b
      PROVE  a * n + n <= b * n
  <2>1. PICK e \in Nat : b = a + 1 + e
    <3>1. b - a - 1 \in Nat /\ b = a + 1 + (b - a - 1)
      BY <1>1
    <3> QED BY <3>1
  <2>2. e * n >= 0
    OBVIOUS
  <2>3. b * n = a * n + n + e * n
    BY <2>1
  <2> QED BY <2>2, <2>3
<1>2. ~(j < k)
  <2> SUFFICES ASSUME j < k PROVE FALSE
    OBVIOUS
  <2>1. j * n + n <= k * n
    BY <1>1
  <2> QED BY <2>1
<1>3. ~(k < j)
  <2> SUFFICES ASSUME k < j PROVE FALSE
    OBVIOUS
  <2>1. k * n + n <= j * n
    BY <1>1
  <2> QED BY <2>1
<1>4. j = k
  BY <1>2, <1>3
<1> QED BY <1>4

(* Quotient and remainder. *)
LEMMA Division ==
  ASSUME NEW n \in Nat \ {0}, NEW x \in Int
  PROVE  /\ x \div n \in Int /\ x % n \in 0..(n - 1) /\ x = (x \div n) * n + (x % n)
         /\ x \in Nat => x \div n \in Nat
OBVIOUS

(* The remainder is the one number in range that differs by a multiple. *)
LEMMA RemainderIs ==
  ASSUME NEW n \in Nat \ {0}, NEW x \in Int, NEW q \in Int, NEW m \in 0..(n - 1), x = q * n + m
  PROVE  x % n = m
<1>1. x \div n \in Int /\ x % n \in 0..(n - 1) /\ x = (x \div n) * n + (x % n)
  BY Division
<1> DEFINE a == x \div n
           r == x % n
<1>2. a \in Int /\ r \in 0..(n - 1) /\ a * n + r = q * n + m
  BY <1>1
<1> HIDE DEF a, r
<1>3. r = m
  BY <1>2, PlaceIsUnique
<1> QED BY <1>3 DEF r

(* A number in range is its own remainder, and n has none. *)
LEMMA SmallRemainder ==
  ASSUME NEW n \in Nat \ {0}
  PROVE  /\ \A m \in 0..(n - 1) : m % n = m
         /\ n % n = 0
<1>1. ASSUME NEW m \in 0..(n - 1) PROVE m % n = m
  <2>1. m \in Int /\ m = 0 * n + m /\ 0 \in Int
    OBVIOUS
  <2> QED BY <2>1, RemainderIs
<1>2. n % n = 0
  <2>1. n \in Int /\ n = 1 * n + 0 /\ 1 \in Int /\ 0 \in 0..(n - 1)
    OBVIOUS
  <2> QED BY <2>1, RemainderIs
<1> QED BY <1>1, <1>2

(* The number after a frame's is the next frame's. *)
LEMMA NextNumber ==
  ASSUME NEW n \in Nat \ {0}, NEW x \in Nat
  PROVE  ((x % n) + 1) % n = (x + 1) % n
<1> DEFINE q == x \div n
           r == x % n
           a == (r + 1) \div n
           m == (r + 1) % n
<1>1. q \in Int /\ r \in 0..(n - 1) /\ x = q * n + r
  BY Division
<1> HIDE DEF q, r
<1>2. a \in Int /\ m \in 0..(n - 1) /\ r + 1 = a * n + m
  BY <1>1, Division
<1> HIDE DEF a, m
<1>3. PICK b, y : b = q + a /\ y = x + 1
  OBVIOUS
<1>4. y \in Int /\ b \in Int /\ y = b * n + m
  <2>1. (q + a) * n = q * n + a * n
    BY <1>1, <1>2
  <2> QED BY <1>1, <1>2, <1>3, <2>1
<1>5. y % n = m
  BY <1>2, <1>4, RemainderIs
<1> QED BY <1>3, <1>5 DEF m, r

(* A callback that sees STARTUP_FRAMES frames sees the samples of two. *)
LEMMA TwoFrames ==
  ASSUME NEW v \in Nat, v \div Channels >= STARTUP_FRAMES
  PROVE  v >= 2 * Channels
<1> USE RouteAssumption
<1> DEFINE d == v \div Channels
           r == v % Channels
<1>1. d \in Int /\ r \in 0..(Channels - 1) /\ v = d * Channels + r /\ d >= 2
  <2>1. Channels \in Nat \ {0} /\ v \in Int
    OBVIOUS
  <2>2. d \in Int /\ r \in 0..(Channels - 1) /\ v = d * Channels + r
    BY <2>1, Division
  <2> QED BY <2>2
<1> HIDE DEF d, r
<1>2. PICK e \in Nat : d = 2 + e
  <2>1. d - 2 \in Nat /\ d = 2 + (d - 2)
    BY <1>1
  <2> QED BY <2>1
<1>3. e * Channels >= 0 /\ d * Channels = 2 * Channels + e * Channels
  BY <1>2
<1> QED BY <1>1, <1>3

(* The correction stays in its bounds, whatever is in the ring. *)
LEMMA CorrectionBound ==
  ASSUME NEW a \in Nat
  PROVE  correction(a) \in (-MaxDrift)..MaxDrift
<1> DEFINE n == 2 * STARTUP_FRAMES
           x == (a - STARTUP_FRAMES) * MaxDrift
           error == x \div n
<1>1. n \in Nat \ {0} /\ x \in Int /\ MaxDrift \in Nat
  BY RouteAssumption
<1> HIDE DEF x, n
<1>2. error \in Int
  BY <1>1, Division
<1>3. correction(a) = IF error > MaxDrift THEN MaxDrift ELSE IF error < -MaxDrift THEN -MaxDrift ELSE error
  BY DEF correction, error, x, n
<1> HIDE DEF error
<1> QED BY <1>1, <1>2, <1>3

(* A place in the numbered frames is the place in the unnumbered ones, but for whole
   rounds of the numbers. *)
LEMMA PlaceIsModulo ==
  ASSUME NEW f \in Nat, NEW u \in Nat, NEW r, r = f % FrameNumbers
  PROVE  r \in Int /\ \E q \in Int : r * Unit + u = (f * Unit + u) - q * Units
<1> DEFINE q == f \div FrameNumbers
<1>1. FrameNumbers \in Nat \ {0} /\ Unit \in Nat
  BY RouteAssumption
<1>2. q \in Int /\ r \in Int /\ f = q * FrameNumbers + r
  BY <1>1, Division
<1> HIDE DEF q
<1>3. f * Unit = q * (FrameNumbers * Unit) + r * Unit
  BY <1>1, <1>2
<1>4. r * Unit + u = (f * Unit + u) - q * Units
  BY <1>1, <1>2, <1>3 DEF Units
<1> QED BY <1>2, <1>4

-----------------------------------------------------------------------------
(* The ring *)

(* What is left of the ring after a frame was taken. *)
LEMMA RestOfRing ==
  ASSUME NEW S, NEW s \in Seq(S), NEW n \in Nat, n <= Len(s)
  PROVE  /\ SubSeq(s, n + 1, Len(s)) \in Seq(S)
         /\ Len(SubSeq(s, n + 1, Len(s))) = Len(s) - n
         /\ \A i \in 1..(Len(s) - n) : SubSeq(s, n + 1, Len(s))[i] = s[i + n]
OBVIOUS

(* The frame that is taken from a ring of whole frames is the first of them, and a ring
   of whole frames is left. *)
LEMMA TakeContent ==
  ASSUME RouteTypeOK, NEW h \in Nat, NEW k \in Nat, Content(h, k), Len(ring) >= Channels,
         ring' = SubSeq(ring, Channels + 1, Len(ring)), UNCHANGED <<channel, pFrame>>
  PROVE  /\ k - 1 \in Nat /\ Content(h + 1, k - 1)'
         /\ Taken = Frame(h)
         /\ ring' \in Seq(Samples) /\ Len(ring') = Len(ring) - Channels
<1> DEFINE R == SubSeq(ring, Channels + 1, Len(ring))
<1>1. /\ Channels \in Nat \ {0} /\ FrameNumbers \in Nat \ {0}
      /\ ring \in Seq(Samples) /\ Len(ring) \in Nat /\ channel \in 0..(Channels - 1)
  BY RouteAssumption DEF RouteTypeOK, Samples
<1>2. /\ Len(ring) = k * Channels + channel /\ pFrame = (h + k) % FrameNumbers
      /\ \A j \in 0..k, c \in 0..(Channels - 1) :
           j * Channels + c < Len(ring) => ring[j * Channels + c + 1] = <<(h + j) % FrameNumbers, c>>
  BY DEF Content
<1>3. /\ R \in Seq(Samples) /\ Len(R) = Len(ring) - Channels
      /\ \A i \in 1..(Len(ring) - Channels) : R[i] = ring[i + Channels]
  BY <1>1, RestOfRing
<1>4. k - 1 \in Nat
  <2>1. k # 0
    BY <1>1, <1>2
  <2> QED BY <2>1
<1>5. (k - 1) * Channels + Channels = k * Channels
  BY <1>1, <1>4
<1>6. Taken = Frame(h)
  <2>1. Taken = [c \in 1..Channels |-> ring[c]]
    BY <1>1 DEF Taken
  <2>2. ASSUME NEW c \in 1..Channels PROVE ring[c] = <<h % FrameNumbers, c - 1>>
    <3>1. c - 1 \in 0..(Channels - 1) /\ 0 \in 0..k /\ 0 * Channels + (c - 1) = c - 1 /\ h + 0 = h
      BY <1>1
    <3>2. 0 * Channels + (c - 1) < Len(ring)
      BY <1>1, <3>1
    <3>3. ring[0 * Channels + (c - 1) + 1] = <<(h + 0) % FrameNumbers, c - 1>>
      BY <1>2, <3>1, <3>2
    <3>4. 0 * Channels + (c - 1) + 1 = c
      BY <1>1, <3>1
    <3> QED BY <3>1, <3>3, <3>4
  <2> QED BY <2>1, <2>2 DEF Frame
<1>7. ASSUME NEW j \in 0..(k - 1), NEW c \in 0..(Channels - 1), j * Channels + c < Len(R)
      PROVE  R[j * Channels + c + 1] = <<(h + 1 + j) % FrameNumbers, c>>
  <2>1. j + 1 \in 0..k /\ (j + 1) * Channels = j * Channels + Channels /\ j * Channels \in Nat /\ j \in Nat
    BY <1>1, <1>4
  <2> DEFINE a == j * Channels
  <2>2. (j + 1) * Channels + c < Len(ring)
    <3> DEFINE b == (j + 1) * Channels
    <3>1. b = a + Channels /\ a \in Nat /\ a + c < Len(ring) - Channels /\ c \in Nat
      BY <1>1, <1>3, <1>7, <2>1
    <3> HIDE DEF a, b
    <3>2. b + c < Len(ring)
      BY <1>1, <3>1
    <3> QED BY <3>2 DEF b
  <2>3. ring[(j + 1) * Channels + c + 1] = <<(h + (j + 1)) % FrameNumbers, c>>
    BY <1>2, <2>1, <2>2
  <2>4. a + c + 1 \in 1..(Len(ring) - Channels) /\ (a + c + 1) + Channels = (j + 1) * Channels + c + 1
    <3> HIDE DEF a
    <3>1. a \in Nat /\ (j + 1) * Channels = a + Channels /\ a + c < Len(ring) - Channels
      BY <1>3, <1>7, <2>1 DEF a
    <3> QED BY <1>1, <3>1
  <2>5. h + (j + 1) = h + 1 + j
    BY <2>1
  <2> QED BY <1>3, <2>3, <2>4, <2>5
<1>8. ring' = R /\ channel' = channel /\ pFrame' = pFrame
  OBVIOUS
<1>9. Len(R) = (k - 1) * Channels + channel /\ h + 1 + (k - 1) = h + k
  BY <1>1, <1>2, <1>3, <1>4, <1>5
<1> HIDE DEF R
<1>10. Content(h + 1, k - 1)'
  <2>1. Len(ring') = (k - 1) * Channels + channel'
    BY <1>8, <1>9
  <2>2. pFrame' = (h + 1 + (k - 1)) % FrameNumbers
    BY <1>2, <1>8, <1>9
  <2> QED BY <1>7, <1>8, <2>1, <2>2 DEF Content
<1> QED BY <1>3, <1>4, <1>6, <1>8, <1>10

(* A sample that is pushed lands in its place. *)
LEMMA PushContent ==
  ASSUME RouteTypeOK, NEW h \in Nat, NEW k \in Nat, Content(h, k),
         ring' = Append(ring, <<pFrame, channel>>),
         channel' = (channel + 1) % Channels,
         pFrame' = IF channel + 1 = Channels THEN (pFrame + 1) % FrameNumbers ELSE pFrame
  PROVE  \E n \in Nat : Content(h, n)'
<1> DEFINE R == Append(ring, <<pFrame, channel>>)
<1>1. /\ Channels \in Nat \ {0} /\ FrameNumbers \in Nat \ {0}
      /\ ring \in Seq(Samples) /\ Len(ring) \in Nat /\ channel \in 0..(Channels - 1)
      /\ pFrame \in 0..(FrameNumbers - 1)
  BY RouteAssumption DEF RouteTypeOK
<1>2. /\ Len(ring) = k * Channels + channel /\ pFrame = (h + k) % FrameNumbers
      /\ \A j \in 0..k, c \in 0..(Channels - 1) :
           j * Channels + c < Len(ring) => ring[j * Channels + c + 1] = <<(h + j) % FrameNumbers, c>>
  BY DEF Content
<1>3. /\ Len(R) = Len(ring) + 1 /\ R[Len(ring) + 1] = <<pFrame, channel>>
      /\ \A i \in 1..Len(ring) : R[i] = ring[i]
  <2>1. <<pFrame, channel>> \in Samples
    BY <1>1 DEF Samples
  <2>2. PICK x : x = <<pFrame, channel>>
    OBVIOUS
  <2>3. x \in Samples /\ ring \in Seq(Samples) /\ R = Append(ring, x)
    BY <1>1, <2>1, <2>2
  <2> HIDE DEF R
  <2> QED BY <2>2, <2>3
<1> HIDE DEF R
<1>4. ASSUME NEW j \in Nat, NEW c \in 0..(Channels - 1), j * Channels + c < Len(ring) + 1
      PROVE  R[j * Channels + c + 1] = <<(h + j) % FrameNumbers, c>>
  <2> DEFINE a == j * Channels
             b == k * Channels
  <2>1. a \in Nat /\ b \in Nat /\ j \in Int
    BY <1>1
  <2>2. CASE a + c = b + channel
    <3>0. j * Channels + c = k * Channels + channel
      BY <2>2
    <3>1. j = k /\ c = channel
      BY <1>1, <2>1, <3>0, PlaceIsUnique
    <3>2. a + c + 1 = Len(ring) + 1
      BY <1>2, <2>2
    <3> QED BY <1>2, <1>3, <3>1, <3>2
  <2>3. CASE a + c # b + channel
    <3>1. a + c < Len(ring) /\ a + c + 1 \in 1..Len(ring)
      <4> HIDE DEF a, b
      <4>1. a + c < Len(ring) + 1 /\ Len(ring) = b + channel
        BY <1>2, <1>4 DEF a, b
      <4> QED BY <1>1, <2>1, <2>3, <4>1
    <3>2. j <= k
      <4> SUFFICES ASSUME k < j PROVE FALSE
        BY <2>1
      <4>1. PICK e \in Nat : j = k + 1 + e
        <5>1. j - k - 1 \in Nat /\ j = k + 1 + (j - k - 1)
          OBVIOUS
        <5> QED BY <5>1
      <4>2. a = b + Channels + e * Channels /\ e * Channels \in Nat
        BY <1>1, <4>1
      <4> HIDE DEF a, b
      <4>3. a + c < Len(ring) + 1 /\ Len(ring) = b + channel
        BY <1>2, <1>4 DEF a, b
      <4> DEFINE x == e * Channels
      <4>4. x \in Nat /\ a = b + Channels + x
        BY <4>2
      <4> HIDE DEF x
      <4> QED BY <1>1, <2>1, <4>3, <4>4
    <3>3. ring[a + c + 1] = <<(h + j) % FrameNumbers, c>>
      BY <1>2, <3>1, <3>2
    <3> QED BY <1>3, <3>1, <3>3
  <2> QED BY <2>2, <2>3
<1>5. CASE channel + 1 = Channels
  <2>1. channel' = 0
    <3>1. Channels % Channels = 0
      BY <1>1, SmallRemainder
    <3> QED BY <1>5, <3>1
  <2>2. pFrame' = (h + (k + 1)) % FrameNumbers
    <3>1. h + k \in Nat /\ h + (k + 1) = h + k + 1
      OBVIOUS
    <3>2. (((h + k) % FrameNumbers) + 1) % FrameNumbers = (h + k + 1) % FrameNumbers
      BY <1>1, <3>1, NextNumber
    <3> QED BY <1>2, <1>5, <3>1, <3>2
  <2>3. Len(R) = (k + 1) * Channels + 0
    <3>1. (k + 1) * Channels = k * Channels + Channels /\ k * Channels \in Nat
      BY <1>1
    <3> QED BY <1>1, <1>2, <1>3, <1>5, <3>1
  <2>4. ring' = R /\ Len(R) = (k + 1) * Channels + channel'
    BY <2>1, <2>3 DEF R
  <2>5. \A j \in 0..(k + 1), c \in 0..(Channels - 1) :
           j * Channels + c < Len(R) => R[j * Channels + c + 1] = <<(h + j) % FrameNumbers, c>>
    BY <1>3, <1>4
  <2>6. Content(h, k + 1)'
    BY <2>2, <2>4, <2>5 DEF Content
  <2> QED BY <2>6
<1>6. CASE channel + 1 # Channels
  <2>1. channel' = channel + 1
    <3>1. channel + 1 \in 0..(Channels - 1)
      BY <1>1, <1>6
    <3>2. (channel + 1) % Channels = channel + 1
      BY <1>1, <3>1, SmallRemainder
    <3> QED BY <3>2
  <2>2. pFrame' = (h + k) % FrameNumbers
    BY <1>2, <1>6
  <2>3. Len(R) = k * Channels + (channel + 1)
    BY <1>1, <1>2, <1>3
  <2>4. ring' = R /\ Len(R) = k * Channels + channel'
    BY <2>1, <2>3 DEF R
  <2>5. \A j \in 0..k, c \in 0..(Channels - 1) :
           j * Channels + c < Len(R) => R[j * Channels + c + 1] = <<(h + j) % FrameNumbers, c>>
    BY <1>3, <1>4
  <2>6. Content(h, k)'
    BY <2>2, <2>4, <2>5 DEF Content
  <2> QED BY <2>6
<1> QED BY <1>5, <1>6

-----------------------------------------------------------------------------
(* The steps *)

(* A step that leaves the ring, the frames taken from it and the output alone keeps what
   relates them. *)
LEMMA WholeKept ==
  ASSUME Whole, UNCHANGED <<nominal_step, channel, pFrame, ring, heldVars, outputVars>>,
         sink' = "next" <=> sink = "next"
  PROVE  Whole'
<1>1. PICK h \in Nat, k \in Nat :
        /\ Content(h, k) /\ Held(h)
        /\ position >= 0 => \E p, q \in Int : position = p - q * Units /\ Clock(h, p)
  BY DEF Whole
<1>2. Content(h, k)' /\ Held(h)'
  BY <1>1 DEF Content, Held, Frame, heldVars
<1>3. \A p \in Int : Clock(h, p) => Clock(h, p)'
  BY DEF Clock, Ahead, heldVars, outputVars
<1>4. (position >= 0 => \E p, q \in Int : position = p - q * Units /\ Clock(h, p))'
  BY <1>1, <1>3 DEF outputVars
<1> QED BY <1>2, <1>4 DEF Whole

(* The steps of the source's callback but for its pushes. *)
LEMMA SourceSteps ==
  ASSUME RouteInv,
         (\E w \in 1..Channels : SourceCall(w)) \/ SourceReturn \/ SourceFrame \/ NoSample
  PROVE  RouteInv'
<1> USE DEF heldVars, outputVars
<1>1. RouteTypeOK /\ Views /\ Prepared /\ (~torn => Whole) /\ Channels \in Nat \ {0} /\ FrameNumbers \in Nat \ {0}
  BY RouteAssumption DEF RouteInv
<1>2. ASSUME NEW w \in 1..Channels, SourceCall(w) PROVE RouteInv'
  <2>1. RouteTypeOK' /\ Views' /\ Prepared'
    BY <1>1, <1>2 DEF SourceCall, RouteTypeOK, Views, Prepared
  <2>2. ~torn' => Whole'
    BY <1>1, <1>2, WholeKept DEF SourceCall
  <2> QED BY <2>1, <2>2 DEF RouteInv
<1>3. CASE SourceReturn
  <2>1. RouteTypeOK' /\ Views' /\ Prepared'
    BY <1>1, <1>3 DEF SourceReturn, RouteTypeOK, Views, Prepared
  <2>2. ~torn' => Whole'
    BY <1>1, <1>3, WholeKept DEF SourceReturn
  <2> QED BY <2>1, <2>2 DEF RouteInv
<1>4. CASE SourceFrame
  <2>1. PICK n \in Len(ring)..used : used' = n
    BY <1>4 DEF SourceFrame, LoadUsed
  <2>2. Len(ring) \in Nat /\ used \in Nat /\ n \in Nat /\ Len(ring) <= n /\ n <= used /\ Capacity \in Nat
    BY <1>1, <2>1, RouteAssumption DEF RouteTypeOK
  <2>3. RouteTypeOK'
    BY <1>1, <1>4, <2>1, <2>2 DEF SourceFrame, RouteTypeOK
  <2>4. Views'
    <3>1. visible' <= Len(ring') /\ Len(ring') <= used' /\ used' <= Capacity
      BY <1>1, <1>4, <2>1, <2>2 DEF SourceFrame, Views, RouteTypeOK
    <3>2. channel' = 0 /\ source' = (IF Capacity - n < Channels THEN "frame" ELSE "push")
      BY <1>1, <1>4, <2>1 DEF SourceFrame, Views
    <3>3. source' = "push" => used' + Channels - channel' <= Capacity
      BY <1>1, <2>1, <2>2, <3>2
    <3> QED BY <1>1, <1>4, <3>1, <3>2, <3>3 DEF SourceFrame, Views
  <2>5. Prepared'
    BY <1>1, <1>4 DEF SourceFrame, Prepared
  <2>6. ~torn' => Whole'
    BY <1>1, <1>4, WholeKept DEF SourceFrame
  <2> QED BY <2>3, <2>4, <2>5, <2>6 DEF RouteInv
<1>5. CASE NoSample
  <2>1. pFrame' \in 0..(FrameNumbers - 1)
    <3>1. pFrame + 1 \in Int
      BY <1>1 DEF RouteTypeOK
    <3> QED BY <1>1, <1>5, <3>1, Division DEF NoSample
  <2>2. RouteTypeOK'
    BY <1>1, <1>5, <2>1 DEF NoSample, RouteTypeOK
  <2>3. Views' /\ Prepared' /\ torn'
    BY <1>1, <1>5 DEF NoSample, Views, Prepared
  <2> QED BY <2>2, <2>3 DEF RouteInv
<1> QED BY <1>2, <1>3, <1>4, <1>5

(* The room for a frame was checked before its first sample, so each sample is pushed. *)
LEMMA PushStep ==
  ASSUME RouteInv, PushSample
  PROVE  RouteInv'
<1> USE DEF heldVars, outputVars
<1>1. RouteTypeOK /\ Views /\ Prepared /\ (~torn => Whole) /\ Channels \in Nat \ {0} /\ FrameNumbers \in Nat \ {0}
  BY RouteAssumption DEF RouteInv
<1>2. /\ Len(ring) \in Nat /\ used \in Nat /\ Capacity \in Nat /\ channel \in 0..(Channels - 1)
      /\ Len(ring) <= used /\ used + Channels - channel <= Capacity /\ visible \in Nat /\ visible <= Len(ring)
      /\ ring \in Seq(Samples) /\ pFrame \in 0..(FrameNumbers - 1)
  BY <1>1, RouteAssumption DEF PushSample, Views, RouteTypeOK
<1>3. PICK n \in Len(ring)..used : ring' = Append(ring, <<pFrame, channel>>) /\ used' = n + 1
  <2>1. PICK n \in Len(ring)..used :
          IF n < Capacity
          THEN ring' = Append(ring, <<pFrame, channel>>) /\ used' = n + 1
          ELSE ring' = ring /\ used' = n
    BY DEF PushSample
  <2>2. n < Capacity
    BY <1>1, <1>2, <2>1
  <2> QED BY <2>1, <2>2
<1>4. ring' \in Seq(Samples) /\ Len(ring') = Len(ring) + 1
  <2>1. <<pFrame, channel>> \in Samples
    BY <1>2 DEF Samples
  <2> QED BY <1>2, <1>3, <2>1
<1>5. /\ channel' = (channel + 1) % Channels
      /\ source' = (IF channel + 1 = Channels THEN "frame" ELSE "push")
      /\ pFrame' = (IF channel + 1 = Channels THEN (pFrame + 1) % FrameNumbers ELSE pFrame)
  BY <1>1 DEF PushSample, RouteTypeOK
<1>6. channel' = (IF channel + 1 = Channels THEN 0 ELSE channel + 1)
  <2>1. CASE channel + 1 = Channels
    <3>1. Channels % Channels = 0
      BY <1>1, SmallRemainder
    <3> QED BY <1>5, <2>1, <3>1
  <2>2. CASE channel + 1 # Channels
    <3>1. channel + 1 \in 0..(Channels - 1)
      BY <1>1, <1>2, <2>2
    <3>2. (channel + 1) % Channels = channel + 1
      BY <1>1, <3>1, SmallRemainder
    <3> QED BY <1>5, <2>2, <3>2
  <2> QED BY <2>1, <2>2
<1>7. RouteTypeOK'
  <2>1. channel' \in 0..(Channels - 1)
    BY <1>1, <1>2, <1>6
  <2>2. pFrame' \in 0..(FrameNumbers - 1)
    <3>1. pFrame + 1 \in Int /\ pFrame \in 0..(FrameNumbers - 1)
      BY <1>1 DEF RouteTypeOK
    <3>2. (pFrame + 1) % FrameNumbers \in 0..(FrameNumbers - 1)
      BY <1>1, <3>1, Division
    <3> QED BY <1>5, <3>1, <3>2
  <2>3. used' \in Nat
    BY <1>2, <1>3
  <2>4. source' \in {"frame", "push"}
    BY <1>5
  <2> QED BY <1>1, <1>4, <2>1, <2>2, <2>3, <2>4 DEF PushSample, RouteTypeOK, Samples
<1>8. Views'
  <2>1. PICK l, c, v : l = Len(ring) /\ c = channel /\ v = visible
    OBVIOUS
  <2>2. l \in Nat /\ c \in 0..(Channels - 1) /\ l <= n /\ n <= used /\ used + Channels - c <= Capacity /\ v <= l /\ v \in Nat /\ n \in Nat
    BY <1>2, <2>1
  <2>3. Len(ring') = l + 1 /\ used' = n + 1 /\ visible' = v
    BY <1>3, <1>4, <2>1 DEF PushSample
  <2>4. v <= l + 1 /\ l + 1 <= n + 1 /\ n + 1 <= Capacity
    BY <1>1, <1>2, <2>2
  <2>5. c + 1 # Channels => n + 1 + Channels - (c + 1) <= Capacity
    BY <1>1, <1>2, <2>2
  <2>6. (source' = "push" => used' + Channels - channel' <= Capacity) /\ (source' # "push" => channel' = 0)
    BY <1>5, <1>6, <2>1, <2>3, <2>5
  <2>7. (sink' = "current" => visible' >= 2 * Channels) /\ (sink' = "next" => visible' >= Channels)
    BY <1>1 DEF PushSample, Views
  <2>8. visible' <= Len(ring') /\ Len(ring') <= used' /\ used' <= Capacity
    BY <2>3, <2>4
  <2> QED BY <2>6, <2>7, <2>8 DEF Views
<1>9. Prepared'
  BY <1>1 DEF PushSample, Prepared
<1>10. ASSUME ~torn' PROVE Whole'
  <2>1. PICK h \in Nat, k \in Nat :
        /\ Content(h, k) /\ Held(h)
        /\ position >= 0 => \E p, q \in Int : position = p - q * Units /\ Clock(h, p)
    BY <1>1, <1>10 DEF Whole, PushSample
  <2>2. PICK m \in Nat : Content(h, m)'
    BY <1>1, <1>3, <1>5, <2>1, PushContent
  <2>3. Held(h)'
    BY <2>1 DEF PushSample, Held, Frame
  <2>4. \A p \in Int : Clock(h, p) => Clock(h, p)'
    BY DEF PushSample, Clock, Ahead
  <2>5. (position >= 0 => \E p, q \in Int : position = p - q * Units /\ Clock(h, p))'
    BY <2>1, <2>4 DEF PushSample
  <2> QED BY <2>2, <2>3, <2>5 DEF Whole
<1> QED BY <1>7, <1>8, <1>9, <1>10 DEF RouteInv

(* The steps of the sink's callback that take nothing from the ring. *)
LEMMA SinkSteps ==
  ASSUME RouteInv,
         SinkCall \/ SinkReturn \/ PrimeWait \/ Prime \/ AddSamples
  PROVE  RouteInv'
<1> USE DEF heldVars, outputVars, sourceVars
<1>1. RouteTypeOK /\ Views /\ Prepared /\ (~torn => Whole) /\ Channels \in Nat \ {0} /\ FrameNumbers \in Nat \ {0}
  BY RouteAssumption DEF RouteInv
<1>2. Len(ring) \in Nat /\ visible \in Nat
  BY <1>1 DEF RouteTypeOK
<1>3. CASE SinkCall \/ SinkReturn
  <2>1. RouteTypeOK' /\ Prepared'
    BY <1>1, <1>3 DEF SinkCall, SinkReturn, RouteTypeOK, Prepared
  <2>2. Views'
    BY <1>1, <1>3 DEF SinkCall, SinkReturn, Views
  <2>3. ~torn' => Whole'
    BY <1>1, <1>3, WholeKept DEF SinkCall, SinkReturn
  <2> QED BY <2>1, <2>2, <2>3 DEF RouteInv
<1>4. CASE PrimeWait
  <2>1. visible' \in Nat /\ visible' <= Len(ring)
    BY <1>2, <1>4 DEF PrimeWait, LoadVisible
  <2>2. RouteTypeOK' /\ Prepared'
    BY <1>1, <1>4, <2>1 DEF PrimeWait, RouteTypeOK, Prepared
  <2>3. Views'
    BY <1>1, <1>4, <2>1 DEF PrimeWait, Views
  <2>4. ~torn' => Whole'
    BY <1>1, <1>4, WholeKept DEF PrimeWait
  <2> QED BY <2>2, <2>3, <2>4 DEF RouteInv
<1>5. CASE Prime
  <2>1. visible' \in Nat /\ visible' <= Len(ring)
    BY <1>2, <1>5 DEF Prime, LoadVisible
  <2>2. visible' >= 2 * Channels
    BY <1>5, <2>1, TwoFrames DEF Prime
  <2>3. RouteTypeOK' /\ Prepared'
    BY <1>1, <1>5, <2>1 DEF Prime, RouteTypeOK, Prepared
  <2>4. Views'
    BY <1>1, <1>5, <2>1, <2>2 DEF Prime, Views
  <2>5. ~torn' => Whole'
    BY <1>1, <1>5, WholeKept DEF Prime
  <2> QED BY <2>3, <2>4, <2>5 DEF RouteInv
<1>6. CASE AddSamples
  <2>1. RouteTypeOK'
    BY <1>1, <1>6 DEF AddSamples, RouteTypeOK
  <2>2. Views'
    BY <1>1, <1>6 DEF AddSamples, Views
  <2>3. Prepared'
    <3>1. CASE sink = "add"
      BY <1>1, <1>6, <3>1 DEF AddSamples, Prepared
    <3>2. CASE sink = "advance" /\ phase < Unit
      BY <1>1, <1>6, <3>2 DEF AddSamples, Prepared
    <3> QED BY <1>6, <3>1, <3>2 DEF AddSamples
  <2>4. ~torn' => Whole'
    BY <1>1, <1>6, WholeKept DEF AddSamples
  <2> QED BY <2>1, <2>2, <2>3, <2>4 DEF RouteInv
<1> QED BY <1>3, <1>4, <1>5, <1>6

(* A whole frame leaves the ring, and the views of it stay on their safe sides. *)
LEMMA ReadSourceFrame ==
  ASSUME RouteInv, read_source_frame
  PROVE  /\ Len(ring) >= Channels /\ ring' = SubSeq(ring, Channels + 1, Len(ring))
         /\ ring' \in Seq(Samples) /\ Taken \in [1..Channels -> Samples]
         /\ visible' \in Nat /\ visible' >= visible - Channels
         /\ visible' <= Len(ring') /\ Len(ring') <= Len(ring)
<1>1. RouteTypeOK /\ Views /\ Channels \in Nat \ {0}
  BY RouteAssumption DEF RouteInv
<1>2. Len(ring) \in Nat /\ visible \in Nat /\ ring \in Seq(Samples)
  BY <1>1 DEF RouteTypeOK, Samples
<1>3. PICK n \in visible..Len(ring) : n >= Channels /\ visible' = n - Channels
  BY DEF read_source_frame
<1>4. ring' = SubSeq(ring, Channels + 1, Len(ring))
  BY DEF read_source_frame
<1>5. Len(ring) >= Channels /\ n \in Nat
  BY <1>1, <1>2, <1>3
<1>6. ring' \in Seq(Samples) /\ Len(ring') = Len(ring) - Channels
  BY <1>1, <1>2, <1>4, <1>5, RestOfRing
<1>7. n - Channels \in Nat /\ n - Channels >= visible - Channels /\ n - Channels <= Len(ring) - Channels
      /\ Len(ring) - Channels <= Len(ring)
  BY <1>1, <1>2, <1>3, <1>5
<1>8. Taken \in [1..Channels -> Samples]
  <2>1. Taken = [c \in 1..Channels |-> ring[c]]
    BY <1>1, <1>2 DEF Taken
  <2>2. \A c \in 1..Channels : ring[c] \in Samples
    BY <1>1, <1>2, <1>5
  <2> QED BY <2>1, <2>2
<1> QED BY <1>3, <1>4, <1>5, <1>6, <1>7, <1>8

(* A callback that was seen to have a frame does not find the ring short of one. *)
LEMMA FrameIsThere ==
  ASSUME RouteInv, visible >= Channels
  PROVE  ~NoSourceFrame
<1>1. Len(ring) \in Nat /\ visible \in Nat /\ Channels \in Nat
  BY RouteAssumption DEF RouteInv, RouteTypeOK
<1> QED BY <1>1 DEF NoSourceFrame, LoadVisible

(* Priming finds its two frames, one behind the other. *)
LEMMA PrimeSteps ==
  ASSUME RouteInv, PrimeCurrent \/ PrimeNext
  PROVE  RouteInv'
<1> USE DEF sourceVars
<1>1. RouteTypeOK /\ Views /\ Prepared /\ (~torn => Whole) /\ Channels \in Nat \ {0} /\ FrameNumbers \in Nat \ {0} /\ Unit \in Nat \ {0}
  BY RouteAssumption DEF RouteInv
<1>2. Len(ring) \in Nat /\ visible \in Nat /\ used \in Nat /\ visible >= Channels
  BY <1>1 DEF RouteTypeOK, Views, PrimeCurrent, PrimeNext
<1>3. ~NoSourceFrame
  BY <1>2, FrameIsThere
<1>4. read_source_frame /\ UNCHANGED <<source, width, channel, pFrame, used, nominal_step, underran, position, torn>>
  BY <1>3 DEF PrimeCurrent, PrimeNext
<1>5. /\ Len(ring) >= Channels /\ ring' = SubSeq(ring, Channels + 1, Len(ring))
      /\ ring' \in Seq(Samples) /\ Taken \in [1..Channels -> Samples]
      /\ visible' \in Nat /\ visible' >= visible - Channels
      /\ visible' <= Len(ring') /\ Len(ring') <= Len(ring)
  BY <1>4, ReadSourceFrame
<1>6. Len(ring') \in Nat
  BY <1>5
<1>7. CASE PrimeCurrent
  <2>1. sink = "current" /\ sink' = "next" /\ current' = Taken /\ UNCHANGED <<next, phase, primed>> /\ ~primed
    BY <1>1, <1>3, <1>7 DEF PrimeCurrent, Prepared
  <2>2. RouteTypeOK' /\ Prepared'
    BY <1>1, <1>4, <1>5, <2>1 DEF RouteTypeOK, Prepared
  <2>3. Views'
    <3>1. visible >= 2 * Channels
      BY <1>1, <2>1 DEF Views
    <3>2. visible' >= Channels
      BY <1>1, <1>2, <1>5, <3>1
    <3>3. Len(ring') <= used
      BY <1>1, <1>2, <1>5, <1>6 DEF Views
    <3> QED BY <1>1, <1>4, <1>5, <2>1, <3>2, <3>3 DEF Views
  <2>4. ASSUME ~torn' PROVE Whole'
    <3>1. PICK h \in Nat, k \in Nat :
          /\ Content(h, k) /\ Held(h)
          /\ position >= 0 => \E p, q \in Int : position = p - q * Units /\ Clock(h, p)
      BY <1>1, <1>4, <2>4 DEF Whole
    <3>2. k - 1 \in Nat /\ Content(h + 1, k - 1)' /\ Taken = Frame(h)
      BY <1>1, <1>4, <1>5, <3>1, TakeContent
    <3>3. Held(h + 1)'
      <4>1. h + 1 >= 1 /\ h + 1 - 1 = h
        OBVIOUS
      <4> QED BY <2>1, <3>2, <4>1 DEF Held, Frame
    <3>4. \A p \in Int : Clock(h, p) => Clock(h + 1, p)'
      <4>1. Ahead(h) = h * Unit /\ Ahead(h + 1)' = (h + 1 - 1) * Unit
        BY <2>1 DEF Ahead
      <4>2. Ahead(h + 1)' = Ahead(h)
        BY <1>1, <4>1
      <4> QED BY <1>4, <2>1, <4>2 DEF Clock
    <3>5. (position >= 0 => \E p, q \in Int : position = p - q * Units /\ Clock(h + 1, p))'
      BY <1>4, <3>1, <3>4
    <3> QED BY <3>2, <3>3, <3>5 DEF Whole
  <2> QED BY <2>2, <2>3, <2>4 DEF RouteInv
<1>8. CASE PrimeNext
  <2>1. sink = "next" /\ sink' = "frame" /\ next' = Taken /\ phase' = 0 /\ primed' = TRUE /\ current' = current /\ ~primed
    BY <1>1, <1>3, <1>8 DEF PrimeNext, Prepared
  <2>2. RouteTypeOK' /\ Prepared'
    <3>1. RouteTypeOK'
      <4>1. current' \in [1..Channels -> Samples] /\ next' \in [1..Channels -> Samples]
        BY <1>1, <1>5, <2>1 DEF RouteTypeOK
      <4> QED BY <1>1, <1>4, <1>5, <2>1, <4>1 DEF RouteTypeOK
    <3>2. Prepared'
      BY <1>1, <2>1 DEF Prepared
    <3> QED BY <3>1, <3>2
  <2>3. Views'
    <3>1. Len(ring') <= used
      BY <1>1, <1>2, <1>5, <1>6 DEF Views
    <3> QED BY <1>1, <1>4, <1>5, <2>1, <3>1 DEF Views
  <2>4. ASSUME ~torn' PROVE Whole'
    <3>1. PICK h \in Nat, k \in Nat :
          /\ Content(h, k) /\ Held(h)
          /\ position >= 0 => \E p, q \in Int : position = p - q * Units /\ Clock(h, p)
      BY <1>1, <1>4, <2>4 DEF Whole
    <3>2. k - 1 \in Nat /\ Content(h + 1, k - 1)' /\ Taken = Frame(h)
      BY <1>1, <1>4, <1>5, <3>1, TakeContent
    <3>3. h >= 1 /\ current = Frame(h - 1)
      BY <2>1, <3>1 DEF Held
    <3>4. Held(h + 1)'
      <4>1. h + 1 >= 2 /\ h + 1 - 1 = h /\ h + 1 - 2 = h - 1
        BY <3>3
      <4> QED BY <2>1, <3>2, <3>3, <4>1 DEF Held, Frame
    <3>5. ASSUME NEW p \in Int, Clock(h, p) PROVE Clock(h + 1, p)'
      <4>1. Ahead(h) = (h - 1) * Unit /\ Ahead(h + 1)' = (h + 1 - 2) * Unit + 0
        BY <2>1 DEF Ahead
      <4>2. Ahead(h + 1)' = Ahead(h) /\ Ahead(h) \in Int
        BY <1>1, <4>1
      <4>3. underran /\ Ahead(h) - p \in 1..(nominal_step + MaxDrift + Unit)
        BY <2>1, <3>5 DEF Clock
      <4>4. p < (h + 1 - 1) * Unit
        <5>1. (h + 1 - 1) * Unit = Ahead(h) + Unit
          BY <1>1, <4>1
        <5>2. 1 <= Ahead(h) - p
          BY <4>3
        <5> QED BY <1>1, <4>2, <5>1, <5>2
      <4> QED BY <1>4, <2>1, <4>2, <4>3, <4>4 DEF Clock
    <3>6. (position >= 0 => \E p, q \in Int : position = p - q * Units /\ Clock(h + 1, p))'
      BY <1>4, <3>1, <3>5
    <3> QED BY <3>2, <3>4, <3>6 DEF Whole
  <2> QED BY <2>2, <2>3, <2>4 DEF RouteInv
<1> QED BY <1>7, <1>8

(* The output frame is at the place it was to go on at, and the next one is a corrected
   step ahead of it. *)
LEMMA InterpolateStep ==
  ASSUME RouteInv, Interpolate
  PROVE  RouteInv'
<1> USE DEF sourceVars
<1>1. RouteTypeOK /\ Views /\ Prepared /\ (~torn => Whole) /\ Channels \in Nat \ {0} /\ FrameNumbers \in Nat \ {0}
      /\ Unit \in Nat \ {0} /\ MaxDrift \in Nat
  BY RouteAssumption DEF RouteInv
<1>2. /\ Len(ring) \in Nat /\ visible \in Nat /\ phase \in Nat /\ phase < Unit
      /\ sink = "frame" /\ primed /\ sink' = "advance" /\ underran' = FALSE
      /\ UNCHANGED <<nominal_step, source, width, channel, pFrame, used, ring, current, next, primed, torn>>
      /\ nominal_step \in Nat /\ nominal_step > MaxDrift
  BY <1>1, RouteAssumption DEF RouteTypeOK, Prepared, Interpolate
<1>3. visible' \in Nat /\ visible' <= Len(ring)
  BY <1>2 DEF Interpolate, LoadVisible
<1>4. PICK d \in (-MaxDrift)..MaxDrift : phase' = phase + nominal_step + d
  <2>1. visible' \div Channels \in Nat
    <3>1. PICK v : v = visible'
      OBVIOUS
    <3>2. v \in Nat /\ v \in Int
      BY <1>3, <3>1
    <3>3. v \div Channels \in Nat
      BY <1>1, <3>2, Division
    <3> QED BY <3>1, <3>3
  <2>2. correction(visible' \div Channels) \in (-MaxDrift)..MaxDrift
    BY <2>1, CorrectionBound
  <2> QED BY <2>2 DEF Interpolate
<1>5. phase' \in Nat
  BY <1>1, <1>2, <1>4
<1>6. FrameOf(current) \in Nat /\ position' = FrameOf(current) * Unit + phase
  <2>1. current \in [1..Channels -> Samples] /\ 1 \in 1..Channels
    BY <1>1, <1>2 DEF RouteTypeOK
  <2>2. current[1] \in Samples
    BY <2>1
  <2>3. current[1][1] \in 0..(FrameNumbers - 1)
    BY <2>2 DEF Samples
  <2> QED BY <1>1, <2>3 DEF FrameOf, Interpolate
<1>7. position' \in Int /\ position' >= 0
  <2>1. PICK f : f = FrameOf(current)
    OBVIOUS
  <2>2. f \in Nat
    BY <1>6, <2>1
  <2>3. f * Unit \in Nat
    BY <1>1, <2>2
  <2>4. position' = f * Unit + phase
    BY <1>6, <2>1
  <2> QED BY <1>2, <2>3, <2>4
<1>8. RouteTypeOK' /\ Prepared'
  BY <1>1, <1>2, <1>3, <1>5, <1>7 DEF RouteTypeOK, Prepared
<1>9. Views'
  BY <1>1, <1>2, <1>3 DEF Views
<1>10. ASSUME ~torn' PROVE Whole'
  <2>1. PICK h \in Nat, k \in Nat : Content(h, k) /\ Held(h)
    BY <1>1, <1>2, <1>10 DEF Whole
  <2>2. Content(h, k)' /\ Held(h)'
    BY <1>2, <2>1 DEF Content, Held, Frame
  <2>3. h - 2 \in Nat /\ FrameOf(current) = (h - 2) % FrameNumbers
    <3>1. h - 2 \in Nat /\ current = Frame(h - 2)
      BY <1>2, <2>1 DEF Held
    <3>2. Frame(h - 2)[1] = <<(h - 2) % FrameNumbers, 1 - 1>>
      BY <1>1 DEF Frame
    <3> QED BY <3>1, <3>2 DEF FrameOf
  <2>0. PICK p : p = (h - 2) * Unit + phase
    OBVIOUS
  <2>4. PICK q \in Int : position' = p - q * Units
    <3>1. PICK f, r, y : f = h - 2 /\ r = FrameOf(current) /\ y = position'
      OBVIOUS
    <3>2. f \in Nat /\ r = f % FrameNumbers /\ phase \in Nat
      BY <1>2, <2>3, <3>1
    <3>3. r \in Int /\ \E q \in Int : r * Unit + phase = (f * Unit + phase) - q * Units
      BY <3>2, PlaceIsModulo
    <3>4. y = r * Unit + phase /\ p = f * Unit + phase
      BY <1>6, <2>0, <3>1
    <3>5. Unit \in Nat /\ Units \in Nat
      BY <1>1 DEF Units
    <3>6. PICK q \in Int : r * Unit + phase = (f * Unit + phase) - q * Units
      BY <3>3
    <3>7. y = p - q * Units
      BY <3>4, <3>6
    <3> QED BY <3>1, <3>7
  <2>5. p \in Int /\ p < (h - 1) * Unit
    <3>1. (h - 1) * Unit = (h - 2) * Unit + Unit /\ (h - 2) * Unit \in Int
      BY <1>1
    <3> QED BY <1>1, <1>2, <2>0, <3>1
  <2>6. Ahead(h)' - p = nominal_step + d
    <3>1. Ahead(h)' = (h - 2) * Unit + (phase + nominal_step + d)
      BY <1>2, <1>4 DEF Ahead
    <3>2. (h - 2) * Unit \in Int
      BY <1>1
    <3> QED BY <1>1, <1>2, <1>4, <2>0, <3>1, <3>2
  <2>7. nominal_step + d \in (nominal_step - MaxDrift)..(nominal_step + MaxDrift)
    BY <1>1, <1>2, <1>4
  <2>8. Clock(h, p)'
    <3>1. Ahead(h)' - p \in (nominal_step - MaxDrift)..(nominal_step + MaxDrift)
      BY <2>6, <2>7, Zenon
    <3>2. nominal_step' = nominal_step /\ underran' = FALSE /\ primed' /\ p < (h - 1) * Unit
      BY <1>2, <2>5
    <3> QED BY <3>1, <3>2 DEF Clock
  <2>9. (position >= 0 => \E a, b \in Int : position = a - b * Units /\ Clock(h, a))'
    <3>1. p \in Int /\ q \in Int /\ position' = p - q * Units /\ Clock(h, p)'
      BY <2>4, <2>5, <2>8
    <3> QED BY <3>1, Zenon
  <2> QED BY <2>2, <2>9 DEF Whole
<1> QED BY <1>8, <1>9, <1>10 DEF RouteInv

(* The pair moves on by a frame and the place in it stays; or an underrun is counted and
   the output goes on at the next frame that comes. *)
LEMMA AdvanceStep ==
  ASSUME RouteInv, Advance
  PROVE  RouteInv'
<1> USE DEF sourceVars
<1>1. RouteTypeOK /\ Views /\ Prepared /\ (~torn => Whole) /\ Channels \in Nat \ {0} /\ FrameNumbers \in Nat \ {0}
      /\ Unit \in Nat \ {0} /\ MaxDrift \in Nat
  BY RouteAssumption DEF RouteInv
<1>2. /\ Len(ring) \in Nat /\ visible \in Nat /\ used \in Nat /\ phase \in Nat /\ phase >= Unit
      /\ sink = "advance" /\ primed /\ ~underran /\ current' = next
      /\ UNCHANGED <<nominal_step, source, width, channel, pFrame, used, position, torn>>
      /\ nominal_step \in Nat /\ nominal_step > MaxDrift
  BY <1>1, RouteAssumption DEF RouteTypeOK, Prepared, Advance
<1>3. CASE /\ read_source_frame /\ next' = Taken /\ phase' = phase - Unit
           /\ UNCHANGED <<sink, primed, underran>>
  <2>1. /\ Len(ring) >= Channels /\ ring' = SubSeq(ring, Channels + 1, Len(ring))
        /\ ring' \in Seq(Samples) /\ Taken \in [1..Channels -> Samples]
        /\ visible' \in Nat /\ visible' <= Len(ring') /\ Len(ring') <= Len(ring)
    BY <1>3, ReadSourceFrame
  <2>2. phase' \in Nat
    BY <1>1, <1>2, <1>3
  <2>3. RouteTypeOK' /\ Prepared'
    BY <1>1, <1>2, <1>3, <2>1, <2>2 DEF RouteTypeOK, Prepared
  <2>4. Views'
    <3>1. Len(ring') \in Nat
      BY <2>1
    <3>2. Len(ring') <= used
      BY <1>1, <1>2, <2>1, <3>1 DEF Views
    <3> QED BY <1>1, <1>2, <1>3, <2>1, <3>2 DEF Views
  <2>5. ASSUME ~torn' PROVE Whole'
    <3>1. PICK h \in Nat, k \in Nat :
          /\ Content(h, k) /\ Held(h)
          /\ position >= 0 => \E p, q \in Int : position = p - q * Units /\ Clock(h, p)
      BY <1>1, <1>2, <2>5 DEF Whole
    <3>2. k - 1 \in Nat /\ Content(h + 1, k - 1)' /\ Taken = Frame(h)
      BY <1>1, <1>2, <2>1, <3>1, TakeContent
    <3>3. Held(h + 1)'
      <4>1. h >= 2 /\ next = Frame(h - 1)
        BY <1>2, <3>1 DEF Held
      <4>2. h + 1 >= 2 /\ h + 1 - 1 = h /\ h + 1 - 2 = h - 1
        BY <4>1
      <4> QED BY <1>2, <1>3, <3>2, <4>1, <4>2 DEF Held, Frame
    <3>4. ASSUME NEW p \in Int, Clock(h, p) PROVE Clock(h + 1, p)'
      <4>1. Ahead(h) = (h - 2) * Unit + phase /\ Ahead(h + 1)' = (h + 1 - 2) * Unit + (phase - Unit)
        BY <1>2, <1>3 DEF Ahead
      <4>2. Ahead(h + 1)' = Ahead(h)
        <5>1. (h + 1 - 2) * Unit = (h - 2) * Unit + Unit /\ (h - 2) * Unit \in Int
          BY <1>1
        <5> QED BY <1>1, <1>2, <4>1, <5>1
      <4>3. p < (h + 1 - 1) * Unit
        <5>1. (h + 1 - 1) * Unit = (h - 1) * Unit + Unit /\ (h - 1) * Unit \in Int
          BY <1>1
        <5>2. p < (h - 1) * Unit
          BY <1>2, <3>4 DEF Clock
        <5> QED BY <1>1, <5>1, <5>2
      <4> QED BY <1>2, <1>3, <3>4, <4>2, <4>3 DEF Clock
    <3>5. (position >= 0 => \E p, q \in Int : position = p - q * Units /\ Clock(h + 1, p))'
      BY <1>2, <3>1, <3>4
    <3> QED BY <3>2, <3>3, <3>5 DEF Whole
  <2> QED BY <2>3, <2>4, <2>5 DEF RouteInv
<1>4. CASE NoSourceFrame /\ primed' = FALSE /\ sink' = "add" /\ UNCHANGED <<next, phase>>
  <2>1. visible' \in Nat /\ visible' <= Len(ring) /\ ring' = ring /\ underran' = TRUE
    BY <1>2, <1>4 DEF NoSourceFrame, LoadVisible
  <2>2. RouteTypeOK' /\ Prepared'
    BY <1>1, <1>2, <1>4, <2>1 DEF RouteTypeOK, Prepared
  <2>3. Views'
    BY <1>1, <1>2, <1>4, <2>1 DEF Views
  <2>4. ASSUME ~torn' PROVE Whole'
    <3>1. PICK h \in Nat, k \in Nat :
          /\ Content(h, k) /\ Held(h)
          /\ position >= 0 => \E p, q \in Int : position = p - q * Units /\ Clock(h, p)
      BY <1>1, <1>2, <2>4 DEF Whole
    <3>2. Content(h, k)' /\ Held(h)'
      BY <1>2, <1>4, <2>1, <3>1 DEF Content, Held, Frame
    <3>3. ASSUME NEW p \in Int, Clock(h, p) PROVE Clock(h, p)'
      <4> DEFINE a == (h - 2) * Unit
      <4>1. Ahead(h) = a + phase /\ Ahead(h)' = h * Unit
        BY <1>2, <1>4 DEF Ahead
      <4>2. a \in Int /\ h * Unit = a + 2 * Unit /\ (h - 1) * Unit = a + Unit
        BY <1>1
      <4>3. a + phase - p \in (nominal_step - MaxDrift)..(nominal_step + MaxDrift) /\ p < a + Unit
        BY <1>2, <3>3, <4>1, <4>2 DEF Clock
      <4> HIDE DEF a
      <4>4. a + 2 * Unit - p \in 1..(nominal_step + MaxDrift + Unit)
        BY <1>1, <1>2, <4>2, <4>3
      <4>5. Ahead(h)' - p \in 1..(nominal_step + MaxDrift + Unit)
        <5>1. Ahead(h)' = a + 2 * Unit
          BY <4>1, <4>2, Zenon
        <5>2. PICK y : y = Ahead(h)'
          OBVIOUS
        <5>3. y = a + 2 * Unit
          BY <5>1, <5>2
        <5>4. y - p \in 1..(nominal_step + MaxDrift + Unit)
          BY <1>1, <4>2, <4>4, <5>3
        <5> QED BY <5>2, <5>4
      <4> QED BY <1>2, <1>4, <2>1, <4>5 DEF Clock
    <3>4. (position >= 0 => \E p, q \in Int : position = p - q * Units /\ Clock(h, p))'
      BY <1>2, <3>1, <3>3
    <3> QED BY <3>2, <3>4 DEF Whole
  <2> QED BY <2>2, <2>3, <2>4 DEF RouteInv
<1> QED BY <1>3, <1>4 DEF Advance

-----------------------------------------------------------------------------
(* A route begins with nothing in the ring and nothing played. *)
LEMMA InitRouteInv == RouteInit => RouteInv
<1> SUFFICES ASSUME RouteInit PROVE RouteInv
  OBVIOUS
<1>1. Channels \in Nat \ {0} /\ FrameNumbers \in Nat \ {0} /\ Capacity \in Nat \ {0} /\ Unit \in Nat \ {0}
  BY RouteAssumption
<1>2. RouteTypeOK
  <2>1. << >> \in Seq(Samples) /\ -1 \in Int /\ 0 \in 0..(Channels - 1) /\ 0 \in 0..(FrameNumbers - 1) /\ Channels \in 1..Channels
    BY <1>1
  <2> QED BY <2>1 DEF RouteInit, RouteTypeOK
<1>5. Views /\ Prepared
  BY <1>1 DEF RouteInit, Views, Prepared
<1>3. Content(0, 0)
  <2>1. Len(ring) = 0 /\ 0 * Channels + channel = 0 /\ pFrame = 0
    BY <1>1 DEF RouteInit
  <2>2. 0 % FrameNumbers = 0 /\ 0 + 0 = 0
    BY <1>1, SmallRemainder
  <2>3. \A j \in 0..0, c \in 0..(Channels - 1) : ~(j * Channels + c < 0)
    BY <1>1
  <2> QED BY <2>1, <2>2, <2>3 DEF Content
<1>4. Held(0) /\ ~(position >= 0)
  BY DEF RouteInit, Held
<1> QED BY <1>2, <1>3, <1>4, <1>5 DEF RouteInv, Whole

(* Every step keeps the invariant. *)
LEMMA NextRouteInv == RouteInv /\ [RouteNext]_routeVars => RouteInv'
<1> SUFFICES ASSUME RouteInv, [RouteNext]_routeVars PROVE RouteInv'
  OBVIOUS
<1>1. CASE UNCHANGED routeVars
  <2>1. RouteTypeOK' /\ Views' /\ Prepared'
    BY <1>1 DEF routeVars, sourceVars, heldVars, outputVars, RouteInv, RouteTypeOK, Views, Prepared
  <2>2. ~torn' => Whole'
    BY <1>1, WholeKept DEF routeVars, sourceVars, heldVars, outputVars, RouteInv
  <2> QED BY <2>1, <2>2 DEF RouteInv
<1>2. CASE RouteNext
  BY <1>2, SourceSteps, PushStep, SinkSteps, PrimeSteps, InterpolateStep, AdvanceStep DEF RouteNext
<1> QED BY <1>1, <1>2

(* Where the frames are and how far the output is from the last one: RouteInv always holds. *)
THEOREM RouteInvariance == RouteSpec => []RouteInv
BY InitRouteInv, NextRouteInv, PTL DEF RouteSpec

(* The pair of frames that is interpolated is whole and in order: WholeNeighbours. *)
THEOREM RouteKeepsFrames == RouteSpec => []WholeNeighbours
<1>1. RouteInv => WholeNeighbours
  <2> SUFFICES ASSUME RouteInv, ~torn, primed
               PROVE  \E f \in 0..(FrameNumbers - 1) :
                        /\ current = [c \in 1..Channels |-> <<f, c - 1>>]
                        /\ next = [c \in 1..Channels |-> <<(f + 1) % FrameNumbers, c - 1>>]
    BY DEF WholeNeighbours
  <2>1. PICK h \in Nat : Held(h)
    BY DEF RouteInv, Whole
  <2>2. h - 2 \in Nat /\ current = Frame(h - 2) /\ next = Frame(h - 1) /\ h - 2 + 1 = h - 1
    BY <2>1 DEF Held
  <2> DEFINE f == (h - 2) % FrameNumbers
  <2>3. f \in 0..(FrameNumbers - 1) /\ (f + 1) % FrameNumbers = (h - 1) % FrameNumbers
    <3>1. FrameNumbers \in Nat \ {0} /\ h - 2 \in Int
      BY <2>2, RouteAssumption
    <3>2. f \in 0..(FrameNumbers - 1)
      BY <3>1, Division
    <3>3. (f + 1) % FrameNumbers = (h - 2 + 1) % FrameNumbers
      BY <2>2, <3>1, NextNumber
    <3> QED BY <2>2, <3>2, <3>3, Zenon
  <2>4. /\ current = [c \in 1..Channels |-> <<f, c - 1>>]
        /\ next = [c \in 1..Channels |-> <<(f + 1) % FrameNumbers, c - 1>>]
    BY <2>2, <2>3 DEF Frame
  <2> QED BY <2>3, <2>4
<1> QED
  BY <1>1, InitRouteInv, NextRouteInv, PTL DEF RouteSpec

(* The output moves on by the corrected ratio or an underrun was counted: SmoothOrCounted. *)
THEOREM RoutePlaysSmoothly == RouteSpec => SmoothOrCounted
<1> DEFINE Smooth ==
             ~torn /\ position >= 0 /\ Interpolate =>
               LET moved == (position' - position) % Units
               IN  IF underran THEN moved \in 1..(nominal_step + MaxDrift + Unit)
                   ELSE moved \in (nominal_step - MaxDrift)..(nominal_step + MaxDrift)
<1>1. RouteInv /\ [RouteNext]_routeVars => [Smooth]_routeVars
  <2> SUFFICES ASSUME RouteInv, ~torn, position >= 0, Interpolate
               PROVE  IF underran THEN (position' - position) % Units \in 1..(nominal_step + MaxDrift + Unit)
                      ELSE (position' - position) % Units \in (nominal_step - MaxDrift)..(nominal_step + MaxDrift)
    OBVIOUS
  <2>1. /\ Unit \in Nat \ {0} /\ MaxDrift \in Nat /\ FrameNumbers \in Nat \ {0} /\ Channels \in Nat \ {0}
        /\ nominal_step \in Nat /\ nominal_step > MaxDrift /\ nominal_step + MaxDrift + Unit < Units
        /\ position \in Int /\ phase \in Nat /\ primed
    BY RouteAssumption DEF RouteInv, RouteTypeOK, Interpolate, Units
  <2>2. PICK h \in Nat : Held(h) /\ \E p, q \in Int : position = p - q * Units /\ Clock(h, p)
    BY DEF RouteInv, Whole
  <2>3. PICK p \in Int, q \in Int : position = p - q * Units /\ Clock(h, p)
    BY <2>2
  <2>4. h - 2 \in Nat /\ FrameOf(current) = (h - 2) % FrameNumbers
    <3>1. h - 2 \in Nat /\ current = Frame(h - 2)
      BY <2>1, <2>2 DEF Held
    <3>2. Frame(h - 2)[1] = <<(h - 2) % FrameNumbers, 1 - 1>>
      BY <2>1 DEF Frame
    <3> QED BY <3>1, <3>2 DEF FrameOf
  <2> DEFINE v == (h - 2) * Unit + phase
  <2>5. PICK r \in Int : position' = v - r * Units
    <3>1. PICK f, m, y : f = h - 2 /\ m = FrameOf(current) /\ y = position'
      OBVIOUS
    <3>2. f \in Nat /\ m = f % FrameNumbers /\ phase \in Nat
      BY <2>1, <2>4, <3>1
    <3>3. m \in Int /\ \E r \in Int : m * Unit + phase = (f * Unit + phase) - r * Units
      BY <3>2, PlaceIsModulo
    <3>4. y = m * Unit + phase /\ v = f * Unit + phase
      BY <3>1 DEF Interpolate
    <3>5. Unit \in Nat /\ Units \in Nat
      BY <2>1 DEF Units
    <3> HIDE DEF v
    <3>6. PICK r \in Int : m * Unit + phase = (f * Unit + phase) - r * Units
      BY <3>3
    <3>7. y = v - r * Units
      BY <3>4, <3>6
    <3> QED BY <3>1, <3>7
  <2>6. IF underran THEN v - p \in 1..(nominal_step + MaxDrift + Unit)
        ELSE v - p \in (nominal_step - MaxDrift)..(nominal_step + MaxDrift)
    BY <2>1, <2>3 DEF Clock, Ahead
  <2>7. v \in Int
    BY <2>1
  <2> HIDE DEF v
  <2>8. Units \in Nat \ {0}
    BY <2>1 DEF Units
  <2>9. v - p \in 0..(Units - 1)
    <3> HIDE DEF Units
    <3>1. CASE underran
      BY <2>1, <2>6, <2>7, <2>8, <3>1
    <3>2. CASE ~underran
      BY <2>1, <2>6, <2>7, <2>8, <3>2
    <3> QED BY <3>1, <3>2
  <2>10. position' - position = (q - r) * Units + (v - p) /\ q - r \in Int /\ position' - position \in Int
    <3> HIDE DEF Units
    <3> QED BY <2>3, <2>5, <2>7, <2>8
  <2>11. (position' - position) % Units = v - p
    BY <2>8, <2>9, <2>10, RemainderIs
  <2> QED BY <2>6, <2>11
<1> QED
  BY <1>1, InitRouteInv, NextRouteInv, PTL DEF RouteSpec, SmoothOrCounted
=============================================================================
