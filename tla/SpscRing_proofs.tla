-------------------------- MODULE SpscRing_proofs --------------------------
(***************************************************************************)
(* Proofs about the ring buffer for every capacity, index width, sample    *)
(* set and slice length.                                                   *)
(***************************************************************************)
EXTENDS SpscRing, SequenceTheorems, TLAPS

(* usize counts at least two capacities, so a difference of at most one
   capacity is never confused with a wrapped one. *)
LEMMA ModulusBound ==
  /\ Capacity \in Nat /\ Capacity >= 2
  /\ IndexModulus \in Nat
  /\ IndexModulus >= 2 * Capacity
<1>1. PICK k \in 2..IndexModulus : IndexModulus = k * Capacity
  BY RingAssumption
<1>2. k \in Nat /\ k >= 2 /\ IndexModulus \in Nat
  BY RingAssumption
<1>3. Capacity \in Nat /\ Capacity >= 2
  BY RingAssumption
<1>4. k * Capacity >= 2 * Capacity
  BY <1>2, <1>3
<1> QED
  BY <1>1, <1>2, <1>3, <1>4

(* Division with remainder, as index & mask uses it. *)
LEMMA SlotDivision ==
  ASSUME NEW i \in Nat
  PROVE  /\ Slot(i) \in Slots
         /\ \E q \in Int : i = q * Capacity + Slot(i)
<1>1. Capacity \in Nat /\ Capacity >= 2
  BY ModulusBound
<1>2. (i % Capacity) \in 0..(Capacity - 1) /\ i = ((i \div Capacity) * Capacity) + (i % Capacity)
  BY <1>1
<1>3. i \div Capacity \in Int
  BY <1>1
<1>4. Slot(i) \in Slots
  BY <1>2 DEF Slot, Slots
<1>5. \E q \in Int : i = q * Capacity + Slot(i)
  <2> WITNESS i \div Capacity \in Int
  <2> QED BY <1>2 DEF Slot
<1> QED
  BY <1>4, <1>5

(* A multiple of a positive number that lies strictly between its negative
   and itself is zero. *)
LEMMA SmallMultiple ==
  ASSUME NEW c \in Nat, c >= 1, NEW t \in Int, t * c < c, -c < t * c
  PROVE  t = 0
<1>1. CASE t >= 1
  <2>1. t * c >= c
    BY <1>1
  <2> QED BY <2>1
<1>2. CASE t <= -1
  <2>1. t * c <= -c
    BY <1>2
  <2> QED BY <2>1
<1> QED BY <1>1, <1>2

(* A caller's slice is a sequence of samples. *)
LEMMA SliceType ==
  ASSUME NEW s \in Slices
  PROVE  s \in Seq(Samples) /\ Len(s) \in Nat
<1>1. PICK n \in 0..MaxSlice : s \in [1..n -> Samples]
  BY DEF Slices
<1>2. n \in Nat
  BY RingAssumption
<1>3. s \in Seq(Samples)
  BY <1>1, <1>2
<1> QED
  BY <1>3

(* Advancing an index by less than the modulus stays an index, and the
   distance of two indices is less than the modulus. *)
LEMMA WrapTypes ==
  ASSUME NEW a \in Index, NEW b \in Index, NEW k \in 0..(IndexModulus - 1)
  PROVE  /\ wrapping_add(a, k) \in Index
         /\ wrapping_sub(a, b) \in 0..(IndexModulus - 1)
BY ModulusBound DEF Index, wrapping_add, wrapping_sub

(* Different indices are at least one apart. *)
LEMMA WrapDistinct ==
  ASSUME NEW a \in Index, NEW b \in Index, a # b
  PROVE  1 <= wrapping_sub(a, b)
<1>1. a \in Int /\ b \in Int /\ a >= 0 /\ b < IndexModulus /\ IndexModulus \in Int
  BY ModulusBound DEF Index
<1> QED
  BY <1>1 DEF wrapping_sub

(* wrapping_sub undoes wrapping_add, and advancing twice is advancing once. *)
LEMMA WrapInverse ==
  ASSUME NEW a \in Index, NEW b \in Index
  PROVE  /\ wrapping_add(b, wrapping_sub(a, b)) = a
         /\ \A k \in 0..(IndexModulus - 1) : wrapping_sub(wrapping_add(a, k), a) = k
         /\ \A j, k \in Nat : j + k < IndexModulus
              => wrapping_add(wrapping_add(a, j), k) = wrapping_add(a, j + k)
BY ModulusBound DEF Index, wrapping_add, wrapping_sub

(* An advanced index names a slot. *)
LEMMA SlotType ==
  ASSUME NEW a \in Index, NEW k \in 0..Capacity
  PROVE  Slot(wrapping_add(a, k)) \in Slots
<1>1. wrapping_add(a, k) \in Nat
  BY ModulusBound DEF Index, wrapping_add
<1> QED
  BY <1>1, SlotDivision

(* Positions less than Capacity apart have different slots, also across the
   point where the index wraps: this is where the modulus being a multiple of
   the capacity is needed. *)
LEMMA SlotInjective ==
  ASSUME NEW a \in Index, NEW j \in 0..(Capacity - 1), NEW k \in 0..(Capacity - 1),
         Slot(wrapping_add(a, j)) = Slot(wrapping_add(a, k))
  PROVE  j = k
<1> DEFINE x == wrapping_add(a, j)
           y == wrapping_add(a, k)
<1>1. /\ Capacity \in Nat /\ Capacity >= 2
      /\ IndexModulus \in Nat /\ IndexModulus >= 2 * Capacity
  BY ModulusBound
<1>2. x \in Nat /\ y \in Nat
  BY <1>1 DEF Index, wrapping_add
<1>3. PICK p \in Int : x = p * Capacity + Slot(x)
  BY <1>2, SlotDivision
<1>4. PICK q \in Int : y = q * Capacity + Slot(y)
  BY <1>2, SlotDivision
<1>5. PICK m \in 2..IndexModulus : IndexModulus = m * Capacity
  BY RingAssumption
<1>6. Slot(x) \in Nat /\ Slot(x) = Slot(y)
  BY <1>1, <1>2, SlotDivision DEF Slots
<1>7. x - y = (p - q) * Capacity
  BY <1>1, <1>3, <1>4, <1>6
<1>8. \E t \in Int : j - k = t * Capacity
  <2>1. \/ x - y = j - k
        \/ x - y = j - k + IndexModulus
        \/ x - y = j - k - IndexModulus
    BY <1>1 DEF Index, wrapping_add
  <2>2. CASE x - y = j - k
    <3> WITNESS p - q \in Int
    <3> QED BY <1>7, <2>2
  <2>3. CASE x - y = j - k + IndexModulus
    <3> WITNESS p - q - m \in Int
    <3> QED BY <1>1, <1>5, <1>7, <2>3
  <2>4. CASE x - y = j - k - IndexModulus
    <3> WITNESS p - q + m \in Int
    <3> QED BY <1>1, <1>5, <1>7, <2>4
  <2> QED BY <2>1, <2>2, <2>3, <2>4
<1>9. PICK t \in Int : j - k = t * Capacity
  BY <1>8
<1>10. t * Capacity < Capacity /\ -Capacity < t * Capacity
  BY <1>1, <1>9
<1>11. t = 0
  BY <1>1, <1>10, SmallMultiple
<1> QED
  BY <1>1, <1>9, <1>11

-----------------------------------------------------------------------------
(* The inductive invariant *)

(* The initial state of spsc_ring_buffer satisfies the invariant. *)
LEMMA InitIndInv == Init => IndInv
<1> SUFFICES ASSUME Init PROVE IndInv
  OBVIOUS
<1>1. Silence \in Samples /\ 0 \in Index
  BY RingAssumption, ModulusBound DEF Index
<1>2. TypeOK
  BY <1>1 DEF Init, TypeOK
<1>3. Window /\ Progress
  BY ModulusBound DEF Init, Window, Progress, wrapping_sub
<1>4. Copies
  BY DEF Init, Copies
<1> QED
  BY <1>2, <1>3, <1>4 DEF IndInv

(* Under the invariant the distances that matter add up and are small. *)
LEMMA Distances ==
  ASSUME IndInv
  PROVE  /\ wrapping_sub(read, pRead) \in 0..Capacity
         /\ wrapping_sub(cWrite, read) \in 0..Capacity
         /\ wrapping_sub(write, cWrite) \in 0..Capacity
         /\ wrapping_sub(write, pRead) \in 0..Capacity
         /\ wrapping_sub(write, read) = wrapping_sub(cWrite, read) + wrapping_sub(write, cWrite)
         /\ wrapping_sub(write, read) \in 0..Capacity
         /\ wrapping_sub(write, pRead) = wrapping_sub(read, pRead) + wrapping_sub(write, read)
BY ModulusBound DEF IndInv, TypeOK, Window, Index, wrapping_sub

(* The slots of positions beyond write, up to the window's end, hold no unread
   sample. *)
LEMMA FreeSlotsUnread ==
  ASSUME IndInv, NEW k \in Nat, wrapping_sub(write, pRead) + k < Capacity,
         NEW j \in 0..(wrapping_sub(write, read) - 1)
  PROVE  Slot(wrapping_add(write, k)) # Slot(wrapping_add(read, j))
<1> DEFINE d == wrapping_sub(write, read)
<1>1. /\ Capacity \in Nat /\ IndexModulus \in Nat
      /\ IndexModulus >= 2 * Capacity
  BY ModulusBound
<1>2. d \in 0..Capacity /\ d + k < Capacity /\ read \in Index /\ write \in Index
  <2>1. read \in Index /\ write \in Index
    BY DEF IndInv, TypeOK
  <2>2. d \in 0..Capacity /\ d + k < Capacity
    BY <1>1, Distances
  <2> QED BY <2>1, <2>2
<1>3. write = wrapping_add(read, d)
  BY <1>2, WrapInverse
<1>4. wrapping_add(write, k) = wrapping_add(read, d + k)
  <2> HIDE DEF d
  <2> QED BY <1>1, <1>2, <1>3, WrapInverse
<1>5. d + k \in 0..(Capacity - 1) /\ j \in 0..(Capacity - 1) /\ d + k # j
  BY <1>1, <1>2
<1> QED
  BY <1>2, <1>4, <1>5, SlotInjective

(* A load of read, however stale, keeps the window and can only widen the
   room the producer sees. *)
LEMMA LoadReadWindow ==
  ASSUME IndInv, LoadRead, UNCHANGED <<read, write, cWrite>>
  PROVE  /\ pRead' \in Index
         /\ Window'
         /\ wrapping_sub(write, pRead') \in 0..wrapping_sub(write, pRead)
<1>1. PICK k \in 0..wrapping_sub(read, pRead) : pRead' = wrapping_add(pRead, k)
  BY DEF LoadRead
<1>2. /\ read \in Index /\ write \in Index /\ pRead \in Index /\ cWrite \in Index
      /\ Window
  BY DEF IndInv, TypeOK
<1> QED
  BY <1>1, <1>2, ModulusBound, Distances DEF Window, Index, wrapping_add, wrapping_sub

(* A load of write keeps the window and can only show the consumer more. *)
LEMMA LoadWriteWindow ==
  ASSUME IndInv, LoadWrite, UNCHANGED <<read, write, pRead>>
  PROVE  /\ cWrite' \in Index
         /\ Window'
         /\ wrapping_sub(cWrite', read) \in wrapping_sub(cWrite, read)..wrapping_sub(write, read)
<1>1. PICK k \in 0..wrapping_sub(write, cWrite) : cWrite' = wrapping_add(cWrite, k)
  BY DEF LoadWrite
<1>2. /\ read \in Index /\ write \in Index /\ pRead \in Index /\ cWrite \in Index
      /\ Window
  BY DEF IndInv, TypeOK
<1> QED
  BY <1>1, <1>2, ModulusBound, Distances DEF Window, Index, wrapping_add, wrapping_sub

(* A producer call that starts keeps the invariant. *)
LEMMA ProducerCallIndInv ==
  ASSUME IndInv, LoadRead, UNCHANGED <<samples, read, write, cVars>>,
         pState' \in {"idle", "copy"}, input' \in Seq(Samples), pOffset' = 0, pCount' \in Nat,
         pCount' <= Len(input'), pCount' <= Free(pRead'),
         pState' = "idle" => input' = <<>>
  PROVE  IndInv'
<1>1. TypeOK' /\ Window'
  BY LoadReadWindow DEF IndInv, TypeOK, cVars
<1>2. Progress'
  BY LoadReadWindow DEF IndInv, TypeOK, Progress, Free, cVars
<1>3. Copies'
  BY DEF IndInv, Copies, cVars
<1> QED
  BY <1>1, <1>2, <1>3 DEF IndInv

(* A consumer call that starts keeps the invariant. *)
LEMMA ConsumerCallIndInv ==
  ASSUME IndInv, LoadWrite, UNCHANGED <<samples, read, write, pVars>>,
         cState' \in {"idle", "copy"}, cCount' \in Nat, cCount' <= Filled(cWrite'),
         \/ output' = <<>>
         \/ cState' = "idle" /\ output' = output
  PROVE  IndInv'
<1>1. TypeOK' /\ Window'
  <2>1. output' \in Seq(Samples)
    <3>1. <<>> \in Seq(Samples)
      OBVIOUS
    <3> QED
      BY <3>1 DEF IndInv, TypeOK
  <2>2. cWrite' \in Index /\ Window'
    BY LoadWriteWindow DEF pVars
  <2> QED
    BY <2>1, <2>2 DEF IndInv, TypeOK, pVars
<1>2. Progress'
  BY LoadWriteWindow DEF IndInv, TypeOK, Progress, Filled, pVars
<1>3. Copies'
  BY DEF IndInv, Copies, pVars
<1> QED
  BY <1>1, <1>2, <1>3 DEF IndInv

(* Every step of either side keeps the invariant. *)
LEMMA NextIndInv == IndInv /\ [Next]_vars => IndInv'
<1> SUFFICES ASSUME IndInv, [Next]_vars PROVE IndInv'
  OBVIOUS
<1> USE ModulusBound
<1>0. /\ pState = "idle" => input = <<>> /\ pCount = 0 /\ pOffset = 0
      /\ input \in Seq(Samples) /\ pCount \in Nat /\ pOffset \in Nat
      /\ output \in Seq(Samples) /\ cCount \in Nat
  <2>1. input = <<>> => Len(input) = 0
    OBVIOUS
  <2> QED
    BY <2>1 DEF IndInv, TypeOK, Progress
<1>n. pCount \in Nat /\ pOffset \in Nat /\ cCount \in Nat
  BY <1>0
<1>d. /\ wrapping_sub(write, pRead) \in Nat /\ wrapping_sub(write, pRead) <= Capacity
      /\ wrapping_sub(read, pRead) \in Nat /\ wrapping_sub(cWrite, read) \in Nat
      /\ wrapping_sub(write, cWrite) \in Nat
      /\ wrapping_sub(write, pRead) =
           wrapping_sub(read, pRead) + wrapping_sub(cWrite, read) + wrapping_sub(write, cWrite)
  BY Distances
<1>c. cCount <= wrapping_sub(cWrite, read)
  BY DEF IndInv, Progress
<1>1. CASE ProducerAvailable \/ PushFull
  <2>1. /\ LoadRead /\ pState = "idle"
        /\ UNCHANGED <<samples, read, write, pState, input, pCount, pOffset, cVars>>
    BY <1>1 DEF ProducerAvailable, PushFull
  <2>2. 0 <= Free(pRead')
    <3>1. wrapping_sub(write, pRead') \in 0..wrapping_sub(write, pRead)
      BY <2>1, LoadReadWindow DEF cVars
    <3> QED
      BY <1>d, <3>1 DEF Free
  <2>3. Len(input) = 0
    BY <1>0, <2>1
  <2> QED
    BY <1>0, <2>1, <2>2, <2>3, ProducerCallIndInv
<1>2. ASSUME NEW s \in Slices, PushSliceCall(s) PROVE IndInv'
  <2>1. s \in Seq(Samples) /\ Len(s) \in Nat
    BY SliceType
  <2>2. Free(pRead') \in Nat
    <3>1. wrapping_sub(write, pRead') \in 0..wrapping_sub(write, pRead)
      BY <1>2, LoadReadWindow DEF PushSliceCall, cVars
    <3> QED
      BY <1>d, <3>1 DEF Free
  <2>3. pCount' \in Nat /\ pCount' <= Len(s) /\ pCount' <= Free(pRead')
    BY <1>2, <2>1, <2>2 DEF PushSliceCall, Least
  <2> QED
    BY <1>2, <2>1, <2>3, ProducerCallIndInv DEF PushSliceCall
<1>3. ASSUME NEW x \in Samples, PushCall(x) PROVE IndInv'
  <2>1. 1 <= Free(pRead')
    <3>1. wrapping_sub(write, pRead') \in 0..wrapping_sub(write, pRead)
      BY <1>3, LoadReadWindow DEF PushCall, cVars
    <3>2. wrapping_sub(write, pRead') # Capacity
      BY <1>3 DEF PushCall
    <3> QED
      BY <1>d, <3>1, <3>2 DEF Free
  <2>2. <<x>> \in Seq(Samples) /\ Len(<<x>>) = 1
    OBVIOUS
  <2> QED
    BY <1>3, <2>1, <2>2, ProducerCallIndInv DEF PushCall
<1>4. CASE PushCopy
  <2> DEFINE w == Slot(wrapping_add(write, pOffset))
  <2>1. /\ write \in Index /\ read \in Index
        /\ pOffset < pCount /\ pCount <= Len(input)
        /\ wrapping_sub(write, pRead) + pOffset < Capacity /\ pOffset < Capacity
    <3>1. write \in Index /\ read \in Index
      BY DEF IndInv, TypeOK
    <3>2. /\ pOffset < pCount /\ pCount <= Len(input)
          /\ pCount <= Capacity - wrapping_sub(write, pRead)
      BY <1>4 DEF IndInv, Progress, PushCopy
    <3>3. wrapping_sub(write, pRead) + pOffset < Capacity /\ pOffset < Capacity
      BY <1>n, <1>d, <3>2
    <3> QED
      BY <3>1, <3>2, <3>3
  <2>2. w \in Slots
    BY <1>n, <2>1, SlotType
  <2>3. input[pOffset + 1] \in Samples
    BY <1>0, <2>1
  <2>4. samples' = [samples EXCEPT ![w] = input[pOffset + 1]]
    BY <1>4 DEF PushCopy
  <2>5. TypeOK'
    <3>1. samples' \in [Slots -> Samples]
      BY <2>3, <2>4 DEF IndInv, TypeOK
    <3>2. pOffset' \in Nat
      BY <1>0, <1>4 DEF PushCopy
    <3> QED
      BY <1>4, <3>1, <3>2 DEF IndInv, TypeOK, PushCopy, cVars
  <2>6. Window' /\ Progress'
    BY <1>0, <1>4, <2>1 DEF IndInv, Window, Progress, PushCopy, cVars
  <2>7. ASSUME NEW k \in 0..(pOffset' - 1)
        PROVE  samples'[Slot(wrapping_add(write', k))] = input'[k + 1]
    <3>1. write' = write /\ input' = input /\ pOffset' = pOffset + 1
      BY <1>4 DEF PushCopy
    <3>2. CASE k = pOffset
      BY <2>2, <2>4, <3>1, <3>2 DEF IndInv, TypeOK
    <3>3. CASE k # pOffset
      <4>1. k \in 0..(pOffset - 1) /\ k \in 0..(Capacity - 1) /\ pOffset \in 0..(Capacity - 1)
        BY <1>0, <2>1, <3>1, <3>3
      <4>2. Slot(wrapping_add(write, k)) # w
        BY <2>1, <3>3, <4>1, SlotInjective
      <4>3. Slot(wrapping_add(write, k)) \in Slots
        BY <2>1, <4>1, SlotType
      <4>4. samples[Slot(wrapping_add(write, k))] = input[k + 1]
        BY <4>1 DEF IndInv, Copies
      <4> QED
        BY <2>4, <3>1, <4>2, <4>3, <4>4 DEF IndInv, TypeOK
    <3> QED
      BY <3>2, <3>3
  <2>8. ASSUME cState' = "copy", NEW k \in 0..(Len(output') - 1)
        PROVE  output'[k + 1] = samples'[Slot(wrapping_add(read', k))]
    <3>1. read' = read /\ output' = output /\ cState' = cState
      BY <1>4 DEF PushCopy, cVars
    <3>2. Len(output) \in Nat /\ Len(output) <= wrapping_sub(write, read)
      <4>1. Len(output) \in Nat /\ cCount \in Nat /\ Len(output) <= cCount /\ cCount <= wrapping_sub(cWrite, read)
        BY <1>0, <2>8, <3>1 DEF IndInv, Progress
      <4> QED BY <4>1, Distances
    <3>3. k \in 0..(wrapping_sub(write, read) - 1)
      BY <3>1, <3>2, Distances
    <3>4. w # Slot(wrapping_add(read, k))
      BY <1>0, <2>1, <3>3, FreeSlotsUnread
    <3>5. Slot(wrapping_add(read, k)) \in Slots
      BY <2>1, <3>3, Distances, SlotType
    <3>6. output[k + 1] = samples[Slot(wrapping_add(read, k))]
      BY <2>8, <3>1 DEF IndInv, Copies
    <3> QED
      BY <2>4, <3>1, <3>4, <3>5, <3>6 DEF IndInv, TypeOK
  <2> QED
    BY <2>5, <2>6, <2>7, <2>8 DEF IndInv, Copies
<1>5. CASE PushPublish
  <2>1. <<>> \in Seq(Samples) /\ Len(<<>>) = 0
    OBVIOUS
  <2>2. pCount <= Capacity - wrapping_sub(write, pRead)
    BY DEF IndInv, Progress
  <2>3. write' \in Index
    <3>1. write \in Index
      BY DEF IndInv, TypeOK
    <3>2. pCount \in 0..(IndexModulus - 1)
      BY <1>n, <1>d, <2>2
    <3> QED
      BY <1>5, <3>1, <3>2, WrapTypes DEF PushPublish
  <2>4. TypeOK'
    BY <1>5, <2>1, <2>3 DEF IndInv, TypeOK, PushPublish, cVars
  <2>5. /\ wrapping_sub(write', pRead) = wrapping_sub(write, pRead) + pCount
        /\ wrapping_sub(write', cWrite) = wrapping_sub(write, cWrite) + pCount
    BY <1>n, <1>d, <1>5, <2>2
       DEF PushPublish, IndInv, TypeOK, Index, wrapping_add, wrapping_sub
  <2>6. Window'
    <3>1. pRead' = pRead /\ read' = read /\ cWrite' = cWrite
      BY <1>5 DEF PushPublish, cVars
    <3>2. /\ wrapping_sub(write', pRead) <= Capacity
          /\ wrapping_sub(write', pRead) =
               wrapping_sub(read, pRead) + wrapping_sub(cWrite, read) + wrapping_sub(write', cWrite)
      BY <1>n, <1>d, <2>2, <2>5
    <3> QED
      BY <3>1, <3>2 DEF Window
  <2>7. Progress'
    <3>1. 0 <= Capacity - wrapping_sub(write', pRead)
      BY <1>n, <1>d, <2>2, <2>5
    <3>2. /\ pCount' = 0 /\ pOffset' = 0 /\ input' = <<>> /\ pRead' = pRead
          /\ cState' = cState /\ output' = output /\ cCount' = cCount
          /\ cWrite' = cWrite /\ read' = read
      BY <1>5 DEF PushPublish, cVars
    <3> QED
      BY <2>1, <3>1, <3>2 DEF IndInv, Progress
  <2>8. Copies'
    BY <1>5 DEF IndInv, Copies, PushPublish, cVars
  <2> QED
    BY <2>4, <2>6, <2>7, <2>8 DEF IndInv
<1>6. CASE ConsumerAvailable
  <2>1. wrapping_sub(cWrite', read) \in wrapping_sub(cWrite, read)..wrapping_sub(write, read)
    BY <1>6, LoadWriteWindow DEF ConsumerAvailable, pVars
  <2>2. cCount <= Filled(cWrite')
    BY <1>n, <1>c, <1>d, <2>1 DEF Filled
  <2> QED
    BY <1>n, <1>6, <2>2, ConsumerCallIndInv DEF ConsumerAvailable
<1>7. ASSUME NEW n \in 0..MaxSlice, PopSliceCall(n) PROVE IndInv'
  <2>0. wrapping_sub(cWrite', read) \in wrapping_sub(cWrite, read)..wrapping_sub(write, read)
    BY <1>7, LoadWriteWindow DEF PopSliceCall, pVars
  <2>1. Filled(cWrite') \in Nat
    BY <1>d, <2>0 DEF Filled
  <2>2. cCount' \in Nat /\ cCount' <= Filled(cWrite')
    BY <1>7, <2>1, RingAssumption DEF PopSliceCall, Least
  <2> QED
    BY <1>7, <2>2, ConsumerCallIndInv DEF PopSliceCall
<1>8. CASE PopCall
  <2>1. 1 <= Filled(cWrite')
    <3>1. cWrite' \in Index /\ cWrite' # read
      BY <1>8, LoadWriteWindow DEF PopCall, pVars
    <3>2. read \in Index
      BY DEF IndInv, TypeOK
    <3> QED
      BY <3>1, <3>2, WrapDistinct DEF Filled
  <2> QED
    BY <1>8, <2>1, ConsumerCallIndInv DEF PopCall
<1>9. CASE PopEmpty
  <2>1. wrapping_sub(cWrite', read) \in wrapping_sub(cWrite, read)..wrapping_sub(write, read)
    BY <1>9, LoadWriteWindow DEF PopEmpty, pVars
  <2>2. cCount <= Filled(cWrite')
    BY <1>n, <1>c, <1>d, <2>1 DEF Filled
  <2> QED
    BY <1>n, <1>9, <2>2, ConsumerCallIndInv DEF PopEmpty
<1>10. CASE PopCopy
  <2> DEFINE r == Slot(wrapping_add(read, Len(output)))
  <2>1. /\ Len(output) \in Nat /\ Len(output) < cCount
        /\ cCount <= wrapping_sub(cWrite, read)
    BY <1>0, <1>10 DEF IndInv, Progress, PopCopy
  <2>2. r \in Slots
    <3>1. read \in Index
      BY DEF IndInv, TypeOK
    <3>2. Len(output) \in 0..Capacity
      BY <1>n, <1>d, <2>1
    <3> QED
      BY <3>1, <3>2, SlotType
  <2>3. samples[r] \in Samples
    BY <2>2 DEF IndInv, TypeOK
  <2>4. output' = Append(output, samples[r])
    BY <1>10 DEF PopCopy
  <2>5. /\ output' \in Seq(Samples) /\ Len(output') = Len(output) + 1
        /\ output'[Len(output) + 1] = samples[r]
        /\ \A k \in 0..(Len(output) - 1) : output'[k + 1] = output[k + 1]
    BY <1>0, <2>3, <2>4
  <2>6. TypeOK'
    BY <1>10, <2>5 DEF IndInv, TypeOK, PopCopy, pVars
  <2>7. Window' /\ Progress'
    BY <1>0, <1>10, <2>1, <2>5 DEF IndInv, Window, Progress, PopCopy, pVars
  <2>8. ASSUME NEW k \in 0..(Len(output') - 1)
        PROVE  output'[k + 1] = samples[Slot(wrapping_add(read, k))]
    <3>1. CASE k = Len(output)
      BY <2>5, <3>1
    <3>2. CASE k \in 0..(Len(output) - 1)
      BY <1>10, <2>5, <3>2 DEF IndInv, Copies, PopCopy
    <3> QED
      BY <2>1, <2>5, <3>1, <3>2
  <2>9. Copies'
    BY <1>10, <2>8 DEF IndInv, Copies, PopCopy, pVars
  <2> QED
    BY <2>6, <2>7, <2>9 DEF IndInv
<1>11. CASE PopPublish
  <2>1. cCount <= wrapping_sub(cWrite, read)
    BY DEF IndInv, Progress
  <2>2. read' \in Index
    <3>1. read \in Index
      BY DEF IndInv, TypeOK
    <3>2. cCount \in 0..(IndexModulus - 1)
      BY <1>n, <1>d, <2>1
    <3> QED
      BY <1>11, <3>1, <3>2, WrapTypes DEF PopPublish
  <2>3. TypeOK'
    BY <1>11, <2>2 DEF IndInv, TypeOK, PopPublish, pVars
  <2>4. /\ wrapping_sub(read', pRead) = wrapping_sub(read, pRead) + cCount
        /\ wrapping_sub(cWrite, read') = wrapping_sub(cWrite, read) - cCount
    BY <1>n, <1>d, <1>11, <2>1
       DEF PopPublish, IndInv, TypeOK, Window, Index, wrapping_add, wrapping_sub
  <2>5. Window'
    <3>1. pRead' = pRead /\ write' = write /\ cWrite' = cWrite
      BY <1>11 DEF PopPublish, pVars
    <3>2. wrapping_sub(write, pRead) =
            wrapping_sub(read', pRead) + wrapping_sub(cWrite, read') + wrapping_sub(write, cWrite)
      BY <1>n, <1>d, <2>4
    <3> QED
      BY <1>d, <3>1, <3>2 DEF Window
  <2>6. Progress'
    <3>1. 0 <= wrapping_sub(cWrite, read')
      BY <1>n, <1>d, <2>1, <2>4
    <3>2. /\ pState' = pState /\ input' = input /\ pOffset' = pOffset /\ pCount' = pCount
          /\ pRead' = pRead /\ write' = write /\ cWrite' = cWrite
          /\ cState' = "idle" /\ cCount' = 0
      BY <1>11 DEF PopPublish, pVars
    <3> QED
      BY <3>1, <3>2 DEF IndInv, Progress
  <2>7. Copies'
    BY <1>11 DEF IndInv, Copies, PopPublish, pVars
  <2> QED
    BY <2>3, <2>5, <2>6, <2>7 DEF IndInv
<1>12. CASE UNCHANGED vars
  BY <1>12 DEF IndInv, TypeOK, Window, Progress, Copies, vars, pVars, cVars
<1> QED
  BY <1>1, <1>2, <1>3, <1>4, <1>5, <1>6, <1>7, <1>8, <1>9, <1>10, <1>11, <1>12
     DEF Next, Producer, Consumer

(* The invariant holds in every reachable state. *)
THEOREM Invariance == Spec => []IndInv
BY InitIndInv, NextIndInv, PTL DEF Spec

(* The variables stay in their types: in particular the indices never leave
   the usize range, whatever number of wraps. *)
THEOREM TypeCorrect == Spec => []TypeOK
<1>1. IndInv => TypeOK
  BY DEF IndInv
<1> QED
  BY <1>1, Invariance, PTL

(* No slot is accessed by both sides at once: the justification the two Safety
   comments of ring.rs give for the UnsafeCell accesses, for every capacity. *)
THEOREM RaceFreedom == Spec => []NoDataRace
<1>1. IndInv => NoDataRace
  <2> SUFFICES ASSUME IndInv PROVE NoDataRace
    OBVIOUS
  <2>1. ASSUME NEW k \in pOffset..(pCount - 1), NEW j \in 0..(wrapping_sub(write, read) - 1)
        PROVE  Slot(wrapping_add(write, k)) # Slot(wrapping_add(read, j))
    <3>1. /\ pOffset \in Nat /\ pCount \in Nat
          /\ pCount <= Capacity - wrapping_sub(write, pRead)
      BY DEF IndInv, TypeOK, Progress
    <3>2. k \in Nat /\ wrapping_sub(write, pRead) + k < Capacity
      BY <3>1, ModulusBound, Distances
    <3> QED
      BY <3>2, FreeSlotsUnread
  <2>2. ProducerSlots \cap UnreadSlots = {}
    BY <2>1 DEF ProducerSlots, UnreadSlots
  <2>3. ASSUME NEW k \in Len(output)..(cCount - 1)
        PROVE  k \in 0..(wrapping_sub(write, read) - 1)
    <3>1. Len(output) \in Nat /\ cCount \in Nat /\ cCount <= wrapping_sub(cWrite, read)
      BY DEF IndInv, TypeOK, Progress
    <3> QED
      BY <3>1, ModulusBound, Distances
  <2>4. ConsumerSlots \subseteq UnreadSlots
    BY <2>3 DEF ConsumerSlots, UnreadSlots
  <2> QED
    BY <2>2, <2>4 DEF NoDataRace
<1> QED
  BY <1>1, Invariance, PTL

(* Room the producer has seen is never withdrawn. *)
THEOREM PushRoomIsKept == Spec => PushHonoursAvailable
<1> DEFINE Kept == pState = "idle" /\ pState' = "copy"
                   => pCount' >= Least(Len(input'), Capacity - wrapping_sub(write, pRead))
<1>1. ASSUME IndInv, [Next]_vars, pState = "idle", pState' = "copy"
      PROVE  pCount' >= Least(Len(input'), Capacity - wrapping_sub(write, pRead))
  <2>1. CASE \E s \in Slices : PushSliceCall(s)
    <3>1. PICK s \in Slices : PushSliceCall(s)
      BY <2>1
    <3>2. s \in Seq(Samples) /\ Len(s) \in Nat
      BY SliceType
    <3>3. wrapping_sub(write, pRead') \in 0..wrapping_sub(write, pRead)
      <4>1. LoadRead /\ UNCHANGED <<read, write, cWrite>>
        BY <3>1 DEF PushSliceCall, cVars
      <4> QED BY <1>1, <4>1, LoadReadWindow
    <3>4. PICK a, b : a = wrapping_sub(write, pRead) /\ b = wrapping_sub(write, pRead')
      OBVIOUS
    <3>5. a \in 0..Capacity /\ b \in 0..a
      BY <1>1, <3>3, <3>4, Distances
    <3>6. pCount' = Least(Len(s), Capacity - b) /\ input' = s
      BY <3>1, <3>4 DEF PushSliceCall, Free
    <3>7. Least(Len(s), Capacity - b) >= Least(Len(s), Capacity - a)
      BY <3>2, <3>5, ModulusBound DEF Least
    <3> QED
      BY <3>4, <3>6, <3>7
  <2>2. CASE \E x \in Samples : PushCall(x)
    <3>1. PICK x \in Samples : PushCall(x)
      BY <2>2
    <3>2. pCount' = 1 /\ Len(input') = 1
      BY <3>1 DEF PushCall
    <3> QED
      BY <1>1, <3>2, Distances, ModulusBound DEF Least
  <2> QED
    BY <1>1, <2>1, <2>2
       DEF Next, Producer, Consumer, vars, pVars, ProducerAvailable, PushFull, PushCopy, PushPublish,
           ConsumerAvailable, PopSliceCall, PopCall, PopEmpty, PopCopy, PopPublish
<1>2. IndInv /\ [Next]_vars => [Kept]_vars
  BY <1>1
<1> QED
  BY <1>2, Invariance, PTL DEF Spec, PushHonoursAvailable

(* A sample the consumer has seen can be popped: pop_slice takes up to what was seen, and pop finds
   the ring empty only when nothing was. *)
THEOREM PopSamplesAreKept == Spec => PopHonoursAvailable
<1> DEFINE Kept == /\ \A n \in 1..MaxSlice : PopSliceCall(n) => cCount' >= Least(n, wrapping_sub(cWrite, read))
                   /\ PopEmpty => wrapping_sub(cWrite, read) = 0
<1>1. ASSUME IndInv, NEW n \in 1..MaxSlice, PopSliceCall(n)
      PROVE  cCount' >= Least(n, wrapping_sub(cWrite, read))
  <2>1. PICK seen : seen = wrapping_sub(cWrite', read)
    OBVIOUS
  <2>2. seen \in wrapping_sub(cWrite, read)..wrapping_sub(write, read) /\ cCount' = Least(n, seen)
    BY <1>1, <2>1, LoadWriteWindow DEF PopSliceCall, pVars, Filled
  <2>3. /\ wrapping_sub(cWrite, read) \in 0..Capacity /\ wrapping_sub(write, read) \in 0..Capacity
        /\ n \in Nat /\ Capacity \in Nat
    BY <1>1, Distances, ModulusBound
  <2> QED
    BY <2>2, <2>3 DEF Least
<1>2. ASSUME IndInv, PopEmpty
      PROVE  wrapping_sub(cWrite, read) = 0
  <2>1. wrapping_sub(cWrite', read) \in wrapping_sub(cWrite, read)..wrapping_sub(write, read)
    BY <1>2, LoadWriteWindow DEF PopEmpty, pVars
  <2>2. wrapping_sub(cWrite', read) = 0
    BY <1>2, ModulusBound DEF PopEmpty, IndInv, TypeOK, Index, wrapping_sub
  <2> QED
    BY <1>2, <2>1, <2>2, Distances, ModulusBound
<1>3. IndInv /\ [Next]_vars => [Kept]_vars
  BY <1>1, <1>2
<1> QED
  BY <1>3, Invariance, PTL DEF Spec, PopHonoursAvailable

-----------------------------------------------------------------------------
(* Refinement *)

(* A sequence that agrees with s and then with t is their concatenation. *)
LEMMA ConcatEqual ==
  ASSUME NEW S, NEW s \in Seq(S), NEW t \in Seq(S), NEW u \in Seq(S),
         Len(u) = Len(s) + Len(t),
         \A i \in 1..Len(s) : u[i] = s[i],
         \A i \in 1..Len(t) : u[Len(s) + i] = t[i]
  PROVE  u = s \o t
<1>1. /\ s \o t \in Seq(S)
      /\ Len(s \o t) = Len(s) + Len(t)
      /\ \A i \in 1..(Len(s) + Len(t)) : (s \o t)[i] = IF i <= Len(s) THEN s[i] ELSE t[i - Len(s)]
  BY ConcatProperties
<1>2. ASSUME NEW i \in 1..Len(u) PROVE u[i] = (s \o t)[i]
  <2>1. CASE i <= Len(s)
    BY <1>1, <2>1
  <2>2. CASE i > Len(s)
    <3>1. i - Len(s) \in 1..Len(t) /\ Len(s) + (i - Len(s)) = i
      BY <2>2
    <3> QED
      BY <1>1, <2>2, <3>1
  <2> QED
    BY <2>1, <2>2
<1> QED
  BY <1>1, <1>2, SeqEqual

\* The contents are a sequence, element by element the unread slots.
ContentsFacts ==
  /\ Contents \in Seq(Samples)
  /\ Len(Contents) = wrapping_sub(write, read)
  /\ Len(Contents) \in 0..Capacity
  /\ \A i \in 1..Len(Contents) : Contents[i] = samples[Slot(wrapping_add(read, i - 1))]

(* What the ring's unread slots hold, as a sequence. *)
LEMMA ContentsSeq == IndInv => ContentsFacts
<1> SUFFICES ASSUME IndInv PROVE ContentsFacts
  OBVIOUS
<1> DEFINE d == wrapping_sub(write, read)
           elem(i) == samples[Slot(wrapping_add(read, i - 1))]
<1>1. Capacity \in Nat /\ d \in 0..Capacity /\ d \in Nat
  BY ModulusBound, Distances
<1>2. \A i \in 1..d : elem(i) \in Samples
  <2> SUFFICES ASSUME NEW i \in 1..d PROVE elem(i) \in Samples
    OBVIOUS
  <2>1. i - 1 \in 0..Capacity /\ read \in Index
    BY <1>1 DEF IndInv, TypeOK
  <2>2. Slot(wrapping_add(read, i - 1)) \in Slots
    BY <2>1, SlotType
  <2> QED
    BY <2>2 DEF IndInv, TypeOK
<1>3. Contents = [i \in 1..d |-> elem(i)]
  BY DEF Contents
<1> HIDE DEF d, elem
<1>4. Contents \in [1..d -> Samples]
  BY <1>2, <1>3
<1>5. Contents \in Seq(Samples) /\ Len(Contents) = d
  BY <1>1, <1>4
<1>6. \A i \in 1..d : Contents[i] = elem(i)
  BY <1>3
<1> QED
  BY <1>1, <1>5, <1>6 DEF d, elem, ContentsFacts

(* The contents depend on the unread slots only. *)
LEMMA ContentsUnchanged ==
  ASSUME IndInv, UNCHANGED <<read, write>>,
         \A k \in 0..(wrapping_sub(write, read) - 1) :
           samples'[Slot(wrapping_add(read, k))] = samples[Slot(wrapping_add(read, k))]
  PROVE  Contents' = Contents
<1>1. wrapping_sub(write, read) \in Nat
  BY Distances, ModulusBound
<1>2. \A i \in 1..wrapping_sub(write, read) :
        samples'[Slot(wrapping_add(read, i - 1))] = samples[Slot(wrapping_add(read, i - 1))]
  BY <1>1
<1> QED
  BY <1>2 DEF Contents

(* The release store of write appends what the call copied. *)
LEMMA PublishAppends ==
  ASSUME IndInv, IndInv', PushPublish
  PROVE  Contents' = Contents \o SubSeq(input, 1, pCount)
<1> DEFINE d == wrapping_sub(write, read)
<1>1. /\ Capacity \in Nat /\ d \in 0..Capacity
      /\ IndexModulus \in Nat /\ IndexModulus >= 2 * Capacity
      /\ pCount \in Nat /\ input \in Seq(Samples) /\ pCount <= Len(input)
      /\ pOffset = pCount /\ read' = read /\ samples' = samples
      /\ read \in Index /\ write \in Index
  BY ModulusBound, Distances DEF IndInv, TypeOK, Progress, PushPublish
<1>2. d + pCount <= Capacity
  <2>1. pCount <= Capacity - wrapping_sub(write, pRead)
    BY DEF IndInv, Progress
  <2>2. PICK a \in 0..Capacity, b \in 0..Capacity :
          a = wrapping_sub(write, pRead) /\ b = wrapping_sub(read, pRead) /\ a = b + d
    BY Distances
  <2> HIDE DEF d
  <2> QED
    BY <1>1, <2>1, <2>2
<1>3. wrapping_sub(write', read') = d + pCount
  BY <1>1, <1>2 DEF PushPublish, Index, wrapping_add, wrapping_sub
<1>4. write = wrapping_add(read, d)
  BY <1>1, WrapInverse
<1> HIDE DEF d
<1> DEFINE tail == SubSeq(input, 1, pCount)
<1>5. /\ tail \in Seq(Samples) /\ Len(tail) = pCount
      /\ \A i \in 1..pCount : tail[i] = input[i]
  BY <1>1
<1>6. /\ Contents \in Seq(Samples) /\ Len(Contents) = d
      /\ \A i \in 1..d : Contents[i] = samples[Slot(wrapping_add(read, i - 1))]
  BY ContentsSeq DEF d, ContentsFacts
<1>7. /\ Contents' \in Seq(Samples) /\ Len(Contents') = d + pCount
      /\ \A i \in 1..(d + pCount) : Contents'[i] = samples[Slot(wrapping_add(read, i - 1))]
  <2>1. /\ Contents' \in Seq(Samples) /\ Len(Contents') = wrapping_sub(write', read')
        /\ \A i \in 1..Len(Contents') : Contents'[i] = samples'[Slot(wrapping_add(read', i - 1))]
    <3>1. IndInv' => ContentsFacts'
      BY ContentsSeq, PTL
    <3> QED
      BY <3>1 DEF ContentsFacts
  <2> QED
    BY <1>1, <1>3, <2>1
<1>8. ASSUME NEW i \in 1..(d + pCount), i > d
      PROVE  Contents'[i] = tail[i - d]
  <2>1. i - d - 1 \in 0..(pOffset - 1) /\ i - d \in 1..pCount /\ d \in Nat
    BY <1>1, <1>8
  <2>2. samples[Slot(wrapping_add(write, i - d - 1))] = input[i - d]
    BY <1>1, <2>1 DEF IndInv, Copies
  <2>3. wrapping_add(write, i - d - 1) = wrapping_add(read, i - 1)
    <3>1. d + (i - d - 1) = i - 1 /\ d + (i - d - 1) < IndexModulus /\ i - d - 1 \in Nat
      BY <1>1, <1>2, <2>1
    <3> QED
      BY <1>1, <1>4, <2>1, <3>1, WrapInverse
  <2> QED
    BY <1>5, <1>7, <2>1, <2>2, <2>3
<1> HIDE DEF tail
<1>9. \A i \in 1..d : Contents'[i] = Contents[i]
  <2>1. \A i \in 1..d : i \in 1..(d + pCount)
    BY <1>1
  <2> QED
    BY <1>6, <1>7, <2>1
<1>10. \A i \in 1..pCount : Contents'[d + i] = tail[i]
  <2> SUFFICES ASSUME NEW i \in 1..pCount PROVE Contents'[d + i] = tail[i]
    OBVIOUS
  <2>1. d + i \in 1..(d + pCount) /\ d + i > d /\ (d + i) - d = i
    BY <1>1
  <2> QED
    BY <1>8, <2>1
<1>11. Contents' = Contents \o tail
  BY <1>5, <1>6, <1>7, <1>9, <1>10, ConcatEqual
<1> QED
  BY <1>11 DEF tail

(* The release store of read removes exactly what the call copied out. *)
LEMMA PublishTakes ==
  ASSUME IndInv, IndInv', PopPublish
  PROVE  /\ output = SubSeq(Contents, 1, cCount)
         /\ Contents' = SubSeq(Contents, cCount + 1, Len(Contents))
         /\ cCount \in 0..Len(Contents)
<1> DEFINE d == wrapping_sub(write, read)
<1>1. /\ Capacity \in Nat /\ d \in 0..Capacity /\ d \in Nat
      /\ IndexModulus \in Nat /\ IndexModulus >= 2 * Capacity
      /\ cCount \in Nat /\ output \in Seq(Samples) /\ Len(output) = cCount
      /\ write' = write /\ samples' = samples /\ read' = wrapping_add(read, cCount)
      /\ read \in Index /\ write \in Index
  BY ModulusBound, Distances DEF IndInv, TypeOK, PopPublish
<1>2. cCount <= d
  <2>1. cCount <= wrapping_sub(cWrite, read)
    BY DEF IndInv, Progress
  <2> QED
    BY <1>1, <2>1, Distances
<1>3. wrapping_sub(write', read') = d - cCount
  BY <1>1, <1>2 DEF Index, wrapping_add, wrapping_sub
<1> HIDE DEF d
<1>4. /\ Contents \in Seq(Samples) /\ Len(Contents) = d
      /\ \A i \in 1..d : Contents[i] = samples[Slot(wrapping_add(read, i - 1))]
  BY ContentsSeq DEF d, ContentsFacts
<1>5. /\ Contents' \in Seq(Samples) /\ Len(Contents') = d - cCount
      /\ \A i \in 1..(d - cCount) : Contents'[i] = samples[Slot(wrapping_add(read', i - 1))]
  <2>1. /\ Contents' \in Seq(Samples) /\ Len(Contents') = wrapping_sub(write', read')
        /\ \A i \in 1..Len(Contents') : Contents'[i] = samples'[Slot(wrapping_add(read', i - 1))]
    <3>1. IndInv' => ContentsFacts'
      BY ContentsSeq, PTL
    <3> QED
      BY <3>1 DEF ContentsFacts
  <2> QED
    BY <1>1, <1>3, <2>1
<1>6. output = SubSeq(Contents, 1, cCount)
  <2>1. \A i \in 1..cCount : output[i] = Contents[i]
    <3> SUFFICES ASSUME NEW i \in 1..cCount PROVE output[i] = Contents[i]
      OBVIOUS
    <3>1. i - 1 \in 0..(Len(output) - 1) /\ i \in 1..d /\ (i - 1) + 1 = i
      BY <1>1, <1>2
    <3>2. output[i] = samples[Slot(wrapping_add(read, i - 1))]
      BY <3>1 DEF IndInv, Copies, PopPublish
    <3> QED
      BY <1>4, <3>1, <3>2
  <2> DEFINE head == SubSeq(Contents, 1, cCount)
  <2>2. /\ head \in Seq(Samples) /\ Len(head) = cCount
        /\ \A i \in 1..cCount : head[i] = Contents[i]
    BY <1>1, <1>2, <1>4
  <2> HIDE DEF head
  <2>3. output = head
    BY <1>1, <2>1, <2>2
  <2> QED
    BY <2>3 DEF head
<1>7. Contents' = SubSeq(Contents, cCount + 1, Len(Contents))
  <2> DEFINE rest == SubSeq(Contents, cCount + 1, Len(Contents))
  <2>1. /\ rest \in Seq(Samples) /\ Len(rest) = d - cCount
        /\ \A i \in 1..(d - cCount) : rest[i] = Contents[cCount + i]
    BY <1>1, <1>2, <1>4
  <2>2. \A i \in 1..(d - cCount) : Contents'[i] = Contents[cCount + i]
    <3> SUFFICES ASSUME NEW i \in 1..(d - cCount) PROVE Contents'[i] = Contents[cCount + i]
      OBVIOUS
    <3>1. /\ cCount + i \in 1..d /\ i - 1 \in Nat /\ cCount + (i - 1) < IndexModulus
          /\ cCount + (i - 1) = (cCount + i) - 1
      BY <1>1, <1>2
    <3>2. wrapping_add(read', i - 1) = wrapping_add(read, (cCount + i) - 1)
      BY <1>1, <3>1, WrapInverse
    <3> QED
      BY <1>4, <1>5, <3>1, <3>2
  <2> HIDE DEF rest
  <2>3. Contents' = rest
    BY <1>5, <2>1, <2>2
  <2> QED
    BY <2>3 DEF rest
<1>8. cCount \in 0..Len(Contents)
  BY <1>1, <1>2, <1>4
<1> QED
  BY <1>6, <1>7, <1>8

(* The ring implements the bounded FIFO, for every capacity, index width and
   slice length, and however stale the loaded indices are. *)
THEOREM Refinement == Spec => ImplementsFifo
<1>1. Init => Fifo!FifoInit
  <2> SUFFICES ASSUME Init PROVE Fifo!FifoInit
    OBVIOUS
  <2>1. Contents = <<>>
    <3>1. wrapping_sub(write, read) = 0
      BY DEF Init, wrapping_sub
    <3>2. Len(Contents) = 0 /\ Contents \in Seq(Samples)
      BY <3>1, InitIndInv, ContentsSeq DEF ContentsFacts
    <3> QED
      BY <3>2
  <2> QED
    BY <2>1 DEF Init, Fifo!FifoInit
<1>2. ASSUME IndInv, IndInv', [Next]_vars
      PROVE  [Fifo!FifoNext]_Fifo!fifoVars
  <2> DEFINE taken == IF cState = "idle" THEN output ELSE <<>>
  <2>0. /\ pState = "idle" => input = <<>>
        /\ input' \in Seq(Samples) /\ input \in Seq(Samples)
    BY <1>2 DEF IndInv, TypeOK, Progress
  <2>1. CASE ProducerAvailable \/ PushFull \/ (\E s \in Slices : PushSliceCall(s)) \/ (\E x \in Samples : PushCall(x))
    <3>1. pState = "idle" /\ UNCHANGED <<samples, read, write, cVars>>
      BY <2>1 DEF ProducerAvailable, PushFull, PushSliceCall, PushCall
    <3>2. Contents' = Contents /\ taken' = taken
      BY <1>2, <3>1, ContentsUnchanged DEF cVars
    <3> QED
      BY <2>0, <3>1, <3>2 DEF Fifo!FifoNext, Fifo!Offer
  <2>2. CASE PushCopy
    <3>1. /\ UNCHANGED <<read, write, input, cVars>>
          /\ samples' = [samples EXCEPT ![Slot(wrapping_add(write, pOffset))] = input[pOffset + 1]]
      BY <2>2 DEF PushCopy
    <3>2. pOffset \in Nat /\ wrapping_sub(write, pRead) + pOffset < Capacity
      <4>1. /\ pOffset \in Nat /\ pCount \in Nat /\ pOffset < pCount
            /\ pCount <= Capacity - wrapping_sub(write, pRead)
        BY <1>2, <2>2 DEF IndInv, TypeOK, Progress, PushCopy
      <4> QED
        BY <1>2, <4>1, Distances, ModulusBound
    <3>3. ASSUME NEW k \in 0..(wrapping_sub(write, read) - 1)
          PROVE  samples'[Slot(wrapping_add(read, k))] = samples[Slot(wrapping_add(read, k))]
      <4>1. Slot(wrapping_add(write, pOffset)) # Slot(wrapping_add(read, k))
        BY <1>2, <3>2, FreeSlotsUnread
      <4>2. read \in Index
        BY <1>2 DEF IndInv, TypeOK
      <4>3. k \in 0..Capacity
        BY <1>2, Distances, ModulusBound
      <4>4. Slot(wrapping_add(read, k)) \in Slots
        BY <4>2, <4>3, SlotType
      <4> QED
        BY <1>2, <3>1, <4>1, <4>4 DEF IndInv, TypeOK
    <3>4. Contents' = Contents /\ taken' = taken
      BY <1>2, <3>1, <3>3, ContentsUnchanged DEF cVars
    <3> QED
      BY <3>1, <3>4 DEF Fifo!fifoVars
  <2>3. CASE PushPublish
    <3>1. Contents' = Contents \o SubSeq(input, 1, pCount)
      BY <1>2, <2>3, PublishAppends
    <3>2. input' = <<>> /\ taken' = taken
      BY <2>3 DEF PushPublish, cVars
    <3>3. pCount \in 0..Len(input)
      BY <1>2 DEF IndInv, TypeOK, Progress
    <3>4. pCount <= Capacity - Len(Contents)
      <4>1. pCount \in Nat /\ pCount <= Capacity - wrapping_sub(write, pRead)
        BY <1>2 DEF IndInv, TypeOK, Progress
      <4>2. Len(Contents) = wrapping_sub(write, read)
        BY <1>2, ContentsSeq DEF ContentsFacts
      <4> QED
        <5>1. /\ wrapping_sub(write, pRead) = wrapping_sub(read, pRead) + wrapping_sub(write, read)
              /\ wrapping_sub(read, pRead) \in Nat /\ wrapping_sub(write, read) \in Nat
          BY <1>2, Distances, ModulusBound
        <5> QED
          BY <4>1, <4>2, <5>1, ModulusBound
    <3> QED
      BY <3>1, <3>2, <3>3, <3>4 DEF Fifo!FifoNext, Fifo!Accept
  <2>4. CASE ConsumerAvailable
    <3>1. UNCHANGED <<samples, read, write, input, cState, output>>
      BY <2>4 DEF ConsumerAvailable, pVars
    <3>2. Contents' = Contents
      BY <1>2, <3>1, ContentsUnchanged
    <3> QED
      BY <3>1, <3>2 DEF Fifo!fifoVars
  <2>5. CASE (\E n \in 0..MaxSlice : PopSliceCall(n)) \/ PopCall \/ PopEmpty
    <3>1. UNCHANGED <<samples, read, write, input>> /\ output' = <<>>
      BY <2>5 DEF PopSliceCall, PopCall, PopEmpty, pVars
    <3>2. Contents' = Contents
      BY <1>2, <3>1, ContentsUnchanged
    <3> QED
      BY <3>1, <3>2 DEF Fifo!FifoNext, Fifo!Ask
  <2>6. CASE PopCopy
    <3>1. UNCHANGED <<samples, read, write, input, cState>> /\ cState = "copy"
      BY <2>6 DEF PopCopy, pVars
    <3>2. Contents' = Contents
      BY <1>2, <3>1, ContentsUnchanged
    <3> QED
      BY <3>1, <3>2 DEF Fifo!fifoVars
  <2>7. CASE PopPublish
    <3>1. /\ output = SubSeq(Contents, 1, cCount)
          /\ Contents' = SubSeq(Contents, cCount + 1, Len(Contents))
          /\ cCount \in 0..Len(Contents)
      BY <1>2, <2>7, PublishTakes
    <3>2. cState = "copy" /\ cState' = "idle" /\ output' = output /\ input' = input
      BY <2>7 DEF PopPublish, pVars
    <3> QED
      BY <3>1, <3>2 DEF Fifo!FifoNext, Fifo!Take
  <2>8. CASE UNCHANGED vars
    BY <2>8 DEF vars, pVars, cVars, Fifo!fifoVars, Contents
  <2> QED
    BY <1>2, <2>1, <2>2, <2>3, <2>4, <2>5, <2>6, <2>7, <2>8 DEF Next, Producer, Consumer
<1> QED
  BY <1>1, <1>2, Invariance, PTL DEF Spec, ImplementsFifo, Fifo!FifoSpec
=============================================================================
