------------------------------ MODULE SpscRing ------------------------------
(***************************************************************************)
(* The single-producer single-consumer ring buffer of vcable-core          *)
(* (crates/vcable-core/src/ring.rs), at the granularity at which its two   *)
(* threads can interleave: a call's acquire load of the other side's       *)
(* index, each slot access, and the release store that ends the call.      *)
(*                                                                         *)
(* An acquire load may return any value the other side has stored since    *)
(* the last one this side saw (coherence orders the values of one atomic,  *)
(* nothing makes the newest one visible at once), so each side keeps its   *)
(* view of the other's index and a load moves the view part of the way.    *)
(* The indices are usize counters that wrap at IndexModulus.               *)
(***************************************************************************)
EXTENDS Integers, Sequences

CONSTANTS Samples,       \* the sample values
          Silence,       \* the value a fresh slot holds (0.0)
          Capacity,      \* number of slots
          IndexModulus,  \* number of values of a usize
          MaxSlice       \* bound: the longest slice a caller passes

\* spsc_ring_buffer accepts only powers of two; usize counts a multiple of
\* every such capacity, and a slice of that many samples is at most half of
\* the address space.
ASSUME RingAssumption ==
  /\ Silence \in Samples
  /\ Capacity \in Nat /\ Capacity >= 2
  /\ \E k \in 1..Capacity : Capacity = 2^k
  /\ IndexModulus \in Nat
  /\ \E k \in 2..IndexModulus : IndexModulus = k * Capacity
  /\ MaxSlice \in Nat

VARIABLES samples,  \* the slots
          read,     \* index of the oldest unread sample
          write,    \* index of the next sample to be written
          pState,   \* the producer is between calls or copying
          input,    \* the slice of the producer's call
          pRead,    \* the producer's view of read
          pCount,   \* samples this call will write
          pOffset,  \* samples it has written
          cState,   \* the consumer is between calls or copying
          output,   \* what the consumer's call has copied out so far
          cWrite,   \* the consumer's view of write
          cCount    \* samples this call will read

pVars == <<pState, input, pRead, pCount, pOffset>>
cVars == <<cState, output, cWrite, cCount>>
vars == <<samples, read, write, pVars, cVars>>

Index == 0..(IndexModulus - 1)
Slots == 0..(Capacity - 1)
Slices == UNION {[1..n -> Samples] : n \in 0..MaxSlice}

wrapping_add(a, b) == IF a + b < IndexModulus THEN a + b ELSE a + b - IndexModulus
wrapping_sub(a, b) == IF a >= b THEN a - b ELSE a - b + IndexModulus

\* index & mask, for a power-of-two capacity
Slot(i) == i % Capacity

Least(a, b) == IF a < b THEN a ELSE b

Init ==
  /\ samples = [i \in Slots |-> Silence]
  /\ read = 0
  /\ write = 0
  /\ pState = "idle" /\ input = <<>> /\ pRead = 0 /\ pCount = 0 /\ pOffset = 0
  /\ cState = "idle" /\ output = <<>> /\ cWrite = 0 /\ cCount = 0

-----------------------------------------------------------------------------
(* Producer *)

\* An acquire load of read: pRead moves towards read, possibly not all the way.
LoadRead ==
  \E k \in 0..wrapping_sub(read, pRead) : pRead' = wrapping_add(pRead, k)

\* Fault: one slot too many, or one too few, counts as free.
FreeOneMore(r) == Capacity + 1 - wrapping_sub(write, r)
FreeOneLess(r) == Capacity - 1 - wrapping_sub(write, r)

\* Free slots as seen by the producer after loading r.
Free(r) == Capacity - wrapping_sub(write, r)

\* Producer::available: only the load has an effect.
ProducerAvailable ==
  /\ pState = "idle"
  /\ LoadRead
  /\ UNCHANGED <<samples, read, write, pState, input, pCount, pOffset, cVars>>

\* push_slice up to the copy loop.
PushSliceCall(s) ==
  /\ pState = "idle"
  /\ LoadRead
  /\ pCount' = Least(Len(s), Free(pRead'))
  /\ input' = s
  /\ pOffset' = 0
  /\ pState' = "copy"
  /\ UNCHANGED <<samples, read, write, cVars>>

\* push, when there is room.
PushCall(x) ==
  /\ pState = "idle"
  /\ LoadRead
  /\ wrapping_sub(write, pRead') # Capacity
  /\ input' = <<x>>
  /\ pCount' = 1
  /\ pOffset' = 0
  /\ pState' = "copy"
  /\ UNCHANGED <<samples, read, write, cVars>>

\* push on a full ring returns false.
PushFull ==
  /\ pState = "idle"
  /\ LoadRead
  /\ wrapping_sub(write, pRead') = Capacity
  /\ UNCHANGED <<samples, read, write, pState, input, pCount, pOffset, cVars>>

\* One iteration of the copy loop: one slot is written.
PushCopy ==
  /\ pState = "copy" /\ pOffset < pCount
  /\ samples' = [samples EXCEPT ![Slot(wrapping_add(write, pOffset))] = input[pOffset + 1]]
  /\ pOffset' = pOffset + 1
  /\ UNCHANGED <<read, write, pState, input, pRead, pCount, cVars>>

\* Fault: write is published before the last slot is written.
PushPublishEarly ==
  /\ pState = "copy" /\ pOffset + 1 >= pCount
  /\ write' = wrapping_add(write, pCount)
  /\ pState' = "idle" /\ input' = <<>> /\ pCount' = 0 /\ pOffset' = 0
  /\ UNCHANGED <<samples, read, pRead, cVars>>

\* The release store of write, and the return.
PushPublish ==
  /\ pState = "copy" /\ pOffset = pCount
  /\ write' = wrapping_add(write, pCount)
  /\ pState' = "idle" /\ input' = <<>> /\ pCount' = 0 /\ pOffset' = 0
  /\ UNCHANGED <<samples, read, pRead, cVars>>

-----------------------------------------------------------------------------
(* Consumer *)

\* An acquire load of write.
LoadWrite ==
  \E k \in 0..wrapping_sub(write, cWrite) : cWrite' = wrapping_add(cWrite, k)

\* Fault: the newest published sample is held back.
FilledOneLess(w) == IF w = read THEN 0 ELSE wrapping_sub(w, read) - 1

\* Unread samples as seen by the consumer after loading w.
Filled(w) == wrapping_sub(w, read)

ConsumerAvailable ==
  /\ cState = "idle"
  /\ LoadWrite
  /\ UNCHANGED <<samples, read, write, pVars, cState, output, cCount>>

\* pop_slice into an output slice of length n, up to the copy loop.
PopSliceCall(n) ==
  /\ cState = "idle"
  /\ LoadWrite
  /\ cCount' = Least(n, Filled(cWrite'))
  /\ output' = <<>>
  /\ cState' = "copy"
  /\ UNCHANGED <<samples, read, write, pVars>>

\* pop, when there is a sample.
PopCall ==
  /\ cState = "idle"
  /\ LoadWrite
  /\ cWrite' # read
  /\ cCount' = 1
  /\ output' = <<>>
  /\ cState' = "copy"
  /\ UNCHANGED <<samples, read, write, pVars>>

\* pop on an empty ring returns None.
PopEmpty ==
  /\ cState = "idle"
  /\ LoadWrite
  /\ cWrite' = read
  /\ output' = <<>>
  /\ UNCHANGED <<samples, read, write, pVars, cState, cCount>>

PopCopy ==
  /\ cState = "copy" /\ Len(output) < cCount
  /\ output' = Append(output, samples[Slot(wrapping_add(read, Len(output)))])
  /\ UNCHANGED <<samples, read, write, pVars, cState, cWrite, cCount>>

PopPublish ==
  /\ cState = "copy" /\ Len(output) = cCount
  /\ read' = wrapping_add(read, cCount)
  /\ cState' = "idle" /\ cCount' = 0
  /\ UNCHANGED <<samples, write, pVars, output, cWrite>>

-----------------------------------------------------------------------------
Producer ==
  \/ ProducerAvailable
  \/ \E s \in Slices : PushSliceCall(s)
  \/ \E x \in Samples : PushCall(x)
  \/ PushFull
  \/ PushCopy
  \/ PushPublish

Consumer ==
  \/ ConsumerAvailable
  \/ \E n \in 0..MaxSlice : PopSliceCall(n)
  \/ PopCall
  \/ PopEmpty
  \/ PopCopy
  \/ PopPublish

Next == Producer \/ Consumer

Spec == Init /\ [][Next]_vars

-----------------------------------------------------------------------------
(* Properties *)

\* Type correctness: both indices and both views of them stay within a usize.
TypeOK ==
  /\ samples \in [Slots -> Samples]
  /\ read \in Index /\ write \in Index
  /\ pState \in {"idle", "copy"}
  /\ input \in Seq(Samples)
  /\ pRead \in Index /\ pCount \in Nat /\ pOffset \in Nat
  /\ cState \in {"idle", "copy"}
  /\ output \in Seq(Samples)
  /\ cWrite \in Index /\ cCount \in Nat

\* The slots a producer call still has to write, and those a consumer call
\* still has to read.
ProducerSlots == {Slot(wrapping_add(write, k)) : k \in pOffset..(pCount - 1)}
ConsumerSlots == {Slot(wrapping_add(read, k)) : k \in Len(output)..(cCount - 1)}

\* Published samples the consumer has not released.
UnreadSlots == {Slot(wrapping_add(read, k)) : k \in 0..(wrapping_sub(write, read) - 1)}

(* The two safety comments of ring.rs ("the consumer cannot access a sample
   until the release-store below publishes the new index", "acquire-loading
   the write index ensures the producer completed the corresponding sample
   write"): whatever each side's view of the other, a slot that a push is
   about to write is not one that holds an unread sample, and a pop in
   progress reads only slots that hold unread samples.  The two calls
   therefore never touch the same UnsafeCell. *)
NoDataRace ==
  /\ ProducerSlots \cap UnreadSlots = {}
  /\ cState = "copy" => ConsumerSlots \subseteq UnreadSlots

(* A producer that has learned, from available or from an earlier call, that
   n slots are free can push n samples: no later call of its own accepts fewer
   (the capture callback checks available once per frame and then pushes the
   frame unconditionally). *)
PushHonoursAvailable ==
  [][ pState = "idle" /\ pState' = "copy"
      => pCount' >= Least(Len(input'), Capacity - wrapping_sub(write, pRead)) ]_vars

(* The same for the consumer: once the resampler has seen n samples, popping
   up to n of them succeeds.  Each is stated over the views before the call. *)
PopHonoursAvailable ==
  [][ /\ \A n \in 1..MaxSlice : PopSliceCall(n) => cCount' >= Least(n, wrapping_sub(cWrite, read))
      /\ PopEmpty => wrapping_sub(cWrite, read) = 0 ]_vars

(* The inductive invariant: the views, the indices and the progress of the
   calls lie in one window of at most Capacity positions, in the order
   pRead, read, cWrite, write, and the calls' copies agree with the slots. *)
Window ==
  /\ wrapping_sub(write, pRead) <= Capacity
  /\ wrapping_sub(write, pRead) =
       wrapping_sub(read, pRead) + wrapping_sub(cWrite, read) + wrapping_sub(write, cWrite)

Progress ==
  /\ pState = "idle" => input = <<>>
  /\ pOffset <= pCount
  /\ pCount <= Len(input)
  /\ pCount <= Capacity - wrapping_sub(write, pRead)
  /\ cState = "copy" => Len(output) <= cCount
  /\ cCount <= wrapping_sub(cWrite, read)

Copies ==
  /\ \A k \in 0..(pOffset - 1) : samples[Slot(wrapping_add(write, k))] = input[k + 1]
  /\ cState = "copy" =>
       \A k \in 0..(Len(output) - 1) : output[k + 1] = samples[Slot(wrapping_add(read, k))]

IndInv == TypeOK /\ Window /\ Progress /\ Copies

-----------------------------------------------------------------------------
(* Refinement *)

Contents == [i \in 1..wrapping_sub(write, read) |-> samples[Slot(wrapping_add(read, i - 1))]]

Fifo == INSTANCE BoundedFifo WITH
  offered <- input,
  queue <- Contents,
  taken <- IF cState = "idle" THEN output ELSE <<>>

(* The ring is a bounded FIFO: every push takes effect at its release store of
   write, appending a prefix of the caller's slice, and every pop at its
   release store of read, returning exactly the oldest samples in order. No
   sample is lost, duplicated, reordered or torn by an overlapping call. *)
ImplementsFifo == Fifo!FifoSpec
=============================================================================
