---------------------------- MODULE BoundedFifo ----------------------------
(***************************************************************************)
(* What the SPSC ring buffer of vcable-core promises its two owners: a     *)
(* bounded first-in first-out queue.  The producer offers a slice and a    *)
(* prefix of it is appended in one step; the consumer asks for samples and *)
(* a prefix of the queue is removed and handed over in one step.           *)
(***************************************************************************)
EXTENDS Integers, Sequences

CONSTANTS Samples,  \* the values a slot can hold
          Capacity  \* number of slots

VARIABLES offered,  \* the slice the producer's call is about, <<>> between calls
          queue,    \* the samples the consumer can get, oldest first
          taken     \* the samples the last completed pop returned

fifoVars == <<offered, queue, taken>>

FifoInit ==
  /\ offered = <<>>
  /\ queue = <<>>
  /\ taken = <<>>

\* A producer call starts.
Offer ==
  /\ offered = <<>>
  /\ offered' \in Seq(Samples)
  /\ UNCHANGED <<queue, taken>>

\* The call takes effect: the first n samples of the slice are appended.
Accept(n) ==
  /\ n <= Capacity - Len(queue)
  /\ queue' = queue \o SubSeq(offered, 1, n)
  /\ offered' = <<>>
  /\ UNCHANGED taken

\* A consumer call starts; what the previous one returned is forgotten.
Ask ==
  /\ taken' = <<>>
  /\ UNCHANGED <<offered, queue>>

\* The call takes effect: the n oldest samples are removed and returned.
Take(n) ==
  /\ taken = <<>>
  /\ taken' = SubSeq(queue, 1, n)
  /\ queue' = SubSeq(queue, n + 1, Len(queue))
  /\ UNCHANGED offered

FifoNext ==
  \/ Offer
  \/ \E n \in 0..Len(offered) : Accept(n)
  \/ Ask
  \/ \E n \in 0..Len(queue) : Take(n)

FifoSpec == FifoInit /\ [][FifoNext]_fifoVars
=============================================================================
