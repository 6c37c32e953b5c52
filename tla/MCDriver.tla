------------------------------ MODULE MCDriver ------------------------------
(***************************************************************************)
(* Driver with symmetric host threads and device ids.                      *)
(***************************************************************************)
EXTENDS Driver, TLC

Symmetry == Permutations(Threads) \cup Permutations(Ids)
=============================================================================
