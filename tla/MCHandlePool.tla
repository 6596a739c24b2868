---------------------------- MODULE MCHandlePool ----------------------------
(***************************************************************************)
(* Finite instances of HandlePool: two slots for TCP, and one serial slot  *)
(* that shares its mutex with the first of them.                           *)
(***************************************************************************)
EXTENDS HandlePool, TLC

Slots == [k \in Kinds |-> IF k = "tcp" THEN 2 ELSE 1]

Symmetry == Permutations(Threads) \cup Permutations(Instances)
=============================================================================
