---------------------------- MODULE MCWasmClient ----------------------------
(***************************************************************************)
(* Finite instances of WasmClient.                                         *)
(***************************************************************************)
EXTENDS WasmClient, TLC

Symmetry == Permutations(Calls)
=============================================================================
