---------------------------- MODULE MCRefList ----------------------------
(***************************************************************************)
(* RefList for TLC: interchangeable objects.                               *)
(***************************************************************************)
EXTENDS RefList, TLC

Interchangeable == Permutations(Objects)
==========================================================================
