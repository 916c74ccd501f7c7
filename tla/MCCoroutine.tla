--------------------------- MODULE MCCoroutine ---------------------------
(***************************************************************************)
(* Coroutine for TLC: interchangeable threads.                             *)
(***************************************************************************)
EXTENDS Coroutine, TLC

Interchangeable == Permutations(Threads)
==========================================================================
