------------------------------ MODULE MCEngine ------------------------------
(***************************************************************************)
(* Engine for TLC: both engines; every operand class is small as it is.    *)
(***************************************************************************)
EXTENDS Engine

Both == {"interp", "jit"}
=============================================================================
