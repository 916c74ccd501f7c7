------------------------------ MODULE MCGc ------------------------------
(***************************************************************************)
(* Instances of Gc for TLC: the addresses, and how many entries or         *)
(* references an object at each of them may have.                          *)
(***************************************************************************)
EXTENDS Gc, TLC
CONSTANTS r, h, m, t1, s1, d1, f1

Ones(S) == [o \in Obj |-> IF o \in S THEN 1 ELSE 0]

TableSizes == Ones({r, t1, f1, d1})
WeakSizes == Ones({h})
RetuneSizes == Ones({r, h})
=========================================================================
