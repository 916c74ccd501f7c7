---------------------------- MODULE MCGcCycle ----------------------------
(***************************************************************************)
(* Instances of GcCycle for TLC: the addresses, and how many entries or    *)
(* references an object at each of them may have.                          *)
(***************************************************************************)
EXTENDS GcCycle
CONSTANTS r, h, m, d1, d2, f1, th, u1

UpvalSizes == [o \in Obj |-> IF o \in {f1, th} THEN 1 ELSE 0]
EphemeronSizes == [o \in Obj |-> IF o = h THEN 2 ELSE 0]
==========================================================================
