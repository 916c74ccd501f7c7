----------------------------- MODULE MCSweep -----------------------------
(***************************************************************************)
(* Instances of Sweep for TLC: tables, a string and a userdata, whose Drop *)
(* may allocate.                                                           *)
(***************************************************************************)
EXTENDS Sweep

CONSTANTS t1, t2, s1, u1, m1, m2, m3

Few == {t1, s1, u1}
Four == {t1, t2, s1, u1}
Unscanned == {s1, u1}
Dropping == {u1}
Pads == {m1, m2, m3}
==========================================================================
