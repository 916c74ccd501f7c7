------------------------------ MODULE MCTable ------------------------------
(***************************************************************************)
(* Table for TLC. The hashes collide with one another and with integers.   *)
(***************************************************************************)
EXTENDS Table

CONSTANTS o1, o2

Addresses == {o1, o2}
Short == {o2}
Hashes == [o \in Addresses |-> IF o = o1 THEN 2 ELSE 6]
Stored == {1, 2, 3, 4} \cup Addresses
=============================================================================
