----------------------------- MODULE RefSets -----------------------------
(***************************************************************************)
(* What the strong references of src/src/gc/ref.rs promise: an object that *)
(* a Ref refers to when a cycle starts, or to which one was created before *)
(* its marking ends, is a root of the cycle.                               *)
(***************************************************************************)
EXTENDS Naturals

CONSTANTS
    Objects,
    MaxRefs     \* the largest count: usize::MAX

VARIABLES
    marking,    \* whether a cycle is between its start and its atomic phase
    count,      \* Object.refs: how many Ref values of an object there are
    roots       \* what was marked as a root in this cycle

vars == <<marking, count, roots>>

Held == {o \in Objects : count[o] > 0}

Init ==
    /\ marking = FALSE
    /\ count = [o \in Objects |-> 0]
    /\ roots = {}

(* A Ref of o is created or cloned. One too many is a panic.               *)
Take(o) ==
    /\ count[o] < MaxRefs
    /\ count' = [count EXCEPT ![o] = @ + 1]
    /\ UNCHANGED <<marking, roots>>

Drop(o) ==
    /\ count[o] > 0
    /\ count' = [count EXCEPT ![o] = @ - 1]
    /\ UNCHANGED <<marking, roots>>

StartCycle ==
    /\ ~marking
    /\ marking' = TRUE
    /\ roots' = Held
    /\ UNCHANGED count

FinishMarking ==
    /\ marking
    /\ marking' = FALSE
    /\ roots' = roots \cup Held
    /\ UNCHANGED count

Next ==
    \/ \E o \in Objects : Take(o) \/ Drop(o)
    \/ StartCycle
    \/ FinishMarking

Spec == Init /\ [][Next]_vars
==========================================================================
