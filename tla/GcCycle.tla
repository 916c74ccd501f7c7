----------------------------- MODULE GcCycle -----------------------------
(***************************************************************************)
(* What one whole collection cycle achieves: Gc with a history variable    *)
(* that remembers what was garbage when the cycle began.                   *)
(***************************************************************************)
EXTENDS Gc

VARIABLE doomed  \* out of the program's reach when the cycle began, not freed
                 \* since and not brought back by Str::new

CycleInit == Init /\ doomed = {}

CycleNext ==
    /\ Next
    /\ doomed' = IF phase = "pause" /\ phase' = "propagate"
                 THEN Heap \ Accessible
                 ELSE {o \in doomed : mark'[o] # "free" /\ o \notin refs'}

CycleSpec == CycleInit /\ [][CycleNext]_<<vars, doomed>>

(* Garbage is not kept alive by other garbage, by an upvalue nobody can     *)
(* call, by a dead coroutine or by a barrier: what was unreachable when the *)
(* cycle began is gone when the cycle ends.                                *)
CycleFreesGarbage == phase = "pause" => doomed = {}

(* A cycle never promotes garbage: while it marks, what was unreachable    *)
(* when it began stays white.                                              *)
GarbageStaysWhite == \A o \in doomed : IsWhite(o)

-----------------------------------------------------------------------------
(* The inductive invariant behind both, next to GcInv.                     *)

(* Nothing outside doomed refers to a member of it, and no thread outside  *)
(* has a member of it among its open upvalues.                             *)
Sealed ==
    /\ \A o \in Obj \ doomed :
          (strong[o] \cup KeyObjs(Filled(ents[o])) \cup ValObjs(ents[o])) \cap doomed = {}
    /\ \A u \in Upvals \cap doomed : owner[u] \notin Threads \ doomed

(* What is doomed is out of reach and white until the atomic phase, dead   *)
(* and in front of the sweep from then on.                                 *)
CycleInv ==
    /\ doomed \subseteq Heap
    /\ phase = "pause" => doomed = {}
    /\ Marking => /\ Sealed
                  /\ ({Root} \cup Pinned) \cap doomed = {}
                  /\ \A o \in doomed : mark[o] = "white"
    /\ phase = "sweep" => /\ doomed \subseteq tosweep
                          /\ \A o \in doomed : mark[o] = "dead"
==========================================================================
