----------------------------- MODULE RefList -----------------------------
(***************************************************************************)
(* The lists of objects held from Rust (src/src/gc/object.rs, ref.rs and   *)
(* mod.rs): Gc.refs and Gc.marked_refs, linked through Object.refp, with   *)
(* Object.refn pointing back at the cell that points to the object. A      *)
(* cycle moves one list to the other when it starts and splices them when  *)
(* its marking ends, while Ref values are created and dropped in any order.*)
(*                                                                         *)
(* A definition named Faulty... is not part of the model: it is the next   *)
(* definition with a plausible mistake.                                    *)
(***************************************************************************)
EXTENDS Naturals

CONSTANTS
    Objects,
    MaxRefs,            \* the largest count: usize::MAX
    Refs, MarkedRefs,   \* the cells Gc.refs and Gc.marked_refs
    Nil                 \* the null pointer

Heads == {Refs, MarkedRefs}
Cells == Objects \cup Heads

ASSUME RefsAssumption ==
    /\ MaxRefs \in Nat \ {0}
    /\ Objects \cap Heads = {} /\ Refs # MarkedRefs /\ Nil \notin Cells

VARIABLES
    marking,    \* whether a cycle is between its start and its atomic phase
    count,      \* Object.refs
    roots,      \* history: what was marked as a root in this cycle
    next,       \* what a cell points to: Gc.refs, Gc.marked_refs, Object.refp
    refn        \* Object.refn: the cell that points to an object

vars == <<marking, count, roots, next, refn>>

Held == {o \in Objects : count[o] > 0}

(* What is reached from a cell.                                            *)
Closed(c) == {S \in SUBSET Objects : \A d \in {c} \cup S : next[d] \in S \cup {Nil}}
Chain(c) == {o \in Objects : \A S \in Closed(c) : o \in S}

Init ==
    /\ marking = FALSE
    /\ count = [o \in Objects |-> 0]
    /\ roots = {}
    /\ next = [c \in Cells |-> Nil]
    /\ refn = [o \in Objects |-> Nil]

(* p, if it is not null, learns that c points to it.                       *)
Back(f, p, c) == [o \in Objects |-> IF o = p THEN c ELSE f[o]]

(* Ref::new of an object without references: it becomes the head of refs.  *)
Link(o) ==
    /\ count[o] = 0
    /\ count' = [count EXCEPT ![o] = 1]
    /\ next' = [next EXCEPT ![Refs] = o, ![o] = next[Refs]]
    /\ refn' = [Back(refn, next[Refs], o) EXCEPT ![o] = Refs]
    /\ UNCHANGED <<marking, roots>>

(* Ref::new of any other, Ref::clone, increment_strong_count. One too many *)
(* is a panic.                                                             *)
Count(o) ==
    /\ count[o] \in 1..MaxRefs - 1
    /\ count' = [count EXCEPT ![o] = @ + 1]
    /\ UNCHANGED <<marking, roots, next, refn>>

(* Object::unref                                                           *)
Uncount(o) ==
    /\ count[o] > 1
    /\ count' = [count EXCEPT ![o] = @ - 1]
    /\ UNCHANGED <<marking, roots, next, refn>>

FaultyUnlink(o) ==
    /\ count[o] = 1
    /\ count' = [count EXCEPT ![o] = 0]
    /\ next' = [next EXCEPT ![refn[o]] = next[o], ![o] = Nil]
    /\ refn' = [refn EXCEPT ![o] = Nil]
    /\ UNCHANGED <<marking, roots>>

Unlink(o) ==
    /\ count[o] = 1
    /\ count' = [count EXCEPT ![o] = 0]
    /\ next' = [next EXCEPT ![refn[o]] = next[o], ![o] = Nil]
    /\ refn' = [Back(refn, next[o], refn[o]) EXCEPT ![o] = Nil]
    /\ UNCHANGED <<marking, roots>>

(* Gc::step, state 8: refs becomes marked_refs and is walked.              *)
StartCycle ==
    /\ ~marking
    /\ marking' = TRUE
    /\ roots' = Chain(Refs)
    /\ next' = [next EXCEPT ![Refs] = Nil,
                            ![MarkedRefs] = IF next[Refs] = Nil THEN @ ELSE next[Refs]]
    /\ refn' = Back(refn, next[Refs], MarkedRefs)
    /\ UNCHANGED count

FaultyEnds == {Refs}

(* Where finish_marking appends marked_refs: the last cell of refs.        *)
Ends == {c \in {Refs} \cup Chain(Refs) : next[c] = Nil}

(* Gc::finish_marking                                                      *)
FinishMarking ==
    /\ marking
    /\ marking' = FALSE
    /\ roots' = roots \cup Chain(Refs)
    /\ \E e \in Ends :
          /\ next' = [next EXCEPT ![MarkedRefs] = Nil, ![e] = next[MarkedRefs]]
          /\ refn' = Back(refn, next[MarkedRefs], e)
    /\ UNCHANGED count

Next ==
    \/ \E o \in Objects : Link(o) \/ Count(o) \/ Uncount(o) \/ Unlink(o)
    \/ StartCycle
    \/ FinishMarking

Spec == Init /\ [][Next]_vars

-----------------------------------------------------------------------------
(* Properties.                                                             *)

TypeOK ==
    /\ marking \in BOOLEAN
    /\ count \in [Objects -> 0..MaxRefs]
    /\ roots \subseteq Objects
    /\ next \in [Cells -> Objects \cup {Nil}]
    /\ refn \in [Objects -> Cells \cup {Nil}]

(* No pointer of the lists leads to an object without references, which    *)
(* may be freed at any time, and every cell that points to an object is    *)
(* the one the object knows of: dropping a Ref writes through that pointer *)
(* without looking ("100% safety", README.md:18).                          *)
LinksAgree ==
    /\ \A o \in Held : refn[o] \in Held \cup Heads /\ next[refn[o]] = o
    /\ \A c \in Held \cup Heads : next[c] # Nil => next[c] \in Held /\ refn[next[c]] = c
    /\ \A o \in Objects \ Held : next[o] = Nil /\ refn[o] = Nil

(* The lists implement the promise of module RefSets: whatever the order   *)
(* of references created and dropped, the walks of a cycle meet each held  *)
(* object.                                                                 *)
Sets == INSTANCE RefSets
RootsMarked == Sets!Spec

-----------------------------------------------------------------------------
(* The inductive invariant behind RootsMarked.                             *)

(* Every held object is in one of the lists.                               *)
Reached == Held \subseteq Chain(Refs) \cup Chain(MarkedRefs)

(* What is in marked_refs was marked when the cycle started; after its     *)
(* marking the list is empty.                                              *)
MarkedRefsUsed == IF marking THEN Chain(MarkedRefs) \subseteq roots ELSE next[MarkedRefs] = Nil

RefInv == TypeOK /\ LinksAgree /\ Reached /\ MarkedRefsUsed
==========================================================================
