------------------------------ MODULE Sweep ------------------------------
(***************************************************************************)
(* The list of all objects and the counters that pace a collection         *)
(* (src/src/gc/mod.rs): allocation at the head of Gc.all, the sweep that   *)
(* walks the list a batch at a time behind a cell of the list, the sweep   *)
(* mark that separates the objects born during the sweep, and Gc.debt and  *)
(* Gc.survivors, from which Gc::step decides when the next cycle starts.   *)
(*                                                                         *)
(* Which objects a traversal marks is left open: module Gc says which. The *)
(* white bits are absolute here, so that the flip of currentwhite is part  *)
(* of the model.                                                           *)
(*                                                                         *)
(* A definition named Faulty... is not part of the model: it is the next   *)
(* definition with a plausible mistake.                                    *)
(***************************************************************************)
EXTENDS Integers, SequencesExt

CONSTANTS
    Objects,     \* addresses of Lua objects
    Leaves,      \* those that hold strings and userdata: black when marked,
                 \* never in Gc.gray
    Allocators,  \* those that hold userdata whose Drop calls back and allocates
    SweepMarks,  \* addresses of sweep marks
    Nil,
    Batch, Frees,   \* how many objects one sweep step visits and frees: 100 and 2
    Percent,        \* a cycle starts when the new objects are Percent (20)
                    \* percent of the survivors
    MaxDebt         \* bound: no allocation and no new cycle once Gc.debt is there

ASSUME ObjectsAssumption ==
    /\ Allocators \subseteq Leaves /\ Leaves \subseteq Objects
    /\ Objects \cap SweepMarks = {} /\ Nil \notin Objects \cup SweepMarks
ASSUME PaceAssumption ==
    /\ Batch \in Nat \ {0} /\ Frees \in Nat \ {0}
    /\ Percent \in Nat /\ MaxDebt \in Nat

VARIABLES
    phase,          \* Gc.state
    all,            \* Gc.all, from the head
    mark,           \* Object.marked; "free" when the address is not allocated
    currentwhite,   \* Gc.currentwhite
    gray,           \* Gc.gray
    sweep,          \* Gc.sweep: the list element whose next field is the cell
    parked,         \* Gc.sweep_mark
    debt, survivors,
    fresh           \* history: objects allocated since the last flip of currentwhite

vars == <<phase, all, mark, currentwhite, gray, sweep, parked, debt, survivors, fresh>>
marking == <<all, currentwhite, sweep, parked, survivors, fresh>>

Whites == {"white0", "white1"}
Other(w) == IF w = "white0" THEN "white1" ELSE "white0"
IsWhite(o) == mark[o] \in Whites
Dead(o) == mark[o] = Other(currentwhite)
Vacant(A) == {o \in A : mark[o] = "free"}
Recoloured(S, c) == [o \in DOMAIN mark |-> IF o \in S THEN c ELSE mark[o]]

(* The list a behind the cell in the element x, and the part up to there.  *)
Place(a, x) == SelectInSeq(a, LAMBDA o : o = x)
BehindIn(a, x) == IF x = Nil THEN <<>> ELSE SubSeq(a, Place(a, x) + 1, Len(a))
BeforeIn(a, x) == SubSeq(a, 1, Len(a) - Len(BehindIn(a, x)))
Behind == BehindIn(all, sweep)
BeforeCell == BeforeIn(all, sweep)

(* Gc::alloc                                                               *)
Alloc(o) ==
    /\ mark[o] = "free"
    /\ debt < MaxDebt
    /\ all' = <<o>> \o all
    /\ mark' = [mark EXCEPT ![o] = currentwhite]
    /\ debt' = debt + 1
    /\ fresh' = fresh + 1
    /\ UNCHANGED <<phase, currentwhite, gray, sweep, parked, survivors>>

(* Gc::mark of the members of S, which are white: a string or userdata is  *)
(* paid for at once, the others are linked into gray.                      *)
FaultyMarking(S) ==
    /\ S \subseteq {o \in Objects : IsWhite(o)}
    /\ mark' = Recoloured(S, "marked")
    /\ debt' = debt - Cardinality(S)

Marking(S) ==
    /\ S \subseteq {o \in Objects : IsWhite(o)}
    /\ mark' = Recoloured(S, "marked")
    /\ debt' = debt - Cardinality(S \cap Leaves)

(* Gc::step, state 8: the roots are marked.                                *)
StartCycle ==
    /\ phase = "pause"
    /\ debt < MaxDebt
    /\ debt - survivors >= (survivors * Percent) \div 100
    /\ \E S \in SUBSET Objects : Marking(S) /\ gray' = S \ Leaves
    /\ phase' = "propagate"
    /\ UNCHANGED marking

(* State 0: one gray object is traversed, which marks some others.         *)
MarkOneGray(o) ==
    /\ phase = "propagate"
    /\ o \in gray
    /\ \E S \in SUBSET {x \in Objects : IsWhite(x)} :
          /\ mark' = Recoloured(S, "marked")
          /\ gray' = (gray \ {o}) \cup (S \ Leaves)
          /\ debt' = debt - Cardinality(S \cap Leaves) - 1
    /\ UNCHANGED <<phase, marking>>

GrayEmpty ==
    /\ phase = "propagate"
    /\ gray = {}
    /\ phase' = "enteratomic"
    /\ UNCHANGED <<mark, debt, gray, marking>>

(* Gc::barrier: while a cycle marks it marks the object referred to,       *)
(* otherwise it makes the object that holds the reference white.           *)
Barrier(o) ==
    /\ IF phase \in {"propagate", "enteratomic"}
       THEN Marking({o}) /\ gray' = gray \cup ({o} \ Leaves)
       ELSE /\ mark[o] = "marked"
            /\ mark' = [mark EXCEPT ![o] = currentwhite]
            /\ UNCHANGED <<debt, gray>>
    /\ UNCHANGED <<phase, marking>>

(* Gc::resurrect, of a dead string that Str::new finds in the string table *)
Resurrect(o) ==
    /\ o \in Leaves \ Allocators
    /\ Dead(o)
    /\ mark' = [mark EXCEPT ![o] = currentwhite]
    /\ UNCHANGED <<phase, debt, gray, marking>>

FaultyFlip(S, m) ==
    /\ mark' = [Recoloured(S, "marked") EXCEPT ![m] = currentwhite]
    /\ debt' = debt - Cardinality(S \cap Leaves) + 1

FaultyFlipUncounted(S, m) ==
    /\ mark' = [Recoloured(S, "marked") EXCEPT ![m] = Other(currentwhite)]
    /\ debt' = debt - Cardinality(S \cap Leaves) + IF parked = Nil THEN 1 ELSE 0

(* What finish_marking marks, S, and the colour of the sweep mark, that of *)
(* the objects born from now on.                                           *)
FlipTo(S, m) ==
    /\ mark' = [Recoloured(S, "marked") EXCEPT ![m] = Other(currentwhite)]
    /\ debt' = debt - Cardinality(S \cap Leaves) + 1

FaultyReuse == Vacant(SweepMarks)

(* The sweep mark of the cycle: the parked one if there is one.            *)
Reuse == IF parked = Nil THEN Vacant(SweepMarks) ELSE {parked}

(* State 1: finish_marking, the flip of currentwhite, and a sweep mark at  *)
(* the head of the list. What finish_marking traverses is not paid for.    *)
Flip ==
    /\ phase = "enteratomic"
    /\ \E S \in SUBSET {o \in Objects : IsWhite(o)}, m \in Reuse :
          /\ FlipTo(S, m)
          /\ all' = <<m>> \o all
          /\ sweep' = m
    /\ currentwhite' = Other(currentwhite)
    /\ gray' = {}
    /\ parked' = Nil
    /\ survivors' = 0
    /\ fresh' = 0
    /\ phase' = "sweep"

-----------------------------------------------------------------------------
(* State 3: Gc::sweep and Gc::free.                                        *)

FreedIn(s) == {s[i] : i \in {j \in DOMAIN s : Dead(s[j])}}

KeptIn(s) ==
    LET kept[n \in 0..Len(s)] ==
            IF n = 0 THEN <<>>
            ELSE IF Dead(s[n]) THEN kept[n - 1] ELSE Append(kept[n - 1], s[n])
    IN  kept[Len(s)]

(* How many objects a step visits: it stops at the end of the list, after  *)
(* Batch objects, or when it has freed Frees of them.                      *)
Visited ==
    Min({n \in 0..Len(Behind) :
           \/ n = Len(Behind)
           \/ n = Batch
           \/ Cardinality(FreedIn(SubSeq(Behind, 1, n))) = Frees})

FaultyCellAtEnd(n, kept) == IF kept = <<>> THEN sweep ELSE Last(kept)

FaultyCellInLast(n, kept) == IF n = Len(Behind) THEN Nil ELSE Behind[n]

(* The cell after a step that kept some of the n objects it visited: the   *)
(* next field of the last one kept, no cell at the end of the list.        *)
CellAfter(n, kept) ==
    IF n = Len(Behind) THEN Nil ELSE IF kept = <<>> THEN sweep ELSE Last(kept)

(* Gc::free: an address is given back, but the sweep mark of the last      *)
(* cycle is parked and a parked one that it finds is given back instead.   *)
Freed(freed) ==
    [o \in DOMAIN mark |->
       IF o \in freed \cap SweepMarks THEN "parked"
       ELSE IF o \in freed \/ (o = parked /\ freed \cap SweepMarks # {}) THEN "free"
       ELSE mark[o]]

(* What the Drop of the freed userdata allocates while Gc.paused keeps it  *)
(* from stepping the collector: at most one object here.                   *)
Births(freed) ==
    {<<>>} \cup IF freed \cap Allocators = {} THEN {} ELSE {<<o>> : o \in Vacant(Objects)}

SweepStep ==
    /\ phase = "sweep"
    /\ sweep # Nil
    /\ \E n \in {Visited} :
          LET seen == SubSeq(Behind, 1, n)
              kept == KeptIn(seen)
              freed == FreedIn(seen)
          IN  /\ \E born \in Births(freed) :
                    /\ all' = born \o BeforeCell \o kept \o SubSeq(Behind, n + 1, Len(Behind))
                    /\ mark' = [o \in DOMAIN mark |->
                                  IF o \in ToSet(kept) \cup ToSet(born)
                                  THEN currentwhite ELSE Freed(freed)[o]]
                    /\ debt' = debt - Cardinality(freed) + Len(born)
                    /\ fresh' = fresh + Len(born)
              /\ parked' = IF freed \cap SweepMarks = {} THEN parked
                           ELSE CHOOSE m \in freed \cap SweepMarks : TRUE
              /\ survivors' = survivors + Len(kept)
              /\ sweep' = CellAfter(n, kept)
    /\ UNCHANGED <<phase, currentwhite, gray>>

(* The survivors are owed again, so that debt - survivors counts from here.*)
SweepDone ==
    /\ phase = "sweep"
    /\ sweep = Nil
    /\ debt' = debt + survivors
    /\ phase' = "pause"
    /\ UNCHANGED <<mark, gray, marking>>

-----------------------------------------------------------------------------
Init ==
    /\ phase = "pause"
    /\ all = <<>>
    /\ mark = [o \in Objects \cup SweepMarks |-> "free"]
    /\ currentwhite = "white0"
    /\ gray = {}
    /\ sweep = Nil /\ parked = Nil
    /\ debt = 0 /\ survivors = 0 /\ fresh = 0

(* What Gc::step does in each state.                                       *)
Collect ==
    \/ StartCycle
    \/ \E o \in gray : MarkOneGray(o)
    \/ GrayEmpty
    \/ Flip
    \/ SweepStep
    \/ SweepDone

Next ==
    \/ Collect
    \/ \E o \in Objects : Alloc(o) \/ Barrier(o) \/ Resurrect(o)

Spec == Init /\ [][Next]_vars

(* A program that goes on allocating goes on calling Gc::step, which has   *)
(* nothing else to do in state 3.                                          *)
FairSpec == Spec /\ WF_vars(SweepStep \/ SweepDone)

-----------------------------------------------------------------------------
(* Properties.                                                             *)

(* Type invariant of the collector's list fields and counters.             *)
TypeOK ==
    /\ phase \in {"pause", "propagate", "enteratomic", "sweep"}
    /\ all \in Seq(Objects \cup SweepMarks)
    /\ mark \in [Objects \cup SweepMarks -> Whites \cup {"free", "marked", "parked"}]
    /\ currentwhite \in Whites
    /\ gray \subseteq Objects
    /\ sweep \in Objects \cup SweepMarks \cup {Nil}
    /\ parked \in SweepMarks \cup {Nil}
    /\ debt \in Nat /\ survivors \in Nat /\ fresh \in Nat

(* Gc.all holds exactly the allocated objects, each once, and Gc.sweep     *)
(* points into one of them: nothing leaks out of the list, no address is   *)
(* freed twice, and the cell is never in a freed object although the step  *)
(* that left it there unlinks its successors and Drop may link new heads.  *)
ListExact ==
    /\ IsInjective(all)
    /\ ToSet(all) = {o \in DOMAIN mark : mark[o] \notin {"free", "parked"}}
    /\ sweep # Nil => phase = "sweep" /\ sweep \in ToSet(all)

(* At most two sweep marks exist: the one of the last flip, which stays in *)
(* the list, and either the one of the flip before or the parked one.      *)
MarksRecycled ==
    /\ Cardinality({m \in SweepMarks : mark[m] # "free"}) <= 2
    /\ {m \in SweepMarks : mark[m] = "parked"} = {parked} \ {Nil}

(* What the sweep has passed has the current white and no object between   *)
(* cycles has the other one: no object born during the sweep, before or    *)
(* after the cell moved on, is taken for dead in this cycle or in the next.*)
WhiteBeforeCell ==
    phase \in {"sweep", "pause"} =>
        \A o \in ToSet(BeforeCell) : mark[o] = currentwhite

(* Every strict_sub of gc/mod.rs has something to subtract from: between   *)
(* cycles the debt covers the survivors and the list, while marking it     *)
(* covers what is not traversed yet, while sweeping what is not kept.      *)
DebtCovers ==
    LET owed == {o \in ToSet(Behind) : Dead(o)}
        kept == ToSet(Behind) \ owed
    IN  /\ phase = "pause" => debt >= survivors /\ debt >= Len(all)
        /\ phase = "sweep" => /\ debt >= Cardinality(owed)
                              /\ debt + survivors + Cardinality(kept) >= Len(all)
        /\ phase \in {"propagate", "enteratomic"} =>
              debt >= Cardinality({o \in ToSet(all) : IsWhite(o)} \cup gray)

(* A sweep ends however much the program allocates, resurrects and stores  *)
(* meanwhile: objects are born before the cell, and every step passes or   *)
(* frees something or reaches the end.                                     *)
SweepEnds == phase = "sweep" ~> phase = "pause"

(* "Start new cycle only when number of newly allocated objects >= 20%"    *)
(* (gc/mod.rs:152): the objects allocated since the last flip and the      *)
(* sweep mark, which the counter takes for one of them.                    *)
StartsOnlyWhenDue ==
    [][phase = "pause" /\ phase' = "propagate"
         => fresh + 1 >= (survivors * Percent) \div 100]_vars

(***************************************************************************)
(* The invariant behind these properties.                                  *)

(* A traversed object is linked in gray only while a cycle marks.          *)
GrayMarked ==
    /\ gray \subseteq {o \in Objects \ Leaves : mark[o] = "marked"}
    /\ phase \in {"pause", "sweep"} => gray = {}

(* A sweep mark is never black, and two that are in the list differ in     *)
(* colour: the older one is dead, and gone when the sweep is at its end or *)
(* has parked it.                                                          *)
MarksInOrder ==
    LET linked == {m \in SweepMarks : mark[m] \notin {"free", "parked"}}
    IN  /\ \A m \in SweepMarks : mark[m] # "marked"
        /\ \A m, k \in linked : mark[m] = mark[k] => m = k
        /\ phase # "sweep" \/ parked # Nil => \A m \in linked : ~Dead(m)
        /\ {m \in SweepMarks : mark[m] = "parked"} = {parked} \ {Nil}

SweepInv == TypeOK /\ ListExact /\ WhiteBeforeCell /\ DebtCovers /\ GrayMarked /\ MarksInOrder
==========================================================================
