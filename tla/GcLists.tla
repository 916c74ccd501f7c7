------------------------------ MODULE GcLists ------------------------------
(***************************************************************************)
(* The lists of the collector and its weak tables, for every set of        *)
(* objects: while a cycle marks, a gray object is linked in exactly one    *)
(* list; a live table never keeps the address of a reclaimed key; and the  *)
(* atomic phase clears an entry only because of a side that is not         *)
(* strongly reachable. Each follows from GcInv and one more conjunct.      *)
(***************************************************************************)
EXTENDS GcSafety

(* What GrayListed says of colours N and of the lists G, A and W.          *)
ListedIn(N, G, A, W) ==
    /\ G \cap A = {} /\ G \cap W = {} /\ A \cap W = {}
    /\ G \cup A \cup W = {o \in Obj : N[o] = "gray" /\ ~(o \in Upvals /\ IsOpen(o))}

(* Gc::mark links what it turns gray, and only that.                       *)
LEMMA MarkedListed ==
  ASSUME TypeOK, GcInv, phase # "sweep", ListedIn(mark, gray, grayagain, allweak),
         NEW S \in SUBSET Live
  PROVE  ListedIn(Marked(S), GrayWith(S), grayagain, allweak)
  <1>1. Touched(S) \subseteq Obj /\ \A x \in Touched(S) : mark[x] # "gray"
    BY TouchedFacts DEF IsWhite, GcInv
  <1>2. \A x \in Obj : Marked(S)[x] = IF x \in Touched(S) THEN MarkColour(x) ELSE mark[x]
    BY DEF Marked
  <1>3. \A x \in Linked : MarkColour(x) = "gray" /\ x \in Obj /\ x \notin Upvals
    BY KindsAssumption DEF MarkColour, Linked, Obj
  <1>4. \A x \in Obj \ Linked : MarkColour(x) = "gray" => x \in Upvals /\ IsOpen(x)
    BY DEF MarkColour, Linked, Obj
  <1>5. GrayWith(S) = gray \cup (Touched(S) \cap Linked)
    BY DEF GrayWith
  <1>6. gray \cup grayagain \cup allweak \subseteq Obj
    BY DEF ListedIn
  <1> QED BY <1>1, <1>2, <1>3, <1>4, <1>5, <1>6 DEF ListedIn

-----------------------------------------------------------------------------
(* The lists, operation by operation.                                      *)

(* A cycle begins with empty lists and links what it marks first.          *)
LEMMA StartCycleListed ==
  ASSUME TypeOK, GcInv, StartCycle
  PROVE  GrayListed'
  <1> DEFINE S == {Root} \cup refs
  <1>1. /\ S \in SUBSET Live /\ phase = "pause" /\ mark' = Marked(S) /\ owner' = owner
        /\ gray' = Touched(S) \cap Linked /\ grayagain' = {} /\ allweak' = {}
    BY DEF GcInv, NoDangling, Pinned, StartCycle, data
  <1> HIDE DEF S
  <1>2. \A x \in Obj : mark[x] # "gray"
    BY <1>1 DEF GcInv, PhaseColours, Heap
  <1>3. Touched(S) \subseteq Obj
    BY TouchedFacts DEF GcInv
  <1>4. \A x \in Obj : mark'[x] = IF x \in Touched(S) THEN MarkColour(x) ELSE mark[x]
    BY <1>1 DEF Marked
  <1>5. \A x \in Linked : MarkColour(x) = "gray" /\ x \notin Upvals
    BY KindsAssumption DEF MarkColour, Linked
  <1>6. \A x \in Obj \ Linked : MarkColour(x) = "gray" => x \in Upvals /\ IsOpen(x)
    BY DEF MarkColour, Linked, Obj
  <1> QED BY <1>1, <1>2, <1>3, <1>4, <1>5, <1>6 DEF GrayListed, IsOpen

(* An object that leaves gray is black, or gray in another list.           *)
LEMMA TraverseListed ==
  ASSUME TypeOK, GcInv, GrayListed, NEW o \in Linked, InPropagate(o), NEW S \in SUBSET Live,
         gray' = GrayWith(S) \ {o},
         \/ /\ mark' = [Marked(S) EXCEPT ![o] = "black"]
            /\ grayagain' = grayagain /\ allweak' = allweak
         \/ /\ mark' = Marked(S)
            /\ \/ grayagain' = grayagain \cup {o} /\ allweak' = allweak
               \/ grayagain' = grayagain /\ allweak' = allweak \cup {o}
  PROVE  GrayListed'
  <1>1. phase = "propagate" /\ phase' = phase /\ owner' = owner /\ o \in gray
    BY DEF InPropagate
  <1>2. ListedIn(mark, gray, grayagain, allweak)
    BY <1>1 DEF GrayListed, ListedIn, Marking
  <1>3. ListedIn(Marked(S), GrayWith(S), grayagain, allweak)
    BY <1>1, <1>2, MarkedListed
  <1>4. o \in GrayWith(S) /\ Marked(S) \in [Obj -> Colours]
    BY <1>1, MarkedType DEF GrayWith
  <1>5. ListedIn(mark', gray', grayagain', allweak')
    <2>1. CASE mark' = Marked(S)
      BY <1>3, <1>4, <2>1 DEF ListedIn
    <2>2. CASE mark' = [Marked(S) EXCEPT ![o] = "black"]
      <3>1. mark'[o] = "black" /\ \A x \in Obj \ {o} : mark'[x] = Marked(S)[x]
        BY <1>4, <2>2 DEF Linked, Obj
      <3>2. grayagain' = grayagain /\ allweak' = allweak
        <4>1. Marked(S)[o] = "gray" /\ o \in Obj
          BY <1>3, <1>4 DEF ListedIn
        <4> QED BY <3>1, <4>1
      <3> QED BY <1>3, <1>4, <3>1, <3>2 DEF ListedIn
    <2> QED BY <2>1, <2>2
  <1> QED BY <1>1, <1>5 DEF GrayListed, ListedIn, IsOpen

(* A step of the collector keeps GrayListed.                               *)
LEMMA CollectorListed ==
  ASSUME TypeOK, GcInv, GrayListed, Collector
  PROVE  GrayListed'
  <1>1. ASSUME NEW o \in Linked, InPropagate(o), NEW S \in SUBSET Live,
               Blacken(o, S) \/ Postpone(o, S)
        PROVE  GrayListed'
    BY <1>1, TraverseListed DEF Blacken, Postpone
  <1>2. \A o \in Linked : InPropagate(o) =>
           strong[o] \cup KeyObjs(Filled(ents[o])) \cup ValObjs(ents[o]) \subseteq Live
    BY GrayRefersLive DEF Linked, Obj
  <1>3. ASSUME NEW h \in Tables, TraverseStrongTable(h)
        PROVE  GrayListed'
    BY <1>1, <1>2, <1>3 DEF TraverseStrongTable, Linked
  <1>4. ASSUME NEW h \in Tables, TraverseWeakValues(h)
        PROVE  GrayListed'
    <2>1. PICK met \in SUBSET (ValObjs(ents[h]) \cap Strings) :
             Postpone(h, strong[h] \cup KeyObjs(Filled(ents[h])) \cup met)
      BY <1>4 DEF TraverseWeakValues
    <2>2. InPropagate(h) /\ h \in Linked
      BY <1>4 DEF TraverseWeakValues, Linked
    <2>3. strong[h] \cup KeyObjs(Filled(ents[h])) \cup met \in SUBSET Live
      BY <1>2, <2>2
    <2> QED BY <1>1, <2>1, <2>2, <2>3
  <1>5. ASSUME NEW h \in Tables, TraverseEphemeron(h)
        PROVE  GrayListed'
    <2>1. PICK V \in SUBSET ValObjs(ents[h]) :
             Postpone(h, strong[h] \cup V \cup (KeyObjs(Filled(ents[h])) \cap Strings))
      BY <1>5 DEF TraverseEphemeron
    <2>2. InPropagate(h) /\ h \in Linked
      BY <1>5 DEF TraverseEphemeron, Linked
    <2>3. strong[h] \cup V \cup (KeyObjs(Filled(ents[h])) \cap Strings) \in SUBSET Live
      BY <1>2, <2>2
    <2> QED BY <1>1, <2>1, <2>2, <2>3
  <1>6. ASSUME NEW h \in Tables, TraverseAllWeak(h)
        PROVE  GrayListed'
    <2>1. InPropagate(h) /\ h \in Linked
      BY <1>6 DEF TraverseAllWeak, Linked
    <2>2. strong[h] \in SUBSET Live
      BY <1>2, <2>1
    <2> QED BY <1>6, <2>1, <2>2, TraverseListed DEF TraverseAllWeak
  <1>7. ASSUME NEW f \in Funcs, TraverseFunction(f)
        PROVE  GrayListed'
    BY <1>1, <1>2, <1>7 DEF TraverseFunction, Linked
  <1>8. ASSUME NEW t \in Threads, TraverseThread(t)
        PROVE  GrayListed'
    BY <1>1, <1>8 DEF TraverseThread, Linked
  <1>9. CASE GrayEmpty
    BY <1>9 DEF GrayEmpty, GrayListed, Marking, IsOpen, data, lists
  <1>10. CASE phase' \in {"pause", "sweep"}
    BY <1>10 DEF GrayListed, Marking
  <1>11. FinishMarking \/ SweepDone \/ (\E o \in Obj : SweepSurvivor(o) \/ Free(o))
         => phase' \in {"pause", "sweep"}
    BY DEF FinishMarking, SweepDone, SweepSurvivor, Free
  <1> QED BY <1>3, <1>4, <1>5, <1>6, <1>7, <1>8, <1>9, <1>10, <1>11, StartCycleListed
          DEF Collector

(* What a barrier does to the lists and colours while a cycle marks: it    *)
(* marks nothing, or marks live objects and links them.                    *)
LEMMA BarrierListed ==
  ASSUME TypeOK, GcInv, GrayListed, NEW o \in Obj, NEW V \in SUBSET Live, Barrier(o, V),
         UNCHANGED <<phase, owner, grayagain, allweak>>
  PROVE  GrayListed'
  <1>1. CASE Marking
    <2>1. ListedIn(mark, gray, grayagain, allweak) /\ phase # "sweep"
      BY <1>1 DEF GrayListed, ListedIn, Marking
    <2>2. (mark' = Marked(V) /\ gray' = GrayWith(V)) \/ (mark' = mark /\ gray' = gray)
      BY <1>1 DEF Barrier
    <2>3. ListedIn(mark', gray', grayagain, allweak)
      BY <2>1, <2>2, MarkedListed
    <2> QED BY <2>3 DEF GrayListed, ListedIn, IsOpen
  <1>2. CASE ~Marking
    BY <1>2 DEF GrayListed, Marking
  <1> QED BY <1>1, <1>2

(* barrier_back links a black table, which was in no list.                 *)
LEMMA BarrierBackListed ==
  ASSUME TypeOK, GrayListed, NEW h \in Tables, NEW V, BarrierBack(h, V),
         UNCHANGED <<phase, owner, gray, allweak>>
  PROVE  GrayListed'
  <1>1. h \in Obj /\ h \notin Upvals
    BY KindsAssumption DEF Obj
  <1>2. \/ mark[h] = "black" /\ mark' = [mark EXCEPT ![h] = "gray"] /\ grayagain' = grayagain \cup {h}
        \/ mark' = mark /\ grayagain' = grayagain
    BY DEF BarrierBack
  <1>3. CASE mark' = mark /\ grayagain' = grayagain
    BY <1>3 DEF GrayListed, Marking, IsOpen
  <1>4. CASE mark[h] = "black" /\ mark' = [mark EXCEPT ![h] = "gray"] /\ grayagain' = grayagain \cup {h}
    <2>1. mark'[h] = "gray" /\ \A x \in Obj \ {h} : mark'[x] = mark[x]
      BY <1>1, <1>4 DEF TypeOK
    <2> QED BY <1>1, <1>4, <2>1 DEF GrayListed, Marking, IsOpen
  <1> QED BY <1>2, <1>3, <1>4

(* A closed upvalue is black at once and is in no list.                    *)
LEMMA CloseListed ==
  ASSUME TypeOK, GcInv, GrayListed, NEW u \in Live \cap Upvals, CloseUpval(u)
  PROVE  GrayListed'
  <1> DEFINE held == {v \in strong[u] : IsWhite(v)}
  <1>1. /\ owner' = [owner EXCEPT ![u] = Nil]
        /\ UNCHANGED <<phase, grayagain, allweak>>
    BY DEF CloseUpval
  <1>2. CASE ~Marking
    BY <1>1, <1>2 DEF GrayListed, Marking
  <1>3. CASE Marking
    <2>1. held \in SUBSET Live
      BY DEF GcInv, NoDangling, Refers
    <2>2. \/ mark[u] \notin {"gray", "black"} /\ mark' = mark /\ gray' = gray
          \/ mark' = [mark EXCEPT ![u] = "black"] /\ gray' = gray
          \/ mark' = [Marked(held) EXCEPT ![u] = "black"] /\ gray' = GrayWith(held)
      BY <1>3 DEF CloseUpval
    <2> HIDE DEF held
    <2>3. PICK N \in [Obj -> Colours] : /\ ListedIn(N, gray', grayagain, allweak)
                                        /\ \A x \in Obj \ {u} : mark'[x] = N[x]
                                        /\ mark'[u] # "gray"
      <3>1. ListedIn(mark, gray, grayagain, allweak) /\ phase # "sweep" /\ mark \in [Obj -> Colours]
        BY <1>3 DEF GrayListed, ListedIn, Marking, TypeOK
      <3>2. ListedIn(Marked(held), GrayWith(held), grayagain, allweak)
        BY <2>1, <3>1, MarkedListed
      <3>3. u \in Obj /\ Marked(held) \in [Obj -> Colours]
        BY MarkedType DEF Obj
      <3>4. CASE /\ gray' = gray
                 /\ \/ mark[u] \notin {"gray", "black"} /\ mark' = mark
                    \/ mark' = [mark EXCEPT ![u] = "black"]
        <4>1. (\A x \in Obj \ {u} : mark'[x] = mark[x]) /\ mark'[u] # "gray"
          BY <3>1, <3>3, <3>4
        <4> QED BY <3>1, <3>4, <4>1
      <3>5. CASE mark' = [Marked(held) EXCEPT ![u] = "black"] /\ gray' = GrayWith(held)
        BY <3>2, <3>3, <3>5
      <3> QED BY <2>2, <3>4, <3>5
    <2>4. \A x \in Upvals \ {u} : owner'[x] = owner[x]
      BY <1>1 DEF TypeOK
    <2>5. u \notin gray' \cup grayagain \cup allweak
      <3>1. gray' \cup grayagain \cup allweak \subseteq Linked /\ u \notin Linked
        BY MarkedType, <2>2, KindsAssumption DEF TypeOK, Linked
      <3> QED BY <3>1
    <2>6. gray' \cup grayagain \cup allweak
             = {x \in Obj : mark'[x] = "gray" /\ ~(x \in Upvals /\ owner'[x] # Nil)}
      BY <2>3, <2>4, <2>5 DEF ListedIn, IsOpen
    <2> QED BY <1>1, <2>3, <2>6 DEF GrayListed, ListedIn, IsOpen
  <1> QED BY <1>2, <1>3

(* A step of the program keeps it: a barrier links what it turns gray.     *)
LEMMA ProgramListed ==
  ASSUME TypeOK, GcInv, GrayListed, Program
  PROVE  GrayListed'
  <1>0. Accessible \subseteq Live /\ Live \subseteq Obj
    BY AccessibleLive DEF GcInv, Live
  <1>1. ASSUME UNCHANGED <<phase, mark, owner, gray, grayagain, allweak>>
        PROVE  GrayListed'
    BY <1>1 DEF GrayListed, Marking, IsOpen
  <1>2. ASSUME NEW o, NEW K, Alloc(o, K)
        PROVE  GrayListed'
    <2>1. /\ mark[o] = "free" /\ mark' = [mark EXCEPT ![o] = "white"]
          /\ UNCHANGED <<phase, owner, gray, grayagain, allweak>>
      BY <1>2 DEF Alloc, lists
    <2>2. \A x \in Obj : mark'[x] = "gray" <=> mark[x] = "gray"
      BY <2>1 DEF TypeOK
    <2> QED BY <2>1, <2>2 DEF GrayListed, Marking, IsOpen
  <1>3. ASSUME NEW s \in Strings, Intern(s)
        PROVE  GrayListed'
    <2>1. /\ mark' = [mark EXCEPT ![s] = IF mark[s] = "dead" THEN "white" ELSE mark[s]]
          /\ UNCHANGED <<phase, owner, gray, grayagain, allweak>>
      BY <1>3 DEF Intern, data, lists
    <2>2. \A x \in Obj : mark'[x] = "gray" <=> mark[x] = "gray"
      BY <2>1 DEF TypeOK
    <2> QED BY <2>1, <2>2 DEF GrayListed, Marking, IsOpen
  <1>4. ASSUME NEW h \in Tables, NEW k, NEW v, StoreNew(h, k, v) \/ StoreOld(h, k, v)
        PROVE  GrayListed'
    <2>1. UNCHANGED <<phase, owner, gray, allweak>> /\ \E V : BarrierBack(h, V)
      BY <1>4 DEF StoreNew, StoreOld
    <2> QED BY <2>1, BarrierBackListed
  <1>5. ASSUME NEW o \in Obj, NEW v \in Live,
               SetMetatable(o, v) \/ AddReference(o, v)
        PROVE  GrayListed'
    <2>1. UNCHANGED <<phase, owner, grayagain, allweak>> /\ Barrier(o, {v})
      BY <1>5 DEF SetMetatable, AddReference
    <2> QED BY <2>1, BarrierListed
  <1>6. ASSUME NEW u \in Upvals, NEW V \in SUBSET Live, SetUpval(u, V)
        PROVE  GrayListed'
    <2>1. UNCHANGED <<phase, owner, grayagain, allweak>> /\ Barrier(u, V) /\ u \in Obj
      BY <1>6 DEF SetUpval, Obj
    <2> QED BY <2>1, BarrierListed
  <1>7. ASSUME NEW t, NEW u \in Upvals, NEW V, Capture(t, u, V)
        PROVE  GrayListed'
    <2>1. /\ mark[u] = "free" /\ mark' = [mark EXCEPT ![u] = "white"]
          /\ owner' = [owner EXCEPT ![u] = t]
          /\ UNCHANGED <<phase, gray, grayagain, allweak>>
      BY <1>7 DEF Capture, lists
    <2>2. u \in Obj
      BY DEF Obj
    <2>3. mark'[u] = "white" /\ (\A x \in Obj \ {u} : mark'[x] = mark[x])
          /\ \A x \in Upvals \ {u} : owner'[x] = owner[x]
      BY <2>1, <2>2 DEF TypeOK
    <2> QED BY <2>1, <2>2, <2>3 DEF GrayListed, Marking, IsOpen
  <1>8. ASSUME NEW o, NEW v, Pin(o) \/ Unpin(o) \/ Push(o, v) \/ Pop(o, v) \/ RemoveMetatable(o)
                             \/ SetMode(o, v) \/ Erase(o, v)
        PROVE  GrayListed'
    BY <1>1, <1>8 DEF Pin, Unpin, Push, Pop, RemoveMetatable, SetMode, Erase, colours, data, lists
  <1> QED
    <2>1. \/ \E o, K : Alloc(o, K)
          \/ \E o, v : Pin(o) \/ Unpin(o) \/ Push(o, v) \/ Pop(o, v) \/ RemoveMetatable(o)
                       \/ SetMode(o, v) \/ Erase(o, v)
          \/ \E s \in Strings : Intern(s)
          \/ \E h \in Tables : \E k, v : StoreNew(h, k, v) \/ StoreOld(h, k, v)
          \/ \E o \in Accessible, v \in Accessible : SetMetatable(o, v) \/ AddReference(o, v)
          \/ \E t : \E u \in Upvals : \E V : Capture(t, u, V)
          \/ \E u \in Accessible \cap Upvals :
                \E V \in {{}} \cup {{v} : v \in Accessible \cap Held} : SetUpval(u, V)
          \/ \E u \in Accessible \cap Upvals : CloseUpval(u)
      BY ProgramCases, Zenon
    <2>2. \A V \in {{}} \cup {{v} : v \in Accessible \cap Held} : V \in SUBSET Live
      BY <1>0
    <2> QED BY <1>0, <1>2, <1>3, <1>4, <1>5, <1>6, <1>7, <1>8, <2>1, <2>2, CloseListed

(* While a cycle marks, a gray object that is not an open upvalue is       *)
(* linked in exactly one of gray, grayagain and allweak through its one    *)
(* gclist field, and nothing else is linked.                               *)
THEOREM GrayStaysListed ==
  ASSUME ~RetuneAllWeak
  PROVE  Spec => []GrayListed
  <1>1. Init => GrayListed
    BY DEF Init, GrayListed, Marking
  <1>2. ASSUME TypeOK, GcInv, GrayListed, [Next]_vars
        PROVE  GrayListed'
    <2>1. CASE UNCHANGED vars
      BY <1>2, <2>1 DEF vars, colours, data, lists, GrayListed, Marking, IsOpen
    <2> QED BY <1>2, <2>1, CollectorListed, ProgramListed DEF Next
  <1> QED BY <1>1, <1>2, TypeCorrect, Invariant, PTL DEF Spec

-----------------------------------------------------------------------------
(* Which objects are live changes only where the cycle ends its marking,   *)
(* and when an object is born or a string is found again.                  *)

(* Gc::mark brings nothing to life and kills nothing.                      *)
LEMMA LiveMarked ==
  ASSUME TypeOK, GcInv, phase # "sweep", NEW S \in SUBSET Live, NEW b \in Live,
         mark' \in {Marked(S), [Marked(S) EXCEPT ![b] = "black"]}
  PROVE  Live' = Live
  <1>1. Marked(S) \in [Obj -> Colours]
    BY MarkedType
  <1>2. \A x \in Obj : (Marked(S)[x] = "free" <=> mark[x] = "free") /\ Marked(S)[x] # "dead"
    BY MarkedFacts
  <1>3. b \in Obj /\ mark[b] # "free" /\ \A x \in Obj : mark[x] # "dead"
    BY DEF Live, GcInv, PhaseColours, Heap, TypeOK, Marking
  <1>4. \A x \in Obj : (mark'[x] = "free" <=> mark[x] = "free") /\ mark'[x] # "dead"
                       /\ mark'[x] \in Colours
    <2>1. CASE mark' = Marked(S)
      BY <1>1, <1>2, <2>1
    <2>2. CASE mark' = [Marked(S) EXCEPT ![b] = "black"]
      BY <1>1, <1>2, <1>3, <2>2 DEF Colours
    <2> QED BY <2>1, <2>2
  <1> QED BY <1>3, <1>4 DEF Live, TypeOK, Colours

(* Nor does a barrier                                                      *)
LEMMA LiveBarrier ==
  ASSUME TypeOK, GcInv, NEW o \in Live, NEW V \in SUBSET Live, Barrier(o, V)
  PROVE  Live' = Live
  <1>1. \/ Marking /\ mark' = Marked(V)
        \/ mark[o] = "black" /\ mark' = [mark EXCEPT ![o] = "white"]
        \/ mark' = mark
    BY DEF Barrier
  <1>2. CASE Marking /\ mark' = Marked(V)
    BY <1>2, LiveMarked DEF Marking
  <1>3. CASE mark[o] = "black" /\ mark' = [mark EXCEPT ![o] = "white"]
    BY <1>3 DEF Live, TypeOK
  <1>4. CASE mark' = mark
    BY <1>4 DEF Live
  <1> QED BY <1>1, <1>2, <1>3, <1>4

(* or a backward barrier                                                   *)
LEMMA LiveBarrierBack ==
  ASSUME TypeOK, NEW h \in Live, NEW V, BarrierBack(h, V)
  PROVE  Live' = Live
  BY DEF BarrierBack, Live, TypeOK

(* or the closing of upvalues.                                             *)
LEMMA LiveClose ==
  ASSUME TypeOK, GcInv, NEW u \in Live \cap Upvals, CloseUpval(u)
  PROVE  Live' = Live
  <1> DEFINE held == {v \in strong[u] : IsWhite(v)}
  <1>1. held \in SUBSET Live
    BY DEF GcInv, NoDangling, Refers
  <1>2. \/ mark' = mark
        \/ mark' = [mark EXCEPT ![u] = "black"] \/ mark' = [mark EXCEPT ![u] = "white"]
        \/ Marking /\ mark' = [Marked(held) EXCEPT ![u] = "black"]
    BY DEF CloseUpval
  <1> HIDE DEF held
  <1>3. CASE Marking /\ mark' = [Marked(held) EXCEPT ![u] = "black"]
    BY <1>1, <1>3, LiveMarked DEF Marking
  <1> QED BY <1>2, <1>3 DEF Live, TypeOK

(* A traversal keeps what is live and drops entries only.                  *)
LEMMA LiveTraverse ==
  ASSUME TypeOK, GcInv, Collector,
         \A o \in Obj : ~SweepSurvivor(o) /\ ~Free(o), ~FinishMarking
  PROVE  Live' = Live /\ \A x \in Obj : KeyObjs(ents'[x]) \subseteq KeyObjs(ents[x])
  <1>1. ASSUME NEW o \in Linked, InPropagate(o), NEW S \in SUBSET Live,
               Blacken(o, S) \/ Postpone(o, S) \/ mark' = Marked(S)
        PROVE  Live' = Live
    <2>1. o \in Live /\ phase # "sweep"
      BY <1>1, GrayRefersLive DEF InPropagate, Live, Linked, Obj
    <2>2. mark' \in {Marked(S), [Marked(S) EXCEPT ![o] = "black"]}
      BY <1>1 DEF Blacken, Postpone
    <2> QED BY <2>1, <2>2, LiveMarked
  <1>2. \A o \in Linked : InPropagate(o) =>
           strong[o] \cup KeyObjs(Filled(ents[o])) \cup ValObjs(ents[o]) \subseteq Live
    BY GrayRefersLive DEF Linked, Obj
  <1>3. ASSUME NEW h \in Tables, TraverseStrongTable(h)
        PROVE  Live' = Live
    BY <1>1, <1>2, <1>3 DEF TraverseStrongTable, Linked
  <1>4. ASSUME NEW h \in Tables, TraverseWeakValues(h)
        PROVE  Live' = Live
    <2>1. PICK met \in SUBSET (ValObjs(ents[h]) \cap Strings) :
             Postpone(h, strong[h] \cup KeyObjs(Filled(ents[h])) \cup met)
      BY <1>4 DEF TraverseWeakValues
    <2>2. InPropagate(h) /\ h \in Linked
      BY <1>4 DEF TraverseWeakValues, Linked
    <2>3. strong[h] \cup KeyObjs(Filled(ents[h])) \cup met \in SUBSET Live
      BY <1>2, <2>2
    <2> QED BY <1>1, <2>1, <2>2, <2>3
  <1>5. ASSUME NEW h \in Tables, TraverseEphemeron(h)
        PROVE  Live' = Live
    <2>1. PICK V \in SUBSET ValObjs(ents[h]) :
             Postpone(h, strong[h] \cup V \cup (KeyObjs(Filled(ents[h])) \cap Strings))
      BY <1>5 DEF TraverseEphemeron
    <2>2. InPropagate(h) /\ h \in Linked
      BY <1>5 DEF TraverseEphemeron, Linked
    <2>3. strong[h] \cup V \cup (KeyObjs(Filled(ents[h])) \cap Strings) \in SUBSET Live
      BY <1>2, <2>2
    <2> QED BY <1>1, <2>1, <2>2, <2>3
  <1>6. ASSUME NEW h \in Tables, TraverseAllWeak(h)
        PROVE  Live' = Live
    BY <1>1, <1>2, <1>6 DEF TraverseAllWeak, Linked
  <1>7. ASSUME NEW f \in Funcs, TraverseFunction(f)
        PROVE  Live' = Live
    BY <1>1, <1>2, <1>7 DEF TraverseFunction, Linked
  <1>8. ASSUME NEW t \in Threads, TraverseThread(t)
        PROVE  Live' = Live
    BY <1>1, <1>8 DEF TraverseThread, Linked
  <1>9. ASSUME StartCycle
        PROVE  Live' = Live
    <2> DEFINE S == {Root} \cup refs
    <2>1. S \in SUBSET Live /\ Root \in Live /\ phase # "sweep" /\ mark' = Marked(S)
      BY <1>9 DEF StartCycle, GcInv, NoDangling, Pinned
    <2> HIDE DEF S
    <2>2. mark' \in {Marked(S), [Marked(S) EXCEPT ![Root] = "black"]}
      BY <2>1
    <2> QED BY <2>1, <2>2, LiveMarked
  <1>10. ASSUME GrayEmpty \/ SweepDone
         PROVE  Live' = Live
    BY <1>10 DEF GrayEmpty, SweepDone, Live, data, lists, pins
  <1>11. ents' = ents \/ \E h \in Obj : DropTombstones(h)
    BY DEF Collector, StartCycle, GrayEmpty, SweepDone, TraverseStrongTable, TraverseWeakValues,
           TraverseEphemeron, TraverseAllWeak, TraverseFunction, TraverseThread, data, Obj
  <1>12. \A x \in Obj : KeyObjs(ents'[x]) \subseteq KeyObjs(ents[x])
    <2>1. CASE ents' = ents
      BY <2>1
    <2>2. CASE \E h \in Obj : DropTombstones(h)
      BY <2>2, DropFacts
    <2> QED BY <1>11, <2>1, <2>2
  <1> QED BY <1>3, <1>4, <1>5, <1>6, <1>7, <1>8, <1>9, <1>10, <1>12 DEF Collector

(* A step of the sweep frees only what was dead.                           *)
LEMMA LiveSweep ==
  ASSUME TypeOK, GcInv, NEW o \in Obj, SweepSurvivor(o) \/ Free(o)
  PROVE  Live' = Live /\ \A x \in Live : ents'[x] = ents[x]
  <1>1. CASE SweepSurvivor(o)
    <2>1. mark[o] \in {"white", "gray", "black"} /\ mark' = [mark EXCEPT ![o] = "white"]
          /\ ents' = ents
      BY <1>1 DEF SweepSurvivor, GcInv, PhaseColours, Heap, TypeOK, Colours, data
    <2> QED BY <2>1 DEF Live, TypeOK
  <1>2. CASE Free(o)
    <2>1. /\ mark[o] = "dead" /\ mark'[o] = "free"
          /\ \A x \in Obj \ {o} : mark'[x] = IF x \in Open(o) THEN ClosedColour(x) ELSE mark[x]
          /\ ents' = [ents EXCEPT ![o] = {}]
      BY <1>2 DEF Free
    <2>2. \A x \in Obj : ClosedColour(x) \in {"white", "gray", "black"}
                           <=> mark[x] \in {"white", "gray", "black"}
      BY DEF ClosedColour
    <2> QED BY <2>1, <2>2 DEF Live, TypeOK
  <1> QED BY <1>1, <1>2

-----------------------------------------------------------------------------
(* Emptied keys.                                                           *)

(* The atomic phase visits every table it marks that is not black already. *)
LEMMA AtomicVisits ==
  ASSUME TypeOK, GcInv, phase = "enteratomic", NEW h \in AtomicMarked \cap Tables
  PROVE  h \in AtomicWork(AtomicMarked) \cup allweak \/ mark[h] = "black"
  <1>1. h \in Obj /\ h \notin Upvals
    BY KindsAssumption DEF Obj
  <1>2. CASE h \notin NonWhite
    BY <1>2 DEF AtomicWork
  <1>3. CASE mark[h] = "gray"
    BY <1>1, <1>3 DEF GcInv, Linking, Marking, AtomicWork
  <1> QED BY <1>2, <1>3 DEF NonWhite

(* clear_by_keys and the traversals before it leave only marked keys.      *)
LEMMA FinishMarkingKeys ==
  ASSUME TypeOK, GcInv, FinishMarking
  PROVE  EmptiedKeysLive'
  <1> DEFINE M == AtomicMarked
             visited == AtomicWork(M) \cup allweak
  <1>1. /\ M \subseteq Live /\ NonWhite \subseteq M /\ phase = "enteratomic"
    BY AtomicFacts DEF FinishMarking
  <1>2. visited \subseteq Obj
    BY <1>1 DEF AtomicWork, TypeOK, Linked, Obj, Live
  <1>3. /\ \A o \in Obj : mark'[o] \in IF o \in M THEN {"gray", "black"}
                                       ELSE IF mark[o] = "free" THEN {"free"} ELSE {"dead"}
        /\ \A o \in Obj : ents'[o] \subseteq ents[o]
        /\ \A o \in visited : \A e \in ents'[o] : e[1] \in M \cup {Scalar}
    <2> HIDE DEF M
    <2> QED BY <1>2 DEF FinishMarking, TypeOK, M
  <1>4. Live' = M
    BY <1>1, <1>3 DEF Live
  <1>5. ASSUME NEW h \in M \cap Tables
        PROVE  KeyObjs(ents'[h]) \subseteq M
    <2>1. CASE h \in visited
      BY <1>3, <2>1, KindsAssumption DEF KeyObjs
    <2>2. CASE mark[h] = "black"
      <3>1. h \in Obj
        BY DEF Obj
      <3>2. KeyObjs(ents[h]) \subseteq M
        BY <1>1, <2>2, <3>1 DEF GcInv, TriColour, Marking
      <3> QED BY <1>3, <3>1, <3>2 DEF KeyObjs
    <2> QED BY <1>1, <2>1, <2>2, AtomicVisits
  <1> HIDE DEF M
  <1> QED BY <1>4, <1>5 DEF EmptiedKeysLive

(* A step of the collector keeps EmptiedKeysLive.                          *)
LEMMA CollectorKeys ==
  ASSUME TypeOK, GcInv, EmptiedKeysLive, Collector
  PROVE  EmptiedKeysLive'
  <1>1. CASE FinishMarking
    BY <1>1, FinishMarkingKeys
  <1>2. CASE \E o \in Obj : SweepSurvivor(o) \/ Free(o)
    <2>1. Live' = Live /\ \A x \in Live : ents'[x] = ents[x]
      BY <1>2, LiveSweep
    <2> QED BY <2>1 DEF EmptiedKeysLive, KeyObjs
  <1>3. CASE ~FinishMarking /\ \A o \in Obj : ~SweepSurvivor(o) /\ ~Free(o)
    BY <1>3, LiveTraverse DEF EmptiedKeysLive, Obj
  <1> QED BY <1>1, <1>2, <1>3

(* A step of the program keeps it: it stores keys that are alive.          *)
LEMMA ProgramKeys ==
  ASSUME TypeOK, GcInv, EmptiedKeysLive, Program
  PROVE  EmptiedKeysLive'
  <1>0. Accessible \subseteq Live /\ Live \subseteq Obj
    BY AccessibleLive DEF GcInv, Live
  <1>1. ASSUME Live' = Live, ents' = ents
        PROVE  EmptiedKeysLive'
    BY <1>1 DEF EmptiedKeysLive
  <1>2. ASSUME NEW o \in Obj, NEW X, mark[o] # "free" => o \notin Tables,
               mark' = [mark EXCEPT ![o] = X], X \in {mark[o], "white"}, ents' = ents
        PROVE  EmptiedKeysLive'
    <2>1. Live \subseteq Live' /\ Live' \subseteq Live \cup {o}
      BY <1>2 DEF Live, TypeOK
    <2>2. mark[o] = "free" => ents[o] = {}
      BY DEF GcInv, Shape
    <2> QED BY <1>2, <2>1, <2>2 DEF EmptiedKeysLive, KeyObjs
  <1>3. ASSUME NEW o \in Obj, NEW K, Alloc(o, K)
        PROVE  EmptiedKeysLive'
    BY <1>2, <1>3 DEF Alloc
  <1>4. ASSUME NEW s \in Strings, Intern(s)
        PROVE  EmptiedKeysLive'
    <2>1. s \in Obj /\ s \notin Tables
      BY KindsAssumption DEF Obj
    <2> QED BY <1>2, <1>4, <2>1 DEF Intern, data
  <1>5. ASSUME NEW t, NEW u \in Upvals, NEW V, Capture(t, u, V)
        PROVE  EmptiedKeysLive'
    BY <1>2, <1>5 DEF Capture, Obj
  <1>6. ASSUME NEW h \in Live \cap Tables, NEW k \in Live \cup {Scalar}, NEW v,
               StoreNew(h, k, v) \/ StoreOld(h, k, v)
        PROVE  EmptiedKeysLive'
    <2>1. PICK dropped : ents' = [ents EXCEPT ![h] = (ents[h] \ dropped) \cup {<<k, v>>}]
      <3>1. CASE StoreNew(h, k, v)
        BY <3>1 DEF StoreNew
      <3>2. CASE StoreOld(h, k, v)
        BY <3>2 DEF StoreOld
      <3> QED BY <1>6, <3>1, <3>2
    <2>2. \E V : BarrierBack(h, V)
      BY <1>6 DEF StoreNew, StoreOld
    <2>3. Live' = Live
      BY <2>2, LiveBarrierBack
    <2>4. h \in Obj /\ \A x \in Obj \ {h} : ents'[x] = ents[x]
      BY <2>1 DEF TypeOK, Obj
    <2>5. KeyObjs(ents'[h]) \subseteq KeyObjs(ents[h]) \cup ({k} \cap Obj)
      BY <2>1, <2>4 DEF KeyObjs, TypeOK
    <2>6. {k} \cap Obj \subseteq Live
      BY KindsAssumption
    <2> QED BY <2>3, <2>4, <2>5, <2>6 DEF EmptiedKeysLive, KeyObjs, Obj
  <1>7. ASSUME NEW h \in Live \cap Tables, NEW e \in ents[h], Erase(h, e)
        PROVE  EmptiedKeysLive'
    <2>1. /\ ents' = [ents EXCEPT ![h] = (ents[h] \ {e}) \cup IF e[1] = Scalar THEN {} ELSE {<<e[1], Nil>>}]
          /\ mark' = mark
      BY <1>7 DEF Erase, colours
    <2>2. h \in Obj /\ \A x \in Obj \ {h} : ents'[x] = ents[x]
      BY <2>1 DEF TypeOK, Obj
    <2>3. KeyObjs(ents'[h]) \subseteq KeyObjs(ents[h])
      BY <2>1, <2>2 DEF KeyObjs, TypeOK
    <2> QED BY <2>1, <2>2, <2>3 DEF EmptiedKeysLive, KeyObjs, Obj, Live
  <1>8. ASSUME NEW o \in Live, NEW v \in Live, SetMetatable(o, v) \/ AddReference(o, v)
        PROVE  EmptiedKeysLive'
    <2>1. Barrier(o, {v}) /\ ents' = ents
      BY <1>8 DEF SetMetatable, AddReference
    <2> QED BY <1>1, <2>1, LiveBarrier
  <1>9. ASSUME NEW u \in Live, NEW V \in SUBSET Live, SetUpval(u, V)
        PROVE  EmptiedKeysLive'
    <2>1. Barrier(u, V) /\ ents' = ents
      BY <1>9 DEF SetUpval
    <2> QED BY <1>1, <2>1, LiveBarrier
  <1>10. ASSUME NEW u \in Live \cap Upvals, CloseUpval(u)
         PROVE  EmptiedKeysLive'
    BY <1>1, <1>10, LiveClose DEF CloseUpval
  <1>11. ASSUME NEW o, NEW v, Pin(o) \/ Unpin(o) \/ Push(o, v) \/ Pop(o, v) \/ RemoveMetatable(o)
                              \/ SetMode(o, v)
         PROVE  EmptiedKeysLive'
    BY <1>11 DEF Pin, Unpin, Push, Pop, RemoveMetatable, SetMode, colours, data, EmptiedKeysLive, Live
  <1> QED
    <2>1. \/ \E o \in Obj : \E K : Alloc(o, K)
          \/ \E o, v : Pin(o) \/ Unpin(o) \/ Push(o, v) \/ Pop(o, v) \/ RemoveMetatable(o)
                       \/ SetMode(o, v)
          \/ \E s \in Strings : Intern(s)
          \/ \E h \in Accessible \cap Tables, k \in (Accessible \cap Keys) \cup {Scalar} :
                \E v : StoreNew(h, k, v) \/ StoreOld(h, k, v)
          \/ \E h \in Accessible \cap Tables : \E e \in ents[h] : Erase(h, e)
          \/ \E o \in Accessible, v \in Accessible : SetMetatable(o, v) \/ AddReference(o, v)
          \/ \E t : \E u \in Upvals : \E V : Capture(t, u, V)
          \/ \E u \in Accessible \cap Upvals :
                \E V \in {{}} \cup {{v} : v \in Accessible \cap Held} : SetUpval(u, V)
          \/ \E u \in Accessible \cap Upvals : CloseUpval(u)
      BY ProgramCases, Zenon
    <2>2. \A V \in {{}} \cup {{v} : v \in Accessible \cap Held} : V \in SUBSET Live
      BY <1>0
    <2> QED BY <1>0, <1>3, <1>4, <1>5, <1>6, <1>7, <1>8, <1>9, <1>10, <1>11, <2>1, <2>2

(* A live table holds no key, emptied entries included, whose object has   *)
(* been reclaimed: luaH_get never compares with a freed address.           *)
THEOREM EmptiedKeysStayLive ==
  ASSUME ~RetuneAllWeak
  PROVE  Spec => []EmptiedKeysLive
  <1>1. Init => EmptiedKeysLive
    BY DEF Init, EmptiedKeysLive, KeyObjs, Obj
  <1>2. ASSUME TypeOK, GcInv, EmptiedKeysLive, [Next]_vars
        PROVE  EmptiedKeysLive'
    <2>1. CASE UNCHANGED vars
      BY <1>2, <2>1 DEF vars, colours, data, EmptiedKeysLive, Live
    <2> QED BY <1>2, <2>1, CollectorKeys, ProgramKeys DEF Next
  <1> QED BY <1>1, <1>2, TypeCorrect, Invariant, PTL DEF Spec

-----------------------------------------------------------------------------
(* What the atomic phase clears.                                           *)

(* While a cycle marks, a linked fully weak table is still fully weak:     *)
(* what RetuneAllWeak = FALSE promises of the program.                     *)
AllWeakMode == Marking => \A h \in allweak : Mode(h) = {"k", "v"}

(* A mode depends on the metatable and its fields only.                    *)
LEMMA ModeKept ==
  ASSUME NEW h, strong'[h] = strong[h], \A m \in strong[h] : mode'[m] = mode[m]
  PROVE  Mode(h)' = Mode(h)
  <1>1. {mode'[m] : m \in strong'[h]} = {mode[m] : m \in strong[h]}
    OBVIOUS
  <1> QED BY <1>1 DEF Mode

(* A linked fully weak table keeps its mode, step by step.                 *)
LEMMA AllWeakModeNext ==
  ASSUME TypeOK, GcInv, AllWeakMode, Next, ~RetuneAllWeak
  PROVE  AllWeakMode'
  <1>1. CASE ~Marking'
    BY <1>1 DEF AllWeakMode
  <1>2. CASE allweak' = {}
    BY <1>2 DEF AllWeakMode
  <1>3. ASSUME NEW h, strong'[h] = strong[h], \A m \in strong[h] : mode'[m] = mode[m],
               Marking => h \in allweak
        PROVE  Marking => Mode(h)' = {"k", "v"}
    BY <1>3, ModeKept DEF AllWeakMode
  <1>4. ASSUME phase' = phase, allweak' = allweak,
               Marking => \A h \in allweak : /\ strong'[h] = strong[h]
                                             /\ \A m \in strong[h] : mode'[m] = mode[m]
        PROVE  AllWeakMode'
    BY <1>3, <1>4 DEF AllWeakMode, Marking
  <1>5. CASE Collector
    <2>1. ASSUME NEW h \in Tables, TraverseAllWeak(h)
          PROVE  AllWeakMode'
      <3>1. /\ Marking /\ allweak' = allweak \cup {h} /\ strong' = strong /\ mode' = mode
            /\ Mode(h) = {"k", "v"}
        BY <2>1 DEF TraverseAllWeak, InPropagate, Marking
      <3>2. \A x \in allweak \cup {h} : Mode(x)' = Mode(x)
        BY <3>1, ModeKept
      <3> QED BY <3>1, <3>2 DEF AllWeakMode
    <2>2. CASE GrayEmpty
      <3>1. Marking /\ allweak' = allweak /\ strong' = strong /\ mode' = mode
        BY <2>2 DEF GrayEmpty, Marking, lists, data
      <3>2. \A x \in allweak : Mode(x)' = Mode(x)
        BY <3>1, ModeKept
      <3> QED BY <3>1, <3>2 DEF AllWeakMode
    <2>3. ASSUME NEW o, InPropagate(o), allweak' = allweak
          PROVE  AllWeakMode'
      <3>1. phase' = phase /\ strong' = strong /\ mode' = mode
        BY <2>3 DEF InPropagate
      <3> QED BY <1>4, <2>3, <3>1
    <2>4. ASSUME NEW h \in Tables, TraverseWeakValues(h) \/ TraverseEphemeron(h)
          PROVE  AllWeakMode'
      <3>1. InPropagate(h) /\ \E S : Postpone(h, S)
        BY <2>4 DEF TraverseWeakValues, TraverseEphemeron
      <3> QED BY <2>3, <3>1 DEF Postpone
    <2>5. ASSUME NEW o, TraverseStrongTable(o) \/ TraverseFunction(o) \/ TraverseThread(o)
          PROVE  AllWeakMode'
      BY <2>3, <2>5 DEF TraverseStrongTable, TraverseFunction, TraverseThread, Blacken, Postpone
    <2>6. ASSUME FinishMarking \/ SweepDone \/ (\E o \in Obj : SweepSurvivor(o) \/ Free(o))
          PROVE  ~Marking'
      BY <2>6 DEF FinishMarking, SweepDone, SweepSurvivor, Free, Marking
    <2>7. StartCycle => allweak' = {}
      BY DEF StartCycle
    <2> QED BY <1>1, <1>2, <1>5, <2>1, <2>2, <2>4, <2>5, <2>6, <2>7 DEF Collector
  <1>6. CASE Program
    <2>0. allweak \subseteq Tables /\ (Marking => \A h \in allweak : mark[h] # "free")
          /\ \A h \in allweak : h \in Obj /\ h \notin Funcs \cup Userdata \cup Threads \cup Upvals
      BY KindsAssumption DEF TypeOK, GcInv, Linking, NonWhite, Obj
    <2>1. ASSUME NEW o, NEW X, phase' = phase, allweak' = allweak, mode' = mode,
                 strong' = [strong EXCEPT ![o] = X], Marking => o \notin allweak
          PROVE  AllWeakMode'
      <3>1. Marking => \A h \in allweak : strong'[h] = strong[h]
        BY <2>0, <2>1 DEF TypeOK
      <3> QED BY <1>4, <2>1, <3>1
    <2>2. ASSUME phase' = phase, allweak' = allweak, mode' = mode, strong' = strong
          PROVE  AllWeakMode'
      BY <1>4, <2>2
    <2>3. ASSUME NEW o, NEW K, Alloc(o, K)
          PROVE  AllWeakMode'
      <3>1. Marking => o \notin allweak
        BY <2>0, <2>3 DEF Alloc
      <3> QED BY <2>1, <2>3, <3>1 DEF Alloc, lists
    <2>4. ASSUME NEW h, NEW m, SetMetatable(h, m) \/ RemoveMetatable(h)
          PROVE  AllWeakMode'
      BY <2>1, <2>4 DEF SetMetatable, RemoveMetatable, colours, lists
    <2>5. ASSUME NEW m, NEW md, SetMode(m, md)
          PROVE  AllWeakMode'
      <3>1. /\ phase' = phase /\ allweak' = allweak /\ strong' = strong
            /\ mode' = [mode EXCEPT ![m] = md] /\ \A h \in allweak : m \notin strong[h]
        BY <2>5 DEF SetMode, colours, lists
      <3>2. \A h \in allweak : \A x \in strong[h] : mode'[x] = mode[x]
        BY <2>0, <3>1 DEF TypeOK
      <3> QED BY <1>4, <3>1, <3>2
    <2>6. ASSUME NEW o \in Funcs \cup Userdata, NEW v, AddReference(o, v)
          PROVE  AllWeakMode'
      BY <2>0, <2>1, <2>6 DEF AddReference
    <2>7. ASSUME NEW t \in Threads, NEW v, Push(t, v) \/ Pop(t, v)
          PROVE  AllWeakMode'
      BY <2>0, <2>1, <2>7 DEF Push, Pop, colours, lists
    <2>8. ASSUME NEW t, NEW u \in Upvals, NEW V, Capture(t, u, V) \/ SetUpval(u, V)
          PROVE  AllWeakMode'
      BY <2>0, <2>1, <2>8 DEF Capture, SetUpval, lists
    <2>9. ASSUME NEW o, NEW k, NEW v,
                 \/ Pin(o) \/ Unpin(o) \/ Intern(o) \/ StoreNew(o, k, v) \/ StoreOld(o, k, v)
                 \/ Erase(o, k) \/ CloseUpval(o)
          PROVE  AllWeakMode'
      BY <2>2, <2>9 DEF Pin, Unpin, Intern, StoreNew, StoreOld, Erase, CloseUpval, colours, data, lists
    <2> QED
      <3>1. \/ \E o, K : Alloc(o, K)
            \/ \E h, m : SetMetatable(h, m) \/ RemoveMetatable(h)
            \/ \E m, md : SetMode(m, md)
            \/ \E o \in Funcs \cup Userdata : \E v : AddReference(o, v)
            \/ \E t \in Threads : \E v : Push(t, v) \/ Pop(t, v)
            \/ \E t : \E u \in Upvals : \E V : Capture(t, u, V) \/ SetUpval(u, V)
            \/ \E o, k, v : \/ Pin(o) \/ Unpin(o) \/ Intern(o) \/ StoreNew(o, k, v)
                            \/ StoreOld(o, k, v) \/ Erase(o, k) \/ CloseUpval(o)
        BY <1>6, ProgramCases, Zenon
      <3> QED BY <2>3, <2>4, <2>5, <2>6, <2>7, <2>8, <2>9, <3>1
  <1> QED BY <1>5, <1>6 DEF Next

(* The strings of fully weak tables are among what the atomic phase marks. *)
LEMMA AllWeakFacts ==
  ASSUME TypeOK, GcInv, phase = "enteratomic", NEW h \in allweak
  PROVE  AllWeakKids(h, AtomicMarked) \subseteq AtomicMarked
  <1> DEFINE closed == {S \in SUBSET Heap : AtomicClosed(S)}
  <1>1. AtomicMarked = {o \in Heap : \A S \in closed : o \in S}
    BY DEF AtomicMarked
  <1>2. \A S \in closed : AllWeakKids(h, S) \subseteq S
    BY DEF AtomicClosed
  <1>3. h \in Live /\ Live \subseteq Heap
    BY DEF GcInv, Linking, Marking, NonWhite, Live, Heap
  <1> HIDE DEF closed
  <1>4. AllWeakKids(h, AtomicMarked) \subseteq Live
    <2>1. KeyObjs(Filled(ents[h])) \cup ValObjs(ents[h]) \subseteq Live
      BY <1>3 DEF GcInv, NoDangling, Refers
    <2> QED BY <2>1 DEF AllWeakKids, KeyObjs, ValObjs, Filled
  <1>5. \A S \in closed : AllWeakKids(h, AtomicMarked) \subseteq S
    <2>1. \A S \in closed : AtomicMarked \subseteq S
      BY <1>1
    <2>2. \A S \in closed : AllWeakKids(h, AtomicMarked) \subseteq AllWeakKids(h, S)
      BY <2>1 DEF AllWeakKids, KeyObjs, ValObjs
    <2> QED BY <1>2, <2>2
  <1> QED BY <1>1, <1>3, <1>4, <1>5

(* What a mode can be.                                                     *)
LEMMA ModeType ==
  ASSUME TypeOK, NEW h \in Obj
  PROVE  Mode(h) \in {{}, {"k"}, {"v"}, {"k", "v"}}
  <1>1. \A m \in strong[h] : mode[m] \subseteq {"k", "v"}
    BY DEF TypeOK
  <1>2. Mode(h) \subseteq {"k", "v"}
    BY <1>1, Zenon DEF Mode
  <1> QED BY <1>2

(* The atomic phase marks everything that is strongly reachable: what it   *)
(* marks contains the roots and is closed under strong references, those   *)
(* of the tables it does not visit again included.                         *)
LEMMA StrongMarked ==
  ASSUME TypeOK, GcInv, AllWeakMode, FinishMarking
  PROVE  StronglyReachable \subseteq AtomicMarked
  <1> DEFINE M == AtomicMarked
             closed == {S \in SUBSET Heap : /\ {Root} \cup Pinned \subseteq S
                                            /\ \A o \in S : StrongKids(o, S) \subseteq S}
  <1>1. /\ phase = "enteratomic" /\ Marking /\ M \subseteq Live
        /\ NonWhite \cup refs \subseteq M
        /\ \A o \in AtomicWork(M) : AtomicKids(o, M) \subseteq M
    BY AtomicFacts DEF FinishMarking, Marking
  <1>2. Live \subseteq Heap /\ Live \subseteq Obj
    BY DEF Live, Heap
  <1>3. {Root} \cup Pinned \subseteq M
    BY <1>1 DEF GcInv, Linking, Pinned
  <1>4. \A o \in M : strong[o] \cup (IF o \in Threads THEN Open(o) \cup Captured(o) ELSE {}) \subseteq M
    <2>1. strong' = strong /\ owner' = owner
          /\ \A o \in Obj : mark'[o] \in IF o \in M THEN {"gray", "black"} ELSE {"free", "dead"}
      BY DEF FinishMarking
    <2>2. Live' = M
      BY <1>1, <1>2, <2>1 DEF Live
    <2>3. \A o \in M : Refers(o)' \subseteq M
      BY <2>2, FinishMarkingInv DEF GcInv, NoDangling
    <2>4. \A o : Open(o)' = Open(o) /\ Captured(o)' = Captured(o)
      BY <2>1 DEF Open, Captured
    <2> QED BY <2>1, <2>3, <2>4 DEF Refers
  <1> HIDE DEF M
  <1>5. ASSUME NEW o \in M
        PROVE  StrongKids(o, M) \subseteq M
    <2>1. CASE o \notin Tables
      BY <1>4, <2>1 DEF StrongKids
    <2>2. ASSUME o \in Tables, NEW x, x \in StrongKids(o, M) \ strong[o]
          PROVE  x \in M
      <3>0. o \in Obj /\ o \notin Threads
        BY <2>2, KindsAssumption DEF Obj
      <3>1. x \in KeyObjs(Filled(ents[o])) \cup ValObjs(Filled(ents[o]))
        BY <2>2, <3>0 DEF StrongKids, ValObjs
      <3>2. CASE mark[o] = "black"
        <4>1. KeyObjs(ents[o]) \cup ValObjs(ents[o]) \subseteq NonWhite
          BY <1>1, <3>0, <3>2 DEF GcInv, TriColour
        <4> QED BY <1>1, <3>1, <4>1 DEF KeyObjs, ValObjs, Filled
      <3>3. CASE o \in allweak
        <4>1. Mode(o) = {"k", "v"}
          BY <1>1, <3>3 DEF AllWeakMode
        <4> QED BY <2>2, <3>0, <4>1 DEF StrongKids
      <3>4. CASE o \in AtomicWork(M)
        <4>1. TableKids(o, M) \subseteq M
          BY <1>1, <2>2, <3>4 DEF AtomicKids
        <4>2. CASE Mode(o) = {} \/ Mode(o) = {"v"}
          BY <2>2, <3>0, <4>1, <4>2 DEF StrongKids, TableKids
        <4>3. CASE Mode(o) = {"k"}
          <5>1. x \in ValObjs({e \in Filled(ents[o]) : e[1] \in M \cup Strings \cup {Scalar}})
            BY <2>2, <3>0, <4>3 DEF StrongKids
          <5>2. x \in EphemeronValues(o, M)
            BY <5>1 DEF EphemeronValues, ValObjs, Filled
          <5> QED BY <4>1, <4>3, <5>2 DEF TableKids
        <4>4. CASE Mode(o) = {"k", "v"}
          BY <2>2, <3>0, <4>4 DEF StrongKids
        <4> QED BY <3>0, <4>2, <4>3, <4>4, ModeType
      <3> QED BY <1>1, <2>2, <3>2, <3>3, <3>4, AtomicVisits DEF M
    <2> QED BY <1>4, <2>1, <2>2
  <1>6. M \in closed
    BY <1>1, <1>2, <1>3, <1>5
  <1>7. StronglyReachable = {o \in Heap : \A S \in closed : o \in S}
    BY DEF StronglyReachable
  <1> HIDE DEF closed
  <1> QED BY <1>6, <1>7 DEF M

(* An entry whose sides, a string not counting, are both strongly          *)
(* reachable survives the atomic phase.                                    *)
LEMMA ClearsOnlyWeak ==
  ASSUME TypeOK, GcInv, AllWeakMode, FinishMarking,
         NEW h \in Live \cap Tables, h \in StronglyReachable,
         NEW e \in Filled(ents[h]) \ ents'[h]
  PROVE  \/ e[1] \notin StronglyReachable \cup Strings \cup {Scalar}
         \/ e[2] \notin StronglyReachable \cup Strings \cup {Scalar}
  <1> DEFINE M == AtomicMarked
             visited == AtomicWork(M) \cup allweak
             E == Filled(ents[h])
  <1>1. SUFFICES ASSUME e[1] \in M \cup Strings \cup {Scalar},
                        e[2] \in M \cup Strings \cup {Scalar}
                 PROVE  FALSE
    BY StrongMarked
  <1>2. /\ phase = "enteratomic" /\ h \in M /\ h \in Obj
        /\ M \subseteq Live
        /\ \A o \in AtomicWork(M) : AtomicKids(o, M) \subseteq M
    BY AtomicFacts, StrongMarked DEF FinishMarking, Obj
  <1>3. /\ e \in ents[h] /\ e[2] # Nil /\ e[1] \in Obj \cup {Scalar} /\ e[2] \in Obj \cup {Scalar}
    BY <1>2 DEF Filled, TypeOK
  <1>4. h \in visited /\ (e[1] \notin M \cup {Scalar} \/ e[2] \notin M \cup {Scalar})
    <2> HIDE DEF M
    <2>1. ents'[h] = IF h \in visited
                     THEN {x \in ents[h] : x[1] \in M \cup {Scalar} /\ x[2] \in M \cup {Scalar}}
                     ELSE ents[h]
      BY <1>2 DEF FinishMarking, M
    <2> HIDE DEF visited
    <2> QED BY <1>3, <2>1
  <1>5. e[1] \in Obj => e[1] \in KeyObjs(E)
    BY <1>3 DEF KeyObjs
  <1>6. e[2] \in Obj => e[2] \in ValObjs(E)
    BY <1>3 DEF ValObjs
  <1>7. ASSUME AllWeakKids(h, M) \subseteq M
        PROVE  FALSE
    <2>1. e[2] \in M \cup {Scalar}
      BY <1>1, <1>3, <1>6, <1>7 DEF AllWeakKids
    <2>2. e[1] \in Strings => e[1] \in AllWeakKids(h, M)
      BY <1>1, <1>3, <2>1 DEF AllWeakKids, KeyObjs, Obj
    <2> QED BY <1>1, <1>4, <1>7, <2>1, <2>2
  <1>8. CASE h \in allweak
    BY <1>2, <1>7, <1>8, AllWeakFacts
  <1>9. CASE h \in AtomicWork(M)
    <2> HIDE DEF M
    <2>1. TableKids(h, M) \subseteq M
      BY <1>2, <1>9 DEF AtomicKids
    <2>2. CASE Mode(h) = {}
      <3>1. KeyObjs(E) \cup ValObjs(E) \subseteq M
        BY <2>1, <2>2 DEF TableKids
      <3> QED BY <1>3, <1>4, <1>5, <1>6, <3>1
    <2>3. CASE Mode(h) = {"v"}
      <3>1. KeyObjs(E) \cup (ValObjs(E) \cap Strings) \subseteq M
        BY <2>1, <2>3 DEF TableKids
      <3> QED BY <1>1, <1>3, <1>4, <1>5, <1>6, <3>1
    <2>4. CASE Mode(h) = {"k"}
      <3>1. (KeyObjs(E) \cap Strings) \cup EphemeronValues(h, M) \subseteq M
        BY <2>1, <2>4 DEF TableKids
      <3>2. e[2] \in Obj => e[2] \in EphemeronValues(h, M)
        BY <1>1, <1>3 DEF EphemeronValues
      <3> QED BY <1>1, <1>3, <1>4, <1>5, <3>1, <3>2
    <2>5. CASE Mode(h) = {"k", "v"}
      <3>1. AllWeakKids(h, M) \subseteq M
        BY <2>1, <2>5 DEF TableKids
      <3> QED BY <1>7, <3>1
    <2> QED BY <1>2, <2>2, <2>3, <2>4, <2>5, ModeType
  <1> QED BY <1>4, <1>8, <1>9

(* The collector removes an entry only because of a weak side: neither an  *)
(* entry of a strong table, nor an ephemeron with a live key, nor a pair   *)
(* of strings is ever cleared.                                             *)
THEOREM OnlyWeakCleared ==
  ASSUME ~RetuneAllWeak
  PROVE  Spec => ClearsWeakOnly
  <1>1. Init => AllWeakMode
    BY DEF Init, AllWeakMode, Marking
  <1>2. ASSUME TypeOK, GcInv, AllWeakMode, [Next]_vars
        PROVE  AllWeakMode'
    <2>1. CASE UNCHANGED vars
      BY <1>2, <2>1 DEF vars, colours, data, lists, AllWeakMode, Marking, Mode
    <2> QED BY <1>2, <2>1, AllWeakModeNext
  <1>3. ASSUME TypeOK, GcInv, AllWeakMode
        PROVE  FinishMarking =>
                 LET S == StronglyReachable \cup Strings \cup {Scalar}
                 IN  \A h \in Live \cap Tables : h \in StronglyReachable =>
                       \A e \in Filled(ents[h]) \ ents'[h] : e[1] \notin S \/ e[2] \notin S
    BY <1>3, ClearsOnlyWeak
  <1> QED BY <1>1, <1>2, <1>3, TypeCorrect, Invariant, PTL DEF Spec, ClearsWeakOnly
============================================================================
