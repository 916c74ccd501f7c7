--------------------------- MODULE GcCycleProofs ---------------------------
(***************************************************************************)
(* One whole cycle, for every set of objects: what was out of the          *)
(* program's reach when the cycle began is never marked and is gone when   *)
(* the cycle ends. CycleInv is inductive next to GcInv: until the atomic   *)
(* phase nothing the program or the collector touches refers to a doomed   *)
(* object, so everything but the doomed is closed under what the atomic    *)
(* phase follows, and the least closed set leaves them out.                *)
(***************************************************************************)
EXTENDS GcCycle, GcLists

(* doomed, step by step.                                                   *)
LEMMA StepDoomed ==
  ASSUME CycleNext
  PROVE  /\ phase = "pause" /\ phase' = "propagate" => doomed' = Heap \ Accessible
         /\ ~(phase = "pause" /\ phase' = "propagate") =>
               doomed' = {o \in doomed : mark'[o] # "free" /\ o \notin refs'}
  BY DEF CycleNext

(* What the program can reach is closed under references.                  *)
LEMMA AccessibleClosed ==
  ASSUME TypeOK, GcInv
  PROVE  /\ {Root} \cup Pinned \subseteq Accessible
         /\ \A o \in Accessible : Refers(o) \subseteq Accessible
  <1> DEFINE roots == {Root} \cup Pinned
             edges == UNION {{o} \X Refers(o) : o \in Heap}
             supersets == {roots \cup X : X \in SUBSET (Heap \ roots)}
             closed == {S \in supersets : \A e \in edges : e[1] \in S => e[2] \in S}
  <1>1. Live \subseteq Heap /\ roots \subseteq Live
    BY DEF Live, Heap, GcInv, NoDangling
  <1>2. Accessible = {o \in Heap : \A S \in closed : o \in S}
    BY DEF Accessible
  <1>3. \A S \in closed : roots \subseteq S
    BY Zenon
  <1>4. \A S \in closed : \A e \in edges : e[1] \in S => e[2] \in S
    OBVIOUS
  <1>5. ASSUME NEW o \in Accessible, NEW y \in Refers(o)
        PROVE  y \in Accessible
    <2>1. o \in Heap /\ o \in Live
      BY <1>2, AccessibleLive DEF GcInv
    <2>2. <<o, y>> \in {o} \X Refers(o)
      BY <1>5
    <2>3. <<o, y>> \in edges
      BY <2>1, <2>2, Zenon
    <2>4. y \in Heap
      BY <1>1, <1>5, <2>1 DEF GcInv, NoDangling
    <2>5. \A S \in closed : y \in S
      <3>1. ASSUME NEW S \in closed
            PROVE  y \in S
        <4>1. o \in S
          BY <1>2
        <4>2. <<o, y>>[1] \in S => <<o, y>>[2] \in S
          BY <1>4, <2>3, Zenon
        <4> QED BY <4>1, <4>2
      <3> QED BY <3>1
    <2> HIDE DEF closed
    <2> QED BY <1>2, <2>4, <2>5
  <1>6. roots \subseteq Accessible
    <2> HIDE DEF closed
    <2> QED BY <1>1, <1>2, <1>3
  <1> QED BY <1>5, <1>6

(* While a cycle marks, the doomed are out of reach and what is not doomed *)
(* refers to nothing doomed.                                               *)
LEMMA SealedRefers ==
  ASSUME TypeOK, Sealed, NEW o \in Obj \ doomed
  PROVE  Refers(o) \cap doomed = {}
  <1>1. o \in Threads => Open(o) \cap doomed = {}
    BY DEF Sealed, Open
  <1>2. ASSUME o \in Threads, NEW y \in Captured(o)
        PROVE  y \notin doomed
    <2>1. PICK u \in Open(o) : y \in strong[u]
      BY <1>2, Zenon DEF Captured
    <2>2. u \in Obj \ doomed
      BY <1>1, <1>2, <2>1 DEF Open, Obj
    <2> QED BY <2>1, <2>2 DEF Sealed
  <1> QED BY <1>1, <1>2 DEF Refers, Sealed

(* What was garbage when the cycle began is still out of reach.            *)
LEMMA DoomedOutOfReach ==
  ASSUME TypeOK, GcInv, CycleInv, Marking
  PROVE  Accessible \cap doomed = {}
  <1> DEFINE roots == {Root} \cup Pinned
             edges == UNION {{o} \X Refers(o) : o \in Heap}
             supersets == {roots \cup X : X \in SUBSET (Heap \ roots)}
             closed == {S \in supersets : \A e \in edges : e[1] \in S => e[2] \in S}
             Kept == Heap \ doomed
  <1>1. roots \subseteq Kept /\ Live = Heap
    BY DEF Live, Heap, GcInv, NoDangling, CycleInv, PhaseColours
  <1>2. Kept \in supersets
    <2>1. Kept = roots \cup (Kept \ roots) /\ Kept \ roots \in SUBSET (Heap \ roots)
      BY <1>1
    <2> QED BY <2>1
  <1>3. \A o \in Kept : Refers(o) \subseteq Kept
    <2>1. \A o \in Kept : Refers(o) \subseteq Heap /\ Refers(o) \cap doomed = {}
      BY <1>1, SealedRefers DEF GcInv, NoDangling, CycleInv, Heap
    <2> QED BY <2>1
  <1>4. \A e \in edges : e[1] \in Kept => e[2] \in Kept
    <2> HIDE DEF Kept
    <2> QED BY <1>3
  <1>5. Kept \in closed
    BY <1>2, <1>4
  <1>6. Accessible = {o \in Heap : \A S \in closed : o \in S}
    BY DEF Accessible
  <1> HIDE DEF closed
  <1> QED BY <1>5, <1>6

(* Marking what is not doomed marks nothing doomed.                        *)
LEMMA MarkedSealed ==
  ASSUME TypeOK, Sealed, NEW S, S \cap doomed = {}
  PROVE  /\ Touched(S) \cap doomed = {}
         /\ \A x \in Obj \cap doomed : Marked(S)[x] = mark[x]
  <1> DEFINE W == {o \in Obj : IsWhite(o)}
             a == S \cap W
             b == a \cup ((UNION {strong[u] : u \in a \cap Upvals}) \cap W)
             c == b \cup ((UNION {strong[d] : d \in b \cap Userdata}) \cap W)
  <1>1. Touched(S) = c
    BY DEF Touched
  <1>2. \A o \in Obj \ doomed : \A y \in strong[o] : y \notin doomed
    BY DEF Sealed
  <1>3. a \subseteq Obj \ doomed
    OBVIOUS
  <1>4. b \subseteq Obj \ doomed
    <2>1. ASSUME NEW y \in UNION {strong[u] : u \in a \cap Upvals}
          PROVE  y \notin doomed
      <3>1. PICK u \in a \cap Upvals : y \in strong[u]
        BY <2>1, Zenon
      <3> QED BY <1>2, <1>3, <3>1
    <2> QED BY <1>3, <2>1
  <1>5. c \subseteq Obj \ doomed
    <2> HIDE DEF b
    <2>1. ASSUME NEW y \in UNION {strong[d] : d \in b \cap Userdata}
          PROVE  y \notin doomed
      <3>1. PICK d \in b \cap Userdata : y \in strong[d]
        BY <2>1, Zenon
      <3> QED BY <1>2, <1>4, <3>1
    <2> QED BY <1>4, <2>1
  <1> HIDE DEF c
  <1> QED BY <1>1, <1>5 DEF Marked

-----------------------------------------------------------------------------
(* What a step owes the invariant while the cycle goes on marking.         *)

(* A step that marks and links nothing doomed keeps CycleInv.              *)
LEMMA SealStep ==
  ASSUME TypeOK, GcInv, CycleInv, Marking, phase' \in {"propagate", "enteratomic"},
         doomed' = {o \in doomed : mark'[o] # "free" /\ o \notin refs'},
         markedRefs' \subseteq markedRefs,
         \A o \in doomed : mark'[o] = "white",
         \A o \in doomed \cap refs' : o \in Strings /\ strong'[o] = strong[o] /\ ents'[o] = ents[o],
         \A o \in Obj \ doomed :
            /\ strong'[o] \cap doomed \subseteq strong[o]
            /\ KeyObjs(Filled(ents'[o])) \cap doomed \subseteq KeyObjs(Filled(ents[o]))
            /\ ValObjs(ents'[o]) \cap doomed \subseteq ValObjs(ents[o]),
         \A u \in Upvals \cap doomed : owner'[u] \in {owner[u], Nil}
  PROVE  CycleInv'
  <1>1. Sealed /\ ({Root} \cup Pinned) \cap doomed = {} /\ doomed \subseteq Obj
        /\ doomed' = {o \in doomed : o \notin refs'}
    BY DEF CycleInv, Heap
  <1>2. \A o \in Strings \cap Obj : o \notin Tables \cup Threads /\ strong[o] = {} /\ ents[o] = {}
    BY KindsAssumption DEF GcInv, Shape
  <1>3. Sealed'
    <2>1. ASSUME NEW o \in Obj \ doomed'
          PROVE  (strong'[o] \cup KeyObjs(Filled(ents'[o])) \cup ValObjs(ents'[o])) \cap doomed' = {}
      <3>1. CASE o \notin doomed
        BY <1>1, <3>1 DEF Sealed
      <3>2. CASE o \in doomed
        <4>1. strong'[o] = {} /\ ents'[o] = {}
          BY <1>1, <1>2, <2>1, <3>2
        <4> QED BY <4>1 DEF KeyObjs, ValObjs, Filled
      <3> QED BY <3>1, <3>2
    <2>2. ASSUME NEW u \in Upvals \cap doomed'
          PROVE  owner'[u] \notin Threads \ doomed'
      <3>1. u \in doomed /\ owner'[u] \in {owner[u], Nil} /\ Nil \notin Threads
        BY <1>1, KindsAssumption DEF Obj
      <3>2. owner[u] \notin Threads \ doomed
        BY <1>1, <3>1 DEF Sealed
      <3>3. \A t \in doomed \ doomed' : t \notin Threads
        BY <1>1, <1>2
      <3> QED BY <3>1, <3>2, <3>3
    <2> QED BY <2>1, <2>2 DEF Sealed, KeyObjs, ValObjs, Filled
  <1>4. ({Root} \cup Pinned') \cap doomed' = {}
    BY <1>1 DEF Pinned
  <1>5. doomed' \subseteq Heap' /\ \A o \in doomed' : mark'[o] = "white"
    BY <1>1 DEF Heap
  <1> QED BY <1>3, <1>4, <1>5 DEF CycleInv, Pinned, Marking

(* The first step of a cycle.                                              *)
LEMMA StartCycleCycle ==
  ASSUME TypeOK, GcInv, CycleInv, CycleNext, StartCycle
  PROVE  CycleInv'
  <1> DEFINE S == {Root} \cup refs
  <1>1. /\ phase = "pause" /\ phase' = "propagate" /\ mark' = Marked(S)
        /\ strong' = strong /\ ents' = ents /\ owner' = owner
        /\ refs' = {} /\ markedRefs' = refs
        /\ doomed' = Heap \ Accessible
    BY StepDoomed DEF StartCycle, data
  <1>2. S \subseteq Accessible /\ S \in SUBSET Live /\ Root \in Accessible
    BY AccessibleClosed DEF Pinned, GcInv, NoDangling
  <1>3. \A o \in Accessible : Refers(o) \subseteq Accessible
    BY AccessibleClosed
  <1> HIDE DEF S
  <1>4. Touched(S) \subseteq Accessible
    <2> DEFINE W == {o \in Obj : IsWhite(o)}
               a == S \cap W
               b == a \cup ((UNION {strong[u] : u \in a \cap Upvals}) \cap W)
               c == b \cup ((UNION {strong[d] : d \in b \cap Userdata}) \cap W)
    <2>1. Touched(S) = c
      BY DEF Touched
    <2>2. \A o \in Accessible : \A y \in strong[o] : y \in Accessible
      BY <1>3 DEF Refers
    <2>3. b \subseteq Accessible
      <3>1. ASSUME NEW y \in UNION {strong[u] : u \in a \cap Upvals}
            PROVE  y \in Accessible
        <4>1. PICK u \in a \cap Upvals : y \in strong[u]
          BY <3>1, Zenon
        <4> QED BY <1>2, <2>2, <4>1
      <3> QED BY <1>2, <3>1
    <2>4. c \subseteq Accessible
      <3> HIDE DEF b
      <3>1. ASSUME NEW y \in UNION {strong[d] : d \in b \cap Userdata}
            PROVE  y \in Accessible
        <4>1. PICK d \in b \cap Userdata : y \in strong[d]
          BY <3>1, Zenon
        <4> QED BY <2>2, <2>3, <4>1
      <3> QED BY <2>3, <3>1
    <2> HIDE DEF c
    <2> QED BY <2>1, <2>4
  <1>5. \A x \in Heap \ Accessible : mark'[x] = "white"
    BY <1>1, <1>4 DEF Marked, GcInv, PhaseColours, Heap
  <1>6. Sealed'
    <2>1. ASSUME NEW o \in Obj \ doomed'
          PROVE  (strong[o] \cup KeyObjs(Filled(ents[o])) \cup ValObjs(ents[o])) \cap doomed' = {}
      <3>1. CASE mark[o] = "free"
        BY <3>1 DEF GcInv, Shape, KeyObjs, ValObjs, Filled
      <3>2. CASE mark[o] # "free"
        <4>1. o \in Accessible
          BY <1>1, <3>2 DEF Heap
        <4> QED BY <1>1, <1>3, <4>1 DEF Refers
      <3> QED BY <3>1, <3>2
    <2>2. ASSUME NEW u \in Upvals \cap doomed', owner[u] \in Threads \ doomed'
          PROVE  FALSE
      <3>1. owner[u] \in Heap
        BY <2>2, KindsAssumption DEF GcInv, Shape, IsOpen, Obj
      <3>2. owner[u] \in Accessible /\ owner[u] \in Threads /\ u \in Open(owner[u])
        BY <1>1, <2>2, <3>1 DEF Open
      <3>3. u \in Accessible
        BY <1>3, <3>2 DEF Refers
      <3> QED BY <1>1, <2>2, <3>3
    <2> QED BY <1>1, <2>1, <2>2 DEF Sealed, KeyObjs, ValObjs, Filled
  <1>7. ({Root} \cup Pinned') \cap doomed' = {}
    BY <1>1, <1>2 DEF Pinned, S
  <1>8. doomed' \subseteq Heap'
    BY <1>1, <1>5 DEF Heap
  <1> QED BY <1>1, <1>5, <1>6, <1>7, <1>8 DEF CycleInv, Marking

(* A traversal marks what a gray object refers to.                         *)
LEMMA TraverseCycle ==
  ASSUME TypeOK, GcInv, CycleInv, CycleNext, NEW o \in Obj, InPropagate(o),
         NEW S \in SUBSET (strong[o] \cup KeyObjs(Filled(ents[o])) \cup ValObjs(ents[o])),
         mark' \in {Marked(S), [Marked(S) EXCEPT ![o] = "black"]},
         DropTombstones(o) \/ ents' = ents
  PROVE  CycleInv'
  <1>1. /\ phase = "propagate" /\ phase' = phase /\ o \in gray /\ strong' = strong /\ owner' = owner
        /\ refs' = refs /\ markedRefs' = markedRefs /\ Marking
        /\ doomed' = {x \in doomed : mark'[x] # "free" /\ x \notin refs'}
    BY StepDoomed DEF InPropagate, pins, Marking
  <1>2. Sealed /\ (\A x \in doomed : mark[x] = "white") /\ doomed \subseteq Obj
        /\ Pinned \cap doomed = {}
    BY <1>1 DEF CycleInv, Heap
  <1>3. mark[o] # "white"
    BY <1>1 DEF GcInv, Linking, NonWhite
  <1>4. S \cap doomed = {}
    BY <1>2, <1>3 DEF Sealed
  <1>5. \A x \in doomed : mark'[x] = "white"
    <2>1. Marked(S) \in [Obj -> Colours]
      BY MarkedType
    <2>2. \A x \in doomed : Marked(S)[x] = "white" /\ x # o
      BY <1>2, <1>3, <1>4, MarkedSealed
    <2> QED BY <1>2, <2>1, <2>2
  <1>6. refs \cap doomed = {}
    BY <1>2 DEF Pinned
  <1> QED BY <1>1, <1>5, <1>6, DropFacts, SealStep

(* The atomic phase follows only references.                               *)
LEMMA KidsReferred ==
  ASSUME NEW o, NEW S
  PROVE  /\ AtomicKids(o, S) \subseteq Refers(o)
         /\ AllWeakKids(o, S) \subseteq Refers(o)
  <1>1. ValObjs(Filled(ents[o])) \subseteq ValObjs(ents[o])
    BY DEF ValObjs, Filled
  <1>2. EphemeronValues(o, S) \subseteq ValObjs(ents[o])
    BY DEF EphemeronValues, ValObjs
  <1>3. AllWeakKids(o, S) \subseteq KeyObjs(Filled(ents[o])) \cup ValObjs(ents[o])
    BY DEF AllWeakKids, ValObjs, KeyObjs, Filled
  <1>4. TableKids(o, S) \subseteq strong[o] \cup KeyObjs(Filled(ents[o])) \cup ValObjs(ents[o])
    BY <1>1, <1>2, <1>3 DEF TableKids
  <1> QED BY <1>3, <1>4 DEF AtomicKids, Refers

(* Everything but the doomed is closed under what the atomic phase follows, *)
(* so it marks nothing doomed.                                             *)
LEMMA DoomedUnmarked ==
  ASSUME TypeOK, GcInv, CycleInv, phase = "enteratomic"
  PROVE  AtomicMarked \cap doomed = {}
  <1> DEFINE closed == {S \in SUBSET Heap : AtomicClosed(S)}
             Kept == Heap \ doomed
  <1>1. Marking /\ Sealed /\ (\A x \in doomed : mark[x] = "white") /\ Pinned \cap doomed = {}
        /\ Heap = Live /\ Heap \subseteq Obj
    BY DEF CycleInv, Marking, GcInv, PhaseColours, Heap, Live
  <1>2. NonWhite \cup refs \subseteq Kept
    BY <1>1 DEF NonWhite, Heap, Pinned, GcInv, NoDangling
  <1>3. \A o \in Kept : Refers(o) \subseteq Kept
    <2>1. \A o \in Kept : Refers(o) \subseteq Heap /\ Refers(o) \cap doomed = {}
      BY <1>1, SealedRefers DEF GcInv, NoDangling
    <2> QED BY <2>1
  <1>4. RemarkedValues \subseteq Kept
    <2>1. ASSUME NEW y \in RemarkedValues
          PROVE  y \in Kept
      <3>1. PICK u \in Upvals \cap NonWhite : y \in strong[u]
        BY <2>1, Zenon DEF RemarkedValues
      <3> QED BY <1>2, <1>3, <3>1 DEF Refers
    <2> QED BY <2>1
  <1>5. \A o \in AtomicWork(Kept) : o \in Kept
    BY <1>1, <1>2 DEF AtomicWork, GcInv, Linking
  <1>6. \A o \in allweak : o \in Kept
    BY <1>1, <1>2 DEF GcInv, Linking
  <1> HIDE DEF Kept
  <1>7. \A S : \A o \in Kept : AtomicKids(o, S) \subseteq Kept /\ AllWeakKids(o, S) \subseteq Kept
    BY <1>3, KidsReferred
  <1>8. Kept \in closed
    <2>1. Kept \in SUBSET Heap
      BY DEF Kept
    <2>2. AtomicClosed(Kept)
      BY <1>2, <1>4, <1>5, <1>6, <1>7 DEF AtomicClosed
    <2> QED BY <2>1, <2>2
  <1>9. AtomicMarked = {o \in Heap : \A S \in closed : o \in S}
    BY DEF AtomicMarked
  <1> HIDE DEF closed
  <1> QED BY <1>8, <1>9 DEF Kept

(* A step of the collector keeps CycleInv.                                 *)
LEMMA CollectorCycle ==
  ASSUME TypeOK, GcInv, CycleInv, CycleNext, Collector
  PROVE  CycleInv'
  <1>1. ASSUME NEW o \in Linked, InPropagate(o),
               NEW S \in SUBSET (strong[o] \cup KeyObjs(Filled(ents[o])) \cup ValObjs(ents[o])),
               Blacken(o, S) \/ Postpone(o, S) \/ mark' = Marked(S),
               DropTombstones(o) \/ ents' = ents
        PROVE  CycleInv'
    <2>1. mark' \in {Marked(S), [Marked(S) EXCEPT ![o] = "black"]} /\ o \in Obj
      BY <1>1 DEF Blacken, Postpone, Linked, Obj
    <2> QED BY <1>1, <2>1, TraverseCycle
  <1>2. ASSUME NEW h \in Tables, TraverseStrongTable(h)
        PROVE  CycleInv'
    BY <1>1, <1>2 DEF TraverseStrongTable, Linked
  <1>3. ASSUME NEW h \in Tables, TraverseWeakValues(h)
        PROVE  CycleInv'
    <2>1. PICK met \in SUBSET (ValObjs(ents[h]) \cap Strings) :
             Postpone(h, strong[h] \cup KeyObjs(Filled(ents[h])) \cup met)
      BY <1>3 DEF TraverseWeakValues
    <2>2. InPropagate(h) /\ h \in Linked /\ DropTombstones(h)
      BY <1>3 DEF TraverseWeakValues, Linked
    <2> QED BY <1>1, <2>1, <2>2
  <1>4. ASSUME NEW h \in Tables, TraverseEphemeron(h)
        PROVE  CycleInv'
    <2>1. PICK V \in SUBSET ValObjs(ents[h]) :
             Postpone(h, strong[h] \cup V \cup (KeyObjs(Filled(ents[h])) \cap Strings))
      BY <1>4 DEF TraverseEphemeron
    <2>2. InPropagate(h) /\ h \in Linked /\ DropTombstones(h)
      BY <1>4 DEF TraverseEphemeron, Linked
    <2> QED BY <1>1, <2>1, <2>2
  <1>5. ASSUME NEW h \in Tables, TraverseAllWeak(h)
        PROVE  CycleInv'
    BY <1>1, <1>5 DEF TraverseAllWeak, Linked
  <1>6. ASSUME NEW f \in Funcs, TraverseFunction(f)
        PROVE  CycleInv'
    BY <1>1, <1>6 DEF TraverseFunction, Linked
  <1>7. ASSUME NEW t \in Threads, TraverseThread(t)
        PROVE  CycleInv'
    BY <1>1, <1>7 DEF TraverseThread, Linked
  <1>8. CASE GrayEmpty
    <2>1. /\ Marking /\ phase = "propagate" /\ phase' = "enteratomic"
          /\ UNCHANGED <<mark, strong, ents, owner, refs, markedRefs>>
          /\ doomed' = {x \in doomed : mark'[x] # "free" /\ x \notin refs'}
      BY <1>8, StepDoomed DEF GrayEmpty, Marking, data, pins
    <2>2. (\A x \in doomed : mark[x] = "white") /\ Pinned \cap doomed = {}
      BY <2>1 DEF CycleInv
    <2>3. refs' \cap doomed = {}
      BY <2>1, <2>2 DEF Pinned
    <2> QED BY <2>1, <2>2, <2>3, SealStep
  <1>9. CASE FinishMarking
    <2>1. /\ phase = "enteratomic" /\ phase' = "sweep" /\ tosweep' = Heap
          /\ \A x \in Obj \ AtomicMarked : mark[x] # "free" => mark'[x] = "dead"
      BY <1>9 DEF FinishMarking
    <2>2. doomed' \subseteq doomed /\ doomed \subseteq Heap /\ Heap \subseteq Obj
      BY <2>1, StepDoomed DEF CycleInv, Heap
    <2>3. \A x \in doomed : mark'[x] = "dead"
      BY <2>1, <2>2, DoomedUnmarked DEF Heap
    <2>4. doomed' \subseteq Heap'
      BY <2>2, <2>3 DEF Heap
    <2> QED BY <2>1, <2>2, <2>3, <2>4 DEF CycleInv, Marking
  <1>10. ASSUME NEW o \in Obj, SweepSurvivor(o) \/ Free(o)
         PROVE  CycleInv'
    <2>1. /\ phase = "sweep" /\ phase' = "sweep" /\ tosweep' = tosweep \ {o}
      BY <1>10 DEF SweepSurvivor, Free
    <2>2. doomed' = {x \in doomed : mark'[x] # "free" /\ x \notin refs'}
          /\ doomed \subseteq tosweep /\ (\A x \in doomed : mark[x] = "dead") /\ doomed \subseteq Obj
      BY <2>1, StepDoomed DEF CycleInv, Heap
    <2>3. \A x \in doomed' : mark'[x] = "dead" /\ x # o
      <3>1. CASE SweepSurvivor(o)
        BY <2>2, <3>1 DEF SweepSurvivor, TypeOK
      <3>2. CASE Free(o)
        BY <2>2, <3>2 DEF Free, ClosedColour
      <3> QED BY <1>10, <3>1, <3>2
    <2>4. doomed' \subseteq Heap'
      BY <2>2, <2>3 DEF Heap
    <2> QED BY <2>1, <2>2, <2>3, <2>4 DEF CycleInv, Marking
  <1>11. CASE SweepDone
    <2>1. phase = "sweep" /\ phase' = "pause" /\ tosweep = {}
      BY <1>11 DEF SweepDone
    <2>2. doomed' = {}
      BY <2>1, StepDoomed DEF CycleInv
    <2> QED BY <2>1, <2>2 DEF CycleInv, Marking
  <1> QED BY <1>2, <1>3, <1>4, <1>5, <1>6, <1>7, <1>8, <1>9, <1>10, <1>11, StartCycleCycle
          DEF Collector

-----------------------------------------------------------------------------
(* The program while the cycle marks: all it gets hold of is accessible,   *)
(* so it links nothing doomed, except that Str::new may bring a string     *)
(* back, which is then no longer doomed.                                   *)

(* The references of o change, and a barrier may mark accessible objects.  *)
LEMMA LinkCycle ==
  ASSUME TypeOK, GcInv, CycleInv, CycleNext, Marking, phase' = phase,
         UNCHANGED <<ents, owner, refs, markedRefs>>,
         NEW o \in Obj, NEW X, strong' = [strong EXCEPT ![o] = X],
         X \cap doomed \subseteq strong[o],
         \A x \in doomed : mark'[x] = mark[x]
  PROVE  CycleInv'
  <1>1. /\ \A x \in Obj : strong'[x] \cap doomed \subseteq strong[x]
        /\ (\A x \in doomed : mark'[x] = "white") /\ refs' \cap doomed = {}
        /\ phase' \in {"propagate", "enteratomic"}
        /\ doomed' = {x \in doomed : mark'[x] # "free" /\ x \notin refs'}
    BY StepDoomed DEF TypeOK, CycleInv, Pinned, Marking
  <1> QED BY <1>1, SealStep

(* A barrier for what is in reach marks nothing doomed.                    *)
LEMMA BarrierCycle ==
  ASSUME TypeOK, GcInv, CycleInv, Marking, NEW o, NEW V, V \cap doomed = {}, Barrier(o, V)
  PROVE  \A x \in doomed : mark'[x] = mark[x]
  BY MarkedSealed DEF Barrier, CycleInv, Heap

(* A store into a table of what is in reach keeps it.                      *)
LEMMA StoreCycle ==
  ASSUME TypeOK, GcInv, CycleInv, CycleNext, Marking, phase' = phase,
         UNCHANGED <<strong, owner, refs, markedRefs>>,
         NEW h \in Tables, NEW E, ents' = [ents EXCEPT ![h] = E],
         KeyObjs(Filled(E)) \cap doomed \subseteq KeyObjs(Filled(ents[h])),
         ValObjs(E) \cap doomed \subseteq ValObjs(ents[h]),
         NEW V, BarrierBack(h, V)
  PROVE  CycleInv'
  <1>1. h \in Obj /\ ents'[h] = E /\ \A x \in Obj \ {h} : ents'[x] = ents[x]
    BY DEF TypeOK, Obj
  <1>2. /\ (\A x \in doomed : mark[x] = "white") /\ refs' \cap doomed = {} /\ doomed \subseteq Obj
        /\ phase' \in {"propagate", "enteratomic"}
        /\ doomed' = {x \in doomed : mark'[x] # "free" /\ x \notin refs'}
    BY StepDoomed DEF CycleInv, Pinned, Marking, Heap
  <1>3. \A x \in doomed : mark'[x] = "white"
    BY <1>2 DEF BarrierBack, TypeOK
  <1>4. \A x \in Obj : /\ KeyObjs(Filled(ents'[x])) \cap doomed \subseteq KeyObjs(Filled(ents[x]))
                       /\ ValObjs(ents'[x]) \cap doomed \subseteq ValObjs(ents[x])
    BY <1>1
  <1> QED BY <1>2, <1>3, <1>4, SealStep

(* A new object refers to nothing doomed.                                  *)
LEMMA BirthCycle ==
  ASSUME TypeOK, GcInv, CycleInv, CycleNext, Marking, phase' = phase, markedRefs' = markedRefs,
         NEW o \in Obj, mark[o] = "free", mark' = [mark EXCEPT ![o] = "white"],
         NEW X, X \cap doomed = {}, strong' = [strong EXCEPT ![o] = X], ents' = ents,
         refs' \subseteq refs \cup {o},
         \A u \in Upvals \ {o} : owner'[u] = owner[u]
  PROVE  CycleInv'
  <1>1. /\ (\A x \in doomed : mark[x] = "white") /\ refs \cap doomed = {} /\ doomed \subseteq Obj
        /\ phase' \in {"propagate", "enteratomic"}
        /\ doomed' = {x \in doomed : mark'[x] # "free" /\ x \notin refs'}
    BY StepDoomed DEF CycleInv, Pinned, Marking, Heap
  <1>2. o \notin doomed
    BY <1>1
  <1>3. (\A x \in doomed : mark'[x] = "white") /\ refs' \cap doomed = {}
    BY <1>1, <1>2 DEF TypeOK
  <1>4. \A x \in Obj : strong'[x] \cap doomed \subseteq strong[x]
    BY DEF TypeOK
  <1>5. \A u \in Upvals \cap doomed : owner'[u] = owner[u]
    BY <1>2
  <1> QED BY <1>1, <1>3, <1>4, <1>5, SealStep

(* A step of the program while the cycle marks keeps it.                   *)
LEMMA MarkingProgram ==
  ASSUME TypeOK, GcInv, CycleInv, CycleNext, Program, Marking
  PROVE  CycleInv'
  <1>0. /\ Accessible \cap doomed = {} /\ Accessible \subseteq Obj /\ doomed \subseteq Obj
        /\ \A x \in doomed : mark[x] = "white"
        /\ Pinned \cap doomed = {}
    BY DoomedOutOfReach, AccessibleInHeap DEF CycleInv, Heap
  <1>1. ASSUME NEW o \in Obj, NEW K \in {{}} \cup {{v} : v \in Accessible}, Alloc(o, K)
        PROVE  CycleInv'
    <2>1. K \cap doomed = {}
      BY <1>0
    <2>2. /\ mark[o] = "free" /\ mark' = [mark EXCEPT ![o] = "white"]
          /\ strong' = [strong EXCEPT ![o] = K] /\ refs' = refs \cup {o}
          /\ UNCHANGED <<phase, ents, owner, markedRefs>>
      BY <1>1 DEF Alloc
    <2> QED BY <2>1, <2>2, BirthCycle
  <1>2. ASSUME NEW t \in Accessible \cap Threads, NEW u \in Upvals, NEW V, Capture(t, u, V)
        PROVE  CycleInv'
    <2>1. /\ mark[u] = "free" /\ mark' = [mark EXCEPT ![u] = "white"] /\ u \in Obj
          /\ strong' = [strong EXCEPT ![u] = V] /\ V \subseteq strong[t]
          /\ UNCHANGED <<phase, ents, refs, markedRefs>>
          /\ \A x \in Upvals \ {u} : owner'[x] = owner[x]
      BY <1>2 DEF Capture, pins, TypeOK, Obj
    <2>2. V \cap doomed = {}
      BY <1>0, <2>1 DEF CycleInv, Sealed
    <2> QED BY <2>1, <2>2, BirthCycle
  <1>3. ASSUME phase' = phase, mark' = mark, ents' = ents, owner' = owner, strong' = strong,
               markedRefs' \subseteq markedRefs, refs' \cap doomed = {}
        PROVE  CycleInv'
    <2>1. phase' \in {"propagate", "enteratomic"}
          /\ doomed' = {x \in doomed : mark'[x] # "free" /\ x \notin refs'}
      BY <1>3, StepDoomed DEF Marking
    <2> QED BY <1>0, <1>3, <2>1, SealStep
  <1>4. ASSUME NEW o \in Accessible, Pin(o) \/ Unpin(o)
        PROVE  CycleInv'
    <2>1. /\ UNCHANGED <<phase, mark, ents, owner, strong>> /\ markedRefs' \subseteq markedRefs
          /\ refs' \subseteq refs \cup {o}
      BY <1>4 DEF Pin, Unpin, colours, data
    <2>2. refs' \cap doomed = {}
      BY <1>0, <2>1 DEF Pinned
    <2> QED BY <1>3, <2>1, <2>2
  <1>5. ASSUME NEW m, NEW md, SetMode(m, md)
        PROVE  CycleInv'
    <2>1. /\ UNCHANGED <<phase, mark, ents, owner, strong, refs, markedRefs>>
      BY <1>5 DEF SetMode, colours, pins
    <2>2. refs' \cap doomed = {}
      BY <1>0, <2>1 DEF Pinned
    <2> QED BY <1>3, <2>1, <2>2
  <1>6. ASSUME NEW s \in Strings, Intern(s)
        PROVE  CycleInv'
    <2>1. /\ UNCHANGED <<phase, ents, owner, strong, markedRefs>> /\ refs' = refs \cup {s}
          /\ \A x \in doomed : mark'[x] = "white"
      BY <1>0, <1>6 DEF Intern, data, TypeOK
    <2>2. \A x \in doomed \cap refs' : x = s
      BY <1>0, <2>1 DEF Pinned
    <2>3. phase' \in {"propagate", "enteratomic"}
          /\ doomed' = {x \in doomed : mark'[x] # "free" /\ x \notin refs'}
      BY <2>1, StepDoomed DEF Marking
    <2> QED BY <2>1, <2>2, <2>3, SealStep
  <1>7. ASSUME NEW h \in Tables, NEW k \in Accessible \cup {Scalar},
               NEW v \in Accessible \cup {Scalar}, StoreNew(h, k, v) \/ StoreOld(h, k, v)
        PROVE  CycleInv'
    <2>1. PICK dropped, V : /\ ents' = [ents EXCEPT ![h] = (ents[h] \ dropped) \cup {<<k, v>>}]
                            /\ BarrierBack(h, V)
      <3>1. CASE StoreNew(h, k, v)
        BY <3>1 DEF StoreNew
      <3>2. CASE StoreOld(h, k, v)
        BY <3>2 DEF StoreOld
      <3> QED BY <1>7, <3>1, <3>2
    <2> DEFINE E == (ents[h] \ dropped) \cup {<<k, v>>}
    <2>2. /\ KeyObjs(Filled(E)) \cap doomed \subseteq KeyObjs(Filled(ents[h]))
          /\ ValObjs(E) \cap doomed \subseteq ValObjs(ents[h])
      <3>1. k \notin doomed /\ v \notin doomed
        BY <1>0, KindsAssumption
      <3> QED BY <3>1 DEF KeyObjs, ValObjs, Filled
    <2>3. UNCHANGED <<phase, strong, owner, refs, markedRefs>>
      BY <1>7 DEF StoreNew, StoreOld, pins
    <2>4. ents' = [ents EXCEPT ![h] = E]
      BY <2>1
    <2> HIDE DEF E
    <2> QED BY <2>1, <2>2, <2>3, <2>4, StoreCycle
  <1>8. ASSUME NEW h \in Tables, NEW e \in ents[h], Erase(h, e)
        PROVE  CycleInv'
    <2> DEFINE E == (ents[h] \ {e}) \cup IF e[1] = Scalar THEN {} ELSE {<<e[1], Nil>>}
    <2>1. ents' = [ents EXCEPT ![h] = E] /\ UNCHANGED <<phase, strong, owner, refs, markedRefs>>
          /\ mark' = mark /\ grayagain' = grayagain
      BY <1>8 DEF Erase, colours, pins, lists
    <2>2. BarrierBack(h, {})
      BY <2>1 DEF BarrierBack
    <2>3. /\ KeyObjs(Filled(E)) \subseteq KeyObjs(Filled(ents[h]))
          /\ ValObjs(E) \subseteq ValObjs(ents[h])
      BY KindsAssumption DEF KeyObjs, ValObjs, Filled
    <2> HIDE DEF E
    <2> QED BY <2>1, <2>2, <2>3, StoreCycle
  <1>9. ASSUME NEW o \in Accessible, NEW v \in Accessible, SetMetatable(o, v) \/ AddReference(o, v)
        PROVE  CycleInv'
    <2>1. /\ Barrier(o, {v}) /\ UNCHANGED <<phase, ents, owner, refs, markedRefs>>
          /\ \E X : strong' = [strong EXCEPT ![o] = X] /\ X \subseteq strong[o] \cup {v}
      BY <1>9 DEF SetMetatable, AddReference, pins
    <2>2. PICK X : strong' = [strong EXCEPT ![o] = X] /\ X \subseteq strong[o] \cup {v}
      BY <2>1
    <2>3. {v} \cap doomed = {} /\ X \cap doomed \subseteq strong[o] /\ o \in Obj
      BY <1>0, <2>2
    <2>4. \A x \in doomed : mark'[x] = mark[x]
      BY <2>1, <2>3, BarrierCycle
    <2> QED BY <2>1, <2>2, <2>3, <2>4, LinkCycle
  <1>10. ASSUME NEW u \in Upvals, NEW V \in {{}} \cup {{v} : v \in Accessible \cap Held}, SetUpval(u, V)
         PROVE  CycleInv'
    <2>1. /\ Barrier(u, V) /\ UNCHANGED <<phase, ents, owner, refs, markedRefs>>
          /\ strong' = [strong EXCEPT ![u] = V]
      BY <1>10 DEF SetUpval, pins
    <2>2. V \cap doomed = {} /\ u \in Obj
      BY <1>0 DEF Obj
    <2>3. \A x \in doomed : mark'[x] = mark[x]
      BY <2>1, <2>2, BarrierCycle
    <2> QED BY <2>1, <2>2, <2>3, LinkCycle
  <1>11. ASSUME NEW o \in Obj, NEW v \in Obj, RemoveMetatable(o) \/ Pop(o, v) \/ (Push(o, v) /\ v \in Accessible)
         PROVE  CycleInv'
    <2>1. /\ mark' = mark /\ UNCHANGED <<phase, ents, owner, refs, markedRefs>>
          /\ \E X : strong' = [strong EXCEPT ![o] = X] /\ X \cap doomed \subseteq strong[o]
      BY <1>0, <1>11 DEF RemoveMetatable, Push, Pop, colours, pins
    <2> QED BY <2>1, LinkCycle
  <1>12. ASSUME NEW u \in Accessible \cap Upvals, CloseUpval(u)
         PROVE  CycleInv'
    <2> DEFINE held == {v \in strong[u] : IsWhite(v)}
    <2>1. /\ owner' = [owner EXCEPT ![u] = Nil]
          /\ UNCHANGED <<phase, strong, ents, refs, markedRefs>>
          /\ \/ mark' = mark \/ mark' = [mark EXCEPT ![u] = "black"]
             \/ mark' = [Marked(held) EXCEPT ![u] = "black"]
      BY <1>12 DEF CloseUpval, pins
    <2>2. held \cap doomed = {} /\ u \notin doomed
      BY <1>0 DEF CycleInv, Sealed
    <2> HIDE DEF held
    <2>3. \A x \in doomed : Marked(held)[x] = mark[x]
      BY <1>0, <2>2, MarkedSealed DEF CycleInv
    <2>4. \A x \in doomed : mark'[x] = "white"
      BY <1>0, <2>1, <2>2, <2>3, MarkedType DEF TypeOK
    <2>5. \A x \in Upvals \cap doomed : owner'[x] = owner[x]
      BY <2>1, <2>2 DEF TypeOK
    <2>6. phase' \in {"propagate", "enteratomic"} /\ refs' \cap doomed = {}
          /\ doomed' = {x \in doomed : mark'[x] # "free" /\ x \notin refs'}
      BY <1>0, <2>1, StepDoomed DEF Marking, Pinned
    <2> QED BY <2>1, <2>4, <2>5, <2>6, SealStep
  <1> QED
    <2>1. \/ \E o \in Obj, K \in {{}} \cup {{v} : v \in Accessible} : Alloc(o, K)
          \/ \E o \in Accessible : Pin(o) \/ Unpin(o)
          \/ \E s \in Strings : Intern(s)
          \/ \E h \in Tables, k \in Accessible \cup {Scalar}, v \in Accessible \cup {Scalar} :
                StoreNew(h, k, v) \/ StoreOld(h, k, v)
          \/ \E h \in Tables : \E e \in ents[h] : Erase(h, e)
          \/ \E o \in Accessible, v \in Accessible : SetMetatable(o, v) \/ AddReference(o, v)
          \/ \E o \in Accessible : RemoveMetatable(o)
          \/ \E m, md : SetMode(m, md)
          \/ \E t \in Accessible : \/ \E v \in Accessible : Push(t, v)
                                   \/ \E v \in strong[t] : Pop(t, v)
          \/ \E t \in Accessible \cap Threads, u \in Upvals : \E V : Capture(t, u, V)
          \/ \E u \in Upvals, V \in {{}} \cup {{v} : v \in Accessible \cap Held} : SetUpval(u, V)
          \/ \E u \in Accessible \cap Upvals : CloseUpval(u)
      BY ProgramCases, Zenon
    <2>2. \A o \in Accessible : o \in Obj /\ strong[o] \subseteq Obj
      BY <1>0 DEF TypeOK
    <2> QED BY <1>1, <1>2, <1>4, <1>5, <1>6, <1>7, <1>8, <1>9, <1>10, <1>11, <1>12, <2>1, <2>2

(* Outside the marking phases the program resurrects strings only.         *)
LEMMA DeadStays ==
  ASSUME TypeOK, Program, ~Marking, NEW x \in Obj, mark[x] = "dead", x \notin refs'
  PROVE  mark'[x] = "dead"
  <1>1. ASSUME NEW o, NEW V, Barrier(o, V)
        PROVE  mark'[x] = "dead"
    BY <1>1 DEF Barrier, TypeOK
  <1>2. ASSUME NEW h, NEW V, BarrierBack(h, V)
        PROVE  mark'[x] = "dead"
    BY <1>2 DEF BarrierBack, TypeOK
  <1>3. ASSUME NEW o, NEW K, Alloc(o, K) \/ Intern(o)
        PROVE  mark'[x] = "dead"
    BY <1>3 DEF Alloc, Intern, TypeOK
  <1>4. ASSUME NEW t, NEW u, NEW V, Capture(t, u, V) \/ CloseUpval(u)
        PROVE  mark'[x] = "dead"
    BY <1>4 DEF Capture, CloseUpval, TypeOK
  <1>5. ASSUME NEW h, NEW k, NEW v, \/ StoreNew(h, k, v) \/ StoreOld(h, k, v)
                                    \/ SetMetatable(h, k) \/ AddReference(h, k) \/ SetUpval(h, k)
        PROVE  mark'[x] = "dead"
    BY <1>1, <1>2, <1>5 DEF StoreNew, StoreOld, SetMetatable, AddReference, SetUpval
  <1>6. ASSUME NEW o, NEW v, \/ Pin(o) \/ Unpin(o) \/ Push(o, v) \/ Pop(o, v)
                             \/ RemoveMetatable(o) \/ SetMode(o, v) \/ Erase(o, v)
        PROVE  mark'[x] = "dead"
    BY <1>6 DEF Pin, Unpin, Push, Pop, RemoveMetatable, SetMode, Erase, colours
  <1> QED
    <2>1. \/ \E o, K : Alloc(o, K) \/ Intern(o)
          \/ \E t, u, V : Capture(t, u, V) \/ CloseUpval(u)
          \/ \E h, k, v : \/ StoreNew(h, k, v) \/ StoreOld(h, k, v)
                          \/ SetMetatable(h, k) \/ AddReference(h, k) \/ SetUpval(h, k)
          \/ \E o, v : \/ Pin(o) \/ Unpin(o) \/ Push(o, v) \/ Pop(o, v)
                       \/ RemoveMetatable(o) \/ SetMode(o, v) \/ Erase(o, v)
      BY ProgramCases, Zenon
    <2> QED BY <1>3, <1>4, <1>5, <1>6, <2>1

(* The program leaves the phase and the sweep position to the collector.   *)
LEMMA ProgramPhase ==
  ASSUME Program
  PROVE  phase' = phase /\ tosweep' = tosweep
  BY ProgramCases
     DEF Alloc, Pin, Unpin, Intern, StoreNew, StoreOld, Erase, SetMetatable, RemoveMetatable,
         SetMode, AddReference, Push, Pop, Capture, SetUpval, CloseUpval, colours

(* Any step of the program keeps it.                                       *)
LEMMA ProgramCycle ==
  ASSUME TypeOK, GcInv, CycleInv, CycleNext, Program
  PROVE  CycleInv'
  <1>1. CASE Marking
    BY <1>1, MarkingProgram
  <1>2. CASE ~Marking
    <2>1. /\ phase' = phase /\ tosweep' = tosweep /\ phase \in {"pause", "sweep"}
          /\ doomed' = {x \in doomed : mark'[x] # "free" /\ x \notin refs'}
      BY <1>2, ProgramPhase, StepDoomed DEF Marking, TypeOK
    <2>2. doomed \subseteq Obj
      BY DEF CycleInv, Heap
    <2>3. phase = "sweep" => \A x \in doomed' : mark'[x] = "dead"
      BY <1>2, <2>1, <2>2, DeadStays DEF CycleInv
    <2>4. doomed' \subseteq Heap'
      BY <2>1, <2>2 DEF Heap
    <2> QED BY <2>1, <2>3, <2>4 DEF CycleInv, Marking
  <1> QED BY <1>1, <1>2

-----------------------------------------------------------------------------
(* The history variable observes the collector and constrains nothing, so  *)
(* the invariants of Gc hold of CycleSpec too; CycleInv holds with them.   *)
THEOREM CycleInvariant ==
  ASSUME ~RetuneAllWeak
  PROVE  CycleSpec => [](TypeOK /\ GcInv /\ CycleInv)
  <1>1. CycleSpec => Spec
    <2>1. CycleInit => Init
      BY DEF CycleInit
    <2>2. [CycleNext]_<<vars, doomed>> => [Next]_vars
      BY DEF CycleNext
    <2> QED BY <2>1, <2>2, PTL DEF CycleSpec, Spec
  <1>2. CycleInit => CycleInv
    BY DEF CycleInit, Init, CycleInv, Marking
  <1>3. ASSUME TypeOK, GcInv, CycleInv, [CycleNext]_<<vars, doomed>>
        PROVE  CycleInv'
    <2>1. CASE UNCHANGED <<vars, doomed>>
      BY <1>3, <2>1 DEF vars, colours, data, pins, CycleInv, Sealed, Heap, Marking, Pinned, KeyObjs,
         ValObjs, Filled
    <2>2. CASE CycleNext
      <3>1. Next
        BY <2>2 DEF CycleNext
      <3> QED BY <1>3, <2>2, <3>1, CollectorCycle, ProgramCycle DEF Next
    <2> QED BY <1>3, <2>1, <2>2
  <1> QED BY <1>1, <1>2, <1>3, TypeCorrect, Invariant, PTL DEF CycleSpec

(* What was unreachable when a cycle began is gone when it ends, unless    *)
(* Str::new brought it back: no garbage survives a whole cycle.            *)
THEOREM GarbageFreed ==
  ASSUME ~RetuneAllWeak
  PROVE  CycleSpec => []CycleFreesGarbage
  <1>1. CycleInv => CycleFreesGarbage
    BY DEF CycleInv, CycleFreesGarbage
  <1> QED BY <1>1, CycleInvariant, PTL

(* What was unreachable when the cycle began is never promoted to gray or  *)
(* black.                                                                  *)
THEOREM GarbageNeverMarked ==
  ASSUME ~RetuneAllWeak
  PROVE  CycleSpec => []GarbageStaysWhite
  <1>1. TypeOK /\ CycleInv => GarbageStaysWhite
    BY DEF TypeOK, CycleInv, GarbageStaysWhite, IsWhite, Marking
  <1> QED BY <1>1, CycleInvariant, PTL
============================================================================
