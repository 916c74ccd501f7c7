----------------------------- MODULE GcSafety -----------------------------
(***************************************************************************)
(* Theorems about Gc for every set of objects: the types, and the memory   *)
(* safety of the heap. GcInv is inductive for programs that leave the      *)
(* metatable of a linked fully weak table alone (RetuneAllWeak = FALSE),   *)
(* and implies NoDangling.                                                 *)
(***************************************************************************)
EXTENDS Gc, TLAPS

-----------------------------------------------------------------------------
(* Type correctness.                                                       *)

LEMMA InitType == Init => TypeOK
  BY KindsAssumption DEF Init, TypeOK, Colours, Obj, Linked

LEMMA MarkedType ==
  ASSUME TypeOK, NEW S
  PROVE  Marked(S) \in [Obj -> Colours] /\ GrayWith(S) \subseteq Linked
  <1>1. \A o \in Obj : MarkColour(o) \in Colours
    BY DEF MarkColour, Colours
  <1>2. \A o \in Obj : mark[o] \in Colours
    BY DEF TypeOK
  <1> QED BY <1>1, <1>2 DEF Marked, GrayWith, TypeOK

LEMMA AccessibleInHeap == Accessible \subseteq Heap /\ Accessible \subseteq Obj
  BY DEF Accessible, Heap

LEMMA CollectorType ==
  ASSUME TypeOK, Collector
  PROVE  TypeOK'
  <1> USE DEF TypeOK
  <1>1. CASE StartCycle
    BY <1>1, MarkedType, KindsAssumption DEF StartCycle, data, Linked, Obj, GrayWith
  <1>2. ASSUME NEW h \in Tables, TraverseStrongTable(h)
        PROVE  TypeOK'
    BY <1>2, MarkedType DEF TraverseStrongTable, InPropagate, Blacken, DropTombstones,
         Filled, Colours, pins
  <1>3. ASSUME NEW h \in Tables, TraverseWeakValues(h)
        PROVE  TypeOK'
    <2>1. PICK S : Postpone(h, S)
      BY <1>3 DEF TraverseWeakValues
    <2> QED BY <1>3, <2>1, MarkedType DEF TraverseWeakValues, InPropagate, Postpone,
              DropTombstones, Filled, pins, Linked
  <1>4. ASSUME NEW h \in Tables, TraverseEphemeron(h)
        PROVE  TypeOK'
    <2>1. PICK S : Postpone(h, S)
      BY <1>4 DEF TraverseEphemeron
    <2>2. InPropagate(h) /\ DropTombstones(h)
      BY <1>4 DEF TraverseEphemeron
    <2> QED BY <2>1, <2>2, MarkedType DEF InPropagate, Postpone,
              DropTombstones, Filled, pins, Linked
  <1>5. ASSUME NEW h \in Tables, TraverseAllWeak(h)
        PROVE  TypeOK'
    BY <1>5, MarkedType DEF TraverseAllWeak, InPropagate, pins
  <1>6. ASSUME NEW f \in Funcs, TraverseFunction(f)
        PROVE  TypeOK'
    BY <1>6, MarkedType DEF TraverseFunction, InPropagate, Blacken, Colours, pins
  <1>7. ASSUME NEW t \in Threads, TraverseThread(t)
        PROVE  TypeOK'
    BY <1>7, MarkedType DEF TraverseThread, InPropagate, Postpone, pins, Linked
  <1>8. CASE GrayEmpty
    BY <1>8 DEF GrayEmpty, data, lists, pins
  <1>9. CASE FinishMarking
    BY <1>9 DEF FinishMarking, Relinked, Colours, Heap
  <1>10. ASSUME NEW o \in Obj, SweepSurvivor(o)
         PROVE  TypeOK'
    BY <1>10 DEF SweepSurvivor, Colours, data, lists, pins
  <1>11. ASSUME NEW o \in Obj, Free(o)
         PROVE  TypeOK'
    BY <1>11 DEF Free, ClosedColour, Colours, lists, pins
  <1>12. CASE SweepDone
    BY <1>12 DEF SweepDone, data, lists, pins
  <1> QED BY <1>1, <1>2, <1>3, <1>4, <1>5, <1>6, <1>7, <1>8, <1>9, <1>10, <1>11, <1>12
          DEF Collector

LEMMA BarrierType ==
  ASSUME TypeOK, NEW o \in Obj, NEW V, Barrier(o, V)
  PROVE  mark' \in [Obj -> Colours] /\ gray' \subseteq Linked
  BY MarkedType DEF Barrier, TypeOK, Colours

LEMMA BarrierBackType ==
  ASSUME TypeOK, NEW h \in Tables, NEW V, BarrierBack(h, V)
  PROVE  mark' \in [Obj -> Colours] /\ grayagain' \subseteq Linked
  BY DEF BarrierBack, TypeOK, Colours, Linked, Obj

(* One operation of the program, whatever its accessible operands.         *)
LEMMA ProgramCases ==
  ASSUME Program
  PROVE  \/ \E o \in Obj, K \in {{}} \cup {{v} : v \in Accessible} : Alloc(o, K)
         \/ \E o \in Accessible \cap Held : Pin(o) \/ Unpin(o)
         \/ \E s \in Strings : Intern(s)
         \/ \E h \in Accessible \cap Tables,
               k \in (Accessible \cap Keys) \cup {Scalar},
               v \in (Accessible \cap Held) \cup {Scalar} : StoreNew(h, k, v) \/ StoreOld(h, k, v)
         \/ \E h \in Accessible \cap Tables : \E e \in ents[h] : Erase(h, e)
         \/ \E h \in Accessible \cap Tables, m \in Accessible \cap Metatables : SetMetatable(h, m)
         \/ \E h \in Accessible \cap Tables : RemoveMetatable(h)
         \/ \E h \in Accessible \cap Tables, md \in Modes : SetMode(h, md)
         \/ \E o \in Accessible \cap (Funcs \cup Userdata), v \in Accessible : AddReference(o, v)
         \/ \E t \in Accessible \cap Threads :
               \/ \E v \in Accessible \cap Held : Push(t, v)
               \/ \E v \in strong[t] : Pop(t, v)
               \/ \E u \in Upvals, V \in {{}} \cup {{v} : v \in strong[t]} : Capture(t, u, V)
         \/ \E u \in Accessible \cap Upvals :
               \/ \E V \in {{}} \cup {{v} : v \in Accessible \cap Held} : SetUpval(u, V)
               \/ CloseUpval(u)
  BY Zenon DEF Program

LEMMA ProgramType ==
  ASSUME TypeOK, Program
  PROVE  TypeOK'
  <1> USE AccessibleInHeap DEF TypeOK
  <1>1. ASSUME NEW o \in Obj, NEW K \in {{}} \cup {{v} : v \in Accessible}, Alloc(o, K)
        PROVE  TypeOK'
    BY <1>1 DEF Alloc, Colours, lists
  <1>2. ASSUME NEW o \in Accessible, Pin(o) \/ Unpin(o)
        PROVE  TypeOK'
    BY <1>2 DEF Pin, Unpin, colours, data, lists
  <1>3. ASSUME NEW s \in Strings, Intern(s)
        PROVE  TypeOK'
    BY <1>3 DEF Intern, Colours, data, lists, Obj
  <1>4. ASSUME NEW h \in Tables, NEW k \in Accessible \cup {Scalar},
               NEW v \in Accessible \cup {Scalar}, StoreNew(h, k, v)
        PROVE  TypeOK'
    <2>1. mark' \in [Obj -> Colours] /\ grayagain' \subseteq Linked
      BY <1>4, BarrierBackType DEF StoreNew
    <2>2. ents' \in [Obj -> SUBSET ((Obj \cup {Scalar}) \X (Obj \cup {Scalar, Nil}))]
      <3>1. PICK dropped : ents' = [ents EXCEPT ![h] = (ents[h] \ dropped) \cup {<<k, v>>}]
        BY <1>4 DEF StoreNew
      <3>2. <<k, v>> \in (Obj \cup {Scalar}) \X (Obj \cup {Scalar, Nil})
        OBVIOUS
      <3> QED BY <3>1, <3>2
    <2> QED BY <1>4, <2>1, <2>2 DEF StoreNew, pins
  <1>5. ASSUME NEW h \in Tables, NEW k \in Accessible \cup {Scalar},
               NEW v \in Accessible \cup {Scalar}, StoreOld(h, k, v)
        PROVE  TypeOK'
    <2>1. mark' \in [Obj -> Colours] /\ grayagain' \subseteq Linked
      BY <1>5, BarrierBackType DEF StoreOld
    <2>2. ents' \in [Obj -> SUBSET ((Obj \cup {Scalar}) \X (Obj \cup {Scalar, Nil}))]
      <3>1. PICK e : ents' = [ents EXCEPT ![h] = (ents[h] \ {e}) \cup {<<k, v>>}]
        BY <1>5 DEF StoreOld
      <3>2. <<k, v>> \in (Obj \cup {Scalar}) \X (Obj \cup {Scalar, Nil})
        OBVIOUS
      <3> QED BY <3>1, <3>2
    <2> QED BY <1>5, <2>1, <2>2 DEF StoreOld, pins
  <1>6. ASSUME NEW h \in Tables, NEW e \in ents[h], Erase(h, e)
        PROVE  TypeOK'
    <2>1. ents' \in [Obj -> SUBSET ((Obj \cup {Scalar}) \X (Obj \cup {Scalar, Nil}))]
      BY <1>6 DEF Erase, Obj
    <2> QED BY <1>6, <2>1 DEF Erase, colours, lists, pins
  <1>7. ASSUME NEW h \in Tables, NEW m \in Accessible, SetMetatable(h, m)
        PROVE  TypeOK'
    <2>1. mark' \in [Obj -> Colours] /\ gray' \subseteq Linked
      BY <1>7, BarrierType DEF SetMetatable, Obj
    <2> QED BY <1>7, <2>1 DEF SetMetatable, pins
  <1>8. ASSUME NEW h \in Tables, RemoveMetatable(h)
        PROVE  TypeOK'
    BY <1>8 DEF RemoveMetatable, colours, lists, pins
  <1>9. ASSUME NEW h \in Tables, NEW md \in Modes, SetMode(h, md)
        PROVE  TypeOK'
    BY <1>9, ModesAssumption DEF SetMode, colours, lists, pins
  <1>10. ASSUME NEW o \in Funcs \cup Userdata, NEW v \in Accessible, AddReference(o, v)
         PROVE  TypeOK'
    <2>1. mark' \in [Obj -> Colours] /\ gray' \subseteq Linked
      BY <1>10, BarrierType DEF AddReference, Obj
    <2> QED BY <1>10, <2>1 DEF AddReference, pins
  <1>11. ASSUME NEW t \in Threads, NEW v \in Accessible, Push(t, v)
         PROVE  TypeOK'
    BY <1>11 DEF Push, colours, lists, pins
  <1>12. ASSUME NEW t \in Threads, NEW v \in strong[t], Pop(t, v)
         PROVE  TypeOK'
    BY <1>12 DEF Pop, colours, lists, pins
  <1>13. ASSUME NEW t \in Threads, NEW u \in Upvals, NEW V, Capture(t, u, V)
         PROVE  TypeOK'
    BY <1>13 DEF Capture, Colours, lists, pins, Obj
  <1>14. ASSUME NEW u \in Upvals, NEW V \in SUBSET Obj, SetUpval(u, V)
         PROVE  TypeOK'
    <2>1. mark' \in [Obj -> Colours] /\ gray' \subseteq Linked
      BY <1>14, BarrierType DEF SetUpval, Obj
    <2> QED BY <1>14, <2>1 DEF SetUpval, pins
  <1>15. ASSUME NEW u \in Upvals, CloseUpval(u)
         PROVE  TypeOK'
    <2>1. mark' \in [Obj -> Colours] /\ gray' \subseteq Linked
      <3> DEFINE held == {v \in strong[u] : IsWhite(v)}
      <3>1. Marked(held) \in [Obj -> Colours] /\ GrayWith(held) \subseteq Linked
        BY MarkedType
      <3> HIDE DEF held
      <3> QED BY <1>15, <3>1 DEF CloseUpval, Colours, held
    <2> QED BY <1>15, <2>1 DEF CloseUpval, pins
  <1> QED BY ProgramCases, <1>1, <1>2, <1>3, <1>4, <1>5, <1>6, <1>7, <1>8, <1>9, <1>10,
             <1>11, <1>12, <1>13, <1>14, <1>15

(* The variables keep their types.                                         *)
THEOREM TypeCorrect == Spec => []TypeOK
  <1>1. ASSUME TypeOK, [Next]_vars
        PROVE  TypeOK'
    <2>1. CASE UNCHANGED vars
      BY <1>1, <2>1 DEF TypeOK, vars, colours, data, lists, pins, Colours, Linked
    <2> QED BY <1>1, <2>1, CollectorType, ProgramType DEF Next
  <1> QED BY <1>1, InitType, PTL DEF Spec

-----------------------------------------------------------------------------
(* The invariant.                                                          *)

LEMMA InitInv == Init => GcInv
  BY KindsAssumption DEF Init, GcInv, Shape, PhaseColours, NoDangling, TriColour, Linking,
     TwupsExact, Heap, Live, Marking, Refers, Pinned, KeyObjs, ValObjs, Filled, Open,
     Captured, IsOpen, Obj

(* Only live objects are accessible.                                       *)
LEMMA AccessibleLive ==
  ASSUME TypeOK, NoDangling
  PROVE  Accessible \subseteq Live
  <1> DEFINE roots == {Root} \cup Pinned
             edges == UNION {{o} \X Refers(o) : o \in Heap}
             supersets == {roots \cup X : X \in SUBSET (Heap \ roots)}
             closed == {S \in supersets : \A e \in edges : e[1] \in S => e[2] \in S}
  <1>1. Live \subseteq Heap /\ roots \subseteq Live
    BY DEF Live, Heap, NoDangling
  <1>2. Live \in supersets
    <2>1. Live = roots \cup (Live \ roots) /\ Live \ roots \in SUBSET (Heap \ roots)
      BY <1>1
    <2> QED BY <2>1
  <1>3. \A e \in edges : e[1] \in Live => e[2] \in Live
    BY DEF NoDangling
  <1>4. Live \in closed
    BY <1>2, <1>3
  <1>5. Accessible = {o \in Heap : \A S \in closed : o \in S}
    BY DEF Accessible
  <1> HIDE DEF closed
  <1> QED BY <1>4, <1>5

-----------------------------------------------------------------------------
(* Gc::mark.                                                               *)

LEMMA TouchedFacts ==
  ASSUME TypeOK, Shape, NEW S
  PROVE  /\ Touched(S) \subseteq Obj
         /\ \A x \in Touched(S) : IsWhite(x)
         /\ \A x \in S \cap Obj : IsWhite(x) => x \in Touched(S)
         /\ \A x \in Touched(S) : x \in Upvals \cup Userdata =>
               \A y \in strong[x] : IsWhite(y) => y \in Touched(S)
  <1> DEFINE W == {o \in Obj : IsWhite(o)}
             a == S \cap W
             b == a \cup ((UNION {strong[u] : u \in a \cap Upvals}) \cap W)
             c == b \cup ((UNION {strong[d] : d \in b \cap Userdata}) \cap W)
  <1>1. Touched(S) = c
    BY DEF Touched
  <1>2. \A x \in c : x \in Userdata => x \in b
    BY KindsAssumption DEF Shape
  <1>3. \A x \in c : x \in Upvals => x \in a
    BY KindsAssumption DEF Shape
  <1>4. \A x \in Upvals \cup Userdata : strong[x] \subseteq Obj
    BY DEF TypeOK, Obj
  <1>5. ASSUME NEW x \in c, x \in Upvals, NEW y \in strong[x], IsWhite(y)
        PROVE  y \in c
    <2>1. strong[x] \in {strong[u] : u \in a \cap Upvals}
      BY <1>3, <1>5, Zenon
    <2>2. y \in UNION {strong[u] : u \in a \cap Upvals}
      BY <2>1, Zenon
    <2>3. y \in W
      BY <1>4, <1>5
    <2> QED BY <2>2, <2>3, Zenon
  <1>6. ASSUME NEW x \in c, x \in Userdata, NEW y \in strong[x], IsWhite(y)
        PROVE  y \in c
    <2>1. strong[x] \in {strong[d] : d \in b \cap Userdata}
      BY <1>2, <1>6, Zenon
    <2>2. y \in UNION {strong[d] : d \in b \cap Userdata}
      BY <2>1, Zenon
    <2>3. y \in W
      BY <1>4, <1>6
    <2> QED BY <2>2, <2>3, Zenon
  <1>7. c \subseteq W
    BY Zenon
  <1>8. \A x \in S \cap Obj : IsWhite(x) => x \in c
    BY Zenon
  <1> HIDE DEF c
  <1> QED BY <1>1, <1>5, <1>6, <1>7, <1>8

(* The colours that have left white in N.                                  *)
Coloured(N) == {o \in Obj : N[o] \in {"gray", "black"}}

(* Marking live objects keeps the tri-colour invariant; what becomes gray  *)
(* is linked, or is an open upvalue.                                       *)
LEMMA MarkedFacts ==
  ASSUME TypeOK, GcInv, phase # "sweep", NEW S \in SUBSET Live
  PROVE  /\ \A o \in Obj : Marked(S)[o] = "black" =>
               /\ strong[o] \cup KeyObjs(ents[o]) \cup ValObjs(ents[o]) \subseteq Coloured(Marked(S))
               /\ o \in Upvals => ~IsOpen(o)
               /\ o \notin Threads
         /\ NonWhite \cup S \cup Touched(S) \subseteq Coloured(Marked(S))
         /\ \A o \in Obj : Marked(S)[o] = "gray" =>
               \/ mark[o] = "gray"
               \/ o \in Touched(S) \cap Linked
               \/ o \in Upvals /\ IsOpen(o)
         /\ \A o \in Obj : mark[o] \in {"free", "gray", "black"} => Marked(S)[o] = mark[o]
         /\ \A o \in Obj : Marked(S)[o] = "free" <=> mark[o] = "free"
         /\ \A o \in Obj : Marked(S)[o] # "dead"
  <1> DEFINE N == Marked(S)
  <1>0. S \subseteq Obj /\ \A o \in Obj : mark[o] # "dead"
    BY DEF Live, GcInv, PhaseColours, Heap, TypeOK, Marking
  <1>p. (\E o \in Obj : mark[o] \in {"gray", "black"}) => Marking
    BY DEF GcInv, PhaseColours, Heap, TypeOK, Marking
  <1>1. \A o \in Obj : N[o] = IF o \in Touched(S) THEN MarkColour(o) ELSE mark[o]
    BY DEF Marked
  <1>2. \A o \in Obj : MarkColour(o) \in {"gray", "black"}
    BY DEF MarkColour
  <1>3. \A o \in Touched(S) : mark[o] = "white"
    BY <1>0, TouchedFacts DEF IsWhite, GcInv
  <1>4. \A x \in Live : x \in Touched(S) \/ ~IsWhite(x) => x \in Coloured(N)
    BY <1>1, <1>2 DEF Coloured, Live, IsWhite
  <1>5. \A x \in S : x \in Coloured(N)
    BY <1>0, <1>4, TouchedFacts DEF GcInv
  <1>6. NonWhite \subseteq Coloured(N)
    BY <1>1, <1>2 DEF Coloured, NonWhite
  <1>7. Touched(S) \subseteq Coloured(N)
    BY <1>1, <1>2, TouchedFacts DEF GcInv, Coloured
  <1>8. ASSUME NEW o \in Obj, N[o] = "black"
        PROVE  /\ strong[o] \cup KeyObjs(ents[o]) \cup ValObjs(ents[o]) \subseteq Coloured(N)
               /\ o \in Upvals => ~IsOpen(o)
               /\ o \notin Threads
    <2>1. CASE o \notin Touched(S)
      <3>1. mark[o] = "black"
        BY <1>1, <1>8, <2>1
      <3> QED BY <1>p, <1>6, <3>1 DEF GcInv, TriColour, Linking
    <2>2. CASE o \in Touched(S)
      <3>1. o \in Strings \cup Userdata \/ (o \in Upvals /\ ~IsOpen(o))
        BY <1>1, <1>8, <2>2 DEF MarkColour
      <3>2. o \notin Tables /\ o \notin Threads /\ (o \in Upvals => ~IsOpen(o))
        BY <3>1, KindsAssumption
      <3>3. ents[o] = {}
        BY <3>2 DEF GcInv, Shape
      <3>4. \A x \in strong[o] : x \in Live
        BY <1>3, <2>2 DEF GcInv, NoDangling, Refers, Live
      <3>5. \A x \in strong[o] : x \in Coloured(N)
        <4>1. CASE o \in Strings
          BY <4>1 DEF GcInv, Shape
        <4>2. CASE o \in Upvals \cup Userdata
          BY <1>4, <2>2, <3>4, <4>2, TouchedFacts DEF GcInv
        <4> QED BY <3>1, <4>1, <4>2
      <3> QED BY <3>2, <3>3, <3>5 DEF KeyObjs, ValObjs
    <2> QED BY <2>1, <2>2
  <1>9. ASSUME NEW o \in Obj, N[o] = "gray"
        PROVE  \/ mark[o] = "gray"
               \/ o \in Touched(S) \cap Linked
               \/ o \in Upvals /\ IsOpen(o)
    BY <1>1, <1>9 DEF MarkColour, Linked, Obj
  <1>10. \A o \in Obj : mark[o] \in {"free", "gray", "black"} => N[o] = mark[o]
    BY <1>1, <1>3
  <1>11. \A o \in Obj : N[o] = "free" <=> mark[o] = "free"
    BY <1>1, <1>2, <1>3
  <1>12. \A o \in Obj : N[o] # "dead"
    BY <1>0, <1>1, <1>2
  <1> QED BY <1>5, <1>6, <1>7, <1>8, <1>9, <1>10, <1>11, <1>12

-----------------------------------------------------------------------------
(* The collector.                                                          *)

LEMMA StartCycleInv ==
  ASSUME TypeOK, GcInv, StartCycle
  PROVE  GcInv'
  <1> DEFINE S == {Root} \cup refs
  <1>0. S \in SUBSET Live /\ phase = "pause" /\ mark' = Marked(S) /\ phase' = "propagate"
    BY DEF GcInv, NoDangling, Pinned, StartCycle
  <1>1. /\ \A o \in Obj : mark'[o] = "black" =>
              /\ strong[o] \cup KeyObjs(ents[o]) \cup ValObjs(ents[o]) \subseteq NonWhite'
              /\ o \in Upvals => ~IsOpen(o)
              /\ o \notin Threads
        /\ NonWhite \cup S \cup Touched(S) \subseteq NonWhite'
        /\ \A o \in Obj : mark'[o] = "gray" =>
              \/ mark[o] = "gray"
              \/ o \in Touched(S) \cap Linked
              \/ o \in Upvals /\ IsOpen(o)
        /\ \A o \in Obj : mark'[o] = "free" <=> mark[o] = "free"
        /\ \A o \in Obj : mark'[o] # "dead"
    <2>1. Coloured(Marked(S)) = NonWhite'
      BY <1>0 DEF Coloured, NonWhite
    <2>2. phase # "sweep"
      BY <1>0
    <2> HIDE DEF S
    <2> QED BY <1>0, <2>1, <2>2, MarkedFacts
  <1>2. \A o \in Obj : mark[o] \notin {"dead", "gray", "black"}
    BY <1>0 DEF GcInv, PhaseColours, Heap
  <1>3. strong' = strong /\ ents' = ents /\ owner' = owner /\ twups' = twups
        /\ refs' = {} /\ markedRefs' = refs /\ grayagain' = {} /\ allweak' = {}
        /\ gray' = Touched(S) \cap Linked
    BY DEF StartCycle, data
  <1> HIDE DEF S
  <1>4. Live' = Live /\ Heap' = Heap /\ Heap = Live
    BY <1>1, <1>2, CollectorType DEF Live, Heap, TypeOK, Colours, Collector
  <1>5. \A o : Refers(o)' = Refers(o)
    BY <1>3 DEF Refers, KeyObjs, ValObjs, Filled, Open, Captured
  <1>6. Shape' /\ PhaseColours'
    BY <1>0, <1>1, <1>3, <1>4 DEF GcInv, Shape, PhaseColours, IsOpen, Marking
  <1>7. NoDangling' /\ TwupsExact'
    BY <1>3, <1>4, <1>5 DEF GcInv, NoDangling, TwupsExact, Pinned, S
  <1>8. TriColour'
    BY <1>1, <1>3 DEF TriColour, IsOpen, KeyObjs, ValObjs
  <1>9. Linking'
    <2>1. {Root} \cup markedRefs' \subseteq NonWhite'
      BY <1>1, <1>3 DEF S
    <2> QED BY <1>1, <1>2, <1>3, <2>1 DEF Linking, IsOpen, Obj
  <1> QED BY <1>6, <1>7, <1>8, <1>9 DEF GcInv

(* One traversal: everything marked was live, and o either keeps a place in *)
(* a list or is black after all it refers to has been marked.              *)
LEMMA TraverseInv ==
  ASSUME TypeOK, GcInv, NEW o \in Obj, InPropagate(o), NEW S \in SUBSET Live,
         \A x \in Obj \ {o} : mark'[x] = Marked(S)[x],
         mark'[o] \in {"gray", "black"},
         \A x \in Obj : KeyObjs(ents'[x]) \subseteq KeyObjs(ents[x])
                        /\ KeyObjs(Filled(ents'[x])) \subseteq KeyObjs(Filled(ents[x]))
                        /\ ValObjs(ents'[x]) \subseteq ValObjs(ents[x]),
         \A x \in Obj : ents[x] = {} => ents'[x] = {},
         gray' = GrayWith(S) \ {o},
         grayagain \subseteq grayagain' /\ grayagain' \subseteq grayagain \cup {o},
         allweak \subseteq allweak' /\ allweak' \subseteq allweak \cup {o},
         o \in allweak' \ allweak => strong[o] \subseteq S,
         mark'[o] = "gray" => o \in grayagain' \cup allweak',
         mark'[o] = "black" => mark[o] = "black" \/
            /\ o \notin Threads \cup Upvals
            /\ strong[o] \cup KeyObjs(ents'[o]) \cup ValObjs(ents'[o]) \subseteq S
  PROVE  GcInv'
  <1>0. phase = "propagate" /\ phase' = phase /\ strong' = strong /\ owner' = owner
        /\ refs' = refs /\ markedRefs' = markedRefs /\ twups' = twups /\ o \in gray
    BY DEF InPropagate, pins
  <1>1. /\ \A x \in Obj : Marked(S)[x] = "black" =>
              /\ strong[x] \cup KeyObjs(ents[x]) \cup ValObjs(ents[x]) \subseteq Coloured(Marked(S))
              /\ x \in Upvals => ~IsOpen(x)
              /\ x \notin Threads
        /\ NonWhite \cup S \cup Touched(S) \subseteq Coloured(Marked(S))
        /\ \A x \in Obj : Marked(S)[x] = "gray" =>
              \/ mark[x] = "gray"
              \/ x \in Touched(S) \cap Linked
              \/ x \in Upvals /\ IsOpen(x)
        /\ \A x \in Obj : Marked(S)[x] = "free" <=> mark[x] = "free"
        /\ \A x \in Obj : Marked(S)[x] # "dead"
    BY <1>0, MarkedFacts
  <1>2. mark[o] \in {"gray", "black"}
    BY <1>0 DEF GcInv, Linking, Marking, NonWhite
  <1>3. Coloured(Marked(S)) \cup {o} = NonWhite'
    BY DEF Coloured, NonWhite
  <1>4. \A x \in Obj : (mark'[x] = "free" <=> mark[x] = "free") /\ mark'[x] # "dead"
    BY <1>1, <1>2
  <1>5. mark \in [Obj -> Colours] /\ \A x \in Obj : mark[x] # "dead"
    BY <1>0 DEF TypeOK, GcInv, PhaseColours, Marking, Heap, Live
  <1>6. \A x \in Obj : mark'[x] \in Colours
    <2>1. \A x \in Obj : Marked(S)[x] \in Colours
      BY MarkedType
    <2> QED BY <2>1 DEF Colours
  <1>7. Live' = Live /\ Heap' = Heap /\ Heap = Live
    BY <1>4, <1>5, <1>6 DEF Live, Heap, Colours
  <1>8. \A x \in Obj : Refers(x)' \subseteq Refers(x)
    <2>1. \A x \in Obj : Open(x)' = Open(x) /\ Captured(x)' = Captured(x)
      BY <1>0 DEF Open, Captured
    <2> QED BY <1>0, <2>1 DEF Refers
  <1>9. Shape' /\ PhaseColours'
    BY <1>0, <1>4, <1>7 DEF GcInv, Shape, PhaseColours, IsOpen, Marking
  <1>10. NoDangling' /\ TwupsExact'
    <2>1. \A x \in Live : Refers(x)' \subseteq Live
      BY <1>8 DEF GcInv, NoDangling, Live
    <2> QED BY <1>0, <1>7, <2>1 DEF GcInv, NoDangling, TwupsExact, Pinned
  <1>11. TriColour'
    <2>1. ASSUME NEW x \in Obj, mark'[x] = "black"
          PROVE  /\ strong[x] \cup KeyObjs(ents'[x]) \cup ValObjs(ents'[x]) \subseteq NonWhite'
                 /\ x \in Upvals => ~IsOpen(x)
      <3>1. CASE x = o /\ mark[x] # "black"
        BY <1>1, <1>3, <2>1, <3>1
      <3>2. CASE x # o \/ mark[x] = "black"
        <4>1. Marked(S)[x] = "black"
          BY <1>0, <2>1, <3>2, MarkedFacts
        <4> QED BY <1>1, <1>3, <4>1
      <3> QED BY <3>1, <3>2
    <2> QED BY <1>0, <2>1 DEF TriColour, IsOpen, KeyObjs, ValObjs
  <1>12. Linking'
    <2>1. gray' \cup grayagain' \cup allweak' \subseteq NonWhite'
      BY <1>0, <1>1, <1>3 DEF GcInv, Linking, Marking, GrayWith
    <2>2. ASSUME NEW x \in Obj, mark'[x] = "gray"
          PROVE  \/ x \in gray' \cup grayagain' \cup allweak'
                 \/ x \in Upvals /\ IsOpen(x)
      <3>1. CASE x = o
        BY <2>2, <3>1
      <3>2. CASE x # o
        BY <1>0, <1>1, <2>2, <3>2 DEF GcInv, Linking, Marking, GrayWith
      <3> QED BY <3>1, <3>2
    <2>3. \A t \in Threads : mark'[t] # "black"
      <3>1. \A t \in Threads : mark[t] # "black"
        BY <1>0 DEF GcInv, Linking, Marking
      <3> QED BY <1>1, <3>1 DEF Obj
    <2>4. {Root} \cup markedRefs' \subseteq NonWhite'
      BY <1>0, <1>1, <1>3 DEF GcInv, Linking, Marking
    <2>5. \A h \in allweak' : strong'[h] \subseteq NonWhite'
      BY <1>0, <1>1, <1>3 DEF GcInv, Linking, Marking
    <2> QED BY <1>0, <2>1, <2>2, <2>3, <2>4, <2>5 DEF Linking, IsOpen
  <1> QED BY <1>9, <1>10, <1>11, <1>12 DEF GcInv

LEMMA DropFacts ==
  ASSUME TypeOK, NEW h \in Obj, DropTombstones(h) \/ ents' = ents
  PROVE  /\ \A x \in Obj : KeyObjs(ents'[x]) \subseteq KeyObjs(ents[x])
                           /\ KeyObjs(Filled(ents'[x])) \subseteq KeyObjs(Filled(ents[x]))
                           /\ ValObjs(ents'[x]) \subseteq ValObjs(ents[x])
         /\ \A x \in Obj : ents[x] = {} => ents'[x] = {}
         /\ DropTombstones(h) => KeyObjs(ents'[h]) \subseteq KeyObjs(Filled(ents[h]))
  <1>1. CASE ents' = ents
    BY <1>1 DEF DropTombstones, Filled, KeyObjs, TypeOK
  <1>2. CASE DropTombstones(h)
    <2>1. ents'[h] = Filled(ents[h]) /\ \A x \in Obj \ {h} : ents'[x] = ents[x]
      BY <1>2 DEF DropTombstones, TypeOK
    <2> QED BY <2>1 DEF Filled, KeyObjs, ValObjs
  <1> QED BY <1>1, <1>2

(* What a listed object refers to is live.                                 *)
LEMMA GrayRefersLive ==
  ASSUME TypeOK, GcInv, NEW o \in Obj, InPropagate(o)
  PROVE  /\ strong[o] \cup KeyObjs(Filled(ents[o])) \cup ValObjs(ents[o]) \in SUBSET Live
         /\ mark[o] \in {"gray", "black"}
  BY DEF InPropagate, GcInv, Linking, NoDangling, Marking, NonWhite, Live, Refers

(* A gray object keeps its colour when others are marked.                  *)
LEMMA PostponeInv ==
  ASSUME TypeOK, GcInv, NEW o \in Linked, InPropagate(o), NEW S \in SUBSET Live,
         mark' = Marked(S), gray' = GrayWith(S) \ {o},
         DropTombstones(o) \/ ents' = ents,
         \/ grayagain' = grayagain \cup {o} /\ allweak' = allweak
         \/ grayagain' = grayagain /\ allweak' = allweak \cup {o} /\ strong[o] \subseteq S
  PROVE  GcInv'
  <1>0. o \in Obj /\ o \in gray /\ phase = "propagate"
    BY DEF Linked, Obj, InPropagate
  <1>1. mark[o] \in {"gray", "black"}
    BY <1>0, GrayRefersLive
  <1>2. mark'[o] = mark[o]
    BY <1>0, <1>1, MarkedFacts
  <1>3. \A x \in Obj \ {o} : mark'[x] = Marked(S)[x]
    OBVIOUS
  <1>4. /\ grayagain \subseteq grayagain' /\ grayagain' \subseteq grayagain \cup {o}
        /\ allweak \subseteq allweak' /\ allweak' \subseteq allweak \cup {o}
        /\ o \in allweak' \ allweak => strong[o] \subseteq S
        /\ mark'[o] = "gray" => o \in grayagain' \cup allweak'
    OBVIOUS
  <1>5. mark'[o] = "black" => mark[o] = "black"
    BY <1>2
  <1>6. mark'[o] \in {"gray", "black"}
    BY <1>1, <1>2
  <1> QED BY <1>0, <1>3, <1>4, <1>5, <1>6, DropFacts, TraverseInv

LEMMA StrongTableInv ==
  ASSUME TypeOK, GcInv, NEW h \in Tables, TraverseStrongTable(h)
  PROVE  GcInv'
  <1> DEFINE S == strong[h] \cup KeyObjs(Filled(ents[h])) \cup ValObjs(ents[h])
  <1>0. h \in Obj /\ InPropagate(h) /\ DropTombstones(h) /\ Blacken(h, S)
    BY DEF TraverseStrongTable, Obj
  <1>1. S \in SUBSET Live /\ h \notin Threads \cup Upvals
    BY <1>0, GrayRefersLive, KindsAssumption
  <1>2. /\ mark'[h] = "black" /\ \A x \in Obj \ {h} : mark'[x] = Marked(S)[x]
        /\ gray' = GrayWith(S) \ {h} /\ grayagain' = grayagain /\ allweak' = allweak
    <2>1. Marked(S) \in [Obj -> Colours]
      BY MarkedType
    <2> HIDE DEF S
    <2> QED BY <1>0, <2>1 DEF Blacken
  <1>3. strong[h] \cup KeyObjs(ents'[h]) \cup ValObjs(ents'[h]) \subseteq S
    BY <1>0, DropFacts
  <1> HIDE DEF S
  <1> QED BY <1>0, <1>1, <1>2, <1>3, DropFacts, TraverseInv

LEMMA FunctionInv ==
  ASSUME TypeOK, GcInv, NEW f \in Funcs, TraverseFunction(f)
  PROVE  GcInv'
  <1>0. f \in Obj /\ InPropagate(f) /\ ents' = ents /\ Blacken(f, strong[f])
    BY DEF TraverseFunction, Obj
  <1>1. strong[f] \in SUBSET Live /\ f \notin Threads \cup Upvals \cup Tables
    BY <1>0, GrayRefersLive, KindsAssumption
  <1>2. /\ mark'[f] = "black" /\ \A x \in Obj \ {f} : mark'[x] = Marked(strong[f])[x]
        /\ gray' = GrayWith(strong[f]) \ {f} /\ grayagain' = grayagain /\ allweak' = allweak
    BY <1>0, MarkedType DEF Blacken
  <1>3. strong[f] \cup KeyObjs(ents'[f]) \cup ValObjs(ents'[f]) \subseteq strong[f]
    BY <1>0, <1>1 DEF GcInv, Shape, KeyObjs, ValObjs
  <1> QED BY <1>0, <1>1, <1>2, <1>3, DropFacts, TraverseInv

LEMMA PropagateInv ==
  ASSUME TypeOK, GcInv, NEW o \in Linked,
         \/ o \in Tables /\ TraverseWeakValues(o)
         \/ o \in Tables /\ TraverseEphemeron(o)
         \/ o \in Tables /\ TraverseAllWeak(o)
         \/ o \in Threads /\ TraverseThread(o)
  PROVE  GcInv'
  <1>0. InPropagate(o) /\ o \in Obj
    BY DEF TraverseWeakValues, TraverseEphemeron, TraverseAllWeak, TraverseThread, Linked, Obj
  <1>1. strong[o] \cup KeyObjs(Filled(ents[o])) \cup ValObjs(ents[o]) \in SUBSET Live
    BY <1>0, GrayRefersLive
  <1>2. CASE \E S \in SUBSET Live : Postpone(o, S) /\ (DropTombstones(o) \/ ents' = ents)
    BY <1>0, <1>2, PostponeInv DEF Postpone
  <1>3. CASE TraverseWeakValues(o)
    <2>1. PICK met \in SUBSET (ValObjs(ents[o]) \cap Strings) :
             Postpone(o, strong[o] \cup KeyObjs(Filled(ents[o])) \cup met)
      BY <1>3 DEF TraverseWeakValues
    <2>2. strong[o] \cup KeyObjs(Filled(ents[o])) \cup met \in SUBSET Live
      BY <1>1
    <2>3. DropTombstones(o)
      BY <1>3 DEF TraverseWeakValues
    <2> QED BY <1>2, <2>1, <2>2, <2>3
  <1>4. CASE TraverseEphemeron(o)
    <2>1. PICK V \in SUBSET ValObjs(ents[o]) :
             Postpone(o, strong[o] \cup V \cup (KeyObjs(Filled(ents[o])) \cap Strings))
      BY <1>4 DEF TraverseEphemeron
    <2>2. strong[o] \cup V \cup (KeyObjs(Filled(ents[o])) \cap Strings) \in SUBSET Live
      BY <1>1
    <2>3. DropTombstones(o)
      BY <1>4 DEF TraverseEphemeron
    <2> QED BY <1>2, <2>1, <2>2, <2>3
  <1>5. CASE TraverseAllWeak(o)
    BY <1>0, <1>1, <1>5, PostponeInv DEF TraverseAllWeak
  <1>6. CASE o \in Threads /\ TraverseThread(o)
    BY <1>2, <1>6 DEF TraverseThread
  <1> QED BY <1>3, <1>4, <1>5, <1>6

(* The atomic phase traverses only live objects, and a larger set of       *)
(* marked objects has more children.                                       *)
LEMMA KidsFacts ==
  ASSUME TypeOK, GcInv, NEW o \in Live, NEW S
  PROVE  /\ AtomicKids(o, S) \subseteq Live
         /\ \A R : S \subseteq R => AtomicKids(o, S) \subseteq AtomicKids(o, R)
  <1>1. strong[o] \cup KeyObjs(Filled(ents[o])) \cup ValObjs(ents[o]) \subseteq Live
        /\ (o \in Threads => Open(o) \cup Captured(o) \subseteq Live)
    BY DEF GcInv, NoDangling, Refers
  <1>2. /\ TableKids(o, S) \subseteq strong[o] \cup KeyObjs(Filled(ents[o])) \cup ValObjs(ents[o])
        /\ \A R : S \subseteq R => TableKids(o, S) \subseteq TableKids(o, R)
    <2>1. /\ EphemeronValues(o, S) \subseteq ValObjs(ents[o])
          /\ \A R : S \subseteq R => EphemeronValues(o, S) \subseteq EphemeronValues(o, R)
      BY DEF EphemeronValues, ValObjs
    <2>2. /\ AllWeakKids(o, S) \subseteq KeyObjs(Filled(ents[o])) \cup ValObjs(ents[o])
          /\ \A R : S \subseteq R => AllWeakKids(o, S) \subseteq AllWeakKids(o, R)
      BY DEF AllWeakKids, ValObjs, KeyObjs, Filled
    <2>3. ValObjs(Filled(ents[o])) \subseteq ValObjs(ents[o])
      BY DEF ValObjs, Filled
    <2> QED BY <2>1, <2>2, <2>3 DEF TableKids
  <1> QED BY <1>1, <1>2 DEF AtomicKids

(* Everything the collector is certain to mark is live.                    *)
LEMMA AtomicFacts ==
  ASSUME TypeOK, GcInv, phase = "enteratomic"
  PROVE  /\ AtomicMarked \subseteq Live
         /\ NonWhite \cup refs \cup RemarkedValues \subseteq AtomicMarked
         /\ \A o \in AtomicWork(AtomicMarked) : AtomicKids(o, AtomicMarked) \subseteq AtomicMarked
  <1> DEFINE closed == {S \in SUBSET Heap : AtomicClosed(S)}
  <1>1. Heap = Live /\ NonWhite \subseteq Live /\ refs \subseteq Live
    BY DEF GcInv, PhaseColours, Marking, Live, Heap, NonWhite, NoDangling, Pinned
  <1>2. RemarkedValues \subseteq Live
    <2>1. \A u \in Upvals \cap NonWhite : strong[u] \subseteq Live
      BY <1>1 DEF GcInv, NoDangling, Refers
    <2> QED BY <2>1, Zenon DEF RemarkedValues
  <1>3. AtomicMarked = {o \in Heap : \A S \in closed : o \in S}
    BY DEF AtomicMarked
  <1>4. \A S \in closed : NonWhite \cup refs \cup RemarkedValues \subseteq S
                          /\ \A o \in AtomicWork(S) : AtomicKids(o, S) \subseteq S
    BY DEF AtomicClosed
  <1> HIDE DEF closed
  <1>5. NonWhite \cup refs \cup RemarkedValues \subseteq AtomicMarked
    BY <1>1, <1>2, <1>3, <1>4
  <1>6. ASSUME NEW o \in AtomicWork(AtomicMarked)
        PROVE  AtomicKids(o, AtomicMarked) \subseteq AtomicMarked
    <2>1. o \in Live
      BY <1>1, <1>3 DEF AtomicWork, GcInv, Linking, Marking
    <2>2. AtomicKids(o, AtomicMarked) \subseteq Live
      BY <2>1, KidsFacts
    <2>3. ASSUME NEW S \in closed
          PROVE  AtomicKids(o, AtomicMarked) \subseteq S
      <3>1. AtomicMarked \subseteq S
        BY <1>3
      <3>2. o \in AtomicWork(S)
        BY <3>1 DEF AtomicWork
      <3>3. AtomicKids(o, AtomicMarked) \subseteq AtomicKids(o, S)
        BY <2>1, <3>1, KidsFacts
      <3> QED BY <1>4, <3>2, <3>3
    <2> QED BY <1>1, <1>3, <2>2, <2>3
  <1> QED BY <1>1, <1>3, <1>5, <1>6

LEMMA FinishMarkingInv ==
  ASSUME TypeOK, GcInv, FinishMarking
  PROVE  GcInv'
  <1> DEFINE M == AtomicMarked
             visited == AtomicWork(M) \cup allweak
  <1>1. /\ phase = "enteratomic" /\ phase' = "sweep"
        /\ strong' = strong /\ owner' = owner
        /\ \A o \in Obj : mark'[o] \in IF o \in M THEN {"gray", "black"}
                                       ELSE IF mark[o] = "free" THEN {"free"} ELSE {"dead"}
        /\ \A o \in Obj : ents'[o] \subseteq ents[o]
        /\ \A o \in visited : \A e \in ents'[o] : e[1] \in M \cup {Scalar} /\ e[2] \in M \cup {Scalar}
        /\ refs' \cup markedRefs' \subseteq refs \cup markedRefs
        /\ twups' = Relinked(M, visited)
        /\ tosweep' = Heap
    <2>1. visited \subseteq Obj
      BY AtomicFacts DEF AtomicWork, TypeOK, Linked, Obj, Live, FinishMarking
    <2> HIDE DEF M
    <2> QED BY <2>1 DEF FinishMarking, TypeOK, M
  <1>2. /\ M \subseteq Live
        /\ NonWhite \cup refs \cup RemarkedValues \subseteq M
        /\ \A o \in AtomicWork(M) : AtomicKids(o, M) \subseteq M
    BY <1>1, AtomicFacts
  <1> HIDE DEF M
  <1>3. Marking /\ Heap = Live
    BY <1>1 DEF Marking, GcInv, PhaseColours, Heap, Live
  <1>4. Live' = M /\ Heap' = Heap
    BY <1>1, <1>2 DEF Live, Heap
  <1>5. \A o : Open(o)' = Open(o) /\ Captured(o)' = Captured(o)
    BY <1>1 DEF Open, Captured
  <1>6. ASSUME NEW o \in M
        PROVE  Refers(o)' \subseteq M
    <2>0. o \in Obj
      BY <1>2 DEF Live
    <2>1. CASE o \in AtomicWork(M)
      <3>1. strong[o] \subseteq M /\ (o \in Threads => Open(o) \cup Captured(o) \subseteq M)
        BY <1>2, <2>1, KindsAssumption DEF AtomicKids, TableKids
      <3>2. KeyObjs(Filled(ents'[o])) \cup ValObjs(ents'[o]) \subseteq M
        BY <1>1, <2>1, KindsAssumption DEF KeyObjs, ValObjs, Filled
      <3> QED BY <1>1, <1>5, <3>1, <3>2 DEF Refers
    <2>2. CASE mark[o] = "black"
      <3>1. strong[o] \cup KeyObjs(ents[o]) \cup ValObjs(ents[o]) \subseteq M /\ o \notin Threads
        BY <1>2, <1>3, <2>0, <2>2 DEF GcInv, TriColour, Linking
      <3>2. KeyObjs(Filled(ents'[o])) \cup ValObjs(ents'[o]) \subseteq KeyObjs(ents[o]) \cup ValObjs(ents[o])
        BY <1>1, <2>0 DEF KeyObjs, ValObjs, Filled
      <3> QED BY <1>1, <3>1, <3>2 DEF Refers
    <2>3. CASE o \in allweak
      <3>1. strong[o] \subseteq M /\ o \notin Threads
        BY <1>2, <1>3, <2>3, KindsAssumption DEF GcInv, Linking, TypeOK
      <3>2. KeyObjs(Filled(ents'[o])) \cup ValObjs(ents'[o]) \subseteq M
        BY <1>1, <2>3, KindsAssumption DEF KeyObjs, ValObjs, Filled
      <3> QED BY <1>1, <3>1, <3>2 DEF Refers
    <2>4. CASE mark[o] = "gray" /\ o \in Upvals /\ IsOpen(o)
      <3>1. ents[o] = {} /\ o \notin Threads /\ owner[o] \in Live \cap Threads
        BY <1>3, <2>0, <2>4, KindsAssumption DEF GcInv, Shape, TypeOK, IsOpen
      <3>2. owner[o] \in twups
        BY <1>2, <2>4, <3>1 DEF GcInv, TwupsExact
      <3>3. CASE owner[o] \notin NonWhite
        <4>1. strong[o] \in {strong[u] : u \in {u \in Upvals \cap NonWhite : owner[u] \in twups \ NonWhite}}
          BY <2>0, <2>4, <3>2, <3>3 DEF NonWhite
        <4>2. strong[o] \subseteq RemarkedValues
          BY <4>1, Zenon DEF RemarkedValues
        <4> QED BY <1>1, <1>2, <2>0, <3>1, <4>2 DEF Refers, KeyObjs, ValObjs, Filled
      <3>4. CASE owner[o] \in NonWhite
        <4>1. mark[owner[o]] = "gray" /\ owner[o] \notin allweak /\ owner[o] \notin Upvals
          BY <1>3, <3>1, <3>4, KindsAssumption DEF GcInv, Linking, NonWhite, TypeOK
        <4>2. owner[o] \in AtomicWork(M)
          BY <1>3, <3>4, <4>1 DEF GcInv, Linking, AtomicWork, NonWhite
        <4>3. Captured(owner[o]) \subseteq M
          BY <1>2, <3>1, <4>2, KindsAssumption DEF AtomicKids
        <4>4. strong[o] \subseteq Captured(owner[o])
          <5>1. o \in Open(owner[o])
            BY <2>4 DEF Open
          <5> QED BY <5>1, Zenon DEF Captured
        <4> QED BY <1>1, <2>0, <3>1, <4>3, <4>4 DEF Refers, KeyObjs, ValObjs, Filled
      <3> QED BY <3>3, <3>4
    <2> QED
      <3>1. o \in NonWhite \/ o \in M \ NonWhite
        OBVIOUS
      <3>2. o \in NonWhite => mark[o] \in {"gray", "black"}
        BY DEF NonWhite
      <3> QED BY <1>3, <2>0, <2>1, <2>2, <2>3, <2>4, <3>1, <3>2 DEF GcInv, Linking, AtomicWork
  <1>7. NoDangling'
    <2>1. {Root} \cup refs' \cup markedRefs' \subseteq M
      BY <1>1, <1>2, <1>3 DEF GcInv, Linking
    <2> QED BY <1>4, <1>6, <2>1 DEF NoDangling, Pinned
  <1>8. Shape'
    BY <1>1, <1>4 DEF GcInv, Shape, IsOpen, Heap
  <1>9. PhaseColours' /\ TriColour' /\ Linking'
    BY <1>1, <1>4 DEF PhaseColours, TriColour, Linking, Marking
  <1>10. TwupsExact'
    <2>1. twups' \subseteq Live'
      BY <1>1, <1>4 DEF Relinked
    <2>2. ASSUME NEW u \in Live' \cap Upvals, owner'[u] \in Live'
          PROVE  owner'[u] \in twups'
      <3>1. owner[u] \in Threads /\ owner[u] \in twups /\ u \in Open(owner[u])
        BY <1>1, <1>2, <1>4, <2>2, KindsAssumption DEF GcInv, TwupsExact, TypeOK, Open, Live
      <3> QED BY <1>1, <1>4, <2>2, <3>1 DEF Relinked
    <2> QED BY <2>1, <2>2 DEF TwupsExact
  <1> QED BY <1>7, <1>8, <1>9, <1>10 DEF GcInv

LEMMA SweepSurvivorInv ==
  ASSUME TypeOK, GcInv, NEW o \in Obj, SweepSurvivor(o)
  PROVE  GcInv'
  <1>1. /\ phase = "sweep" /\ phase' = "sweep" /\ mark' = [mark EXCEPT ![o] = "white"]
        /\ strong' = strong /\ ents' = ents /\ owner' = owner /\ twups' = twups
        /\ refs' = refs /\ markedRefs' = markedRefs /\ tosweep' = tosweep \ {o}
        /\ o \in Live
    BY DEF SweepSurvivor, data, pins, lists, GcInv, PhaseColours, Live, Heap, TypeOK, Colours
  <1>2. Live' = Live /\ Heap' = Heap
    BY <1>1 DEF Live, Heap, TypeOK
  <1>3. \A x : Refers(x)' = Refers(x)
    BY <1>1 DEF Refers, Open, Captured
  <1>4. Shape'
    BY <1>1, <1>2 DEF GcInv, Shape, IsOpen, Heap
  <1>5. PhaseColours' /\ TriColour' /\ Linking'
    BY <1>1, <1>2 DEF GcInv, PhaseColours, TriColour, Linking, Marking, Heap, TypeOK
  <1>6. NoDangling' /\ TwupsExact'
    BY <1>1, <1>2, <1>3 DEF GcInv, NoDangling, TwupsExact, Pinned
  <1> QED BY <1>4, <1>5, <1>6 DEF GcInv

LEMMA FreeInv ==
  ASSUME TypeOK, GcInv, NEW o \in Obj, Free(o)
  PROVE  GcInv'
  <1>1. /\ phase = "sweep" /\ phase' = "sweep" /\ mark[o] = "dead" /\ mark'[o] = "free"
        /\ \A x \in Obj \ {o} : mark'[x] = IF x \in Open(o) THEN ClosedColour(x) ELSE mark[x]
        /\ \A u \in Upvals : owner'[u] = IF o \in {u, owner[u]} THEN Nil ELSE owner[u]
        /\ strong' = [strong EXCEPT ![o] = {}] /\ ents' = [ents EXCEPT ![o] = {}]
        /\ twups' = twups /\ refs' = refs /\ markedRefs' = markedRefs
        /\ tosweep' = tosweep \ {o}
    BY DEF Free, pins, lists
  <1>2. \A x \in Obj : /\ mark[x] \in {"white", "dead", "free"} => ClosedColour(x) = mark[x]
                       /\ mark[x] \in {"gray", "black"} => ClosedColour(x) \in {"white", "black"}
    BY DEF ClosedColour
  <1>3. Live' = Live /\ Heap' = Heap \ {o} /\ o \notin Live
    BY <1>1, <1>2 DEF Live, Heap, TypeOK, Colours
  <1>4. \A x \in Live : Refers(x)' \subseteq Refers(x)
    <2>1. ASSUME NEW x \in Live
          PROVE  strong'[x] = strong[x] /\ ents'[x] = ents[x] /\ x # o
      BY <1>1, <1>3 DEF TypeOK, Live
    <2>2. \A t \in Threads : Open(t)' \subseteq Open(t)
      BY <1>1, KindsAssumption DEF Open, Obj
    <2>3. \A u \in Upvals : strong'[u] \subseteq strong[u]
      BY <1>1 DEF TypeOK, Obj
    <2>4. \A t \in Threads : Captured(t)' \subseteq Captured(t)
      <3>1. ASSUME NEW t \in Threads, NEW y \in Captured(t)'
            PROVE  y \in Captured(t)
        <4>1. PICK u \in Open(t)' : y \in strong'[u]
          BY <3>1, Zenon DEF Captured
        <4>2. u \in Open(t) /\ y \in strong[u]
          BY <2>2, <2>3, <4>1 DEF Open
        <4> QED BY <4>2, Zenon DEF Captured
      <3> QED BY <3>1
    <2> QED BY <2>1, <2>2, <2>4 DEF Refers
  <1>5. NoDangling'
    BY <1>1, <1>3, <1>4 DEF GcInv, NoDangling, Pinned
  <1>6. Shape'
    <2>1. \A x \in Obj : strong'[x] \subseteq strong[x]
                         /\ (ents[x] = {} => ents'[x] = {}) /\ strong'[o] = {} /\ ents'[o] = {}
      BY <1>1 DEF TypeOK
    <2>2. \A u \in Upvals : owner'[u] # Nil => u # o /\ owner[u] # o /\ owner'[u] = owner[u]
      BY <1>1
    <2>3. \A x \in Obj : mark'[x] = "free" => x = o \/ mark[x] = "free"
      BY <1>3 DEF Heap
    <2> QED BY <1>3, <2>1, <2>2, <2>3 DEF GcInv, Shape, IsOpen, Obj
  <1>7. PhaseColours' /\ TriColour' /\ Linking'
    BY <1>1, <1>2, <1>3 DEF GcInv, PhaseColours, TriColour, Linking, Marking, Heap
  <1>8. TwupsExact'
    <2>1. \A u \in Live \cap Upvals : owner'[u] \in Live => owner'[u] = owner[u]
      BY <1>1, <1>3, KindsAssumption DEF Live
    <2> QED BY <1>1, <1>3, <2>1 DEF GcInv, TwupsExact
  <1> QED BY <1>5, <1>6, <1>7, <1>8 DEF GcInv

LEMMA CollectorInv ==
  ASSUME TypeOK, GcInv, Collector
  PROVE  GcInv'
  <1>1. CASE GrayEmpty
    <2>1. /\ Marking /\ phase' = "enteratomic" /\ UNCHANGED <<mark, data, lists, pins, twups, tosweep>>
      BY <1>1 DEF GrayEmpty, Marking
    <2> QED BY <2>1 DEF data, lists, pins, GcInv, Shape, PhaseColours, NoDangling, TriColour, Linking,
              TwupsExact, Heap, Live, Marking, Refers, Pinned, Filled, KeyObjs, ValObjs, Open,
              Captured, IsOpen, NonWhite
  <1>2. CASE SweepDone
    <2>1. /\ phase = "sweep" /\ tosweep = {} /\ phase' = "pause"
          /\ UNCHANGED <<mark, data, lists, pins, twups, tosweep>>
      BY <1>2 DEF SweepDone
    <2> QED BY <2>1 DEF data, lists, pins, GcInv, Shape, PhaseColours, NoDangling, TriColour, Linking,
              TwupsExact, Heap, Live, Marking, Refers, Pinned, Filled, KeyObjs, ValObjs, Open,
              Captured, IsOpen
  <1> QED BY <1>1, <1>2, StartCycleInv, StrongTableInv, FunctionInv, PropagateInv,
             FinishMarkingInv, SweepSurvivorInv, FreeInv DEF Collector, Linked

-----------------------------------------------------------------------------
(* The program.                                                            *)

(* The reference o gets through an operation with a forward barrier.       *)
LEMMA BarrierInv ==
  ASSUME TypeOK, GcInv, NEW o \in Live, NEW V \in SUBSET Live, Barrier(o, V),
         NEW X, X \subseteq strong[o] \cup V,
         strong' = [strong EXCEPT ![o] = X],
         UNCHANGED <<phase, ents, owner, grayagain, allweak, refs, markedRefs, twups, tosweep>>,
         o \notin Threads \cup Strings, o \notin allweak,
         o \in Userdata => V \subseteq Tables,
         o \in Upvals => V \cap Upvals = {}
  PROVE  GcInv'
  <1>0. o \in Obj /\ V \subseteq Obj /\ phase' = phase
    BY DEF Live
  <1>1. \/ mark[o] = "black" /\ Marking /\ mark' = Marked(V) /\ gray' = GrayWith(V)
        \/ mark[o] = "black" /\ ~Marking /\ mark' = [mark EXCEPT ![o] = "white"] /\ gray' = gray
        \/ (mark[o] = "black" => \A v \in V : ~IsWhite(v)) /\ mark' = mark /\ gray' = gray
    BY DEF Barrier
  <1>2. mark[o] = "black" /\ ~Marking => phase = "sweep"
    BY <1>0 DEF GcInv, PhaseColours, Heap, Marking, TypeOK
  <1>m. /\ \A x \in Obj : (mark'[x] = "free" <=> mark[x] = "free")
                          /\ (mark'[x] = "dead" <=> mark[x] = "dead")
        /\ \A x \in Obj : mark[x] = "white" /\ ~Marking => mark'[x] = "white"
        /\ \A x \in Obj : mark'[x] \in Colours
    <2>1. CASE mark[o] = "black" /\ Marking /\ mark' = Marked(V)
      <3>1. \A x \in Obj : mark[x] # "dead"
        BY <2>1 DEF GcInv, PhaseColours, Heap, Live
      <3>2. phase # "sweep"
        BY <2>1 DEF Marking
      <3> QED BY <2>1, <3>1, <3>2, MarkedFacts, MarkedType
    <2>2. CASE mark[o] = "black" /\ ~Marking /\ mark' = [mark EXCEPT ![o] = "white"]
      BY <1>0, <2>2 DEF TypeOK, Colours
    <2>3. CASE mark' = mark
      BY <2>3 DEF TypeOK
    <2> QED BY <1>1, <2>1, <2>2, <2>3
  <1>3. Live' = Live /\ Heap' = Heap
    BY <1>m DEF Live, Heap, TypeOK, Colours
  <1>4. /\ strong'[o] \subseteq strong[o] \cup V
        /\ \A x \in Obj \ {o} : strong'[x] = strong[x]
    BY <1>0 DEF TypeOK
  <1>5. \A x \in Live : Refers(x)' \subseteq Live
    <2>1. ASSUME NEW x \in Live
          PROVE  strong'[x] \cup KeyObjs(Filled(ents[x])) \cup ValObjs(ents[x]) \subseteq Live
      BY <1>4 DEF GcInv, NoDangling, Refers, Live
    <2>2. ASSUME NEW x \in Live \cap Threads
          PROVE  Open(x) \cup Captured(x)' \subseteq Live
      <3>1. Open(x) \cup Captured(x) \subseteq Live
        BY DEF GcInv, NoDangling, Refers
      <3>2. ASSUME NEW y \in Captured(x)'
            PROVE  y \in Live
        <4>1. PICK u \in Open(x) : y \in strong'[u]
          BY Zenon DEF Captured, Open
        <4>2. y \in strong[u] \cup V
          BY <1>4, <4>1 DEF Open, Obj
        <4>3. y \in Captured(x) \cup V
          BY <4>1, <4>2, Zenon DEF Captured
        <4> QED BY <3>1, <4>3
      <3> QED BY <3>1, <3>2
    <2> QED BY <2>1, <2>2 DEF Refers, KeyObjs, ValObjs, Filled, Open
  <1>6. NoDangling' /\ TwupsExact'
    BY <1>3, <1>5 DEF GcInv, NoDangling, TwupsExact, Pinned
  <1>7. Shape'
    <2>1. mark[o] # "free"
      BY DEF Live
    <2> QED BY <1>0, <1>3, <1>4, <1>m, <2>1 DEF GcInv, Shape, IsOpen, Obj
  <1>8. PhaseColours'
    BY <1>0, <1>2, <1>3, <1>m DEF GcInv, PhaseColours, Marking, Heap
  <1>9. ASSUME Marking
        PROVE  /\ \A x \in Obj : mark'[x] = "black" =>
                     /\ strong'[x] \cup KeyObjs(ents[x]) \cup ValObjs(ents[x]) \subseteq NonWhite'
                     /\ x \in Upvals => ~IsOpen(x)
                     /\ x \notin Threads
               /\ NonWhite \subseteq NonWhite'
               /\ gray \subseteq gray' /\ gray' \subseteq NonWhite'
               /\ \A x \in Obj : mark'[x] = "gray" =>
                     \/ x \in gray' \cup grayagain \cup allweak
                     \/ x \in Upvals /\ IsOpen(x)
    <2>1. CASE mark[o] = "black" /\ mark' = Marked(V) /\ gray' = GrayWith(V)
      <3>1. NonWhite' = Coloured(Marked(V)) /\ phase # "sweep"
        BY <1>9, <2>1 DEF NonWhite, Coloured, Marking
      <3>2. V \subseteq NonWhite' /\ NonWhite \subseteq NonWhite' /\ Touched(V) \subseteq NonWhite'
        BY <3>1, MarkedFacts
      <3>3. \A x \in Obj : mark'[x] = "black" =>
                     /\ strong[x] \cup KeyObjs(ents[x]) \cup ValObjs(ents[x]) \subseteq NonWhite'
                     /\ x \in Upvals => ~IsOpen(x)
                     /\ x \notin Threads
        BY <2>1, <3>1, MarkedFacts
      <3>4. \A x \in Obj : mark'[x] = "gray" =>
                     \/ x \in gray' \cup grayagain \cup allweak
                     \/ x \in Upvals /\ IsOpen(x)
        BY <1>9, <2>1, <3>1, MarkedFacts DEF GrayWith, GcInv, Linking
      <3>5. gray \subseteq gray' /\ gray' \subseteq NonWhite'
        BY <1>9, <2>1, <3>2 DEF GrayWith, GcInv, Linking
      <3> QED BY <1>4, <3>2, <3>3, <3>4, <3>5
    <2>2. CASE (mark[o] = "black" => \A v \in V : ~IsWhite(v)) /\ mark' = mark /\ gray' = gray
      <3>1. NonWhite' = NonWhite
        BY <2>2 DEF NonWhite
      <3>2. mark[o] = "black" => V \subseteq NonWhite
        BY <1>0, <2>2 DEF IsWhite, NonWhite, Live
      <3> QED BY <1>4, <1>9, <2>2, <3>1, <3>2 DEF GcInv, TriColour, Linking
    <2> QED BY <1>1, <1>9, <2>1, <2>2
  <1>10. TriColour'
    BY <1>0, <1>9 DEF TriColour, Marking, IsOpen, KeyObjs, ValObjs
  <1>11. Linking'
    <2>1. ASSUME Marking PROVE \A h \in allweak : strong'[h] \subseteq NonWhite'
      BY <1>4, <1>9, <2>1 DEF GcInv, Linking, TypeOK, Obj
    <2> QED BY <1>0, <1>9, <2>1 DEF GcInv, Linking, Marking, IsOpen, Obj
  <1> QED BY <1>6, <1>7, <1>8, <1>10, <1>11 DEF GcInv

(* An entry stored in h, with the barrier on what was not there before.    *)
LEMMA BarrierBackInv ==
  ASSUME TypeOK, GcInv, NEW h \in Live \cap Tables, NEW V \in SUBSET Live, BarrierBack(h, V),
         NEW E, ents' = [ents EXCEPT ![h] = E],
         KeyObjs(E) \subseteq KeyObjs(ents[h]) \cup V,
         KeyObjs(Filled(E)) \cup ValObjs(E) \subseteq Live,
         ValObjs(E) \subseteq ValObjs(ents[h]) \cup V,
         UNCHANGED <<phase, strong, owner, gray, allweak, refs, markedRefs, twups, tosweep>>
  PROVE  GcInv'
  <1>0. h \in Obj /\ mark[h] # "free" /\ h \notin Threads /\ h \notin Upvals
    BY KindsAssumption DEF Live
  <1>1. \/ mark[h] = "black" /\ mark' = [mark EXCEPT ![h] = "gray"] /\ grayagain' = grayagain \cup {h}
        \/ (mark[h] = "black" => \A v \in V : ~IsWhite(v)) /\ mark' = mark /\ grayagain' = grayagain
    BY DEF BarrierBack
  <1>2. /\ ents'[h] = E /\ \A x \in Obj \ {h} : ents'[x] = ents[x]
        /\ \A x \in Obj \ {h} : mark'[x] = mark[x]
        /\ mark'[h] \in {mark[h], "gray"} /\ (mark'[h] = mark[h] \/ mark[h] = "black")
    BY <1>0, <1>1 DEF TypeOK
  <1>3. Live' = Live /\ Heap' = Heap /\ NonWhite' = NonWhite
    BY <1>0, <1>2 DEF Live, Heap, NonWhite
  <1>4. \A x \in Live : Refers(x)' \subseteq Live
    <2>1. ASSUME NEW x \in Live
          PROVE  strong[x] \cup KeyObjs(Filled(ents'[x])) \cup ValObjs(ents'[x]) \subseteq Live
                 /\ (x \in Threads => Open(x) \cup Captured(x) \subseteq Live)
      BY <1>2 DEF GcInv, NoDangling, Refers, Live
    <2> QED BY <2>1 DEF Refers, KeyObjs, ValObjs, Filled, Open, Captured
  <1>5. NoDangling' /\ TwupsExact'
    BY <1>3, <1>4 DEF GcInv, NoDangling, TwupsExact, Pinned
  <1>6. Shape'
    BY <1>0, <1>2, <1>3 DEF GcInv, Shape, IsOpen, Heap
  <1>7. PhaseColours'
    <2>1. mark[h] = "black" => phase # "pause" /\ (phase = "sweep" => h \in tosweep)
      BY <1>0 DEF GcInv, PhaseColours, Heap
    <2> QED BY <1>2, <1>3, <2>1 DEF GcInv, PhaseColours, Marking, Heap
  <1>8. TriColour'
    <2>1. ASSUME Marking, NEW x \in Obj, mark'[x] = "black"
          PROVE  /\ strong[x] \cup KeyObjs(ents'[x]) \cup ValObjs(ents'[x]) \subseteq NonWhite
                 /\ x \in Upvals => ~IsOpen(x)
      <3>1. CASE x # h
        BY <1>2, <2>1, <3>1 DEF GcInv, TriColour
      <3>2. CASE x = h
        <4>1. mark[h] = "black" /\ \A v \in V : ~IsWhite(v)
          BY <1>0, <1>1, <2>1, <3>2 DEF TypeOK
        <4>2. V \subseteq NonWhite
          BY <4>1 DEF Live, NonWhite, IsWhite
        <4> QED BY <1>0, <1>2, <2>1, <3>2, <4>1, <4>2 DEF GcInv, TriColour
      <3> QED BY <3>1, <3>2
    <2> QED BY <1>3, <2>1 DEF TriColour, Marking, IsOpen, KeyObjs, ValObjs
  <1>9. Linking'
    <2>1. mark[h] = "black" => h \in NonWhite
      BY <1>0 DEF NonWhite
    <2>2. ASSUME Marking
          PROVE  /\ gray \cup grayagain' \cup allweak \subseteq NonWhite
                 /\ {Root} \cup markedRefs \subseteq NonWhite
                 /\ \A x \in allweak : strong[x] \subseteq NonWhite
      BY <1>1, <2>1, <2>2 DEF GcInv, Linking
    <2>3. ASSUME Marking, NEW x \in Obj, mark'[x] = "gray"
          PROVE  x \in gray \cup grayagain' \cup allweak \/ (x \in Upvals /\ IsOpen(x))
      BY <1>0, <1>1, <1>2, <2>3 DEF GcInv, Linking
    <2>4. ASSUME Marking, NEW t \in Threads
          PROVE  mark'[t] # "black"
      BY <1>0, <1>2, <2>4 DEF GcInv, Linking, Obj
    <2> QED BY <1>3, <2>2, <2>3, <2>4 DEF Linking, Marking, IsOpen
  <1> QED BY <1>5, <1>6, <1>7, <1>8, <1>9 DEF GcInv

LEMMA StoreNewInv ==
  ASSUME TypeOK, GcInv, NEW h \in Live \cap Tables, NEW k \in Live \cup {Scalar},
         NEW v \in Live \cup {Scalar}, StoreNew(h, k, v)
  PROVE  GcInv'
  <1>1. PICK dropped : ents' = [ents EXCEPT ![h] = (ents[h] \ dropped) \cup {<<k, v>>}]
    BY DEF StoreNew
  <1> DEFINE E == (ents[h] \ dropped) \cup {<<k, v>>}
             V == {k, v} \cap Obj
  <1>2. KeyObjs(Filled(ents[h])) \cup ValObjs(ents[h]) \subseteq Live
    BY DEF GcInv, NoDangling, Refers
  <1>3. /\ KeyObjs(E) \subseteq KeyObjs(ents[h]) \cup V
        /\ ValObjs(E) \subseteq ValObjs(ents[h]) \cup V
        /\ KeyObjs(Filled(E)) \subseteq KeyObjs(Filled(ents[h])) \cup V
    BY DEF KeyObjs, ValObjs, Filled
  <1>4. V \in SUBSET Live
    BY KindsAssumption DEF Live
  <1>5. BarrierBack(h, V)
        /\ UNCHANGED <<phase, strong, owner, gray, allweak, refs, markedRefs, twups, tosweep>>
    BY DEF StoreNew, pins
  <1>6. ents' = [ents EXCEPT ![h] = E]
    BY <1>1
  <1> HIDE DEF E, V
  <1> QED BY <1>2, <1>3, <1>4, <1>5, <1>6, BarrierBackInv

LEMMA StoreOldInv ==
  ASSUME TypeOK, GcInv, NEW h \in Live \cap Tables, NEW k \in Live \cup {Scalar},
         NEW v \in Live \cup {Scalar}, StoreOld(h, k, v)
  PROVE  GcInv'
  <1>1. PICK e \in ents[h] : e[1] = k /\ ents' = [ents EXCEPT ![h] = (ents[h] \ {e}) \cup {<<k, v>>}]
    BY DEF StoreOld
  <1> DEFINE E == (ents[h] \ {e}) \cup {<<k, v>>}
             V == {v} \cap Obj
  <1>2. KeyObjs(Filled(ents[h])) \cup ValObjs(ents[h]) \subseteq Live
    BY DEF GcInv, NoDangling, Refers
  <1>3. /\ KeyObjs(E) \subseteq KeyObjs(ents[h])
        /\ ValObjs(E) \subseteq ValObjs(ents[h]) \cup V
        /\ KeyObjs(Filled(E)) \subseteq KeyObjs(Filled(ents[h])) \cup ({k} \cap Obj)
    BY <1>1 DEF KeyObjs, ValObjs, Filled
  <1>4. V \in SUBSET Live /\ {k} \cap Obj \subseteq Live
    BY KindsAssumption DEF Live
  <1>5. BarrierBack(h, V)
        /\ UNCHANGED <<phase, strong, owner, gray, allweak, refs, markedRefs, twups, tosweep>>
    BY DEF StoreOld, pins
  <1>6. ents' = [ents EXCEPT ![h] = E]
    BY <1>1
  <1> HIDE DEF E, V
  <1> QED BY <1>2, <1>3, <1>4, <1>5, <1>6, BarrierBackInv

LEMMA EraseInv ==
  ASSUME TypeOK, GcInv, NEW h \in Live \cap Tables, NEW e \in ents[h], Erase(h, e)
  PROVE  GcInv'
  <1> DEFINE E == (ents[h] \ {e}) \cup IF e[1] = Scalar THEN {} ELSE {<<e[1], Nil>>}
  <1>1. ents' = [ents EXCEPT ![h] = E] /\ mark' = mark /\ grayagain' = grayagain
        /\ UNCHANGED <<phase, strong, owner, gray, allweak, refs, markedRefs, twups, tosweep>>
    BY DEF Erase, colours, lists, pins
  <1>2. KeyObjs(Filled(ents[h])) \cup ValObjs(ents[h]) \subseteq Live
    BY DEF GcInv, NoDangling, Refers
  <1>3. /\ KeyObjs(E) \subseteq KeyObjs(ents[h])
        /\ ValObjs(E) \subseteq ValObjs(ents[h])
        /\ KeyObjs(Filled(E)) \subseteq KeyObjs(Filled(ents[h]))
    BY KindsAssumption DEF KeyObjs, ValObjs, Filled
  <1>4. BarrierBack(h, {})
    BY <1>1 DEF BarrierBack
  <1> HIDE DEF E
  <1> QED BY <1>1, <1>2, <1>3, <1>4, BarrierBackInv

(* Operations without a barrier: references dropped or, on a stack, added. *)
LEMMA QuietInv ==
  ASSUME TypeOK, GcInv,
         UNCHANGED <<phase, mark, ents, owner, gray, grayagain, allweak, twups, tosweep>>,
         \A x \in Obj : \/ strong'[x] \subseteq strong[x]
                        \/ x \in Live \cap Threads /\ strong'[x] \subseteq strong[x] \cup (Live \ Upvals),
         refs' \cup markedRefs' \subseteq Live, markedRefs' \subseteq markedRefs
  PROVE  GcInv'
  <1>1. Live' = Live /\ Heap' = Heap /\ NonWhite' = NonWhite
    BY DEF Live, Heap, NonWhite
  <1>2. \A u \in Upvals : strong'[u] \subseteq strong[u]
    BY KindsAssumption DEF Obj
  <1>3. \A t : Open(t)' = Open(t) /\ Captured(t)' \subseteq Captured(t)
    <2>1. \A t : Open(t)' = Open(t)
      BY DEF Open
    <2>2. ASSUME NEW t, NEW y \in Captured(t)'
          PROVE  y \in Captured(t)
      <3>1. PICK u \in Open(t) : y \in strong'[u]
        BY <2>1, <2>2, Zenon DEF Captured
      <3>2. u \in Open(t) /\ y \in strong[u]
        BY <1>2, <3>1 DEF Open
      <3> QED BY <3>2, Zenon DEF Captured
    <2> QED BY <2>1, <2>2
  <1>4. \A x \in Live : Refers(x)' \subseteq Live
    <2>1. ASSUME NEW x \in Live
          PROVE  strong'[x] \cup KeyObjs(Filled(ents[x])) \cup ValObjs(ents[x]) \subseteq Live
                 /\ (x \in Threads => Open(x) \cup Captured(x) \subseteq Live)
      BY DEF GcInv, NoDangling, Refers, Live
    <2> QED BY <1>3, <2>1 DEF Refers, KeyObjs, ValObjs, Filled
  <1>5. NoDangling' /\ TwupsExact'
    BY <1>1, <1>4 DEF GcInv, NoDangling, TwupsExact, Pinned
  <1>6. Shape'
    BY <1>1, <1>2, KindsAssumption DEF GcInv, Shape, IsOpen, Obj, Live
  <1>7. PhaseColours'
    BY <1>1 DEF GcInv, PhaseColours, Marking
  <1>8. TriColour'
    <2>1. ASSUME Marking, NEW x \in Obj, mark[x] = "black"
          PROVE  strong'[x] \subseteq strong[x]
      BY <2>1 DEF GcInv, Linking
    <2> QED BY <1>1, <2>1 DEF GcInv, TriColour, Marking, IsOpen, KeyObjs, ValObjs
  <1>9. Linking'
    <2>1. \A h \in allweak : strong'[h] \subseteq strong[h]
      BY KindsAssumption DEF TypeOK, Obj
    <2> QED BY <1>1, <2>1 DEF GcInv, Linking, Marking, IsOpen
  <1> QED BY <1>5, <1>6, <1>7, <1>8, <1>9 DEF GcInv

LEMMA AllocInv ==
  ASSUME TypeOK, GcInv, NEW o \in Obj, NEW K \in SUBSET Live, Alloc(o, K)
  PROVE  GcInv'
  <1>1. /\ mark[o] = "free" /\ o \notin Upvals
        /\ K # {} => o \in Funcs \cup Userdata
        /\ K # {} /\ o \in Userdata => K \subseteq Tables
        /\ mark' = [mark EXCEPT ![o] = "white"] /\ strong' = [strong EXCEPT ![o] = K]
        /\ refs' = refs \cup {o}
        /\ UNCHANGED <<phase, ents, owner, gray, grayagain, allweak, markedRefs, twups, tosweep>>
    BY DEF Alloc, lists
  <1>2. Live' = Live \cup {o} /\ Heap' = Heap \cup {o} /\ NonWhite' = NonWhite /\ o \notin Live
    BY <1>1 DEF Live, Heap, NonWhite, TypeOK
  <1>3. ents[o] = {} /\ \A u \in Upvals : owner[u] # o
    BY <1>1, KindsAssumption DEF GcInv, Shape, IsOpen, Heap, TypeOK
  <1>4. \A x \in Obj \ {o} : strong'[x] = strong[x] /\ mark'[x] = mark[x]
    BY <1>1 DEF TypeOK
  <1>5. strong'[o] = K /\ mark'[o] = "white"
    BY <1>1 DEF TypeOK
  <1>6. \A t : Open(t)' = Open(t) /\ Captured(t)' = Captured(t) /\ Open(o) = {}
    <2>1. \A t : Open(t)' = Open(t) /\ Open(o) = {}
      BY <1>1, <1>3 DEF Open
    <2>2. \A t : {strong'[u] : u \in Open(t)} = {strong[u] : u \in Open(t)}
      BY <1>1, <1>4 DEF Open, Obj
    <2> QED BY <2>1, <2>2 DEF Captured
  <1>7. \A x \in Live' : Refers(x)' \subseteq Live'
    <2>1. ASSUME NEW x \in Live
          PROVE  strong'[x] \cup KeyObjs(Filled(ents[x])) \cup ValObjs(ents[x]) \subseteq Live
                 /\ (x \in Threads => Open(x) \cup Captured(x) \subseteq Live)
      BY <1>2, <1>4 DEF GcInv, NoDangling, Refers, Live
    <2>2. Captured(o) = {}
      BY <1>6, Zenon DEF Captured
    <2>3. strong'[o] \cup KeyObjs(Filled(ents[o])) \cup ValObjs(ents[o]) \cup Open(o) \cup Captured(o)
            \subseteq Live
      BY <1>3, <1>5, <1>6, <2>2 DEF KeyObjs, ValObjs, Filled
    <2> QED BY <1>1, <1>2, <1>6, <2>1, <2>3 DEF Refers, KeyObjs, ValObjs, Filled
  <1>8. NoDangling' /\ TwupsExact'
    BY <1>1, <1>2, <1>3, <1>7 DEF GcInv, NoDangling, TwupsExact, Pinned
  <1>9. Shape'
    <2>1. \A x \in Obj : mark'[x] = "free" => mark[x] = "free" /\ x # o
      BY <1>4, <1>5
    <2>2. o \in Strings \cup Threads \cup Upvals => K = {}
      BY <1>1, KindsAssumption
    <2> QED BY <1>1, <1>2, <1>3, <1>4, <1>5, <2>1, <2>2 DEF GcInv, Shape, IsOpen, Obj
  <1>10. PhaseColours'
    BY <1>1, <1>2, <1>4, <1>5 DEF GcInv, PhaseColours, Marking, Heap
  <1>11. TriColour'
    BY <1>1, <1>2, <1>4, <1>5 DEF GcInv, TriColour, Marking, IsOpen, KeyObjs, ValObjs
  <1>12. Linking'
    <2>1. Marking => o \notin allweak
      BY <1>1 DEF GcInv, Linking, NonWhite
    <2> QED BY <1>1, <1>2, <1>4, <1>5, <2>1 DEF GcInv, Linking, Marking, IsOpen, Obj, TypeOK
  <1> QED BY <1>8, <1>9, <1>10, <1>11, <1>12 DEF GcInv

LEMMA InternInv ==
  ASSUME TypeOK, GcInv, NEW s \in Strings, Intern(s)
  PROVE  GcInv'
  <1>1. /\ s \in Obj /\ mark[s] # "free" /\ refs' = refs \cup {s}
        /\ mark' = [mark EXCEPT ![s] = IF mark[s] = "dead" THEN "white" ELSE mark[s]]
        /\ UNCHANGED <<phase, strong, ents, owner, gray, grayagain, allweak, markedRefs, twups, tosweep>>
    BY DEF Intern, data, lists, Heap, Obj
  <1>2. /\ \A x \in Obj \ {s} : mark'[x] = mark[x]
        /\ mark'[s] = IF mark[s] = "dead" THEN "white" ELSE mark[s]
    BY <1>1 DEF TypeOK
  <1>3. Live' = Live \cup {s} /\ Heap' = Heap /\ NonWhite' = NonWhite
    BY <1>1, <1>2 DEF Live, Heap, NonWhite, TypeOK, Colours
  <1>4. s \notin Tables \cup Threads \cup Upvals /\ strong[s] = {} /\ ents[s] = {}
    BY <1>1, KindsAssumption DEF GcInv, Shape
  <1>5. \A x \in Live' : Refers(x)' \subseteq Live
    <2>1. Refers(s) = {}
      BY <1>4 DEF Refers, KeyObjs, ValObjs, Filled
    <2>2. \A x \in Live : Refers(x) \subseteq Live
      BY DEF GcInv, NoDangling
    <2>3. \A x : Refers(x)' = Refers(x)
      BY <1>1 DEF Refers, Open, Captured
    <2> QED BY <1>3, <2>1, <2>2, <2>3
  <1>6. NoDangling'
    BY <1>1, <1>3, <1>5 DEF GcInv, NoDangling, Pinned
  <1>7. TwupsExact'
    <2>1. \A u \in Upvals : owner[u] \in Threads \cup {Nil}
      BY DEF TypeOK
    <2> QED BY <1>1, <1>3, <1>4, <2>1, KindsAssumption DEF GcInv, TwupsExact
  <1>8. Shape'
    BY <1>1, <1>2, <1>3 DEF GcInv, Shape, IsOpen
  <1>9. PhaseColours'
    BY <1>1, <1>2, <1>3 DEF GcInv, PhaseColours, Marking, Heap
  <1>10. TriColour' /\ Linking'
    BY <1>1, <1>2, <1>3, <1>4 DEF GcInv, TriColour, Linking, Marking, IsOpen, KeyObjs, ValObjs, Obj
  <1> QED BY <1>6, <1>7, <1>8, <1>9, <1>10 DEF GcInv

LEMMA CaptureInv ==
  ASSUME TypeOK, GcInv, NEW t \in Live \cap Threads, NEW u \in Upvals, NEW V, Capture(t, u, V)
  PROVE  GcInv'
  <1>1. /\ mark[u] = "free" /\ V \subseteq strong[t]
        /\ mark' = [mark EXCEPT ![u] = "white"] /\ strong' = [strong EXCEPT ![u] = V]
        /\ owner' = [owner EXCEPT ![u] = t] /\ twups' = twups \cup {t}
        /\ UNCHANGED <<phase, ents, gray, grayagain, allweak, refs, markedRefs>>
    BY DEF Capture, lists, pins
  <1>2. u \in Obj /\ u \notin Tables \cup Strings \cup Userdata \cup Threads /\ t # Nil /\ t # u
    BY KindsAssumption DEF Obj
  <1>3. /\ mark'[u] = "white" /\ \A x \in Obj \ {u} : mark'[x] = mark[x]
        /\ strong'[u] = V /\ \A x \in Obj \ {u} : strong'[x] = strong[x]
        /\ owner'[u] = t /\ \A x \in Upvals \ {u} : owner'[x] = owner[x]
    BY <1>1, <1>2 DEF TypeOK
  <1>4. Live' = Live \cup {u} /\ Heap' = Heap \cup {u} /\ NonWhite' = NonWhite
    BY <1>1, <1>2, <1>3 DEF Live, Heap, NonWhite
  <1>5. V \subseteq Live /\ V \cap Upvals = {} /\ ents[u] = {} /\ owner[u] = Nil
    BY <1>1, <1>2 DEF GcInv, NoDangling, Refers, Shape, IsOpen, Heap
  <1>6. \A x \in Threads : Open(x)' \subseteq Open(x) \cup {u} /\ Captured(x)' \subseteq Captured(x) \cup V
    <2>1. \A x \in Threads : Open(x)' \subseteq Open(x) \cup {u}
      BY <1>3 DEF Open
    <2>2. ASSUME NEW x \in Threads, NEW y \in Captured(x)'
          PROVE  y \in Captured(x) \cup V
      <3>1. PICK w \in Open(x)' : y \in strong'[w]
        BY <2>2, Zenon DEF Captured
      <3>2. CASE w = u
        BY <1>3, <3>1, <3>2
      <3>3. CASE w # u
        <4>1. w \in Open(x) /\ y \in strong[w]
          BY <1>3, <2>1, <3>1, <3>3 DEF Open, Obj
        <4> QED BY <4>1, Zenon DEF Captured
      <3> QED BY <3>2, <3>3
    <2> QED BY <2>1, <2>2
  <1>7. \A x \in Live' : Refers(x)' \subseteq Live'
    <2>1. ASSUME NEW x \in Live
          PROVE  strong'[x] \cup KeyObjs(Filled(ents[x])) \cup ValObjs(ents[x]) \subseteq Live
                 /\ (x \in Threads => Open(x) \cup Captured(x) \subseteq Live)
      BY <1>1, <1>3, <1>5 DEF GcInv, NoDangling, Refers, Live
    <2>2. strong'[u] \cup KeyObjs(Filled(ents[u])) \cup ValObjs(ents[u]) \subseteq Live
      BY <1>3, <1>5 DEF KeyObjs, ValObjs, Filled
    <2> QED BY <1>1, <1>2, <1>4, <1>5, <1>6, <2>1, <2>2 DEF Refers, KeyObjs, ValObjs, Filled
  <1>8. NoDangling'
    BY <1>1, <1>4, <1>7 DEF GcInv, NoDangling, Pinned
  <1>9. TwupsExact'
    <2>1. \A x \in Upvals : owner[x] # u
      BY <1>2, KindsAssumption DEF TypeOK, Obj
    <2> QED BY <1>1, <1>2, <1>3, <1>4, <2>1 DEF GcInv, TwupsExact
  <1>10. Shape'
    <2>1. t \in Heap
      BY DEF Live, Heap
    <2> QED BY <1>1, <1>2, <1>3, <1>4, <1>5, <2>1 DEF GcInv, Shape, IsOpen, Obj
  <1>11. PhaseColours'
    BY <1>1, <1>2, <1>3, <1>4 DEF GcInv, PhaseColours, Marking, Heap, Capture
  <1>12. TriColour'
    <2>1. \A x \in Obj : mark'[x] = "black" => x # u /\ mark[x] = "black"
      BY <1>3
    <2> QED BY <1>1, <1>3, <1>4, <2>1 DEF GcInv, TriColour, Marking, IsOpen, KeyObjs, ValObjs
  <1>13. Linking'
    <2>1. \A x \in Obj : mark'[x] \in {"gray", "black"} => x # u /\ mark[x] = mark'[x]
      BY <1>3
    <2>2. u \notin allweak
      BY <1>2 DEF TypeOK
    <2> QED BY <1>1, <1>2, <1>3, <1>4, <2>1, <2>2 DEF GcInv, Linking, Marking, IsOpen, Obj, TypeOK
  <1> QED BY <1>8, <1>9, <1>10, <1>11, <1>12, <1>13 DEF GcInv

LEMMA CloseUpvalInv ==
  ASSUME TypeOK, GcInv, NEW u \in Live \cap Upvals, CloseUpval(u)
  PROVE  GcInv'
  <1> DEFINE held == {v \in strong[u] : IsWhite(v)}
  <1>0. u \in Obj /\ u \notin Tables \cup Strings \cup Threads /\ mark[u] # "free"
    BY KindsAssumption DEF Live
  <1>1. /\ IsOpen(u) /\ owner' = [owner EXCEPT ![u] = Nil]
        /\ UNCHANGED <<phase, strong, ents, grayagain, allweak, refs, markedRefs, twups, tosweep>>
    BY DEF CloseUpval, pins
  <1>2. \/ mark[u] \notin {"gray", "black"} /\ mark' = mark /\ gray' = gray
        \/ /\ mark[u] \in {"gray", "black"} /\ held = {}
           /\ mark' = [mark EXCEPT ![u] = "black"] /\ gray' = gray
        \/ /\ mark[u] \in {"gray", "black"} /\ Marking
           /\ mark' = [Marked(held) EXCEPT ![u] = "black"] /\ gray' = GrayWith(held)
        \/ /\ mark[u] \in {"gray", "black"} /\ ~Marking
           /\ mark' = [mark EXCEPT ![u] = "white"] /\ gray' = gray
    BY DEF CloseUpval
  <1>3. held \in SUBSET Live /\ strong[u] \subseteq Live /\ held \subseteq strong[u]
    BY DEF GcInv, NoDangling, Refers
  <1>4. \A v \in strong[u] \ held : ~IsWhite(v)
    OBVIOUS
  <1> HIDE DEF held
  <1>5. owner'[u] = Nil /\ \A x \in Upvals \ {u} : owner'[x] = owner[x]
    BY <1>1 DEF TypeOK
  <1>6. Marking =>
           /\ \A x \in Obj \ {u} : mark'[x] = "black" =>
                 /\ strong[x] \cup KeyObjs(ents[x]) \cup ValObjs(ents[x]) \subseteq NonWhite'
                 /\ x \in Upvals => ~IsOpen(x)
                 /\ x \notin Threads
           /\ mark'[u] \in {"gray", "black"} => mark'[u] = "black" /\ strong[u] \subseteq NonWhite'
           /\ NonWhite \subseteq NonWhite'
           /\ gray \subseteq gray' /\ gray' \subseteq NonWhite'
           /\ \A x \in Obj \ {u} : mark'[x] = "gray" =>
                 \/ x \in gray' \cup grayagain \cup allweak
                 \/ x \in Upvals /\ IsOpen(x)
    <2>1. CASE mark[u] \notin {"gray", "black"} /\ mark' = mark /\ gray' = gray
      <3>1. NonWhite' = NonWhite
        BY <2>1 DEF NonWhite
      <3> QED BY <2>1, <3>1 DEF GcInv, TriColour, Linking
    <2>2. CASE /\ mark[u] \in {"gray", "black"} /\ held = {}
               /\ mark' = [mark EXCEPT ![u] = "black"] /\ gray' = gray
      <3>1. NonWhite' = NonWhite
        BY <1>0, <2>2 DEF NonWhite, TypeOK
      <3>2. strong[u] \subseteq NonWhite
        BY <1>3, <1>4, <2>2 DEF NonWhite, Live, IsWhite
      <3>3. mark'[u] = "black" /\ \A x \in Obj \ {u} : mark'[x] = mark[x]
        BY <1>0, <2>2 DEF TypeOK
      <3> QED BY <2>2, <3>1, <3>2, <3>3 DEF GcInv, TriColour, Linking
    <2>3. CASE /\ mark[u] \in {"gray", "black"} /\ Marking
               /\ mark' = [Marked(held) EXCEPT ![u] = "black"] /\ gray' = GrayWith(held)
      <3>1. phase # "sweep"
        BY <2>3 DEF Marking
      <3>2. mark'[u] = "black" /\ \A x \in Obj \ {u} : mark'[x] = Marked(held)[x]
        BY <1>0, <2>3, MarkedType
      <3>3. NonWhite' = Coloured(Marked(held))
        <4>1. Marked(held)[u] \in {"gray", "black"}
          BY <1>0, <1>3, <2>3, <3>1, MarkedFacts
        <4> QED BY <1>0, <3>2, <4>1 DEF NonWhite, Coloured
      <3>4. strong[u] \subseteq NonWhite'
        <4>1. strong[u] \ held \subseteq NonWhite
          BY <1>3, <1>4 DEF NonWhite, Live, IsWhite
        <4> QED BY <1>3, <3>1, <3>3, <4>1, MarkedFacts
      <3>5. NonWhite \subseteq NonWhite' /\ Touched(held) \subseteq NonWhite'
        BY <1>3, <3>1, <3>3, MarkedFacts
      <3>6. gray \subseteq gray' /\ gray' \subseteq NonWhite'
        BY <2>3, <3>5 DEF GrayWith, GcInv, Linking
      <3>7. \A x \in Obj \ {u} : mark'[x] = "black" =>
                 /\ strong[x] \cup KeyObjs(ents[x]) \cup ValObjs(ents[x]) \subseteq NonWhite'
                 /\ x \in Upvals => ~IsOpen(x)
                 /\ x \notin Threads
        BY <1>3, <3>1, <3>2, <3>3, MarkedFacts
      <3>8. \A x \in Obj \ {u} : mark'[x] = "gray" =>
                 \/ x \in gray' \cup grayagain \cup allweak
                 \/ x \in Upvals /\ IsOpen(x)
        BY <1>3, <2>3, <3>1, <3>2, MarkedFacts DEF GrayWith, GcInv, Linking
      <3> QED BY <3>2, <3>4, <3>5, <3>6, <3>7, <3>8
    <2> QED BY <1>2, <2>1, <2>2, <2>3
  <1>7. /\ \A x \in Obj : (mark'[x] = "free" <=> mark[x] = "free")
                          /\ (mark'[x] = "dead" <=> mark[x] = "dead")
                          /\ mark'[x] \in Colours
        /\ ~Marking => \A x \in Obj \ {u} : mark'[x] = mark[x]
    <2>1. CASE ~Marking \/ held = {} \/ mark[u] \notin {"gray", "black"}
      <3>1. \/ mark' = mark
            \/ mark[u] \in {"gray", "black"} /\ mark' = [mark EXCEPT ![u] = "black"]
            \/ mark[u] \in {"gray", "black"} /\ mark' = [mark EXCEPT ![u] = "white"]
            \/ /\ mark[u] \in {"gray", "black"} /\ Marking /\ held = {}
               /\ mark' = [Marked(held) EXCEPT ![u] = "black"]
        BY <1>2, <2>1
      <3>2. held = {} => Marked(held) = mark
        <4>1. held = {} => Touched(held) = {}
          BY Zenon DEF Touched
        <4> QED BY <4>1 DEF Marked, TypeOK
      <3> QED BY <1>0, <3>1, <3>2 DEF TypeOK, Colours
    <2>2. CASE /\ mark[u] \in {"gray", "black"} /\ Marking
               /\ mark' = [Marked(held) EXCEPT ![u] = "black"]
      <3>1. phase # "sweep" /\ \A x \in Obj : mark[x] # "dead"
        BY <2>2 DEF Marking, GcInv, PhaseColours, Heap, Live
      <3>2. mark'[u] = "black" /\ \A x \in Obj \ {u} : mark'[x] = Marked(held)[x]
        BY <1>0, <2>2, MarkedType
      <3>3. \A x \in Obj : Marked(held)[x] \in Colours
        BY MarkedType
      <3> QED BY <1>0, <1>3, <2>2, <3>1, <3>2, <3>3, MarkedFacts DEF Colours
    <2> QED BY <1>2, <2>1, <2>2
  <1>8. Live' = Live /\ Heap' = Heap
    BY <1>7 DEF Live, Heap, Colours, TypeOK
  <1>9. \A x \in Live : Refers(x)' \subseteq Refers(x)
    <2>1. \A t \in Threads : Open(t)' \subseteq Open(t)
      BY <1>5, KindsAssumption DEF Open, Obj
    <2>2. \A t \in Threads : Captured(t)' \subseteq Captured(t)
      <3>1. ASSUME NEW t \in Threads, NEW y \in Captured(t)'
            PROVE  y \in Captured(t)
        <4>1. PICK w \in Open(t)' : y \in strong[w]
          BY <1>1, <3>1, Zenon DEF Captured
        <4>2. w \in Open(t)
          BY <2>1, <4>1
        <4> QED BY <4>1, <4>2, Zenon DEF Captured
      <3> QED BY <3>1
    <2> QED BY <1>1, <2>1, <2>2 DEF Refers
  <1>10. NoDangling'
    BY <1>1, <1>8, <1>9 DEF GcInv, NoDangling, Pinned
  <1>11. TwupsExact'
    <2>1. Nil \notin Live
      BY KindsAssumption DEF Live
    <2> QED BY <1>1, <1>5, <1>8, <2>1 DEF GcInv, TwupsExact
  <1>12. Shape'
    BY <1>1, <1>5, <1>7, <1>8 DEF GcInv, Shape, IsOpen
  <1>13. PhaseColours'
    <2>1. ~Marking /\ mark[u] = "white" => mark'[u] = "white"
      BY <1>0, <1>2
    <2> QED BY <1>1, <1>7, <1>8, <2>1 DEF GcInv, PhaseColours, Marking, Heap
  <1>14. TriColour'
    <2>1. ASSUME Marking, NEW x \in Obj, mark'[x] = "black"
          PROVE  /\ strong[x] \cup KeyObjs(ents[x]) \cup ValObjs(ents[x]) \subseteq NonWhite'
                 /\ x \in Upvals => owner'[x] = Nil
      <3>1. ents[u] = {}
        BY <1>0 DEF GcInv, Shape
      <3> QED BY <1>5, <1>6, <2>1, <3>1 DEF KeyObjs, ValObjs, IsOpen
    <2> QED BY <1>1, <2>1 DEF TriColour, Marking, IsOpen, KeyObjs, ValObjs
  <1>15. Linking'
    <2>1. ASSUME Marking, NEW x \in Obj, mark'[x] = "gray"
          PROVE  x \in gray' \cup grayagain \cup allweak \/ (x \in Upvals /\ owner'[x] # Nil)
      BY <1>5, <1>6, <2>1 DEF IsOpen
    <2>2. Marking => \A t \in Threads : mark'[t] # "black"
      BY <1>0, <1>6 DEF Obj
    <2>3. ASSUME Marking
          PROVE  /\ gray' \cup grayagain \cup allweak \subseteq NonWhite'
                 /\ {Root} \cup markedRefs \subseteq NonWhite'
                 /\ \A h \in allweak : strong[h] \subseteq NonWhite'
      BY <1>6, <2>3 DEF GcInv, Linking
    <2> QED BY <1>1, <2>1, <2>2, <2>3 DEF Linking, Marking, IsOpen
  <1> QED BY <1>10, <1>11, <1>12, <1>13, <1>14, <1>15 DEF GcInv

LEMMA ProgramInv ==
  ASSUME TypeOK, GcInv, Program, ~RetuneAllWeak
  PROVE  GcInv'
  <1>0. Accessible \subseteq Live /\ Live \subseteq Obj /\ Pinned \subseteq Live
    BY AccessibleLive DEF GcInv, Live, NoDangling
  <1>1. ASSUME NEW o \in Obj, NEW K \in {{}} \cup {{v} : v \in Accessible}, Alloc(o, K)
        PROVE  GcInv'
    <2>1. K \in SUBSET Live
      BY <1>0
    <2> QED BY <1>1, <2>1, AllocInv
  <1>2. ASSUME NEW o \in Accessible, Pin(o) \/ Unpin(o)
        PROVE  GcInv'
    <2>1. /\ UNCHANGED <<phase, mark, strong, ents, owner, gray, grayagain, allweak, twups, tosweep>>
          /\ refs' \cup markedRefs' \subseteq Pinned \cup {o} /\ markedRefs' \subseteq markedRefs
      BY <1>2 DEF Pin, Unpin, colours, data, lists, Pinned
    <2> QED BY <1>0, <2>1, QuietInv
  <1>3. ASSUME NEW s \in Strings, Intern(s)
        PROVE  GcInv'
    BY <1>3, InternInv
  <1>4. ASSUME NEW h \in Accessible \cap Tables, NEW k \in (Accessible \cap Keys) \cup {Scalar},
               NEW v \in (Accessible \cap Held) \cup {Scalar}, StoreNew(h, k, v) \/ StoreOld(h, k, v)
        PROVE  GcInv'
    BY <1>0, <1>4, StoreNewInv, StoreOldInv
  <1>5. ASSUME NEW h \in Accessible \cap Tables, NEW e \in ents[h], Erase(h, e)
        PROVE  GcInv'
    BY <1>0, <1>5, EraseInv
  <1>6. ASSUME NEW h \in Accessible \cap Tables, NEW m \in Accessible \cap Metatables,
               SetMetatable(h, m)
        PROVE  GcInv'
    <2>1. /\ Barrier(h, {m}) /\ strong' = [strong EXCEPT ![h] = {m}]
          /\ UNCHANGED <<phase, ents, owner, grayagain, allweak, refs, markedRefs, twups, tosweep>>
          /\ h \notin allweak
      BY <1>6 DEF SetMetatable, pins
    <2>2. /\ h \in Live /\ {m} \in SUBSET Live /\ {m} \subseteq Tables
          /\ h \notin Threads \cup Strings \cup Upvals
      BY <1>0, KindsAssumption, UseAssumption
    <2>3. {m} \subseteq strong[h] \cup {m}
      OBVIOUS
    <2> QED BY <2>1, <2>2, <2>3, BarrierInv
  <1>7. ASSUME NEW h \in Accessible \cap Tables, RemoveMetatable(h)
        PROVE  GcInv'
    <2>1. /\ UNCHANGED <<phase, mark, ents, owner, gray, grayagain, allweak, twups, tosweep>>
          /\ refs' \cup markedRefs' = Pinned /\ markedRefs' = markedRefs
          /\ \A x \in Obj : strong'[x] \subseteq strong[x]
      BY <1>7 DEF RemoveMetatable, colours, lists, pins, Pinned, TypeOK
    <2> QED BY <1>0, <2>1, QuietInv
  <1>8. ASSUME NEW h \in Accessible \cap Tables, NEW md \in Modes, SetMode(h, md)
        PROVE  GcInv'
    <2>1. /\ UNCHANGED <<phase, mark, ents, owner, gray, grayagain, allweak, twups, tosweep>>
          /\ refs' \cup markedRefs' = Pinned /\ markedRefs' = markedRefs /\ strong' = strong
      BY <1>8 DEF SetMode, colours, lists, pins, Pinned
    <2> QED BY <1>0, <2>1, QuietInv
  <1>9. ASSUME NEW o \in Accessible \cap (Funcs \cup Userdata), NEW v \in Accessible,
               AddReference(o, v)
        PROVE  GcInv'
    <2>1. /\ Barrier(o, {v}) /\ strong' = [strong EXCEPT ![o] = strong[o] \cup {v}]
          /\ UNCHANGED <<phase, ents, owner, grayagain, allweak, refs, markedRefs, twups, tosweep>>
          /\ o \in Funcs \/ v \in Tables
      BY <1>9 DEF AddReference, pins
    <2>2. /\ o \in Live /\ {v} \in SUBSET Live /\ (o \in Userdata => {v} \subseteq Tables)
          /\ o \notin Threads \cup Strings \cup Upvals \cup Tables
      BY <1>0, <2>1, KindsAssumption
    <2>3. o \notin allweak
      BY <2>2 DEF TypeOK
    <2> QED BY <2>1, <2>2, <2>3, BarrierInv
  <1>10. ASSUME NEW t \in Accessible \cap Threads,
                \/ \E v \in Accessible \cap Held : Push(t, v)
                \/ \E v \in strong[t] : Pop(t, v)
         PROVE  GcInv'
    <2>1. PICK v \in Obj : (Push(t, v) /\ v \in Accessible \cap Held) \/ Pop(t, v)
      BY <1>0, <1>10 DEF TypeOK
    <2>2. /\ UNCHANGED <<phase, mark, ents, owner, gray, grayagain, allweak, twups, tosweep>>
          /\ refs' \cup markedRefs' = Pinned /\ markedRefs' = markedRefs
      BY <2>1 DEF Push, Pop, colours, lists, pins, Pinned
    <2>3. /\ \A x \in Obj \ {t} : strong'[x] = strong[x]
          /\ strong'[t] \subseteq strong[t] \cup (Live \ Upvals)
      BY <1>0, <2>1, UseAssumption DEF Push, Pop, TypeOK
    <2>4. t \in Live \cap Threads
      BY <1>0
    <2> QED BY <1>0, <2>2, <2>3, <2>4, QuietInv
  <1>11. ASSUME NEW t \in Accessible \cap Threads, NEW u \in Upvals, NEW V, Capture(t, u, V)
         PROVE  GcInv'
    BY <1>0, <1>11, CaptureInv
  <1>12. ASSUME NEW u \in Accessible \cap Upvals,
                NEW V \in {{}} \cup {{v} : v \in Accessible \cap Held}, SetUpval(u, V)
         PROVE  GcInv'
    <2>1. /\ Barrier(u, V) /\ strong' = [strong EXCEPT ![u] = V]
          /\ UNCHANGED <<phase, ents, owner, grayagain, allweak, refs, markedRefs, twups, tosweep>>
      BY <1>12 DEF SetUpval, pins
    <2>2. /\ u \in Live /\ V \in SUBSET Live /\ V \cap Upvals = {}
          /\ u \notin Threads \cup Strings \cup Userdata \cup Tables
      BY <1>0, KindsAssumption, UseAssumption
    <2>3. u \notin allweak /\ V \subseteq strong[u] \cup V
      BY <2>2 DEF TypeOK
    <2> QED BY <2>1, <2>2, <2>3, BarrierInv
  <1>13. ASSUME NEW u \in Accessible \cap Upvals, CloseUpval(u)
         PROVE  GcInv'
    BY <1>0, <1>13, CloseUpvalInv
  <1> QED
    <2>1. \/ \E o \in Obj, K \in {{}} \cup {{v} : v \in Accessible} : Alloc(o, K)
          \/ \E o \in Accessible : Pin(o) \/ Unpin(o)
          \/ \E s \in Strings : Intern(s)
          \/ \E h \in Accessible \cap Tables,
                k \in (Accessible \cap Keys) \cup {Scalar},
                v \in (Accessible \cap Held) \cup {Scalar} : StoreNew(h, k, v) \/ StoreOld(h, k, v)
          \/ \E h \in Accessible \cap Tables : \E e \in ents[h] : Erase(h, e)
          \/ \E h \in Accessible \cap Tables, m \in Accessible \cap Metatables : SetMetatable(h, m)
          \/ \E h \in Accessible \cap Tables : RemoveMetatable(h)
          \/ \E h \in Accessible \cap Tables, md \in Modes : SetMode(h, md)
          \/ \E o \in Accessible \cap (Funcs \cup Userdata), v \in Accessible : AddReference(o, v)
          \/ \E t \in Accessible \cap Threads :
                \/ \E v \in Accessible \cap Held : Push(t, v)
                \/ \E v \in strong[t] : Pop(t, v)
          \/ \E t \in Accessible \cap Threads, u \in Upvals : \E V : Capture(t, u, V)
          \/ \E u \in Accessible \cap Upvals, V \in {{}} \cup {{v} : v \in Accessible \cap Held} :
                SetUpval(u, V)
          \/ \E u \in Accessible \cap Upvals : CloseUpval(u)
      BY ProgramCases, Zenon
    <2> QED BY <2>1, <1>1, <1>2, <1>3, <1>4, <1>5, <1>6, <1>7, <1>8, <1>9, <1>10, <1>11, <1>12, <1>13

(* The invariant holds in every reachable state.                           *)
THEOREM Invariant ==
  ASSUME ~RetuneAllWeak
  PROVE  Spec => []GcInv
  <1>1. ASSUME TypeOK, GcInv, [Next]_vars
        PROVE  GcInv'
    <2>1. CASE UNCHANGED vars
      BY <1>1, <2>1 DEF vars, colours, data, lists, pins, GcInv, Shape, PhaseColours, NoDangling,
         TriColour, Linking, TwupsExact, Heap, Live, Marking, Refers, Pinned, Filled, KeyObjs,
         ValObjs, Open, Captured, IsOpen, NonWhite
    <2> QED BY <1>1, <2>1, CollectorInv, ProgramInv DEF Next
  <1> QED BY <1>1, InitInv, TypeCorrect, PTL DEF Spec

(* Memory safety: the registry and everything held from Rust stays alive,  *)
(* and no live object refers to a reclaimed one.                           *)
THEOREM MemorySafe ==
  ASSUME ~RetuneAllWeak
  PROVE  Spec => []NoDangling
  <1>1. GcInv => NoDangling
    BY DEF GcInv
  <1> QED BY <1>1, Invariant, PTL

(* While a cycle marks, no black object refers to a white one.             *)
THEOREM TriColourHolds ==
  ASSUME ~RetuneAllWeak
  PROVE  Spec => []TriColour
  <1>1. GcInv => TriColour
    BY DEF GcInv
  <1> QED BY <1>1, Invariant, PTL

(* Every live thread with open upvalues is in twups, which holds live      *)
(* threads only.                                                           *)
THEOREM TwupsHolds ==
  ASSUME ~RetuneAllWeak
  PROVE  Spec => []TwupsExact
  <1>1. GcInv => TwupsExact
    BY DEF GcInv
  <1> QED BY <1>1, Invariant, PTL

(* No step but the sweep's makes an address free.                          *)
LEMMA OnlySweepFrees ==
  ASSUME TypeOK, Next, NEW o \in Obj, mark[o] # "free", mark'[o] = "free"
  PROVE  mark[o] = "dead"
  <1>1. \A S : Marked(S) \in [Obj -> Colours] /\ Marked(S)[o] # "free"
    BY MarkedType DEF Marked, MarkColour
  <1>2. ASSUME NEW x, NEW S, Blacken(x, S) \/ Postpone(x, S)
        PROVE  FALSE
    BY <1>1, <1>2 DEF Blacken, Postpone
  <1>3. ASSUME NEW x, NEW V, Barrier(x, V)
        PROVE  FALSE
    BY <1>1, <1>3 DEF Barrier, TypeOK
  <1>4. ASSUME NEW x, NEW V, BarrierBack(x, V)
        PROVE  FALSE
    BY <1>4 DEF BarrierBack, TypeOK
  <1>5. ASSUME Collector, \A x \in Obj : ~Free(x)
        PROVE  FALSE
    <2>1. ASSUME NEW h \in Tables, TraverseWeakValues(h) \/ TraverseEphemeron(h)
          PROVE  FALSE
      <3>1. \E S : Postpone(h, S)
        BY <2>1 DEF TraverseWeakValues, TraverseEphemeron
      <3> QED BY <1>2, <3>1
    <2>2. ASSUME NEW h \in Tables, TraverseAllWeak(h)
          PROVE  FALSE
      BY <1>1, <2>2 DEF TraverseAllWeak
    <2>3. CASE StartCycle \/ GrayEmpty \/ SweepDone
      BY <1>1, <2>3 DEF StartCycle, GrayEmpty, SweepDone
    <2>4. CASE FinishMarking
      BY <2>4 DEF FinishMarking
    <2>5. ASSUME NEW x \in Obj, SweepSurvivor(x)
          PROVE  FALSE
      BY <2>5 DEF SweepSurvivor, TypeOK
    <2> QED BY <1>2, <1>5, <2>1, <2>2, <2>3, <2>4, <2>5
            DEF Collector, TraverseStrongTable, TraverseFunction, TraverseThread
  <1>6. ASSUME NEW x \in Obj, Free(x)
        PROVE  mark[o] = "dead"
    BY <1>6 DEF Free, ClosedColour
  <1>7. CASE Program
    <2>1. ASSUME NEW x, NEW K, Alloc(x, K)
          PROVE  FALSE
      BY <2>1 DEF Alloc, TypeOK
    <2>2. ASSUME NEW x, Pin(x) \/ Unpin(x)
          PROVE  FALSE
      BY <2>2 DEF Pin, Unpin, colours
    <2>3. ASSUME NEW s \in Strings, Intern(s)
          PROVE  FALSE
      BY <2>3 DEF Intern, TypeOK
    <2>4. ASSUME NEW h, NEW k, NEW v, StoreNew(h, k, v) \/ StoreOld(h, k, v)
          PROVE  FALSE
      BY <1>4, <2>4 DEF StoreNew, StoreOld
    <2>5. ASSUME NEW h, NEW m, SetMetatable(h, m) \/ AddReference(h, m) \/ SetUpval(h, m)
          PROVE  FALSE
      BY <1>3, <2>5 DEF SetMetatable, AddReference, SetUpval
    <2>6. ASSUME NEW t, NEW v, Push(t, v) \/ Pop(t, v) \/ RemoveMetatable(t) \/ SetMode(t, v)
                              \/ Erase(t, v)
          PROVE  FALSE
      BY <2>6 DEF Push, Pop, RemoveMetatable, SetMode, Erase, colours
    <2>7. ASSUME NEW t, NEW u, NEW V, Capture(t, u, V)
          PROVE  FALSE
      BY <2>7 DEF Capture, TypeOK
    <2>8. ASSUME NEW u, CloseUpval(u)
          PROVE  FALSE
      <3>1. \A S : mark' # [Marked(S) EXCEPT ![u] = "black"] /\ mark' # mark
                   /\ mark' # [mark EXCEPT ![u] = "black"] /\ mark' # [mark EXCEPT ![u] = "white"]
        BY <1>1 DEF TypeOK
      <3> QED BY <2>8, <3>1 DEF CloseUpval
    <2> QED BY <1>7, <2>1, <2>2, <2>3, <2>4, <2>5, <2>6, <2>7, <2>8, ProgramCases
  <1> QED BY <1>5, <1>6, <1>7 DEF Next

(* The sweep frees nothing the program can still reach.                    *)
THEOREM FreesOnlyGarbage ==
  ASSUME ~RetuneAllWeak
  PROVE  Spec => FreesGarbageOnly
  <1>1. ASSUME TypeOK, GcInv, [Next]_vars
        PROVE  [\A o \in Obj : mark[o] # "free" /\ mark'[o] = "free" => o \notin Accessible]_vars
    <2>1. Accessible \subseteq Live
      BY <1>1, AccessibleLive DEF GcInv
    <2>2. \A o \in Live : mark[o] # "dead"
      BY DEF Live
    <2> QED BY <1>1, <2>1, <2>2, OnlySweepFrees
  <1> QED BY <1>1, TypeCorrect, Invariant, PTL DEF Spec, FreesGarbageOnly
===========================================================================
