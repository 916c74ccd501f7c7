------------------------------ MODULE Gc ------------------------------
(***************************************************************************)
(* The incremental tri-colour collector of src/src/gc/mod.rs and the       *)
(* mutator operations that share the heap with it: allocation, strong      *)
(* references from Rust (Ref), table stores with their barriers,           *)
(* metatables and weak modes, upvalues and the stacks they capture, and    *)
(* the interning of strings.                                               *)
(*                                                                         *)
(* One step of the collector is one action; the program may act between    *)
(* any two of them, because every operation that allocates ends with a     *)
(* call of Gc::step and OP_CONCAT calls it even without allocating.        *)
(*                                                                         *)
(* The two white bits are named relative to Gc.currentwhite: "white" has   *)
(* the current bit and "dead" the other one, so that flipping currentwhite *)
(* renames every white object to "dead". Linked lists (gray, grayagain,    *)
(* refs, ...) are sets: whatever the order the code's list gives, it is    *)
(* one of the orders of the model.                                         *)
(*                                                                         *)
(* A definition named Faulty... is not part of the model: it is the next   *)
(* definition with a plausible mistake, and PROJECT.json names the         *)
(* property TLC finds violated when it takes that definition's place.      *)
(***************************************************************************)
EXTENDS Naturals, FiniteSets

CONSTANTS
    Tables, Strings, Funcs, Userdata, Threads, Upvals,
                 \* the addresses an object of each kind can have; Funcs holds
                 \* Lua functions, Rust closures and prototypes
    Root,        \* the registry (Gc.root)
    Scalar,      \* any value that is not a collected object
    Nil,         \* the nil of an emptied table entry; the owner of a closed upvalue
    Metatables,  \* the tables the program uses as metatables
    Keys,        \* what the program uses as keys of table entries
    Held,        \* the objects the program holds from Rust, on stacks, in
                 \* upvalues and as values of table entries
    Modes,       \* the values of __mode the program uses: a set of subsets of {"k", "v"}
    RetuneAllWeak,  \* whether the program changes the metatable or the __mode
                    \* of a fully weak table after the collector has linked it
    MaxSize,     \* bound: how many entries a table, values a stack and
                 \* references a function or userdata can have; a table
                 \* without entries gets no metatable either
    MaxPins      \* bound: objects held from Rust at a time

Obj == Tables \cup Strings \cup Funcs \cup Userdata \cup Threads \cup Upvals

ASSUME KindsAssumption ==
    /\ \A K \in {Strings, Funcs, Userdata, Threads, Upvals} : Tables \cap K = {}
    /\ \A K \in {Funcs, Userdata, Threads, Upvals} : Strings \cap K = {}
    /\ \A K \in {Userdata, Threads, Upvals} : Funcs \cap K = {}
    /\ \A K \in {Threads, Upvals} : Userdata \cap K = {}
    /\ Threads \cap Upvals = {}
    /\ Root \in Tables
    /\ Scalar \notin Obj
    /\ Nil \notin Obj
    /\ Scalar # Nil
ASSUME ModesAssumption == Modes \subseteq SUBSET {"k", "v"} /\ {} \in Modes
ASSUME RetuneAssumption == RetuneAllWeak \in BOOLEAN
ASSUME UseAssumption == Metatables \subseteq Tables /\ Keys \subseteq Obj \cup {Scalar} /\ Held \subseteq Obj \ Upvals
ASSUME BoundsAssumption == MaxSize \in [Obj -> Nat] /\ MaxPins \in Nat

VARIABLES
    phase,       \* Gc.state
    mark,        \* Object.marked, "free" when the address holds no object
    strong,      \* what an object refers to outside table entries: a table's
                 \* metatable, a function's upvalues and constants, a userdata's
                 \* tables, the values on a thread's stack that no open upvalue
                 \* captures, the value of an upvalue
    ents,        \* the entries <<key, value>> of a table; the key of an array
                 \* slot is Scalar
    mode,        \* the __mode of a table when it is used as a metatable
    owner,       \* the thread on whose stack an open upvalue's value lives
    gray, grayagain, allweak,   \* Gc.gray, Gc.grayagain, Gc.allweak
    refs, markedRefs,           \* Gc.refs, Gc.marked_refs
    twups,       \* Gc.twups: threads with open upvalues
    tosweep      \* the objects from Gc.sweep to the end of Gc.all

colours == <<phase, mark>>
data == <<strong, ents, mode, owner>>
lists == <<gray, grayagain, allweak>>
pins == <<refs, markedRefs>>
vars == <<colours, data, lists, pins, twups, tosweep>>

-----------------------------------------------------------------------------
(* The heap.                                                               *)

Heap == {o \in Obj : mark[o] # "free"}
IsWhite(o) == mark[o] \in {"white", "dead"}
NonWhite == {o \in Obj : mark[o] \in {"gray", "black"}}
Live == {o \in Obj : mark[o] \in {"white", "gray", "black"}}
Marking == phase \in {"propagate", "enteratomic"}

IsOpen(u) == owner[u] # Nil
Open(t) == {u \in Upvals : owner[u] = t}
Captured(t) == UNION {strong[u] : u \in Open(t)}

Filled(E) == {e \in E : e[2] # Nil}
KeyObjs(E) == {e[1] : e \in E} \cap Obj
ValObjs(E) == {e[2] : e \in E} \cap Obj
Mode(h) == UNION {mode[m] : m \in strong[h]}

-----------------------------------------------------------------------------
(* Gc::mark and what is built on it.                                       *)

(* What calling mark on every white member of S recolours: an upvalue takes *)
(* the object it holds with it, a userdata its tables.                      *)
Touched(S) ==
    LET W == {o \in Obj : IsWhite(o)}
        a == S \cap W
        b == a \cup ((UNION {strong[u] : u \in a \cap Upvals}) \cap W)
    IN  b \cup ((UNION {strong[d] : d \in b \cap Userdata}) \cap W)

FaultyMarkColour(o) == IF o \in Strings \cup Userdata \cup Upvals THEN "black" ELSE "gray"
MarkColour(o) ==
    IF \/ o \in Strings \cup Userdata
       \/ o \in Upvals /\ ~IsOpen(o)
    THEN "black" ELSE "gray"

Linked == Tables \cup Funcs \cup Threads

Marked(S) == [o \in Obj |-> IF o \in Touched(S) THEN MarkColour(o) ELSE mark[o]]
FaultyGrayWithStrings(S) == gray \cup Touched(S)
FaultyGrayWithoutProps(S) == gray \cup {o \in S \cap Linked : IsWhite(o)}
GrayWith(S) == gray \cup (Touched(S) \cap Linked)

FaultyBarrier(o, V) ==
    IF mark[o] = "black" /\ \E v \in V : IsWhite(v)
    THEN IF phase = "propagate"
         THEN mark' = Marked(V) /\ gray' = GrayWith(V)
         ELSE mark' = [mark EXCEPT ![o] = "white"] /\ gray' = gray
    ELSE mark' = mark /\ gray' = gray

(* Gc::barrier: a black o was made to refer to a white member of V.        *)
Barrier(o, V) ==
    IF mark[o] = "black" /\ \E v \in V : IsWhite(v)
    THEN IF Marking
         THEN mark' = Marked(V) /\ gray' = GrayWith(V)
         ELSE mark' = [mark EXCEPT ![o] = "white"] /\ gray' = gray
    ELSE mark' = mark /\ gray' = gray

FaultyBarrierBackBoth(h, S) ==
    IF mark[h] = "black" /\ \A v \in S : IsWhite(v)
    THEN /\ mark' = [mark EXCEPT ![h] = "gray"]
         /\ grayagain' = grayagain \cup {h}
    ELSE UNCHANGED <<mark, grayagain>>

FaultyBarrierBackColour(h, S) ==
    IF mark[h] = "black" /\ \E v \in S : IsWhite(v)
    THEN mark' = mark /\ grayagain' = grayagain \cup {h}
    ELSE UNCHANGED <<mark, grayagain>>

(* Gc::barrier_back, after the caller's test of the colours of h and of    *)
(* the key or value stored.                                                *)
BarrierBack(h, S) ==
    IF mark[h] = "black" /\ \E v \in S : IsWhite(v)
    THEN /\ mark' = [mark EXCEPT ![h] = "gray"]
         /\ grayagain' = grayagain \cup {h}
    ELSE UNCHANGED <<mark, grayagain>>

-----------------------------------------------------------------------------
(* The collector: Gc::step, state by state.                                *)

FaultyStartCycle ==
    /\ phase = "pause"
    /\ phase' = "propagate"
    /\ mark' = Marked({Root} \cup refs)
    /\ gray' = Touched({Root} \cup refs) \cap Linked
    /\ allweak' = {}
    /\ markedRefs' = refs
    /\ refs' = {}
    /\ UNCHANGED <<data, grayagain, twups, tosweep>>

(* State 8: a new cycle. The lists are reset, the registry and everything  *)
(* held from Rust is marked.                                               *)
StartCycle ==
    /\ phase = "pause"
    /\ phase' = "propagate"
    /\ mark' = Marked({Root} \cup refs)
    /\ gray' = Touched({Root} \cup refs) \cap Linked
    /\ grayagain' = {}
    /\ allweak' = {}
    /\ markedRefs' = refs
    /\ refs' = {}
    /\ UNCHANGED <<data, twups, tosweep>>

(* State 0, mark_one_gray: o leaves the gray list and is black once what   *)
(* it refers to has been marked.                                           *)
Blacken(o, S) ==
    /\ mark' = [Marked(S) EXCEPT ![o] = "black"]
    /\ gray' = GrayWith(S) \ {o}
    /\ UNCHANGED <<grayagain, allweak>>

(* o is traversed but stays gray in grayagain, for the atomic phase.       *)
Postpone(o, S) ==
    /\ mark' = Marked(S)
    /\ gray' = GrayWith(S) \ {o}
    /\ grayagain' = grayagain \cup {o}
    /\ UNCHANGED allweak

FaultyDropTombstones(h) == ents' = ents
DropTombstones(h) == ents' = [ents EXCEPT ![h] = Filled(@)]

InPropagate(o) ==
    /\ phase = "propagate"
    /\ o \in gray
    /\ UNCHANGED <<phase, strong, mode, owner, pins, twups, tosweep>>

FaultyTraverseStrongTable(h) ==
    /\ InPropagate(h)
    /\ Mode(h) = {}
    /\ Blacken(h, strong[h] \cup ValObjs(ents[h]))
    /\ DropTombstones(h)

TraverseStrongTable(h) ==
    /\ InPropagate(h)
    /\ Mode(h) = {}
    /\ Blacken(h, strong[h] \cup KeyObjs(Filled(ents[h])) \cup ValObjs(ents[h]))
    /\ DropTombstones(h)

FaultyTraverseWeakValues(h) ==
    /\ InPropagate(h)
    /\ Mode(h) = {"v"}
    /\ Blacken(h, strong[h] \cup KeyObjs(Filled(ents[h])))
    /\ DropTombstones(h)

(* Weak values: is_cleared marks the strings it meets before the first     *)
(* value that will have to be cleared.                                     *)
TraverseWeakValues(h) ==
    /\ InPropagate(h)
    /\ Mode(h) = {"v"}
    /\ \E met \in SUBSET (ValObjs(ents[h]) \cap Strings) :
          Postpone(h, strong[h] \cup KeyObjs(Filled(ents[h])) \cup met)
    /\ DropTombstones(h)

FaultyEphemeronValues(h, marked) ==
    {e[2] : e \in {e \in ents[h] : e[1] \in NonWhite \cup Strings \cup {Scalar}}} \cap Obj

(* Weak keys: a value is marked when its key is found marked. Marking one  *)
(* value can mark the key of an entry visited later, so the order of the   *)
(* slots decides between "certain" and "possible".                         *)
EphemeronValues(h, marked) ==
    {e[2] : e \in {e \in ents[h] : e[1] \in marked \cup Strings \cup {Scalar}}} \cap Obj

FaultyTraverseEphemeron(h) ==
    /\ InPropagate(h)
    /\ Mode(h) = {"k"}
    /\ Blacken(h, strong[h] \cup EphemeronValues(h, NonWhite))
    /\ DropTombstones(h)

TraverseEphemeron(h) ==
    /\ InPropagate(h)
    /\ Mode(h) = {"k"}
    /\ LET found == NonWhite \cup Touched(strong[h])
           certain == EphemeronValues(h, found)
           possible == {v \in ValObjs(ents[h]) :
                          \A S \in SUBSET ValObjs(ents[h]) :
                             EphemeronValues(h, found \cup Touched(S)) \subseteq S => v \in S}
       IN  \E V \in SUBSET possible :
              /\ certain \subseteq V
              /\ Postpone(h, strong[h] \cup V \cup (KeyObjs(Filled(ents[h])) \cap Strings))
    /\ DropTombstones(h)

(* Weak keys and values: nothing but the metatable is marked and the table *)
(* is not visited again; its entries are cleared in the atomic phase.      *)
TraverseAllWeak(h) ==
    /\ InPropagate(h)
    /\ Mode(h) = {"k", "v"}
    /\ mark' = Marked(strong[h])
    /\ gray' = GrayWith(strong[h]) \ {h}
    /\ allweak' = allweak \cup {h}
    /\ UNCHANGED <<ents, grayagain>>

TraverseFunction(f) ==
    /\ InPropagate(f)
    /\ Blacken(f, strong[f])
    /\ UNCHANGED ents

(* A thread is only put off: its stack has no barrier.                     *)
TraverseThread(t) ==
    /\ InPropagate(t)
    /\ Postpone(t, {})
    /\ UNCHANGED ents

GrayEmpty ==
    /\ phase = "propagate"
    /\ gray = {}
    /\ phase' = "enteratomic"
    /\ UNCHANGED <<mark, data, lists, pins, twups, tosweep>>

-----------------------------------------------------------------------------
(* State 1: finish_marking and the flip of currentwhite, in one step.      *)

FaultyAllWeakKids(h, S) == {}

(* What is_cleared and clear_by_values mark in a fully weak table: strings *)
(* are values, never removed from weak tables.                             *)
AllWeakKids(h, S) ==
    LET E == Filled(ents[h])
        kept == {e \in E : e[2] \in S \cup Strings \cup {Scalar}}
    IN  (ValObjs(E) \cup KeyObjs(kept)) \cap Strings

TableKids(h, S) ==
    LET E == Filled(ents[h])
    IN  strong[h] \cup
        IF Mode(h) = {} THEN KeyObjs(E) \cup ValObjs(E)
        ELSE IF Mode(h) = {"v"} THEN KeyObjs(E) \cup (ValObjs(E) \cap Strings)
        ELSE IF Mode(h) = {"k"} THEN (KeyObjs(E) \cap Strings) \cup EphemeronValues(h, S)
        ELSE AllWeakKids(h, S)

AtomicKids(o, S) ==
    IF o \in Tables THEN TableKids(o, S)
    ELSE IF o \in Threads THEN strong[o] \cup Open(o) \cup Captured(o)
    ELSE strong[o]

(* The objects the atomic phase visits, when it ends up having marked S.   *)
AtomicWork(S) == (S \ NonWhite) \cup gray \cup grayagain

FaultyRemarkedForgotten == {}

FaultyRemarkedAll ==
    UNION {strong[u] : u \in {u \in Upvals : owner[u] \in twups \ NonWhite}}

(* remark_upvalues: marked open upvalues of threads that are not marked.   *)
RemarkedValues ==
    UNION {strong[u] : u \in {u \in Upvals \cap NonWhite : owner[u] \in twups \ NonWhite}}

FaultyAtomicClosed(S) ==
    /\ NonWhite \cup RemarkedValues \subseteq S
    /\ \A o \in AtomicWork(S) : AtomicKids(o, S) \subseteq S
    /\ \A h \in allweak : AllWeakKids(h, S) \subseteq S

AtomicClosed(S) ==
    /\ NonWhite \cup refs \cup RemarkedValues \subseteq S
    /\ \A o \in AtomicWork(S) : AtomicKids(o, S) \subseteq S
    /\ \A h \in allweak : AllWeakKids(h, S) \subseteq S

(* The least closed set: the traversals, the ephemeron convergence and the *)
(* clearing passes together mark no more than they have to.                *)
AtomicMarked ==
    LET closed == {S \in SUBSET Heap : AtomicClosed(S)}
    IN  {o \in Heap : \A S \in closed : o \in S}

FaultyRelinked(M, visited) == twups

(* remark_upvalues drops the threads that are white or have no open        *)
(* upvalues, mark_thread links those it visits again.                      *)
Relinked(M, visited) ==
    {t \in M \cap Threads : Open(t) # {} /\ t \in twups \cup visited}

FinishMarking ==
    /\ phase = "enteratomic"
    /\ phase' = "sweep"
    /\ LET M == AtomicMarked
           visited == AtomicWork(M) \cup allweak
           staysGray == {u \in Upvals : IsOpen(u)} \cup allweak
                          \cup {h \in visited \cap Tables : Mode(h) # {}}
           kept == M \cup {Scalar}
       IN  /\ mark' = [o \in Obj |->
                         IF o \in M THEN IF o \in staysGray THEN "gray" ELSE "black"
                         ELSE IF mark[o] = "free" THEN "free" ELSE "dead"]
           /\ ents' = [o \in Obj |->
                         IF o \in visited
                         THEN {e \in ents[o] : e[1] \in kept /\ e[2] \in kept}
                         ELSE ents[o]]
           /\ twups' = Relinked(M, visited)
    /\ gray' = {}
    /\ grayagain' = {}
    /\ allweak' = {}
    /\ refs' = refs \cup markedRefs
    /\ markedRefs' = {}
    /\ tosweep' = Heap
    /\ UNCHANGED <<strong, mode, owner>>

-----------------------------------------------------------------------------
(* State 3: sweep and free.                                                *)

SweepSurvivor(o) ==
    /\ phase = "sweep"
    /\ o \in tosweep
    /\ mark[o] # "dead"
    /\ mark' = [mark EXCEPT ![o] = "white"]
    /\ tosweep' = tosweep \ {o}
    /\ UNCHANGED <<phase, data, lists, pins, twups>>

(* luaF_closeupval, from Thread::drop: a marked upvalue of the dead thread *)
(* becomes black, or white again through the barrier.                      *)
ClosedColour(u) ==
    IF mark[u] \notin {"gray", "black"} THEN mark[u]
    ELSE IF \E v \in strong[u] : IsWhite(v) THEN "white" ELSE "black"

Free(o) ==
    /\ phase = "sweep"
    /\ o \in tosweep
    /\ mark[o] = "dead"
    /\ mark' = [x \in Obj |->
                  IF x = o THEN "free"
                  ELSE IF x \in Open(o) THEN ClosedColour(x) ELSE mark[x]]
    /\ owner' = [u \in Upvals |-> IF o \in {u, owner[u]} THEN Nil ELSE owner[u]]
    /\ strong' = [strong EXCEPT ![o] = {}]
    /\ ents' = [ents EXCEPT ![o] = {}]
    /\ mode' = [mode EXCEPT ![o] = {}]
    /\ tosweep' = tosweep \ {o}
    /\ UNCHANGED <<phase, lists, pins, twups>>

SweepDone ==
    /\ phase = "sweep"
    /\ tosweep = {}
    /\ phase' = "pause"
    /\ UNCHANGED <<mark, data, lists, pins, twups, tosweep>>

-----------------------------------------------------------------------------
(* The program: Lua code and the Rust code that embeds it.                 *)

(* A thread refers to its open upvalues: luaF_findupval hands them to new  *)
(* closures.                                                               *)
Refers(o) ==
    strong[o] \cup KeyObjs(Filled(ents[o])) \cup ValObjs(ents[o])
        \cup IF o \in Threads THEN Open(o) \cup Captured(o) ELSE {}

Pinned == refs \cup markedRefs

(* What the program can get hold of by any sequence of reads, weak tables  *)
(* included. The operands of an operation are drawn from it: the loads that *)
(* bring them to the stack need no barrier and may happen without a step of *)
(* the collector in between.                                               *)
Accessible ==
    LET roots == {Root} \cup Pinned
        edges == UNION {{o} \X Refers(o) : o \in Heap}
        closed == {S \in {roots \cup X : X \in SUBSET (Heap \ roots)} :
                      \A e \in edges : e[1] \in S => e[2] \in S}
    IN  {o \in Heap : \A S \in closed : o \in S}

(* Gc::alloc and Ref::new: a new object, current white, held from Rust. A  *)
(* function is born with an upvalue or constant, a userdata with its       *)
(* metatable (K).                                                          *)
Alloc(o, K) ==
    /\ mark[o] = "free"
    /\ o \notin Upvals
    /\ K # {} => o \in Funcs \cup Userdata /\ Cardinality(K) <= MaxSize[o]
    /\ K # {} /\ o \in Userdata => K \subseteq Tables
    /\ Cardinality(Pinned) < MaxPins
    /\ mark' = [mark EXCEPT ![o] = "white"]
    /\ strong' = [strong EXCEPT ![o] = K]
    /\ refs' = refs \cup {o}
    /\ UNCHANGED <<phase, ents, mode, owner, lists, markedRefs, twups, tosweep>>

(* Ref::new and the drop of the last Ref.                                  *)
Pin(o) ==
    /\ o \notin Pinned
    /\ Cardinality(Pinned) < MaxPins
    /\ refs' = refs \cup {o}
    /\ UNCHANGED <<colours, data, lists, markedRefs, twups, tosweep>>

Unpin(o) ==
    /\ o \in Pinned
    /\ refs' = refs \ {o}
    /\ markedRefs' = markedRefs \ {o}
    /\ UNCHANGED <<colours, data, lists, twups, tosweep>>

(* Str::new finds the contents in the string table: the object found may be *)
(* unreachable, even dead, and is resurrected.                             *)
Intern(s) ==
    /\ s \in Heap
    /\ s \notin Pinned
    /\ Cardinality(Pinned) < MaxPins
    /\ mark' = [mark EXCEPT ![s] = IF @ = "dead" THEN "white" ELSE @]
    /\ refs' = refs \cup {s}
    /\ UNCHANGED <<phase, data, lists, markedRefs, twups, tosweep>>

(* luaH_newkey: k is not in h. A rehash or the reuse of a node drops       *)
(* tombstones. Then the barriers for the key and for the value.            *)
StoreNew(h, k, v) ==
    /\ k = Scalar => v # Scalar
    /\ k # Scalar => \A e \in ents[h] : e[1] # k
    /\ \E dropped \in SUBSET (ents[h] \ Filled(ents[h])) :
          LET E == (ents[h] \ dropped) \cup {<<k, v>>}
          IN  /\ Cardinality(E) <= MaxSize[h]
              /\ ents' = [ents EXCEPT ![h] = E]
    /\ BarrierBack(h, {k, v} \cap Obj)
    /\ UNCHANGED <<phase, strong, mode, owner, gray, allweak, pins, twups, tosweep>>

(* A store to an existing node, whether filled or emptied (luaH_get finds  *)
(* the key, luaH_finishset or the fast path writes the value): only the    *)
(* value has a barrier.                                                    *)
StoreOld(h, k, v) ==
    /\ \E e \in ents[h] :
          /\ e[1] = k
          /\ k # Scalar
          /\ ents' = [ents EXCEPT ![h] = (@ \ {e}) \cup {<<k, v>>}]
    /\ BarrierBack(h, {v} \cap Obj)
    /\ UNCHANGED <<phase, strong, mode, owner, gray, allweak, pins, twups, tosweep>>

(* Assigning nil: the node of a collected key keeps the key.               *)
Erase(h, e) ==
    /\ e \in Filled(ents[h])
    /\ ents' = [ents EXCEPT ![h] =
                  (@ \ {e}) \cup IF e[1] = Scalar THEN {} ELSE {<<e[1], Nil>>}]
    /\ UNCHANGED <<colours, strong, mode, owner, lists, pins, twups, tosweep>>

(* Table::set_metatable and remove_metatable.                              *)
SetMetatable(h, m) ==
    /\ MaxSize[h] > 0
    /\ strong[h] # {m}
    /\ h \in allweak => RetuneAllWeak
    /\ strong' = [strong EXCEPT ![h] = {m}]
    /\ Barrier(h, {m})
    /\ UNCHANGED <<phase, ents, mode, owner, grayagain, allweak, pins, twups, tosweep>>

RemoveMetatable(h) ==
    /\ strong[h] # {}
    /\ h \in allweak => RetuneAllWeak
    /\ strong' = [strong EXCEPT ![h] = {}]
    /\ UNCHANGED <<colours, ents, mode, owner, lists, pins, twups, tosweep>>

(* The program writes m.__mode.                                            *)
SetMode(m, md) ==
    /\ mode[m] # md
    /\ \A h \in allweak : m \in strong[h] => RetuneAllWeak
    /\ mode' = [mode EXCEPT ![m] = md]
    /\ UNCHANGED <<colours, strong, ents, owner, lists, pins, twups, tosweep>>

(* A reference added to an object under construction, with the forward     *)
(* barrier: a constant or nested prototype of a Proto (lcode, lparser), the *)
(* table of properties of a userdata (UserData::set).                      *)
AddReference(o, v) ==
    /\ o \in Funcs \/ v \in Tables
    /\ v \notin strong[o]
    /\ Cardinality(strong[o]) < MaxSize[o]
    /\ strong' = [strong EXCEPT ![o] = @ \cup {v}]
    /\ Barrier(o, {v})
    /\ UNCHANGED <<phase, ents, mode, owner, grayagain, allweak, pins, twups, tosweep>>

(* Writes to a stack have no barrier.                                      *)
Push(t, v) ==
    /\ v \notin strong[t]
    /\ Cardinality(strong[t]) < MaxSize[t]
    /\ strong' = [strong EXCEPT ![t] = @ \cup {v}]
    /\ UNCHANGED <<colours, ents, mode, owner, lists, pins, twups, tosweep>>

Pop(t, v) ==
    /\ v \in strong[t]
    /\ strong' = [strong EXCEPT ![t] = @ \ {v}]
    /\ UNCHANGED <<colours, ents, mode, owner, lists, pins, twups, tosweep>>

(* luaF_findupval: a new open upvalue for a stack slot that holds V, one   *)
(* object or a scalar.                                                     *)
Capture(t, u, V) ==
    /\ mark[u] = "free"
    /\ V \subseteq strong[t]
    /\ Cardinality(V) <= 1
    /\ mark' = [mark EXCEPT ![u] = "white"]
    /\ strong' = [strong EXCEPT ![u] = V]
    /\ owner' = [owner EXCEPT ![u] = t]
    /\ twups' = twups \cup {t}
    /\ UNCHANGED <<phase, ents, mode, lists, pins, tosweep>>

(* OP_SETUPVAL, LuaFn::set_upvalue, and for an open upvalue the assignment *)
(* to the local variable it captures: that one has no barrier, and needs   *)
(* none because an open upvalue is never black.                            *)
SetUpval(u, V) ==
    /\ strong[u] # V
    /\ strong' = [strong EXCEPT ![u] = V]
    /\ Barrier(u, V)
    /\ UNCHANGED <<phase, ents, mode, owner, grayagain, allweak, pins, twups, tosweep>>

FaultyCloseUpval(u) ==
    /\ IsOpen(u)
    /\ owner' = [owner EXCEPT ![u] = Nil]
    /\ mark' = [mark EXCEPT ![u] = IF @ \in {"gray", "black"} THEN "black" ELSE @]
    /\ UNCHANGED <<phase, strong, ents, mode, gray, grayagain, allweak, pins, twups, tosweep>>

(* luaF_closeupval for one upvalue of a running thread.                    *)
CloseUpval(u) ==
    /\ IsOpen(u)
    /\ owner' = [owner EXCEPT ![u] = Nil]
    /\ IF mark[u] \in {"gray", "black"}
       THEN LET black == [mark EXCEPT ![u] = "black"]
                held == {v \in strong[u] : IsWhite(v)}
            IN  IF held = {} THEN mark' = black /\ gray' = gray
                ELSE IF Marking
                     THEN /\ mark' = [Marked(held) EXCEPT ![u] = "black"]
                          /\ gray' = GrayWith(held)
                     ELSE mark' = [mark EXCEPT ![u] = "white"] /\ gray' = gray
       ELSE UNCHANGED <<mark, gray>>
    /\ UNCHANGED <<phase, strong, ents, mode, grayagain, allweak, pins, twups, tosweep>>

-----------------------------------------------------------------------------
Collector ==
    \/ StartCycle
    \/ \E h \in Tables : \/ TraverseStrongTable(h)
                         \/ TraverseWeakValues(h)
                         \/ TraverseEphemeron(h)
                         \/ TraverseAllWeak(h)
    \/ \E f \in Funcs : TraverseFunction(f)
    \/ \E t \in Threads : TraverseThread(t)
    \/ GrayEmpty
    \/ FinishMarking
    \/ \E o \in Obj : SweepSurvivor(o) \/ Free(o)
    \/ SweepDone

Program ==
    \E acc \in {Accessible} : \E values \in {acc \cap Held} :
    \/ \E o \in Obj, K \in {{}} \cup {{v} : v \in acc} : Alloc(o, K)
    \/ \E o \in values : Pin(o) \/ Unpin(o)
    \/ \E s \in Strings : Intern(s)
    \/ \E h \in acc \cap Tables :
          \/ \E k \in (acc \cup {Scalar}) \cap Keys, v \in values \cup {Scalar} :
                StoreNew(h, k, v) \/ StoreOld(h, k, v)
          \/ \E e \in ents[h] : Erase(h, e)
          \/ \E m \in acc \cap Metatables : SetMetatable(h, m)
          \/ RemoveMetatable(h)
          \/ \E md \in Modes : h \in Metatables /\ SetMode(h, md)
    \/ \E o \in acc \cap (Funcs \cup Userdata), v \in acc : AddReference(o, v)
    \/ \E t \in acc \cap Threads :
          \/ \E v \in values : Push(t, v)
          \/ \E v \in strong[t] : Pop(t, v)
          \/ \E u \in Upvals, V \in {{}} \cup {{v} : v \in strong[t]} : Capture(t, u, V)
    \/ \E u \in acc \cap Upvals :
          \/ \E V \in {{}} \cup {{v} : v \in values} : SetUpval(u, V)
          \/ CloseUpval(u)

Next == Collector \/ Program

Init ==
    /\ phase = "pause"
    /\ mark = [o \in Obj |-> IF o = Root THEN "white" ELSE "free"]
    /\ strong = [o \in Obj |-> {}]
    /\ ents = [o \in Obj |-> {}]
    /\ mode = [o \in Obj |-> {}]
    /\ owner = [u \in Upvals |-> Nil]
    /\ gray = {}
    /\ grayagain = {}
    /\ allweak = {}
    /\ refs = {}
    /\ markedRefs = {}
    /\ twups = {}
    /\ tosweep = {}

Spec == Init /\ [][Next]_vars

-----------------------------------------------------------------------------
(* Properties.                                                             *)

Colours == {"free", "white", "dead", "gray", "black"}

(* Every variable holds a value of its kind.                               *)
TypeOK ==
    /\ phase \in {"pause", "propagate", "enteratomic", "sweep"}
    /\ mark \in [Obj -> Colours]
    /\ strong \in [Obj -> SUBSET Obj]
    /\ ents \in [Obj -> SUBSET ((Obj \cup {Scalar}) \X (Obj \cup {Scalar, Nil}))]
    /\ mode \in [Obj -> SUBSET {"k", "v"}]
    /\ owner \in [Upvals -> Threads \cup {Nil}]
    /\ gray \subseteq Linked /\ grayagain \subseteq Linked /\ allweak \subseteq Tables
    /\ refs \subseteq Obj /\ markedRefs \subseteq Obj
    /\ twups \subseteq Threads
    /\ tosweep \subseteq Obj

(* Memory safety of the heap: the registry and everything held from Rust   *)
(* is alive, and a live object refers to live objects only, whatever the   *)
(* collector has already swept ("100% safety", README.md:18).              *)
NoDangling ==
    /\ {Root} \cup Pinned \subseteq Live
    /\ \A o \in Live : Refers(o) \subseteq Live

(* A node emptied by an assignment keeps its key until a traversal turns   *)
(* it into a dead key (Gc::clear_key). luaH_get compares the kept pointer: *)
(* in a live table it never is the address of a reclaimed object.          *)
EmptiedKeysLive == \A h \in Live \cap Tables : KeyObjs(ents[h]) \subseteq Live

(* The tri-colour invariant while a cycle marks: no black object refers to *)
(* a white one, emptied keys included, and an open upvalue, whose slot is  *)
(* written without a barrier, is never black.                              *)
TriColour ==
    Marking => \A o \in Obj : mark[o] = "black" =>
        /\ strong[o] \cup KeyObjs(ents[o]) \cup ValObjs(ents[o]) \subseteq NonWhite
        /\ o \in Upvals => ~IsOpen(o)

(* Object.gclist is one field: while a cycle marks, a gray object that is  *)
(* not an open upvalue is linked in exactly one list, so that it will be   *)
(* visited or cleared, and nothing else is linked.                         *)
GrayListed ==
    Marking =>
        /\ gray \cap grayagain = {} /\ gray \cap allweak = {} /\ grayagain \cap allweak = {}
        /\ gray \cup grayagain \cup allweak
              = {o \in Obj : mark[o] = "gray" /\ ~(o \in Upvals /\ IsOpen(o))}

(* Gc.twups holds every thread with open upvalues, the unreachable ones    *)
(* included until remark_upvalues has seen them, and no thread that the    *)
(* sweep may reclaim: the list is walked again in the next cycle.          *)
TwupsExact ==
    /\ twups \subseteq Live
    /\ \A u \in Live \cap Upvals : owner[u] \in Live => owner[u] \in twups

(* Only what the program can no longer reach is freed.                     *)
FreesGarbageOnly ==
    [][\A o \in Obj : mark[o] # "free" /\ mark'[o] = "free" => o \notin Accessible]_vars

(* What is reachable without passing through the weak side of an entry.    *)
StrongKids(o, S) ==
    LET E == Filled(ents[o])
        weak == Mode(o)
    IN  strong[o]
        \cup (IF o \in Threads THEN Open(o) \cup Captured(o) ELSE {})
        \cup (IF o \in Tables
              THEN (IF "k" \notin weak THEN KeyObjs(E) ELSE {})
                    \cup (IF "v" \in weak THEN {}
                          ELSE IF "k" \in weak
                          THEN ValObjs({e \in E : e[1] \in S \cup Strings \cup {Scalar}})
                          ELSE ValObjs(E))
              ELSE {})

StronglyReachable ==
    LET closed == {S \in SUBSET Heap : /\ {Root} \cup Pinned \subseteq S
                                       /\ \A o \in S : StrongKids(o, S) \subseteq S}
    IN  {o \in Heap : \A S \in closed : o \in S}

(* The collector removes an entry of a table only if its key or its value, *)
(* a string not counting, is not strongly reachable: an entry of a strong  *)
(* table, an ephemeron whose key is alive and a pair of strings stay.      *)
ClearsWeakOnly ==
    [][FinishMarking =>
         LET S == StronglyReachable \cup Strings \cup {Scalar}
         IN  \A h \in Live \cap Tables : h \in StronglyReachable =>
               \A e \in Filled(ents[h]) \ ents'[h] : e[1] \notin S \/ e[2] \notin S]_vars

-----------------------------------------------------------------------------
(* The inductive invariant behind NoDangling.                              *)

(* Which kinds of objects refer to which; a free address refers to nothing *)
(* and owns no upvalue.                                                    *)
Shape ==
    /\ \A o \in Obj : mark[o] = "free" => strong[o] = {}
    /\ \A o \in Obj : mark[o] = "free" \/ o \notin Tables => ents[o] = {}
    /\ \A o \in Strings : strong[o] = {}
    /\ \A o \in Userdata : strong[o] \subseteq Tables
    /\ \A x \in Threads \cup Upvals : strong[x] \cap Upvals = {}
    /\ \A u \in Upvals : IsOpen(u) => u \in Heap /\ owner[u] \in Heap

(* Where each colour can be found in each phase.                           *)
PhaseColours ==
    /\ phase = "pause" => \A o \in Heap : mark[o] = "white"
    /\ Marking => Heap \subseteq Live
    /\ phase = "sweep" => tosweep \subseteq Heap /\ \A o \in Heap \ tosweep : mark[o] = "white"

(* While marking, what is linked is marked, what is gray is linked, no     *)
(* thread is black, and the roots that will not be looked at again are     *)
(* marked.                                                                 *)
Linking ==
    Marking =>
        /\ gray \cup grayagain \cup allweak \subseteq NonWhite
        /\ \A o \in Obj : mark[o] = "gray" =>
               \/ o \in gray \cup grayagain \cup allweak
               \/ o \in Upvals /\ IsOpen(o)
        /\ \A t \in Threads : mark[t] # "black"
        /\ {Root} \cup markedRefs \subseteq NonWhite
        /\ \A h \in allweak : strong[h] \subseteq NonWhite

GcInv == Shape /\ PhaseColours /\ NoDangling /\ TriColour /\ Linking /\ TwupsExact
=============================================================================
