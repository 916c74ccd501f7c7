------------------------------- MODULE Table -------------------------------
(***************************************************************************)
(* The layout of a table (src/src/table/legacy.rs): an array whose size is *)
(* known only through alimit, which is at times a hint for the length, and *)
(* nodes chained inside one vector, where an entry that is not at its main *)
(* position makes way for one that is. Nodes set to nil keep their key, so *)
(* that a traversal can go on from it; once the collector came by, the key *)
(* of a node is dead: only its address is left.                            *)
(*                                                                         *)
(* Keys are integers and objects, the latter named by their addresses.     *)
(* Floats with an integer value are normalised before all of this, and the *)
(* others, booleans and functions differ from objects by their hash only.  *)
(*                                                                         *)
(* A definition named Faulty... is not part of the model: it is the next   *)
(* definition with a plausible mistake.                                    *)
(***************************************************************************)
EXTENDS Integers, SequencesExt

CONSTANTS
    MaxInt,         \* i64::MAX
    MaxArray,       \* the size of the largest array
    Objects,        \* addresses of the objects used as keys
    Strings,        \* the strings among them
    Hash,           \* the hash of a string, the address of any other
    Written,        \* the keys the program stores to
    Values,
    ArrayHints,     \* the sizes a constructor asks for: of the array
    NodeHints,      \* and of the nodes
    MaxList,        \* bound: positional fields of a constructor
    Nil,            \* the value nil
    None,           \* no node, no key
    Idle            \* no traversal

Ints == 0..MaxInt
Keys == Ints \cup Objects

(* luaO_ceillog2 and a shift: the power of two that n needs.               *)
RoundUp[n \in Nat] == IF n <= 1 THEN 1 ELSE 2 * RoundUp[(n + 1) \div 2]

(* n & (n - 1) = 0                                                         *)
Pow2(n) == n = 0 \/ RoundUp[n] = n

ASSUME TableAssumption ==
    /\ MaxInt \in Nat /\ MaxArray \in 1..MaxInt - 1 /\ Pow2(MaxArray)
    /\ Strings \subseteq Objects /\ Objects \cap Ints = {}
    /\ Hash \in [Objects -> Nat]
    /\ Written \subseteq Keys
    /\ Nil \notin Values /\ None \notin Keys \cup Nat
    /\ Idle \notin Keys /\ \A S \in SUBSET Keys : S # Idle
    /\ ArrayHints \subseteq 0..MaxArray /\ MaxList \in 0..MaxArray
    /\ NodeHints \subseteq Nat

VARIABLES
    content,    \* history: what was stored
    t,          \* lim: alimit; real: bit 7 of flags is clear; arr; node; free: lastfree
    building,   \* whether the constructor still runs
    cursor,     \* the key the program would pass to next, or Idle
    seen        \* history: the keys this traversal returned, or Idle

vars == <<content, t, building, cursor, seen>>

-----------------------------------------------------------------------------
(* Sizes.                                                                  *)

(* limitequalsasize and luaH_realasize                                     *)
IsSize(tab) == tab.real \/ Pow2(tab.lim)
RealSize(tab) == IF IsSize(tab) THEN tab.lim ELSE RoundUp[tab.lim]

-----------------------------------------------------------------------------
(* Finding.                                                                *)

MainPos(node, k) ==
    LET size == Cardinality(DOMAIN node)
        odd == IF size = 1 THEN 1 ELSE size - 1
    IN  IF k \in Ints THEN k % odd
        ELSE IF k \in Strings THEN Hash[k] % size
        ELSE Hash[k] % odd

(* The nodes met from node i on, as many steps as there are nodes.         *)
Chain(node, i) ==
    LET at[j \in 0..Cardinality(DOMAIN node)] ==
          IF j = 0 THEN i ELSE IF at[j - 1] = None THEN None ELSE node[at[j - 1]].next
    IN  at

FaultyFind(node, k, deadok) ==
    LET at == IF DOMAIN node = {} THEN <<>> ELSE Chain(node, MainPos(node, k))
        hits == {j \in DOMAIN at : /\ at[j] # None
                                   /\ node[at[j]].key = k /\ ~node[at[j]].dead}
    IN  IF hits = {} THEN None ELSE at[Min(hits)]

(* getgeneric, luaH_searchint, luaH_getshortstr                            *)
Find(node, k, deadok) ==
    LET at == IF DOMAIN node = {} THEN <<>> ELSE Chain(node, MainPos(node, k))
        hits == {j \in DOMAIN at : /\ at[j] # None
                                   /\ node[at[j]].key = k /\ (node[at[j]].dead => deadok)}
    IN  IF hits = {} THEN None ELSE at[Min(hits)]

(* The bits of p[1] that p[2] has not: p[1] & !p[2].                       *)
Without[p \in Nat \X Nat] ==
    IF p[1] = 0 THEN 0
    ELSE 2 * Without[<<p[1] \div 2, p[2] \div 2>>]
            + (IF p[1] % 2 = 1 /\ p[2] % 2 = 0 THEN 1 ELSE 0)

(* luaH_getint: the keys it takes from the array, those after a hint by a  *)
(* test on the bits of the hint.                                           *)
AfterHint(tab, k) == ~tab.real /\ k > tab.lim /\ Without[<<k - 1, tab.lim - 1>>] < tab.lim
InArray(tab, k) == k \in Ints /\ (k \in 1..tab.lim \/ AfterHint(tab, k))
Probed(tab, k) == IF k \in Ints /\ AfterHint(tab, k) THEN [tab EXCEPT !.lim = k] ELSE tab

(* luaH_get                                                                *)
Get(tab, k) ==
    IF InArray(tab, k) THEN tab.arr[k]
    ELSE LET n == Find(tab.node, k, FALSE) IN IF n = None THEN Nil ELSE tab.node[n].val
-----------------------------------------------------------------------------
(* Storing.                                                                *)

FaultyFreePosReused(tab) ==
    LET free == {i \in DOMAIN tab.node : i < tab.free /\ tab.node[i].val = Nil}
    IN  IF free = {} THEN None ELSE Max(free)

FaultyFreePosAtEnd(tab) ==
    IF tab.free = 0 THEN None ELSE tab.free

(* getfreepos: below lastfree, the last node that never had a key.         *)
FreePos(tab) ==
    LET free == {i \in DOMAIN tab.node : i < tab.free /\ tab.node[i].key = None}
    IN  IF free = {} THEN None ELSE Max(free)

Entry(k, v) == [key |-> k, dead |-> FALSE, val |-> v]
Unused == [key |-> None, dead |-> FALSE, val |-> Nil, next |-> None]
Holding(n, k, v) == [n EXCEPT !.key = k, !.dead = FALSE, !.val = v]

Taken(tab, k) == DOMAIN tab.node = {} \/ tab.node[MainPos(tab.node, k)].val # Nil

FaultyEvict(node, mp, f, k, v) ==
    LET path == Chain(node, MainPos(node, node[mp].key))
        pred == CHOOSE p \in Range(path) \ {None} : node[p].next = mp
    IN  [node EXCEPT ![pred].next = f, ![f] = node[mp], ![mp] = Holding(@, k, v)]

(* The entry at mp is not at its main position: it moves to f.             *)
Evict(node, mp, f, k, v) ==
    LET path == Chain(node, MainPos(node, node[mp].key))
        pred == CHOOSE p \in Range(path) \ {None} : node[p].next = mp
    IN  [node EXCEPT ![pred].next = f, ![f] = node[mp], ![mp] = Holding(Unused, k, v)]

(* The new entry goes to f, behind mp.                                     *)
Behind(node, mp, f, k, v) ==
    [node EXCEPT ![f] = Holding([@ EXCEPT !.next = node[mp].next], k, v), ![mp].next = f]

(* luaH_newkey when it needs no rehash. Without a free node it would call  *)
(* rehash again: here the entry is lost.                                   *)
NewKey(tab, k, v) ==
    LET mp == MainPos(tab.node, k)
        f == FreePos(tab)
    IN  IF ~Taken(tab, k) THEN [tab EXCEPT !.node[mp] = Holding(@, k, v)]
        ELSE IF f = None THEN tab
        ELSE [tab EXCEPT !.free = f,
                         !.node = IF MainPos(@, @[mp].key) # mp
                                  THEN Evict(@, mp, f, k, v)
                                  ELSE Behind(@, mp, f, k, v)]

(* luaH_set and luaH_setint, but for a rehash.                             *)
Put(tab, k, v) ==
    LET n == Find(tab.node, k, FALSE)
    IN  IF InArray(tab, k) THEN [Probed(tab, k) EXCEPT !.arr[k] = v]
        ELSE IF n # None THEN [tab EXCEPT !.node[n].val = v]
        ELSE IF v = Nil THEN tab
        ELSE NewKey(tab, k, v)

(* The entries in the order in which a walk meets them.                    *)
Positions(tab) == 1..RealSize(tab) + Cardinality(DOMAIN tab.node)
EntryAt(tab, p) ==
    IF p <= RealSize(tab) THEN [key |-> p, val |-> tab.arr[p]]
    ELSE LET n == tab.node[p - RealSize(tab) - 1] IN [key |-> n.key, val |-> n.val]
Used(tab) == {p \in Positions(tab) : EntryAt(tab, p).val # Nil}

(* setnodevector and the new array                                         *)
Emptied(tab, asize, hsize) ==
    LET size == IF hsize = 0 THEN 0 ELSE RoundUp[hsize]
    IN  [lim |-> asize, real |-> TRUE,
         arr |-> [i \in 1..asize |-> IF i <= RealSize(tab) THEN tab.arr[i] ELSE Nil],
         node |-> [i \in 0..size - 1 |-> Unused], free |-> size]

(* luaH_resize: what the array gives up comes first, then the old nodes.   *)
Resize(tab, asize, hsize) ==
    LET old == RealSize(tab)
        first == IF asize < old THEN asize ELSE old
        last == old + Cardinality(DOMAIN tab.node)
        moved[p \in first..last] ==
            IF p = first THEN Emptied(tab, asize, hsize)
            ELSE IF p \in Used(tab) THEN Put(moved[p - 1], EntryAt(tab, p).key, EntryAt(tab, p).val)
            ELSE moved[p - 1]
    IN  moved[last]

(* computesizes: the largest power of two with more than half of its slots *)
(* in use.                                                                 *)
SizeFor(ints) ==
    Max({0} \cup {n \in 1..2 * Cardinality(ints) :
                    Pow2(n) /\ Cardinality({k \in ints : k <= n}) > n \div 2})

(* rehash, called for key ek                                               *)
Rehash(tab, ek) ==
    LET keys == {EntryAt(tab, p).key : p \in Used(tab)} \cup {ek}
        ints == keys \cap 1..MaxArray
        asize == SizeFor(ints)
        inarray == Cardinality({k \in ints : k <= asize})
    IN  Resize(tab, asize, Cardinality(Used(tab)) + 1 - inarray)

Full(tab, k) ==
    /\ ~InArray(tab, k) /\ Find(tab.node, k, FALSE) = None
    /\ Taken(tab, k) /\ FreePos(tab) = None

(* luaH_set                                                                *)
Set(tab, k, v) ==
    Put(IF v # Nil /\ Full(tab, k) THEN Rehash(tab, k) ELSE tab, k, v)

-----------------------------------------------------------------------------
(* The length.                                                             *)

(* binsearch, and the second part of hash_search: i is in use, j is not.   *)
Bisect(tab, i, j) ==
    LET b[p \in (0..MaxInt) \X (0..MaxInt)] ==
          LET m == (p[1] + p[2]) \div 2
          IN  IF p[2] - p[1] <= 1 THEN p[1]
              ELSE IF Get(tab, m) = Nil THEN b[<<p[1], m>>] ELSE b[<<m, p[2]>>]
    IN  b[<<i, j>>]

(* hash_search: doubles j until t[j] is not in use or j cannot be doubled. *)
HashSearch(tab, j) ==
    LET from[i \in 1..MaxInt] ==
          LET next == IF i <= MaxInt \div 2 THEN 2 * i ELSE MaxInt
          IN  IF Get(tab, next) = Nil THEN Bisect(tab, i, next)
              ELSE IF next = MaxInt THEN MaxInt
              ELSE from[next]
    IN  from[IF j = 0 THEN 1 ELSE j]

Hinted(tab, n) == [tab EXCEPT !.lim = n, !.real = FALSE]
FaultyPow2Size(tab) == TRUE
Pow2Size(tab) == ~tab.real \/ Pow2(tab.lim)

FaultyBeyond(tab, limit) == limit

(* The length if the array has nothing after limit.                        *)
Beyond(tab, limit) ==
    IF DOMAIN tab.node = {} \/ Get(tab, limit + 1) = Nil THEN limit ELSE HashSearch(tab, limit)

(* luaH_getn: the length, and the table with its new hint.                 *)
Length(tab) ==
    LET lim == tab.lim
        size == RealSize(tab)
        below == Bisect(tab, 0, lim)
        above == Bisect(tab, lim, size)
        answer(n, new) == [n |-> n, tab |-> new]
    IN  IF lim > 0 /\ tab.arr[lim] = Nil
        THEN IF lim >= 2 /\ tab.arr[lim - 1] # Nil
             THEN answer(lim - 1, IF Pow2Size(tab) /\ ~Pow2(lim - 1) THEN Hinted(tab, lim - 1) ELSE tab)
             ELSE answer(below, IF Pow2Size(tab) /\ below > size \div 2 THEN Hinted(tab, below) ELSE tab)
        ELSE IF IsSize(tab) THEN answer(Beyond(tab, lim), tab)
        ELSE IF tab.arr[lim + 1] = Nil THEN answer(lim, tab)
        ELSE IF tab.arr[size] = Nil THEN answer(above, [tab EXCEPT !.lim = above])
        ELSE answer(Beyond(tab, size), tab)
-----------------------------------------------------------------------------
(* Traversal.                                                              *)

(* findindex                                                               *)
IndexOf(tab, k) ==
    IF k \in 1..RealSize(tab) THEN k
    ELSE LET n == Find(tab.node, k, TRUE)
         IN  IF n = None THEN None ELSE RealSize(tab) + 1 + n

(* next_raw: the entry after position i, or None.                          *)
After(tab, i) ==
    LET rest == {p \in Used(tab) : p > i}
    IN  IF rest = {} THEN None ELSE EntryAt(tab, Min(rest)).key

-----------------------------------------------------------------------------
(* What a program does with a table.                                       *)

Blank == [lim |-> 0, real |-> TRUE, arr |-> <<>>, node |-> <<>>, free |-> 0]

(* OP_NEWTABLE with its hints                                              *)
Init ==
    /\ \E a \in ArrayHints, h \in NodeHints : t = Resize(Blank, a, h)
    /\ content = [k \in Keys |-> Nil]
    /\ building = TRUE
    /\ cursor = Idle
    /\ seen = Idle

(* OP_SETLIST, at the end of a constructor                                 *)
SetList(list) ==
    /\ building
    /\ LET last == Len(list)
           grown == IF last > RealSize(t) THEN Resize(t, last, Cardinality(DOMAIN t.node)) ELSE t
       IN  t' = [grown EXCEPT !.arr = [i \in DOMAIN @ |-> IF i <= last THEN list[i] ELSE @[i]]]
    /\ content' = [k \in Keys |-> IF k \in DOMAIN list THEN list[k] ELSE content[k]]
    /\ building' = FALSE
    /\ UNCHANGED <<cursor, seen>>

(* Table::set and luaV_finishset. What next returns after a field was      *)
(* added is not defined: the program is taken to stop its traversal.       *)
Write(k, v) ==
    /\ t' = Set(t, k, v)
    /\ content' = [content EXCEPT ![k] = v]
    /\ IF Get(t, k) = Nil /\ v # Nil
       THEN cursor' = Idle /\ seen' = Idle
       ELSE UNCHANGED <<cursor, seen>>
    /\ UNCHANGED building

(* Table::get and luaV_fastget, when it changes the hint                   *)
Read(k) ==
    /\ ~building
    /\ t' = Probed(t, k)
    /\ UNCHANGED <<content, building, cursor, seen>>

(* Table::len                                                              *)
Measure ==
    /\ t' = Length(t).tab
    /\ building' = FALSE
    /\ UNCHANGED <<content, cursor, seen>>

(* clear_key on every empty node                                           *)
Cleared(node) == [n \in DOMAIN node |->
                    [node[n] EXCEPT !.dead = @ \/ (node[n].val = Nil /\ node[n].key \in Objects)]]

(* The collector traverses the table.                                      *)
Clear ==
    /\ t' = [t EXCEPT !.node = Cleared(@)]
    /\ UNCHANGED <<content, building, cursor, seen>>

Begin ==
    /\ After(t, 0) # None
    /\ cursor' = After(t, 0)
    /\ seen' = {After(t, 0)}
    /\ building' = FALSE
    /\ UNCHANGED <<content, t>>

Visit ==
    /\ cursor # Idle
    /\ LET i == IndexOf(t, cursor)
           k == IF i = None THEN None ELSE After(t, i)
       IN  IF k = None THEN cursor' = Idle /\ seen' = Idle
           ELSE cursor' = k /\ seen' = seen \cup {k}
    /\ UNCHANGED <<content, t, building>>

Next ==
    \/ \E n \in 1..MaxList : \E list \in [1..n -> Values \cup {Nil}] : SetList(list)
    \/ \E k \in Written, v \in Values \cup {Nil} : Write(k, v)
    \/ \E k \in Ints : Read(k)
    \/ Measure
    \/ Clear
    \/ Begin
    \/ Visit

Spec == Init /\ [][Next]_vars

-----------------------------------------------------------------------------
(* Properties.                                                             *)

NodeType == [key : Keys \cup {None}, dead : BOOLEAN, val : Values \cup {Nil}, next : Nat \cup {None}]

TypeOK ==
    /\ t.lim \in Nat /\ t.real \in BOOLEAN
    /\ t.arr \in Seq(Values \cup {Nil})
    /\ \A n \in DOMAIN t.node : t.node[n] \in NodeType /\ t.node[n].next \in DOMAIN t.node \cup {None}
    /\ t.free \in 0..Cardinality(DOMAIN t.node)
    /\ building \in BOOLEAN
    /\ cursor \in Keys \cup {Idle}

(* Whatever hint luaH_getn left in alimit and luaH_getint moved, the size  *)
(* the array was allocated with can be told from it: luaH_realasize bounds *)
(* every walk of the array and names the layout that is freed.             *)
SizeKnown == RealSize(t) = Len(t.arr)

(* No chain of nodes comes back to itself or joins another one, although a *)
(* chain may lead through the nodes of several main positions: luaH_get    *)
(* follows it without a bound.                                             *)
ChainsEnd ==
    /\ \A n \in DOMAIN t.node : Chain(t.node, n)[Cardinality(DOMAIN t.node)] = None
    /\ \A m, n \in DOMAIN t.node : t.node[m].next = t.node[n].next => m = n \/ t.node[m].next = None

(* The length is a border, as the manual that Table::len refers to has it, *)
(* and asking for it does not lose the size.                               *)
LengthIsBorder ==
    LET n == Length(t).n
    IN  /\ n = 0 \/ Get(t, n) # Nil
        /\ n = MaxInt \/ Get(t, n + 1) = Nil

(* The layout implements a map: what is looked up is what was stored last. *)
IsMap == \A k \in Keys : Get(t, k) = content[k]

(* A traversal returns each entry once, whatever is set to nil, overwritten *)
(* or cleared by the collector on its way (module TableMap).               *)
Map == INSTANCE TableMap
VisitsOnce == Map!Spec
=============================================================================
