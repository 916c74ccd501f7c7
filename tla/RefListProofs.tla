-------------------------- MODULE RefListProofs --------------------------
(***************************************************************************)
(* Theorems about RefList: the pointers of the lists stay consistent, and  *)
(* the lists implement module RefSets, for any number of objects.          *)
(***************************************************************************)
EXTENDS RefList, TLAPS

-----------------------------------------------------------------------------
(* Chains.                                                                 *)

LEMMA ChainLeast ==
  ASSUME NEW c, NEW S \in Closed(c)
  PROVE  Chain(c) \subseteq S
  BY DEF Chain

LEMMA ChainClosed ==
  ASSUME TypeOK, NEW c \in Cells
  PROVE  Chain(c) \in Closed(c)
  <1>1. Chain(c) \subseteq Objects
    BY DEF Chain
  <1>2. ASSUME NEW d \in {c} \cup Chain(c)
        PROVE  next[d] \in Chain(c) \cup {Nil}
    <2>1. next[d] \in Objects \cup {Nil}
      BY <1>1 DEF TypeOK, Cells
    <2>2. \A S \in Closed(c) : next[d] \in S \cup {Nil}
      BY DEF Chain, Closed
    <2> QED BY <2>1, <2>2 DEF Chain
  <1> QED BY <1>1, <1>2 DEF Closed

(* Only held objects are in the lists.                                     *)
LEMMA ChainHeld ==
  ASSUME TypeOK, LinksAgree, NEW c \in Heads
  PROVE  Chain(c) \subseteq Held
  <1>1. Held \in Closed(c)
    BY DEF LinksAgree, Closed, Held
  <1> QED BY <1>1, ChainLeast

(* A list that nothing changes from its head on keeps what it had.         *)
LEMMA ChainSame ==
  ASSUME next' = next
  PROVE  \A c : Chain(c)' = Chain(c)
  BY DEF Chain, Closed

-----------------------------------------------------------------------------
(* The invariant.                                                          *)

LEMMA InitInv == Init => RefInv
  <1> SUFFICES ASSUME Init PROVE RefInv
    OBVIOUS
  <1>1. TypeOK
    <2>1. marking \in BOOLEAN /\ roots \subseteq Objects
      BY DEF Init
    <2>2. count \in [Objects -> 0..MaxRefs]
      BY RefsAssumption DEF Init
    <2> QED BY <2>1, <2>2 DEF Init, TypeOK
  <1>2. Held = {}
    BY DEF Init, Held
  <1>3. LinksAgree
    BY <1>2 DEF Init, LinksAgree, Cells
  <1>4. Reached
    BY <1>2 DEF Reached
  <1>5. MarkedRefsUsed
    BY DEF Init, MarkedRefsUsed, Cells, Heads
  <1> QED BY <1>1, <1>3, <1>4, <1>5 DEF RefInv

LEMMA LinkInv ==
  ASSUME RefInv, NEW o \in Objects, Link(o)
  PROVE  RefInv'
  <1> USE RefsAssumption
  <1> DEFINE p == next[Refs]
  <1>1. TypeOK /\ LinksAgree /\ o \notin Held
    BY DEF RefInv, Link, Held
  <1>2. TypeOK'
    BY <1>1 DEF TypeOK, Link, Back, Cells, Heads
  <1>0. /\ next \in [Cells -> Objects \cup {Nil}] /\ refn \in [Objects -> Cells \cup {Nil}]
        /\ Refs \in Cells /\ o \in Cells /\ o # Refs /\ MarkedRefs \in Cells /\ o # MarkedRefs
        /\ o # Nil
    BY <1>1 DEF TypeOK, Cells, Heads
  <1>3. Held' = Held \cup {o}
    BY <1>1 DEF TypeOK, Link, Held
  <1>4. /\ next'[Refs] = o /\ next'[o] = p
        /\ \A c \in Cells \ {Refs, o} : next'[c] = next[c]
    BY <1>0 DEF Link
  <1>6. p \in Held \cup {Nil} /\ p # o
    BY <1>0, <1>1 DEF LinksAgree, Heads
  <1>5. /\ refn'[o] = Refs
        /\ p \in Objects => refn'[p] = o
        /\ \A x \in Objects \ {o, p} : refn'[x] = refn[x]
    BY <1>0, <1>6 DEF Link, Back
  <1>7. LinksAgree'
    <2>1. ASSUME NEW x \in Held'
          PROVE  refn'[x] \in Held' \cup Heads /\ next'[refn'[x]] = x
      BY <1>1, <1>3, <1>4, <1>5, <1>6, <2>1 DEF LinksAgree, Heads, Held, Cells
    <2>2. ASSUME NEW c \in Held' \cup Heads, next'[c] # Nil
          PROVE  next'[c] \in Held' /\ refn'[next'[c]] = c
      BY <1>1, <1>3, <1>4, <1>5, <1>6, <2>2 DEF LinksAgree, Heads, Held, Cells
    <2>3. \A x \in Objects \ Held' : next'[x] = Nil /\ refn'[x] = Nil
      BY <1>1, <1>3, <1>4, <1>5, <1>6 DEF LinksAgree, Heads, Held, Cells
    <2> QED BY <2>1, <2>2, <2>3 DEF LinksAgree, Heads
  <1>8. Chain(Refs) \cup {o} \subseteq Chain(Refs)'
    <2> SUFFICES ASSUME NEW S \in SUBSET Objects,
                        \A d \in {Refs} \cup S : next'[d] \in S \cup {Nil}
                 PROVE  Chain(Refs) \cup {o} \subseteq S
      BY DEF Chain, Closed
    <2>1. o \in S
      BY <1>0, <1>4
    <2>2. S \in Closed(Refs)
      BY <1>1, <1>4, <2>1 DEF Closed, LinksAgree, Cells, Heads
    <2> QED BY <2>1, <2>2, ChainLeast
  <1>9. Chain(MarkedRefs) \subseteq Chain(MarkedRefs)'
    <2> SUFFICES ASSUME NEW S \in SUBSET Objects,
                        \A d \in {MarkedRefs} \cup S : next'[d] \in S \cup {Nil}
                 PROVE  Chain(MarkedRefs) \subseteq S
      BY DEF Chain, Closed
    <2>1. \A d \in {MarkedRefs} \cup (S \ {o}) : next[d] # o
      BY <1>0, <1>1 DEF LinksAgree, Heads, Held
    <2>2. \A d \in {MarkedRefs} \cup (S \ {o}) : next'[d] = next[d]
      BY <1>4 DEF Cells, Heads
    <2>3. S \ {o} \in Closed(MarkedRefs)
      BY <2>1, <2>2 DEF Closed
    <2> QED BY <2>3, ChainLeast
  <1>10. Reached'
    BY <1>3, <1>8, <1>9 DEF Reached, RefInv
  <1>11. MarkedRefsUsed'
    <2>1. CASE marking
      <3>1. Chain(MarkedRefs) \in Closed(MarkedRefs) /\ o \notin Chain(MarkedRefs)
        BY <1>1, ChainClosed, ChainHeld DEF Cells, Heads
      <3>2. \A d \in {MarkedRefs} \cup Chain(MarkedRefs) : next'[d] = next[d]
        BY <1>4, <3>1 DEF Chain, Cells, Heads
      <3>3. Chain(MarkedRefs) \in Closed(MarkedRefs)'
        BY <3>1, <3>2 DEF Closed
      <3>4. Chain(MarkedRefs)' \subseteq Chain(MarkedRefs)
        BY <3>3 DEF Chain
      <3> QED BY <2>1, <3>4 DEF Link, MarkedRefsUsed, RefInv
    <2>2. CASE ~marking
      BY <1>4, <2>2 DEF Link, MarkedRefsUsed, RefInv, Cells, Heads
    <2> QED BY <2>1, <2>2
  <1> QED BY <1>2, <1>7, <1>10, <1>11 DEF RefInv

LEMMA UnlinkInv ==
  ASSUME RefInv, NEW o \in Objects, Unlink(o)
  PROVE  RefInv'
  <1> USE RefsAssumption
  <1> DEFINE k == refn[o]
             n == next[o]
  <1>1. TypeOK /\ LinksAgree /\ o \in Held
    BY DEF RefInv, Unlink, Held
  <1>0. /\ next \in [Cells -> Objects \cup {Nil}] /\ refn \in [Objects -> Cells \cup {Nil}]
        /\ Refs \in Cells /\ o \in Cells /\ o # Refs /\ MarkedRefs \in Cells /\ o # MarkedRefs
        /\ o # Nil /\ Nil \notin Objects
    BY <1>1 DEF TypeOK, Cells, Heads
  <1>2. /\ k \in Held \cup Heads /\ k \in Cells /\ next[k] = o
        /\ n \in Held \cup {Nil} /\ (n # Nil => refn[n] = o)
    BY <1>1 DEF LinksAgree, Held, Cells
  <1>3. TypeOK'
    <2>1. next' \in [Cells -> Objects \cup {Nil}]
      BY <1>0 DEF Unlink
    <2>2. refn' \in [Objects -> Cells \cup {Nil}]
      BY <1>0 DEF Unlink, Back
    <2> QED BY <1>1, <2>1, <2>2 DEF TypeOK, Unlink
  <1>4. /\ next'[o] = Nil
        /\ k # o => next'[k] = n
        /\ \A c \in Cells \ {k, o} : next'[c] = next[c]
    BY <1>0, <1>2 DEF Unlink
  <1>5. /\ refn'[o] = Nil
        /\ n \in Objects \ {o} => refn'[n] = k
        /\ \A x \in Objects \ {o, n} : refn'[x] = refn[x]
    BY <1>0 DEF Unlink, Back
  <1>6. Held' = Held \ {o}
    BY <1>1 DEF TypeOK, Unlink, Held
  <1>7. LinksAgree'
    <2>1. ASSUME NEW x \in Held'
          PROVE  refn'[x] \in Held' \cup Heads /\ next'[refn'[x]] = x
      <3>1. x \in Held /\ x # o /\ x \in Objects
        BY <1>6, <2>1 DEF Held
      <3>2. CASE x = n
        <4>1. k # o
          BY <1>2, <3>1, <3>2
        <4> QED BY <1>2, <1>4, <1>5, <1>6, <3>1, <3>2, <4>1
      <3>3. CASE x # n
        <4>1. refn'[x] = refn[x] /\ refn[x] \in Held \cup Heads /\ next[refn[x]] = x
          BY <1>1, <1>5, <3>1, <3>3 DEF LinksAgree
        <4>2. refn[x] # k /\ refn[x] # o
          BY <1>2, <3>1, <3>3, <4>1
        <4> QED BY <1>4, <1>6, <4>1, <4>2 DEF Held, Cells
      <3> QED BY <3>2, <3>3
    <2>2. ASSUME NEW c \in Held' \cup Heads, next'[c] # Nil
          PROVE  next'[c] \in Held' /\ refn'[next'[c]] = c
      <3>1. c \in Held \cup Heads /\ c # o /\ c \in Cells
        BY <1>0, <1>6, <2>2 DEF Held, Heads, Cells
      <3>2. CASE c = k
        <4>1. next'[c] = n /\ n \in Held
          BY <1>2, <1>4, <2>2, <3>1, <3>2
        <4>2. n # o
          BY <1>2, <3>1, <3>2, <4>1, <1>0
        <4> QED BY <1>5, <1>6, <3>2, <4>1, <4>2 DEF Held
      <3>3. CASE c # k
        <4>1. next'[c] = next[c] /\ next[c] \in Held /\ refn[next[c]] = c
          BY <1>1, <1>4, <2>2, <3>1, <3>3 DEF LinksAgree
        <4>2. next[c] # o /\ next[c] # n
          <5>1. next[c] \in Objects /\ next[c] # Nil
            BY <1>0, <4>1 DEF Held
          <5> QED BY <1>2, <3>1, <3>3, <4>1, <5>1
        <4> QED BY <1>5, <1>6, <4>1, <4>2 DEF Held
      <3> QED BY <3>2, <3>3
    <2>3. ASSUME NEW x \in Objects \ Held'
          PROVE  next'[x] = Nil /\ refn'[x] = Nil
      <3>1. CASE x = o
        BY <1>4, <1>5, <3>1
      <3>2. CASE x # o
        <4>1. x \notin Held /\ next[x] = Nil /\ refn[x] = Nil
          BY <1>1, <1>6, <2>3, <3>2 DEF LinksAgree
        <4>2. x # k /\ x # n /\ x \in Cells
          <5>1. x # n
            BY <1>2, <2>3, <4>1, <1>0
          <5>2. x # k
            BY <1>0, <1>2, <2>3, <4>1
          <5> QED BY <2>3, <5>1, <5>2 DEF Cells
        <4> QED BY <1>4, <1>5, <2>3, <3>2, <4>1, <4>2
      <3> QED BY <3>1, <3>2
    <2> QED BY <2>1, <2>2, <2>3 DEF LinksAgree, Heads
  <1>8. ASSUME NEW x \in Heads
        PROVE  Chain(x) \subseteq Chain(x)' \cup {o}
    <2> SUFFICES ASSUME NEW S \in SUBSET Objects,
                        \A d \in {x} \cup S : next'[d] \in S \cup {Nil}
                 PROVE  Chain(x) \subseteq S \cup {o}
      BY DEF Chain, Closed
    <2>0. x # o /\ x \in Cells
      BY <1>0 DEF Heads
    <2>1. CASE k \in {x} \cup S
      <3>1. ASSUME NEW d \in {x} \cup S \cup {o}
            PROVE  next[d] \in S \cup {o} \cup {Nil}
        BY <1>0, <1>2, <1>4, <2>0, <2>1, <3>1 DEF Cells
      <3>2. S \cup {o} \in Closed(x)
        BY <3>1 DEF Closed
      <3> QED BY <3>2, ChainLeast
    <2>2. CASE k \notin {x} \cup S
      <3>1. ASSUME NEW d \in {x} \cup (S \ {o})
            PROVE  next[d] \in (S \ {o}) \cup {Nil}
        <4>1. next[d] \in S \cup {Nil}
          BY <1>4, <2>0, <2>2, <3>1 DEF Cells
        <4>2. d \in Held \cup Heads \/ next[d] = Nil
          BY <1>1, <3>1 DEF LinksAgree
        <4>3. next[d] # o
          BY <1>0, <1>1, <2>2, <3>1, <4>2 DEF LinksAgree
        <4> QED BY <4>1, <4>3
      <3>2. S \ {o} \in Closed(x)
        BY <3>1 DEF Closed
      <3> QED BY <3>2, ChainLeast
    <2> QED BY <2>1, <2>2
  <1>9. Reached'
    BY <1>6, <1>8 DEF Reached, RefInv, Heads
  <1>10. MarkedRefsUsed'
    <2>1. CASE marking
      <3>1. Chain(MarkedRefs) \in Closed(MarkedRefs)
        BY <1>1, ChainClosed DEF Cells, Heads
      <3>2. ASSUME NEW d \in {MarkedRefs} \cup Chain(MarkedRefs)
            PROVE  next'[d] \in Chain(MarkedRefs) \cup {Nil}
        <4>1. d \in Cells /\ next[d] \in Chain(MarkedRefs) \cup {Nil}
          BY <3>1, <3>2 DEF Closed, Cells, Heads
        <4>2. CASE d = k /\ d # o
          <5>1. o \in Chain(MarkedRefs)
            BY <1>0, <1>2, <4>1, <4>2
          <5>2. n \in Chain(MarkedRefs) \cup {Nil}
            BY <3>1, <5>1 DEF Closed
          <5> QED BY <1>4, <4>2, <5>2
        <4> QED BY <1>4, <4>1, <4>2
      <3>3. Chain(MarkedRefs) \in Closed(MarkedRefs)'
        BY <3>1, <3>2 DEF Closed
      <3>4. Chain(MarkedRefs)' \subseteq Chain(MarkedRefs)
        BY <3>3 DEF Chain
      <3> QED BY <2>1, <3>4 DEF Unlink, MarkedRefsUsed, RefInv
    <2>2. CASE ~marking
      <3>1. next[MarkedRefs] = Nil
        BY <2>2 DEF MarkedRefsUsed, RefInv
      <3>2. MarkedRefs # k
        BY <1>0, <1>2, <3>1
      <3> QED BY <1>0, <1>4, <2>2, <3>1, <3>2 DEF Unlink, MarkedRefsUsed
    <2> QED BY <2>1, <2>2
  <1> QED BY <1>3, <1>7, <1>9, <1>10 DEF RefInv

LEMMA StartInv ==
  ASSUME RefInv, StartCycle
  PROVE  RefInv' /\ roots' = Held
  <1> USE RefsAssumption
  <1> DEFINE p == next[Refs]
  <1>1. TypeOK /\ LinksAgree /\ Reached
    BY DEF RefInv
  <1>0. /\ next \in [Cells -> Objects \cup {Nil}] /\ refn \in [Objects -> Cells \cup {Nil}]
        /\ Refs \in Cells /\ MarkedRefs \in Cells /\ Refs # MarkedRefs
        /\ Refs \notin Objects /\ MarkedRefs \notin Objects /\ Nil \notin Objects
    BY <1>1 DEF TypeOK, Cells, Heads
  <1>2. next[MarkedRefs] = Nil /\ p \in Held \cup {Nil} /\ (p # Nil => refn[p] = Refs)
    BY <1>1 DEF StartCycle, MarkedRefsUsed, RefInv, LinksAgree, Heads
  <1>3. /\ next'[Refs] = Nil /\ next'[MarkedRefs] = p
        /\ \A c \in Objects : next'[c] = next[c]
    BY <1>0, <1>2 DEF StartCycle, Cells
  <1>4. /\ p \in Objects => refn'[p] = MarkedRefs
        /\ \A x \in Objects \ {p} : refn'[x] = refn[x]
    BY <1>0 DEF StartCycle, Back
  <1>5. Held' = Held
    BY DEF StartCycle, Held
  <1>6. Chain(MarkedRefs) = {}
    <2>1. {} \in Closed(MarkedRefs)
      BY <1>2 DEF Closed
    <2> QED BY <2>1, ChainLeast
  <1>7. Chain(Refs) = Held
    BY <1>1, <1>6, ChainHeld DEF Reached, Heads
  <1>8. Chain(MarkedRefs)' = Chain(Refs)
    <2>1. Closed(MarkedRefs)' = Closed(Refs)
      BY <1>3 DEF Closed
    <2> QED BY <2>1 DEF Chain
  <1>9. TypeOK'
    <2>1. next' \in [Cells -> Objects \cup {Nil}]
      BY <1>0 DEF StartCycle
    <2>2. refn' \in [Objects -> Cells \cup {Nil}]
      BY <1>0 DEF StartCycle, Back
    <2>3. roots' \subseteq Objects
      BY DEF StartCycle, Chain
    <2> QED BY <1>1, <2>1, <2>2, <2>3 DEF TypeOK, StartCycle
  <1>10. LinksAgree'
    <2>1. ASSUME NEW x \in Held
          PROVE  refn'[x] \in Held \cup Heads /\ next'[refn'[x]] = x
      <3>1. CASE x = p
        BY <1>0, <1>3, <1>4, <2>1, <3>1 DEF Held, Heads
      <3>2. CASE x # p
        <4>1. refn'[x] = refn[x] /\ refn[x] \in Held \cup Heads /\ next[refn[x]] = x
          BY <1>1, <1>4, <2>1, <3>2 DEF LinksAgree, Held
        <4>2. refn[x] \in Objects
          BY <1>0, <1>2, <2>1, <3>2, <4>1 DEF Held, Heads
        <4> QED BY <1>3, <4>1, <4>2
      <3> QED BY <3>1, <3>2
    <2>2. ASSUME NEW c \in Held \cup Heads, next'[c] # Nil
          PROVE  next'[c] \in Held /\ refn'[next'[c]] = c
      <3>1. CASE c \in Heads
        BY <1>0, <1>2, <1>3, <1>4, <2>2, <3>1 DEF Held, Heads
      <3>2. CASE c \in Held
        <4>1. next'[c] = next[c] /\ next[c] \in Held /\ refn[next[c]] = c /\ c # Refs
          BY <1>0, <1>1, <1>3, <2>2, <3>2 DEF LinksAgree, Held
        <4>2. next[c] # p
          BY <1>2, <4>1, <1>0 DEF Held
        <4> QED BY <1>4, <4>1, <4>2 DEF Held
      <3> QED BY <2>2, <3>1, <3>2
    <2>3. ASSUME NEW x \in Objects \ Held
          PROVE  next'[x] = Nil /\ refn'[x] = Nil
      BY <1>0, <1>1, <1>2, <1>3, <1>4, <2>3 DEF LinksAgree
    <2> QED BY <1>5, <2>1, <2>2, <2>3 DEF LinksAgree, Heads
  <1>11. Reached'
    BY <1>5, <1>7, <1>8 DEF Reached
  <1>12. MarkedRefsUsed' /\ roots' = Held
    BY <1>7, <1>8 DEF StartCycle, MarkedRefsUsed
  <1> QED BY <1>9, <1>10, <1>11, <1>12 DEF RefInv

LEMMA FinishInv ==
  ASSUME RefInv, FinishMarking
  PROVE  RefInv' /\ roots' = roots \cup Held
  <1> USE RefsAssumption
  <1> DEFINE m == next[MarkedRefs]
  <1>1. TypeOK /\ LinksAgree /\ Reached /\ Chain(MarkedRefs) \subseteq roots
    BY DEF RefInv, FinishMarking, MarkedRefsUsed
  <1>0. /\ next \in [Cells -> Objects \cup {Nil}] /\ refn \in [Objects -> Cells \cup {Nil}]
        /\ Refs \in Cells /\ MarkedRefs \in Cells /\ Refs # MarkedRefs
        /\ Refs \notin Objects /\ MarkedRefs \notin Objects /\ Nil \notin Objects
    BY <1>1 DEF TypeOK, Cells, Heads
  <1>2. PICK e \in Ends : /\ next' = [next EXCEPT ![MarkedRefs] = Nil, ![e] = m]
                          /\ refn' = Back(refn, m, e)
    BY DEF FinishMarking
  <1>3. /\ e \in {Refs} \cup Chain(Refs) /\ e \in {Refs} \cup Held
        /\ e \in Cells /\ e # MarkedRefs /\ e # Nil /\ next[e] = Nil
    <2>1. e \in {Refs} \cup Chain(Refs) /\ next[e] = Nil
      BY <1>2 DEF Ends
    <2>2. Chain(Refs) \subseteq Held
      BY <1>1, ChainHeld DEF Heads
    <2> QED BY <1>0, <2>1, <2>2 DEF Held, Cells
  <1>4. m \in Held \cup {Nil} /\ (m # Nil => refn[m] = MarkedRefs)
    BY <1>1 DEF LinksAgree, Heads
  <1>5. /\ next'[MarkedRefs] = Nil /\ next'[e] = m
        /\ \A c \in Cells \ {MarkedRefs, e} : next'[c] = next[c]
    BY <1>0, <1>2, <1>3
  <1>6. /\ m \in Objects => refn'[m] = e
        /\ \A x \in Objects \ {m} : refn'[x] = refn[x]
    BY <1>0, <1>2 DEF Back
  <1>7. Held' = Held
    BY DEF FinishMarking, Held
  <1>8. TypeOK'
    <2>1. next' \in [Cells -> Objects \cup {Nil}]
      BY <1>0, <1>2
    <2>2. refn' \in [Objects -> Cells \cup {Nil}]
      BY <1>0, <1>2, <1>3 DEF Back
    <2>3. roots' \subseteq Objects
      BY <1>1 DEF FinishMarking, Chain, TypeOK
    <2> QED BY <1>1, <2>1, <2>2, <2>3 DEF TypeOK, FinishMarking
  <1>9. LinksAgree'
    <2>1. ASSUME NEW x \in Held
          PROVE  refn'[x] \in Held \cup Heads /\ next'[refn'[x]] = x
      <3>1. CASE x = m
        BY <1>3, <1>5, <1>6, <2>1, <3>1 DEF Held, Heads
      <3>2. CASE x # m
        <4>1. refn'[x] = refn[x] /\ refn[x] \in Held \cup Heads /\ next[refn[x]] = x
          BY <1>1, <1>6, <2>1, <3>2 DEF LinksAgree, Held
        <4>2. refn[x] # e /\ refn[x] # MarkedRefs
          BY <1>0, <1>3, <2>1, <3>2, <4>1 DEF Held
        <4> QED BY <1>0, <1>5, <4>1, <4>2 DEF Held, Cells
      <3> QED BY <3>1, <3>2
    <2>2. ASSUME NEW c \in Held \cup Heads, next'[c] # Nil
          PROVE  next'[c] \in Held /\ refn'[next'[c]] = c
      <3>1. CASE c = e
        BY <1>4, <1>5, <1>6, <2>2, <3>1 DEF Held
      <3>2. CASE c # e
        <4>1. c # MarkedRefs /\ c \in Cells
          BY <1>5, <2>2 DEF Held, Cells
        <4>2. next'[c] = next[c] /\ next[c] \in Held /\ refn[next[c]] = c
          BY <1>1, <1>5, <2>2, <3>2, <4>1 DEF LinksAgree
        <4>3. next[c] # m
          BY <1>0, <1>4, <4>1, <4>2 DEF Held
        <4> QED BY <1>6, <4>2, <4>3 DEF Held
      <3> QED BY <3>1, <3>2
    <2>3. ASSUME NEW x \in Objects \ Held
          PROVE  next'[x] = Nil /\ refn'[x] = Nil
      <3>1. next[x] = Nil /\ refn[x] = Nil /\ x # m /\ x # e /\ x # MarkedRefs /\ x \in Cells
        BY <1>0, <1>1, <1>3, <1>4, <2>3 DEF LinksAgree, Cells
      <3> QED BY <1>5, <1>6, <2>3, <3>1
    <2> QED BY <1>7, <2>1, <2>2, <2>3 DEF LinksAgree, Heads
  <1>10. Chain(Refs) \cup Chain(MarkedRefs) \subseteq Chain(Refs)'
    <2> SUFFICES ASSUME NEW S \in SUBSET Objects,
                        \A d \in {Refs} \cup S : next'[d] \in S \cup {Nil}
                 PROVE  Chain(Refs) \cup Chain(MarkedRefs) \subseteq S
      BY DEF Chain, Closed
    <2>1. ASSUME NEW d \in {Refs} \cup S
          PROVE  next[d] \in S \cup {Nil}
      BY <1>0, <1>3, <1>5, <2>1 DEF Cells
    <2>2. Chain(Refs) \subseteq S
      <3>1. S \in Closed(Refs)
        BY <2>1 DEF Closed
      <3> QED BY <3>1, ChainLeast
    <2>3. m \in S \cup {Nil}
      BY <1>3, <1>5, <2>2
    <2>4. S \in Closed(MarkedRefs)
      BY <2>1, <2>3 DEF Closed
    <2> QED BY <2>2, <2>4, ChainLeast
  <1>11. Reached'
    BY <1>1, <1>7, <1>10 DEF Reached
  <1>12. MarkedRefsUsed'
    BY <1>5 DEF FinishMarking, MarkedRefsUsed
  <1>13. roots' = roots \cup Held
    BY <1>1, ChainHeld DEF FinishMarking, Reached, Heads
  <1> QED BY <1>8, <1>9, <1>11, <1>12, <1>13 DEF RefInv

(* What changes a count only.                                              *)
LEMMA CountInv ==
  ASSUME RefInv, NEW o \in Objects, Count(o) \/ Uncount(o)
  PROVE  RefInv'
  <1>1. /\ count' \in [Objects -> 0..MaxRefs]
        /\ Held' = Held
    BY RefsAssumption DEF RefInv, TypeOK, Held, Count, Uncount
  <1>2. UNCHANGED <<marking, roots, next, refn>>
    BY DEF Count, Uncount
  <1>3. \A c : Chain(c)' = Chain(c)
    BY <1>2, ChainSame
  <1>4. TypeOK'
    BY <1>1, <1>2 DEF RefInv, TypeOK
  <1>5. LinksAgree'
    BY <1>1, <1>2 DEF RefInv, LinksAgree, Heads
  <1>6. Reached' /\ MarkedRefsUsed'
    BY <1>1, <1>2, <1>3 DEF RefInv, Reached, MarkedRefsUsed
  <1> QED BY <1>4, <1>5, <1>6 DEF RefInv

LEMMA StepInv ==
  ASSUME RefInv, [Next]_vars
  PROVE  RefInv'
  <1>1. CASE UNCHANGED vars
    <2>1. Held' = Held /\ UNCHANGED <<marking, roots, next, refn, count>>
      BY <1>1 DEF vars, Held
    <2>2. \A c : Chain(c)' = Chain(c)
      BY <2>1, ChainSame
    <2> QED BY <2>1, <2>2 DEF RefInv, TypeOK, LinksAgree, Heads, Reached, MarkedRefsUsed
  <1> QED BY <1>1, LinkInv, UnlinkInv, CountInv, StartInv, FinishInv DEF Next

-----------------------------------------------------------------------------
(* The inductive invariant of the lists.                                   *)
THEOREM Invariant == Spec => []RefInv
  BY InitInv, StepInv, PTL DEF Spec

(* Dropping a Ref never writes through a pointer to a cell that does not   *)
(* point back, and no list leads to an object without references.          *)
THEOREM LinksAgreeHolds == Spec => []LinksAgree
  <1>1. RefInv => LinksAgree
    BY DEF RefInv
  <1> QED BY <1>1, Invariant, PTL

(* The lists implement RefSets: every object held when a cycle starts or   *)
(* when its marking ends is marked as a root.                              *)
THEOREM RootsAreMarked == Spec => RootsMarked
  <1>1. Init => Sets!Init
    BY DEF Init, Sets!Init
  <1>2. ASSUME RefInv, [Next]_vars
        PROVE  [Sets!Next]_(Sets!vars)
    <2>0. Sets!Held = Held
      BY DEF Sets!Held, Held
    <2>1. ASSUME NEW o \in Objects, Link(o) \/ Count(o)
          PROVE  Sets!Take(o)
      <3>1. count \in [Objects -> 0..MaxRefs] /\ MaxRefs \in Nat \ {0}
        BY <1>2, RefsAssumption DEF RefInv, TypeOK
      <3> QED BY <2>1, <3>1 DEF Link, Count, Sets!Take
    <2>2. ASSUME NEW o \in Objects, Uncount(o) \/ Unlink(o)
          PROVE  Sets!Drop(o)
      <3>1. count \in [Objects -> 0..MaxRefs]
        BY <1>2 DEF RefInv, TypeOK
      <3> QED BY <2>2, <3>1 DEF Uncount, Unlink, Sets!Drop
    <2>3. CASE StartCycle
      BY <1>2, <2>0, <2>3, StartInv DEF StartCycle, Sets!StartCycle, Sets!Next
    <2>4. CASE FinishMarking
      BY <1>2, <2>0, <2>4, FinishInv DEF FinishMarking, Sets!FinishMarking, Sets!Next
    <2>5. CASE UNCHANGED vars
      BY <2>5 DEF vars, Sets!vars
    <2> QED BY <1>2, <2>1, <2>2, <2>3, <2>4, <2>5 DEF Next, Sets!Next
  <1> QED BY <1>1, <1>2, Invariant, PTL DEF Spec, RootsMarked, Sets!Spec
==========================================================================
