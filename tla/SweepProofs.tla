--------------------------- MODULE SweepProofs ---------------------------
(***************************************************************************)
(* Theorems about Sweep, for any objects, batches and bounds.              *)
(*                                                                         *)
(* The proof forgets the order of the list as soon as it can: Behind and   *)
(* BeforeCell cut Gc.all at the cell, and from there on a step is a fact   *)
(* about the sets of what lies before and behind, and about lengths.       *)
(***************************************************************************)
EXTENDS Sweep, SequenceTheorems, FiniteSetTheorems, WellFoundedInduction, TLAPS

-----------------------------------------------------------------------------
(* Facts about numbers and sequences.                                      *)

(* A set of natural numbers that is not empty has a least element.         *)
LEMMA Least ==
    ASSUME NEW T \in SUBSET Nat, T # {}
    PROVE  \E x \in T : \A y \in T : x <= y
<1>1. PICK x \in T : \A y \in T : ~ (<<y, x>> \in OpToRel(<, Nat))
  BY WFMin, NatLessThanWellFounded
<1>2. ASSUME NEW y \in T, y < x PROVE FALSE
  <2>1. <<y, x>> \in Nat \X Nat /\ <<y, x>>[1] < <<y, x>>[2]
    BY <1>2
  <2>2. <<y, x>> \in OpToRel(<, Nat)
    BY <2>1, Zenon DEF OpToRel
  <2> QED BY <1>1, <2>2
<1> QED BY <1>2

(* The least of a set of numbers is one of them.                           *)
LEMMA MinInside ==
    ASSUME NEW T \in SUBSET Nat, T # {}
    PROVE  Min(T) \in T
  BY Least DEF Min

(* The elements of a concatenation, and when it repeats none.              *)
LEMMA ConcatElements ==
    ASSUME NEW X, NEW s \in Seq(X), NEW t \in Seq(X)
    PROVE  /\ ToSet(s \o t) = ToSet(s) \cup ToSet(t)
           /\ IsInjective(s \o t) <=>
                 IsInjective(s) /\ IsInjective(t) /\ ToSet(s) \cap ToSet(t) = {}
<1> DEFINE n == Len(s)  m == Len(t)  u == s \o t
<1>1. /\ u \in Seq(X) /\ Len(u) = n + m /\ n \in Nat /\ m \in Nat
      /\ DOMAIN u = 1..n + m /\ DOMAIN s = 1..n /\ DOMAIN t = 1..m
      /\ \A i \in 1..n + m : u[i] = IF i <= n THEN s[i] ELSE t[i - n]
  BY ConcatProperties, LenProperties
<1> HIDE DEF n, m, u
<1>2. \A i \in 1..n : i \in 1..n + m /\ u[i] = s[i]
  BY <1>1
<1>3. \A i \in 1..m : i + n \in 1..n + m /\ u[i + n] = t[i]
  BY <1>1
<1>4. \A i \in 1..n + m : i \in 1..n \/ (i - n \in 1..m /\ u[i] = t[i - n])
  BY <1>1
<1>5. ToSet(u) = ToSet(s) \cup ToSet(t)
  <2>1. ToSet(s) \subseteq ToSet(u)
    BY <1>1, <1>2 DEF ToSet
  <2>2. ToSet(t) \subseteq ToSet(u)
    BY <1>1, <1>3 DEF ToSet
  <2>3. ASSUME NEW i \in 1..n + m PROVE u[i] \in ToSet(s) \cup ToSet(t)
    <3>1. CASE i \in 1..n
      BY <3>1, <1>1, <1>2 DEF ToSet
    <3>2. CASE i - n \in 1..m /\ u[i] = t[i - n]
      BY <3>2, <1>1 DEF ToSet
    <3> QED BY <3>1, <3>2, <1>4
  <2>4. ToSet(u) \subseteq ToSet(s) \cup ToSet(t)
    BY <2>3, <1>1 DEF ToSet
  <2> QED BY <2>1, <2>2, <2>4
<1>6. ASSUME IsInjective(u)
      PROVE  IsInjective(s) /\ IsInjective(t) /\ ToSet(s) \cap ToSet(t) = {}
  <2>1. IsInjective(s)
    BY <1>1, <1>2, <1>6 DEF IsInjective
  <2>2. IsInjective(t)
    <3>1. ASSUME NEW i \in 1..m, NEW j \in 1..m, t[i] = t[j] PROVE i = j
      <4>1. u[i + n] = u[j + n] /\ i + n \in DOMAIN u /\ j + n \in DOMAIN u
        BY <1>1, <1>3, <3>1
      <4>2. i + n = j + n
        BY <4>1, <1>6 DEF IsInjective
      <4> QED BY <4>2, <1>1
    <3> QED BY <3>1, <1>1 DEF IsInjective
  <2>3. ASSUME NEW i \in 1..n, NEW j \in 1..m, s[i] = t[j] PROVE FALSE
    <3>1. u[i] = u[j + n] /\ i \in DOMAIN u /\ j + n \in DOMAIN u
      BY <1>1, <1>2, <1>3, <2>3
    <3>2. i = j + n
      BY <3>1, <1>6 DEF IsInjective
    <3> QED BY <3>2, <1>1
  <2> QED BY <2>1, <2>2, <2>3, <1>1 DEF ToSet
<1>7. ASSUME IsInjective(s), IsInjective(t), ToSet(s) \cap ToSet(t) = {}
      PROVE  IsInjective(u)
  <2>1. \A i \in 1..n, j \in 1..m : s[i] # t[j]
    BY <1>7, <1>1 DEF ToSet
  <2>2. ASSUME NEW i \in 1..n + m, NEW j \in 1..n + m, u[i] = u[j] PROVE i = j
    <3>1. CASE i \in 1..n /\ j \in 1..n
      BY <3>1, <2>2, <1>2, <1>1, <1>7 DEF IsInjective
    <3>2. CASE i \in 1..n /\ j \notin 1..n
      BY <3>2, <2>2, <1>2, <1>4, <2>1
    <3>3. CASE i \notin 1..n /\ j \in 1..n
      BY <3>3, <2>2, <1>2, <1>4, <2>1
    <3>4. CASE i \notin 1..n /\ j \notin 1..n
      <4>1. i - n \in 1..m /\ j - n \in 1..m /\ t[i - n] = t[j - n]
        BY <3>4, <2>2, <1>4
      <4>2. i - n = j - n
        BY <4>1, <1>1, <1>7 DEF IsInjective
      <4> QED BY <4>2, <1>1
    <3> QED BY <3>1, <3>2, <3>3, <3>4
  <2> QED BY <2>2, <1>1 DEF IsInjective
<1> QED BY <1>5, <1>6, <1>7 DEF u

(* A list that repeats no element is as long as its elements are many.     *)
LEMMA InjectiveLength ==
    ASSUME NEW X, NEW s \in Seq(X)
    PROVE  /\ IsFiniteSet(ToSet(s))
           /\ IsInjective(s) => Cardinality(ToSet(s)) = Len(s)
<1>1. s \in [1..Len(s) -> X] /\ Len(s) \in Nat /\ DOMAIN s = 1..Len(s)
  BY LenProperties
<1>2. s \in Surjection(1..Len(s), ToSet(s))
  BY <1>1 DEF Surjection, ToSet
<1>3. IsFiniteSet(1..Len(s)) /\ Cardinality(1..Len(s)) = Len(s)
  <2>1. IsFiniteSet(1..Len(s)) /\ Cardinality(1..Len(s)) = IF 1 > Len(s) THEN 0 ELSE Len(s) - 1 + 1
    BY <1>1, FS_Interval
  <2> QED BY <2>1, <1>1
<1>4. IsFiniteSet(ToSet(s))
  BY <1>2, <1>3, FS_Surjection
<1>5. ASSUME IsInjective(s) PROVE Cardinality(ToSet(s)) = Len(s)
  <2>1. s \in Injection(1..Len(s), ToSet(s))
    BY <1>1, <1>2, <1>5 DEF Injection, Surjection, IsInjective
  <2> QED BY <2>1, <1>2, <1>3, FS_Surjection
<1> QED BY <1>4, <1>5

-----------------------------------------------------------------------------
(* Cutting a list at a cell.                                               *)

(* The place of an element in a list that has it once.                     *)
LEMMA PlaceOf ==
    ASSUME NEW X, NEW a \in Seq(X), IsInjective(a), NEW k \in 1..Len(a)
    PROVE  Place(a, a[k]) = k
<1>1. {i \in 1..Len(a) : a[i] = a[k]} = {k}
  BY LenProperties DEF IsInjective
<1>2. Min({k}) = k
  BY DEF Min
<1> QED BY <1>1, <1>2 DEF Place, SelectInSeq

(* The cell in the last element of p cuts p \o r into p and r.             *)
LEMMA CutAfter ==
    ASSUME NEW X, NEW p \in Seq(X), NEW r \in Seq(X), p # <<>>,
           IsInjective(p \o r), Last(p) # Nil
    PROVE  BehindIn(p \o r, Last(p)) = r /\ BeforeIn(p \o r, Last(p)) = p
<1> DEFINE a == p \o r  k == Len(p)  n == Len(r)
<1>1. /\ a \in Seq(X) /\ Len(a) = k + n /\ n \in Nat /\ k \in Nat \ {0}
      /\ \A i \in 1..k + n : a[i] = IF i <= k THEN p[i] ELSE r[i - k]
  BY ConcatProperties, LenProperties, EmptySeq
<1> HIDE DEF a, k, n
<1>2. Last(p) = a[k] /\ k \in 1..Len(a)
  BY <1>1 DEF Last, k
<1>3. Place(a, Last(p)) = k
  BY <1>1, <1>2, PlaceOf DEF a
<1>4. SubSeq(a, k + 1, Len(a)) = r
  <2> DEFINE b == SubSeq(a, k + 1, Len(a))
  <2>1. \A i \in k + 1..Len(a) : a[i] \in X
    BY <1>1, ElementOfSeq
  <2>2. /\ b \in Seq(X) /\ Len(b) = n
        /\ \A i \in 1..n : b[i] = a[k + 1 + i - 1]
    BY <2>1, <1>1, SubSeqProperties
  <2> HIDE DEF b
  <2>3. \A i \in 1..n : b[i] = r[i]
    <3> TAKE i \in 1..n
    <3>1. k + 1 + i - 1 = k + i /\ k + i \in 1..k + n /\ ~(k + i <= k) /\ k + i - k = i
      BY <1>1
    <3> QED BY <3>1, <2>2, <1>1
  <2>4. b = r
    BY <2>2, <2>3, SeqEqual DEF n
  <2> QED BY <2>4 DEF b
<1>5. BehindIn(a, Last(p)) = r
  BY <1>3, <1>4 DEF BehindIn
<1>6. SubSeq(a, 1, k) = p
  <2> DEFINE b == SubSeq(a, 1, k)
  <2>1. \A i \in 1..k : a[i] \in X
    BY <1>1, ElementOfSeq
  <2>2. /\ b \in Seq(X) /\ Len(b) = k
        /\ \A i \in 1..k : b[i] = a[1 + i - 1]
    BY <2>1, <1>1, SubSeqProperties
  <2> HIDE DEF b
  <2>3. \A i \in 1..k : b[i] = p[i]
    BY <2>2, <1>1
  <2>4. b = p
    BY <2>2, <2>3, SeqEqual DEF k
  <2> QED BY <2>4 DEF b
<1>7. Len(a) - Len(r) = k
  BY <1>1 DEF n
<1> QED BY <1>5, <1>6, <1>7 DEF BeforeIn, a

(* A cell in the list cuts it into two parts.                              *)
LEMMA CutExists ==
    ASSUME NEW X, NEW a \in Seq(X), IsInjective(a), NEW x \in ToSet(a), x # Nil
    PROVE  /\ BeforeIn(a, x) \in Seq(X) /\ BehindIn(a, x) \in Seq(X)
           /\ a = BeforeIn(a, x) \o BehindIn(a, x)
           /\ BeforeIn(a, x) # <<>> /\ Last(BeforeIn(a, x)) = x
<1>1. PICK k \in 1..Len(a) : a[k] = x
  BY LenProperties DEF ToSet
<1> DEFINE p == SubSeq(a, 1, k)  r == SubSeq(a, k + 1, Len(a))
<1>2. \A i \in 1..Len(a) : a[i] \in X
  BY ElementOfSeq
<1>3. k \in Nat /\ Len(a) \in Nat /\ k <= Len(a) /\ 1 <= k
  BY LenProperties
<1>4. p \in Seq(X) /\ Len(p) = k /\ p[k] = a[k]
  <2>1. \A i \in 1..k : a[i] \in X
    BY <1>2, <1>3
  <2>2. p \in Seq(X) /\ Len(p) = k /\ \A i \in 1..k - 1 + 1 : p[i] = a[1 + i - 1]
    BY <2>1, <1>3, SubSeqProperties
  <2>3. k \in 1..k - 1 + 1 /\ 1 + k - 1 = k
    BY <1>3
  <2> QED BY <2>2, <2>3
<1>5. r \in Seq(X)
  <2>1. \A i \in k + 1..Len(a) : a[i] \in X
    BY <1>2, <1>3
  <2> QED BY <2>1, <1>3, SubSeqProperties
<1>6. a = p \o r
  <2>1. p \o r = SubSeq(a, 1, Len(a))
    BY <1>3, ConcatAdjacentSubSeq
  <2> QED BY <2>1, SubSeqFull
<1>7. p # <<>> /\ Last(p) = x
  BY <1>1, <1>3, <1>4 DEF Last
<1> HIDE DEF p, r
<1>8. BehindIn(a, x) = r /\ BeforeIn(a, x) = p
  BY <1>4, <1>5, <1>6, <1>7, CutAfter
<1> QED BY <1>4, <1>5, <1>6, <1>7, <1>8

(* Without a cell everything was passed.                                   *)
LEMMA CutNowhere ==
    ASSUME NEW X, NEW a \in Seq(X)
    PROVE  BehindIn(a, Nil) = <<>> /\ BeforeIn(a, Nil) = a
<1>1. Len(a) - Len(<<>>) = Len(a)
  BY LenProperties, EmptySeq
<1> QED BY <1>1, SubSeqFull DEF BehindIn, BeforeIn

-----------------------------------------------------------------------------
(* What a sweep step keeps.                                                *)

(* One turn of the loop, from what it had kept of the first n - 1 objects. *)
KeepNext(s, kept, n) == IF Dead(s[n]) THEN kept ELSE Append(kept, s[n])

(* The equation that defines what is kept of the first n objects of s.     *)
KeepUpTo(s, m, f) ==
    f = [n \in 0..m |-> IF n = 0 THEN <<>> ELSE KeepNext(s, f[n - 1], n)]

(* The recursive function of KeptIn exists.                                *)
LEMMA KeepUpToExists ==
    ASSUME NEW s, NEW m \in Nat
    PROVE  \E f : KeepUpTo(s, m, f)
<1> DEFINE Bad == {n \in Nat : ~ \E f : KeepUpTo(s, n, f)}
<1>1. SUFFICES Bad = {}
  OBVIOUS
<1>2. SUFFICES ASSUME Bad # {} PROVE FALSE
  OBVIOUS
<1>3. PICK x \in Bad : \A y \in Bad : x <= y
  <2>1. Bad \in SUBSET Nat
    OBVIOUS
  <2> HIDE DEF Bad
  <2> QED BY <1>2, <2>1, Least
<1>4. x \in Nat
  OBVIOUS
<1>5. CASE x = 0
  <2> DEFINE g == [n \in 0..0 |-> <<>>]
  <2>1. g = [n \in 0..0 |-> IF n = 0 THEN <<>> ELSE KeepNext(s, g[n - 1], n)]
    OBVIOUS
  <2>2. KeepUpTo(s, 0, g)
    BY <2>1 DEF KeepUpTo
  <2> QED BY <2>2, <1>5
<1>6. CASE x # 0
  <2>1. x - 1 \in Nat /\ ~(x <= x - 1)
    BY <1>4, <1>6
  <2>2. PICK f : KeepUpTo(s, x - 1, f)
    BY <2>1, <1>3
  <2> DEFINE g == [n \in 0..x |-> IF n = x THEN KeepNext(s, f[x - 1], x) ELSE f[n]]
  <2>3. \A n \in 0..x - 1 : f[n] = IF n = 0 THEN <<>> ELSE KeepNext(s, f[n - 1], n)
    BY <2>2, Zenon DEF KeepUpTo
  <2>4. \A n \in 0..x : g[n] = IF n = 0 THEN <<>> ELSE KeepNext(s, g[n - 1], n)
    <3> TAKE n \in 0..x
    <3>1. CASE n = x
      <4>1. x - 1 \in 0..x /\ x - 1 # x /\ g[x - 1] = f[x - 1]
        BY <1>4, <1>6
      <4> QED BY <4>1, <3>1, <1>6
    <3>2. CASE n # x /\ n # 0
      <4>1. n \in 0..x - 1 /\ n - 1 \in 0..x /\ n - 1 # x
        BY <3>2, <1>4
      <4>2. g[n] = f[n] /\ g[n - 1] = f[n - 1]
        BY <4>1, <3>2
      <4> QED BY <4>1, <4>2, <3>2, <2>3
    <3>3. CASE n # x /\ n = 0
      <4>1. n \in 0..x - 1
        BY <3>3, <1>4
      <4> QED BY <4>1, <3>3, <2>3
    <3> QED BY <3>1, <3>2, <3>3
  <2>5. g = [n \in 0..x |-> IF n = 0 THEN <<>> ELSE KeepNext(s, g[n - 1], n)]
    BY <2>4
  <2>6. KeepUpTo(s, x, g)
    BY <2>5 DEF KeepUpTo
  <2> QED BY <2>6
<1> QED BY <1>5, <1>6

(* What is kept of s are the members of s that are not dead, each once if  *)
(* s holds each once.                                                      *)
LEMMA KeptElements ==
    ASSUME NEW X, NEW s \in Seq(X), IsInjective(s)
    PROVE  /\ KeptIn(s) \in Seq(X) /\ IsInjective(KeptIn(s))
           /\ ToSet(KeptIn(s)) = {o \in ToSet(s) : ~Dead(o)}
<1> DEFINE m == Len(s)
           f == CHOOSE g : KeepUpTo(s, m, g)
           Seen(n) == {s[i] : i \in {j \in 1..n : ~Dead(s[j])}}
           Good(n) == f[n] \in Seq(X) /\ IsInjective(f[n]) /\ ToSet(f[n]) = Seen(n)
           Bad == {n \in 0..m : ~Good(n)}
<1>1. m \in Nat /\ DOMAIN s = 1..m /\ \A i \in 1..m : s[i] \in X
  BY LenProperties, ElementOfSeq
<1>2. KeptIn(s) = f[m]
  BY DEF KeptIn, KeepUpTo, KeepNext
<1>3. KeepUpTo(s, m, f)
  <2>1. \E g : KeepUpTo(s, m, g)
    BY <1>1, KeepUpToExists
  <2> QED BY <2>1
<1> HIDE DEF m, f
<1>4. \A n \in 0..m : f[n] = IF n = 0 THEN <<>> ELSE KeepNext(s, f[n - 1], n)
  BY <1>3, Zenon DEF KeepUpTo
<1>5. Bad = {}
  <2>1. SUFFICES ASSUME Bad # {} PROVE FALSE
    OBVIOUS
  <2>2. PICK x \in Bad : \A y \in Bad : x <= y
    <3>1. Bad \in SUBSET Nat
      BY <1>1
    <3> HIDE DEF Bad
    <3> QED BY <2>1, <3>1, Least
  <2>3. x \in 0..m
    OBVIOUS
  <2>4. CASE x = 0
    <3>1. f[0] = <<>>
      BY <1>4, <1>1
    <3>2. <<>> \in Seq(X) /\ IsInjective(<<>>) /\ ToSet(<<>>) = {}
      BY DEF IsInjective, ToSet
    <3>3. Seen(0) = {}
      OBVIOUS
    <3> QED BY <3>1, <3>2, <3>3, <2>4
  <2>5. CASE x # 0
    <3>1. x - 1 \in 0..m /\ ~(x <= x - 1) /\ x \in 1..m /\ x - 1 \in Nat
      BY <2>3, <2>5, <1>1
    <3>2. Good(x - 1)
      BY <3>1, <2>2
    <3>3. f[x] = KeepNext(s, f[x - 1], x)
      BY <1>4, <2>3, <2>5
    <3>4. 1..x = 1..x - 1 \cup {x} /\ x \notin 1..x - 1
      BY <3>1
    <3>5. CASE Dead(s[x])
      <4>1. Seen(x) = Seen(x - 1)
        BY <3>4, <3>5
      <4> QED BY <4>1, <3>2, <3>3, <3>5 DEF KeepNext
    <3>6. CASE ~Dead(s[x])
      <4> DEFINE t == <<s[x]>>
      <4>1. Seen(x) = Seen(x - 1) \cup {s[x]}
        BY <3>4, <3>6
      <4>2. t \in Seq(X) /\ IsInjective(t) /\ ToSet(t) = {s[x]}
        BY <1>1, <3>1 DEF IsInjective, ToSet
      <4>3. s[x] \notin Seen(x - 1)
        <5>1. \A i \in 1..x - 1 : i \in 1..m /\ i # x
          BY <3>1, <1>1
        <5>2. \A i \in 1..x - 1 : s[i] # s[x]
          BY <5>1, <3>1, <1>1 DEF IsInjective
        <5> QED BY <5>2
      <4>4. f[x] = f[x - 1] \o t
        <5>1. s[x] \in X
          BY <1>1, <3>1
        <5> QED BY <5>1, <3>2, <3>3, <3>6, AppendIsConcat DEF KeepNext
      <4> HIDE DEF t, Seen
      <4>5. ToSet(f[x]) = Seen(x - 1) \cup {s[x]} /\ IsInjective(f[x])
        BY <3>2, <4>2, <4>3, <4>4, ConcatElements
      <4>6. f[x] \in Seq(X)
        BY <3>2, <4>2, <4>4, ConcatProperties
      <4> QED BY <4>1, <4>5, <4>6
    <3> QED BY <3>5, <3>6
  <2> QED BY <2>4, <2>5
<1>6. m \in 0..m
  BY <1>1
<1>7. Good(m)
  BY <1>5, <1>6
<1>8. Seen(m) = {o \in ToSet(s) : ~Dead(o)}
  BY <1>1 DEF ToSet
<1> QED BY <1>2, <1>7, <1>8

-----------------------------------------------------------------------------
(* The list before and after a step.                                       *)

Address == Objects \cup SweepMarks

(* Nil is not the address of anything.                                     *)
LEMMA NilIsNoAddress == Nil \notin Address
  BY ObjectsAssumption DEF Address

(* The cell cuts the list in two.                                          *)
LEMMA Cut ==
    ASSUME TypeOK, ListExact
    PROVE  /\ BeforeCell \in Seq(Address) /\ Behind \in Seq(Address)
           /\ all = BeforeCell \o Behind
           /\ IsInjective(BeforeCell) /\ IsInjective(Behind)
           /\ ToSet(BeforeCell) \cap ToSet(Behind) = {}
           /\ ToSet(all) = ToSet(BeforeCell) \cup ToSet(Behind)
           /\ sweep # Nil => BeforeCell # <<>> /\ Last(BeforeCell) = sweep
           /\ sweep = Nil => BeforeCell = all /\ Behind = <<>>
<1>1. all \in Seq(Address) /\ IsInjective(all)
  BY DEF TypeOK, ListExact, Address
<1>2. /\ BeforeCell \in Seq(Address) /\ Behind \in Seq(Address)
      /\ all = BeforeCell \o Behind
      /\ sweep # Nil => BeforeCell # <<>> /\ Last(BeforeCell) = sweep
      /\ sweep = Nil => BeforeCell = all /\ Behind = <<>>
  <2>1. CASE sweep # Nil
    <3>1. sweep \in ToSet(all)
      BY <2>1 DEF ListExact
    <3> QED BY <3>1, <1>1, <2>1, CutExists DEF Behind, BeforeCell
  <2>2. CASE sweep = Nil
    <3>1. Behind = <<>> /\ BeforeCell = all
      BY <2>2, <1>1, CutNowhere DEF Behind, BeforeCell
    <3> QED BY <3>1, <2>2, <1>1, ConcatEmptySeq, EmptySeq
  <2> QED BY <2>1, <2>2
<1>3. /\ IsInjective(BeforeCell) /\ IsInjective(Behind)
      /\ ToSet(BeforeCell) \cap ToSet(Behind) = {}
      /\ ToSet(all) = ToSet(BeforeCell) \cup ToSet(Behind)
  BY <1>1, <1>2, ConcatElements
<1> QED BY <1>2, <1>3

(* The counts of what is in the list.                                      *)
LEMMA Counts ==
    ASSUME TypeOK, ListExact
    PROVE  /\ IsFiniteSet(ToSet(all)) /\ Cardinality(ToSet(all)) = Len(all)
           /\ Len(all) \in Nat /\ Len(all) = Len(BeforeCell) + Len(Behind)
           /\ Len(BeforeCell) \in Nat /\ Len(Behind) \in Nat
           /\ IsFiniteSet(ToSet(Behind)) /\ Cardinality(ToSet(Behind)) = Len(Behind)
<1>1. all \in Seq(Address) /\ IsInjective(all)
  BY DEF TypeOK, ListExact, Address
<1>2. Len(all) = Len(BeforeCell) + Len(Behind)
  BY Cut, ConcatProperties
<1> QED BY <1>1, <1>2, Cut, InjectiveLength, LenProperties

(* One more element in front of a list.                                    *)
LEMMA InFront ==
    ASSUME NEW X, NEW a \in Seq(X), NEW x \in X, x \notin ToSet(a)
    PROVE  /\ <<x>> \o a \in Seq(X) /\ Len(<<x>> \o a) = Len(a) + 1
           /\ IsInjective(a) => IsInjective(<<x>> \o a)
           /\ ToSet(<<x>> \o a) = ToSet(a) \cup {x}
<1>1. <<x>> \in Seq(X) /\ Len(<<x>>) = 1
  OBVIOUS
<1>2. ToSet(<<x>>) = {x} /\ IsInjective(<<x>>)
  BY DEF ToSet, IsInjective
<1>3. Len(a) \in Nat
  BY LenProperties
<1>4. <<x>> \o a \in Seq(X) /\ Len(<<x>> \o a) = Len(<<x>>) + Len(a)
  BY <1>1, ConcatProperties
<1>5. /\ ToSet(<<x>> \o a) = ToSet(<<x>>) \cup ToSet(a)
      /\ IsInjective(<<x>> \o a) <=>
            IsInjective(<<x>>) /\ IsInjective(a) /\ ToSet(<<x>>) \cap ToSet(a) = {}
  BY <1>1, ConcatElements
<1>6. Len(<<x>> \o a) = Len(a) + 1
  BY <1>1, <1>3, <1>4
<1>7. ToSet(<<x>>) \cap ToSet(a) = {}
  BY <1>2
<1> QED BY <1>2, <1>4, <1>5, <1>6, <1>7, Zenon

(* An element linked at the head of the list: what is behind the cell      *)
(* stays, and the element is before it.                                    *)
LEMMA LinkedAtHead ==
    ASSUME TypeOK, ListExact, NEW x \in Address, x \notin ToSet(all),
           all' = <<x>> \o all, sweep' = sweep
    PROVE  /\ all' \in Seq(Address) /\ IsInjective(all')
           /\ ToSet(all') = ToSet(all) \cup {x} /\ Len(all') = Len(all) + 1
           /\ Behind' = Behind /\ ToSet(BeforeCell') = ToSet(BeforeCell) \cup {x}
<1>1. all \in Seq(Address) /\ IsInjective(all)
  BY DEF TypeOK, ListExact, Address
<1>2. /\ all' \in Seq(Address) /\ IsInjective(all')
      /\ ToSet(all') = ToSet(all) \cup {x} /\ Len(all') = Len(all) + 1
  BY <1>1, InFront
<1>3. CASE sweep = Nil
  <2>1. Behind' = <<>> /\ BeforeCell' = all'
    BY <1>2, <1>3, CutNowhere DEF Behind, BeforeCell
  <2> QED BY <2>1, <1>2, <1>3, Cut
<1>4. CASE sweep # Nil
  <2> DEFINE p == <<x>> \o BeforeCell
  <2>1. x \notin ToSet(BeforeCell)
    BY Cut
  <2>2. p \in Seq(Address) /\ ToSet(p) = ToSet(BeforeCell) \cup {x}
    BY <2>1, Cut, InFront
  <2>3. all' = p \o Behind
    <3>1. <<x>> \in Seq(Address)
      OBVIOUS
    <3>2. (<<x>> \o BeforeCell) \o Behind = <<x>> \o (BeforeCell \o Behind)
      BY <3>1, Cut, ConcatAssociative
    <3>3. BeforeCell \o Behind = all
      BY Cut
    <3> QED BY <3>2, <3>3
  <2>4. p # <<>> /\ Last(p) = sweep
    <3>1. /\ BeforeCell \in Seq(Address) /\ <<x>> \in Seq(Address) /\ Len(<<x>>) = 1
          /\ BeforeCell # <<>> /\ BeforeCell[Len(BeforeCell)] = sweep
      BY <1>4, Cut DEF Last
    <3>2. Len(BeforeCell) \in Nat \ {0}
      BY <3>1, EmptySeq
    <3>3. /\ Len(p) = 1 + Len(BeforeCell)
          /\ \A i \in 1..1 + Len(BeforeCell) :
                p[i] = IF i <= 1 THEN <<x>>[i] ELSE BeforeCell[i - 1]
      BY <3>1, ConcatProperties
    <3>4. p[Len(p)] = BeforeCell[Len(BeforeCell)]
      BY <3>2, <3>3
    <3> QED BY <3>1, <3>2, <3>3, <3>4, EmptySeq DEF Last
  <2> HIDE DEF p
  <2>5. BehindIn(all', sweep) = Behind /\ BeforeIn(all', sweep) = p
    BY <2>2, <2>3, <2>4, <1>2, <1>4, Cut, CutAfter
  <2>6. Behind' = Behind /\ BeforeCell' = p
    BY <2>5 DEF Behind, BeforeCell
  <2> QED BY <2>6, <2>2, <1>2
<1> QED BY <1>3, <1>4

(* What a batch visits is a part of what is behind the cell.               *)
LEMMA VisitedInside ==
    ASSUME TypeOK, ListExact
    PROVE  Visited \in 0..Len(Behind)
<1> DEFINE V == {n \in 0..Len(Behind) :
                   \/ n = Len(Behind)
                   \/ n = Batch
                   \/ Cardinality(FreedIn(SubSeq(Behind, 1, n))) = Frees}
<1>1. Len(Behind) \in V
  BY Counts
<1>2. V \in SUBSET Nat
  BY Counts
<1>3. Visited = Min(V)
  BY DEF Visited
<1>4. Min(V) \in V
  <2> HIDE DEF V
  <2> QED BY <1>1, <1>2, MinInside
<1> QED BY <1>3, <1>4

-----------------------------------------------------------------------------
(* Counting what is owed.                                                  *)

(* What is paid for leaves enough for the rest.                            *)
LEMMA Paid ==
    ASSUME NEW U, IsFiniteSet(U), NEW D \in SUBSET U, NEW V \in SUBSET (U \ D)
    PROVE  /\ Cardinality(U) \in Nat /\ Cardinality(D) \in Nat /\ Cardinality(V) \in Nat
           /\ IsFiniteSet(D) /\ IsFiniteSet(V)
           /\ Cardinality(V) <= Cardinality(U) - Cardinality(D)
<1>1. IsFiniteSet(D) /\ IsFiniteSet(U \ D) /\ IsFiniteSet(V)
  BY FS_Subset, FS_Difference
<1>2. Cardinality(V) <= Cardinality(U \ D)
  BY <1>1, FS_Subset
<1>3. Cardinality(U \ D) = Cardinality(U) - Cardinality(U \cap D)
  BY FS_Difference
<1>4. U \cap D = D
  OBVIOUS
<1>5. /\ Cardinality(U) \in Nat /\ Cardinality(D) \in Nat /\ Cardinality(V) \in Nat
  BY <1>1, FS_CardinalityType
<1> QED BY <1>1, <1>2, <1>3, <1>4, <1>5

(* The white objects of the list, and the dead ones behind the cell.       *)
WhiteListed == {o \in ToSet(all) : IsWhite(o)}
DeadBehind == {o \in ToSet(Behind) : Dead(o)}

(* What the counters cover, in lengths.                                    *)
Covered ==
    /\ phase = "pause" => debt >= survivors /\ debt >= Len(all)
    /\ phase = "sweep" => /\ debt >= Cardinality(DeadBehind)
                          /\ debt + survivors >= Len(BeforeCell) + Cardinality(DeadBehind)
    /\ phase \in {"propagate", "enteratomic"} => debt >= Cardinality(WhiteListed \cup gray)

(* DebtCovers, in terms of what is still to be subtracted.                 *)
LEMMA CoveredIs == TypeOK /\ ListExact => (DebtCovers <=> Covered)
<1> SUFFICES ASSUME TypeOK, ListExact PROVE DebtCovers <=> Covered
  OBVIOUS
<1>1. /\ IsFiniteSet(ToSet(Behind)) /\ Cardinality(ToSet(Behind)) = Len(Behind)
      /\ Len(all) = Len(BeforeCell) + Len(Behind)
      /\ Len(BeforeCell) \in Nat /\ Len(Behind) \in Nat
  BY Counts
<1>2. DeadBehind \in SUBSET ToSet(Behind)
  BY DEF DeadBehind
<1> DEFINE K == ToSet(Behind) \ DeadBehind
<1>3. Cardinality(K) = Len(Behind) - Cardinality(DeadBehind)
  <2>1. ToSet(Behind) \cap DeadBehind = DeadBehind
    BY <1>2
  <2>2. Cardinality(K) = Cardinality(ToSet(Behind)) - Cardinality(ToSet(Behind) \cap DeadBehind)
    BY <1>1, FS_Difference
  <2> QED BY <2>1, <2>2, <1>1
<1>4. Cardinality(DeadBehind) \in Nat
  BY <1>1, <1>2, FS_Subset, FS_CardinalityType
<1> HIDE DEF K
<1>5. debt \in Nat /\ survivors \in Nat
  BY DEF TypeOK
<1>6. debt + survivors + Cardinality(K) >= Len(all)
         <=> debt + survivors >= Len(BeforeCell) + Cardinality(DeadBehind)
  BY <1>1, <1>3, <1>4, <1>5
<1>7. DebtCovers <=>
        /\ phase = "pause" => debt >= survivors /\ debt >= Len(all)
        /\ phase = "sweep" => /\ debt >= Cardinality(DeadBehind)
                              /\ debt + survivors + Cardinality(K) >= Len(all)
        /\ phase \in {"propagate", "enteratomic"} => debt >= Cardinality(WhiteListed \cup gray)
  BY DEF DebtCovers, DeadBehind, WhiteListed, K
<1> QED BY <1>6, <1>7, Zenon DEF Covered

(* What the sweep has yet to free is finite.                               *)
LEMMA DeadCount ==
    ASSUME TypeOK, ListExact
    PROVE  IsFiniteSet(DeadBehind) /\ Cardinality(DeadBehind) \in Nat
<1>1. DeadBehind \in SUBSET ToSet(Behind)
  BY DEF DeadBehind
<1> QED BY <1>1, Counts, FS_Subset, FS_CardinalityType

LengthsAdd == Len(all) = Len(BeforeCell) + Len(Behind) /\ Len(BeforeCell) \in Nat

(* The cell cuts the list in two.                                          *)
LEMMA LengthsAddNow == TypeOK /\ ListExact => LengthsAdd
  BY Counts DEF LengthsAdd

(* The same of the state after a step.                                     *)
LEMMA LengthsAddNext == TypeOK' /\ ListExact' => LengthsAdd'
  BY LengthsAddNow, PTL

(* The same in the next state.                                             *)
LEMMA CoveredIsNext == TypeOK' /\ ListExact' => (DebtCovers' <=> Covered')
  BY CoveredIs, PTL

-----------------------------------------------------------------------------
(* Steps that leave the list alone.                                        *)

Colours == Whites \cup {"free", "marked", "parked"}

(* Repainting allocated objects disturbs neither the list nor its marks.   *)
LEMMA Repainted ==
    ASSUME SweepInv, UNCHANGED <<marking, phase>>,
           mark' \in [Address -> Colours],
           \A m \in SweepMarks : mark'[m] = mark[m],
           \A o \in Objects : mark'[o] # mark[o] =>
               mark[o] \notin {"free", "parked"} /\ mark'[o] \notin {"free", "parked"}
    PROVE  ListExact' /\ MarksInOrder' /\ Behind' = Behind /\ BeforeCell' = BeforeCell
<1>1. mark \in [Address -> Colours]
  BY DEF SweepInv, TypeOK, Address, Colours
<1>2. Behind' = Behind /\ BeforeCell' = BeforeCell
  BY DEF Behind, BeforeCell, marking
<1>3. {o \in DOMAIN mark' : mark'[o] \notin {"free", "parked"}}
        = {o \in DOMAIN mark : mark[o] \notin {"free", "parked"}}
  BY <1>1 DEF Address
<1>4. ListExact'
  BY <1>3 DEF SweepInv, ListExact, marking
<1>5. MarksInOrder'
  BY DEF SweepInv, MarksInOrder, Dead, marking
<1> QED BY <1>2, <1>4, <1>5

(* A change of phase within marking, or from a pause to marking.           *)
LEMMA NewPhase ==
    ASSUME ListExact, MarksInOrder, UNCHANGED <<marking, mark>>,
           phase # "sweep", phase' # "sweep"
    PROVE  ListExact' /\ MarksInOrder' /\ Behind' = Behind /\ BeforeCell' = BeforeCell
<1>1. Behind' = Behind /\ BeforeCell' = BeforeCell
  BY DEF Behind, BeforeCell, marking
<1>2. ListExact'
  BY DEF ListExact, marking
<1>3. MarksInOrder'
  BY DEF MarksInOrder, Dead, marking
<1> QED BY <1>1, <1>2, <1>3

(* The list holds what is white and what is gray.                          *)
LEMMA ListHolds ==
    ASSUME SweepInv
    PROVE  /\ \A o \in Address : o \in ToSet(all) <=> mark[o] \notin {"free", "parked"}
           /\ {o \in Objects : IsWhite(o)} \subseteq WhiteListed
           /\ gray \subseteq ToSet(all)
           /\ WhiteListed \subseteq ToSet(all) /\ WhiteListed \cap gray = {}
           /\ \A o \in gray : o \in Objects \ Leaves /\ mark[o] = "marked"
           /\ ToSet(all) \subseteq Address
<1>1. mark \in [Address -> Colours]
  BY DEF SweepInv, TypeOK, Address, Colours
<1>2. ToSet(all) = {o \in Address : mark[o] \notin {"free", "parked"}}
  BY <1>1 DEF SweepInv, ListExact
<1>3. \A o \in gray : o \in Objects \ Leaves /\ mark[o] = "marked"
  BY DEF SweepInv, GrayMarked
<1> QED BY <1>1, <1>2, <1>3 DEF WhiteListed, IsWhite, Whites, Address

(* Marking S while a cycle marks, for what the members of D pay.           *)
LEMMA MarkStep ==
    ASSUME SweepInv, UNCHANGED marking,
           phase # "sweep", phase' \in {"propagate", "enteratomic"},
           NEW S \in SUBSET {o \in Objects : IsWhite(o)}, mark' = Recoloured(S, "marked"),
           NEW U \in SUBSET ToSet(all), NEW D \in SUBSET U,
           debt >= Cardinality(U), debt' = debt - Cardinality(D),
           WhiteListed \subseteq U, D \cap WhiteListed \subseteq S,
           gray' \subseteq gray \cup (S \ Leaves), gray' \subseteq U \ D
    PROVE  SweepInv'
<1>1. mark \in [Address -> Colours] /\ debt \in Nat
  BY DEF SweepInv, TypeOK, Address, Colours
<1>2. S \subseteq WhiteListed /\ \A o \in S : o \in Objects /\ IsWhite(o)
  BY ListHolds
<1>3. mark' \in [Address -> Colours]
  BY <1>1 DEF Recoloured, Colours
<1>4. \A o \in Address : mark'[o] = IF o \in S THEN "marked" ELSE mark[o]
  BY <1>1 DEF Recoloured
<1>5. ListExact' /\ MarksInOrder' /\ BeforeCell' = BeforeCell
  <2>1. \A m \in SweepMarks : m \notin S /\ m \in Address
    BY <1>2, ObjectsAssumption DEF Address
  <2>2. \A o \in S : mark[o] \notin {"free", "parked"}
    BY <1>2 DEF IsWhite, Whites
  <2>3. {o \in DOMAIN mark' : mark'[o] \notin {"free", "parked"}}
          = {o \in DOMAIN mark : mark[o] \notin {"free", "parked"}}
    BY <1>1, <1>3, <1>4, <2>2
  <2>4. ListExact'
    BY <2>3 DEF SweepInv, ListExact, marking
  <2>5. MarksInOrder'
    BY <1>4, <2>1 DEF SweepInv, MarksInOrder, Dead, marking
  <2> QED BY <2>4, <2>5 DEF BeforeCell, marking
<1>6. debt' >= Cardinality((WhiteListed \cup gray)') /\ debt' \in Nat
  <2>1. IsFiniteSet(U)
    BY Counts, FS_Subset DEF SweepInv
  <2>2. (WhiteListed \cup gray)' \in SUBSET (U \ D)
    <3>1. WhiteListed' \subseteq WhiteListed \ S
      BY <1>4, ListHolds DEF WhiteListed, IsWhite, Whites, marking
    <3> QED BY <3>1
  <2> DEFINE V == (WhiteListed \cup gray)'
  <2> HIDE DEF V
  <2>3. V \in SUBSET (U \ D)
    BY <2>2 DEF V
  <2>4. /\ Cardinality(U) \in Nat /\ Cardinality(D) \in Nat /\ Cardinality(V) \in Nat
        /\ Cardinality(V) <= Cardinality(U) - Cardinality(D)
    BY <2>1, <2>3, Paid
  <2>5. debt' >= Cardinality(V) /\ debt' \in Nat
    BY <2>4, <1>1
  <2> QED BY <2>5 DEF V
<1>7. GrayMarked'
  <2>1. \A o \in gray : o \in Objects \ Leaves /\ mark[o] = "marked" /\ o \in Address
    BY ListHolds DEF Address
  <2>2. \A o \in S : o \in Objects /\ o \in Address
    BY <1>2 DEF Address
  <2>3. \A o \in gray' : o \in Objects \ Leaves /\ mark'[o] = "marked"
    BY <1>4, <2>1, <2>2
  <2> QED BY <2>3 DEF GrayMarked
<1>8. TypeOK'
  <2>1. gray' \subseteq Objects
    BY <1>7 DEF GrayMarked
  <2> QED BY <1>3, <1>6, <2>1 DEF SweepInv, TypeOK, marking, Address, Colours
<1>9. DebtCovers'
  <2>1. Covered'
    BY <1>6 DEF Covered
  <2> QED BY <2>1, <1>5, <1>8, CoveredIsNext
<1>10. WhiteBeforeCell'
  BY DEF WhiteBeforeCell
<1> QED BY <1>5, <1>7, <1>8, <1>9, <1>10 DEF SweepInv

(* The phases of a state.                                                  *)
LEMMA Facts ==
    ASSUME SweepInv
    PROVE  /\ TypeOK /\ ListExact /\ GrayMarked /\ MarksInOrder /\ WhiteBeforeCell /\ Covered
           /\ phase \in {"pause", "propagate", "enteratomic", "sweep"}
           /\ mark \in [Address -> Colours]
           /\ debt \in Nat /\ survivors \in Nat /\ fresh \in Nat
           /\ currentwhite \in Whites /\ Other(currentwhite) \in Whites
           /\ Other(currentwhite) # currentwhite /\ Other(Other(currentwhite)) = currentwhite
  BY CoveredIs DEF SweepInv, TypeOK, Address, Colours, Whites, Other

(* The steps keep SweepInv, one by one.                                    *)
LEMMA StartCycleStep == ASSUME SweepInv, StartCycle PROVE SweepInv'
<1>1. PICK S \in SUBSET Objects : Marking(S) /\ gray' = S \ Leaves
  BY DEF StartCycle
<1>2. S \in SUBSET {o \in Objects : IsWhite(o)} /\ mark' = Recoloured(S, "marked")
  BY <1>1 DEF Marking
<1> DEFINE U == ToSet(all)  D == S \cap Leaves
<1>3. D \in SUBSET U /\ WhiteListed \subseteq U /\ S \subseteq U
  BY <1>2, ListHolds
<1>4. debt >= Cardinality(U) /\ debt' = debt - Cardinality(D)
  <2>1. debt >= Len(all)
    BY Facts DEF StartCycle, Covered
  <2> QED BY <2>1, <1>1, Facts, Counts DEF Marking
<1>5. gray' \subseteq gray \cup (S \ Leaves) /\ gray' \subseteq U \ D
  BY <1>1, <1>3
<1>6. D \cap WhiteListed \subseteq S /\ U \in SUBSET ToSet(all)
  OBVIOUS
<1>7. UNCHANGED marking /\ phase # "sweep" /\ phase' \in {"propagate", "enteratomic"}
  BY DEF StartCycle
<1> HIDE DEF U, D
<1> QED BY <1>2, <1>3, <1>4, <1>5, <1>6, <1>7, MarkStep

(* mark_one_gray subtracts an object that is counted in debt.              *)
LEMMA MarkOneGrayStep ==
    ASSUME SweepInv, NEW o \in gray, MarkOneGray(o) PROVE SweepInv'
<1>1. PICK S \in SUBSET {x \in Objects : IsWhite(x)} :
         /\ mark' = Recoloured(S, "marked")
         /\ gray' = (gray \ {o}) \cup (S \ Leaves)
         /\ debt' = debt - Cardinality(S \cap Leaves) - 1
  BY DEF MarkOneGray
<1> DEFINE U == WhiteListed \cup gray  D == (S \cap Leaves) \cup {o}
<1>2. UNCHANGED marking /\ phase = "propagate" /\ phase' = "propagate"
  BY DEF MarkOneGray
<1>3. S \subseteq WhiteListed /\ o \notin WhiteListed
  BY ListHolds
<1>4. U \in SUBSET ToSet(all) /\ D \in SUBSET U
  BY <1>3, ListHolds
<1>5. debt >= Cardinality(U)
  BY <1>2, Facts DEF Covered
<1>6. debt' = debt - Cardinality(D)
  <2>1. IsFiniteSet(S \cap Leaves)
    <3>1. S \cap Leaves \in SUBSET ToSet(all)
      BY <1>4
    <3> QED BY <3>1, Facts, Counts, FS_Subset
  <2>2. o \notin S \cap Leaves
    BY <1>3
  <2>3. Cardinality(D) = Cardinality(S \cap Leaves) + 1 /\ Cardinality(S \cap Leaves) \in Nat
    BY <2>1, <2>2, FS_AddElement, FS_CardinalityType
  <2> HIDE DEF D
  <2> QED BY <2>3, <1>1, Facts
<1>7. WhiteListed \subseteq U /\ D \cap WhiteListed \subseteq S
  BY <1>3
<1>8. gray' \subseteq gray \cup (S \ Leaves) /\ gray' \subseteq U \ D
  BY <1>1, <1>3, ListHolds
<1> HIDE DEF U, D
<1> QED BY <1>1, <1>2, <1>4, <1>5, <1>6, <1>7, <1>8, MarkStep

(* The end of propagation.                                                 *)
LEMMA GrayEmptyStep == ASSUME SweepInv, GrayEmpty PROVE SweepInv'
<1>1. ListExact' /\ MarksInOrder' /\ BeforeCell' = BeforeCell
  BY NewPhase DEF GrayEmpty, SweepInv
<1>2. TypeOK'
  BY DEF GrayEmpty, SweepInv, TypeOK, marking
<1>3. GrayMarked'
  BY DEF GrayEmpty, SweepInv, GrayMarked
<1>4. WhiteBeforeCell'
  BY DEF GrayEmpty, WhiteBeforeCell
<1>5. Covered'
  <2>1. debt >= Cardinality(WhiteListed \cup gray)
    BY Facts DEF GrayEmpty, Covered
  <2>2. (WhiteListed \cup gray)' = WhiteListed \cup gray
    BY DEF GrayEmpty, marking, WhiteListed, IsWhite
  <2>3. phase' = "enteratomic" /\ debt' = debt
    BY DEF GrayEmpty
  <2> QED BY <2>1, <2>2, <2>3 DEF Covered
<1> QED BY <1>1, <1>2, <1>3, <1>4, <1>5, CoveredIsNext DEF SweepInv

(* An object that gets the current white outside of marking, or that was   *)
(* white already.                                                          *)
LEMMA WhitenStep ==
    ASSUME SweepInv, UNCHANGED <<phase, debt, gray, marking>>,
           NEW o \in Objects, o \notin gray, mark[o] \notin {"free", "parked"},
           phase \in {"pause", "sweep"} \/ IsWhite(o),
           mark' = [mark EXCEPT ![o] = currentwhite]
    PROVE  SweepInv'
<1>1. \A x \in Address : mark'[x] = IF x = o THEN currentwhite ELSE mark[x]
  BY Facts
<1>2. mark' \in [Address -> Colours]
  BY Facts DEF Colours
<1>3. ListExact' /\ MarksInOrder' /\ Behind' = Behind /\ BeforeCell' = BeforeCell
  <2>1. \A m \in SweepMarks : m \in Address /\ m # o
    BY ObjectsAssumption DEF Address
  <2>2. \A x \in Objects : x \in Address
    BY DEF Address
  <2>3. currentwhite \notin {"free", "parked"}
    BY Facts DEF Whites
  <2> QED BY <1>1, <1>2, <2>1, <2>2, <2>3, Repainted
<1>4. TypeOK'
  BY <1>2, Facts DEF TypeOK, marking, Address, Colours
<1>5. GrayMarked'
  <2>1. \A x \in gray : x \in Address /\ x # o
    BY ListHolds DEF Address
  <2> QED BY <2>1, <1>1, Facts DEF GrayMarked
<1>6. WhiteBeforeCell'
  <2>1. ToSet(BeforeCell) \subseteq Address
    BY Facts, Cut, ListHolds
  <2> QED BY <2>1, <1>1, <1>3, Facts DEF WhiteBeforeCell, marking
<1>7. Covered'
  <2>1. CASE phase = "pause"
    BY <2>1, Facts DEF Covered, marking
  <2>2. CASE phase = "sweep"
    <3>1. DeadBehind' \in SUBSET DeadBehind
      <4>1. ToSet(Behind) \subseteq Address
        BY Facts, Cut, ListHolds
      <4> QED BY <4>1, <1>1, <1>3, Facts DEF DeadBehind, Dead, marking
    <3>2. IsFiniteSet(DeadBehind)
      <4>1. DeadBehind \in SUBSET ToSet(Behind)
        BY DEF DeadBehind
      <4> QED BY <4>1, Facts, Counts, FS_Subset
    <3>3. /\ Cardinality(DeadBehind) \in Nat /\ Cardinality(DeadBehind') \in Nat
          /\ Cardinality(DeadBehind') <= Cardinality(DeadBehind)
      BY <3>1, <3>2, FS_Subset, FS_CardinalityType
    <3>4. /\ debt >= Cardinality(DeadBehind)
          /\ debt + survivors >= Len(BeforeCell) + Cardinality(DeadBehind)
      BY <2>2, Facts DEF Covered
    <3>5. Len(BeforeCell') = Len(BeforeCell) /\ Len(BeforeCell) \in Nat
      BY <1>3, Facts, Counts
    <3>6. /\ debt >= Cardinality(DeadBehind')
          /\ debt + survivors >= Len(BeforeCell') + Cardinality(DeadBehind')
      BY <3>3, <3>4, <3>5, Facts
    <3> QED BY <3>6, <2>2 DEF Covered, marking
  <2>3. CASE phase \in {"propagate", "enteratomic"}
    <3>1. IsWhite(o)
      BY <2>3
    <3>2. WhiteListed' = WhiteListed
      BY <1>1, <3>1, Facts, ListHolds DEF WhiteListed, IsWhite, marking
    <3>3. (WhiteListed \cup gray)' = WhiteListed \cup gray
      BY <3>2
    <3>4. debt >= Cardinality(WhiteListed \cup gray)
      BY <2>3, Facts DEF Covered
    <3> QED BY <3>3, <3>4, <2>3 DEF Covered
  <2> QED BY <2>1, <2>2, <2>3, Facts
<1> QED BY <1>3, <1>4, <1>5, <1>6, <1>7, CoveredIsNext DEF SweepInv

(* A barrier.                                                              *)
LEMMA BarrierStep == ASSUME SweepInv, NEW o \in Objects, Barrier(o) PROVE SweepInv'
<1>1. CASE phase \in {"propagate", "enteratomic"}
  <2>1. Marking({o}) /\ gray' = gray \cup ({o} \ Leaves) /\ UNCHANGED <<phase, marking>>
    BY <1>1 DEF Barrier
  <2> DEFINE S == {o}  U == WhiteListed \cup gray  D == {o} \cap Leaves
  <2>2. S \in SUBSET {x \in Objects : IsWhite(x)} /\ mark' = Recoloured(S, "marked")
    BY <2>1 DEF Marking
  <2>3. S \subseteq WhiteListed /\ U \in SUBSET ToSet(all) /\ D \in SUBSET U
    BY <2>2, ListHolds
  <2>4. debt >= Cardinality(U) /\ debt' = debt - Cardinality(D)
    BY <1>1, <2>1, Facts DEF Covered, Marking
  <2>5. WhiteListed \subseteq U /\ D \cap WhiteListed \subseteq S
    OBVIOUS
  <2>6. gray' \subseteq gray \cup (S \ Leaves) /\ gray' \subseteq U \ D
    BY <2>1, <2>3, ListHolds
  <2>7. phase # "sweep" /\ phase' \in {"propagate", "enteratomic"}
    BY <1>1, <2>1
  <2> HIDE DEF S, U, D
  <2> QED BY <2>1, <2>2, <2>3, <2>4, <2>5, <2>6, <2>7, MarkStep
<1>2. CASE phase \notin {"propagate", "enteratomic"}
  <2>1. /\ mark[o] = "marked" /\ mark' = [mark EXCEPT ![o] = currentwhite]
        /\ UNCHANGED <<phase, debt, gray, marking>>
    BY <1>2 DEF Barrier
  <2>2. phase \in {"pause", "sweep"} /\ gray = {}
    BY <1>2, Facts DEF GrayMarked
  <2> QED BY <2>1, <2>2, WhitenStep
<1> QED BY <1>1, <1>2

(* Gc::resurrect.                                                          *)
LEMMA ResurrectStep == ASSUME SweepInv, NEW o \in Objects, Resurrect(o) PROVE SweepInv'
<1>1. /\ Dead(o) /\ mark' = [mark EXCEPT ![o] = currentwhite]
      /\ UNCHANGED <<phase, debt, gray, marking>>
  BY DEF Resurrect
<1>2. IsWhite(o) /\ mark[o] \notin {"free", "parked", "marked"}
  BY <1>1, Facts DEF Dead, IsWhite, Whites
<1>3. o \notin gray
  BY <1>2, ListHolds
<1> QED BY <1>1, <1>2, <1>3, WhitenStep

(* The end of the sweep.                                                   *)
LEMMA SweepDoneStep == ASSUME SweepInv, SweepDone PROVE SweepInv'
<1>1. /\ phase = "sweep" /\ sweep = Nil /\ debt' = debt + survivors /\ phase' = "pause"
      /\ UNCHANGED <<mark, gray, marking>>
  BY DEF SweepDone
<1>2. Behind = <<>> /\ BeforeCell = all /\ BeforeCell' = BeforeCell
  BY <1>1, Facts, Cut DEF BeforeCell, marking
<1>3. \A o \in ToSet(all) : mark[o] = currentwhite
  BY <1>1, <1>2, Facts DEF WhiteBeforeCell
<1>4. ListExact'
  BY <1>1, Facts DEF ListExact, marking
<1>5. MarksInOrder'
  <2>1. \A m \in SweepMarks : mark[m] \notin {"free", "parked"} => ~Dead(m)
    BY <1>3, Facts, ListHolds DEF Dead, Address
  <2> QED BY <2>1, <1>1, Facts DEF MarksInOrder, Dead, marking
<1>6. TypeOK'
  BY <1>1, Facts DEF TypeOK, marking
<1>7. GrayMarked'
  BY <1>1, Facts DEF GrayMarked
<1>8. WhiteBeforeCell'
  BY <1>1, <1>2, <1>3 DEF WhiteBeforeCell, marking
<1>9. Covered'
  <2>1. debt + survivors >= Len(BeforeCell) + Cardinality(DeadBehind)
    BY <1>1, Facts DEF Covered
  <2>2. DeadBehind = {}
    BY <1>2 DEF DeadBehind, ToSet
  <2>3. Cardinality(DeadBehind) = 0
    BY <2>2, FS_EmptySet
  <2>4. debt' >= survivors' /\ debt' >= Len(all')
    BY <2>1, <2>3, <1>1, <1>2, Facts, Counts DEF marking
  <2> QED BY <2>4, <1>1 DEF Covered
<1> QED BY <1>4, <1>5, <1>6, <1>7, <1>8, <1>9, CoveredIsNext DEF SweepInv

-----------------------------------------------------------------------------
(* Steps that link an object or a sweep mark at the head.                  *)

(* A birth, at the head of the list.                                       *)
LEMMA AllocStep == ASSUME SweepInv, NEW o \in Objects, Alloc(o) PROVE SweepInv'
<1>1. /\ mark[o] = "free" /\ all' = <<o>> \o all /\ mark' = [mark EXCEPT ![o] = currentwhite]
      /\ debt' = debt + 1 /\ fresh' = fresh + 1
      /\ UNCHANGED <<phase, currentwhite, gray, sweep, parked, survivors>>
  BY DEF Alloc
<1>2. o \in Address /\ o \notin ToSet(all) /\ o \notin SweepMarks
  BY <1>1, ListHolds, ObjectsAssumption DEF Address
<1>3. /\ all' \in Seq(Address) /\ IsInjective(all')
      /\ ToSet(all') = ToSet(all) \cup {o} /\ Len(all') = Len(all) + 1
      /\ Behind' = Behind /\ ToSet(BeforeCell') = ToSet(BeforeCell) \cup {o}
  BY <1>1, <1>2, Facts, LinkedAtHead
<1>4. \A x \in Address : mark'[x] = IF x = o THEN currentwhite ELSE mark[x]
  BY <1>1, Facts
<1>5. mark' \in [Address -> Colours]
  BY <1>1, Facts DEF Colours
<1>6. currentwhite \notin {"free", "parked", "marked"}
  BY Facts DEF Whites
<1>7. ListExact'
  <2>1. ToSet(all') = {x \in DOMAIN mark' : mark'[x] \notin {"free", "parked"}}
    BY <1>2, <1>3, <1>4, <1>5, <1>6, ListHolds
  <2>2. sweep' # Nil => phase' = "sweep" /\ sweep' \in ToSet(all')
    BY <1>1, <1>3, Facts DEF ListExact
  <2> QED BY <2>1, <2>2, <1>3 DEF ListExact
<1>8. MarksInOrder'
  <2>1. \A m \in SweepMarks : mark'[m] = mark[m]
    BY <1>2, <1>4 DEF Address
  <2> QED BY <2>1, <1>1, Facts DEF MarksInOrder, Dead
<1>9. TypeOK'
  BY <1>1, <1>3, <1>5, Facts DEF TypeOK, Address, Colours
<1>10. GrayMarked'
  <2>1. \A x \in gray : x \in Address /\ x # o
    BY <1>1, ListHolds DEF Address
  <2> QED BY <2>1, <1>1, <1>4, Facts DEF GrayMarked
<1>11. WhiteBeforeCell'
  <2>1. ToSet(BeforeCell) \subseteq Address
    BY Facts, Cut, ListHolds
  <2> QED BY <2>1, <1>1, <1>3, <1>4, Facts DEF WhiteBeforeCell
<1>12. Covered'
  <2>1. CASE phase = "pause"
    BY <2>1, <1>1, <1>3, Facts, Counts DEF Covered
  <2>2. CASE phase = "sweep"
    <3>1. DeadBehind' = DeadBehind
      <4>1. ToSet(Behind) \subseteq ToSet(all) /\ ToSet(all) \subseteq Address
        BY Facts, Cut, ListHolds
      <4> QED BY <4>1, <1>1, <1>2, <1>3, <1>4 DEF DeadBehind, Dead
    <3>2. Len(BeforeCell') = Len(BeforeCell) + 1
      <4>1. Len(all') = Len(BeforeCell') + Len(Behind') /\ Len(BeforeCell') \in Nat
        BY <1>7, <1>9, LengthsAddNext DEF LengthsAdd
      <4> QED BY <4>1, <1>3, Facts, Counts
    <3>3. /\ debt >= Cardinality(DeadBehind)
          /\ debt + survivors >= Len(BeforeCell) + Cardinality(DeadBehind)
      BY <2>2, Facts DEF Covered
    <3>4. Cardinality(DeadBehind) \in Nat
      BY Facts, DeadCount
    <3>5. /\ debt' >= Cardinality(DeadBehind')
          /\ debt' + survivors' >= Len(BeforeCell') + Cardinality(DeadBehind')
      BY <1>1, <3>1, <3>2, <3>3, <3>4, Facts, Counts
    <3> QED BY <3>5, <2>2, <1>1 DEF Covered
  <2>3. CASE phase \in {"propagate", "enteratomic"}
    <3> DEFINE U == WhiteListed \cup gray
    <3>1. (WhiteListed \cup gray)' \subseteq U \cup {o}
      BY <1>1, <1>3, <1>4, ListHolds DEF WhiteListed, IsWhite
    <3>2. IsFiniteSet(U) /\ debt >= Cardinality(U)
      <4>1. U \in SUBSET ToSet(all)
        BY ListHolds
      <4>2. debt >= Cardinality(WhiteListed \cup gray)
        BY <2>3, Facts DEF Covered
      <4> QED BY <4>1, <4>2, Facts, Counts, FS_Subset
    <3> DEFINE V == (WhiteListed \cup gray)'
    <3> HIDE DEF U, V
    <3>3. V \subseteq U \cup {o}
      BY <3>1 DEF V
    <3>4. IsFiniteSet(U \cup {o}) /\ Cardinality(U \cup {o}) <= Cardinality(U) + 1
      BY <3>2, FS_AddElement, FS_CardinalityType
    <3>5. Cardinality(V) <= Cardinality(U \cup {o}) /\ IsFiniteSet(V)
      BY <3>3, <3>4, FS_Subset
    <3>6. Cardinality(V) \in Nat /\ Cardinality(U) \in Nat /\ Cardinality(U \cup {o}) \in Nat
      BY <3>2, <3>4, <3>5, FS_CardinalityType
    <3>7. debt' >= Cardinality(V)
      BY <3>2, <3>4, <3>5, <3>6, <1>1, Facts
    <3> QED BY <3>7, <2>3, <1>1 DEF Covered, V
  <2> QED BY <2>1, <2>2, <2>3, Facts
<1> QED BY <1>7, <1>8, <1>9, <1>10, <1>11, <1>12, CoveredIsNext DEF SweepInv

(* The end of marking, which links or takes over a sweep mark.             *)
LEMMA FlipStep == ASSUME SweepInv, Flip PROVE SweepInv'
<1>1. PICK S \in SUBSET {o \in Objects : IsWhite(o)}, m \in Reuse :
         FlipTo(S, m) /\ all' = <<m>> \o all /\ sweep' = m
  BY DEF Flip
<1>2. /\ mark' = [Recoloured(S, "marked") EXCEPT ![m] = Other(currentwhite)]
      /\ debt' = debt - Cardinality(S \cap Leaves) + 1
  BY <1>1 DEF FlipTo
<1>3. /\ phase = "enteratomic" /\ phase' = "sweep" /\ currentwhite' = Other(currentwhite)
      /\ gray' = {} /\ parked' = Nil /\ survivors' = 0 /\ fresh' = 0
  BY DEF Flip
<1>4. m \in SweepMarks /\ mark[m] \in {"free", "parked"} /\ (parked # Nil => m = parked)
  BY Facts DEF Reuse, Vacant, MarksInOrder, TypeOK
<1>5. m \in Address /\ m \notin ToSet(all) /\ m \notin Objects /\ m # Nil
  BY <1>4, ListHolds, NilIsNoAddress, ObjectsAssumption DEF Address
<1>6. all \in Seq(Address) /\ IsInjective(all)
  BY Facts DEF TypeOK, ListExact, Address
<1>7. /\ all' \in Seq(Address) /\ IsInjective(all')
      /\ ToSet(all') = ToSet(all) \cup {m} /\ Len(all') = Len(all) + 1
  BY <1>1, <1>5, <1>6, InFront
<1>8. Behind' = all /\ BeforeCell' = <<m>>
  <2>1. <<m>> \in Seq(Address) /\ <<m>> # <<>> /\ Last(<<m>>) = m
    BY <1>5 DEF Last
  <2>2. BehindIn(all', m) = all /\ BeforeIn(all', m) = <<m>>
    BY <2>1, <1>1, <1>5, <1>6, <1>7, CutAfter
  <2> QED BY <2>2, <1>1 DEF Behind, BeforeCell
<1>9. \A o \in Address : mark'[o] = IF o = m THEN Other(currentwhite)
                                    ELSE IF o \in S THEN "marked" ELSE mark[o]
  BY <1>2, <1>5, Facts DEF Recoloured
<1>10. mark' \in [Address -> Colours]
  BY <1>2, Facts DEF Recoloured, Colours
<1>11. S \subseteq WhiteListed /\ \A o \in S : o \in Objects /\ mark[o] \in Whites
  BY ListHolds DEF IsWhite
<1>12. Other(currentwhite) \notin {"free", "parked", "marked"}
  BY Facts DEF Whites
<1>13. ListExact'
  <2>1. \A o \in S : mark[o] \notin {"free", "parked"}
    BY <1>11 DEF Whites
  <2>2. ToSet(all') = {o \in DOMAIN mark' : mark'[o] \notin {"free", "parked"}}
    BY <2>1, <1>5, <1>7, <1>9, <1>10, <1>12, ListHolds
  <2> QED BY <2>2, <1>1, <1>3, <1>7 DEF ListExact
<1>14. MarksInOrder'
  <2> DEFINE linked == {x \in SweepMarks : mark[x] \notin {"free", "parked"}}
  <2>1. \A x \in SweepMarks : x \in Address /\ x \notin S
    BY <1>11, ObjectsAssumption DEF Address
  <2>2. \A x \in linked : x # m /\ mark[x] = currentwhite /\ mark'[x] = mark[x]
    BY <2>1, <1>3, <1>4, <1>9, Facts DEF MarksInOrder, Dead, Colours, Whites
  <2>3. \A x \in SweepMarks \ {m} : mark'[x] = mark[x]
    BY <2>1, <1>9
  <2>4. mark'[m] = Other(currentwhite)
    BY <1>5, <1>9
  <2>5. {x \in SweepMarks : mark'[x] \notin {"free", "parked"}} = linked \cup {m}
    BY <2>3, <2>4, <1>4, <1>12
  <2>6. \A x \in SweepMarks : mark'[x] # "marked"
    BY <2>3, <2>4, <1>12, Facts DEF MarksInOrder
  <2>7. \A x, y \in linked \cup {m} : mark'[x] = mark'[y] => x = y
    BY <2>2, <2>4, Facts DEF MarksInOrder
  <2>8. {x \in SweepMarks : mark'[x] = "parked"} = {}
    <3>1. \A x \in SweepMarks : mark[x] = "parked" => x = parked /\ parked # Nil
      BY Facts DEF MarksInOrder
    <3> QED BY <3>1, <2>3, <2>4, <1>4, <1>12
  <2> HIDE DEF linked
  <2> QED BY <2>5, <2>6, <2>7, <2>8, <1>3 DEF MarksInOrder
<1>15. /\ debt' >= Cardinality(DeadBehind') + 1 /\ debt' \in Nat
       /\ Cardinality(DeadBehind') \in Nat
  <2> DEFINE U == WhiteListed \cup gray  D == S \cap Leaves  V == DeadBehind'
  <2>1. U \in SUBSET ToSet(all) /\ D \in SUBSET U
    BY <1>11, ListHolds
  <2>2. V \in SUBSET (U \ D)
    <3>1. Other(currentwhite') = currentwhite
      BY <1>3, Facts
    <3>2. V = {o \in ToSet(all) : mark'[o] = currentwhite}
      BY <3>1, <1>8 DEF DeadBehind, Dead
    <3>3. currentwhite \in Whites /\ currentwhite # "marked"
      BY Facts DEF Whites
    <3> QED BY <3>2, <3>3, <1>5, <1>9, ListHolds DEF WhiteListed, IsWhite
  <2>3. debt >= Cardinality(U)
    BY <1>3, Facts DEF Covered
  <2>4. debt' = debt - Cardinality(D) + 1
    BY <1>2
  <2> HIDE DEF U, D, V
  <2>5. IsFiniteSet(U)
    BY <2>1, Facts, Counts, FS_Subset
  <2>6. /\ Cardinality(U) \in Nat /\ Cardinality(D) \in Nat /\ Cardinality(V) \in Nat
        /\ Cardinality(V) <= Cardinality(U) - Cardinality(D)
    BY <2>1, <2>2, <2>5, Paid
  <2>7. debt' >= Cardinality(V) + 1 /\ debt' \in Nat
    BY <2>3, <2>4, <2>6, Facts
  <2> QED BY <2>6, <2>7 DEF V
<1>16. TypeOK'
  BY <1>1, <1>3, <1>5, <1>7, <1>10, <1>15, Facts DEF TypeOK, Address, Colours
<1>17. GrayMarked'
  BY <1>3 DEF GrayMarked
<1>18. WhiteBeforeCell'
  <2>1. ToSet(BeforeCell') = {m}
    BY <1>8 DEF ToSet
  <2> QED BY <2>1, <1>3, <1>5, <1>9 DEF WhiteBeforeCell
<1>19. Covered'
  <2>1. Len(BeforeCell') = 1
    BY <1>8
  <2>2. debt' + survivors' >= Len(BeforeCell') + Cardinality(DeadBehind')
    BY <2>1, <1>3, <1>15
  <2>3. debt' >= Cardinality(DeadBehind')
    BY <1>15
  <2> QED BY <2>2, <2>3, <1>3 DEF Covered
<1> QED BY <1>13, <1>14, <1>16, <1>17, <1>18, <1>19, CoveredIsNext DEF SweepInv

-----------------------------------------------------------------------------
(* The sweep.                                                              *)

(* The last element of two lists in a row.                                 *)
LEMMA LastOfConcat ==
    ASSUME NEW X, NEW s \in Seq(X), NEW t \in Seq(X)
    PROVE  /\ t = <<>> => s \o t = s
           /\ t # <<>> => s \o t # <<>> /\ Last(s \o t) = Last(t)
<1>1. t = <<>> => s \o t = s
  BY ConcatEmptySeq
<1>2. ASSUME t # <<>> PROVE s \o t # <<>> /\ Last(s \o t) = Last(t)
  <2>1. Len(s) \in Nat /\ Len(t) \in Nat \ {0}
    BY <1>2, EmptySeq, LenProperties
  <2>2. /\ s \o t \in Seq(X) /\ Len(s \o t) = Len(s) + Len(t)
        /\ \A i \in 1..Len(s) + Len(t) :
              (s \o t)[i] = IF i <= Len(s) THEN s[i] ELSE t[i - Len(s)]
    BY ConcatProperties
  <2>3. (s \o t)[Len(s) + Len(t)] = t[Len(t)]
    <3>1. /\ Len(s) + Len(t) \in 1..Len(s) + Len(t) /\ ~(Len(s) + Len(t) <= Len(s))
          /\ Len(s) + Len(t) - Len(s) = Len(t)
      BY <2>1
    <3> QED BY <3>1, <2>2
  <2>4. Len(s \o t) # 0
    BY <2>1, <2>2
  <2> QED BY <2>2, <2>3, <2>4, EmptySeq DEF Last
<1> QED BY <1>1, <1>2

(* The part of the list behind the cell that a step visits, what it keeps  *)
(* and frees of it, and what it leaves for the next step.                  *)
Seen == SubSeq(Behind, 1, Visited)
Rest == SubSeq(Behind, Visited + 1, Len(Behind))
Kept == KeptIn(Seen)
Gone == FreedIn(Seen)

(* What a visit of Gc::sweep leaves of the list.                           *)
LEMMA Visit ==
    ASSUME TypeOK, ListExact
    PROVE  /\ Visited \in 0..Len(Behind)
           /\ Seen \in Seq(Address) /\ Rest \in Seq(Address) /\ Kept \in Seq(Address)
           /\ IsInjective(Rest) /\ IsInjective(Kept)
           /\ ToSet(Seen) \cap ToSet(Rest) = {}
           /\ ToSet(Behind) = ToSet(Seen) \cup ToSet(Rest)
           /\ ToSet(Kept) = {o \in ToSet(Seen) : ~Dead(o)}
           /\ Gone = {o \in ToSet(Seen) : Dead(o)}
           /\ Visited = Len(Behind) => Rest = <<>>
<1> DEFINE n == Visited
<1>1. n \in 0..Len(Behind) /\ Len(Behind) \in Nat
  BY VisitedInside, Counts
<1>2. Behind \in Seq(Address) /\ IsInjective(Behind)
  BY Cut
<1>3. \A i \in 1..Len(Behind) : Behind[i] \in Address
  BY <1>2, ElementOfSeq
<1> HIDE DEF n
<1>4. SubSeq(Behind, 1, n) \in Seq(Address)
  <2>1. \A i \in 1..n : Behind[i] \in Address
    BY <1>1, <1>3
  <2> QED BY <2>1, <1>1, SubSeqProperties
<1>5. SubSeq(Behind, n + 1, Len(Behind)) \in Seq(Address)
  <2>1. \A i \in n + 1..Len(Behind) : Behind[i] \in Address
    BY <1>1, <1>3
  <2> QED BY <2>1, <1>1, SubSeqProperties
<1>6. SubSeq(Behind, 1, n) \o SubSeq(Behind, n + 1, Len(Behind)) = Behind
  <2>1. SubSeq(Behind, 1, n) \o SubSeq(Behind, n + 1, Len(Behind)) = SubSeq(Behind, 1, Len(Behind))
    <3>1. 1 \in 1..Len(Behind) + 1 /\ n \in 1 - 1..Len(Behind) /\ Len(Behind) \in n..Len(Behind)
      BY <1>1
    <3> QED BY <3>1, <1>2, ConcatAdjacentSubSeq
  <2> QED BY <2>1, <1>2, SubSeqFull
<1>7. Seen \in Seq(Address) /\ Rest \in Seq(Address) /\ Seen \o Rest = Behind
  BY <1>4, <1>5, <1>6 DEF Seen, Rest, n
<1>8. /\ IsInjective(Seen) /\ IsInjective(Rest) /\ ToSet(Seen) \cap ToSet(Rest) = {}
      /\ ToSet(Behind) = ToSet(Seen) \cup ToSet(Rest)
  BY <1>2, <1>7, ConcatElements
<1>9. /\ Kept \in Seq(Address) /\ IsInjective(Kept)
      /\ ToSet(Kept) = {o \in ToSet(Seen) : ~Dead(o)}
  BY <1>7, <1>8, KeptElements DEF Kept
<1>10. Gone = {o \in ToSet(Seen) : Dead(o)}
  BY DEF Gone, FreedIn, ToSet
<1>11. Visited = Len(Behind) => Rest = <<>>
  BY <1>1, SubSeqEmpty DEF Rest
<1> QED BY <1>1, <1>7, <1>8, <1>9, <1>10, <1>11 DEF n

(* The list after a step, cut at its new cell.                             *)
LEMMA SweptList ==
    ASSUME SweepInv, sweep # Nil,
           NEW born \in Seq(Address), IsInjective(born), ToSet(born) \cap ToSet(all) = {},
           all' = born \o BeforeCell \o Kept \o Rest,
           sweep' = CellAfter(Visited, Kept)
    PROVE  /\ all' \in Seq(Address) /\ IsInjective(all') /\ Behind' = Rest
           /\ ToSet(BeforeCell') = ToSet(born) \cup ToSet(BeforeCell) \cup ToSet(Kept)
           /\ ToSet(all') = ToSet(BeforeCell') \cup ToSet(Rest)
           /\ Len(BeforeCell') = Len(born) + Len(BeforeCell) + Len(Kept)
           /\ sweep' = Nil \/ sweep' \in ToSet(all')
<1> DEFINE b == born \o BeforeCell  p == b \o Kept
<1>1. /\ BeforeCell \in Seq(Address) /\ Kept \in Seq(Address) /\ Rest \in Seq(Address)
      /\ IsInjective(BeforeCell) /\ IsInjective(Kept) /\ IsInjective(Rest)
      /\ BeforeCell # <<>> /\ Last(BeforeCell) = sweep
  BY Facts, Cut, Visit
<1>2. /\ ToSet(born) \cap ToSet(BeforeCell) = {}
      /\ (ToSet(born) \cup ToSet(BeforeCell)) \cap ToSet(Kept) = {}
      /\ (ToSet(born) \cup ToSet(BeforeCell) \cup ToSet(Kept)) \cap ToSet(Rest) = {}
  BY Facts, Cut, Visit
<1>3. /\ b \in Seq(Address) /\ IsInjective(b) /\ ToSet(b) = ToSet(born) \cup ToSet(BeforeCell)
      /\ Len(b) = Len(born) + Len(BeforeCell)
  BY <1>1, <1>2, ConcatElements, ConcatProperties
<1>4. b # <<>> /\ Last(b) = sweep
  BY <1>1, LastOfConcat
<1> HIDE DEF b
<1>5. /\ p \in Seq(Address) /\ IsInjective(p)
      /\ ToSet(p) = ToSet(born) \cup ToSet(BeforeCell) \cup ToSet(Kept)
      /\ Len(p) = Len(born) + Len(BeforeCell) + Len(Kept)
  <2>1. p \in Seq(Address) /\ Len(p) = Len(b) + Len(Kept)
    BY <1>1, <1>3, ConcatProperties
  <2>2. ToSet(p) = ToSet(b) \cup ToSet(Kept)
    BY <1>1, <1>3, ConcatElements
  <2>3. IsInjective(p)
    BY <1>1, <1>2, <1>3, ConcatElements
  <2> QED BY <2>1, <2>2, <2>3, <1>3
<1>6. p # <<>> /\ Last(p) = IF Kept = <<>> THEN sweep ELSE Last(Kept)
  BY <1>1, <1>3, <1>4, LastOfConcat
<1>7. all' = p \o Rest
  BY DEF b
<1> HIDE DEF p
<1>8. all' \in Seq(Address) /\ IsInjective(all') /\ ToSet(all') = ToSet(p) \cup ToSet(Rest)
  BY <1>1, <1>2, <1>5, <1>7, ConcatElements, ConcatProperties
<1>9. CASE Visited = Len(Behind)
  <2>1. sweep' = Nil
    BY <1>9 DEF CellAfter
  <2>2. Rest = <<>> /\ all' = p
    BY <1>5, <1>7, <1>9, Facts, Visit, ConcatEmptySeq
  <2>3. Behind' = <<>> /\ BeforeCell' = all'
    BY <2>1, <1>8, CutNowhere DEF Behind, BeforeCell
  <2> QED BY <2>1, <2>2, <2>3, <1>5, <1>8
<1>10. CASE Visited # Len(Behind)
  <2>1. sweep' = Last(p)
    BY <1>6, <1>10 DEF CellAfter
  <2>2. Last(p) \in ToSet(p)
    <3>1. Len(p) \in 1..Len(p) /\ DOMAIN p = 1..Len(p)
      BY <1>5, <1>6, EmptySeq, LenProperties
    <3> QED BY <3>1 DEF Last, ToSet
  <2>3. Last(p) # Nil
    <3>1. ToSet(p) \subseteq Address
      BY <1>5, LenProperties DEF ToSet
    <3> QED BY <3>1, <2>2, NilIsNoAddress
  <2>4. BehindIn(p \o Rest, Last(p)) = Rest /\ BeforeIn(p \o Rest, Last(p)) = p
    BY <2>3, <1>1, <1>5, <1>6, <1>7, <1>8, CutAfter
  <2>5. Behind' = Rest /\ BeforeCell' = p
    BY <2>1, <2>4, <1>7 DEF Behind, BeforeCell
  <2> QED BY <2>1, <2>2, <2>5, <1>5, <1>8
<1> QED BY <1>9, <1>10

(* A step of the sweep.                                                    *)
LEMMA SweepStepStep == ASSUME SweepInv, SweepStep PROVE SweepInv'
<1>1. /\ phase = "sweep" /\ sweep # Nil /\ UNCHANGED <<phase, currentwhite, gray>>
      /\ parked' = IF Gone \cap SweepMarks = {} THEN parked
                   ELSE CHOOSE m \in Gone \cap SweepMarks : TRUE
      /\ survivors' = survivors + Len(Kept)
      /\ sweep' = CellAfter(Visited, Kept)
  BY DEF SweepStep, Seen, Kept, Gone
<1>2. PICK born \in Births(Gone) :
         /\ all' = born \o BeforeCell \o Kept \o Rest
         /\ mark' = [o \in DOMAIN mark |->
                       IF o \in ToSet(Kept) \cup ToSet(born) THEN currentwhite
                       ELSE Freed(Gone)[o]]
         /\ debt' = debt - Cardinality(Gone) + Len(born)
         /\ fresh' = fresh + Len(born)
  BY DEF SweepStep, Seen, Kept, Gone, Rest
<1>3. /\ born \in Seq(Address) /\ IsInjective(born) /\ Len(born) \in Nat
      /\ \A o \in ToSet(born) : o \in Objects /\ mark[o] = "free"
  <2>1. CASE born = <<>>
    BY <2>1 DEF IsInjective, ToSet
  <2>2. CASE \E o \in Vacant(Objects) : born = <<o>>
    <3>1. PICK o \in Vacant(Objects) : born = <<o>>
      BY <2>2
    <3>2. o \in Objects /\ o \in Address /\ mark[o] = "free"
      BY DEF Vacant, Address
    <3> QED BY <3>1, <3>2 DEF IsInjective, ToSet
  <2> QED BY <2>1, <2>2 DEF Births
<1>4. \A o \in ToSet(born) : o \in Address /\ o \notin SweepMarks /\ o \notin ToSet(all)
  BY <1>3, ListHolds, ObjectsAssumption DEF Address
<1>5. /\ all' \in Seq(Address) /\ IsInjective(all') /\ Behind' = Rest
      /\ ToSet(BeforeCell') = ToSet(born) \cup ToSet(BeforeCell) \cup ToSet(Kept)
      /\ ToSet(all') = ToSet(BeforeCell') \cup ToSet(Rest)
      /\ Len(BeforeCell') = Len(born) + Len(BeforeCell) + Len(Kept)
      /\ sweep' = Nil \/ sweep' \in ToSet(all')
  <2>1. ToSet(born) \cap ToSet(all) = {}
    BY <1>4
  <2> QED BY <2>1, <1>1, <1>2, <1>3, SweptList
<1>6. /\ ToSet(all) = ToSet(BeforeCell) \cup ToSet(Kept) \cup Gone \cup ToSet(Rest)
      /\ ToSet(all) \subseteq Address
      /\ Gone \cap (ToSet(BeforeCell) \cup ToSet(Kept) \cup ToSet(Rest)) = {}
      /\ ToSet(Rest) \cap (ToSet(BeforeCell) \cup ToSet(Kept)) = {}
      /\ \A o \in Gone : Dead(o) /\ mark[o] \notin {"free", "parked"}
      /\ \A o \in ToSet(Kept) : ~Dead(o)
  BY Facts, Cut, Visit, ListHolds
<1>7. Gone \cap SweepMarks # {} => parked = Nil
  BY <1>6, Facts DEF MarksInOrder
<1>8. \A o \in Address : mark'[o] =
         IF o \in ToSet(Kept) \cup ToSet(born) THEN currentwhite
         ELSE IF o \in Gone THEN IF o \in SweepMarks THEN "parked" ELSE "free"
         ELSE mark[o]
  <2>1. \A o \in Address : Freed(Gone)[o] =
           IF o \in Gone THEN IF o \in SweepMarks THEN "parked" ELSE "free" ELSE mark[o]
    BY <1>7, Facts, NilIsNoAddress DEF Freed
  <2>2. \A o \in Address : mark'[o] =
           IF o \in ToSet(Kept) \cup ToSet(born) THEN currentwhite ELSE Freed(Gone)[o]
    BY <1>2, Facts
  <2> QED BY <2>1, <2>2
<1>9. mark' \in [Address -> Colours]
  <2>1. \A o \in Address : mark'[o] \in Colours
    BY <1>8, Facts DEF Colours
  <2>2. mark' = [o \in Address |-> mark'[o]]
    BY <1>2, Facts
  <2> QED BY <2>1, <2>2
<1>10. currentwhite \notin {"free", "parked", "marked"}
  BY Facts DEF Whites
<1>11. ListExact'
  <2>1. ToSet(all') = {o \in DOMAIN mark' : mark'[o] \notin {"free", "parked"}}
    BY <1>3, <1>4, <1>5, <1>6, <1>8, <1>9, <1>10, ListHolds
  <2>2. sweep' # Nil => phase' = "sweep" /\ sweep' \in ToSet(all')
    BY <1>1, <1>5
  <2> QED BY <2>1, <2>2, <1>5 DEF ListExact
<1>12. MarksInOrder' /\ parked' \in SweepMarks \cup {Nil}
  <2> DEFINE linked == {x \in SweepMarks : mark[x] \notin {"free", "parked"}}
  <2>1. \A x \in SweepMarks : x \in Address /\ x \notin ToSet(born)
    BY <1>4 DEF Address
  <2>2. \A x \in SweepMarks \cap ToSet(Kept) :
           mark[x] = currentwhite /\ mark'[x] = currentwhite
    <3>1. \A x \in SweepMarks \cap ToSet(Kept) : mark[x] \notin {"free", "parked", "marked"} /\ ~Dead(x)
      BY <2>1, <1>6, Facts, ListHolds DEF MarksInOrder
    <3> QED BY <3>1, <2>1, <1>8, Facts DEF Dead, Colours, Whites
  <2>3. \A x \in SweepMarks \cap Gone : mark'[x] = "parked" /\ x \in linked /\ Dead(x)
    BY <2>1, <1>6, <1>8
  <2>4. \A x \in SweepMarks \ Gone : mark'[x] = mark[x]
    BY <2>1, <2>2, <1>8
  <2>5. \A x \in SweepMarks : mark'[x] # "marked"
    BY <2>3, <2>4, Facts DEF MarksInOrder
  <2>6. {x \in SweepMarks : mark'[x] \notin {"free", "parked"}} = linked \ Gone
    BY <2>3, <2>4
  <2>7. \A x, y \in linked \ Gone : mark'[x] = mark'[y] => x = y
    BY <2>4, Facts DEF MarksInOrder
  <2>8. CASE Gone \cap SweepMarks = {}
    <3>1. parked' = parked /\ parked' \in SweepMarks \cup {Nil}
      BY <2>8, <1>1, Facts DEF TypeOK
    <3>2. \A x \in SweepMarks : mark'[x] = mark[x]
      BY <2>4, <2>8
    <3>3. \A x \in linked \ Gone : Dead(x)' = Dead(x)
      BY <3>2, <1>1 DEF Dead
    <3>4. {x \in SweepMarks : mark'[x] = "parked"} = {parked'} \ {Nil}
      BY <3>1, <3>2, Facts DEF MarksInOrder
    <3>5. parked' # Nil => \A x \in linked \ Gone : ~Dead(x)'
      BY <3>1, <3>3, Facts DEF MarksInOrder
    <3> HIDE DEF linked
    <3> QED BY <3>1, <3>4, <3>5, <2>5, <2>6, <2>7, <1>1 DEF MarksInOrder
  <2>9. CASE Gone \cap SweepMarks # {}
    <3>1. parked' \in Gone \cap SweepMarks /\ parked = Nil /\ parked' # Nil
      BY <2>9, <2>1, <1>1, <1>7, NilIsNoAddress
    <3>2. \A x \in linked : Dead(x) => x = parked'
      BY <3>1, <2>3, Facts DEF MarksInOrder, Dead
    <3>3. \A x \in linked \ Gone : ~Dead(x)'
      BY <3>1, <3>2, <2>4, <1>1 DEF Dead
    <3>4. {x \in SweepMarks : mark'[x] = "parked"} = {parked'} \ {Nil}
      <4>1. \A x \in SweepMarks : mark[x] # "parked"
        BY <3>1, Facts DEF MarksInOrder
      <4>2. \A x \in SweepMarks : mark'[x] = "parked" <=> x = parked'
        BY <4>1, <3>1, <3>2, <2>3, <2>4
      <4> QED BY <4>2, <3>1
    <3> HIDE DEF linked
    <3> QED BY <3>1, <3>3, <3>4, <2>5, <2>6, <2>7 DEF MarksInOrder
  <2> QED BY <2>8, <2>9
<1>13. /\ DeadBehind' = DeadBehind \ Gone /\ Gone \in SUBSET DeadBehind
  <2>1. \A o \in ToSet(Rest) : o \in Address /\ mark'[o] = mark[o]
    BY <1>4, <1>6, <1>8
  <2>2. DeadBehind' = {o \in ToSet(Rest) : Dead(o)}
    BY <2>1, <1>1, <1>5 DEF DeadBehind, Dead
  <2>3. /\ ToSet(Behind) = ToSet(Seen) \cup ToSet(Rest)
        /\ Gone = {o \in ToSet(Seen) : Dead(o)} /\ ToSet(Seen) \cap ToSet(Rest) = {}
    BY Facts, Visit
  <2> QED BY <2>2, <2>3 DEF DeadBehind
<1>14. /\ Cardinality(DeadBehind') = Cardinality(DeadBehind) - Cardinality(Gone)
       /\ Cardinality(DeadBehind) \in Nat /\ Cardinality(Gone) \in Nat
       /\ Cardinality(DeadBehind') \in Nat
  <2>1. IsFiniteSet(DeadBehind) /\ Cardinality(DeadBehind) \in Nat
    BY Facts, DeadCount
  <2>2. DeadBehind \cap Gone = Gone
    BY <1>13
  <2>3. IsFiniteSet(Gone) /\ IsFiniteSet(DeadBehind \ Gone)
    BY <2>1, <1>13, FS_Subset, FS_Difference
  <2>4. Cardinality(DeadBehind \ Gone) = Cardinality(DeadBehind) - Cardinality(DeadBehind \cap Gone)
    BY <2>1, FS_Difference
  <2> QED BY <2>1, <2>2, <2>3, <2>4, <1>13, FS_CardinalityType
<1>15. /\ debt >= Cardinality(DeadBehind)
       /\ debt + survivors >= Len(BeforeCell) + Cardinality(DeadBehind)
  BY <1>1, Facts DEF Covered
<1>16. Len(Kept) \in Nat /\ Len(BeforeCell) \in Nat
  BY Facts, Visit, Counts, LenProperties
<1>17. /\ debt' >= Cardinality(DeadBehind') /\ debt' \in Nat /\ survivors' \in Nat /\ fresh' \in Nat
       /\ debt' + survivors' >= Len(BeforeCell') + Cardinality(DeadBehind')
  <2>1. /\ debt' = debt - Cardinality(Gone) + Len(born) /\ fresh' = fresh + Len(born)
        /\ survivors' = survivors + Len(Kept) /\ Len(born) \in Nat
        /\ Len(BeforeCell') = Len(born) + Len(BeforeCell) + Len(Kept)
        /\ debt \in Nat /\ survivors \in Nat /\ fresh \in Nat
    BY <1>1, <1>2, <1>3, <1>5, Facts
  <2> DEFINE c == Cardinality(DeadBehind)  g == Cardinality(Gone)
             d == Cardinality(DeadBehind')  l == Len(born)  k == Len(Kept)
             f == Len(BeforeCell)
  <2>2. /\ c \in Nat /\ g \in Nat /\ d \in Nat /\ l \in Nat /\ k \in Nat /\ f \in Nat
        /\ d = c - g /\ debt >= c /\ debt + survivors >= f + c
        /\ debt' = debt - g + l /\ fresh' = fresh + l /\ survivors' = survivors + k
        /\ Len(BeforeCell') = l + f + k
    BY <2>1, <1>14, <1>15, <1>16
  <2> HIDE DEF c, g, d, l, k, f
  <2>3. debt' >= d /\ debt' \in Nat /\ survivors' \in Nat /\ fresh' \in Nat
    BY <2>1, <2>2
  <2>4. debt' + survivors' >= l + f + k + d
    BY <2>1, <2>2
  <2> QED BY <2>2, <2>3, <2>4 DEF d
<1>18. TypeOK'
  <2>1. sweep' \in Address \cup {Nil}
    <3>1. ToSet(all') \subseteq Address
      BY <1>5, LenProperties DEF ToSet
    <3> QED BY <3>1, <1>5
  <2> QED BY <2>1, <1>1, <1>5, <1>9, <1>12, <1>17, Facts DEF TypeOK, Address, Colours
<1>19. GrayMarked'
  BY <1>1, Facts DEF GrayMarked
<1>20. WhiteBeforeCell'
  <2>1. \A o \in ToSet(BeforeCell) : o \in Address /\ o \notin Gone /\ mark[o] = currentwhite
    BY <1>1, <1>6, Facts DEF WhiteBeforeCell
  <2>2. \A o \in ToSet(born) \cup ToSet(BeforeCell) \cup ToSet(Kept) : mark'[o] = currentwhite
    BY <2>1, <1>4, <1>6, <1>8
  <2> QED BY <2>2, <1>1, <1>5 DEF WhiteBeforeCell
<1>21. Covered'
  BY <1>1, <1>17 DEF Covered
<1> QED BY <1>11, <1>12, <1>18, <1>19, <1>20, <1>21, CoveredIsNext DEF SweepInv

-----------------------------------------------------------------------------
(* The theorems.                                                           *)

(* The first state.                                                        *)
LEMMA InitHolds == ASSUME Init PROVE SweepInv
<1>1. Behind = <<>> /\ BeforeCell = <<>>
  <2>1. <<>> \in Seq(Address)
    OBVIOUS
  <2> QED BY <2>1, CutNowhere DEF Init, Behind, BeforeCell
<1>2. TypeOK
  BY DEF Init, TypeOK, Whites
<1>3. ListExact
  BY DEF Init, ListExact, IsInjective, ToSet
<1>4. WhiteBeforeCell
  BY <1>1 DEF WhiteBeforeCell, ToSet
<1>5. Covered
  BY <1>1 DEF Init, Covered
<1>6. GrayMarked
  BY DEF Init, GrayMarked
<1>7. MarksInOrder
  <2>1. \A m \in SweepMarks : mark[m] = "free"
    BY DEF Init
  <2> QED BY <2>1, ObjectsAssumption DEF Init, MarksInOrder
<1> QED BY <1>2, <1>3, <1>4, <1>5, <1>6, <1>7, CoveredIs DEF SweepInv

(* Any step.                                                               *)
LEMMA StepHolds == ASSUME SweepInv, [Next]_vars PROVE SweepInv'
<1>1. CASE StartCycle
  BY <1>1, StartCycleStep
<1>2. CASE \E o \in gray : MarkOneGray(o)
  BY <1>2, MarkOneGrayStep
<1>3. CASE GrayEmpty
  BY <1>3, GrayEmptyStep
<1>4. CASE Flip
  BY <1>4, FlipStep
<1>5. CASE SweepStep
  BY <1>5, SweepStepStep
<1>6. CASE SweepDone
  BY <1>6, SweepDoneStep
<1>7. ASSUME NEW o \in Objects, Alloc(o) \/ Barrier(o) \/ Resurrect(o) PROVE SweepInv'
  BY <1>7, AllocStep, BarrierStep, ResurrectStep
<1>8. CASE UNCHANGED vars
  <2>1. SweepInv' = SweepInv
    BY <1>8 DEF vars, SweepInv, TypeOK, ListExact, WhiteBeforeCell, DebtCovers, GrayMarked,
                MarksInOrder, Behind, BeforeCell, Dead, IsWhite
  <2> QED BY <2>1
<1> QED BY <1>1, <1>2, <1>3, <1>4, <1>5, <1>6, <1>7, <1>8 DEF Next, Collect

(* The inductive invariant of the list, the sweep and the counters, for    *)
(* any number of objects and any size of a batch (Gc::alloc, Gc::step,     *)
(* Gc::sweep, Gc::free).                                                   *)
THEOREM Invariant == Spec => []SweepInv
<1>1. Init => SweepInv
  BY InitHolds
<1>2. SweepInv /\ [Next]_vars => SweepInv'
  BY StepHolds
<1> QED BY <1>1, <1>2, PTL DEF Spec

(* Every step of Gc keeps the fields of the collector in their types; the  *)
(* counters, which are unsigned in the code, never go below zero.          *)
THEOREM TypeCorrect == Spec => []TypeOK
<1>1. SweepInv => TypeOK
  BY DEF SweepInv
<1> QED BY <1>1, Invariant, PTL

(* Gc.all is exactly the list of the allocated objects, each once, and the *)
(* cell of Gc.sweep is in one of them, however allocations from a Drop,    *)
(* resurrections and stores come between the batches of a sweep.           *)
THEOREM ListStaysExact == Spec => []ListExact
<1>1. SweepInv => ListExact
  BY DEF SweepInv
<1> QED BY <1>1, Invariant, PTL

(* What is before the cell has the current white, so that nothing born     *)
(* during a sweep is taken for dead in this cycle or in the next.          *)
THEOREM WhiteStaysBefore == Spec => []WhiteBeforeCell
<1>1. SweepInv => WhiteBeforeCell
  BY DEF SweepInv
<1> QED BY <1>1, Invariant, PTL

(* Every strict_sub of gc/mod.rs has something to subtract from: debt      *)
(* covers what the rest of the cycle will subtract.                        *)
THEOREM DebtAlwaysCovers == Spec => []DebtCovers
<1>1. SweepInv => DebtCovers
  BY DEF SweepInv
<1> QED BY <1>1, Invariant, PTL

(* The sweep marks in use are at most two, whatever the number of cycles:  *)
(* Gc::free gives each one back or parks it for the next flip.             *)
THEOREM MarksStayFew == Spec => []MarksRecycled
<1>1. SweepInv => MarksRecycled
  <2>1. SUFFICES ASSUME SweepInv PROVE MarksRecycled
    OBVIOUS
  <2> DEFINE linked == {m \in SweepMarks : mark[m] \notin {"free", "parked"}}
             used == {m \in SweepMarks : mark[m] # "free"}
  <2>2. \A m \in linked : mark[m] \in {currentwhite, Other(currentwhite)}
    <3>1. \A m \in linked : mark[m] \in Colours /\ mark[m] # "marked"
      BY <2>1, Facts DEF MarksInOrder, Address
    <3> QED BY <3>1, <2>1, Facts DEF Colours, Whites, Other
  <2>3. \A m, k \in linked : mark[m] = mark[k] => m = k
    BY <2>1, Facts DEF MarksInOrder
  <2>4. \A m \in SweepMarks : mark[m] = "parked" <=> m = parked /\ parked # Nil
    BY <2>1, Facts DEF MarksInOrder
  <2>5. parked # Nil => \A m \in linked : mark[m] = currentwhite
    BY <2>1, <2>2, Facts DEF MarksInOrder, Dead
  <2>6. \E x, y : used \subseteq {x, y}
    <3>1. CASE parked # Nil
      <4>1. \A m, k \in linked : m = k
        BY <3>1, <2>3, <2>5
      <4>2. \A m \in used : m = parked \/ m \in linked
        BY <2>4
      <4>3. CASE linked = {}
        BY <4>2, <4>3
      <4>4. CASE linked # {}
        <5>1. PICK x \in linked : TRUE
          BY <4>4
        <5>2. used \subseteq {x, parked}
          BY <4>1, <4>2, <5>1
        <5> QED BY <5>2
      <4> QED BY <4>3, <4>4
    <3>2. CASE parked = Nil
      <4>1. used \subseteq linked
        BY <3>2, <2>4
      <4> DEFINE x == CHOOSE m \in linked : mark[m] = currentwhite
                 y == CHOOSE m \in linked : mark[m] = Other(currentwhite)
      <4>2. \A m \in linked : m = x \/ m = y
        BY <2>2, <2>3
      <4>3. used \subseteq {x, y}
        BY <4>1, <4>2
      <4> QED BY <4>3
    <3> QED BY <3>1, <3>2
  <2>7. Cardinality(used) <= 2
    <3>1. PICK x, y : used \subseteq {x, y}
      BY <2>6
    <3>2. IsFiniteSet({x}) /\ Cardinality({x}) = 1
      BY FS_Singleton
    <3>3. IsFiniteSet({x} \cup {y}) /\ Cardinality({x} \cup {y}) <= 2
      BY <3>2, FS_AddElement
    <3>4. used \in SUBSET ({x} \cup {y})
      BY <3>1
    <3> HIDE DEF used
    <3>5. /\ Cardinality(used) <= Cardinality({x} \cup {y}) /\ Cardinality(used) \in Nat
          /\ Cardinality({x} \cup {y}) \in Nat
      BY <3>3, <3>4, FS_Subset, FS_CardinalityType
    <3> QED BY <3>3, <3>5
  <2> QED BY <2>1, <2>7, Facts DEF MarksRecycled, MarksInOrder
<1> QED BY <1>1, Invariant, PTL
==========================================================================
