---------------------------- MODULE TableProofs ----------------------------
(***************************************************************************)
(* Theorems about Table, for any keys, hashes, values and sizes.           *)
(*                                                                         *)
(* The proof goes from the bottom up. The functions that the model defines *)
(* by recursion exist, because a measure descends (Recursion). Chained     *)
(* says of the nodes that they form chains, by a number for each chain and *)
(* a rank for each node in it, which hide the order of the vector; moving  *)
(* an entry out of the way only renames two nodes. Holds says what a table *)
(* holds whether the array or a node has it, and every operation is a fact *)
(* about Holds. The invariant Inv ties that to the history variables.      *)
(***************************************************************************)
EXTENDS Table, FiniteSetTheorems, SequenceTheorems, NaturalsInduction, TLAPS

-----------------------------------------------------------------------------
(* Recursion.                                                              *)

(* A nonempty set of numbers has a least one.                              *)
LEMMA Least ==
    ASSUME NEW T \in SUBSET Nat, T # {}
    PROVE  \E x \in T : \A y \in T : x <= y
<1>1. PICK x \in T : \A y \in T : ~ (<<y, x>> \in OpToRel(<, Nat))
  BY WFMin, NatLessThanWellFounded
<1>2. ASSUME NEW y \in T, y < x PROVE FALSE
  <2>1. <<y, x>> \in Nat \X Nat /\ <<y, x>>[1] < <<y, x>>[2]
    BY <1>2
  <2>2. <<y, x>> \in OpToRel(<, Nat)
    BY <2>1, Zenon DEF OpToRel
  <2> QED BY <1>1, <2>2
<1> QED BY <1>2

(* f solves the equation F at every point of D of a measure below n.       *)
Solves(D, V, m, F, f, n) ==
    /\ f \in [D -> V]
    /\ \A x \in D : m[x] < n => f[x] = F[<<x, f>>]

Solution(D, V, F, f) == f \in [D -> V] /\ \A x \in D : f[x] = F[<<x, f>>]

(* F at x looks at its second argument where the measure is smaller only.  *)
Descends(D, V, m, F) ==
    \A x \in D : \A f, g \in [D -> V] :
        (\A y \in D : m[y] < m[x] => f[y] = g[y]) => F[<<x, f>>] = F[<<x, g>>]

(* Two solutions agree as far as both go.                                  *)
LEMMA SolvesOnce ==
    ASSUME NEW D, NEW V, NEW m \in [D -> Nat], NEW F, Descends(D, V, m, F),
           NEW f, NEW g, NEW i \in Nat, NEW j \in Nat, i <= j,
           Solves(D, V, m, F, f, i), Solves(D, V, m, F, g, j)
    PROVE  \A x \in D : m[x] < i => f[x] = g[x]
<1> DEFINE Bad == {m[x] : x \in {y \in D : m[y] < i /\ f[y] # g[y]}}
<1>1. SUFFICES ASSUME Bad # {} PROVE FALSE
  OBVIOUS
<1>2. PICK n \in Bad : \A k \in Bad : n <= k
  <2>1. Bad \in SUBSET Nat
    OBVIOUS
  <2> HIDE DEF Bad
  <2> QED BY <1>1, <2>1, Least
<1>3. PICK x \in D : m[x] = n /\ m[x] < i /\ f[x] # g[x]
  BY <1>2
<1>4. \A y \in D : m[y] < m[x] => f[y] = g[y]
  <2> TAKE y \in D
  <2> HAVE m[y] < m[x]
  <2>1. m[y] \in Nat /\ m[x] \in Nat /\ m[y] < i
    BY <1>3
  <2>2. m[y] \notin Bad
    BY <2>1, <1>2, <1>3
  <2> QED BY <2>1, <2>2
<1>5. F[<<x, f>>] = F[<<x, g>>]
  BY <1>4, Zenon DEF Solves, Descends
<1>6. m[x] < j
  BY <1>3
<1> QED BY <1>3, <1>5, <1>6, Zenon DEF Solves

(* There is a solution up to every measure.                                *)
LEMMA SolvesUpTo ==
    ASSUME NEW D, NEW V, NEW v \in V, NEW m \in [D -> Nat],
           NEW F \in [D \X [D -> V] -> V], Descends(D, V, m, F), NEW n \in Nat
    PROVE  \E f : Solves(D, V, m, F, f, n)
<1> DEFINE Bad == {k \in Nat : ~ \E f : Solves(D, V, m, F, f, k)}
<1>1. SUFFICES ASSUME Bad # {} PROVE FALSE
  OBVIOUS
<1>2. PICK k \in Bad : \A i \in Bad : k <= i
  <2>1. Bad \in SUBSET Nat
    OBVIOUS
  <2> HIDE DEF Bad
  <2> QED BY <1>1, <2>1, Least
<1>3. k # 0
  <2> DEFINE f == [x \in D |-> v]
  <2>1. Solves(D, V, m, F, f, 0)
    BY DEF Solves
  <2> QED BY <2>1, <1>2
<1>4. PICK f : Solves(D, V, m, F, f, k - 1)
  BY <1>2, <1>3
<1> DEFINE g == [x \in D |-> IF m[x] = k - 1 THEN F[<<x, f>>] ELSE f[x]]
<1>5. f \in [D -> V] /\ \A x \in D : m[x] < k - 1 => f[x] = F[<<x, f>>]
  BY <1>4, Zenon DEF Solves
<1>6. g \in [D -> V]
  BY <1>5
<1>7. ASSUME NEW x \in D, m[x] < k PROVE g[x] = F[<<x, g>>]
  <2>1. \A y \in D : m[y] < m[x] => f[y] = g[y]
    BY <1>7, <1>2, <1>3
  <2>2. F[<<x, f>>] = F[<<x, g>>]
    BY <2>1, <1>5, <1>6, Zenon DEF Descends
  <2>3. CASE m[x] = k - 1
    BY <2>2, <2>3
  <2>4. CASE m[x] # k - 1
    <3>1. m[x] < k - 1
      BY <1>7, <2>4, <1>2
    <3> QED BY <3>1, <2>4, <2>2, <1>5
  <2> QED BY <2>3, <2>4
<1>8. Solves(D, V, m, F, g, k)
  BY <1>6, <1>7, Zenon DEF Solves
<1> QED BY <1>8, <1>2

(* A recursive function exists if every step of the recursion makes some   *)
(* measure smaller.                                                        *)
LEMMA RecursionExists ==
    ASSUME NEW D, NEW V, NEW v \in V, NEW m \in [D -> Nat],
           NEW F \in [D \X [D -> V] -> V], Descends(D, V, m, F)
    PROVE  \E f : Solution(D, V, F, f)
<1> DEFINE upto(n) == CHOOSE f : Solves(D, V, m, F, f, n)
           g == [x \in D |-> upto(m[x] + 1)[x]]
<1>1. \A n \in Nat : Solves(D, V, m, F, upto(n), n)
  <2> TAKE n \in Nat
  <2>1. \E f : Solves(D, V, m, F, f, n)
    BY SolvesUpTo
  <2> QED BY <2>1
<1> HIDE DEF upto
<1>2. \A n \in Nat : upto(n) \in [D -> V]
  BY <1>1, Zenon DEF Solves
<1>3. g \in [D -> V]
  BY <1>2
<1>4. ASSUME NEW x \in D PROVE g[x] = F[<<x, g>>]
  <2> DEFINE f == upto(m[x] + 1)
  <2>1. m[x] \in Nat /\ m[x] + 1 \in Nat /\ m[x] < m[x] + 1
    OBVIOUS
  <2>2. f \in [D -> V] /\ f[x] = F[<<x, f>>]
    BY <2>1, <1>1, Zenon DEF Solves
  <2>3. ASSUME NEW y \in D, m[y] < m[x] PROVE f[y] = g[y]
    <3>1. m[y] \in Nat /\ m[y] + 1 \in Nat /\ m[y] < m[y] + 1 /\ m[y] + 1 <= m[x] + 1
      BY <2>1, <2>3
    <3>2. Solves(D, V, m, F, upto(m[y] + 1), m[y] + 1) /\ Solves(D, V, m, F, f, m[x] + 1)
      BY <3>1, <2>1, <1>1
    <3> HIDE DEF f
    <3>3. upto(m[y] + 1)[y] = f[y]
      BY <3>1, <3>2, <2>1, SolvesOnce
    <3> QED BY <3>3
  <2>4. F[<<x, f>>] = F[<<x, g>>]
    <3> HIDE DEF f, g
    <3> QED BY <2>2, <2>3, <1>3, Zenon DEF Descends
  <2>5. g[x] = f[x]
    OBVIOUS
  <2> QED BY <2>2, <2>4, <2>5
<1> HIDE DEF g
<1>5. Solution(D, V, F, g)
  BY <1>3, <1>4, Zenon DEF Solution
<1> QED BY <1>5

(* The powers of two.                                                      *)
LEMMA RoundUpExists ==
    /\ RoundUp \in [Nat -> Nat]
    /\ \A n \in Nat : RoundUp[n] = IF n <= 1 THEN 1 ELSE 2 * RoundUp[(n + 1) \div 2]
<1> DEFINE Step(f, n) == IF n <= 1 THEN 1 ELSE 2 * f[(n + 1) \div 2]
           m == [n \in Nat |-> n]
           F == [p \in Nat \X [Nat -> Nat] |-> Step(p[2], p[1])]
<1>0. \A n \in Nat : n > 1 => (n + 1) \div 2 \in Nat /\ (n + 1) \div 2 < n
  OBVIOUS
<1>1. F \in [Nat \X [Nat -> Nat] -> Nat]
  <2>1. \A f \in [Nat -> Nat], n \in Nat : Step(f, n) \in Nat
    BY <1>0
  <2> HIDE DEF Step
  <2> QED BY <2>1
<1>2. Descends(Nat, Nat, m, F)
  <2>1. ASSUME NEW n \in Nat, NEW f \in [Nat -> Nat], NEW g \in [Nat -> Nat],
               \A y \in Nat : m[y] < m[n] => f[y] = g[y]
        PROVE  F[<<n, f>>] = F[<<n, g>>]
    <3>1. Step(f, n) = Step(g, n)
      BY <2>1, <1>0
    <3> HIDE DEF Step
    <3> QED BY <3>1
  <2> QED BY <2>1, Zenon DEF Descends
<1>3. m \in [Nat -> Nat]
  OBVIOUS
<1>4. PICK f : Solution(Nat, Nat, F, f)
  <2> HIDE DEF m, F
  <2>1. 0 \in Nat
    OBVIOUS
  <2> QED BY <2>1, <1>1, <1>2, <1>3, RecursionExists, Zenon
<1>5. f \in [Nat -> Nat] /\ \A n \in Nat : f[n] = F[<<n, f>>]
  BY <1>4, Zenon DEF Solution
<1>6. f = [n \in Nat |-> IF n <= 1 THEN 1 ELSE 2 * f[(n + 1) \div 2]]
  BY <1>5
<1>7. RoundUp = [n \in Nat |-> IF n <= 1 THEN 1 ELSE 2 * RoundUp[(n + 1) \div 2]]
  BY <1>6 DEF RoundUp
<1>8. \A n \in Nat : RoundUp[n] = Step(RoundUp, n)
  BY <1>7
<1> DEFINE Bad == {n \in Nat : RoundUp[n] \notin Nat}
<1>9. Bad = {}
  <2>1. SUFFICES ASSUME Bad # {} PROVE FALSE
    OBVIOUS
  <2>2. PICK x \in Bad : \A y \in Bad : x <= y
    <3>1. Bad \in SUBSET Nat
      OBVIOUS
    <3> HIDE DEF Bad
    <3> QED BY <2>1, <3>1, Least
  <2>3. x > 1
    BY <1>8, <2>2
  <2>4. (x + 1) \div 2 \in Nat /\ (x + 1) \div 2 < x
    BY <2>3
  <2>5. RoundUp[(x + 1) \div 2] \in Nat
    BY <2>4, <2>2
  <2> QED BY <2>5, <2>3, <2>2, <1>8
<1> QED BY <1>7, <1>8, <1>9

(* The bits of a number without those of another one.                      *)
LEMMA WithoutExists ==
    \A x, y \in Nat :
        /\ Without[<<x, y>>] \in Nat
        /\ Without[<<x, y>>] =
              IF x = 0 THEN 0
              ELSE 2 * Without[<<x \div 2, y \div 2>>] + (IF x % 2 = 1 /\ y % 2 = 0 THEN 1 ELSE 0)
<1> DEFINE D == Nat \X Nat
           bit(p) == IF p[1] % 2 = 1 /\ p[2] % 2 = 0 THEN 1 ELSE 0
           half(p) == <<p[1] \div 2, p[2] \div 2>>
           Step(f, p) == IF p[1] = 0 THEN 0 ELSE 2 * f[half(p)] + bit(p)
           m == [p \in D |-> p[1]]
           F == [q \in D \X [D -> Nat] |-> Step(q[2], q[1])]
<1>0. ASSUME NEW p \in D
      PROVE  /\ p[1] \in Nat /\ p[2] \in Nat /\ p = <<p[1], p[2]>> /\ bit(p) \in Nat
             /\ half(p) \in D /\ half(p)[1] \in Nat
             /\ p[1] # 0 => half(p)[1] < p[1]
  <2>1. /\ p[1] \in Nat /\ p[2] \in Nat /\ p = <<p[1], p[2]>>
    OBVIOUS
  <2>2. p[1] \div 2 \in Nat /\ p[2] \div 2 \in Nat /\ (p[1] # 0 => p[1] \div 2 < p[1])
    BY <2>1
  <2> QED BY <2>1, <2>2
<1>1. F \in [D \X [D -> Nat] -> Nat]
  <2>1. \A f \in [D -> Nat], p \in D : Step(f, p) \in Nat
    <3> TAKE f \in [D -> Nat], p \in D
    <3> HIDE DEF bit, half, D
    <3>1. f[half(p)] \in Nat /\ bit(p) \in Nat
      BY <1>0
    <3> QED BY <3>1
  <2> HIDE DEF Step, D
  <2> QED BY <2>1
<1>2. Descends(D, Nat, m, F)
  <2>1. ASSUME NEW p \in D, NEW f \in [D -> Nat], NEW g \in [D -> Nat],
               \A y \in D : m[y] < m[p] => f[y] = g[y]
        PROVE  F[<<p, f>>] = F[<<p, g>>]
    <3>1. p[1] # 0 => f[half(p)] = g[half(p)]
      <4> HIDE DEF half, D
      <4>1. half(p) \in D /\ m[half(p)] = half(p)[1] /\ m[p] = p[1]
        BY <1>0
      <4> HIDE DEF m
      <4> QED BY <4>1, <1>0, <2>1
    <3> HIDE DEF bit, half, D
    <3>2. Step(f, p) = Step(g, p)
      BY <3>1
    <3> HIDE DEF Step
    <3> QED BY <3>2
  <2> HIDE DEF F, m, D
  <2> QED BY <2>1, Zenon DEF Descends
<1>3. m \in [D -> Nat]
  BY <1>0
<1>4. PICK f : Solution(D, Nat, F, f)
  <2> HIDE DEF m, F, D
  <2>1. 0 \in Nat
    OBVIOUS
  <2> QED BY <2>1, <1>1, <1>2, <1>3, RecursionExists, Zenon
<1>5. f \in [D -> Nat] /\ \A p \in D : f[p] = F[<<p, f>>]
  BY <1>4, Zenon DEF Solution
<1>6. f = [p \in D |-> Step(f, p)]
  <2> HIDE DEF Step, D
  <2> QED BY <1>5
<1>7. Without = [p \in D |-> Step(Without, p)]
  BY <1>6, Zenon DEF Without
<1>8. \A p \in D : Without[p] = Step(Without, p)
  <2> HIDE DEF Step, D
  <2> QED BY <1>7
<1> DEFINE Bad == {p[1] : p \in {q \in D : Without[q] \notin Nat}}
<1>9. Bad = {}
  <2>1. SUFFICES ASSUME Bad # {} PROVE FALSE
    OBVIOUS
  <2>2. PICK x \in Bad : \A y \in Bad : x <= y
    <3>1. Bad \in SUBSET Nat
      BY <1>0
    <3> HIDE DEF Bad
    <3> QED BY <2>1, <3>1, Least
  <2>3. PICK p \in D : Without[p] \notin Nat /\ p[1] = x
    BY <2>2
  <2> HIDE DEF half, D, bit
  <2>4. p[1] # 0
    BY <2>3, <1>8
  <2>5. half(p) \in D /\ half(p)[1] < p[1] /\ half(p)[1] \in Nat /\ p[1] \in Nat
    BY <2>4, <1>0
  <2>6. Without[half(p)] \in Nat
    BY <2>5, <2>2, <2>3
  <2>7. Without[p] = 2 * Without[half(p)] + bit(p)
    BY <2>4, <1>8
  <2>8. bit(p) \in Nat
    BY <1>0
  <2> QED BY <2>6, <2>3, <2>7, <2>8
<1>10. ASSUME NEW x \in Nat, NEW y \in Nat
       PROVE  /\ Without[<<x, y>>] \in Nat
              /\ Without[<<x, y>>] =
                    IF x = 0 THEN 0
                    ELSE 2 * Without[<<x \div 2, y \div 2>>] + (IF x % 2 = 1 /\ y % 2 = 0 THEN 1 ELSE 0)
  <2>1. <<x, y>> \in D /\ <<x, y>>[1] = x /\ <<x, y>>[2] = y
    OBVIOUS
  <2>2. Without[<<x, y>>] \in Nat
    BY <2>1, <1>9
  <2>3. Without[<<x, y>>] = Step(Without, <<x, y>>)
    BY <2>1, <1>8, Zenon
  <2> QED BY <2>1, <2>2, <2>3
<1> QED BY <1>10

(* What RoundUp returns is the least power of two that is not below n.     *)
LEMMA RoundUpBounds ==
    ASSUME NEW n \in Nat
    PROVE  /\ RoundUp[n] \in Nat \ {0} /\ n <= RoundUp[n] /\ RoundUp[n] <= 2 * n + 1
           /\ n > 0 => RoundUp[n] < 2 * n
           /\ RoundUp[RoundUp[n]] = RoundUp[n]
<1> DEFINE Good(i) == /\ RoundUp[i] \in Nat \ {0} /\ i <= RoundUp[i] /\ RoundUp[i] <= 2 * i + 1
                      /\ i > 0 => RoundUp[i] < 2 * i
                      /\ RoundUp[RoundUp[i]] = RoundUp[i]
           Bad == {i \in Nat : ~Good(i)}
<1>1. SUFFICES Bad = {}
  OBVIOUS
<1>2. SUFFICES ASSUME Bad # {} PROVE FALSE
  OBVIOUS
<1>3. PICK x \in Bad : \A y \in Bad : x <= y
  <2>1. Bad \in SUBSET Nat
    OBVIOUS
  <2> HIDE DEF Bad
  <2> QED BY <1>2, <2>1, Least
<1>4. CASE x <= 1
  <2>1. RoundUp[x] = 1 /\ RoundUp[1] = 1
    BY <1>4, RoundUpExists
  <2> QED BY <2>1, <1>4, <1>3
<1>5. CASE x > 1
  <2> DEFINE h == (x + 1) \div 2  q == RoundUp[h]
  <2>1. h \in Nat /\ h < x /\ h > 0 /\ 2 * h <= x + 1 /\ x <= 2 * h
    BY <1>5, <1>3
  <2>2. Good(h)
    BY <2>1, <1>3
  <2>3. RoundUp[x] = 2 * q
    BY <1>5, <1>3, RoundUpExists
  <2>4. q \in Nat \ {0} /\ h <= q /\ q < 2 * h /\ RoundUp[q] = q
    BY <2>2, <2>1
  <2> HIDE DEF q, h
  <2>5. (2 * q + 1) \div 2 = q /\ 2 * q > 1 /\ 2 * q \in Nat
    BY <2>4
  <2>6. RoundUp[2 * q] = 2 * q
    BY <2>5, <2>4, RoundUpExists
  <2>7. 2 * q < 2 * x
    BY <2>1, <2>4
  <2> QED BY <2>1, <2>3, <2>4, <2>6, <2>7, <1>3
<1> QED BY <1>4, <1>5, <1>3

(* A power of two above one is twice a power of two.                       *)
LEMMA HalfPower ==
    ASSUME NEW P \in Nat, RoundUp[P] = P, P > 1
    PROVE  \E Q \in Nat \ {0} : RoundUp[Q] = Q /\ P = 2 * Q
<1> DEFINE h == (P + 1) \div 2
<1>1. h \in Nat
  OBVIOUS
<1>2. P = 2 * RoundUp[h]
  BY RoundUpExists
<1>3. RoundUp[h] \in Nat \ {0} /\ RoundUp[RoundUp[h]] = RoundUp[h]
  BY <1>1, RoundUpBounds
<1> QED BY <1>2, <1>3

(* Between a power of two and its half, every number rounds up to it.      *)
LEMMA RoundUpBetween ==
    ASSUME NEW P \in Nat, RoundUp[P] = P, NEW l \in Nat, l <= P, P < 2 * l
    PROVE  RoundUp[l] = P
<1> DEFINE Bad == {p \in Nat : RoundUp[p] = p /\ \E i \in Nat : i <= p /\ p < 2 * i /\ RoundUp[i] # p}
<1>1. SUFFICES Bad = {}
  OBVIOUS
<1>2. SUFFICES ASSUME Bad # {} PROVE FALSE
  OBVIOUS
<1>3. PICK x \in Bad : \A y \in Bad : x <= y
  <2>1. Bad \in SUBSET Nat
    OBVIOUS
  <2> HIDE DEF Bad
  <2> QED BY <1>2, <2>1, Least
<1>4. PICK i \in Nat : i <= x /\ x < 2 * i /\ RoundUp[i] # x
  BY <1>3
<1>5. x \in Nat /\ RoundUp[x] = x
  BY <1>3
<1>6. x > 1
  <2>1. i = 0 \/ i = 1 \/ x > 1
    BY <1>4, <1>5
  <2>2. RoundUp[1] = 1
    BY RoundUpExists
  <2> QED BY <2>1, <2>2, <1>4, <1>5
<1>7. PICK Q \in Nat \ {0} : RoundUp[Q] = Q /\ x = 2 * Q
  BY <1>5, <1>6, HalfPower
<1> DEFINE h == (i + 1) \div 2
<1>8. h \in Nat /\ h <= Q /\ Q < 2 * h /\ i > 1 /\ Q < x
  BY <1>4, <1>7
<1>9. RoundUp[i] = 2 * RoundUp[h]
  BY <1>8, RoundUpExists
<1> HIDE DEF h
<1>10. Q \notin Bad
  BY <1>8, <1>7, <1>3
<1>11. RoundUp[h] = Q
  BY <1>10, <1>7, <1>8
<1> QED BY <1>9, <1>11, <1>7, <1>4

(* A bit of x above all bits of y remains.                                 *)
LEMMA WithoutHigh ==
    ASSUME NEW P \in Nat, RoundUp[P] = P, NEW x \in Nat, NEW y \in Nat, y < P, P <= x
    PROVE  P <= Without[<<x, y>>]
<1> DEFINE Bad == {i \in Nat : \E p, j \in Nat : /\ RoundUp[p] = p /\ j < p /\ p <= i
                                                  /\ ~(p <= Without[<<i, j>>])}
<1>1. SUFFICES Bad = {}
  OBVIOUS
<1>2. SUFFICES ASSUME Bad # {} PROVE FALSE
  OBVIOUS
<1>3. PICK i \in Bad : \A k \in Bad : i <= k
  <2>1. Bad \in SUBSET Nat
    OBVIOUS
  <2> HIDE DEF Bad
  <2> QED BY <1>2, <2>1, Least
<1>4. PICK p \in Nat, j \in Nat : RoundUp[p] = p /\ j < p /\ p <= i /\ ~(p <= Without[<<i, j>>])
  BY <1>3
<1> DEFINE h == i \div 2  g == j \div 2  b == IF i % 2 = 1 /\ j % 2 = 0 THEN 1 ELSE 0
<1>5. i \in Nat /\ i # 0 /\ h \in Nat /\ g \in Nat /\ h < i /\ b \in Nat
  BY <1>3, <1>4
<1>6. Without[<<i, j>>] = 2 * Without[<<h, g>>] + b /\ Without[<<h, g>>] \in Nat
  <2>1. Without[<<i, j>>] = 2 * Without[<<h, g>>] + b
    BY <1>5, WithoutExists
  <2>2. Without[<<h, g>>] \in Nat
    <3> HIDE DEF h, g
    <3> QED BY <1>5, WithoutExists
  <2> QED BY <2>1, <2>2
<1>7. h \notin Bad
  BY <1>3, <1>5
<1>8. CASE p > 1
  <2>1. PICK q \in Nat \ {0} : RoundUp[q] = q /\ p = 2 * q
    BY <1>8, <1>4, HalfPower
  <2>2. g < q /\ q <= h
    BY <2>1, <1>4, <1>5
  <2> HIDE DEF g, h, b
  <2>3. q <= Without[<<h, g>>]
    BY <2>1, <2>2, <1>5, <1>7
  <2> QED BY <2>3, <1>6, <1>4, <2>1, <1>5
<1>9. CASE p <= 1
  <2>1. p = 1 /\ j = 0 /\ g = 0
    BY <1>9, <1>4
  <2>2. CASE h = 0
    <3>1. i = 1 /\ b = 1
      BY <2>1, <2>2, <1>5
    <3> HIDE DEF b, g, h
    <3> QED BY <3>1, <1>6, <1>4, <2>1
  <2>3. CASE h # 0
    <3> HIDE DEF g, h, b
    <3>1. 1 <= Without[<<h, g>>]
      BY <1>4, <2>1, <2>3, <1>5, <1>7
    <3> QED BY <3>1, <1>6, <1>4, <2>1, <1>5
  <2> QED BY <2>2, <2>3
<1> QED BY <1>8, <1>9, <1>4

(* The highest bit of x is taken away by that of y, if they are the same.  *)
LEMMA WithoutLow ==
    ASSUME NEW Q \in Nat, RoundUp[Q] = Q, NEW x \in Nat, NEW y \in Nat,
           Q <= x, x < 2 * Q, Q <= y, y < 2 * Q
    PROVE  Without[<<x, y>>] < Q
<1> DEFINE Bad == {p \in Nat : /\ RoundUp[p] = p
                               /\ \E i, j \in Nat : /\ p <= i /\ i < 2 * p /\ p <= j /\ j < 2 * p
                                                    /\ ~(Without[<<i, j>>] < p)}
<1>1. SUFFICES Bad = {}
  OBVIOUS
<1>2. SUFFICES ASSUME Bad # {} PROVE FALSE
  OBVIOUS
<1>3. PICK p \in Bad : \A k \in Bad : p <= k
  <2>1. Bad \in SUBSET Nat
    OBVIOUS
  <2> HIDE DEF Bad
  <2> QED BY <1>2, <2>1, Least
<1>4. PICK i \in Nat, j \in Nat : /\ p <= i /\ i < 2 * p /\ p <= j /\ j < 2 * p
                                  /\ ~(Without[<<i, j>>] < p)
  BY <1>3
<1> DEFINE h == i \div 2  g == j \div 2  b == IF i % 2 = 1 /\ j % 2 = 0 THEN 1 ELSE 0
<1>5. p \in Nat /\ RoundUp[p] = p /\ p # 0 /\ i # 0 /\ h \in Nat /\ g \in Nat /\ b \in {0, 1}
  BY <1>3, <1>4
<1>6. Without[<<i, j>>] = 2 * Without[<<h, g>>] + b /\ Without[<<h, g>>] \in Nat
  <2>1. Without[<<i, j>>] = 2 * Without[<<h, g>>] + b
    BY <1>5, WithoutExists
  <2>2. Without[<<h, g>>] \in Nat
    <3> HIDE DEF h, g
    <3> QED BY <1>5, WithoutExists
  <2> QED BY <2>1, <2>2
<1>7. CASE p > 1
  <2>1. PICK q \in Nat \ {0} : RoundUp[q] = q /\ p = 2 * q
    BY <1>7, <1>5, HalfPower
  <2>2. g < 2 * q /\ q <= h /\ h < 2 * q /\ q <= g /\ q < p
    BY <2>1, <1>4, <1>5
  <2> HIDE DEF g, h, b
  <2>3. q \notin Bad
    <3>1. ~(p <= q)
      BY <2>1, <2>2, <1>5
    <3> HIDE DEF Bad
    <3> QED BY <3>1, <1>3
  <2>4. Without[<<h, g>>] < q
    BY <2>1, <2>2, <2>3, <1>5
  <2> QED BY <2>4, <1>6, <1>4, <2>1, <1>5
<1>8. CASE p = 1
  <2>1. i = 1 /\ j = 1 /\ h = 0 /\ b = 0
    BY <1>8, <1>4
  <2>2. Without[<<h, g>>] = 0
    <3> HIDE DEF g, b
    <3> QED BY <2>1, <1>5, WithoutExists
  <2> HIDE DEF h, g, b
  <2> QED BY <2>1, <2>2, <1>6, <1>4, <1>8
<1> QED BY <1>7, <1>8, <1>5

(* The test on the bits of a hint tells whether the array has the key.     *)
LEMMA BitsOfHint ==
    ASSUME NEW l \in Nat, l > 0, NEW k \in Nat, k > l
    PROVE  Without[<<k - 1, l - 1>>] < l <=> k <= RoundUp[l]
<1> DEFINE P == RoundUp[l]  w == Without[<<k - 1, l - 1>>]
<1>1. P \in Nat \ {0} /\ l <= P /\ P < 2 * l /\ RoundUp[P] = P
  BY RoundUpBounds
<1>2. k - 1 \in Nat /\ l - 1 \in Nat
  OBVIOUS
<1>3. w \in Nat
  BY <1>2, WithoutExists
<1> HIDE DEF P
<1>4. CASE k <= P
  <2>1. PICK Q \in Nat \ {0} : RoundUp[Q] = Q /\ P = 2 * Q
    <3>1. P > 1
      BY <1>1, <1>4
    <3> QED BY <3>1, <1>1, HalfPower
  <2>2. Q <= k - 1 /\ k - 1 < 2 * Q /\ Q <= l - 1 /\ l - 1 < 2 * Q /\ Q < l
    BY <2>1, <1>1, <1>4
  <2>3. w < Q
    BY <2>1, <2>2, <1>2, WithoutLow
  <2> HIDE DEF w
  <2>4. w < l
    BY <2>1, <2>3, <2>2, <1>3
  <2> QED BY <2>4, <1>4 DEF P, w
<1>5. CASE ~(k <= P)
  <2>1. l - 1 < P /\ P <= k - 1
    BY <1>1, <1>5
  <2>2. P <= w
    BY <2>1, <1>1, <1>2, WithoutHigh
  <2> HIDE DEF w
  <2>3. ~(w < l)
    BY <2>2, <1>1, <1>3
  <2> QED BY <2>3, <1>5 DEF P, w
<1> QED BY <1>4, <1>5 DEF P

-----------------------------------------------------------------------------
(* The array.                                                              *)

Cells == Values \cup {Nil}

(* The array: its size is a power of two while a hint stands for it.       *)
ArrayOK(tab) ==
    LET size == RealSize(tab)
    IN  /\ size \in 0..MaxArray
        /\ tab.arr \in [1..size -> Cells]
        /\ tab.real \in BOOLEAN
        /\ tab.lim \in 0..size
        /\ tab.real => tab.lim = size
        /\ ~tab.real => Pow2(size) /\ size < 2 * tab.lim

(* The size that a limit stands for.                                       *)
LEMMA SizeOfLimit ==
    ASSUME NEW tab, NEW size \in Nat, tab.lim \in 0..size, tab.real => tab.lim = size,
           ~tab.real => Pow2(size) /\ size < 2 * tab.lim
    PROVE  RealSize(tab) = size
<1>1. CASE tab.real
  BY <1>1 DEF RealSize, IsSize
<1>2. CASE ~tab.real
  <2>1. tab.lim \in Nat /\ tab.lim > 0 /\ size > 0 /\ RoundUp[size] = size
    BY <1>2 DEF Pow2
  <2>2. RoundUp[tab.lim] = size
    BY <2>1, <1>2, RoundUpBetween
  <2> QED BY <2>1, <2>2, <1>2 DEF RealSize, IsSize, Pow2
<1> QED BY <1>1, <1>2

(* luaH_getint takes the keys of the whole array from it.                  *)
LEMMA InArrayIff ==
    ASSUME NEW tab, ArrayOK(tab), NEW k \in Keys
    PROVE  InArray(tab, k) <=> k \in 1..RealSize(tab)
<1> DEFINE size == RealSize(tab)
<1>1. /\ size \in 0..MaxArray /\ tab.lim \in 0..size /\ tab.real \in BOOLEAN
      /\ tab.real => tab.lim = size
      /\ ~tab.real => Pow2(size) /\ size < 2 * tab.lim
  BY DEF ArrayOK
<1>2. size \in Nat /\ size <= MaxInt /\ tab.lim \in Nat /\ 1..size \subseteq Ints
  BY <1>1, TableAssumption DEF Ints
<1> HIDE DEF size
<1>3. CASE k \notin Ints
  BY <1>2, <1>3 DEF InArray, size
<1>4. CASE k \in Ints /\ tab.real
  BY <1>4, <1>1 DEF InArray, AfterHint, size
<1>5. CASE k \in Ints /\ ~tab.real
  <2>1. RoundUp[tab.lim] = size /\ tab.lim > 0
    <3>1. size > 0 /\ tab.lim > 0 /\ RoundUp[size] = size
      BY <1>5, <1>1 DEF Pow2
    <3> QED BY <3>1, <1>5, <1>1, <1>2, RoundUpBetween
  <2>2. k \in Nat
    BY <1>5 DEF Ints
  <2>3. CASE k > tab.lim
    <3>1. AfterHint(tab, k) <=> k <= size
      BY <2>1, <2>2, <2>3, <1>2, <1>5, BitsOfHint DEF AfterHint
    <3> QED BY <3>1, <2>2, <2>3, <1>2, <1>5 DEF InArray, size
  <2>4. CASE ~(k > tab.lim)
    BY <2>4, <2>2, <1>1, <1>2, <1>5 DEF InArray, AfterHint, size
  <2> QED BY <2>3, <2>4
<1> QED BY <1>3, <1>4, <1>5

-----------------------------------------------------------------------------
(* Nodes.                                                                  *)

Size(node) == Cardinality(DOMAIN node)

IsNodes(node) ==
    /\ Size(node) \in Nat /\ DOMAIN node = 0..Size(node) - 1
    /\ \A n \in DOMAIN node : /\ node[n] \in NodeType
                              /\ node[n].next \in DOMAIN node \cup {None}

(* c tells the chains apart and r orders each one. A node without a key is *)
(* a chain of its own; a node with a key is behind its main position, and  *)
(* that holds a key whose main position it is. An entry that is not dead   *)
(* is the only one of its key, and comes before the dead ones.             *)
Linked(node, c, r) ==
    /\ c \in [DOMAIN node -> DOMAIN node] /\ r \in [DOMAIN node -> Nat]
    /\ \A m \in DOMAIN node : node[m].next # None =>
          c[node[m].next] = c[m] /\ r[m] < r[node[m].next]
    /\ \A m, n \in DOMAIN node : c[m] = c[n] /\ r[m] < r[n] =>
          node[m].next # None /\ r[node[m].next] <= r[n]
    /\ \A m, n \in DOMAIN node : c[m] = c[n] /\ r[m] = r[n] => m = n

Homed(node, c, r) ==
    /\ \A n \in DOMAIN node : node[n].key = None =>
          node[n] = Unused /\ \A m \in DOMAIN node : c[m] = c[n] => m = n
    /\ \A n \in DOMAIN node : node[n].key # None =>
          LET h == MainPos(node, node[n].key)
          IN  /\ c[h] = c[n] /\ r[h] <= r[n] /\ node[h].key # None
              /\ MainPos(node, node[h].key) = h

LiveFirst(node, r) ==
    \A m, n \in DOMAIN node :
        m # n /\ node[m].key = node[n].key /\ node[n].key # None /\ ~node[m].dead =>
           node[n].dead /\ r[m] < r[n]

DeadEmpty(node) ==
    \A n \in DOMAIN node : node[n].dead => node[n].val = Nil /\ node[n].key \in Objects

Chained(node, c, r) ==
    IsNodes(node) /\ Linked(node, c, r) /\ Homed(node, c, r) /\ LiveFirst(node, r) /\ DeadEmpty(node)

WellChained(node) == \E c, r : Chained(node, c, r)

(* The nodes are finitely many, and none of them is None.                  *)
LEMMA NodesFinite ==
    ASSUME NEW node, IsNodes(node)
    PROVE  IsFiniteSet(DOMAIN node) /\ Size(node) \in Nat /\ Cardinality(DOMAIN node) = Size(node)
           /\ DOMAIN node \subseteq Nat /\ None \notin DOMAIN node
           /\ (DOMAIN node # {} => Size(node) > 0)
<1>1. Size(node) \in Nat /\ DOMAIN node = 0..Size(node) - 1 /\ Cardinality(DOMAIN node) = Size(node)
  BY DEF IsNodes, Size
<1> DEFINE size == Size(node)
<1> HIDE DEF size
<1>2. size \in Nat /\ DOMAIN node = 0..size - 1
  BY <1>1 DEF size
<1>3. IsFiniteSet(0..size - 1)
  BY <1>2, FS_Interval
<1>4. DOMAIN node \subseteq Nat /\ (DOMAIN node # {} => size > 0)
  BY <1>2
<1>5. None \notin Nat
  BY TableAssumption
<1> QED BY <1>1, <1>2, <1>3, <1>4, <1>5 DEF size

(* A hash modulo a size.                                                   *)
LEMMA Remainder ==
    ASSUME NEW x \in Nat, NEW n \in Nat \ {0}
    PROVE  x % n \in 0..n - 1
  OBVIOUS

(* A main position is one of the nodes.                                    *)
LEMMA MainPosInside ==
    ASSUME NEW node, IsNodes(node), DOMAIN node # {}, NEW k \in Keys
    PROVE  MainPos(node, k) \in DOMAIN node
<1> DEFINE size == Size(node)  odd == IF size = 1 THEN 1 ELSE size - 1
<1>1. size \in Nat \ {0} /\ DOMAIN node = 0..size - 1
  BY NodesFinite DEF IsNodes
<1>2. odd \in Nat \ {0} /\ odd <= size
  BY <1>1
<1>3. \A x \in Nat : x % odd \in 0..size - 1 /\ x % size \in 0..size - 1
  <2> HIDE DEF odd
  <2> TAKE x \in Nat
  <2>1. x % odd \in 0..odd - 1 /\ x % size \in 0..size - 1
    BY <1>1, <1>2, Remainder
  <2> QED BY <2>1, <1>1, <1>2
<1>4. k \notin Ints => Hash[k] \in Nat
  BY TableAssumption DEF Keys
<1>5. k \in Ints => k \in Nat
  BY DEF Ints
<1> QED BY <1>1, <1>3, <1>4, <1>5 DEF MainPos, Size

(* A main position depends on the number of the nodes only.                *)
LEMMA MainPosSame ==
    ASSUME NEW node, NEW other, DOMAIN other = DOMAIN node, NEW k
    PROVE  MainPos(other, k) = MainPos(node, k)
  BY Zenon DEF MainPos

-----------------------------------------------------------------------------
(* Walking along a chain.                                                  *)

(* The walk along a chain is defined, and stays within the nodes.          *)
LEMMA ChainExists ==
    ASSUME NEW node, IsNodes(node), NEW i \in DOMAIN node
    PROVE  LET at == Chain(node, i)
               size == Size(node)
           IN  /\ at \in [0..size -> DOMAIN node \cup {None}]
               /\ at[0] = i
               /\ \A j \in 0..size - 1 : at[j + 1] = IF at[j] = None THEN None ELSE node[at[j]].next
<1> DEFINE size == Size(node)
           D == 0..size
           V == DOMAIN node \cup {None}
           Step(f, j) == IF j = 0 THEN i ELSE IF f[j - 1] = None THEN None ELSE node[f[j - 1]].next
           m == [j \in D |-> j]
           F == [q \in D \X [D -> V] |-> Step(q[2], q[1])]
           at == Chain(node, i)
<1>0. size \in Nat /\ \A n \in DOMAIN node : node[n].next \in V
  BY DEF IsNodes
<1>1. F \in [D \X [D -> V] -> V]
  <2>1. \A f \in [D -> V], j \in D : Step(f, j) \in V
    <3> TAKE f \in [D -> V], j \in D
    <3>1. j # 0 => j - 1 \in D
      BY <1>0
    <3>2. j # 0 => f[j - 1] \in V
      BY <3>1
    <3> QED BY <3>2, <1>0
  <2> HIDE DEF Step, D, V
  <2> QED BY <2>1
<1>2. Descends(D, V, m, F)
  <2>1. ASSUME NEW j \in D, NEW f \in [D -> V], NEW g \in [D -> V],
               \A y \in D : m[y] < m[j] => f[y] = g[y]
        PROVE  F[<<j, f>>] = F[<<j, g>>]
    <3>1. j # 0 => f[j - 1] = g[j - 1]
      <4>1. j # 0 => j - 1 \in D /\ m[j - 1] < m[j]
        BY <1>0
      <4> HIDE DEF m, D, V
      <4> QED BY <4>1, <2>1
    <3> HIDE DEF D, V
    <3>2. Step(f, j) = Step(g, j)
      BY <3>1
    <3> HIDE DEF Step
    <3> QED BY <3>2
  <2> HIDE DEF F, m, D, V
  <2> QED BY <2>1, Zenon DEF Descends
<1>3. m \in [D -> Nat]
  BY <1>0
<1>4. PICK f : Solution(D, V, F, f)
  <2>1. None \in V
    OBVIOUS
  <2> HIDE DEF m, F, D, V
  <2> QED BY <2>1, <1>1, <1>2, <1>3, RecursionExists, Zenon
<1>5. f \in [D -> V] /\ \A p \in D : f[p] = F[<<p, f>>]
  BY <1>4, Zenon DEF Solution
<1>6. f = [p \in D |-> Step(f, p)]
  <2> HIDE DEF Step, D, V
  <2> QED BY <1>5
<1> DEFINE g == CHOOSE h : h = [p \in D |-> Step(h, p)]
<1>7. g = [p \in D |-> Step(g, p)]
  BY <1>6, Zenon
<1>8. at = g
  BY Zenon DEF Chain, Size
<1>9. \A p \in D : at[p] = Step(at, p)
  <2> HIDE DEF at, Step, D, g
  <2> QED BY <1>7, <1>8
<1>10. at = [p \in D |-> at[p]]
  <2> HIDE DEF Step, D
  <2> QED BY <1>7, <1>8
<1> HIDE DEF at, g
<1>11. \A j \in 0..size - 1 : at[j + 1] = IF at[j] = None THEN None ELSE node[at[j]].next
  <2> TAKE j \in 0..size - 1
  <2>1. j + 1 \in D /\ j + 1 # 0 /\ j + 1 - 1 = j
    BY <1>0
  <2>2. at[j + 1] = Step(at, j + 1)
    BY <2>1, <1>9
  <2> QED BY <2>1, <2>2
<1>12. at[0] = i
  <2>1. 0 \in D
    BY <1>0
  <2>2. at[0] = Step(at, 0)
    BY <2>1, <1>9
  <2> QED BY <2>2
<1> DEFINE Bad == {j \in D : at[j] \notin V}
<1>13. Bad = {}
  <2>1. SUFFICES ASSUME Bad # {} PROVE FALSE
    OBVIOUS
  <2>2. PICK x \in Bad : \A y \in Bad : x <= y
    <3>1. Bad \in SUBSET Nat
      BY <1>0
    <3> HIDE DEF Bad
    <3> QED BY <2>1, <3>1, Least
  <2>3. x # 0
    BY <2>2, <1>12
  <2>4. x - 1 \in 0..size - 1 /\ x - 1 \in D /\ x - 1 + 1 = x /\ ~(x <= x - 1)
    BY <2>2, <2>3, <1>0
  <2>5. at[x - 1] \in V
    BY <2>4, <2>2
  <2>6. at[x] = IF at[x - 1] = None THEN None ELSE node[at[x - 1]].next
    BY <2>4, <1>11
  <2> QED BY <2>5, <2>6, <1>0, <2>2
<1>14. at \in [D -> V]
  BY <1>10, <1>13
<1> QED BY <1>11, <1>12, <1>14 DEF at

(* A walk goes up in its chain.                                            *)
LEMMA WalkClimbs ==
    ASSUME NEW node, NEW c, NEW r, IsNodes(node), Linked(node, c, r), NEW i \in DOMAIN node,
           NEW j \in 0..Size(node), NEW k \in 0..Size(node), j < k, Chain(node, i)[k] # None
    PROVE  /\ Chain(node, i)[j] # None
           /\ c[Chain(node, i)[j]] = c[Chain(node, i)[k]]
           /\ r[Chain(node, i)[j]] < r[Chain(node, i)[k]]
<1> DEFINE at == Chain(node, i)  size == Size(node)
           Good(x) == at[j] # None /\ c[at[j]] = c[at[x]] /\ r[at[j]] < r[at[x]]
           Bad == {x \in 0..size : j < x /\ at[x] # None /\ ~Good(x)}
<1>1. /\ at \in [0..size -> DOMAIN node \cup {None}]
      /\ \A x \in 0..size - 1 : at[x + 1] = IF at[x] = None THEN None ELSE node[at[x]].next
      /\ size \in Nat
  BY ChainExists, NodesFinite
<1> HIDE DEF at
<1>2. SUFFICES Bad = {}
  BY DEF at
<1>3. SUFFICES ASSUME Bad # {} PROVE FALSE
  OBVIOUS
<1>4. PICK x \in Bad : \A y \in Bad : x <= y
  <2>1. Bad \in SUBSET Nat
    BY <1>1
  <2> HIDE DEF Bad
  <2> QED BY <1>3, <2>1, Least
<1>5. /\ x \in 0..size /\ j < x /\ at[x] # None /\ ~Good(x)
      /\ x - 1 \in 0..size - 1 /\ x - 1 \in 0..size /\ x - 1 + 1 = x /\ ~(x <= x - 1)
  BY <1>4, <1>1
<1>6. at[x - 1] \in DOMAIN node /\ node[at[x - 1]].next = at[x] /\ at[x] \in DOMAIN node
  BY <1>5, <1>1
<1>7. /\ c[at[x]] = c[at[x - 1]] /\ r[at[x - 1]] < r[at[x]]
      /\ r[at[x - 1]] \in Nat /\ r[at[x]] \in Nat
  BY <1>5, <1>6 DEF Linked
<1>8. None \notin DOMAIN node
  BY NodesFinite
<1>9. CASE j = x - 1
  BY <1>9, <1>5, <1>6, <1>7, <1>8
<1>10. CASE j # x - 1
  <2>1. j < x - 1
    BY <1>10, <1>5
  <2>2. Good(x - 1)
    <3> HIDE DEF Good
    <3> QED BY <2>1, <1>4, <1>5, <1>6, <1>8
  <2>3. r[at[j]] \in Nat
    <3>1. at[j] \in DOMAIN node
      BY <2>2, <1>1
    <3> QED BY <3>1 DEF Linked
  <2> QED BY <2>2, <2>3, <1>5, <1>7
<1> QED BY <1>9, <1>10

(* A walk comes to an end.                                                 *)
LEMMA WalkEnds ==
    ASSUME NEW node, NEW c, NEW r, IsNodes(node), Linked(node, c, r), NEW i \in DOMAIN node
    PROVE  Chain(node, i)[Size(node)] = None
<1> DEFINE at == Chain(node, i)  size == Size(node)
<1>1. /\ at \in [0..size -> DOMAIN node \cup {None}]
      /\ size \in Nat /\ IsFiniteSet(DOMAIN node) /\ Cardinality(DOMAIN node) = size
  BY ChainExists, NodesFinite
<1>2. \A j, k \in 0..size : j < k /\ at[k] # None => at[j] # None /\ r[at[j]] < r[at[k]]
  BY WalkClimbs
<1>3. \A n \in DOMAIN node : r[n] \in Nat
  BY DEF Linked
<1>4. SUFFICES ASSUME at[size] # None PROVE FALSE
  OBVIOUS
<1> HIDE DEF at, size
<1>5. \A j \in 0..size : at[j] \in DOMAIN node
  <2> TAKE j \in 0..size
  <2>1. CASE j = size
    BY <2>1, <1>1, <1>4
  <2>2. CASE j # size
    <3>1. j < size /\ size \in 0..size
      BY <2>2, <1>1
    <3>2. at[j] # None
      BY <3>1, <1>2, <1>4
    <3> QED BY <3>2, <1>1
  <2> QED BY <2>1, <2>2
<1> DEFINE S == 0..size  f == [j \in S |-> at[j]]
<1>6. IsFiniteSet(S) /\ Cardinality(S) = size + 1
  BY <1>1, FS_Interval
<1>7. f \in [S -> DOMAIN node] /\ size < size + 1
  BY <1>5, <1>1
<1>8. \A j \in S : f[j] = at[j]
  OBVIOUS
<1> HIDE DEF f
<1>9. PICK j \in S, k \in S : j # k /\ f[j] = f[k]
  <2> HIDE DEF S
  <2>1. Cardinality(DOMAIN node) < Cardinality(S)
    BY <1>1, <1>6, <1>7
  <2> QED BY <2>1, <1>1, <1>6, <1>7, FS_PigeonHole
<1>10. at[j] = at[k] /\ at[j] \in DOMAIN node
  BY <1>8, <1>9, <1>5
<1>11. r[at[j]] \in Nat /\ r[at[j]] = r[at[k]]
  BY <1>10, <1>3
<1>12. CASE j < k
  BY <1>12, <1>2, <1>10, <1>11, <1>5, NodesFinite
<1>13. CASE k < j
  BY <1>13, <1>2, <1>10, <1>11, <1>5, NodesFinite
<1> QED BY <1>12, <1>13, <1>9, <1>1

(* A walk meets all that is behind its start.                              *)
LEMMA WalkMeets ==
    ASSUME NEW node, NEW c, NEW r, IsNodes(node), Linked(node, c, r), NEW i \in DOMAIN node,
           NEW n \in DOMAIN node, c[n] = c[i], r[i] <= r[n]
    PROVE  \E j \in 0..Size(node) : Chain(node, i)[j] = n
<1> DEFINE at == Chain(node, i)  size == Size(node)
           K == {j \in 0..size : at[j] = None \/ ~(r[at[j]] <= r[n])}
<1>1. /\ at \in [0..size -> DOMAIN node \cup {None}] /\ at[0] = i
      /\ \A x \in 0..size - 1 : at[x + 1] = IF at[x] = None THEN None ELSE node[at[x]].next
      /\ size \in Nat
  BY ChainExists, NodesFinite
<1>2. at[size] = None
  BY WalkEnds
<1>3. \A j \in 0..size : 0 < j /\ at[j] # None => c[at[j]] = c[i]
  <2> TAKE j \in 0..size
  <2> HAVE 0 < j /\ at[j] # None
  <2>1. 0 \in 0..size
    BY <1>1
  <2>2. c[at[0]] = c[at[j]]
    BY <2>1, WalkClimbs
  <2> QED BY <2>2, <1>1
<1> HIDE DEF at, size
<1>4. PICK k \in K : \A y \in K : k <= y
  <2>1. K \in SUBSET Nat /\ size \in K
    BY <1>1, <1>2
  <2> HIDE DEF K
  <2> QED BY <2>1, Least
<1>5. None \notin DOMAIN node
  BY NodesFinite
<1>6. k # 0
  BY <1>1, <1>4, <1>5
<1>7. k - 1 \in 0..size - 1 /\ k - 1 \in 0..size /\ k - 1 + 1 = k /\ k - 1 \notin K
  BY <1>4, <1>6, <1>1
<1> DEFINE m == at[k - 1]
<1>8. m \in DOMAIN node /\ r[m] <= r[n] /\ at[k] = node[m].next
  BY <1>7, <1>1, <1>5
<1>9. c[m] = c[n]
  BY <1>3, <1>7, <1>1, <1>8, <1>5
<1>10. CASE m = n
  BY <1>10, <1>7 DEF at, size
<1>11. CASE m # n
  <2> HIDE DEF m
  <2>1. r[m] \in Nat /\ r[n] \in Nat /\ r[m] # r[n]
    BY <1>8, <1>9, <1>11 DEF Linked
  <2>2. r[m] < r[n]
    BY <2>1, <1>8
  <2>3. node[m].next # None /\ r[node[m].next] <= r[n]
    BY <2>2, <1>8, <1>9, Zenon DEF Linked
  <2> QED BY <2>3, <1>8, <1>4
<1> QED BY <1>10, <1>11

(* Looking a key up: it finds the first node with the key, from its main   *)
(* position on.                                                            *)
LEMMA FindFinds ==
    ASSUME NEW node, NEW c, NEW r, IsNodes(node), Linked(node, c, r), Homed(node, c, r),
           NEW k \in Keys, NEW d \in BOOLEAN
    PROVE  LET n == Find(node, k, d)
               Hit(m) == node[m].key = k /\ (node[m].dead => d)
           IN  /\ n = None => \A m \in DOMAIN node : ~Hit(m)
               /\ n # None => /\ n \in DOMAIN node /\ Hit(n)
                              /\ \A m \in DOMAIN node : Hit(m) => r[n] <= r[m]
<1> DEFINE Hit(m) == node[m].key = k /\ (node[m].dead => d)
           i == MainPos(node, k)
           at == IF DOMAIN node = {} THEN <<>> ELSE Chain(node, i)
           hits == {j \in DOMAIN at : at[j] # None /\ node[at[j]].key = k /\ (node[at[j]].dead => d)}
           size == Size(node)
<1>1. Find(node, k, d) = IF hits = {} THEN None ELSE at[Min(hits)]
  BY Zenon DEF Find
<1>2. CASE DOMAIN node = {}
  <2>1. hits = {}
    BY <1>2
  <2> HIDE DEF hits
  <2> QED BY <2>1, <1>1, <1>2
<1>3. CASE DOMAIN node # {}
  <2>1. i \in DOMAIN node /\ at = Chain(node, i)
    BY <1>3, MainPosInside
  <2>2. at \in [0..size -> DOMAIN node \cup {None}] /\ at[0] = i /\ size \in Nat
    BY <2>1, ChainExists, NodesFinite
  <2>3. hits = {j \in 0..size : at[j] # None /\ Hit(at[j])}
    <3> HIDE DEF at
    <3> QED BY <2>2
  <2>4. \A m \in DOMAIN node : Hit(m) => \E j \in hits : at[j] = m
    <3> TAKE m \in DOMAIN node
    <3> HAVE Hit(m)
    <3>1. node[m].key # None
      BY TableAssumption
    <3>2. c[i] = c[m] /\ r[i] <= r[m]
      BY <3>1 DEF Homed
    <3>3. PICK j \in 0..size : Chain(node, i)[j] = m
      BY <3>2, <2>1, WalkMeets
    <3>4. m # None
      BY NodesFinite
    <3> HIDE DEF at, hits
    <3> QED BY <3>3, <3>4, <2>1, <2>3
  <2> HIDE DEF at, hits, i
  <2>5. CASE hits = {}
    BY <2>5, <2>4, <1>1
  <2>6. CASE hits # {}
    <3>1. PICK x \in hits : \A y \in hits : x <= y
      <4>1. hits \in SUBSET Nat
        BY <2>3, <2>2
      <4> QED BY <4>1, <2>6, Least
    <3>2. Min(hits) \in hits /\ \A y \in hits : Min(hits) <= y
      BY <3>1, Zenon DEF Min
    <3> DEFINE b == Min(hits)
    <3> HIDE DEF b
    <3>3. b \in 0..size /\ at[b] # None /\ Hit(at[b]) /\ at[b] \in DOMAIN node /\ \A y \in hits : b <= y
      BY <3>2, <2>3, <2>2 DEF b
    <3>4. ASSUME NEW m \in DOMAIN node, Hit(m) PROVE r[at[b]] <= r[m]
      <4>1. PICK j \in hits : at[j] = m
        BY <3>4, <2>4
      <4>2. j \in 0..size /\ b <= j /\ at[j] # None
        BY <4>1, <3>3, <2>3
      <4>3. r[at[b]] \in Nat /\ r[m] \in Nat
        BY <3>3 DEF Linked
      <4>4. CASE b = j
        BY <4>1, <4>3, <4>4
      <4>5. CASE b # j
        <5>1. b < j
          BY <4>5, <4>2, <3>3, <2>2
        <5>2. r[Chain(node, i)[b]] < r[Chain(node, i)[j]]
          BY <5>1, <4>2, <3>3, <2>1, WalkClimbs
        <5> QED BY <5>2, <4>1, <4>3, <2>1
      <4> QED BY <4>4, <4>5
    <3>5. Find(node, k, d) = at[b]
      BY <1>1, <2>6 DEF b
    <3> QED BY <3>3, <3>4, <3>5
  <2> QED BY <2>5, <2>6
<1> QED BY <1>2, <1>3

-----------------------------------------------------------------------------
(* Storing in the nodes.                                                   *)

(* The nodes that are in use, and what they hold.                          *)
Filled(node) == {n \in DOMAIN node : node[n].val # Nil}
Pairs(node) == {<<node[n].key, node[n].val>> : n \in Filled(node)}
KeysOf(node) == {node[n].key : n \in DOMAIN node} \ {None}

(* No node of the table that is not dead has the key.                      *)
Absent(node, k) == \A n \in DOMAIN node : node[n].key = k => node[n].dead

(* A node in use has a key and is not dead.                                *)
LEMMA FilledAlive ==
    ASSUME NEW node, NEW c, NEW r, Chained(node, c, r), NEW n \in Filled(node)
    PROVE  node[n].key \in Keys /\ node[n].key # None /\ ~node[n].dead
<1>1. n \in DOMAIN node /\ node[n].val # Nil /\ node[n] \in NodeType
  BY DEF Filled, Chained, IsNodes
<1>2. ~node[n].dead
  BY <1>1 DEF Chained, DeadEmpty
<1>3. node[n].key # None
  BY <1>1 DEF Chained, Homed, Unused
<1> QED BY <1>1, <1>2, <1>3 DEF NodeType

(* What a store of v for k that makes other of node has to do.             *)
Stored(node, other, k, v) ==
    /\ DOMAIN other = DOMAIN node
    /\ \A j \in Keys, w \in Values :
          <<j, w>> \in Pairs(other) <=> IF j = k THEN w = v ELSE <<j, w>> \in Pairs(node)

(* Storing makes f a node with a key, and none that has a key and no value.*)
Placed(node, other, f, k, v) ==
    /\ Stored(node, other, k, v)
    /\ KeysOf(other) \subseteq KeysOf(node) \cup {k}
    /\ \A n \in DOMAIN node : other[n].key # None <=> n = f \/ node[n].key # None
    /\ \A n \in DOMAIN node : other[n].key # None /\ other[n].val = Nil =>
          node[n].key # None /\ node[n].val = Nil

(* One more pair, for a key that had none.                                 *)
LEMMA StoredNew ==
    ASSUME NEW node, NEW other, NEW c, NEW r, Chained(node, c, r), NEW k \in Keys, NEW v \in Values,
           Absent(node, k), DOMAIN other = DOMAIN node,
           \A x : x \in Pairs(other) <=> x = <<k, v>> \/ x \in Pairs(node)
    PROVE  Stored(node, other, k, v)
<1>1. \A w : <<k, w>> \notin Pairs(node)
  <2> SUFFICES ASSUME NEW w, <<k, w>> \in Pairs(node) PROVE FALSE
    OBVIOUS
  <2>1. PICK n \in Filled(node) : node[n].key = k
    BY DEF Pairs
  <2>2. ~node[n].dead
    BY FilledAlive
  <2> QED BY <2>1, <2>2 DEF Absent, Filled
<1> QED BY <1>1 DEF Stored

(* The main position is not in use: the new entry overwrites it.           *)
LEMMA OverwriteChains ==
    ASSUME NEW node, NEW c, NEW r, Chained(node, c, r), DOMAIN node # {}, NEW k \in Keys, NEW v \in Values,
           Absent(node, k), node[MainPos(node, k)].val = Nil
    PROVE  LET mp == MainPos(node, k)
               other == [node EXCEPT ![mp] = Holding(@, k, v)]
           IN  Chained(other, c, r) /\ Placed(node, other, mp, k, v)
<1> DEFINE mp == MainPos(node, k)
           N == DOMAIN node
           other == [node EXCEPT ![mp] = Holding(@, k, v)]
<1>1. IsNodes(node) /\ Linked(node, c, r) /\ Homed(node, c, r) /\ LiveFirst(node, r) /\ DeadEmpty(node)
  BY DEF Chained
<1>2. mp \in N
  BY <1>1, MainPosInside
<1>3. DOMAIN other = N
  OBVIOUS
<1>4. \A j : MainPos(other, j) = MainPos(node, j)
  BY <1>3, MainPosSame, Zenon
<1>5. \A n \in N : node[n] \in NodeType
  BY <1>1 DEF IsNodes
<1>6. /\ other[mp] = Holding(node[mp], k, v)
      /\ \A n \in N : n # mp => other[n] = node[n]
  BY <1>2
<1>7. /\ other[mp].key = k /\ other[mp].dead = FALSE /\ other[mp].val = v
      /\ other[mp].next = node[mp].next /\ other[mp] \in NodeType
  <2>1. node[mp] \in NodeType
    BY <1>2, <1>5
  <2>2. /\ Holding(node[mp], k, v).key = k /\ Holding(node[mp], k, v).dead = FALSE
        /\ Holding(node[mp], k, v).val = v /\ Holding(node[mp], k, v).next = node[mp].next
        /\ Holding(node[mp], k, v) \in NodeType
    BY <2>1 DEF Holding, NodeType
  <2> HIDE DEF other, mp
  <2> QED BY <1>6, <2>2
<1> HIDE DEF other, mp
<1>8. k # None /\ v # Nil
  BY TableAssumption
<1>9. \A n \in N : other[n].next = node[n].next
  BY <1>6, <1>7
<1>10. IsNodes(other)
  BY <1>1, <1>3, <1>5, <1>6, <1>7, <1>9 DEF IsNodes, Size
<1>11. Linked(other, c, r)
  BY <1>1, <1>3, <1>9 DEF Linked
<1>12. Homed(other, c, r)
  <2>1. ASSUME NEW n \in N, other[n].key = None
        PROVE  other[n] = Unused /\ \A m \in N : c[m] = c[n] => m = n
    <3>1. n # mp
      BY <2>1, <1>7, <1>8
    <3> QED BY <2>1, <3>1, <1>1, <1>6 DEF Homed
  <2>2. ASSUME NEW n \in N, other[n].key # None
        PROVE  LET h == MainPos(other, other[n].key)
               IN  /\ c[h] = c[n] /\ r[h] <= r[n] /\ other[h].key # None
                   /\ MainPos(other, other[h].key) = h
    <3>1. CASE n = mp
      <4>1. r[mp] \in Nat
        BY <1>1, <1>2 DEF Linked
      <4>2. MainPos(other, other[n].key) = mp
        BY <3>1, <1>7, <1>4, Zenon DEF mp
      <4> QED BY <4>1, <4>2, <3>1, <1>7, <1>8
    <3>2. CASE n # mp
      <4> DEFINE h == MainPos(node, node[n].key)
      <4>1. other[n] = node[n]
        BY <3>2, <1>6
      <4>2. /\ c[h] = c[n] /\ r[h] <= r[n] /\ node[h].key # None
            /\ MainPos(node, node[h].key) = h
        BY <4>1, <2>2, <1>1, Zenon DEF Homed
      <4>3. h \in N
        <5>1. node[n].key \in Keys
          BY <4>1, <2>2, <1>5 DEF NodeType
        <5> QED BY <5>1, <1>1, MainPosInside
      <4> HIDE DEF h
      <4>4. MainPos(other, other[n].key) = h
        BY <4>1, <1>4, Zenon DEF h
      <4>5. CASE h = mp
        <5>1. MainPos(other, other[h].key) = h
          BY <4>5, <1>7, <1>4, Zenon DEF mp
        <5> QED BY <5>1, <4>2, <4>4, <4>5, <1>7, <1>8
      <4>6. CASE h # mp
        <5>1. other[h] = node[h]
          BY <4>6, <4>3, <1>6
        <5> QED BY <5>1, <4>2, <4>4, <1>4
      <4> QED BY <4>5, <4>6
    <3> QED BY <3>1, <3>2
  <2> QED BY <2>1, <2>2, <1>3, Zenon DEF Homed
<1>13. LiveFirst(other, r)
  <2> SUFFICES ASSUME NEW m \in N, NEW n \in N, m # n, other[m].key = other[n].key, other[n].key # None,
                      ~other[m].dead
               PROVE  other[n].dead /\ r[m] < r[n]
    BY <1>3 DEF LiveFirst
  <2>1. CASE m = mp
    <3>1. node[n].key = k /\ other[n] = node[n]
      BY <2>1, <1>6, <1>7
    <3>2. node[n].dead
      BY <3>1 DEF Absent
    <3>3. c[mp] = c[n] /\ r[mp] <= r[n]
      BY <3>1, <1>1, <1>8 DEF Homed, mp
    <3>4. r[mp] # r[n] /\ r[mp] \in Nat /\ r[n] \in Nat
      BY <3>3, <2>1, <1>1 DEF Linked
    <3> QED BY <3>1, <3>2, <3>3, <3>4, <2>1
  <2>2. CASE n = mp
    <3>1. node[m].key = k /\ ~node[m].dead
      BY <2>2, <1>6, <1>7
    <3> QED BY <3>1 DEF Absent
  <2>3. CASE m # mp /\ n # mp
    BY <2>3, <1>6, <1>1 DEF LiveFirst
  <2> QED BY <2>1, <2>2, <2>3
<1>14. DeadEmpty(other)
  BY <1>1, <1>3, <1>6, <1>7 DEF DeadEmpty
<1>15. \A x : x \in Pairs(other) <=> x = <<k, v>> \/ x \in Pairs(node)
  <2>1. Filled(other) = Filled(node) \cup {mp} /\ mp \notin Filled(node)
    BY <1>2, <1>3, <1>6, <1>7, <1>8 DEF Filled, mp
  <2>2. \A n \in Filled(node) : other[n] = node[n]
    BY <2>1, <1>6 DEF Filled
  <2> QED BY <2>1, <2>2, <1>7 DEF Pairs
<1>16. Stored(node, other, k, v)
  BY <1>15, <1>3, StoredNew
<1>17. Placed(node, other, mp, k, v)
  <2>1. /\ \A n \in N : other[n].key = IF n = mp THEN k ELSE node[n].key
        /\ \A n \in N : other[n].val = IF n = mp THEN v ELSE node[n].val
    BY <1>6, <1>7
  <2>2. KeysOf(other) \subseteq KeysOf(node) \cup {k}
    BY <2>1, <1>3 DEF KeysOf
  <2>3. /\ \A n \in N : other[n].key # None <=> n = mp \/ node[n].key # None
        /\ \A n \in N : other[n].key # None /\ other[n].val = Nil =>
              node[n].key # None /\ node[n].val = Nil
    BY <2>1, <1>8
  <2> QED BY <2>2, <2>3, <1>16, Zenon DEF Placed
<1>18. Chained(other, c, r)
  BY <1>10, <1>11, <1>12, <1>13, <1>14, Zenon DEF Chained
<1> QED BY <1>17, <1>18 DEF other, mp

(* No two nodes have the same next one.                                    *)
LEMMA NextInjective ==
    ASSUME NEW node, NEW c, NEW r, IsNodes(node), Linked(node, c, r),
           NEW m \in DOMAIN node, NEW n \in DOMAIN node, node[m].next = node[n].next, node[m].next # None
    PROVE  m = n
<1> DEFINE q == node[m].next
<1>1. q \in DOMAIN node
  BY DEF IsNodes
<1>2. c[q] = c[m] /\ c[q] = c[n] /\ r[m] < r[q] /\ r[n] < r[q]
  BY DEF Linked
<1>3. r[m] \in Nat /\ r[n] \in Nat /\ r[q] \in Nat
  BY <1>1 DEF Linked
<1> HIDE DEF q
<1>4. ~(r[m] < r[n])
  <2> SUFFICES ASSUME r[m] < r[n] PROVE FALSE
    OBVIOUS
  <2>1. r[q] <= r[n]
    BY <1>2 DEF Linked, q
  <2> QED BY <2>1, <1>2, <1>3
<1>5. ~(r[n] < r[m])
  <2> SUFFICES ASSUME r[n] < r[m] PROVE FALSE
    OBVIOUS
  <2>1. r[q] <= r[m]
    BY <1>2 DEF Linked, q
  <2> QED BY <2>1, <1>2, <1>3
<1>6. r[m] = r[n]
  BY <1>3, <1>4, <1>5
<1> QED BY <1>2, <1>6 DEF Linked

(* A node without a key is by itself.                                      *)
LEMMA UnkeyedAlone ==
    ASSUME NEW node, NEW c, NEW r, Chained(node, c, r), NEW f \in DOMAIN node, node[f].key = None
    PROVE  /\ node[f].next = None /\ node[f].val = Nil /\ ~node[f].dead
           /\ \A m \in DOMAIN node : c[m] = c[f] => m = f
           /\ \A m \in DOMAIN node : node[m].next # f
<1>1. node[f] = Unused /\ \A m \in DOMAIN node : c[m] = c[f] => m = f
  BY DEF Chained, Homed
<1>2. Unused.next = None /\ Unused.val = Nil /\ ~Unused.dead
  BY DEF Unused
<1>3. ASSUME NEW m \in DOMAIN node, node[m].next = f PROVE FALSE
  <2>1. f # None
    BY NodesFinite DEF Chained
  <2>2. c[f] = c[m]
    BY <1>3, <2>1 DEF Chained, Linked
  <2>3. m = f
    BY <2>2, <1>1
  <2> QED BY <2>3, <1>1, <1>2, <1>3, <2>1
<1> QED BY <1>1, <1>2, <1>3

(* The new entry goes to a free node, directly behind its main position.   *)
LEMMA BehindChains ==
    ASSUME NEW node, NEW c, NEW r, Chained(node, c, r), NEW k \in Keys, NEW v \in Values, Absent(node, k),
           NEW f \in DOMAIN node, node[f].key = None,
           NEW mp \in DOMAIN node, mp = MainPos(node, k), node[mp].val # Nil,
           MainPos(node, node[mp].key) = mp
    PROVE  LET other == Behind(node, mp, f, k, v)
           IN  WellChained(other) /\ Placed(node, other, f, k, v)
<1> DEFINE N == DOMAIN node
           other == Behind(node, mp, f, k, v)
           d == [c EXCEPT ![f] = c[mp]]
           s == [n \in N |-> IF n = f THEN 2 * r[mp] + 1 ELSE 2 * r[n]]
<1>1. IsNodes(node) /\ Linked(node, c, r) /\ Homed(node, c, r) /\ LiveFirst(node, r) /\ DeadEmpty(node)
  BY DEF Chained
<1>2. k # None /\ v # Nil /\ None \notin N
  BY <1>1, TableAssumption, NodesFinite
<1>3. /\ node[f].next = None /\ node[f].val = Nil
      /\ \A m \in N : c[m] = c[f] => m = f
      /\ \A m \in N : node[m].next # f
  BY UnkeyedAlone
<1>4. f # mp
  BY <1>3
<1>5. mp \in Filled(node)
  BY DEF Filled
<1>6. node[mp].key \in Keys /\ node[mp].key # None /\ ~node[mp].dead
  BY <1>5, FilledAlive
<1>7. \A n \in N : node[n] \in NodeType /\ node[n].next \in N \cup {None}
  BY <1>1 DEF IsNodes
<1>8. DOMAIN other = N
  BY DEF Behind
<1>9. /\ other[f] = Holding([node[f] EXCEPT !.next = node[mp].next], k, v)
      /\ other[mp] = [node[mp] EXCEPT !.next = f]
      /\ \A n \in N : n # f /\ n # mp => other[n] = node[n]
  BY <1>4 DEF Behind
<1>10. /\ other[f].key = k /\ other[f].dead = FALSE /\ other[f].val = v
       /\ other[f].next = node[mp].next /\ other[f] \in NodeType
  <2>1. node[f] \in NodeType /\ node[mp].next \in Nat \cup {None}
    BY <1>7 DEF NodeType
  <2>2. LET x == [node[f] EXCEPT !.next = node[mp].next]
        IN  x \in NodeType /\ x.next = node[mp].next
    BY <2>1 DEF NodeType
  <2> DEFINE x == [node[f] EXCEPT !.next = node[mp].next]
  <2> HIDE DEF x
  <2>3. /\ Holding(x, k, v).key = k /\ Holding(x, k, v).dead = FALSE
        /\ Holding(x, k, v).val = v /\ Holding(x, k, v).next = x.next
        /\ Holding(x, k, v) \in NodeType
    BY <2>2 DEF Holding, NodeType, x
  <2> HIDE DEF other
  <2> QED BY <2>2, <2>3, <1>9 DEF x
<1>11. /\ other[mp].key = node[mp].key /\ other[mp].dead = node[mp].dead /\ other[mp].val = node[mp].val
       /\ other[mp].next = f /\ other[mp] \in NodeType
  <2>1. f \in Nat
    BY <1>1, NodesFinite
  <2> QED BY <2>1, <1>7, <1>9 DEF NodeType
<1>12. \A j : MainPos(other, j) = MainPos(node, j)
  BY <1>8, MainPosSame, Zenon
<1> HIDE DEF other
<1>13. \A n \in N : n # f => /\ other[n].key = node[n].key /\ other[n].dead = node[n].dead
                             /\ other[n].val = node[n].val
  BY <1>9, <1>11
<1>14. IsNodes(other)
  <2>1. ASSUME NEW n \in N PROVE other[n] \in NodeType /\ other[n].next \in N \cup {None}
    <3>1. CASE n = f
      BY <3>1, <1>7, <1>10
    <3>2. CASE n = mp
      BY <3>2, <1>11
    <3>3. CASE n # f /\ n # mp
      <4>1. other[n] = node[n]
        BY <3>3, <1>9
      <4> QED BY <4>1, <1>7
    <3> QED BY <3>1, <3>2, <3>3
  <2> QED BY <2>1, <1>1, <1>8 DEF IsNodes, Size
<1>15. /\ c \in [N -> N] /\ r \in [N -> Nat]
       /\ \A m, n \in N : c[m] = c[n] /\ r[m] = r[n] => m = n
  BY <1>1 DEF Linked
<1>16. /\ d \in [N -> N] /\ s \in [N -> Nat]
       /\ d[f] = c[mp] /\ \A n \in N : n # f => d[n] = c[n]
       /\ s[f] = 2 * r[mp] + 1 /\ \A n \in N : n # f => s[n] = 2 * r[n]
  BY <1>15
<1> HIDE DEF d, s
<1>17. Linked(other, d, s)
  <2>1. ASSUME NEW m \in N, other[m].next # None
        PROVE  d[other[m].next] = d[m] /\ s[m] < s[other[m].next]
    <3>1. CASE m = mp
      BY <3>1, <1>4, <1>11, <1>15, <1>16
    <3>2. CASE m = f
      <4> DEFINE q == node[mp].next
      <4>1. other[m].next = q /\ q # f /\ q \in N
        BY <3>2, <2>1, <1>3, <1>7, <1>10
      <4>2. c[q] = c[mp] /\ r[mp] < r[q]
        BY <4>1, <1>1, <1>2 DEF Linked
      <4> HIDE DEF q
      <4> QED BY <4>1, <4>2, <3>2, <1>15, <1>16
    <3>3. CASE m # mp /\ m # f
      <4> DEFINE q == node[m].next
      <4>1. other[m].next = q /\ q # f /\ q \in N
        BY <3>3, <2>1, <1>3, <1>7, <1>9
      <4>2. c[q] = c[m] /\ r[m] < r[q]
        BY <4>1, <1>1, <1>2 DEF Linked
      <4> HIDE DEF q
      <4> QED BY <4>1, <4>2, <3>3, <1>15, <1>16
    <3> QED BY <3>1, <3>2, <3>3
  <2>2. ASSUME NEW m \in N, NEW n \in N, d[m] = d[n], s[m] < s[n]
        PROVE  other[m].next # None /\ s[other[m].next] <= s[n]
    <3>0. r[m] \in Nat /\ r[n] \in Nat /\ r[mp] \in Nat
      BY <1>15
    <3>1. CASE m = f
      <4> DEFINE q == node[mp].next
      <4>1. n # f /\ c[n] = c[mp] /\ r[mp] < r[n]
        BY <3>0, <3>1, <2>2, <1>16
      <4>2. q # None /\ r[q] <= r[n]
        BY <4>1, <1>1 DEF Linked
      <4>3. q \in N /\ q # f /\ other[m].next = q
        BY <4>2, <3>1, <1>3, <1>7, <1>10
      <4> HIDE DEF q
      <4> QED BY <4>1, <4>2, <4>3, <1>15, <1>16
    <3>2. CASE m # f /\ n = f
      <4>1. c[m] = c[mp] /\ r[m] <= r[mp]
        BY <3>0, <3>2, <2>2, <1>16
      <4>2. CASE m = mp
        BY <4>2, <3>0, <3>2, <1>11, <1>16, <1>2
      <4>3. CASE m # mp
        <5> DEFINE q == node[m].next
        <5>1. r[m] < r[mp]
          BY <4>1, <4>3, <3>0, <1>15
        <5>2. q # None /\ r[q] <= r[mp]
          BY <5>1, <4>1, <1>1 DEF Linked
        <5>3. q \in N /\ q # f /\ other[m].next = q
          BY <5>2, <3>2, <4>3, <1>3, <1>7, <1>9
        <5> HIDE DEF q
        <5> QED BY <5>2, <5>3, <3>0, <3>2, <1>15, <1>16
      <4> QED BY <4>2, <4>3
    <3>3. CASE m # f /\ n # f
      <4>1. c[m] = c[n] /\ r[m] < r[n]
        BY <3>0, <3>3, <2>2, <1>16
      <4>2. CASE m = mp
        BY <4>1, <4>2, <3>0, <3>3, <1>11, <1>16, <1>2
      <4>3. CASE m # mp
        <5> DEFINE q == node[m].next
        <5>1. q # None /\ r[q] <= r[n]
          BY <4>1, <1>1 DEF Linked
        <5>2. q \in N /\ q # f /\ other[m].next = q
          BY <5>1, <3>3, <4>3, <1>3, <1>7, <1>9
        <5> HIDE DEF q
        <5> QED BY <5>1, <5>2, <3>0, <3>3, <1>15, <1>16
      <4> QED BY <4>2, <4>3
    <3> QED BY <3>1, <3>2, <3>3
  <2>3. ASSUME NEW m \in N, NEW n \in N, d[m] = d[n], s[m] = s[n]
        PROVE  m = n
    <3>0. r[m] \in Nat /\ r[n] \in Nat /\ r[mp] \in Nat
      BY <1>15
    <3>1. CASE m # f /\ n # f
      BY <3>0, <3>1, <2>3, <1>15, <1>16
    <3>2. CASE m = f /\ n # f
      BY <3>0, <3>2, <2>3, <1>16
    <3>3. CASE m # f /\ n = f
      BY <3>0, <3>3, <2>3, <1>16
    <3> QED BY <3>1, <3>2, <3>3
  <2> QED BY <2>1, <2>2, <2>3, <1>8, <1>16 DEF Linked
<1>18. Homed(other, d, s)
  <2>1. ASSUME NEW n \in N, other[n].key = None
        PROVE  other[n] = Unused /\ \A m \in N : d[m] = d[n] => m = n
    <3>1. n # f /\ n # mp /\ other[n] = node[n]
      BY <2>1, <1>2, <1>6, <1>9, <1>10, <1>11
    <3>2. other[n] = Unused /\ \A m \in N : c[m] = c[n] => m = n
      BY <2>1, <3>1, <1>1 DEF Homed
    <3> QED BY <3>1, <3>2, <1>16
  <2>2. ASSUME NEW n \in N, other[n].key # None
        PROVE  LET h == MainPos(other, other[n].key)
               IN  /\ d[h] = d[n] /\ s[h] <= s[n] /\ other[h].key # None
                   /\ MainPos(other, other[h].key) = h
    <3>1. CASE n = f
      <4>1. MainPos(other, other[n].key) = mp
        BY <3>1, <1>10, <1>12, Zenon
      <4>2. MainPos(other, other[mp].key) = mp /\ other[mp].key # None
        BY <1>6, <1>11, <1>12
      <4>3. d[mp] = d[f] /\ s[mp] <= s[f]
        BY <1>4, <1>15, <1>16
      <4> QED BY <4>1, <4>2, <4>3, <3>1
    <3>2. CASE n # f
      <4> DEFINE h == MainPos(node, node[n].key)
      <4>1. other[n].key = node[n].key
        BY <3>2, <1>13
      <4>2. /\ c[h] = c[n] /\ r[h] <= r[n] /\ node[h].key # None
            /\ MainPos(node, node[h].key) = h
        BY <4>1, <2>2, <1>1, Zenon DEF Homed
      <4>3. h \in N
        <5>1. node[n].key \in Keys
          BY <4>1, <2>2, <1>7 DEF NodeType
        <5> QED BY <5>1, <1>1, MainPosInside
      <4> HIDE DEF h
      <4>4. MainPos(other, other[n].key) = h
        BY <4>1, <1>12, Zenon DEF h
      <4>5. h # f /\ other[h].key = node[h].key
        BY <4>2, <4>3, <1>13
      <4>6. d[h] = d[n] /\ s[h] <= s[n]
        BY <4>2, <4>3, <4>5, <3>2, <1>15, <1>16
      <4>7. MainPos(other, other[h].key) = h /\ other[h].key # None
        BY <4>2, <4>5, <1>12
      <4> QED BY <4>4, <4>6, <4>7
    <3> QED BY <3>1, <3>2
  <2> QED BY <2>1, <2>2, <1>8, Zenon DEF Homed
<1>19. LiveFirst(other, s)
  <2> SUFFICES ASSUME NEW m \in N, NEW n \in N, m # n, other[m].key = other[n].key, other[n].key # None,
                      ~other[m].dead
               PROVE  other[n].dead /\ s[m] < s[n]
    BY <1>8 DEF LiveFirst
  <2>1. CASE m = f
    <3>1. node[n].key = k /\ other[n].dead = node[n].dead
      BY <2>1, <1>10, <1>13
    <3>2. node[n].dead
      BY <3>1 DEF Absent
    <3>3. c[mp] = c[n] /\ r[mp] <= r[n]
      BY <3>1, <1>1, <1>2 DEF Homed
    <3>4. n # mp
      BY <3>2, <1>6
    <3>5. r[mp] < r[n]
      BY <3>3, <3>4, <1>15
    <3> QED BY <3>1, <3>2, <3>5, <2>1, <1>15, <1>16
  <2>2. CASE n = f
    <3>1. node[m].key = k /\ ~node[m].dead
      BY <2>2, <1>10, <1>13
    <3> QED BY <3>1 DEF Absent
  <2>3. CASE m # f /\ n # f
    <3>1. node[m].key = node[n].key /\ node[n].key # None /\ ~node[m].dead
      BY <2>3, <1>13
    <3>2. node[n].dead /\ r[m] < r[n]
      BY <3>1, <1>1 DEF LiveFirst
    <3> QED BY <3>2, <2>3, <1>13, <1>15, <1>16
  <2> QED BY <2>1, <2>2, <2>3
<1>20. DeadEmpty(other)
  BY <1>1, <1>8, <1>10, <1>13 DEF DeadEmpty
<1>21. \A x : x \in Pairs(other) <=> x = <<k, v>> \/ x \in Pairs(node)
  <2>1. Filled(other) = Filled(node) \cup {f} /\ f \notin Filled(node)
    BY <1>2, <1>3, <1>8, <1>10, <1>13 DEF Filled
  <2>2. \A n \in Filled(node) : other[n].key = node[n].key /\ other[n].val = node[n].val
    BY <2>1, <1>13 DEF Filled
  <2> QED BY <2>1, <2>2, <1>10 DEF Pairs
<1>22. Stored(node, other, k, v)
  BY <1>21, <1>8, StoredNew
<1>23. Placed(node, other, f, k, v)
  <2>1. /\ \A n \in N : other[n].key = IF n = f THEN k ELSE node[n].key
        /\ \A n \in N : other[n].val = IF n = f THEN v ELSE node[n].val
    BY <1>10, <1>13
  <2>2. KeysOf(other) \subseteq KeysOf(node) \cup {k}
    BY <2>1, <1>8 DEF KeysOf
  <2>3. /\ \A n \in N : other[n].key # None <=> n = f \/ node[n].key # None
        /\ \A n \in N : other[n].key # None /\ other[n].val = Nil =>
              node[n].key # None /\ node[n].val = Nil
    BY <2>1, <1>2
  <2> QED BY <2>2, <2>3, <1>22, Zenon DEF Placed
<1>24. WellChained(other)
  BY <1>14, <1>17, <1>18, <1>19, <1>20 DEF Chained, WellChained
<1> QED BY <1>23, <1>24 DEF other

(* The node whose entry makes way: its predecessor in its chain.           *)
LEMMA PredecessorFound ==
    ASSUME NEW node, NEW c, NEW r, Chained(node, c, r), NEW mp \in DOMAIN node, node[mp].key # None,
           MainPos(node, node[mp].key) # mp
    PROVE  LET path == Chain(node, MainPos(node, node[mp].key))
               pred == CHOOSE p \in Range(path) \ {None} : node[p].next = mp
           IN  /\ pred \in DOMAIN node /\ node[pred].next = mp /\ c[pred] = c[mp] /\ r[pred] < r[mp]
               /\ pred # mp /\ node[pred].key # None
               /\ \A p \in DOMAIN node : node[p].next = mp => p = pred
<1> DEFINE N == DOMAIN node
           size == Size(node)
           h == MainPos(node, node[mp].key)
           path == Chain(node, h)
           pred == CHOOSE p \in Range(path) \ {None} : node[p].next = mp
<1>1. IsNodes(node) /\ Linked(node, c, r) /\ Homed(node, c, r)
  BY DEF Chained
<1>2. c[h] = c[mp] /\ r[h] <= r[mp]
  BY <1>1, Zenon DEF Homed
<1>3. h \in N
  <2>1. node[mp].key \in Keys
    BY <1>1 DEF IsNodes, NodeType
  <2> QED BY <2>1, <1>1, MainPosInside
<1>4. /\ path \in [0..size -> N \cup {None}] /\ path[0] = h /\ size \in Nat
      /\ \A j \in 0..size - 1 : path[j + 1] = IF path[j] = None THEN None ELSE node[path[j]].next
  BY <1>1, <1>3, ChainExists, NodesFinite
<1>5. PICK j \in 0..size : path[j] = mp
  BY <1>1, <1>2, <1>3, WalkMeets
<1>6. mp # None /\ h # mp
  BY <1>1, NodesFinite
<1> HIDE DEF path, h
<1>7. j - 1 \in 0..size - 1 /\ j - 1 \in 0..size /\ j - 1 + 1 = j
  BY <1>4, <1>5, <1>6
<1>8. path[j - 1] \in N /\ node[path[j - 1]].next = mp /\ path[j - 1] # None
  BY <1>4, <1>5, <1>6, <1>7
<1>9. path[j - 1] \in Range(path)
  BY <1>7, <1>4 DEF Range
<1>10. pred \in Range(path) \ {None} /\ node[pred].next = mp
  BY <1>8, <1>9
<1> HIDE DEF pred
<1>11. pred \in N
  BY <1>10, <1>4 DEF Range
<1>12. c[mp] = c[pred] /\ r[pred] < r[mp]
  BY <1>10, <1>11, <1>1, <1>6 DEF Linked
<1>13. r[pred] \in Nat /\ r[mp] \in Nat
  BY <1>1, <1>11 DEF Linked
<1>14. pred # mp
  BY <1>12, <1>13
<1>15. node[pred].key # None
  BY <1>11, <1>12, <1>14, UnkeyedAlone
<1>16. \A p \in DOMAIN node : node[p].next = mp => p = pred
  BY <1>1, <1>6, <1>10, <1>11, NextInjective
<1> QED BY <1>10, <1>11, <1>12, <1>14, <1>15, <1>16 DEF pred, path, h

(* The entry at the main position of the new key goes to a free node.      *)
LEMMA EvictChains ==
    ASSUME NEW node, NEW c, NEW r, Chained(node, c, r), NEW k \in Keys, NEW v \in Values, Absent(node, k),
           NEW f \in DOMAIN node, node[f].key = None,
           NEW mp \in DOMAIN node, mp = MainPos(node, k), node[mp].val # Nil,
           MainPos(node, node[mp].key) # mp
    PROVE  LET other == Evict(node, mp, f, k, v)
           IN  WellChained(other) /\ Placed(node, other, f, k, v)
<1> DEFINE N == DOMAIN node
           pred == CHOOSE p \in Range(Chain(node, MainPos(node, node[mp].key))) \ {None} : node[p].next = mp
           other == Evict(node, mp, f, k, v)
           way == [n \in N |-> IF n = f THEN mp ELSE IF n = mp THEN f ELSE n]
           d == [n \in N |-> c[way[n]]]
           s == [n \in N |-> r[way[n]]]
<1>1. IsNodes(node) /\ Linked(node, c, r) /\ Homed(node, c, r) /\ LiveFirst(node, r) /\ DeadEmpty(node)
  BY DEF Chained
<1>2. k # None /\ v # Nil /\ None \notin N
  BY <1>1, TableAssumption, NodesFinite
<1>3. /\ node[f].next = None /\ node[f].val = Nil
      /\ \A m \in N : c[m] = c[f] => m = f
      /\ \A m \in N : node[m].next # f
  BY UnkeyedAlone
<1>4. f # mp
  BY <1>3
<1>5. node[mp].key \in Keys /\ node[mp].key # None /\ ~node[mp].dead
  <2>1. mp \in Filled(node)
    BY DEF Filled
  <2> QED BY <2>1, FilledAlive
<1>6. /\ pred \in N /\ node[pred].next = mp /\ c[pred] = c[mp] /\ r[pred] < r[mp]
      /\ pred # mp /\ node[pred].key # None
      /\ \A p \in N : node[p].next = mp => p = pred
  BY <1>5, PredecessorFound
<1>7. pred # f
  BY <1>6
<1>8. other = [node EXCEPT ![pred].next = f, ![f] = node[mp], ![mp] = Holding(Unused, k, v)]
  BY Zenon DEF Evict
<1> HIDE DEF pred, other
<1>9. /\ other[f] = node[mp]
      /\ other[mp] = Holding(Unused, k, v)
      /\ other[pred] = [node[pred] EXCEPT !.next = f]
      /\ \A n \in N : n # f /\ n # mp /\ n # pred => other[n] = node[n]
      /\ DOMAIN other = N
  BY <1>4, <1>6, <1>7, <1>8
<1>10. \A n \in N : node[n] \in NodeType /\ node[n].next \in N \cup {None}
  BY <1>1 DEF IsNodes
<1>11. /\ other[mp].key = k /\ ~other[mp].dead /\ other[mp].val = v
       /\ other[mp].next = None /\ other[mp] \in NodeType
  BY <1>9 DEF Holding, Unused, NodeType
<1>12. /\ other[pred].key = node[pred].key /\ other[pred].dead = node[pred].dead
       /\ other[pred].val = node[pred].val
       /\ other[pred].next = f /\ other[pred] \in NodeType
  <2>1. f \in Nat
    BY <1>1, NodesFinite
  <2> QED BY <2>1, <1>6, <1>9, <1>10 DEF NodeType
<1>13. \A j : MainPos(other, j) = MainPos(node, j)
  <2>1. DOMAIN other = DOMAIN node
    BY <1>9
  <2> QED BY <2>1, MainPosSame, Zenon
<1>14. /\ way \in [N -> N] /\ way[f] = mp /\ way[mp] = f
       /\ \A n \in N : n # f /\ n # mp => way[n] = n
       /\ \A n \in N : way[way[n]] = n
  BY <1>4
<1> HIDE DEF way
<1>15. \A n \in N : n # mp =>
         /\ way[n] # f
         /\ other[n].key = node[way[n]].key /\ other[n].dead = node[way[n]].dead
         /\ other[n].val = node[way[n]].val
  <2> TAKE n \in N
  <2> HAVE n # mp
  <2>1. CASE n = f
    BY <2>1, <1>4, <1>9, <1>14
  <2>2. CASE n = pred
    BY <2>2, <1>6, <1>7, <1>12, <1>14
  <2>3. CASE n # f /\ n # pred
    BY <2>3, <1>9, <1>14
  <2> QED BY <2>1, <2>2, <2>3
<1>16. \A n \in N : /\ node[way[n]].next = None => other[n].next = None
                    /\ node[way[n]].next # None => /\ node[way[n]].next \in N
                                                   /\ other[n].next = way[node[way[n]].next]
  <2> TAKE n \in N
  <2> DEFINE q == node[way[n]].next
  <2>1. q \in N \cup {None} /\ q # f
    BY <1>3, <1>10, <1>14
  <2>2. CASE n = mp
    BY <2>2, <1>3, <1>11, <1>14
  <2>3. CASE n = f
    <3>1. q = node[mp].next /\ other[n].next = q
      BY <2>3, <1>9, <1>14
    <3>2. q # mp
      BY <3>1, <1>6
    <3> HIDE DEF q
    <3>3. q # None => q \in N /\ way[q] = q
      BY <3>2, <2>1, <1>14
    <3> QED BY <3>1, <3>3 DEF q
  <2>4. CASE n = pred
    BY <2>4, <1>2, <1>6, <1>7, <1>12, <1>14
  <2>5. CASE n # mp /\ n # f /\ n # pred
    <3>1. q = node[n].next /\ other[n].next = q
      BY <2>5, <1>9, <1>14
    <3>2. q # mp
      BY <3>1, <2>5, <1>6
    <3> HIDE DEF q
    <3>3. q # None => q \in N /\ way[q] = q
      BY <3>2, <2>1, <1>14
    <3> QED BY <3>1, <3>3 DEF q
  <2> QED BY <2>2, <2>3, <2>4, <2>5
<1>17. IsNodes(other)
  <2>1. \A n \in N : other[n] \in NodeType
    BY <1>9, <1>10, <1>11, <1>12
  <2>2. \A n \in N : other[n].next \in N \cup {None}
    BY <1>14, <1>16
  <2> QED BY <2>1, <2>2, <1>1, <1>9 DEF IsNodes, Size
<1>18. /\ c \in [N -> N] /\ r \in [N -> Nat]
       /\ \A m, n \in N : c[m] = c[n] /\ r[m] = r[n] => m = n
       /\ \A m, n \in N : c[m] = c[n] /\ r[m] < r[n] => node[m].next # None /\ r[node[m].next] <= r[n]
       /\ \A m \in N : node[m].next # None => c[node[m].next] = c[m] /\ r[m] < r[node[m].next]
  BY <1>1 DEF Linked
<1>19. /\ d \in [N -> N] /\ s \in [N -> Nat]
       /\ \A n \in N : d[n] = c[way[n]] /\ s[n] = r[way[n]] /\ way[n] \in N
       /\ \A n \in N : d[way[n]] = c[n] /\ s[way[n]] = r[n]
  BY <1>14, <1>18
<1> HIDE DEF d, s
<1>20. Linked(other, d, s)
  <2>1. ASSUME NEW m \in N, other[m].next # None
        PROVE  d[other[m].next] = d[m] /\ s[m] < s[other[m].next]
    <3> DEFINE q == node[way[m]].next
    <3>1. q \in N /\ other[m].next = way[q] /\ q # None
      BY <2>1, <1>16
    <3>2. c[q] = c[way[m]] /\ r[way[m]] < r[q]
      BY <3>1, <1>18, <1>19
    <3> HIDE DEF q
    <3> QED BY <3>1, <3>2, <1>19
  <2>2. ASSUME NEW m \in N, NEW n \in N, d[m] = d[n], s[m] < s[n]
        PROVE  other[m].next # None /\ s[other[m].next] <= s[n]
    <3> DEFINE q == node[way[m]].next
    <3>1. c[way[m]] = c[way[n]] /\ r[way[m]] < r[way[n]]
      BY <2>2, <1>19
    <3>2. q # None /\ r[q] <= r[way[n]]
      BY <3>1, <1>18, <1>19
    <3>3. q \in N /\ other[m].next = way[q]
      BY <3>2, <1>16
    <3> HIDE DEF q
    <3> QED BY <3>2, <3>3, <1>2, <1>19
  <2>3. ASSUME NEW m \in N, NEW n \in N, d[m] = d[n], s[m] = s[n]
        PROVE  m = n
    <3>1. way[m] = way[n]
      BY <2>3, <1>18, <1>19
    <3> QED BY <3>1, <1>14
  <2> QED BY <2>1, <2>2, <2>3, <1>9, <1>19 DEF Linked
<1>21. \A n \in N : node[n].key # None =>
         LET h == MainPos(node, node[n].key)
         IN  /\ h \in N /\ h # f /\ h # mp /\ way[h] = h
             /\ c[h] = c[n] /\ r[h] <= r[n] /\ node[h].key # None
             /\ MainPos(node, node[h].key) = h
  <2> TAKE n \in N
  <2> HAVE node[n].key # None
  <2> DEFINE h == MainPos(node, node[n].key)
  <2>1. /\ c[h] = c[n] /\ r[h] <= r[n] /\ node[h].key # None
        /\ MainPos(node, node[h].key) = h
    BY <1>1, Zenon DEF Homed
  <2>2. h \in N
    <3>1. node[n].key \in Keys
      BY <1>10 DEF NodeType
    <3> QED BY <3>1, <1>1, MainPosInside
  <2> HIDE DEF h
  <2>3. h # f /\ h # mp
    BY <2>1
  <2> QED BY <2>1, <2>2, <2>3, <1>14 DEF h
<1>22. Homed(other, d, s)
  <2>1. ASSUME NEW n \in N, other[n].key = None
        PROVE  other[n] = Unused /\ \A m \in N : d[m] = d[n] => m = n
    <3>1. n # f /\ n # mp /\ n # pred /\ other[n] = node[n] /\ way[n] = n
      BY <2>1, <1>2, <1>5, <1>6, <1>9, <1>11, <1>12, <1>14
    <3>2. other[n] = Unused /\ \A m \in N : c[m] = c[n] => m = n
      BY <2>1, <3>1, <1>1 DEF Homed
    <3>3. ASSUME NEW m \in N, d[m] = d[n] PROVE m = n
      <4>1. way[m] = n
        BY <3>1, <3>2, <3>3, <1>19
      <4> QED BY <4>1, <3>1, <1>14
    <3> QED BY <3>2, <3>3
  <2>2. ASSUME NEW n \in N, other[n].key # None
        PROVE  LET h == MainPos(other, other[n].key)
               IN  /\ d[h] = d[n] /\ s[h] <= s[n] /\ other[h].key # None
                   /\ MainPos(other, other[h].key) = h
    <3>1. CASE n = mp
      <4>1. MainPos(other, other[n].key) = mp
        BY <3>1, <1>11, <1>13, Zenon
      <4>2. s[mp] \in Nat
        BY <1>19
      <4> QED BY <4>1, <4>2, <3>1, <1>2, <1>11
    <3>2. CASE n # mp
      <4> DEFINE h == MainPos(node, node[way[n]].key)
      <4>1. other[n].key = node[way[n]].key /\ way[n] \in N
        BY <3>2, <1>15, <1>19
      <4>2. /\ h \in N /\ h # f /\ h # mp /\ way[h] = h
            /\ c[h] = c[way[n]] /\ r[h] <= r[way[n]] /\ node[h].key # None
            /\ MainPos(node, node[h].key) = h
        BY <4>1, <2>2, <1>21
      <4> HIDE DEF h
      <4>3. MainPos(other, other[n].key) = h
        BY <4>1, <1>13, Zenon DEF h
      <4>4. other[h].key = node[h].key
        BY <4>2, <1>15
      <4>5. d[h] = d[n] /\ s[h] <= s[n]
        BY <4>2, <1>19
      <4>6. MainPos(other, other[h].key) = h /\ other[h].key # None
        BY <4>2, <4>4, <1>13
      <4> QED BY <4>3, <4>5, <4>6
    <3> QED BY <3>1, <3>2
  <2> QED BY <2>1, <2>2, <1>9, Zenon DEF Homed
<1>23. \A n \in N : node[n].key # k
  BY <1>2, <1>21
<1>24. LiveFirst(other, s)
  <2> SUFFICES ASSUME NEW m \in N, NEW n \in N, m # n, other[m].key = other[n].key, other[n].key # None,
                      ~other[m].dead
               PROVE  other[n].dead /\ s[m] < s[n]
    BY <1>9 DEF LiveFirst
  <2>1. m # mp /\ n # mp
    BY <1>11, <1>14, <1>15, <1>23
  <2>2. way[m] # way[n] /\ way[m] \in N /\ way[n] \in N
    BY <1>14
  <2>3. node[way[n]].dead /\ r[way[m]] < r[way[n]]
    BY <2>1, <2>2, <1>1, <1>15 DEF LiveFirst
  <2> QED BY <2>1, <2>3, <1>15, <1>19
<1>25. DeadEmpty(other)
  BY <1>1, <1>9, <1>11, <1>14, <1>15 DEF DeadEmpty
<1>26. \A x : x \in Pairs(other) <=> x = <<k, v>> \/ x \in Pairs(node)
  <2>1. mp \in Filled(other)
    BY <1>2, <1>9, <1>11 DEF Filled
  <2>2. \A n \in Filled(other) : n # mp => /\ way[n] \in Filled(node) /\ other[n].key = node[way[n]].key
                                           /\ other[n].val = node[way[n]].val
    BY <1>9, <1>14, <1>15 DEF Filled
  <2>3. \A n \in Filled(node) : /\ way[n] \in Filled(other) /\ other[way[n]].key = node[n].key
                                /\ other[way[n]].val = node[n].val
    <3> TAKE n \in Filled(node)
    <3>1. n \in N /\ node[n].val # Nil /\ n # f
      BY <1>3 DEF Filled
    <3>2. way[n] \in N /\ way[n] # mp /\ way[way[n]] = n
      BY <3>1, <1>14
    <3> QED BY <3>1, <3>2, <1>9, <1>15 DEF Filled
  <2>4. ASSUME NEW x \in Pairs(other) PROVE x = <<k, v>> \/ x \in Pairs(node)
    BY <2>2, <1>11 DEF Pairs
  <2>5. <<k, v>> \in Pairs(other)
    BY <2>1, <1>11 DEF Pairs
  <2>6. ASSUME NEW x \in Pairs(node) PROVE x \in Pairs(other)
    BY <2>3 DEF Pairs
  <2> QED BY <2>4, <2>5, <2>6
<1>27. Stored(node, other, k, v)
  BY <1>26, <1>9, StoredNew
<1>28. Placed(node, other, f, k, v)
  <2>1. KeysOf(other) \subseteq KeysOf(node) \cup {k}
    <3>1. \A n \in N : other[n].key = k \/ (way[n] \in N /\ other[n].key = node[way[n]].key)
      BY <1>11, <1>15, <1>19
    <3> QED BY <3>1, <1>9 DEF KeysOf
  <2>2. ASSUME NEW n \in N
        PROVE  /\ other[n].key # None <=> n = f \/ node[n].key # None
               /\ other[n].key # None /\ other[n].val = Nil => node[n].key # None /\ node[n].val = Nil
    <3>1. CASE n = mp
      BY <3>1, <1>2, <1>5, <1>11
    <3>2. CASE n = f
      BY <3>2, <1>5, <1>9
    <3>3. CASE n # mp /\ n # f
      BY <3>3, <1>14, <1>15
    <3> QED BY <3>1, <3>2, <3>3
  <2> QED BY <2>1, <2>2, <1>27, Zenon DEF Placed
<1>29. WellChained(other)
  BY <1>17, <1>20, <1>22, <1>24, <1>25 DEF Chained, WellChained
<1> QED BY <1>28, <1>29 DEF other

-----------------------------------------------------------------------------
(* Tables.                                                                 *)

(* The nodes from lastfree on all have a key.                              *)
NodesOK(tab) ==
    /\ WellChained(tab.node)
    /\ tab.free \in 0..Size(tab.node)
    /\ \A n \in DOMAIN tab.node : n >= tab.free => tab.node[n].key # None

(* The keys of the array are not among the nodes.                          *)
TabOK(tab) ==
    /\ tab = [lim |-> tab.lim, real |-> tab.real, arr |-> tab.arr, node |-> tab.node, free |-> tab.free]
    /\ ArrayOK(tab) /\ NodesOK(tab)
    /\ KeysOf(tab.node) \cap 1..RealSize(tab) = {}

(* What a table holds.                                                     *)
Holds(tab, k, v) == IF k \in 1..RealSize(tab) THEN tab.arr[k] = v ELSE <<k, v>> \in Pairs(tab.node)

(* getfreepos: the node it finds has no key, and all behind it have one.   *)
LEMMA FreePosFree ==
    ASSUME NEW tab, NodesOK(tab)
    PROVE  LET f == FreePos(tab)
           IN  /\ f = None => \A n \in DOMAIN tab.node : tab.node[n].key # None
               /\ f # None => /\ f \in DOMAIN tab.node /\ tab.node[f].key = None
                              /\ f \in 0..Size(tab.node)
                              /\ \A n \in DOMAIN tab.node : n >= f /\ n # f => tab.node[n].key # None
<1> DEFINE N == DOMAIN tab.node
           size == Size(tab.node)
           free == {i \in N : i < tab.free /\ tab.node[i].key = None}
           down == {size - i : i \in free}
<1>1. /\ size \in Nat /\ N = 0..size - 1 /\ None \notin N /\ tab.free \in 0..size
      /\ \A n \in N : n >= tab.free => tab.node[n].key # None
  BY NodesFinite DEF NodesOK, WellChained, Chained, IsNodes
<1>2. FreePos(tab) = IF free = {} THEN None ELSE Max(free)
  BY Zenon DEF FreePos
<1> HIDE DEF size
<1>3. \A i \in free : i \in Nat /\ size - i \in Nat /\ size - i \in down
  BY <1>1
<1>4. CASE free = {}
  <2>1. \A n \in N : tab.node[n].key # None
    <3> TAKE n \in N
    <3>1. n < tab.free \/ n >= tab.free
      BY <1>1
    <3> QED BY <3>1, <1>1, <1>4
  <2> HIDE DEF free
  <2> QED BY <2>1, <1>2, <1>4
<1>5. CASE free # {}
  <2>1. PICK x \in down : \A y \in down : x <= y
    <3>1. down \in SUBSET Nat /\ down # {}
      BY <1>3, <1>5
    <3> HIDE DEF down
    <3> QED BY <3>1, Least
  <2>2. PICK i \in free : x = size - i
    BY <2>1
  <2>3. \A j \in free : i >= j
    <3> TAKE j \in free
    <3>1. size - j \in down /\ size - j >= size - i
      BY <2>1, <2>2, <1>3
    <3> HIDE DEF down, free
    <3> QED BY <3>1, <1>1, <1>3, <2>2
  <2> DEFINE b == Max(free)
  <2>4. b \in free /\ \A j \in free : b >= j
    BY <2>3, Zenon DEF Max
  <2> HIDE DEF b
  <2>5. b \in N /\ tab.node[b].key = None /\ b \in 0..size /\ b # None
    BY <2>4, <1>1
  <2>6. ASSUME NEW n \in N, n >= b, n # b PROVE tab.node[n].key # None
    <3>1. n \notin free
      BY <2>4, <2>5, <2>6, <1>1
    <3>2. n < tab.free \/ n >= tab.free
      BY <1>1
    <3> QED BY <3>1, <3>2, <1>1
  <2> HIDE DEF free
  <2> QED BY <2>5, <2>6, <1>2, <1>5 DEF b, size
<1> QED BY <1>4, <1>5

(* No two nodes have the same living key.                                  *)
LEMMA LiveUnique ==
    ASSUME NEW node, NEW c, NEW r, Chained(node, c, r), NEW m \in DOMAIN node, NEW n \in DOMAIN node,
           node[m].key = node[n].key, node[m].key # None, ~node[m].dead, ~node[n].dead
    PROVE  m = n
  BY DEF Chained, LiveFirst

(* getgeneric without deadok: the node of the key, where there is one.     *)
LEMMA FindLive ==
    ASSUME NEW node, NEW c, NEW r, Chained(node, c, r), NEW k \in Keys
    PROVE  LET n == Find(node, k, FALSE)
           IN  /\ n = None => Absent(node, k)
               /\ n # None => n \in DOMAIN node /\ node[n].key = k /\ ~node[n].dead
<1>1. IsNodes(node) /\ Linked(node, c, r) /\ Homed(node, c, r)
  BY DEF Chained
<1> DEFINE n == Find(node, k, FALSE)
<1>2. /\ n = None => \A m \in DOMAIN node : ~(node[m].key = k /\ (node[m].dead => FALSE))
      /\ n # None => n \in DOMAIN node /\ node[n].key = k /\ (node[n].dead => FALSE)
  BY <1>1, FindFinds
<1> HIDE DEF n
<1> QED BY <1>2 DEF Absent, n

(* What luaH_get finds is what the table holds.                            *)
LEMMA GetHolds ==
    ASSUME NEW tab, TabOK(tab), NEW k \in Keys
    PROVE  /\ Get(tab, k) \in Cells
           /\ \A v \in Values : Get(tab, k) = v <=> Holds(tab, k, v)
<1>1. ArrayOK(tab) /\ NodesOK(tab)
  BY DEF TabOK
<1>2. InArray(tab, k) <=> k \in 1..RealSize(tab)
  BY <1>1, InArrayIff
<1>3. CASE k \in 1..RealSize(tab)
  <2>1. tab.arr \in [1..RealSize(tab) -> Cells]
    BY <1>1 DEF ArrayOK
  <2>2. Get(tab, k) = tab.arr[k]
    BY <1>2, <1>3 DEF Get
  <2> QED BY <2>1, <2>2, <1>3 DEF Holds
<1>4. CASE k \notin 1..RealSize(tab)
  <2> DEFINE node == tab.node
             n == Find(node, k, FALSE)
  <2>1. PICK c, r : Chained(node, c, r)
    BY <1>1 DEF NodesOK, WellChained
  <2>2. Get(tab, k) = IF n = None THEN Nil ELSE node[n].val
    BY <1>2, <1>4, Zenon DEF Get
  <2>3. /\ n = None => Absent(node, k)
        /\ n # None => n \in DOMAIN node /\ node[n].key = k /\ ~node[n].dead
    BY <2>1, FindLive
  <2>4. \A m \in Filled(node) : m \in DOMAIN node /\ node[m].key \in Keys /\ node[m].key # None /\ ~node[m].dead
    BY <2>1, FilledAlive DEF Filled
  <2> HIDE DEF n
  <2>5. ASSUME NEW v \in Values PROVE Get(tab, k) = v <=> <<k, v>> \in Pairs(node)
    <3>1. v # Nil
      BY TableAssumption
    <3>2. ASSUME Get(tab, k) = v PROVE <<k, v>> \in Pairs(node)
      <4>1. n # None /\ node[n].val = v
        BY <2>2, <3>1, <3>2
      <4>2. n \in Filled(node) /\ node[n].key = k
        BY <4>1, <2>3, <3>1 DEF Filled
      <4> QED BY <4>1, <4>2 DEF Pairs
    <3>3. ASSUME <<k, v>> \in Pairs(node) PROVE Get(tab, k) = v
      <4>1. PICK m \in Filled(node) : node[m].key = k /\ node[m].val = v
        BY <3>3 DEF Pairs
      <4>2. n # None
        BY <4>1, <2>3, <2>4 DEF Absent
      <4>3. m = n
        BY <4>1, <4>2, <2>1, <2>3, <2>4, LiveUnique
      <4> QED BY <4>1, <4>2, <4>3, <2>2
    <3> QED BY <3>2, <3>3
  <2>6. Get(tab, k) \in Cells
    <3>1. \A m \in DOMAIN node : node[m].val \in Cells
      BY <2>1 DEF Chained, IsNodes, NodeType, Cells
    <3> QED BY <3>1, <2>2, <2>3 DEF Cells
  <2>7. \A v \in Values : Holds(tab, k, v) <=> <<k, v>> \in Pairs(node)
    BY <1>4 DEF Holds
  <2> QED BY <2>5, <2>6, <2>7
<1> QED BY <1>3, <1>4

(* Two tables that hold the same for a key give the same.                  *)
LEMMA SameGet ==
    ASSUME NEW tab, NEW new, TabOK(tab), TabOK(new), NEW k \in Keys,
           \A v \in Values : Holds(tab, k, v) <=> Holds(new, k, v)
    PROVE  Get(tab, k) = Get(new, k)
<1>1. /\ Get(tab, k) \in Cells /\ \A v \in Values : Get(tab, k) = v <=> Holds(tab, k, v)
      /\ Get(new, k) \in Cells /\ \A v \in Values : Get(new, k) = v <=> Holds(new, k, v)
  BY GetHolds
<1> QED BY <1>1 DEF Cells

(* The nodes are where they were, with the same keys.                      *)
SamePlaces(node, other) ==
    /\ DOMAIN other = DOMAIN node
    /\ \A n \in DOMAIN node : other[n].key = node[n].key /\ other[n].next = node[n].next

(* The value of an entry changes.                                          *)
LEMMA ValueChains ==
    ASSUME NEW node, NEW c, NEW r, Chained(node, c, r), NEW k \in Keys, NEW v \in Cells,
           NEW n \in DOMAIN node, node[n].key = k, ~node[n].dead
    PROVE  LET other == [node EXCEPT ![n].val = v]
           IN  /\ Chained(other, c, r) /\ SamePlaces(node, other)
               /\ \A j \in Keys, w \in Values :
                     <<j, w>> \in Pairs(other) <=> IF j = k THEN w = v ELSE <<j, w>> \in Pairs(node)
               /\ \A m \in DOMAIN node : other[m].val = IF m = n THEN v ELSE node[m].val
<1> DEFINE N == DOMAIN node
           other == [node EXCEPT ![n].val = v]
<1>1. IsNodes(node) /\ Linked(node, c, r) /\ Homed(node, c, r) /\ LiveFirst(node, r) /\ DeadEmpty(node)
  BY DEF Chained
<1>2. k # None
  BY TableAssumption
<1>3. /\ DOMAIN other = N /\ \A m \in N : m # n => other[m] = node[m]
      /\ other[n] = [node[n] EXCEPT !.val = v]
  OBVIOUS
<1>4. \A m \in N : node[m] \in NodeType /\ node[m].next \in N \cup {None}
  BY <1>1 DEF IsNodes
<1>5. /\ other[n].key = k /\ ~other[n].dead /\ other[n].val = v /\ other[n].next = node[n].next
      /\ other[n] \in NodeType
  BY <1>3, <1>4 DEF NodeType, Cells
<1> HIDE DEF other
<1>6. \A m \in N : /\ other[m].key = node[m].key /\ other[m].next = node[m].next
                   /\ other[m].dead <=> node[m].dead
                   /\ other[m].val = IF m = n THEN v ELSE node[m].val
  BY <1>3, <1>5
<1>7. \A j : MainPos(other, j) = MainPos(node, j)
  BY <1>3, MainPosSame, Zenon
<1>8. IsNodes(other)
  <2>1. \A m \in N : other[m] \in NodeType /\ other[m].next \in N \cup {None}
    BY <1>3, <1>4, <1>5
  <2> QED BY <2>1, <1>1, <1>3 DEF IsNodes, Size
<1>9. Linked(other, c, r)
  BY <1>1, <1>3, <1>6 DEF Linked
<1>10. Homed(other, c, r)
  <2>1. ASSUME NEW m \in N, other[m].key = None
        PROVE  other[m] = Unused /\ \A q \in N : c[q] = c[m] => q = m
    <3>1. m # n
      BY <2>1, <1>2, <1>5
    <3> QED BY <2>1, <3>1, <1>1, <1>3 DEF Homed
  <2>2. ASSUME NEW m \in N, other[m].key # None
        PROVE  LET h == MainPos(other, other[m].key)
               IN  /\ c[h] = c[m] /\ r[h] <= r[m] /\ other[h].key # None
                   /\ MainPos(other, other[h].key) = h
    <3> DEFINE h == MainPos(node, node[m].key)
    <3>1. other[m].key = node[m].key
      BY <1>6
    <3>2. /\ c[h] = c[m] /\ r[h] <= r[m] /\ node[h].key # None
          /\ MainPos(node, node[h].key) = h
      BY <3>1, <2>2, <1>1, Zenon DEF Homed
    <3>3. h \in N
      <4>1. node[m].key \in Keys
        BY <3>1, <2>2, <1>4 DEF NodeType
      <4> QED BY <4>1, <1>1, MainPosInside
    <3> HIDE DEF h
    <3>4. MainPos(other, other[m].key) = h
      BY <3>1, <1>7, Zenon DEF h
    <3> QED BY <3>2, <3>3, <3>4, <1>6, <1>7
  <2> QED BY <2>1, <2>2, <1>3, Zenon DEF Homed
<1>11. LiveFirst(other, r)
  BY <1>1, <1>3, <1>6 DEF LiveFirst
<1>12. DeadEmpty(other)
  BY <1>1, <1>3, <1>6 DEF DeadEmpty
<1>13. ASSUME NEW j \in Keys, NEW w \in Values
       PROVE  <<j, w>> \in Pairs(other) <=> IF j = k THEN w = v ELSE <<j, w>> \in Pairs(node)
  <2>0. w # Nil /\ j # None
    BY TableAssumption
  <2>1. CASE j = k
    <3>1. ASSUME <<j, w>> \in Pairs(other) PROVE w = v
      <4>1. PICK m \in Filled(other) : other[m].key = k /\ other[m].val = w
        BY <2>1, <3>1 DEF Pairs
      <4>2. m \in N /\ ~other[m].dead
        BY <4>1, <1>3, <1>8, <1>9, <1>10, <1>11, <1>12, FilledAlive DEF Chained, Filled
      <4>3. m = n
        BY <4>1, <4>2, <1>2, <1>6, LiveUnique
      <4> QED BY <4>1, <4>3, <1>5
    <3>2. ASSUME w = v PROVE <<j, w>> \in Pairs(other)
      <4>1. n \in Filled(other)
        BY <3>2, <2>0, <1>3, <1>5 DEF Filled
      <4> QED BY <4>1, <2>1, <3>2, <1>5 DEF Pairs
    <3> QED BY <2>1, <3>1, <3>2
  <2>2. CASE j # k
    <3>1. ASSUME <<j, w>> \in Pairs(other) PROVE <<j, w>> \in Pairs(node)
      <4>1. PICK m \in Filled(other) : other[m].key = j /\ other[m].val = w
        BY <3>1 DEF Pairs
      <4>2. m # n /\ m \in N
        BY <4>1, <2>2, <1>3, <1>5 DEF Filled
      <4>3. m \in Filled(node) /\ node[m].key = j /\ node[m].val = w
        BY <4>1, <4>2, <2>0, <1>3 DEF Filled
      <4> QED BY <4>3 DEF Pairs
    <3>2. ASSUME <<j, w>> \in Pairs(node) PROVE <<j, w>> \in Pairs(other)
      <4>1. PICK m \in Filled(node) : node[m].key = j /\ node[m].val = w
        BY <3>2 DEF Pairs
      <4>2. m # n /\ m \in N
        BY <4>1, <2>2 DEF Filled
      <4>3. m \in Filled(other) /\ other[m].key = j /\ other[m].val = w
        BY <4>1, <4>2, <2>0, <1>3 DEF Filled
      <4> QED BY <4>3 DEF Pairs
    <3> QED BY <2>2, <3>1, <3>2
  <2> QED BY <2>1, <2>2
<1>14. Chained(other, c, r)
  BY <1>8, <1>9, <1>10, <1>11, <1>12, Zenon DEF Chained
<1>15. SamePlaces(node, other)
  BY <1>3, <1>6 DEF SamePlaces
<1> QED BY <1>6, <1>13, <1>14, <1>15 DEF other

(* The limit that luaH_getint moves stands for the same size.              *)
LEMMA ProbedSame ==
    ASSUME NEW tab, TabOK(tab), NEW k \in Keys
    PROVE  LET new == Probed(tab, k)
           IN  /\ TabOK(new) /\ RealSize(new) = RealSize(tab)
               /\ new.arr = tab.arr /\ new.node = tab.node /\ new.free = tab.free
               /\ new = [lim |-> new.lim, real |-> new.real, arr |-> tab.arr,
                         node |-> tab.node, free |-> tab.free]
<1> DEFINE size == RealSize(tab)
           new == Probed(tab, k)
<1>1. tab = [lim |-> tab.lim, real |-> tab.real, arr |-> tab.arr, node |-> tab.node, free |-> tab.free]
  BY DEF TabOK
<1>2. ArrayOK(tab) /\ NodesOK(tab) /\ KeysOf(tab.node) \cap 1..size = {}
  BY DEF TabOK
<1>3. /\ size \in 0..MaxArray /\ size \in Nat /\ tab.arr \in [1..size -> Cells]
      /\ tab.real \in BOOLEAN /\ tab.lim \in 0..size
      /\ tab.real => tab.lim = size
      /\ ~tab.real => Pow2(size) /\ size < 2 * tab.lim
  BY <1>2, TableAssumption DEF ArrayOK
<1>4. CASE ~(k \in Ints /\ AfterHint(tab, k))
  <2>1. new = tab
    BY <1>4 DEF Probed
  <2> QED BY <2>1, <1>1
<1>5. CASE k \in Ints /\ AfterHint(tab, k)
  <2>1. new = [tab EXCEPT !.lim = k]
    BY <1>5 DEF Probed
  <2>2. /\ new = [lim |-> k, real |-> tab.real, arr |-> tab.arr, node |-> tab.node, free |-> tab.free]
        /\ new.lim = k /\ new.real = tab.real /\ new.arr = tab.arr
        /\ new.node = tab.node /\ new.free = tab.free
    BY <1>1, <2>1
  <2>3. k \in 1..size /\ ~tab.real /\ k > tab.lim
    BY <1>2, <1>5, InArrayIff DEF InArray, AfterHint
  <2> HIDE DEF new, size
  <2>9. ~new.real /\ new.real \in BOOLEAN
    BY <2>2, <2>3, <1>3
  <2>10. k \in 0..size /\ Pow2(size) /\ size < 2 * k
    BY <2>3, <1>3
  <2>4. new.lim \in 0..size /\ (new.real => new.lim = size) /\ (~new.real => Pow2(size) /\ size < 2 * new.lim)
    BY <2>2, <2>9, <2>10
  <2>5. RealSize(new) = size
    BY <2>4, <1>3, SizeOfLimit
  <2>6. ArrayOK(new)
    BY <2>2, <2>4, <2>5, <2>9, <1>3 DEF ArrayOK
  <2>7. NodesOK(new)
    BY <2>2, <1>2 DEF NodesOK
  <2>8. TabOK(new)
    BY <2>2, <2>5, <2>6, <2>7, <1>2 DEF TabOK
  <2> QED BY <2>2, <2>5, <2>8 DEF new, size
<1> QED BY <1>4, <1>5

-----------------------------------------------------------------------------
(* Storing in a table.                                                     *)

(* No node has a key without a value.                                      *)
Compact(node) == \A n \in DOMAIN node : node[n].key # None => node[n].val # Nil

(* A record with two new fields.                                           *)
LEMMA FreeAndNodes ==
    ASSUME NEW tab, NEW node, NEW free,
           tab = [lim |-> tab.lim, real |-> tab.real, arr |-> tab.arr, node |-> tab.node, free |-> tab.free]
    PROVE  [tab EXCEPT !.free = free, !.node = node]
             = [lim |-> tab.lim, real |-> tab.real, arr |-> tab.arr, node |-> node, free |-> free]
<1> DEFINE mid == [tab EXCEPT !.free = free]
<1>1. mid = [lim |-> tab.lim, real |-> tab.real, arr |-> tab.arr, node |-> tab.node, free |-> free]
  OBVIOUS
<1>2. [mid EXCEPT !.node = node] = [tab EXCEPT !.free = free, !.node = node]
  OBVIOUS
<1> HIDE DEF mid
<1>3. [mid EXCEPT !.node = node]
        = [lim |-> tab.lim, real |-> tab.real, arr |-> tab.arr, node |-> node, free |-> free]
  BY <1>1
<1> QED BY <1>2, <1>3, Zenon

(* A table with other nodes.                                               *)
LEMMA NewNodes ==
    ASSUME NEW tab, TabOK(tab), NEW node, NEW free, DOMAIN node = DOMAIN tab.node,
           free \in 0..Size(tab.node), WellChained(node),
           \A n \in DOMAIN node : n >= free => node[n].key # None,
           KeysOf(node) \cap 1..RealSize(tab) = {},
           NEW new, new = [lim |-> tab.lim, real |-> tab.real, arr |-> tab.arr, node |-> node, free |-> free]
    PROVE  /\ TabOK(new) /\ RealSize(new) = RealSize(tab)
           /\ new.arr = tab.arr /\ new.node = node /\ new.free = free
<1>2. /\ new.lim = tab.lim /\ new.real = tab.real /\ new.arr = tab.arr
      /\ new.node = node /\ new.free = free
  OBVIOUS
<1>3. RealSize(new) = RealSize(tab)
  BY <1>2 DEF RealSize, IsSize
<1>4. ArrayOK(new)
  BY <1>2, <1>3 DEF ArrayOK, TabOK
<1>5. Size(node) = Size(tab.node)
  BY Zenon DEF Size
<1>6. NodesOK(new)
  BY <1>2, <1>5 DEF NodesOK
<1>7. TabOK(new)
  BY <1>2, <1>3, <1>4, <1>6 DEF TabOK
<1> QED BY <1>2, <1>3, <1>7

(* A new key is stored when its main position or another node is free.     *)
LEMMA NewKeyPlaces ==
    ASSUME NEW tab, TabOK(tab), NEW k \in Keys, NEW v \in Values, k \notin 1..RealSize(tab),
           Absent(tab.node, k), ~Taken(tab, k) \/ FreePos(tab) # None
    PROVE  LET new == NewKey(tab, k, v)
           IN  /\ TabOK(new) /\ RealSize(new) = RealSize(tab) /\ new.arr = tab.arr
               /\ \E f \in DOMAIN tab.node : Placed(tab.node, new.node, f, k, v)
<1> DEFINE node == tab.node
           mp == MainPos(node, k)
           f == FreePos(tab)
           new == NewKey(tab, k, v)
<1>1. /\ NodesOK(tab) /\ KeysOf(node) \cap 1..RealSize(tab) = {}
      /\ tab = [lim |-> tab.lim, real |-> tab.real, arr |-> tab.arr, node |-> tab.node, free |-> tab.free]
  BY DEF TabOK
<1>2. PICK c, r : Chained(node, c, r)
  BY <1>1 DEF NodesOK, WellChained
<1>3. /\ tab.free \in 0..Size(node)
      /\ \A n \in DOMAIN node : n >= tab.free => node[n].key # None
  BY <1>1 DEF NodesOK
<1>4. ASSUME NEW other, NEW g \in DOMAIN node, Placed(node, other, g, k, v)
      PROVE  /\ DOMAIN other = DOMAIN node
             /\ KeysOf(other) \cap 1..RealSize(tab) = {}
             /\ \A n \in DOMAIN node : other[n].key # None <=> n = g \/ node[n].key # None
  BY <1>1, <1>4 DEF Placed, Stored
<1>5. CASE ~Taken(tab, k)
  <2> DEFINE other == [node EXCEPT ![mp] = Holding(@, k, v)]
  <2>1. DOMAIN node # {} /\ node[mp].val = Nil
    BY <1>5 DEF Taken
  <2>2. Chained(other, c, r) /\ Placed(node, other, mp, k, v)
    BY <2>1, <1>2, OverwriteChains
  <2>3. mp \in DOMAIN node
    BY <2>1, <1>2, MainPosInside DEF Chained
  <2>4. new = [tab EXCEPT !.node[mp] = Holding(@, k, v)]
    BY <1>5, Zenon DEF NewKey
  <2>5. new = [lim |-> tab.lim, real |-> tab.real, arr |-> tab.arr, node |-> other, free |-> tab.free]
    BY <1>1, <2>4
  <2> HIDE DEF other, mp, new
  <2>8. WellChained(other)
    BY <2>2 DEF WellChained
  <2>6. \A n \in DOMAIN node : n >= tab.free => other[n].key # None
    BY <1>3, <1>4, <2>2, <2>3
  <2>7. /\ TabOK(new) /\ RealSize(new) = RealSize(tab)
        /\ new.arr = tab.arr /\ new.node = other
    BY <1>3, <1>4, <2>2, <2>3, <2>5, <2>6, <2>8, NewNodes
  <2> QED BY <2>2, <2>3, <2>7 DEF new
<1>6. CASE Taken(tab, k)
  <2> DEFINE other == IF MainPos(node, node[mp].key) # mp
                      THEN Evict(node, mp, f, k, v) ELSE Behind(node, mp, f, k, v)
  <2>1. f # None
    BY <1>6
  <2>2. /\ f \in DOMAIN node /\ node[f].key = None /\ f \in 0..Size(node)
        /\ \A n \in DOMAIN node : n >= f /\ n # f => node[n].key # None
    BY <1>1, <2>1, FreePosFree
  <2>3. mp \in DOMAIN node /\ node[mp].val # Nil
    BY <1>2, <1>6, <2>2, MainPosInside DEF Taken, Chained
  <2>4. new = [tab EXCEPT !.free = f, !.node = other]
    BY <1>6, <2>1 DEF NewKey
  <2>5. new = [lim |-> tab.lim, real |-> tab.real, arr |-> tab.arr, node |-> other, free |-> f]
    <3> HIDE DEF other, f, new
    <3> QED BY <1>1, <2>4, FreeAndNodes
  <2>6. WellChained(other) /\ Placed(node, other, f, k, v)
    <3>1. CASE MainPos(node, node[mp].key) # mp
      BY <1>2, <2>2, <2>3, <3>1, EvictChains
    <3>2. CASE MainPos(node, node[mp].key) = mp
      BY <1>2, <2>2, <2>3, <3>2, BehindChains
    <3> QED BY <3>1, <3>2
  <2> HIDE DEF other, mp, new, f
  <2>7. \A n \in DOMAIN node : n >= f => other[n].key # None
    BY <1>4, <2>2, <2>6
  <2>8. /\ TabOK(new) /\ RealSize(new) = RealSize(tab)
        /\ new.arr = tab.arr /\ new.node = other
    BY <1>4, <2>2, <2>5, <2>6, <2>7, NewNodes
  <2> QED BY <2>2, <2>6, <2>8 DEF new
<1> QED BY <1>5, <1>6

(* What a store does to a table that is not full.                          *)
Updated(tab, new, k, v) ==
    /\ TabOK(new) /\ RealSize(new) = RealSize(tab) /\ DOMAIN new.node = DOMAIN tab.node
    /\ \A j \in Keys, w \in Values : Holds(new, j, w) <=> IF j = k THEN w = v ELSE Holds(tab, j, w)

(* luaH_set and luaH_setint when no rehash is needed, whatever way they    *)
(* take.                                                                   *)
LEMMA PutUpdates ==
    ASSUME NEW tab, TabOK(tab), NEW k \in Keys, NEW v \in Cells, v = Nil \/ ~Full(tab, k)
    PROVE  LET new == Put(tab, k, v)
           IN  /\ Updated(tab, new, k, v)
               /\ k \in 1..RealSize(tab) => new.node = tab.node
               /\ k \notin 1..RealSize(tab) => KeysOf(new.node) \subseteq KeysOf(tab.node) \cup {k}
               /\ v # Nil /\ Compact(tab.node) => Compact(new.node)
               /\ v = Nil \/ Get(tab, k) # Nil => SamePlaces(tab.node, new.node)
<1> DEFINE node == tab.node
           size == RealSize(tab)
           n == Find(node, k, FALSE)
           new == Put(tab, k, v)
<1>1. /\ ArrayOK(tab) /\ NodesOK(tab) /\ KeysOf(node) \cap 1..size = {}
      /\ tab = [lim |-> tab.lim, real |-> tab.real, arr |-> tab.arr, node |-> tab.node, free |-> tab.free]
  BY DEF TabOK
<1>2. PICK c, r : Chained(node, c, r)
  BY <1>1 DEF NodesOK, WellChained
<1>3. /\ tab.free \in 0..Size(node)
      /\ \A m \in DOMAIN node : m >= tab.free => node[m].key # None
  BY <1>1 DEF NodesOK
<1>4. InArray(tab, k) <=> k \in 1..size
  BY <1>1, InArrayIff
<1>5. /\ n = None => Absent(node, k)
      /\ n # None => n \in DOMAIN node /\ node[n].key = k /\ ~node[n].dead
  BY <1>2, FindLive
<1>6. SamePlaces(node, node)
  BY DEF SamePlaces
<1>7. k # None /\ size \in Nat
  BY <1>1, TableAssumption DEF ArrayOK
<1>8. CASE k \in 1..size
  <2> DEFINE mid == Probed(tab, k)
             arr == [tab.arr EXCEPT ![k] = v]
  <2>1. /\ TabOK(mid) /\ RealSize(mid) = size
        /\ mid.arr = tab.arr /\ mid.node = node /\ mid.free = tab.free
        /\ mid = [lim |-> mid.lim, real |-> mid.real, arr |-> tab.arr, node |-> node, free |-> tab.free]
    BY ProbedSame
  <2>2. new = [mid EXCEPT !.arr[k] = v]
    BY <1>4, <1>8 DEF Put
  <2> HIDE DEF mid, new
  <2>3. /\ new = [lim |-> mid.lim, real |-> mid.real, arr |-> arr, node |-> node, free |-> tab.free]
        /\ new.lim = mid.lim /\ new.real = mid.real /\ new.arr = arr /\ new.node = node
        /\ new.free = tab.free
    BY <2>1, <2>2
  <2>4. RealSize(new) = size
    BY <2>1, <2>3 DEF RealSize, IsSize
  <2>5. arr \in [1..size -> Cells] /\ \A j \in 1..size : arr[j] = IF j = k THEN v ELSE tab.arr[j]
    <3>1. tab.arr \in [1..size -> Cells]
      BY <1>1 DEF ArrayOK
    <3> HIDE DEF size
    <3> QED BY <3>1, <1>8
  <2> HIDE DEF arr, size
  <2>6. ArrayOK(new)
    <3>1. /\ RealSize(mid) \in 0..MaxArray /\ mid.real \in BOOLEAN /\ mid.lim \in 0..RealSize(mid)
          /\ mid.real => mid.lim = RealSize(mid)
          /\ ~mid.real => Pow2(RealSize(mid)) /\ RealSize(mid) < 2 * mid.lim
      BY <2>1 DEF TabOK, ArrayOK
    <3> QED BY <3>1, <2>1, <2>3, <2>4, <2>5 DEF ArrayOK
  <2>7. NodesOK(new)
    BY <1>1, <2>3 DEF NodesOK
  <2>8. TabOK(new)
    BY <2>3, <2>4, <2>6, <2>7, <1>1 DEF TabOK
  <2>9. ASSUME NEW j \in Keys, NEW w \in Values
        PROVE  Holds(new, j, w) <=> IF j = k THEN w = v ELSE Holds(tab, j, w)
    <3>1. CASE j \in 1..size
      <4>1. (Holds(new, j, w) <=> arr[j] = w) /\ (Holds(tab, j, w) <=> tab.arr[j] = w)
        BY <3>1, <2>3, <2>4 DEF Holds, size
      <4> QED BY <4>1, <3>1, <2>5
    <3>2. CASE j \notin 1..size
      <4>1. (Holds(new, j, w) <=> <<j, w>> \in Pairs(node)) /\ (Holds(tab, j, w) <=> <<j, w>> \in Pairs(node))
        BY <3>2, <2>3, <2>4 DEF Holds, size
      <4> QED BY <4>1, <3>2, <1>8
    <3> QED BY <3>1, <3>2
  <2>10. Updated(tab, new, k, v)
    BY <2>3, <2>4, <2>8, <2>9, Zenon DEF Updated, size
  <2> QED BY <2>3, <2>10, <1>6, <1>8 DEF new, size
<1>9. CASE k \notin 1..size /\ n # None
  <2> DEFINE other == [node EXCEPT ![n].val = v]
  <2>1. /\ Chained(other, c, r) /\ SamePlaces(node, other)
        /\ \A j \in Keys, w \in Values :
              <<j, w>> \in Pairs(other) <=> IF j = k THEN w = v ELSE <<j, w>> \in Pairs(node)
        /\ \A m \in DOMAIN node : other[m].val = IF m = n THEN v ELSE node[m].val
    <3> HIDE DEF n
    <3> QED BY <1>2, <1>5, <1>9, ValueChains
  <2>2. new = [tab EXCEPT !.node[n].val = v]
    BY <1>4, <1>9, Zenon DEF Put
  <2> HIDE DEF n
  <2>3. new = [lim |-> tab.lim, real |-> tab.real, arr |-> tab.arr, node |-> other, free |-> tab.free]
    BY <1>1, <2>2
  <2> HIDE DEF new, other
  <2>4. DOMAIN other = DOMAIN node /\ \A m \in DOMAIN node : other[m].key = node[m].key
    BY <2>1 DEF SamePlaces
  <2>5. KeysOf(other) = KeysOf(node)
    BY <2>4 DEF KeysOf
  <2>6. WellChained(other)
    BY <2>1 DEF WellChained
  <2>7. /\ TabOK(new) /\ RealSize(new) = size /\ new.arr = tab.arr /\ new.node = other
    BY <1>1, <1>3, <2>3, <2>4, <2>5, <2>6, NewNodes
  <2> HIDE DEF size
  <2>8. ASSUME NEW j \in Keys, NEW w \in Values
        PROVE  Holds(new, j, w) <=> IF j = k THEN w = v ELSE Holds(tab, j, w)
    <3>1. CASE j \in 1..size
      BY <3>1, <2>7, <1>9 DEF Holds, size
    <3>2. CASE j \notin 1..size
      <4>1. (Holds(new, j, w) <=> <<j, w>> \in Pairs(other)) /\ (Holds(tab, j, w) <=> <<j, w>> \in Pairs(node))
        BY <3>2, <2>7 DEF Holds, size
      <4> QED BY <4>1, <2>1
    <3> QED BY <3>1, <3>2
  <2>9. Updated(tab, new, k, v)
    BY <2>4, <2>7, <2>8, Zenon DEF Updated, size
  <2>10. v # Nil /\ Compact(node) => Compact(other)
    BY <2>1, <2>4 DEF Compact
  <2> QED BY <2>1, <2>5, <2>7, <2>9, <2>10, <1>9 DEF new, size
<1>10. CASE k \notin 1..size /\ n = None
  <2>1. \A w \in Values : ~Holds(tab, k, w)
    <3>1. Get(tab, k) = Nil
      BY <1>4, <1>10, Zenon DEF Get
    <3> QED BY <3>1, GetHolds, TableAssumption
  <2>2. Get(tab, k) = Nil
    BY <1>4, <1>10, Zenon DEF Get
  <2>3. CASE v = Nil
    <3>1. new = tab
      BY <1>4, <1>10, <2>3, Zenon DEF Put
    <3>2. \A w \in Values : w # v
      BY <2>3, TableAssumption
    <3>3. Updated(tab, tab, k, v)
      BY <2>1, <3>2 DEF Updated
    <3> QED BY <3>1, <3>3, <2>3, <1>6, <1>10
  <2>4. CASE v # Nil
    <3>1. new = NewKey(tab, k, v)
      BY <1>4, <1>10, <2>4, Zenon DEF Put
    <3>2. ~Taken(tab, k) \/ FreePos(tab) # None
      BY <2>4, <1>4, <1>10 DEF Full
    <3>3. v \in Values
      BY <2>4 DEF Cells
    <3>4. /\ TabOK(new) /\ RealSize(new) = size /\ new.arr = tab.arr
          /\ \E f \in DOMAIN node : Placed(node, new.node, f, k, v)
      BY <3>1, <3>2, <3>3, <1>5, <1>10, NewKeyPlaces
    <3> HIDE DEF new, n, size
    <3>5. PICK f \in DOMAIN node : Placed(node, new.node, f, k, v)
      BY <3>4
    <3>6. /\ DOMAIN new.node = DOMAIN node
          /\ \A j \in Keys, w \in Values :
                <<j, w>> \in Pairs(new.node) <=> IF j = k THEN w = v ELSE <<j, w>> \in Pairs(node)
          /\ KeysOf(new.node) \subseteq KeysOf(node) \cup {k}
          /\ \A m \in DOMAIN node : new.node[m].key # None /\ new.node[m].val = Nil =>
                node[m].key # None /\ node[m].val = Nil
      BY <3>5 DEF Placed, Stored
    <3>7. ASSUME NEW j \in Keys, NEW w \in Values
          PROVE  Holds(new, j, w) <=> IF j = k THEN w = v ELSE Holds(tab, j, w)
      <4>1. CASE j \in 1..size
        BY <4>1, <3>4, <1>10 DEF Holds, size
      <4>2. CASE j \notin 1..size
        <5>1. /\ Holds(new, j, w) <=> <<j, w>> \in Pairs(new.node)
              /\ Holds(tab, j, w) <=> <<j, w>> \in Pairs(node)
          BY <4>2, <3>4 DEF Holds, size
        <5> QED BY <5>1, <3>6
      <4> QED BY <4>1, <4>2
    <3>8. Updated(tab, new, k, v)
      BY <3>4, <3>6, <3>7, Zenon DEF Updated, size
    <3>9. Compact(node) => Compact(new.node)
      BY <3>6 DEF Compact
    <3> QED BY <3>6, <3>8, <3>9, <2>2, <2>4, <1>10 DEF new, size
  <2> QED BY <2>3, <2>4
<1> QED BY <1>8, <1>9, <1>10

-----------------------------------------------------------------------------
(* Resizing.                                                               *)

(* As many nodes as there are keys for them: there is a place for each.    *)
LEMMA RoomFor ==
    ASSUME NEW tab, TabOK(tab), Compact(tab.node), NEW K, IsFiniteSet(K),
           Cardinality(K) <= Size(tab.node), KeysOf(tab.node) \subseteq K,
           NEW e \in Keys, e \in K \/ e \in 1..RealSize(tab)
    PROVE  ~Full(tab, e)
<1> DEFINE node == tab.node
           size == Size(node)
<1> SUFFICES ASSUME Full(tab, e) PROVE FALSE
  OBVIOUS
<1>1. ArrayOK(tab) /\ NodesOK(tab)
  BY DEF TabOK
<1>2. PICK c, r : Chained(node, c, r)
  BY <1>1 DEF NodesOK, WellChained
<1>3. ~InArray(tab, e) /\ Find(node, e, FALSE) = None /\ FreePos(tab) = None
  BY Zenon DEF Full
<1>4. e \in K
  BY <1>1, <1>3, InArrayIff
<1>5. Absent(node, e)
  BY <1>2, <1>3, FindLive
<1>6. \A n \in DOMAIN node : node[n].key # None /\ node[n].val # Nil
  BY <1>1, <1>3, FreePosFree DEF Compact
<1>7. \A n \in DOMAIN node : node[n].key \in K /\ node[n].key # e /\ ~node[n].dead
  <2> TAKE n \in DOMAIN node
  <2>1. n \in Filled(node)
    BY <1>6 DEF Filled
  <2>2. ~node[n].dead
    BY <2>1, <1>2, FilledAlive
  <2> QED BY <2>2, <1>5, <1>6 DEF Absent, KeysOf
<1>8. \A m, n \in DOMAIN node : node[m].key = node[n].key => m = n
  BY <1>2, <1>6, <1>7, LiveUnique
<1>9. size \in Nat /\ DOMAIN node = 0..size - 1
  BY <1>2, NodesFinite DEF Chained, IsNodes
<1> DEFINE S == 0..size
           f == [n \in S |-> IF n = size THEN e ELSE node[n].key]
<1>10. IsFiniteSet(S) /\ Cardinality(S) = size + 1
  <2> HIDE DEF size
  <2>1. size \in Int /\ 0 \in Int /\ ~(0 > size)
    BY <1>9
  <2> QED BY <2>1, FS_Interval
<1>11. \A n \in S : n # size => n \in DOMAIN node
  BY <1>9
<1>12. f \in [S -> K]
  BY <1>4, <1>7, <1>11
<1>13. \A n \in S : f[n] = IF n = size THEN e ELSE node[n].key
  OBVIOUS
<1>14. Cardinality(K) < Cardinality(S)
  <2>1. Cardinality(K) \in Nat
    BY FS_CardinalityType
  <2> HIDE DEF S
  <2> QED BY <2>1, <1>9, <1>10
<1> HIDE DEF f, S
<1>15. PICK m \in S, n \in S : m # n /\ f[m] = f[n]
  BY <1>10, <1>12, <1>14, FS_PigeonHole
<1> QED BY <1>7, <1>8, <1>11, <1>13, <1>15

(* The new array and the new nodes.                                        *)
LEMMA EmptiedOK ==
    ASSUME NEW tab, TabOK(tab), NEW asize \in 0..MaxArray, NEW hsize \in Nat
    PROVE  LET new == Emptied(tab, asize, hsize)
           IN  /\ TabOK(new) /\ RealSize(new) = asize
               /\ new.arr = [i \in 1..asize |-> IF i <= RealSize(tab) THEN tab.arr[i] ELSE Nil]
               /\ Size(new.node) = IF hsize = 0 THEN 0 ELSE RoundUp[hsize]
               /\ \A n \in DOMAIN new.node : new.node[n] = Unused
<1> DEFINE new == Emptied(tab, asize, hsize)
           size == IF hsize = 0 THEN 0 ELSE RoundUp[hsize]
           arr == [i \in 1..asize |-> IF i <= RealSize(tab) THEN tab.arr[i] ELSE Nil]
           node == [i \in 0..size - 1 |-> Unused]
           c == [i \in DOMAIN node |-> i]
           r == [i \in DOMAIN node |-> 0]
<1>1. size \in Nat /\ asize \in Nat
  <2>1. RoundUp[hsize] \in Nat
    BY RoundUpBounds
  <2> QED BY <2>1, TableAssumption
<1>2. new = [lim |-> asize, real |-> TRUE, arr |-> arr, node |-> node, free |-> size]
  BY DEF Emptied
<1> HIDE DEF new, size, arr
<1>3. /\ new.lim = asize /\ new.real /\ new.real \in BOOLEAN /\ new.arr = arr /\ new.node = node /\ new.free = size
      /\ new = [lim |-> new.lim, real |-> new.real, arr |-> new.arr, node |-> new.node, free |-> new.free]
  BY <1>2
<1>4. RealSize(new) = asize
  BY <1>3 DEF RealSize, IsSize
<1>5. arr \in [1..asize -> Cells]
  <2>1. tab.arr \in [1..RealSize(tab) -> Cells] /\ RealSize(tab) \in Nat
    BY TableAssumption DEF TabOK, ArrayOK
  <2>2. \A i \in 1..asize : i <= RealSize(tab) => i \in 1..RealSize(tab)
    BY <2>1, <1>1
  <2> QED BY <2>1, <2>2 DEF arr, Cells
<1>6. ArrayOK(new)
  BY <1>1, <1>3, <1>4, <1>5 DEF ArrayOK
<1>7. DOMAIN node = 0..size - 1 /\ \A n \in DOMAIN node : node[n] = Unused
  OBVIOUS
<1> HIDE DEF node
<1>8. Size(node) = size
  BY <1>1, <1>7, FS_Interval DEF Size
<1>9. Unused \in NodeType /\ Unused.key = None /\ Unused.next = None /\ Unused.dead = FALSE
  BY DEF Unused, NodeType
<1>10. IsNodes(node)
  <2>1. \A n \in DOMAIN node : node[n] \in NodeType /\ node[n].next \in DOMAIN node \cup {None}
    BY <1>7, <1>9
  <2> QED BY <2>1, <1>1, <1>7, <1>8 DEF IsNodes
<1>11. /\ \A n \in DOMAIN node : node[n].key = None /\ node[n].next = None /\ ~node[n].dead
       /\ c \in [DOMAIN node -> DOMAIN node] /\ r \in [DOMAIN node -> Nat]
       /\ \A n \in DOMAIN node : c[n] = n /\ r[n] = 0
  BY <1>7, <1>9
<1> HIDE DEF c, r
<1>12. Chained(node, c, r)
  <2>1. Linked(node, c, r)
    BY <1>11 DEF Linked
  <2>2. Homed(node, c, r)
    BY <1>7, <1>11 DEF Homed
  <2>3. LiveFirst(node, r)
    BY <1>11 DEF LiveFirst
  <2>4. DeadEmpty(node)
    BY <1>11 DEF DeadEmpty
  <2> QED BY <2>1, <2>2, <2>3, <2>4, <1>10 DEF Chained
<1>13. NodesOK(new)
  <2>1. \A n \in DOMAIN node : ~(n >= size)
    BY <1>1, <1>7
  <2>2. size \in 0..size
    BY <1>1
  <2> QED BY <2>1, <2>2, <1>3, <1>8, <1>12 DEF NodesOK, WellChained
<1>14. KeysOf(node) = {}
  BY <1>11 DEF KeysOf
<1>15. TabOK(new)
  BY <1>3, <1>6, <1>13, <1>14 DEF TabOK
<1> QED BY <1>3, <1>4, <1>7, <1>8, <1>15 DEF new, size, arr

(* The entries a walk meets.                                               *)
LEMMA UsedEntry ==
    ASSUME NEW tab, TabOK(tab), NEW p \in Used(tab)
    PROVE  LET old == RealSize(tab)
               e == EntryAt(tab, p)
               n == p - old - 1
           IN  /\ old \in Nat /\ Size(tab.node) \in Nat /\ p \in 1..old + Size(tab.node)
               /\ e.key \in Keys /\ e.val \in Values
               /\ p <= old => p \in 1..old /\ e.key = p /\ e.val = tab.arr[p]
               /\ ~(p <= old) => /\ n \in Filled(tab.node) /\ e.key = tab.node[n].key
                                 /\ e.val = tab.node[n].val /\ e.key \notin 1..old
<1> DEFINE old == RealSize(tab)
           e == EntryAt(tab, p)
           node == tab.node
           n == p - old - 1
<1>1. /\ ArrayOK(tab) /\ NodesOK(tab) /\ KeysOf(node) \cap 1..old = {}
  BY DEF TabOK
<1>2. PICK c, r : Chained(node, c, r)
  BY <1>1 DEF NodesOK, WellChained
<1>3. /\ Size(node) \in Nat /\ DOMAIN node = 0..Size(node) - 1 /\ Cardinality(DOMAIN node) = Size(node)
      /\ \A m \in DOMAIN node : node[m] \in NodeType
  BY <1>2, NodesFinite DEF Chained, IsNodes
<1>4. old \in Nat /\ old <= MaxInt /\ tab.arr \in [1..old -> Cells]
  BY <1>1, TableAssumption DEF ArrayOK
<1>5. p \in 1..old + Size(node) /\ e.val # Nil
  BY <1>3 DEF Used, Positions
<1>6. CASE p <= old
  <2>1. p \in 1..old /\ e.key = p /\ e.val = tab.arr[p]
    BY <1>4, <1>5, <1>6 DEF EntryAt
  <2>2. p \in Keys
    BY <2>1, <1>4, TableAssumption DEF Keys, Ints
  <2>3. tab.arr[p] \in Cells
    BY <2>1, <1>4
  <2> HIDE DEF e, old
  <2> QED BY <2>1, <2>2, <2>3, <1>3, <1>4, <1>5, <1>6 DEF Cells, e, old
<1>7. CASE ~(p <= old)
  <2>1. e.key = node[n].key /\ e.val = node[n].val
    BY <1>7 DEF EntryAt
  <2>2. n \in DOMAIN node
    BY <1>3, <1>4, <1>5, <1>7
  <2> HIDE DEF n, e, old
  <2>3. n \in Filled(node)
    BY <2>1, <2>2, <1>5 DEF Filled
  <2>4. node[n].key \in Keys /\ node[n].key # None
    BY <2>3, <1>2, FilledAlive
  <2>5. node[n].val \in Values
    BY <2>1, <2>2, <1>3, <1>5 DEF NodeType
  <2>6. node[n].key \in KeysOf(node)
    BY <2>2, <2>4 DEF KeysOf
  <2> QED BY <2>1, <2>3, <2>4, <2>5, <2>6, <1>1, <1>3, <1>4, <1>5, <1>7 DEF n, e, old
<1> QED BY <1>6, <1>7

(* No key is at two positions.                                             *)
LEMMA UsedDistinct ==
    ASSUME NEW tab, TabOK(tab), NEW p \in Used(tab), NEW q \in Used(tab),
           EntryAt(tab, p).key = EntryAt(tab, q).key
    PROVE  p = q
<1> DEFINE old == RealSize(tab)
           node == tab.node
           m == p - old - 1
           n == q - old - 1
<1>1. /\ old \in Nat /\ Size(node) \in Nat /\ p \in 1..old + Size(node) /\ q \in 1..old + Size(node)
      /\ p <= old => p \in 1..old /\ EntryAt(tab, p).key = p
      /\ q <= old => q \in 1..old /\ EntryAt(tab, q).key = q
      /\ ~(p <= old) => /\ m \in Filled(node) /\ EntryAt(tab, p).key = node[m].key
                        /\ EntryAt(tab, p).key \notin 1..old
      /\ ~(q <= old) => /\ n \in Filled(node) /\ EntryAt(tab, q).key = node[n].key
                        /\ EntryAt(tab, q).key \notin 1..old
  BY UsedEntry
<1> HIDE DEF m, n
<1>2. CASE p <= old \/ q <= old
  BY <1>1, <1>2
<1>3. CASE ~(p <= old) /\ ~(q <= old)
  <2>1. PICK c, r : Chained(node, c, r)
    BY DEF TabOK, NodesOK, WellChained
  <2>2. /\ m \in DOMAIN node /\ n \in DOMAIN node /\ node[m].key = node[n].key
        /\ m \in Filled(node) /\ n \in Filled(node)
    BY <1>1, <1>3 DEF Filled
  <2>3. m = n
    BY <2>1, <2>2, FilledAlive, LiveUnique
  <2> HIDE DEF old
  <2> QED BY <2>3, <1>1 DEF m, n
<1> QED BY <1>2, <1>3

(* x is the new table when luaH_resize has come to position p of the old   *)
(* one: it holds what the array kept up to first, and what was moved.      *)
AsMoved(tab, asize, K, first, p, x) ==
    /\ TabOK(x) /\ RealSize(x) = asize
    /\ Compact(x.node) /\ KeysOf(x.node) \subseteq K /\ Cardinality(K) <= Size(x.node)
    /\ \A j \in Keys, w \in Values :
          Holds(x, j, w) <=>
             \/ j \in 1..first /\ tab.arr[j] = w
             \/ \E q \in Used(tab) : /\ first < q /\ q <= p
                                     /\ EntryAt(tab, q).key = j /\ EntryAt(tab, q).val = w

First(tab, asize) == IF asize < RealSize(tab) THEN asize ELSE RealSize(tab)

(* Before the first position: the new array and unused nodes.              *)
LEMMA MovedFirst ==
    ASSUME NEW tab, TabOK(tab), NEW asize \in 0..MaxArray, NEW hsize \in Nat, NEW K,
           Cardinality(K) <= IF hsize = 0 THEN 0 ELSE RoundUp[hsize]
    PROVE  AsMoved(tab, asize, K, First(tab, asize), First(tab, asize), Emptied(tab, asize, hsize))
<1> DEFINE x == Emptied(tab, asize, hsize)
           old == RealSize(tab)
           first == First(tab, asize)
<1>1. /\ TabOK(x) /\ RealSize(x) = asize
      /\ x.arr = [i \in 1..asize |-> IF i <= old THEN tab.arr[i] ELSE Nil]
      /\ Size(x.node) = IF hsize = 0 THEN 0 ELSE RoundUp[hsize]
      /\ \A n \in DOMAIN x.node : x.node[n] = Unused
  BY EmptiedOK
<1>2. Unused.key = None /\ Unused.val = Nil
  BY DEF Unused
<1>3. old \in Nat /\ asize \in Nat /\ first = IF asize < old THEN asize ELSE old
  BY TableAssumption DEF TabOK, ArrayOK, First
<1> HIDE DEF x, old, first
<1>4. Compact(x.node) /\ KeysOf(x.node) = {} /\ Pairs(x.node) = {}
  BY <1>1, <1>2 DEF Compact, KeysOf, Pairs, Filled
<1>5. \A q \in Used(tab) : ~(first < q /\ q <= first)
  <2> TAKE q \in Used(tab)
  <2>1. q \in Nat
    BY UsedEntry
  <2> QED BY <2>1, <1>3
<1>6. ASSUME NEW j \in Keys, NEW w \in Values
      PROVE  Holds(x, j, w) <=> j \in 1..first /\ tab.arr[j] = w
  <2>0. w # Nil
    BY TableAssumption
  <2>1. CASE j \in 1..asize
    <3>1. Holds(x, j, w) <=> x.arr[j] = w
      BY <2>1, <1>1 DEF Holds
    <3>2. x.arr[j] = IF j <= old THEN tab.arr[j] ELSE Nil
      BY <2>1, <1>1
    <3>3. j \in 1..first <=> j <= old
      BY <2>1, <1>3
    <3> QED BY <3>1, <3>2, <3>3, <2>0
  <2>2. CASE j \notin 1..asize
    <3>1. ~Holds(x, j, w)
      BY <2>2, <1>1, <1>4 DEF Holds
    <3>2. j \notin 1..first
      BY <2>2, <1>3
    <3> QED BY <3>1, <3>2
  <2> QED BY <2>1, <2>2
<1>7. Cardinality(K) <= Size(x.node)
  BY <1>1
<1> QED BY <1>1, <1>4, <1>5, <1>6, <1>7, Zenon DEF AsMoved, x, first

(* The entry at one position is inserted.                                  *)
LEMMA MovedStep ==
    ASSUME NEW tab, TabOK(tab), NEW asize \in 0..MaxArray, NEW K, IsFiniteSet(K), NEW x,
           NEW p \in Used(tab), First(tab, asize) < p,
           EntryAt(tab, p).key \in K \/ EntryAt(tab, p).key \in 1..asize,
           AsMoved(tab, asize, K, First(tab, asize), p - 1, x)
    PROVE  AsMoved(tab, asize, K, First(tab, asize), p, Put(x, EntryAt(tab, p).key, EntryAt(tab, p).val))
<1> DEFINE old == RealSize(tab)
           first == First(tab, asize)
           k == EntryAt(tab, p).key
           v == EntryAt(tab, p).val
           new == Put(x, k, v)
           Before(j, w) == \E q \in Used(tab) : /\ first < q /\ q <= p - 1
                                                /\ EntryAt(tab, q).key = j /\ EntryAt(tab, q).val = w
           Upto(j, w) == \E q \in Used(tab) : /\ first < q /\ q <= p
                                              /\ EntryAt(tab, q).key = j /\ EntryAt(tab, q).val = w
<1>1. /\ TabOK(x) /\ RealSize(x) = asize
      /\ Compact(x.node) /\ KeysOf(x.node) \subseteq K /\ Cardinality(K) <= Size(x.node)
      /\ \A j \in Keys, w \in Values : Holds(x, j, w) <=> (j \in 1..first /\ tab.arr[j] = w) \/ Before(j, w)
  BY Zenon DEF AsMoved
<1>2. /\ old \in Nat /\ p \in Nat /\ k \in Keys /\ v \in Values
      /\ p <= old => k = p
      /\ ~(p <= old) => k \notin 1..old
  BY UsedEntry
<1>3. asize \in Nat /\ first = IF asize < old THEN asize ELSE old
  BY TableAssumption DEF First
<1>4. v # Nil /\ v \in Cells
  BY <1>2, TableAssumption DEF Cells
<1>5. \A q \in Used(tab) : q \in Nat /\ (EntryAt(tab, q).key = k => q = p)
  BY UsedEntry, UsedDistinct
<1> HIDE DEF k, v, new
<1>6. ~Full(x, k)
  BY <1>1, <1>2, RoomFor DEF k
<1>7. /\ Updated(x, new, k, v)
      /\ k \in 1..RealSize(x) => new.node = x.node
      /\ k \notin 1..RealSize(x) => KeysOf(new.node) \subseteq KeysOf(x.node) \cup {k}
      /\ v # Nil /\ Compact(x.node) => Compact(new.node)
  BY <1>1, <1>2, <1>4, <1>6, PutUpdates DEF new
<1>8. /\ TabOK(new) /\ RealSize(new) = asize /\ DOMAIN new.node = DOMAIN x.node
      /\ \A j \in Keys, w \in Values : Holds(new, j, w) <=> IF j = k THEN w = v ELSE Holds(x, j, w)
  BY <1>1, <1>7 DEF Updated
<1>9. Compact(new.node) /\ KeysOf(new.node) \subseteq K
  <2>1. CASE k \in 1..asize
    BY <2>1, <1>1, <1>4, <1>7
  <2>2. CASE k \notin 1..asize
    BY <2>2, <1>1, <1>4, <1>7 DEF k
  <2> QED BY <2>1, <2>2
<1>10. Size(new.node) = Size(x.node)
  BY <1>8, Zenon DEF Size
<1>11. k \notin 1..first
  BY <1>2, <1>3, First(tab, asize) < p
<1>12. ASSUME NEW j \in Keys, NEW w \in Values
       PROVE  Holds(new, j, w) <=> (j \in 1..first /\ tab.arr[j] = w) \/ Upto(j, w)
  <2>1. CASE j = k
    <3>1. ASSUME Upto(j, w) PROVE w = v
      BY <3>1, <2>1, <1>5 DEF v
    <3>2. ASSUME w = v PROVE Upto(j, w)
      <4>1. first < p /\ p <= p /\ EntryAt(tab, p).key = j /\ EntryAt(tab, p).val = w
        BY <3>2, <2>1, <1>2 DEF k, v
      <4> QED BY <4>1
    <3> QED BY <3>1, <3>2, <2>1, <1>8, <1>11
  <2>2. CASE j # k
    <3>1. ASSUME Upto(j, w) PROVE Before(j, w)
      <4>1. PICK q \in Used(tab) : first < q /\ q <= p /\ EntryAt(tab, q).key = j /\ EntryAt(tab, q).val = w
        BY <3>1
      <4>2. q <= p - 1
        BY <4>1, <2>2, <1>2, <1>5 DEF k
      <4> QED BY <4>1, <4>2
    <3>2. ASSUME Before(j, w) PROVE Upto(j, w)
      <4>1. PICK q \in Used(tab) : first < q /\ q <= p - 1 /\ EntryAt(tab, q).key = j /\ EntryAt(tab, q).val = w
        BY <3>2
      <4>2. q <= p
        BY <4>1, <1>2, <1>5
      <4> QED BY <4>1, <4>2
    <3> HIDE DEF Upto, Before
    <3> QED BY <3>1, <3>2, <2>2, <1>1, <1>8
  <2> QED BY <2>1, <2>2
<1>13. Cardinality(K) <= Size(new.node)
  BY <1>1, <1>10
<1> QED BY <1>8, <1>9, <1>12, <1>13, Zenon DEF AsMoved, new, k, v

(* After the last position the new table holds what the old one held.      *)
LEMMA MovedLast ==
    ASSUME NEW tab, TabOK(tab), NEW asize \in 0..MaxArray, NEW K, NEW x,
           AsMoved(tab, asize, K, First(tab, asize), RealSize(tab) + Size(tab.node), x),
           NEW j \in Keys, NEW w \in Values
    PROVE  Holds(x, j, w) <=> Holds(tab, j, w)
<1> DEFINE old == RealSize(tab)
           first == First(tab, asize)
           last == old + Size(tab.node)
           Moved == \E q \in Used(tab) : /\ first < q /\ q <= last
                                         /\ EntryAt(tab, q).key = j /\ EntryAt(tab, q).val = w
<1>1. Holds(x, j, w) <=> (j \in 1..first /\ tab.arr[j] = w) \/ Moved
  BY Zenon DEF AsMoved
<1>2. PICK c, r : Chained(tab.node, c, r)
  BY DEF TabOK, NodesOK, WellChained
<1>3. /\ Size(tab.node) \in Nat /\ DOMAIN tab.node = 0..Size(tab.node) - 1
      /\ Cardinality(DOMAIN tab.node) = Size(tab.node)
  BY <1>2, NodesFinite DEF Chained, IsNodes
<1>4. asize \in Nat /\ old \in Nat /\ first = IF asize < old THEN asize ELSE old
  BY TableAssumption DEF First, TabOK, ArrayOK
<1>5. w # Nil
  BY TableAssumption
<1>6. \A q \in Used(tab) :
        /\ q \in 1..last
        /\ q <= old => q \in 1..old /\ EntryAt(tab, q).key = q /\ EntryAt(tab, q).val = tab.arr[q]
        /\ ~(q <= old) => /\ q - old - 1 \in Filled(tab.node) /\ EntryAt(tab, q).key = tab.node[q - old - 1].key
                          /\ EntryAt(tab, q).val = tab.node[q - old - 1].val /\ EntryAt(tab, q).key \notin 1..old
  BY UsedEntry
<1> HIDE DEF old, first
<1>7. CASE j \in 1..old
  <2>1. Holds(tab, j, w) <=> tab.arr[j] = w
    BY <1>7 DEF Holds, old
  <2>2. ASSUME Moved PROVE tab.arr[j] = w
    BY <2>2, <1>6, <1>7
  <2>3. ASSUME tab.arr[j] = w, j \notin 1..first PROVE Moved
    <3>1. j \in 1..old + Size(tab.node) /\ j <= old /\ first < j
      BY <1>3, <1>4, <1>7, <2>3
    <3>2. EntryAt(tab, j).key = j /\ EntryAt(tab, j).val = w
      BY <3>1, <2>3 DEF EntryAt, old
    <3>3. j \in Used(tab)
      BY <3>1, <3>2, <1>3, <1>5 DEF Used, Positions, old
    <3>4. j <= last
      BY <3>3, <1>6
    <3> QED BY <3>1, <3>2, <3>3, <3>4
  <2> HIDE DEF Moved
  <2> QED BY <2>1, <2>2, <2>3, <1>1
<1>8. CASE j \notin 1..old
  <2>1. Holds(tab, j, w) <=> <<j, w>> \in Pairs(tab.node)
    BY <1>8 DEF Holds, old
  <2>2. ASSUME Moved PROVE <<j, w>> \in Pairs(tab.node)
    <3>1. PICK q \in Used(tab) : EntryAt(tab, q).key = j /\ EntryAt(tab, q).val = w
      BY <2>2
    <3> DEFINE n == q - old - 1
    <3>2. n \in Filled(tab.node) /\ tab.node[n].key = j /\ tab.node[n].val = w
      BY <3>1, <1>6, <1>8
    <3> HIDE DEF n
    <3> QED BY <3>2 DEF Pairs
  <2>3. ASSUME <<j, w>> \in Pairs(tab.node) PROVE Moved
    <3>1. PICK n \in Filled(tab.node) : tab.node[n].key = j /\ tab.node[n].val = w
      BY <2>3 DEF Pairs
    <3> DEFINE q == old + 1 + n
    <3>2. n \in 0..Size(tab.node) - 1
      BY <1>3 DEF Filled
    <3>3. q \in 1..last /\ ~(q <= old) /\ q - old - 1 = n /\ first < q /\ q <= last
      BY <3>2, <1>3, <1>4
    <3> HIDE DEF q
    <3>4. EntryAt(tab, q).key = j /\ EntryAt(tab, q).val = w
      BY <3>1, <3>3 DEF EntryAt, old
    <3>5. q \in Used(tab)
      BY <3>3, <3>4, <1>3, <1>5 DEF Used, Positions, old
    <3> QED BY <3>3, <3>4, <3>5
  <2>4. j \notin 1..first
    BY <1>4, <1>8
  <2> HIDE DEF Moved
  <2> QED BY <2>1, <2>2, <2>3, <2>4, <1>1
<1> QED BY <1>7, <1>8

(* luaH_resize: when there is a node for every key that will not be in the *)
(* array, the table keeps what it holds.                                   *)
LEMMA ResizeHolds ==
    ASSUME NEW tab, TabOK(tab), NEW asize \in 0..MaxArray, NEW hsize \in Nat, NEW K, IsFiniteSet(K),
           Cardinality(K) <= IF hsize = 0 THEN 0 ELSE RoundUp[hsize],
           \A p \in Used(tab) : First(tab, asize) < p =>
              EntryAt(tab, p).key \in K \/ EntryAt(tab, p).key \in 1..asize
    PROVE  LET new == Resize(tab, asize, hsize)
           IN  /\ TabOK(new) /\ RealSize(new) = asize
               /\ Compact(new.node) /\ KeysOf(new.node) \subseteq K /\ Cardinality(K) <= Size(new.node)
               /\ \A j \in Keys : Get(new, j) = Get(tab, j)
<1> DEFINE old == RealSize(tab)
           first == First(tab, asize)
           last == old + Size(tab.node)
           start == Emptied(tab, asize, hsize)
           Step(x, p) == IF p \in Used(tab) THEN Put(x, EntryAt(tab, p).key, EntryAt(tab, p).val) ELSE x
           D == first..last
           At(f, p) == IF p = first THEN start ELSE Step(f[p - 1], p)
           h == CHOOSE g : g = [p \in D |-> At(g, p)]
           Upto(f, n) == \A p \in first..n : f[p] = At(f, p)
           Bad == {n \in D : ~ \E f : Upto(f, n)}
           Off == {n \in D : ~ AsMoved(tab, asize, K, first, n, h[n])}
<1>1. /\ Size(tab.node) \in Nat /\ Cardinality(DOMAIN tab.node) = Size(tab.node)
  BY NodesFinite DEF TabOK, NodesOK, WellChained, Chained
<1>2. /\ old \in Nat /\ first \in Nat /\ first <= old /\ last \in Nat /\ first <= last
      /\ \A p \in D : p \in Nat /\ (p # first => p - 1 \in D /\ p - 1 \in first..p - 1 /\ first < p /\ p - 1 < p)
  BY <1>1, TableAssumption DEF First, TabOK, ArrayOK
<1> HIDE DEF start, old, first, last
<1>3. Bad = {}
  <2>1. SUFFICES ASSUME Bad # {} PROVE FALSE
    OBVIOUS
  <2>2. PICK n \in Bad : \A y \in Bad : n <= y
    <3>1. Bad \in SUBSET Nat
      BY <1>2
    <3> HIDE DEF Bad
    <3> QED BY <2>1, <3>1, Least
  <2>3. n \in D /\ n \in Nat /\ first <= n
    BY <2>2, <1>2
  <2>4. CASE n = first
    <3> DEFINE f == [p \in {first} |-> start]
    <3>1. Upto(f, n)
      BY <2>4, <1>2
    <3> HIDE DEF f, Upto
    <3> QED BY <3>1, <2>2
  <2>5. CASE n # first
    <3>1. n - 1 \in D /\ ~(n <= n - 1) /\ first < n
      BY <2>3, <2>5, <1>2
    <3>2. n - 1 \notin Bad
      BY <3>1, <2>2
    <3>3. PICK f : Upto(f, n - 1)
      <4> HIDE DEF Upto
      <4> QED BY <3>1, <3>2
    <3> DEFINE g == [p \in first..n |-> IF p = n THEN Step(f[n - 1], n) ELSE f[p]]
    <3>4. ASSUME NEW p \in first..n PROVE g[p] = At(g, p)
      <4> HIDE DEF Step
      <4>1. CASE p = n
        <5>1. g[n - 1] = f[n - 1] /\ g[n] = Step(f[n - 1], n)
          BY <2>3, <3>1, <1>2
        <5> QED BY <5>1, <4>1, <2>5
      <4>2. CASE p # n
        <5>1. p \in first..n - 1 /\ p - 1 # n
          BY <4>2, <2>3, <1>2
        <5>2. g[p] = f[p] /\ f[p] = At(f, p)
          BY <5>1, <4>2, <3>3
        <5>3. p # first => g[p - 1] = f[p - 1]
          BY <5>1, <2>3, <1>2
        <5> QED BY <5>2, <5>3
      <4> QED BY <4>1, <4>2
    <3>5. Upto(g, n)
      BY <3>4
    <3> HIDE DEF g, Upto
    <3> QED BY <3>5, <2>2
  <2> QED BY <2>4, <2>5
<1>4. PICK f : Upto(f, last)
  <2>1. last \in D
    BY <1>2
  <2> HIDE DEF Upto
  <2> QED BY <2>1, <1>3
<1>5. \E g : g = [p \in D |-> At(g, p)]
  <2> DEFINE g == [p \in D |-> f[p]]
  <2>1. ASSUME NEW p \in D PROVE f[p] = At(g, p)
    <3> HIDE DEF Step
    <3>1. p # first => g[p - 1] = f[p - 1]
      BY <1>2
    <3>2. f[p] = At(f, p)
      BY <1>4
    <3> QED BY <3>1, <3>2
  <2>2. g = [p \in D |-> At(g, p)]
    <3> HIDE DEF At
    <3> QED BY <2>1
  <2> HIDE DEF g, At
  <2> QED BY <2>2
<1>6. h = [p \in D |-> At(h, p)]
  BY <1>5, Zenon
<1>7. Resize(tab, asize, hsize) = h[last]
  BY Zenon DEF Resize, h, At, Step, D, start, old, first, last, First, Size
<1> HIDE DEF h
<1>8. \A p \in D : h[p] = At(h, p)
  <2> HIDE DEF At
  <2> QED BY <1>6
<1>9. Off = {}
  <2>1. SUFFICES ASSUME Off # {} PROVE FALSE
    OBVIOUS
  <2>2. PICK n \in Off : \A y \in Off : n <= y
    <3>1. Off \in SUBSET Nat
      BY <1>2
    <3> HIDE DEF Off
    <3> QED BY <2>1, <3>1, Least
  <2>3. n \in D /\ n \in Nat /\ ~ AsMoved(tab, asize, K, first, n, h[n])
    BY <2>2, <1>2
  <2>4. CASE n = first
    <3>1. h[n] = start
      BY <2>3, <2>4, <1>8
    <3>2. AsMoved(tab, asize, K, first, first, start)
      BY MovedFirst DEF first, start
    <3> QED BY <3>1, <3>2, <2>3, <2>4
  <2>5. CASE n # first
    <3>1. n - 1 \in D /\ ~(n <= n - 1) /\ first < n
      BY <2>3, <2>5, <1>2
    <3>2. AsMoved(tab, asize, K, first, n - 1, h[n - 1])
      BY <3>1, <2>2
    <3>3. h[n] = Step(h[n - 1], n)
      BY <2>3, <2>5, <1>8
    <3>4. CASE n \in Used(tab)
      <4>1. EntryAt(tab, n).key \in K \/ EntryAt(tab, n).key \in 1..asize
        BY <3>1, <3>4 DEF first
      <4>2. AsMoved(tab, asize, K, first, n, Put(h[n - 1], EntryAt(tab, n).key, EntryAt(tab, n).val))
        BY <4>1, <3>1, <3>2, <3>4, MovedStep DEF first
      <4> QED BY <4>2, <3>3, <3>4, <2>3
    <3>5. CASE n \notin Used(tab)
      <4>1. h[n] = h[n - 1]
        BY <3>3, <3>5
      <4>2. \A q \in Used(tab) : q <= n - 1 <=> q <= n
        <5> TAKE q \in Used(tab)
        <5>1. q \in Nat /\ q # n
          BY <3>5, UsedEntry
        <5> QED BY <5>1, <2>3
      <4>3. AsMoved(tab, asize, K, first, n, h[n])
        BY <4>1, <4>2, <3>2 DEF AsMoved
      <4> QED BY <4>3, <2>3
    <3> QED BY <3>4, <3>5
  <2> QED BY <2>4, <2>5
<1> DEFINE new == h[last]
<1>10. AsMoved(tab, asize, K, first, last, new)
  <2>1. last \in D
    BY <1>2
  <2> QED BY <2>1, <1>9
<1> HIDE DEF new
<1>11. /\ TabOK(new) /\ RealSize(new) = asize
       /\ Compact(new.node) /\ KeysOf(new.node) \subseteq K /\ Cardinality(K) <= Size(new.node)
  BY <1>10 DEF AsMoved
<1>12. ASSUME NEW j \in Keys PROVE Get(new, j) = Get(tab, j)
  <2>1. \A w \in Values : Holds(new, j, w) <=> Holds(tab, j, w)
    BY <1>10, MovedLast DEF first, last, old
  <2> QED BY <2>1, <1>11, SameGet
<1> QED BY <1>7, <1>11, <1>12 DEF new

-----------------------------------------------------------------------------
(* Rehashing.                                                              *)

(* A nonempty set of bounded numbers has a greatest one, and Max is it.    *)
LEMMA Greatest ==
    ASSUME NEW b \in Nat, NEW T \in SUBSET (0..b), T # {}
    PROVE  Max(T) \in T /\ \A y \in T : y <= Max(T)
<1> DEFINE down == {b - i : i \in T}
<1>1. PICK x \in down : \A y \in down : x <= y
  <2>2. \A i \in T : b - i \in Nat
    OBVIOUS
  <2>3. down \subseteq Nat
    BY <2>2
  <2>1. down \in SUBSET Nat /\ down # {}
    BY <2>3
  <2> HIDE DEF down
  <2> QED BY <2>1, Least
<1>2. PICK i \in T : x = b - i
  OBVIOUS
<1>3. \A j \in T : i >= j
  <2> TAKE j \in T
  <2>1. b - j \in down
    OBVIOUS
  <2> QED BY <2>1, <1>1, <1>2
<1>4. Max(T) \in T /\ \A j \in T : Max(T) >= j
  BY <1>3, Zenon DEF Max
<1> DEFINE m == Max(T)
<1> HIDE DEF m
<1>5. m \in T /\ \A j \in T : m >= j
  BY <1>4 DEF m
<1>6. \A y \in T : y <= m
  BY <1>5
<1> QED BY <1>5, <1>6 DEF m

(* computesizes never asks for more than the largest array.                *)
LEMMA SizeForBounded ==
    ASSUME NEW ints \in SUBSET (1..MaxArray)
    PROVE  SizeFor(ints) \in 0..MaxArray
<1> DEFINE S == {n \in 1..2 * Cardinality(ints) :
                   Pow2(n) /\ Cardinality({k \in ints : k <= n}) > n \div 2}
           T == {0} \cup S
<1>1. MaxArray \in Nat /\ MaxArray > 0 /\ RoundUp[MaxArray] = MaxArray
  BY TableAssumption DEF Pow2
<1>2. IsFiniteSet(1..MaxArray) /\ Cardinality(1..MaxArray) = MaxArray
  BY <1>1, FS_Interval
<1>3. IsFiniteSet(ints) /\ Cardinality(ints) \in Nat
  BY <1>2, FS_Subset, FS_CardinalityType
<1>4. ASSUME NEW n \in S PROVE n \in 1..MaxArray
  <2> DEFINE low == {k \in ints : k <= n}
  <2>1. n \in Nat /\ n > 0 /\ RoundUp[n] = n /\ Cardinality(low) > n \div 2
    BY <1>3 DEF Pow2
  <2>2. low \in SUBSET (1..MaxArray)
    OBVIOUS
  <2> HIDE DEF low, S
  <2>3. Cardinality(low) <= MaxArray /\ Cardinality(low) \in Nat
    BY <2>2, <1>2, FS_Subset, FS_CardinalityType
  <2>4. n \div 2 < MaxArray
    BY <2>1, <2>3, <1>1
  <2>5. n < 2 * MaxArray
    BY <2>1, <2>4, <1>1
  <2>6. SUFFICES ASSUME n > MaxArray PROVE FALSE
    BY <2>1, <1>1
  <2>7. RoundUp[MaxArray] = n
    BY <2>1, <2>5, <2>6, <1>1, RoundUpBetween
  <2> QED BY <2>6, <2>7, <1>1, <2>1
<1>5. T \in SUBSET (0..MaxArray) /\ T # {}
  <2> HIDE DEF S
  <2> QED BY <1>1, <1>4
<1>6. SizeFor(ints) = Max(T)
  BY Zenon DEF SizeFor
<1> HIDE DEF T
<1>7. Max(T) \in T
  BY <1>1, <1>5, Greatest
<1> QED BY <1>5, <1>6, <1>7

(* rehash keeps what the table holds, and makes room for the new key.      *)
LEMMA RehashHolds ==
    ASSUME NEW tab, TabOK(tab), NEW ek \in Keys
    PROVE  LET new == Rehash(tab, ek)
           IN  /\ TabOK(new) /\ ~Full(new, ek)
               /\ \A j \in Keys : Get(new, j) = Get(tab, j)
<1> DEFINE used == {EntryAt(tab, p).key : p \in Used(tab)}
           keys == used \cup {ek}
           ints == keys \cap 1..MaxArray
           asize == SizeFor(ints)
           low == {k \in ints : k <= asize}
           hsize == Cardinality(Used(tab)) + 1 - Cardinality(low)
           K == keys \ (1..asize)
           new == Resize(tab, asize, hsize)
<1>1. Rehash(tab, ek) = new
  BY Zenon DEF Rehash
<1>2. asize \in 0..MaxArray
  <2>1. ints \in SUBSET (1..MaxArray)
    OBVIOUS
  <2> HIDE DEF ints
  <2> QED BY <2>1, SizeForBounded
<1>3. MaxArray \in Nat
  BY TableAssumption
<1>4. IsFiniteSet(Used(tab)) /\ Cardinality(Used(tab)) \in Nat
  <2>1. RealSize(tab) \in Nat /\ Cardinality(DOMAIN tab.node) \in Nat
    BY NodesFinite, TableAssumption DEF TabOK, NodesOK, WellChained, Chained, ArrayOK
  <2>2. Used(tab) \in SUBSET (1..RealSize(tab) + Cardinality(DOMAIN tab.node))
    BY DEF Used, Positions
  <2>3. IsFiniteSet(1..RealSize(tab) + Cardinality(DOMAIN tab.node))
    BY <2>1, FS_Interval
  <2> QED BY <2>2, <2>3, FS_Subset, FS_CardinalityType
<1> HIDE DEF asize
<1>5. IsFiniteSet(used) /\ Cardinality(used) <= Cardinality(Used(tab)) /\ Cardinality(used) \in Nat
  <2> DEFINE f == [p \in Used(tab) |-> EntryAt(tab, p).key]
  <2>1. f \in Surjection(Used(tab), used)
    BY DEF Surjection
  <2> HIDE DEF f, used
  <2> QED BY <2>1, <1>4, FS_Surjection, FS_CardinalityType
<1> HIDE DEF used
<1>6. IsFiniteSet(keys) /\ Cardinality(keys) \in Nat /\ Cardinality(keys) <= Cardinality(Used(tab)) + 1
  <2>1. IsFiniteSet(keys) /\ Cardinality(keys) = IF ek \in used THEN Cardinality(used) ELSE Cardinality(used) + 1
    BY <1>5, FS_AddElement
  <2> HIDE DEF keys
  <2> QED BY <2>1, <1>4, <1>5
<1> HIDE DEF keys
<1>7. low \cup K = keys /\ low \cap K = {} /\ low \in SUBSET keys /\ K \in SUBSET keys
  BY <1>2, <1>3
<1> HIDE DEF low, K
<1>8. IsFiniteSet(low) /\ IsFiniteSet(K) /\ Cardinality(low) \in Nat /\ Cardinality(K) \in Nat
  BY <1>6, <1>7, FS_Subset, FS_CardinalityType
<1>9. Cardinality(keys) = Cardinality(low) + Cardinality(K)
  <2>1. Cardinality(low \cup K) = Cardinality(low) + Cardinality(K) - Cardinality(low \cap K)
    BY <1>8, FS_Union
  <2>2. Cardinality(low \cap K) = 0
    BY <1>7, FS_EmptySet
  <2>3. Cardinality(low \cup K) = Cardinality(keys)
    BY <1>7, Zenon
  <2> QED BY <2>1, <2>2, <2>3, <1>8
<1>10. hsize \in Nat /\ Cardinality(K) <= hsize
  BY <1>4, <1>6, <1>8, <1>9
<1> HIDE DEF hsize
<1>11. Cardinality(K) <= IF hsize = 0 THEN 0 ELSE RoundUp[hsize]
  <2>1. RoundUp[hsize] \in Nat /\ hsize <= RoundUp[hsize]
    BY <1>10, RoundUpBounds
  <2> QED BY <2>1, <1>8, <1>10
<1>12. \A p \in Used(tab) : EntryAt(tab, p).key \in K \/ EntryAt(tab, p).key \in 1..asize
  <2> TAKE p \in Used(tab)
  <2>1. EntryAt(tab, p).key \in keys
    BY DEF keys, used
  <2> QED BY <2>1 DEF K
<1>13. /\ TabOK(new) /\ RealSize(new) = asize
       /\ Compact(new.node) /\ KeysOf(new.node) \subseteq K /\ Cardinality(K) <= Size(new.node)
       /\ \A j \in Keys : Get(new, j) = Get(tab, j)
  BY <1>2, <1>8, <1>10, <1>11, <1>12, ResizeHolds
<1> HIDE DEF new
<1>14. ek \in K \/ ek \in 1..RealSize(new)
  BY <1>13 DEF K, keys
<1>15. ~Full(new, ek)
  BY <1>8, <1>13, <1>14, RoomFor
<1> QED BY <1>1, <1>13, <1>15

(* What luaH_get finds after a store.                                      *)
LEMMA UpdatedGet ==
    ASSUME NEW tab, TabOK(tab), NEW k \in Keys, NEW v \in Cells, NEW new, Updated(tab, new, k, v), NEW j \in Keys
    PROVE  Get(new, j) = IF j = k THEN v ELSE Get(tab, j)
<1>1. /\ TabOK(new)
      /\ \A w \in Values : Holds(new, j, w) <=> IF j = k THEN w = v ELSE Holds(tab, j, w)
  BY DEF Updated
<1>2. CASE j = k
  <2>1. Get(new, j) \in Cells /\ \A w \in Values : Get(new, j) = w <=> w = v
    BY <1>1, <1>2, GetHolds
  <2> QED BY <2>1, <1>2 DEF Cells
<1>3. CASE j # k
  BY <1>1, <1>3, SameGet
<1> QED BY <1>2, <1>3

(* A store: the key has its new value, the others keep theirs. One that    *)
(* adds no field leaves everything in its place.                           *)
LEMMA SetHolds ==
    ASSUME NEW tab, TabOK(tab), NEW k \in Keys, NEW v \in Cells
    PROVE  LET new == Set(tab, k, v)
           IN  /\ TabOK(new)
               /\ \A j \in Keys : Get(new, j) = IF j = k THEN v ELSE Get(tab, j)
               /\ v = Nil \/ Get(tab, k) # Nil =>
                     RealSize(new) = RealSize(tab) /\ SamePlaces(tab.node, new.node)
<1> DEFINE mid == IF v # Nil /\ Full(tab, k) THEN Rehash(tab, k) ELSE tab
           new == Put(mid, k, v)
<1>1. Set(tab, k, v) = new
  BY Zenon DEF Set
<1>2. /\ TabOK(mid) /\ (v = Nil \/ ~Full(mid, k))
      /\ \A j \in Keys : Get(mid, j) = Get(tab, j)
  BY RehashHolds
<1>3. v = Nil \/ Get(tab, k) # Nil => mid = tab
  <2>1. Full(tab, k) => Get(tab, k) = Nil
    BY Zenon DEF Full, Get
  <2> QED BY <2>1
<1> HIDE DEF mid
<1>4. /\ Updated(mid, new, k, v)
      /\ v = Nil \/ Get(mid, k) # Nil => SamePlaces(mid.node, new.node)
  BY <1>2, PutUpdates
<1> HIDE DEF new
<1>5. \A j \in Keys : Get(new, j) = IF j = k THEN v ELSE Get(tab, j)
  <2> TAKE j \in Keys
  <2>1. Get(new, j) = IF j = k THEN v ELSE Get(mid, j)
    BY <1>2, <1>4, UpdatedGet
  <2> QED BY <2>1, <1>2
<1>6. TabOK(new) /\ RealSize(new) = RealSize(mid)
  BY <1>4 DEF Updated
<1> QED BY <1>1, <1>2, <1>3, <1>4, <1>5, <1>6

-----------------------------------------------------------------------------
(* The length.                                                             *)

Numbers == 0..MaxInt

(* The bisection of luaH_getn is defined.                                  *)
LEMMA BisectExists ==
    ASSUME NEW tab, NEW i \in Numbers, NEW j \in Numbers
    PROVE  LET mid == (i + j) \div 2
           IN  Bisect(tab, i, j) = IF j - i <= 1 THEN i
                                   ELSE IF Get(tab, mid) = Nil THEN Bisect(tab, i, mid)
                                   ELSE Bisect(tab, mid, j)
<1> DEFINE D == Numbers \X Numbers
           V == Numbers
           Mid(p) == (p[1] + p[2]) \div 2
           Step(f, p) == IF p[2] - p[1] <= 1 THEN p[1]
                         ELSE IF Get(tab, Mid(p)) = Nil THEN f[<<p[1], Mid(p)>>] ELSE f[<<Mid(p), p[2]>>]
           m == [p \in D |-> IF p[2] - p[1] <= 1 THEN 0 ELSE p[2] - p[1]]
           F == [q \in D \X [D -> V] |-> Step(q[2], q[1])]
           g == CHOOSE h : h = [p \in D |-> Step(h, p)]
<1>0. MaxInt \in Nat /\ Numbers \subseteq Nat /\ 0 \in Numbers
  BY TableAssumption DEF Numbers
<1>1. ASSUME NEW p \in D, ~(p[2] - p[1] <= 1)
      PROVE  /\ <<p[1], Mid(p)>> \in D /\ <<Mid(p), p[2]>> \in D
             /\ m[<<p[1], Mid(p)>>] < m[p] /\ m[<<Mid(p), p[2]>>] < m[p]
  <2>1. p[1] \in Nat /\ p[2] \in Nat /\ p[1] <= MaxInt /\ p[2] <= MaxInt /\ p = <<p[1], p[2]>>
    BY DEF Numbers
  <2>2. Mid(p) \in Nat /\ p[1] < Mid(p) /\ Mid(p) < p[2]
    BY <2>1, <1>1
  <2> DEFINE x == p[1]  y == p[2]  z == Mid(p)
  <2> HIDE DEF x, y, z
  <2>3. x \in Nat /\ y \in Nat /\ z \in Nat /\ x < z /\ z < y /\ y <= MaxInt /\ p = <<x, y>> /\ ~(y - x <= 1)
    BY <2>1, <2>2, <1>1 DEF x, y, z
  <2>4. <<x, z>> \in D /\ <<z, y>> \in D /\ <<x, y>> \in D
    BY <2>3, <1>0 DEF Numbers
  <2>5. /\ m[<<x, z>>] = IF z - x <= 1 THEN 0 ELSE z - x
        /\ m[<<z, y>>] = IF y - z <= 1 THEN 0 ELSE y - z
        /\ m[<<x, y>>] = IF y - x <= 1 THEN 0 ELSE y - x
    BY <2>4
  <2> HIDE DEF m
  <2>6. m[<<x, z>>] < m[<<x, y>>] /\ m[<<z, y>>] < m[<<x, y>>]
    BY <2>3, <2>5
  <2> QED BY <2>3, <2>4, <2>6 DEF x, y, z
<1>2. F \in [D \X [D -> V] -> V]
  <2>1. \A f \in [D -> V], p \in D : Step(f, p) \in V
    <3> TAKE f \in [D -> V], p \in D
    <3> HIDE DEF Mid, m
    <3> QED BY <1>1
  <2> HIDE DEF Step, D, V
  <2> QED BY <2>1
<1>3. Descends(D, V, m, F)
  <2>1. ASSUME NEW p \in D, NEW f \in [D -> V], NEW h \in [D -> V],
               \A y \in D : m[y] < m[p] => f[y] = h[y]
        PROVE  F[<<p, f>>] = F[<<p, h>>]
    <3> HIDE DEF D, V, m, Mid
    <3>1. ~(p[2] - p[1] <= 1) => /\ f[<<p[1], Mid(p)>>] = h[<<p[1], Mid(p)>>]
                                 /\ f[<<Mid(p), p[2]>>] = h[<<Mid(p), p[2]>>]
      BY <1>1, <2>1
    <3>2. Step(f, p) = Step(h, p)
      BY <3>1
    <3> HIDE DEF Step
    <3> QED BY <3>2
  <2> HIDE DEF F, m, D, V
  <2> QED BY <2>1, Zenon DEF Descends
<1>4. m \in [D -> Nat]
  <2>1. \A p \in D : (IF p[2] - p[1] <= 1 THEN 0 ELSE p[2] - p[1]) \in Nat
    <3> TAKE p \in D
    <3>1. p[1] \in Int /\ p[2] \in Int
      BY DEF Numbers
    <3> DEFINE x == p[1]  y == p[2]
    <3> HIDE DEF x, y
    <3>2. (IF y - x <= 1 THEN 0 ELSE y - x) \in Nat
      BY <3>1 DEF x, y
    <3> QED BY <3>2 DEF x, y
  <2> QED BY <2>1
<1>5. PICK f : Solution(D, V, F, f)
  <2> HIDE DEF m, F, D
  <2>1. 0 \in V
    BY <1>0
  <2> HIDE DEF V
  <2> QED BY <2>1, <1>2, <1>3, <1>4, RecursionExists, Zenon
<1>6. f \in [D -> V] /\ \A p \in D : f[p] = F[<<p, f>>]
  BY <1>5, Zenon DEF Solution
<1>7. f = [p \in D |-> Step(f, p)]
  <2> HIDE DEF Step, D, V
  <2> QED BY <1>6
<1>8. g = [p \in D |-> Step(g, p)]
  <2> HIDE DEF Step, D
  <2> QED BY <1>7, Zenon
<1>9. \A x, y : Bisect(tab, x, y) = g[<<x, y>>]
  BY Zenon DEF Bisect, Numbers
<1>10. <<i, j>> \in D
  OBVIOUS
<1> HIDE DEF g
<1>11. g[<<i, j>>] = Step(g, <<i, j>>)
  <2> HIDE DEF Step, D
  <2> QED BY <1>8, <1>10
<1>12. Step(g, <<i, j>>) = IF j - i <= 1 THEN i
                           ELSE IF Get(tab, (i + j) \div 2) = Nil THEN g[<<i, (i + j) \div 2>>]
                           ELSE g[<<(i + j) \div 2, j>>]
  OBVIOUS
<1> HIDE DEF Step
<1> QED BY <1>9, <1>11, <1>12

(* It finds a border between an index in use and one that is not.          *)
LEMMA BisectFinds ==
    ASSUME NEW tab, NEW i \in Numbers, NEW j \in Numbers, i < j, Get(tab, j) = Nil
    PROVE  LET n == Bisect(tab, i, j)
           IN  /\ n \in i..j - 1
               /\ n = i \/ Get(tab, n) # Nil
               /\ Get(tab, n + 1) = Nil
<1> DEFINE Good(x, y, n) == /\ n \in x..y - 1
                            /\ n = x \/ Get(tab, n) # Nil
                            /\ Get(tab, n + 1) = Nil
           Bad == {d \in Nat : \E x, y \in Numbers : /\ x < y /\ y - x = d /\ Get(tab, y) = Nil
                                                     /\ ~Good(x, y, Bisect(tab, x, y))}
<1>0. Numbers \subseteq Nat /\ MaxInt \in Nat
  BY TableAssumption DEF Numbers
<1>1. Bad = {}
  <2>1. SUFFICES ASSUME Bad # {} PROVE FALSE
    OBVIOUS
  <2>2. PICK d \in Bad : \A y \in Bad : d <= y
    <3>1. Bad \in SUBSET Nat
      OBVIOUS
    <3> HIDE DEF Bad
    <3> QED BY <2>1, <3>1, Least
  <2>3. PICK x \in Numbers, y \in Numbers : /\ x < y /\ y - x = d /\ Get(tab, y) = Nil
                                            /\ ~Good(x, y, Bisect(tab, x, y))
    <3> HIDE DEF Good
    <3> QED BY <2>2
  <2> DEFINE mid == (x + y) \div 2
  <2>4. Bisect(tab, x, y) = IF y - x <= 1 THEN x
                            ELSE IF Get(tab, mid) = Nil THEN Bisect(tab, x, mid)
                            ELSE Bisect(tab, mid, y)
    BY BisectExists
  <2>5. CASE y - x <= 1
    <3>1. y = x + 1 /\ x \in x..y - 1
      BY <2>3, <2>5, <1>0
    <3> QED BY <3>1, <2>3, <2>4, <2>5
  <2>6. CASE ~(y - x <= 1)
    <3>1. mid \in Nat /\ x < mid /\ mid < y
      BY <2>6, <1>0
    <3> HIDE DEF mid
    <3>2. mid \in Numbers
      BY <3>1, <1>0 DEF Numbers
    <3>3. CASE Get(tab, mid) = Nil
      <4>1. mid - x \in Nat /\ ~(d <= mid - x)
        BY <3>1, <2>3, <1>0
      <4>2. Good(x, mid, Bisect(tab, x, mid))
        <5> HIDE DEF Good
        <5> QED BY <4>1, <3>1, <3>2, <3>3, <2>2
      <4>3. Bisect(tab, x, y) = Bisect(tab, x, mid)
        BY <2>4, <2>6, <3>3
      <4>4. x..mid - 1 \subseteq x..y - 1
        BY <3>1, <1>0
      <4> QED BY <4>2, <4>3, <4>4, <2>3
    <3>4. CASE Get(tab, mid) # Nil
      <4>1. y - mid \in Nat /\ ~(d <= y - mid)
        BY <3>1, <2>3, <1>0
      <4>2. Good(mid, y, Bisect(tab, mid, y))
        <5> HIDE DEF Good
        <5> QED BY <4>1, <3>1, <3>2, <2>3, <2>2
      <4>3. Bisect(tab, x, y) = Bisect(tab, mid, y)
        BY <2>4, <2>6, <3>4
      <4>4. mid..y - 1 \subseteq x..y - 1
        BY <3>1, <1>0
      <4> QED BY <4>2, <4>3, <4>4, <3>4, <2>3
    <3> QED BY <3>3, <3>4
  <2> QED BY <2>5, <2>6
<1>2. j - i \in Nat
  BY <1>0
<1>3. Good(i, j, Bisect(tab, i, j))
  <2> HIDE DEF Good
  <2> QED BY <1>1, <1>2
<1> QED BY <1>3

(* hash_search finds a border, or the largest integer.                     *)
LEMMA HashSearchFinds ==
    ASSUME NEW tab, NEW j \in Numbers, j < MaxInt,
           IF j = 0 THEN Get(tab, 1) # Nil ELSE Get(tab, j) # Nil
    PROVE  LET n == HashSearch(tab, j)
           IN  n \in Numbers /\ Get(tab, n) # Nil /\ (n = MaxInt \/ Get(tab, n + 1) = Nil)
<1> DEFINE D == 1..MaxInt
           V == Numbers
           To(i) == IF i <= MaxInt \div 2 THEN 2 * i ELSE MaxInt
           Step(f, i) == IF Get(tab, To(i)) = Nil THEN Bisect(tab, i, To(i))
                         ELSE IF To(i) = MaxInt THEN MaxInt
                         ELSE f[To(i)]
           (* Where the bisection would start with no distance, any value will do. *)
           Value(f, i) == IF Get(tab, To(i)) = Nil /\ i = To(i) THEN i ELSE Step(f, i)
           m == [i \in D |-> MaxInt - i]
           F == [q \in D \X [D -> V] |-> Value(q[2], q[1])]
           g == CHOOSE h : h = [i \in D |-> Step(h, i)]
           Good(n) == n \in Numbers /\ Get(tab, n) # Nil /\ (n = MaxInt \/ Get(tab, n + 1) = Nil)
<1>0. MaxInt \in Nat /\ MaxInt > 1 /\ Numbers \subseteq Nat /\ 0 \in Numbers
  BY TableAssumption DEF Numbers
<1>1. \A i \in D : /\ i \in Numbers /\ i \in Nat /\ To(i) \in Numbers /\ To(i) \in D /\ i <= To(i)
                   /\ i # To(i) => i < To(i)
                   /\ i = To(i) => i = MaxInt
                   /\ To(i) # MaxInt => i < To(i)
  BY <1>0 DEF Numbers
<1> HIDE DEF To
<1>2. \A f \in [D -> V], i \in D : Value(f, i) \in V
  <2> TAKE f \in [D -> V], i \in D
  <2>1. CASE Get(tab, To(i)) = Nil /\ i = To(i)
    BY <2>1, <1>1
  <2>2. CASE Get(tab, To(i)) = Nil /\ i # To(i)
    <3>1. Bisect(tab, i, To(i)) \in i..To(i) - 1
      BY <2>2, <1>1, BisectFinds
    <3>2. i \in Nat /\ To(i) \in Nat /\ To(i) <= MaxInt
      BY <1>0, <1>1 DEF Numbers
    <3> QED BY <3>1, <3>2, <2>2, <1>0 DEF Numbers
  <2>3. CASE Get(tab, To(i)) # Nil
    <3>1. MaxInt \in V
      BY <1>0 DEF Numbers
    <3> QED BY <3>1, <2>3, <1>1
  <2> QED BY <2>1, <2>2, <2>3
<1>3. F \in [D \X [D -> V] -> V]
  <2> HIDE DEF Value, D, V
  <2> QED BY <1>2
<1>4. Descends(D, V, m, F)
  <2>1. ASSUME NEW i \in D, NEW f \in [D -> V], NEW h \in [D -> V],
               \A y \in D : m[y] < m[i] => f[y] = h[y]
        PROVE  F[<<i, f>>] = F[<<i, h>>]
    <3>1. To(i) # MaxInt => f[To(i)] = h[To(i)]
      <4>1. m[To(i)] = MaxInt - To(i) /\ m[i] = MaxInt - i
        BY <1>1
      <4>2. To(i) # MaxInt => m[To(i)] < m[i]
        BY <4>1, <1>0, <1>1
      <4> HIDE DEF m, D
      <4> QED BY <4>2, <2>1, <1>1
    <3>2. Value(f, i) = Value(h, i)
      BY <3>1
    <3> HIDE DEF Value, D, V
    <3> QED BY <3>2
  <2> HIDE DEF F, m, D, V
  <2> QED BY <2>1, Zenon DEF Descends
<1>5. m \in [D -> Nat]
  BY <1>0
<1>6. PICK f : Solution(D, V, F, f)
  <2> HIDE DEF m, F, D
  <2>1. 0 \in V
    BY <1>0
  <2> HIDE DEF V
  <2> QED BY <2>1, <1>3, <1>4, <1>5, RecursionExists, Zenon
<1>7. f \in [D -> V] /\ \A i \in D : f[i] = F[<<i, f>>]
  BY <1>6, Zenon DEF Solution
<1>8. \A i \in D : f[i] = Value(f, i)
  <2> HIDE DEF Value, D, V
  <2> QED BY <1>7
<1> DEFINE e == [i \in D |-> Step(f, i)]
<1>9. e = [i \in D |-> Step(e, i)]
  <2>1. ASSUME NEW i \in D PROVE Step(f, i) = Step(e, i)
    <3>1. CASE Get(tab, To(i)) = Nil \/ To(i) = MaxInt
      BY <3>1
    <3>2. CASE Get(tab, To(i)) # Nil /\ To(i) # MaxInt
      <4> DEFINE k == To(i)
      <4>1. k \in D /\ e[k] = Step(f, k) /\ f[k] = Value(f, k)
        <5> HIDE DEF Step, Value
        <5> QED BY <1>1, <1>8
      <4>2. k # MaxInt
        BY <3>2
      <4>3. k # To(k)
        BY <4>1, <4>2, <1>1
      <4>4. e[k] = f[k]
        BY <4>1, <4>3
      <4> HIDE DEF e
      <4> QED BY <3>2, <4>4
    <3> QED BY <3>1, <3>2
  <2> HIDE DEF Step
  <2> QED BY <2>1
<1>10. g = [i \in D |-> Step(g, i)]
  <2> HIDE DEF Step, D, e
  <2> QED BY <1>9, Zenon
<1>11. HashSearch(tab, j) = g[IF j = 0 THEN 1 ELSE j]
  BY Zenon DEF HashSearch, To
<1> HIDE DEF g
<1>12. \A i \in D : g[i] = Step(g, i)
  <2> HIDE DEF Step
  <2> QED BY <1>10
<1> DEFINE Bad == {d \in Nat : \E i \in D : i < MaxInt /\ Get(tab, i) # Nil /\ d = MaxInt - i /\ ~Good(g[i])}
<1>13. Bad = {}
  <2>1. SUFFICES ASSUME Bad # {} PROVE FALSE
    OBVIOUS
  <2>2. PICK d \in Bad : \A y \in Bad : d <= y
    <3>1. Bad \in SUBSET Nat
      OBVIOUS
    <3> HIDE DEF Bad
    <3> QED BY <2>1, <3>1, Least
  <2>3. PICK i \in D : i < MaxInt /\ Get(tab, i) # Nil /\ d = MaxInt - i /\ ~Good(g[i])
    <3> HIDE DEF Good
    <3> QED BY <2>2
  <2> DEFINE k == To(i)
  <2>4. /\ i \in Numbers /\ i \in Nat /\ k \in Numbers /\ k \in D /\ k \in Nat /\ i < k /\ k <= MaxInt
    <3>1. i # MaxInt
      BY <2>3, <1>0
    <3> QED BY <3>1, <1>0, <1>1
  <2>5. g[i] = Step(g, i)
    <3> HIDE DEF Step
    <3> QED BY <1>12
  <2>6. CASE Get(tab, k) = Nil
    <3>1. g[i] = Bisect(tab, i, k)
      BY <2>5, <2>6
    <3> DEFINE n == Bisect(tab, i, k)
    <3>2. n \in i..k - 1 /\ (n = i \/ Get(tab, n) # Nil) /\ Get(tab, n + 1) = Nil
      BY <2>4, <2>6, BisectFinds
    <3> HIDE DEF n
    <3>3. n \in Numbers
      BY <3>2, <2>4, <1>0 DEF Numbers
    <3> QED BY <3>1, <3>2, <3>3, <2>3 DEF n
  <2>7. CASE Get(tab, k) # Nil /\ k = MaxInt
    <3>1. g[i] = MaxInt
      BY <2>5, <2>7
    <3> QED BY <3>1, <2>3, <2>4, <2>7
  <2>8. CASE Get(tab, k) # Nil /\ k # MaxInt
    <3>1. g[i] = g[k]
      BY <2>5, <2>8
    <3>2. k < MaxInt /\ MaxInt - k \in Nat /\ ~(d <= MaxInt - k)
      BY <2>3, <2>4, <2>8, <1>0
    <3>3. Good(g[k])
      <4> HIDE DEF Good
      <4> QED BY <3>2, <2>2, <2>4, <2>8
    <3> QED BY <3>1, <3>3, <2>3
  <2> QED BY <2>6, <2>7, <2>8
<1> DEFINE i == IF j = 0 THEN 1 ELSE j
<1>14. i \in D /\ i < MaxInt /\ Get(tab, i) # Nil /\ MaxInt - i \in Nat
  BY <1>0 DEF Numbers
<1> HIDE DEF i
<1>15. Good(g[i])
  <2> HIDE DEF Good
  <2> QED BY <1>13, <1>14
<1> QED BY <1>11, <1>15 DEF i

(* A limit that is a hint tells the size.                                  *)
LEMMA HintKeepsSize ==
    ASSUME NEW tab, TabOK(tab), NEW l \in 0..RealSize(tab), Pow2(RealSize(tab)), RealSize(tab) < 2 * l,
           NEW new, new = [lim |-> l, real |-> FALSE, arr |-> tab.arr, node |-> tab.node, free |-> tab.free]
    PROVE  TabOK(new) /\ RealSize(new) = RealSize(tab) /\ new.arr = tab.arr /\ new.node = tab.node
<1> DEFINE size == RealSize(tab)
<1>1. ArrayOK(tab) /\ NodesOK(tab) /\ KeysOf(tab.node) \cap 1..size = {}
  BY DEF TabOK
<1>2. size \in 0..MaxArray /\ size \in Nat /\ tab.arr \in [1..size -> Cells]
  BY <1>1, TableAssumption DEF ArrayOK
<1>3. /\ new.lim = l /\ new.arr = tab.arr /\ new.node = tab.node /\ new.free = tab.free
      /\ ~new.real /\ new.real \in BOOLEAN
  OBVIOUS
<1>4. new = [lim |-> new.lim, real |-> new.real, arr |-> new.arr, node |-> new.node, free |-> new.free]
  OBVIOUS
<1> HIDE DEF size
<1>5. RealSize(new) = size
  BY <1>2, <1>3, SizeOfLimit DEF size
<1>6. ArrayOK(new)
  BY <1>2, <1>3, <1>5 DEF ArrayOK, size
<1>7. NodesOK(new)
  BY <1>1, <1>3 DEF NodesOK
<1> QED BY <1>1, <1>3, <1>4, <1>5, <1>6, <1>7 DEF TabOK, size

(* What luaH_getn may answer: a border, and a table with the same entries. *)
IsAnswer(tab, len) ==
    /\ len.n \in Numbers
    /\ len.n = 0 \/ Get(tab, len.n) # Nil
    /\ len.n = MaxInt \/ Get(tab, len.n + 1) = Nil
    /\ TabOK(len.tab) /\ RealSize(len.tab) = RealSize(tab)
    /\ len.tab.arr = tab.arr /\ len.tab.node = tab.node

(* A table with a new hint.                                                *)
LEMMA HintedRecord ==
    ASSUME NEW tab, NEW l,
           tab = [lim |-> tab.lim, real |-> tab.real, arr |-> tab.arr, node |-> tab.node, free |-> tab.free]
    PROVE  Hinted(tab, l) = [lim |-> l, real |-> FALSE, arr |-> tab.arr, node |-> tab.node, free |-> tab.free]
<1> DEFINE mid == [tab EXCEPT !.lim = l]
<1>1. mid = [lim |-> l, real |-> tab.real, arr |-> tab.arr, node |-> tab.node, free |-> tab.free]
  OBVIOUS
<1>2. [mid EXCEPT !.real = FALSE] = Hinted(tab, l)
  BY DEF Hinted
<1> HIDE DEF mid
<1>3. [mid EXCEPT !.real = FALSE]
        = [lim |-> l, real |-> FALSE, arr |-> tab.arr, node |-> tab.node, free |-> tab.free]
  <2>1. \A b : [mid EXCEPT !.real = b]
                = [lim |-> l, real |-> b, arr |-> tab.arr, node |-> tab.node, free |-> tab.free]
    BY <1>1
  <2> QED BY <2>1, Zenon
<1> QED BY <1>2, <1>3, Zenon

(* A power of two that is not below twice n, but below twice n + 1.        *)
LEMMA BeforeHint ==
    ASSUME NEW n \in Nat \ {0}, NEW size \in Nat, Pow2(size), ~Pow2(n), n < size, size < 2 * (n + 1)
    PROVE  size < 2 * n
<1>1. RoundUp[size] = size /\ size > 1
  BY DEF Pow2
<1>2. PICK half \in Nat \ {0} : RoundUp[half] = half /\ size = 2 * half
  BY <1>1, HalfPower
<1>3. n # half
  BY <1>2 DEF Pow2
<1> QED BY <1>2, <1>3

(* luaH_getn when the array is full: the border is in the nodes or right   *)
(* after the array.                                                        *)
LEMMA BeyondFinds ==
    ASSUME NEW tab, TabOK(tab), NEW limit, limit = RealSize(tab), limit = 0 \/ Get(tab, limit) # Nil
    PROVE  LET n == Beyond(tab, limit)
           IN  /\ n \in Numbers
               /\ n = 0 \/ Get(tab, n) # Nil
               /\ n = MaxInt \/ Get(tab, n + 1) = Nil
<1>1. ArrayOK(tab) /\ MaxInt \in Nat /\ MaxArray \in 1..MaxInt - 1
  BY TableAssumption DEF TabOK
<1>2. limit \in Nat /\ limit \in Numbers /\ limit < MaxInt /\ limit + 1 \in Keys /\ limit + 1 \notin 1..limit
  BY <1>1 DEF ArrayOK, Numbers, Keys, Ints
<1>3. CASE DOMAIN tab.node = {}
  <2>1. ~InArray(tab, limit + 1)
    BY <1>1, <1>2, InArrayIff
  <2>2. WellChained(tab.node)
    BY DEF TabOK, NodesOK
  <2>3. PICK c, r : Chained(tab.node, c, r)
    BY <2>2 DEF WellChained
  <2>4. Find(tab.node, limit + 1, FALSE) = None
    BY <1>2, <1>3, <2>3, FindLive
  <2>5. Get(tab, limit + 1) = Nil
    BY <2>1, <2>4, Zenon DEF Get
  <2>6. Beyond(tab, limit) = limit
    BY <1>3 DEF Beyond
  <2> QED BY <2>5, <2>6, <1>2
<1>4. CASE Get(tab, limit + 1) = Nil
  BY <1>2, <1>4 DEF Beyond
<1>5. CASE DOMAIN tab.node # {} /\ Get(tab, limit + 1) # Nil
  <2>1. Beyond(tab, limit) = HashSearch(tab, limit)
    BY <1>5 DEF Beyond
  <2>2. IF limit = 0 THEN Get(tab, 1) # Nil ELSE Get(tab, limit) # Nil
    BY <1>2, <1>5
  <2> QED BY <2>1, <2>2, <1>2, HashSearchFinds
<1> QED BY <1>3, <1>4, <1>5

(* luaH_getn finds a border in each of its cases, and keeps the table.     *)
LEMMA LengthFinds ==
    ASSUME NEW tab, TabOK(tab)
    PROVE  IsAnswer(tab, Length(tab))
<1> DEFINE lim == tab.lim
           size == RealSize(tab)
           below == Bisect(tab, 0, lim)
           above == Bisect(tab, lim, size)
           answer(n, new) == [n |-> n, tab |-> new]
           len == Length(tab)
<1>1. /\ ArrayOK(tab) /\ MaxInt \in Nat /\ MaxArray \in Nat /\ MaxArray < MaxInt
      /\ tab = [lim |-> tab.lim, real |-> tab.real, arr |-> tab.arr, node |-> tab.node, free |-> tab.free]
  BY TableAssumption DEF TabOK
<1>2. /\ size \in Nat /\ size <= MaxArray /\ lim \in 0..size /\ tab.real \in BOOLEAN
      /\ tab.real => lim = size
      /\ ~tab.real => Pow2(size) /\ size < 2 * lim
  BY <1>1 DEF ArrayOK
<1>3. lim \in Nat /\ lim \in Numbers /\ size \in Numbers /\ 0 \in Numbers /\ Numbers \subseteq Nat
  BY <1>1, <1>2 DEF Numbers
<1>4. \A k \in 1..size : k \in Keys /\ Get(tab, k) = tab.arr[k]
  <2> TAKE k \in 1..size
  <2>1. k \in Keys
    BY <1>1, <1>2 DEF Keys, Ints
  <2>2. InArray(tab, k)
    BY <2>1, <1>1, InArrayIff
  <2> QED BY <2>1, <2>2 DEF Get
<1>5. IsSize(tab) => lim = size
  BY DEF RealSize
<1>6. ~IsSize(tab) => ~tab.real /\ lim < size /\ lim > 0
  <2>1. ~IsSize(tab) => ~tab.real /\ ~Pow2(lim)
    BY DEF IsSize
  <2>2. ~IsSize(tab) => lim # size
    BY <2>1, <1>2
  <2> QED BY <2>1, <2>2, <1>2, <1>3
<1>7. Pow2Size(tab) => Pow2(size)
  BY <1>2 DEF Pow2Size
<1>8. ASSUME NEW n \in Numbers, n = 0 \/ Get(tab, n) # Nil, n = MaxInt \/ Get(tab, n + 1) = Nil,
             NEW new, TabOK(new), RealSize(new) = size, new.arr = tab.arr, new.node = tab.node
      PROVE  IsAnswer(tab, answer(n, new))
  BY <1>8 DEF IsAnswer
<1>9. ASSUME NEW n \in Numbers, n = 0 \/ Get(tab, n) # Nil, n = MaxInt \/ Get(tab, n + 1) = Nil,
             n <= size, Pow2(size), size < 2 * n
      PROVE  IsAnswer(tab, answer(n, Hinted(tab, n)))
  <2>1. Hinted(tab, n) = [lim |-> n, real |-> FALSE, arr |-> tab.arr, node |-> tab.node, free |-> tab.free]
    BY <1>1, HintedRecord
  <2>2. n \in 0..size
    BY <1>2, <1>3, <1>9
  <2> DEFINE new == Hinted(tab, n)
  <2> HIDE DEF new
  <2>3. TabOK(new) /\ RealSize(new) = size /\ new.arr = tab.arr /\ new.node = tab.node
    BY <2>1, <2>2, <1>9, HintKeepsSize DEF new
  <2> QED BY <2>3, <1>8, <1>9 DEF new
<1>10. CASE lim > 0 /\ tab.arr[lim] = Nil /\ lim >= 2 /\ tab.arr[lim - 1] # Nil
  <2> DEFINE n == lim - 1
  <2>1. len = answer(n, IF Pow2Size(tab) /\ ~Pow2(n) THEN Hinted(tab, n) ELSE tab)
    BY <1>10, Zenon DEF Length
  <2>2. n \in Nat /\ n > 0 /\ n + 1 = lim /\ n \in 1..size /\ lim \in 1..size /\ n \in Numbers /\ n < size
    BY <1>1, <1>2, <1>3, <1>10 DEF Numbers
  <2>3. Get(tab, n) # Nil /\ Get(tab, n + 1) = Nil
    BY <2>2, <1>4, <1>10
  <2>4. CASE Pow2Size(tab) /\ ~Pow2(n)
    <3>1. Pow2(size) /\ size < 2 * (n + 1)
      <4>1. CASE tab.real
        BY <4>1, <2>2, <2>4, <1>2, <1>7
      <4>2. CASE ~tab.real
        BY <4>2, <2>2, <1>2
      <4> QED BY <4>1, <4>2
    <3> HIDE DEF n, size, len
    <3>2. size < 2 * n
      BY <3>1, <2>2, <2>4, <1>2, BeforeHint
    <3>3. IsAnswer(tab, answer(n, Hinted(tab, n)))
      BY <3>1, <3>2, <2>2, <2>3, <1>9
    <3> QED BY <3>3, <2>1, <2>4 DEF len
  <2>5. CASE ~(Pow2Size(tab) /\ ~Pow2(n))
    <3> HIDE DEF n, len
    <3>1. IsAnswer(tab, answer(n, tab))
      BY <2>2, <2>3, <1>8
    <3> QED BY <3>1, <2>1, <2>5 DEF len
  <2> QED BY <2>4, <2>5
<1>11. CASE lim > 0 /\ tab.arr[lim] = Nil /\ ~(lim >= 2 /\ tab.arr[lim - 1] # Nil)
  <2>1. len = answer(below, IF Pow2Size(tab) /\ below > size \div 2 THEN Hinted(tab, below) ELSE tab)
    BY <1>11, Zenon DEF Length
  <2>2. lim \in 1..size
    BY <1>2, <1>11
  <2>3. Get(tab, lim) = Nil
    BY <2>2, <1>4, <1>11
  <2>4. below \in 0..lim - 1 /\ (below = 0 \/ Get(tab, below) # Nil) /\ Get(tab, below + 1) = Nil
    BY <2>3, <1>3, <1>11, BisectFinds
  <2> HIDE DEF below, size, len
  <2>5. below \in Numbers /\ below \in Nat /\ below <= size
    BY <2>2, <2>4, <1>1, <1>2 DEF Numbers
  <2>6. CASE Pow2Size(tab) /\ below > size \div 2
    <3>1. Pow2(size) /\ size < 2 * below
      BY <2>5, <2>6, <1>2, <1>7
    <3>2. IsAnswer(tab, answer(below, Hinted(tab, below)))
      BY <3>1, <2>4, <2>5, <1>9
    <3> QED BY <3>2, <2>1, <2>6 DEF len
  <2>7. CASE ~(Pow2Size(tab) /\ below > size \div 2)
    <3>1. IsAnswer(tab, answer(below, tab))
      BY <2>4, <2>5, <1>8 DEF size
    <3> QED BY <3>1, <2>1, <2>7 DEF len
  <2> QED BY <2>6, <2>7
<1>12. ASSUME ~(lim > 0 /\ tab.arr[lim] = Nil)
       PROVE  lim = 0 \/ Get(tab, lim) # Nil
  <2>1. lim # 0 => lim > 0 /\ lim \in 1..size
    BY <1>2, <1>3
  <2> QED BY <2>1, <1>4, <1>12
<1>13. CASE ~(lim > 0 /\ tab.arr[lim] = Nil) /\ IsSize(tab)
  <2>1. len = answer(Beyond(tab, lim), tab)
    BY <1>13, Zenon DEF Length
  <2> DEFINE n == Beyond(tab, lim)
  <2>2. n \in Numbers /\ (n = 0 \/ Get(tab, n) # Nil) /\ (n = MaxInt \/ Get(tab, n + 1) = Nil)
    BY <1>5, <1>12, <1>13, BeyondFinds
  <2> HIDE DEF n, len
  <2>3. IsAnswer(tab, answer(n, tab))
    BY <2>2, <1>8
  <2> QED BY <2>1, <2>3 DEF n, len
<1>14. CASE ~(lim > 0 /\ tab.arr[lim] = Nil) /\ ~IsSize(tab) /\ tab.arr[lim + 1] = Nil
  <2>1. len = answer(lim, tab)
    BY <1>14, Zenon DEF Length
  <2>2. lim + 1 \in 1..size
    BY <1>2, <1>3, <1>6, <1>14
  <2>3. Get(tab, lim + 1) = Nil
    BY <2>2, <1>4, <1>14
  <2> HIDE DEF len
  <2>4. IsAnswer(tab, answer(lim, tab))
    BY <2>3, <1>3, <1>8, <1>12, <1>14
  <2> QED BY <2>1, <2>4 DEF len
<1>15. CASE ~(lim > 0 /\ tab.arr[lim] = Nil) /\ ~IsSize(tab) /\ tab.arr[lim + 1] # Nil /\ tab.arr[size] = Nil
  <2>1. len = answer(above, [tab EXCEPT !.lim = above])
    BY <1>15, Zenon DEF Length
  <2>2. lim < size /\ size \in 1..size /\ ~tab.real /\ lim > 0
    BY <1>2, <1>3, <1>6, <1>15
  <2>3. Get(tab, size) = Nil
    BY <2>2, <1>4, <1>15
  <2>4. above \in lim..size - 1 /\ (above = lim \/ Get(tab, above) # Nil) /\ Get(tab, above + 1) = Nil
    BY <2>2, <2>3, <1>3, BisectFinds
  <2>5. lim = 0 \/ Get(tab, lim) # Nil
    BY <1>12, <1>15
  <2> DEFINE new == [tab EXCEPT !.lim = above]
  <2> HIDE DEF above, size, len
  <2>6. new = [lim |-> above, real |-> FALSE, arr |-> tab.arr, node |-> tab.node, free |-> tab.free]
    <3>1. tab.real = FALSE
      BY <2>2, <1>2
    <3>2. new = [lim |-> above, real |-> tab.real, arr |-> tab.arr, node |-> tab.node, free |-> tab.free]
      BY <1>1
    <3> QED BY <3>1, <3>2
  <2> HIDE DEF new
  <2>7. above \in 0..size /\ above \in Numbers /\ size < 2 * above /\ above \in Nat
    BY <2>2, <2>4, <1>1, <1>2, <1>3 DEF Numbers
  <2>8. TabOK(new) /\ RealSize(new) = size /\ new.arr = tab.arr /\ new.node = tab.node
    BY <2>2, <2>6, <2>7, <1>2, HintKeepsSize DEF size
  <2>9. IsAnswer(tab, answer(above, new))
    BY <2>2, <2>4, <2>5, <2>7, <2>8, <1>8
  <2> QED BY <2>1, <2>9 DEF len, new
<1>16. CASE ~(lim > 0 /\ tab.arr[lim] = Nil) /\ ~IsSize(tab) /\ tab.arr[lim + 1] # Nil /\ tab.arr[size] # Nil
  <2>1. len = answer(Beyond(tab, size), tab)
    BY <1>16, Zenon DEF Length
  <2>2. size \in 1..size
    BY <1>2, <1>3, <1>6, <1>16
  <2>3. Get(tab, size) # Nil
    BY <2>2, <1>4, <1>16
  <2> DEFINE n == Beyond(tab, size)
  <2>4. n \in Numbers /\ (n = 0 \/ Get(tab, n) # Nil) /\ (n = MaxInt \/ Get(tab, n + 1) = Nil)
    BY <2>3, BeyondFinds
  <2> HIDE DEF n, len
  <2>5. IsAnswer(tab, answer(n, tab))
    BY <2>4, <1>8
  <2> QED BY <2>1, <2>5 DEF n, len
<1> HIDE DEF len, lim, size
<1> QED BY <1>10, <1>11, <1>13, <1>14, <1>15, <1>16 DEF len

-----------------------------------------------------------------------------
(* Traversal.                                                              *)

(* What a walk meets does not depend on values and on dead keys.           *)
LEMMA ChainSame ==
    ASSUME NEW node, NEW other, IsNodes(node), IsNodes(other), SamePlaces(node, other), NEW i \in DOMAIN node
    PROVE  \A j \in 0..Size(node) : Chain(node, i)[j] = Chain(other, i)[j]
<1> DEFINE N == DOMAIN node
           size == Size(node)
           a == Chain(node, i)
           b == Chain(other, i)
           Bad == {j \in 0..size : a[j] # b[j]}
<1>1. DOMAIN other = N /\ Size(other) = size /\ \A n \in N : other[n].next = node[n].next
  BY DEF SamePlaces, Size
<1>2. /\ a \in [0..size -> N \cup {None}] /\ a[0] = i /\ size \in Nat
      /\ \A j \in 0..size - 1 : a[j + 1] = IF a[j] = None THEN None ELSE node[a[j]].next
  BY ChainExists, NodesFinite
<1>3. /\ b[0] = i
      /\ \A j \in 0..size - 1 : b[j + 1] = IF b[j] = None THEN None ELSE other[b[j]].next
  BY <1>1, ChainExists
<1> HIDE DEF a, b, size
<1>4. SUFFICES ASSUME Bad # {} PROVE FALSE
  BY DEF a, b, size
<1>5. PICK j \in Bad : \A y \in Bad : j <= y
  <2>1. Bad \in SUBSET Nat
    BY <1>2
  <2> HIDE DEF Bad
  <2> QED BY <2>1, <1>4, Least
<1>6. j # 0 /\ j \in Nat
  BY <1>2, <1>3, <1>5
<1>7. j - 1 \in 0..size - 1 /\ j - 1 \in 0..size /\ j - 1 + 1 = j /\ ~(j <= j - 1)
  BY <1>2, <1>5, <1>6
<1>8. a[j - 1] = b[j - 1] /\ a[j - 1] \in N \cup {None}
  BY <1>2, <1>5, <1>7
<1> QED BY <1>1, <1>2, <1>3, <1>5, <1>7, <1>8

(* Nor does the node that findindex finds.                                 *)
LEMMA FindSame ==
    ASSUME NEW node, NEW other, IsNodes(node), IsNodes(other), SamePlaces(node, other), NEW k \in Keys
    PROVE  Find(other, k, TRUE) = Find(node, k, TRUE)
<1> DEFINE N == DOMAIN node
           i == MainPos(node, k)
           a == IF DOMAIN node = {} THEN <<>> ELSE Chain(node, MainPos(node, k))
           b == IF DOMAIN other = {} THEN <<>> ELSE Chain(other, MainPos(other, k))
           A == {j \in DOMAIN a : a[j] # None /\ node[a[j]].key = k /\ (node[a[j]].dead => TRUE)}
           B == {j \in DOMAIN b : b[j] # None /\ other[b[j]].key = k /\ (other[b[j]].dead => TRUE)}
<1>1. DOMAIN other = N /\ \A n \in N : other[n].key = node[n].key
  BY DEF SamePlaces
<1>2. /\ Find(node, k, TRUE) = IF A = {} THEN None ELSE a[Min(A)]
      /\ Find(other, k, TRUE) = IF B = {} THEN None ELSE b[Min(B)]
  BY Zenon DEF Find
<1>3. MainPos(other, k) = i
  BY <1>1, MainPosSame, Zenon
<1>4. a = b /\ \A j \in DOMAIN a : a[j] # None => a[j] \in N
  <2>1. CASE N = {}
    <3>1. a = <<>> /\ b = <<>>
      BY <2>1, <1>1
    <3> HIDE DEF a, b
    <3> QED BY <3>1
  <2>2. CASE N # {}
    <3>1. i \in N
      BY <2>2, MainPosInside
    <3>2. a = Chain(node, i) /\ b = Chain(other, i)
      BY <2>2, <1>1, <1>3, Zenon
    <3>3. Size(other) = Size(node)
      BY <1>1 DEF Size
    <3>4. a \in [0..Size(node) -> N \cup {None}]
      BY <3>1, <3>2, ChainExists, Zenon
    <3>5. b \in [0..Size(node) -> N \cup {None}]
      BY <3>1, <3>2, <3>3, <1>1, ChainExists, Zenon
    <3>6. \A j \in 0..Size(node) : a[j] = b[j]
      BY <3>1, <3>2, ChainSame
    <3> DEFINE D == 0..Size(node)  V == N \cup {None}
    <3> HIDE DEF a, b, D, V
    <3>7. a \in [D -> V] /\ b \in [D -> V] /\ \A j \in D : a[j] = b[j]
      BY <3>4, <3>5, <3>6 DEF D, V
    <3>8. a = b
      BY <3>7
    <3>9. \A j \in DOMAIN a : a[j] \in V
      BY <3>7
    <3> QED BY <3>8, <3>9 DEF V
  <2> QED BY <2>1, <2>2
<1> HIDE DEF a, b
<1>5. A = B
  BY <1>1, <1>4
<1> HIDE DEF A, B
<1>6. a = b
  BY <1>4
<1> DEFINE fa == Find(node, k, TRUE)  fb == Find(other, k, TRUE)
<1>7. fa = (IF A = {} THEN None ELSE a[Min(A)]) /\ fb = (IF B = {} THEN None ELSE b[Min(B)])
  BY <1>2
<1> HIDE DEF fa, fb
<1>8. fa = fb
  BY <1>5, <1>6, <1>7
<1> QED BY <1>8 DEF fa, fb

(* Nor does the index.                                                     *)
LEMMA IndexSame ==
    ASSUME NEW tab, TabOK(tab), NEW new, TabOK(new), RealSize(new) = RealSize(tab),
           SamePlaces(tab.node, new.node), NEW k \in Keys
    PROVE  IndexOf(new, k) = IndexOf(tab, k)
<1>1. IsNodes(tab.node) /\ IsNodes(new.node)
  BY DEF TabOK, NodesOK, WellChained, Chained
<1>2. Find(new.node, k, TRUE) = Find(tab.node, k, TRUE)
  BY <1>1, FindSame
<1> QED BY <1>2, Zenon DEF IndexOf

(* The index of a key that has a value is its position.                    *)
LEMMA IndexUsed ==
    ASSUME NEW tab, TabOK(tab), NEW k \in Keys, Get(tab, k) # Nil
    PROVE  IndexOf(tab, k) \in Used(tab) /\ EntryAt(tab, IndexOf(tab, k)).key = k
<1> DEFINE size == RealSize(tab)
           node == tab.node
<1>1. ArrayOK(tab) /\ NodesOK(tab)
  BY DEF TabOK
<1>2. PICK v \in Values : Get(tab, k) = v
  BY GetHolds DEF Cells
<1>3. Holds(tab, k, v) /\ v # Nil
  BY <1>2, GetHolds
<1>4. PICK c, r : Chained(node, c, r)
  BY <1>1 DEF NodesOK, WellChained
<1>5. /\ Size(node) \in Nat /\ Cardinality(DOMAIN node) = Size(node) /\ DOMAIN node = 0..Size(node) - 1
      /\ None \notin DOMAIN node
  BY <1>4, NodesFinite DEF Chained, IsNodes
<1>6. size \in Nat
  BY <1>1, TableAssumption DEF ArrayOK
<1>7. CASE k \in 1..size
  <2>1. IndexOf(tab, k) = k
    BY <1>7 DEF IndexOf
  <2>2. tab.arr[k] = v
    BY <1>3, <1>7 DEF Holds
  <2>3. k <= size /\ k \in 1..size + Size(node)
    BY <1>5, <1>6, <1>7
  <2>4. EntryAt(tab, k).key = k /\ EntryAt(tab, k).val = v
    BY <2>2, <2>3 DEF EntryAt
  <2> QED BY <2>1, <2>3, <2>4, <1>3, <1>5 DEF Used, Positions
<1>8. CASE k \notin 1..size
  <2> DEFINE n == Find(node, k, TRUE)
  <2>1. PICK m \in Filled(node) : node[m].key = k /\ node[m].val = v
    BY <1>3, <1>8 DEF Holds, Pairs
  <2>2. m \in DOMAIN node /\ ~node[m].dead /\ k # None
    BY <2>1, <1>4, FilledAlive DEF Filled
  <2>3. /\ n # None /\ n \in DOMAIN node /\ node[n].key = k /\ r[n] <= r[m]
    <3>1. IsNodes(node) /\ Linked(node, c, r) /\ Homed(node, c, r)
      BY <1>4 DEF Chained
    <3>2. \A d \in BOOLEAN : LET q == Find(node, k, d)
                               Hit(x) == node[x].key = k /\ (node[x].dead => d)
                           IN  /\ q = None => \A x \in DOMAIN node : ~Hit(x)
                               /\ q # None => /\ q \in DOMAIN node /\ Hit(q)
                                              /\ \A x \in DOMAIN node : Hit(x) => r[q] <= r[x]
      BY <3>1, FindFinds
    <3>3. /\ n = None => \A x \in DOMAIN node : ~(node[x].key = k)
          /\ n # None => /\ n \in DOMAIN node /\ node[n].key = k
                         /\ \A x \in DOMAIN node : node[x].key = k => r[n] <= r[x]
      BY <3>2
    <3> HIDE DEF n
    <3> QED BY <3>3, <2>1, <2>2
  <2>4. IndexOf(tab, k) = IF n = None THEN None ELSE size + 1 + n
    BY <1>8, Zenon DEF IndexOf
  <2> HIDE DEF n
  <2>5. n = m
    <3>1. SUFFICES ASSUME n # m PROVE FALSE
      OBVIOUS
    <3>2. r[m] < r[n]
      BY <3>1, <2>1, <2>2, <2>3, <1>4 DEF Chained, LiveFirst
    <3>3. r[m] \in Nat /\ r[n] \in Nat
      BY <2>2, <2>3, <1>4 DEF Chained, Linked
    <3> QED BY <3>2, <3>3, <2>3
  <2> DEFINE p == size + 1 + n
  <2>6. p \in 1..size + Size(node) /\ ~(p <= size) /\ p - size - 1 = n
    BY <2>3, <1>5, <1>6
  <2> HIDE DEF p
  <2>7. EntryAt(tab, p).key = k /\ EntryAt(tab, p).val = v
    BY <2>1, <2>5, <2>6 DEF EntryAt
  <2>8. p \in Used(tab)
    BY <2>6, <2>7, <1>3, <1>5 DEF Used, Positions
  <2> QED BY <2>3, <2>4, <2>7, <2>8 DEF p
<1> QED BY <1>7, <1>8

(* The index of an entry in use is its position.                           *)
LEMMA UsedIndex ==
    ASSUME NEW tab, TabOK(tab), NEW p \in Used(tab)
    PROVE  LET k == EntryAt(tab, p).key
           IN  k \in Keys /\ k # None /\ Get(tab, k) # Nil /\ IndexOf(tab, k) = p
<1> DEFINE k == EntryAt(tab, p).key
           v == EntryAt(tab, p).val
           old == RealSize(tab)
           n == p - old - 1
<1>1. /\ k \in Keys /\ v \in Values
      /\ p <= old => p \in 1..old /\ k = p /\ v = tab.arr[p]
      /\ ~(p <= old) => n \in Filled(tab.node) /\ k = tab.node[n].key /\ v = tab.node[n].val /\ k \notin 1..old
  BY UsedEntry
<1> HIDE DEF k, v, n
<1>2. Holds(tab, k, v)
  <2>1. CASE p <= old
    BY <2>1, <1>1 DEF Holds
  <2>2. CASE ~(p <= old)
    <3>1. <<k, v>> \in Pairs(tab.node)
      BY <2>2, <1>1 DEF Pairs
    <3> QED BY <2>2, <3>1, <1>1 DEF Holds
  <2> QED BY <2>1, <2>2
<1>3. Get(tab, k) = v /\ v # Nil /\ k # None
  BY <1>1, <1>2, GetHolds, TableAssumption
<1>4. IndexOf(tab, k) \in Used(tab) /\ EntryAt(tab, IndexOf(tab, k)).key = k
  BY <1>1, <1>3, IndexUsed
<1>5. IndexOf(tab, k) = p
  BY <1>4, UsedDistinct DEF k
<1> QED BY <1>1, <1>3, <1>5 DEF k

(* Where next goes on.                                                     *)
LEMMA AfterFinds ==
    ASSUME NEW tab, TabOK(tab), NEW i \in Nat
    PROVE  LET k == After(tab, i)
           IN  /\ k = None => \A j \in Keys : Get(tab, j) # Nil => IndexOf(tab, j) <= i
               /\ k # None => /\ k \in Keys /\ Get(tab, k) # Nil /\ IndexOf(tab, k) > i
                              /\ \A j \in Keys : Get(tab, j) # Nil =>
                                    (IndexOf(tab, j) <= IndexOf(tab, k) <=> j = k \/ IndexOf(tab, j) <= i)
<1> DEFINE rest == {p \in Used(tab) : p > i}
           k == After(tab, i)
<1>1. k = IF rest = {} THEN None ELSE EntryAt(tab, Min(rest)).key
  BY Zenon DEF After
<1>2. \A p \in Used(tab) : p \in Nat
  BY UsedEntry
<1>3. \A j \in Keys : Get(tab, j) # Nil => /\ IndexOf(tab, j) \in Used(tab) /\ IndexOf(tab, j) \in Nat
                                           /\ EntryAt(tab, IndexOf(tab, j)).key = j
  BY <1>2, IndexUsed
<1>4. CASE rest = {}
  <2>1. k = None
    BY <1>1, <1>4
  <2>2. ASSUME NEW j \in Keys, Get(tab, j) # Nil PROVE IndexOf(tab, j) <= i
    <3>1. ~(IndexOf(tab, j) > i)
      BY <2>2, <1>3, <1>4
    <3> QED BY <3>1, <2>2, <1>3
  <2> HIDE DEF k
  <2> QED BY <2>1, <2>2 DEF k
<1>5. CASE rest # {}
  <2>1. PICK x \in rest : \A y \in rest : x <= y
    <3>1. rest \in SUBSET Nat
      BY <1>2
    <3> HIDE DEF rest
    <3> QED BY <3>1, <1>5, Least
  <2>2. Min(rest) \in rest /\ \A y \in rest : Min(rest) <= y
    BY <2>1, Zenon DEF Min
  <2> DEFINE p == Min(rest)
  <2> HIDE DEF p
  <2>3. p \in Used(tab) /\ p > i /\ p \in Nat /\ \A y \in rest : p <= y
    BY <2>2, <1>2 DEF p
  <2>4. k = EntryAt(tab, p).key
    BY <1>1, <1>5 DEF p
  <2> HIDE DEF k
  <2>5. k \in Keys /\ k # None /\ Get(tab, k) # Nil /\ IndexOf(tab, k) = p
    BY <2>3, <2>4, UsedIndex
  <2>6. ASSUME NEW j \in Keys, Get(tab, j) # Nil
        PROVE  IndexOf(tab, j) <= IndexOf(tab, k) <=> j = k \/ IndexOf(tab, j) <= i
    <3> DEFINE q == IndexOf(tab, j)
    <3>1. q \in Used(tab) /\ q \in Nat /\ EntryAt(tab, q).key = j
      BY <2>6, <1>3
    <3> HIDE DEF q
    <3>2. q > i => p <= q
      BY <2>3, <3>1
    <3>3. q = p => j = k
      BY <3>1, <2>4
    <3>4. j = k => q = p
      BY <2>5 DEF q
    <3> QED BY <3>1, <3>2, <3>3, <3>4, <2>3, <2>5 DEF q
  <2> QED BY <2>3, <2>5, <2>6 DEF k
<1> QED BY <1>4, <1>5

(* An index is a number, or there is none.                                 *)
LEMMA IndexType ==
    ASSUME NEW tab, TabOK(tab), NEW k \in Keys
    PROVE  IndexOf(tab, k) \in Nat \cup {None}
<1> DEFINE n == Find(tab.node, k, TRUE)
           size == RealSize(tab)
<1>1. PICK c, r : Chained(tab.node, c, r)
  BY DEF TabOK, NodesOK, WellChained
<1>2. size \in Nat
  BY TableAssumption DEF TabOK, ArrayOK
<1>3. n # None => n \in Nat
  <2>1. IsNodes(tab.node) /\ Linked(tab.node, c, r) /\ Homed(tab.node, c, r)
    BY <1>1 DEF Chained
  <2>2. \A d \in BOOLEAN : Find(tab.node, k, d) # None => Find(tab.node, k, d) \in DOMAIN tab.node
    BY <2>1, FindFinds
  <2>3. n # None => n \in DOMAIN tab.node
    BY <2>2
  <2> QED BY <2>1, <2>3, NodesFinite
<1>4. IndexOf(tab, k) = IF k \in 1..size THEN k ELSE IF n = None THEN None ELSE size + 1 + n
  BY Zenon DEF IndexOf
<1> HIDE DEF n, size
<1> QED BY <1>2, <1>3, <1>4

(* Another table with the same array and the same nodes.                   *)
LEMMA SameEntries ==
    ASSUME NEW tab, TabOK(tab), NEW new, TabOK(new), RealSize(new) = RealSize(tab),
           new.arr = tab.arr, new.node = tab.node
    PROVE  SamePlaces(tab.node, new.node) /\ \A k \in Keys : Get(new, k) = Get(tab, k)
<1>1. \A k \in Keys, v \in Values : Holds(tab, k, v) <=> Holds(new, k, v)
  BY DEF Holds
<1>2. SamePlaces(tab.node, new.node)
  BY DEF SamePlaces
<1> QED BY <1>1, <1>2, SameGet

(* The collector only marks keys of empty nodes as dead.                   *)
LEMMA ClearedChains ==
    ASSUME NEW node, NEW c, NEW r, Chained(node, c, r)
    PROVE  /\ Chained(Cleared(node), c, r) /\ SamePlaces(node, Cleared(node))
           /\ \A n \in DOMAIN node : Cleared(node)[n].val = node[n].val
<1> DEFINE N == DOMAIN node
           other == Cleared(node)
<1>1. IsNodes(node) /\ Linked(node, c, r) /\ Homed(node, c, r) /\ LiveFirst(node, r) /\ DeadEmpty(node)
  BY DEF Chained
<1>2. \A n \in N : node[n] \in NodeType /\ node[n].next \in N \cup {None}
  BY <1>1 DEF IsNodes
<1>3. DOMAIN other = N
  BY DEF Cleared
<1>4. ASSUME NEW n \in N
      PROVE  /\ other[n].key = node[n].key /\ other[n].next = node[n].next /\ other[n].val = node[n].val
             /\ other[n].dead <=> node[n].dead \/ (node[n].val = Nil /\ node[n].key \in Objects)
             /\ other[n] \in NodeType
  <2> DEFINE x == node[n]
             d == x.dead \/ (x.val = Nil /\ x.key \in Objects)
  <2>1. other[n] = [x EXCEPT !.dead = d]
    BY DEF Cleared
  <2>2. x \in NodeType /\ d \in BOOLEAN
    BY <1>2
  <2> HIDE DEF x, d, other
  <2>3. other[n].dead = d /\ other[n] \in NodeType
        /\ other[n].key = x.key /\ other[n].next = x.next /\ other[n].val = x.val
    BY <2>1, <2>2 DEF NodeType
  <2> QED BY <2>3 DEF x, d
<1>5. None \notin Objects
  BY TableAssumption DEF Keys
<1>6. ASSUME NEW n \in N, node[n].key = None PROVE other[n] = node[n]
  <2>1. node[n] = Unused
    BY <1>1, <1>6 DEF Homed
  <2>2. ~(node[n].dead \/ (node[n].val = Nil /\ node[n].key \in Objects)) /\ ~node[n].dead
    BY <2>1, <1>5, <1>6 DEF Unused
  <2>3. ~other[n].dead
    BY <2>2, <1>4
  <2>4. other[n].key = node[n].key /\ other[n].next = node[n].next /\ other[n].val = node[n].val
        /\ other[n] \in NodeType /\ node[n] \in NodeType
    BY <1>2, <1>4
  <2> HIDE DEF other
  <2>5. \A x, y \in NodeType : x.key = y.key /\ x.next = y.next /\ x.val = y.val /\ x.dead = y.dead => x = y
    BY DEF NodeType
  <2>6. \A x \in NodeType : ~x.dead => x.dead = FALSE
    BY DEF NodeType
  <2> QED BY <2>2, <2>3, <2>4, <2>5, <2>6
<1> HIDE DEF other
<1>7. \A j : MainPos(other, j) = MainPos(node, j)
  BY <1>3, MainPosSame, Zenon
<1>8. IsNodes(other)
  BY <1>1, <1>2, <1>3, <1>4 DEF IsNodes, Size
<1>9. Linked(other, c, r)
  BY <1>1, <1>3, <1>4 DEF Linked
<1>10. Homed(other, c, r)
  <2>1. ASSUME NEW m \in N, other[m].key = None
        PROVE  other[m] = Unused /\ \A q \in N : c[q] = c[m] => q = m
    BY <2>1, <1>1, <1>4, <1>6 DEF Homed
  <2>2. ASSUME NEW m \in N, other[m].key # None
        PROVE  LET h == MainPos(other, other[m].key)
               IN  /\ c[h] = c[m] /\ r[h] <= r[m] /\ other[h].key # None
                   /\ MainPos(other, other[h].key) = h
    <3> DEFINE h == MainPos(node, node[m].key)
    <3>1. other[m].key = node[m].key
      BY <1>4
    <3>2. /\ c[h] = c[m] /\ r[h] <= r[m] /\ node[h].key # None
          /\ MainPos(node, node[h].key) = h
      BY <3>1, <2>2, <1>1, Zenon DEF Homed
    <3>3. h \in N
      <4>1. node[m].key \in Keys
        BY <3>1, <2>2, <1>2 DEF NodeType
      <4> QED BY <4>1, <1>1, MainPosInside
    <3> HIDE DEF h
    <3>4. MainPos(other, other[m].key) = h
      BY <3>1, <1>7, Zenon DEF h
    <3> QED BY <3>2, <3>3, <3>4, <1>4, <1>7
  <2> QED BY <2>1, <2>2, <1>3, Zenon DEF Homed
<1>11. DeadEmpty(other)
  BY <1>1, <1>3, <1>4 DEF DeadEmpty
<1>12. LiveFirst(other, r)
  BY <1>1, <1>3, <1>4 DEF LiveFirst
<1>13. SamePlaces(node, other)
  BY <1>3, <1>4 DEF SamePlaces
<1>14. Chained(other, c, r)
  BY <1>8, <1>9, <1>10, <1>11, <1>12, Zenon DEF Chained
<1> QED BY <1>4, <1>13, <1>14 DEF other

(* The collector keeps what the table holds and where.                     *)
LEMMA ClearedSame ==
    ASSUME NEW tab, TabOK(tab)
    PROVE  LET new == [tab EXCEPT !.node = Cleared(tab.node)]
           IN  /\ TabOK(new) /\ RealSize(new) = RealSize(tab) /\ SamePlaces(tab.node, new.node)
               /\ \A k \in Keys : Get(new, k) = Get(tab, k)
<1> DEFINE node == tab.node
           other == Cleared(node)
           new == [tab EXCEPT !.node = other]
<1>1. /\ NodesOK(tab) /\ KeysOf(node) \cap 1..RealSize(tab) = {}
      /\ tab = [lim |-> tab.lim, real |-> tab.real, arr |-> tab.arr, node |-> tab.node, free |-> tab.free]
  BY DEF TabOK
<1>2. PICK c, r : Chained(node, c, r)
  BY <1>1 DEF NodesOK, WellChained
<1>3. /\ Chained(other, c, r) /\ SamePlaces(node, other)
      /\ \A n \in DOMAIN node : other[n].val = node[n].val
  BY <1>2, ClearedChains
<1> HIDE DEF other
<1>4. new = [lim |-> tab.lim, real |-> tab.real, arr |-> tab.arr, node |-> other, free |-> tab.free]
  BY <1>1
<1>5. DOMAIN other = DOMAIN node /\ \A n \in DOMAIN node : other[n].key = node[n].key
  BY <1>3 DEF SamePlaces
<1>6. KeysOf(other) = KeysOf(node) /\ Pairs(other) = Pairs(node)
  BY <1>3, <1>5 DEF KeysOf, Pairs, Filled
<1>7. WellChained(other)
  BY <1>3 DEF WellChained
<1>8. /\ tab.free \in 0..Size(node)
      /\ \A n \in DOMAIN other : n >= tab.free => other[n].key # None
  BY <1>1, <1>5 DEF NodesOK
<1> HIDE DEF new
<1>9. TabOK(new) /\ RealSize(new) = RealSize(tab) /\ new.arr = tab.arr /\ new.node = other
  BY <1>1, <1>4, <1>5, <1>6, <1>7, <1>8, NewNodes
<1>10. \A k \in Keys, v \in Values : Holds(tab, k, v) <=> Holds(new, k, v)
  BY <1>6, <1>9 DEF Holds
<1>11. \A k \in Keys : Get(new, k) = Get(tab, k)
  BY <1>9, <1>10, SameGet
<1> QED BY <1>3, <1>9, <1>11 DEF new, other

-----------------------------------------------------------------------------
(* New tables.                                                             *)

(* The positional fields are stored in an array that has room for them.    *)
LEMMA ListStored ==
    ASSUME NEW tab, TabOK(tab), NEW n \in 0..RealSize(tab), NEW list \in [1..n -> Cells]
    PROVE  LET new == [tab EXCEPT !.arr = [i \in DOMAIN @ |-> IF i <= n THEN list[i] ELSE @[i]]]
           IN  TabOK(new) /\ \A j \in Keys : Get(new, j) = IF j \in 1..n THEN list[j] ELSE Get(tab, j)
<1> DEFINE size == RealSize(tab)
           arr == [i \in DOMAIN tab.arr |-> IF i <= n THEN list[i] ELSE tab.arr[i]]
           new == [tab EXCEPT !.arr = arr]
<1>1. /\ ArrayOK(tab) /\ NodesOK(tab) /\ KeysOf(tab.node) \cap 1..size = {}
      /\ tab = [lim |-> tab.lim, real |-> tab.real, arr |-> tab.arr, node |-> tab.node, free |-> tab.free]
  BY DEF TabOK
<1>2. /\ size \in 0..MaxArray /\ size \in Nat /\ n \in Nat /\ n <= size
      /\ tab.arr \in [1..size -> Cells] /\ DOMAIN tab.arr = 1..size
      /\ 1..n \subseteq 1..size /\ 1..size \subseteq Nat
  BY <1>1, TableAssumption DEF ArrayOK
<1>3. arr \in [1..size -> Cells] /\ \A i \in 1..size : arr[i] = IF i \in 1..n THEN list[i] ELSE tab.arr[i]
  BY <1>2
<1> HIDE DEF arr
<1>4. new = [lim |-> tab.lim, real |-> tab.real, arr |-> arr, node |-> tab.node, free |-> tab.free]
  BY <1>1
<1> HIDE DEF new
<1>5. /\ new.lim = tab.lim /\ (new.real <=> tab.real) /\ new.arr = arr /\ new.node = tab.node
      /\ new.free = tab.free /\ new.real = tab.real
      /\ new = [lim |-> new.lim, real |-> new.real, arr |-> new.arr, node |-> new.node, free |-> new.free]
  BY <1>4
<1>6. RealSize(new) = size
  BY <1>5, Zenon DEF RealSize, IsSize, size
<1> HIDE DEF size
<1>7. ArrayOK(new)
  BY <1>1, <1>3, <1>5, <1>6 DEF ArrayOK, size
<1>8. NodesOK(new)
  BY <1>1, <1>5 DEF NodesOK
<1>9. TabOK(new)
  BY <1>1, <1>5, <1>6, <1>7, <1>8 DEF TabOK
<1>10. ASSUME NEW j \in Keys PROVE Get(new, j) = IF j \in 1..n THEN list[j] ELSE Get(tab, j)
  <2>1. CASE j \in 1..size
    <3>1. InArray(new, j) /\ InArray(tab, j)
      BY <2>1, <1>1, <1>6, <1>7, InArrayIff DEF size
    <3> QED BY <3>1, <2>1, <1>3, <1>5 DEF Get
  <2>2. CASE j \notin 1..size
    <3>1. \A v \in Values : Holds(tab, j, v) <=> Holds(new, j, v)
      BY <2>2, <1>5, <1>6 DEF Holds, size
    <3> QED BY <3>1, <2>2, <1>2, <1>9, SameGet
  <2> QED BY <2>1, <2>2
<1> QED BY <1>9, <1>10 DEF new, arr

(* OP_SETLIST, which makes the array larger first where it is too small.   *)
LEMMA SetListHolds ==
    ASSUME NEW tab, TabOK(tab), NEW n \in 0..MaxArray, NEW list \in [1..n -> Cells]
    PROVE  LET grown == IF n > RealSize(tab) THEN Resize(tab, n, Cardinality(DOMAIN tab.node)) ELSE tab
               new == [grown EXCEPT !.arr = [i \in DOMAIN @ |-> IF i <= n THEN list[i] ELSE @[i]]]
           IN  TabOK(new) /\ \A j \in Keys : Get(new, j) = IF j \in 1..n THEN list[j] ELSE Get(tab, j)
<1> DEFINE old == RealSize(tab)
           size == Size(tab.node)
           K == {tab.node[m].key : m \in DOMAIN tab.node}
           large == Resize(tab, n, Cardinality(DOMAIN tab.node))
           grown == IF n > old THEN large ELSE tab
           new == [grown EXCEPT !.arr = [i \in DOMAIN @ |-> IF i <= n THEN list[i] ELSE @[i]]]
<1>1. /\ size \in Nat /\ Cardinality(DOMAIN tab.node) = size /\ IsFiniteSet(DOMAIN tab.node)
      /\ (DOMAIN tab.node # {} => size > 0)
  BY NodesFinite DEF TabOK, NodesOK, WellChained, Chained
<1>2. old \in Nat /\ n \in Nat /\ MaxArray \in Nat
  BY TableAssumption DEF TabOK, ArrayOK
<1>3. ASSUME n > old
      PROVE  TabOK(large) /\ RealSize(large) = n /\ \A j \in Keys : Get(large, j) = Get(tab, j)
  <2>1. IsFiniteSet(K) /\ Cardinality(K) <= size /\ Cardinality(K) \in Nat
    <3>1. IsFiniteSet(K) /\ Cardinality(K) <= Cardinality(DOMAIN tab.node)
      <4> DEFINE f == [m \in DOMAIN tab.node |-> tab.node[m].key]
      <4>1. f \in Surjection(DOMAIN tab.node, K)
        BY DEF Surjection
      <4> HIDE DEF f, K
      <4> QED BY <4>1, <1>1, FS_Surjection
    <3> HIDE DEF K
    <3> QED BY <3>1, <1>1, FS_CardinalityType
  <2>2. Cardinality(K) <= IF size = 0 THEN 0 ELSE RoundUp[size]
    <3>1. size # 0 => RoundUp[size] \in Nat /\ size <= RoundUp[size]
      BY <1>1, RoundUpBounds
    <3> HIDE DEF K, size
    <3> QED BY <3>1, <2>1, <1>1
  <2>3. First(tab, n) = old
    BY <1>2, <1>3 DEF First
  <2>4. ASSUME NEW p \in Used(tab), First(tab, n) < p PROVE EntryAt(tab, p).key \in K
    <3>1. ~(p <= old)
      BY <2>3, <2>4, <1>2, UsedEntry
    <3>2. /\ p - old - 1 \in Filled(tab.node)
          /\ EntryAt(tab, p).key = tab.node[p - old - 1].key
      BY <3>1, UsedEntry
    <3> QED BY <3>2 DEF Filled
  <2> HIDE DEF K, size
  <2> QED BY <2>1, <2>2, <2>4, <1>1, ResizeHolds
<1>4. TabOK(grown) /\ n \in 0..RealSize(grown) /\ \A j \in Keys : Get(grown, j) = Get(tab, j)
  <2> HIDE DEF large
  <2> QED BY <1>2, <1>3
<1> HIDE DEF grown
<1>5. TabOK(new) /\ \A j \in Keys : Get(new, j) = IF j \in 1..n THEN list[j] ELSE Get(grown, j)
  BY <1>4, ListStored
<1> HIDE DEF new
<1>6. \A j \in Keys : Get(new, j) = IF j \in 1..n THEN list[j] ELSE Get(tab, j)
  BY <1>4, <1>5
<1> QED BY <1>5, <1>6 DEF new, grown, large, old

(* The empty table.                                                        *)
LEMMA BlankOK ==
    /\ TabOK(Blank) /\ Used(Blank) = {} /\ RealSize(Blank) = 0
    /\ \A k \in Keys : Get(Blank, k) = Nil
<1> DEFINE c == [n \in {} |-> n]
<1>1. /\ DOMAIN Blank.node = {} /\ Blank.lim = 0 /\ Blank.real /\ DOMAIN Blank.arr = {} /\ Blank.free = 0
      /\ Blank = [lim |-> Blank.lim, real |-> Blank.real, arr |-> Blank.arr,
                  node |-> Blank.node, free |-> Blank.free]
      /\ Blank.real \in BOOLEAN /\ Blank.arr = <<>> /\ Blank.node = <<>>
  BY DEF Blank
<1>2. Size(Blank.node) = 0
  BY <1>1, FS_EmptySet DEF Size
<1>3. RealSize(Blank) = 0
  BY <1>1 DEF RealSize, IsSize
<1>4. ArrayOK(Blank)
  <2>1. Blank.arr \in [1..0 -> Cells]
    BY <1>1
  <2>2. 0 \in 0..MaxArray
    BY TableAssumption
  <2> QED BY <2>1, <2>2, <1>1, <1>3 DEF ArrayOK
<1>5. Chained(Blank.node, c, c)
  BY <1>1, <1>2 DEF Chained, IsNodes, Linked, Homed, LiveFirst, DeadEmpty
<1>6. NodesOK(Blank)
  <2>1. WellChained(Blank.node)
    BY <1>5 DEF WellChained
  <2> QED BY <2>1, <1>1, <1>2 DEF NodesOK
<1>7. KeysOf(Blank.node) = {} /\ Pairs(Blank.node) = {}
  BY <1>1 DEF KeysOf, Pairs, Filled
<1>8. TabOK(Blank)
  BY <1>1, <1>4, <1>6, <1>7 DEF TabOK
<1>9. Used(Blank) = {}
  <2>1. Positions(Blank) = {}
    BY <1>2, <1>3 DEF Positions, Size
  <2> QED BY <2>1 DEF Used
<1>10. ASSUME NEW k \in Keys PROVE Get(Blank, k) = Nil
  <2>1. Get(Blank, k) \in Cells /\ \A v \in Values : Get(Blank, k) = v <=> Holds(Blank, k, v)
    BY <1>8, GetHolds
  <2>2. \A v \in Values : ~Holds(Blank, k, v)
    BY <1>3, <1>7 DEF Holds
  <2> QED BY <2>1, <2>2 DEF Cells
<1> QED BY <1>3, <1>8, <1>9, <1>10

(* A new table, with the array and the nodes that OP_NEWTABLE asks for.    *)
LEMMA NewTable ==
    ASSUME NEW a \in 0..MaxArray, NEW h \in Nat
    PROVE  TabOK(Resize(Blank, a, h)) /\ \A k \in Keys : Get(Resize(Blank, a, h), k) = Nil
<1>1. IsFiniteSet({}) /\ Cardinality({}) = 0
  BY FS_EmptySet
<1>2. Cardinality({}) <= IF h = 0 THEN 0 ELSE RoundUp[h]
  BY <1>1, RoundUpBounds
<1> QED BY <1>1, <1>2, BlankOK, ResizeHolds

-----------------------------------------------------------------------------
(* The invariant.                                                          *)

(* What the table holds is what was stored.                                *)
Kept ==
    /\ TabOK(t)
    /\ content \in [Keys -> Cells]
    /\ \A k \in Keys : Get(t, k) = content[k]

(* The entries in use up to the cursor are those that the traversal        *)
(* returned: the cursor keeps its node even when its value is nil.         *)
Traversal ==
    /\ building \in BOOLEAN
    /\ cursor \in Keys \cup {Idle}
    /\ cursor = Idle <=> seen = Idle
    /\ building => cursor = Idle
    /\ cursor # Idle =>
          /\ seen \in SUBSET Keys
          /\ IndexOf(t, cursor) # None
          /\ \A k \in Keys : content[k] # Nil => (k \in seen <=> IndexOf(t, k) <= IndexOf(t, cursor))

Inv == Kept /\ Traversal

(* A step that leaves every entry in its place.                            *)
LEMMA TraversalKept ==
    ASSUME Inv, TabOK(t'), RealSize(t') = RealSize(t), SamePlaces(t.node, t.node'),
           \A k \in Keys : content'[k] # Nil => content[k] # Nil,
           cursor' = cursor, seen' = seen, building' \in BOOLEAN, building' => building
    PROVE  Traversal'
<1>1. TabOK(t)
  BY DEF Inv, Kept
<1>2. \A k \in Keys : IndexOf(t', k) = IndexOf(t, k)
  <2>1. (t.node)' = t'.node
    OBVIOUS
  <2> QED BY <1>1, <2>1, IndexSame
<1> QED BY <1>2 DEF Inv, Traversal

(* A new table satisfies the invariant.                                    *)
LEMMA InitInv == Init => Inv
<1> SUFFICES ASSUME Init PROVE Inv
  OBVIOUS
<1>1. PICK a \in ArrayHints, h \in NodeHints : t = Resize(Blank, a, h)
  BY DEF Init
<1>2. a \in 0..MaxArray /\ h \in Nat
  BY TableAssumption
<1>3. TabOK(t) /\ \A k \in Keys : Get(t, k) = Nil
  BY <1>1, <1>2, NewTable
<1>4. content = [k \in Keys |-> Nil] /\ building = TRUE /\ cursor = Idle /\ seen = Idle
  BY DEF Init
<1>5. Kept
  BY <1>3, <1>4 DEF Kept, Cells
<1> QED BY <1>4, <1>5 DEF Inv, Traversal

(* The constructor stores its positional fields before any traversal       *)
(* begins.                                                                 *)
LEMMA SetListKeeps ==
    ASSUME Inv, NEW n \in 1..MaxList, NEW list \in [1..n -> Cells], SetList(list)
    PROVE  Inv'
<1>1. Len(list) = n /\ DOMAIN list = 1..n /\ n \in 0..MaxArray /\ n \in Nat
  <2>1. n \in Nat /\ n \in 0..MaxArray
    BY TableAssumption
  <2>2. list \in Seq(Cells)
    BY <2>1, SeqDef
  <2> QED BY <2>1, <2>2, LenProperties
<1>2. t' = LET grown == IF n > RealSize(t) THEN Resize(t, n, Cardinality(DOMAIN t.node)) ELSE t
           IN  [grown EXCEPT !.arr = [i \in DOMAIN @ |-> IF i <= n THEN list[i] ELSE @[i]]]
  BY <1>1, Zenon DEF SetList
<1>3. TabOK(t) /\ \A k \in Keys : Get(t, k) = content[k]
  BY DEF Inv, Kept
<1>4. TabOK(t') /\ \A j \in Keys : Get(t', j) = IF j \in 1..n THEN list[j] ELSE Get(t, j)
  BY <1>1, <1>2, <1>3, SetListHolds
<1>5. content' = [k \in Keys |-> IF k \in DOMAIN list THEN list[k] ELSE content[k]]
      /\ building /\ building' = FALSE /\ cursor' = cursor /\ seen' = seen
  BY DEF SetList
<1>6. content' \in [Keys -> Cells] /\ \A k \in Keys : content'[k] = IF k \in 1..n THEN list[k] ELSE content[k]
  BY <1>1, <1>5 DEF Inv, Kept
<1>7. Kept'
  BY <1>3, <1>4, <1>6 DEF Kept
<1> QED BY <1>5, <1>7 DEF Inv, Traversal

(* A store that adds a field ends the traversal; any other keeps the       *)
(* places.                                                                 *)
LEMMA WriteKeeps ==
    ASSUME Inv, NEW k \in Keys, NEW v \in Cells, Write(k, v)
    PROVE  Inv'
<1>1. TabOK(t) /\ content \in [Keys -> Cells] /\ \A j \in Keys : Get(t, j) = content[j]
  BY DEF Inv, Kept
<1>2. /\ TabOK(t')
      /\ \A j \in Keys : Get(t', j) = IF j = k THEN v ELSE Get(t, j)
      /\ v = Nil \/ Get(t, k) # Nil => RealSize(t') = RealSize(t) /\ SamePlaces(t.node, t'.node)
  <2>1. t' = Set(t, k, v)
    BY DEF Write
  <2> QED BY <1>1, <2>1, SetHolds
<1>3. content' = [content EXCEPT ![k] = v] /\ building' = building
  BY DEF Write
<1>4. content' \in [Keys -> Cells] /\ \A j \in Keys : content'[j] = IF j = k THEN v ELSE content[j]
  BY <1>1, <1>3
<1>5. Kept'
  BY <1>1, <1>2, <1>4 DEF Kept
<1>6. CASE Get(t, k) = Nil /\ v # Nil
  <2>1. cursor' = Idle /\ seen' = Idle
    BY <1>6 DEF Write
  <2> QED BY <2>1, <1>3, <1>5 DEF Inv, Traversal
<1>7. CASE ~(Get(t, k) = Nil /\ v # Nil)
  <2>1. cursor' = cursor /\ seen' = seen
    BY <1>7 DEF Write
  <2>2. \A j \in Keys : content'[j] # Nil => content[j] # Nil
    BY <1>1, <1>4, <1>7
  <2>3. RealSize(t') = RealSize(t) /\ SamePlaces(t.node, t.node')
    BY <1>2, <1>7
  <2>4. Traversal'
    <3>1. building' \in BOOLEAN /\ (building' => building)
      BY <1>3 DEF Inv, Traversal
    <3> QED BY <1>2, <2>1, <2>2, <2>3, <3>1, TraversalKept
  <2> QED BY <1>5, <2>4 DEF Inv
<1> QED BY <1>6, <1>7

(* The table changes but for what it holds and where.                      *)
LEMMA SameKeeps ==
    ASSUME Inv, TabOK(t'), RealSize(t') = RealSize(t), SamePlaces(t.node, t'.node),
           \A k \in Keys : Get(t', k) = Get(t, k),
           content' = content, cursor' = cursor, seen' = seen, building' \in BOOLEAN, building' => building
    PROVE  Inv'
<1>1. Kept'
  BY DEF Inv, Kept
<1>2. SamePlaces(t.node, t.node')
  OBVIOUS
<1>3. Traversal'
  BY <1>2, TraversalKept
<1> QED BY <1>1, <1>3 DEF Inv

(* A lookup at most moves the hint.                                        *)
LEMMA ReadKeeps ==
    ASSUME Inv, NEW k \in Ints, Read(k)
    PROVE  Inv'
<1>1. TabOK(t) /\ k \in Keys
  BY DEF Inv, Kept, Keys
<1>2. t' = Probed(t, k) /\ content' = content /\ building' = building /\ cursor' = cursor /\ seen' = seen
  BY DEF Read
<1>3. TabOK(t') /\ RealSize(t') = RealSize(t) /\ t'.arr = t.arr /\ t'.node = t.node
  BY <1>1, <1>2, ProbedSame
<1>4. SamePlaces(t.node, t'.node) /\ \A j \in Keys : Get(t', j) = Get(t, j)
  BY <1>1, <1>3, SameEntries
<1>5. building' \in BOOLEAN /\ (building' => building)
  BY <1>2 DEF Inv, Traversal
<1> QED BY <1>2, <1>3, <1>4, <1>5, SameKeeps

(* So does asking for the length.                                          *)
LEMMA MeasureKeeps ==
    ASSUME Inv, Measure
    PROVE  Inv'
<1>1. TabOK(t)
  BY DEF Inv, Kept
<1>2. t' = Length(t).tab /\ content' = content /\ building' = FALSE /\ cursor' = cursor /\ seen' = seen
  BY DEF Measure
<1>3. TabOK(t') /\ RealSize(t') = RealSize(t) /\ t'.arr = t.arr /\ t'.node = t.node
  BY <1>1, <1>2, LengthFinds DEF IsAnswer
<1>4. SamePlaces(t.node, t'.node) /\ \A j \in Keys : Get(t', j) = Get(t, j)
  BY <1>1, <1>3, SameEntries
<1> QED BY <1>2, <1>3, <1>4, SameKeeps

(* The collector leaves every entry where it is.                           *)
LEMMA ClearKeeps ==
    ASSUME Inv, Clear
    PROVE  Inv'
<1>1. TabOK(t)
  BY DEF Inv, Kept
<1>2. t' = [t EXCEPT !.node = Cleared(t.node)]
      /\ content' = content /\ building' = building /\ cursor' = cursor /\ seen' = seen
  BY DEF Clear
<1>3. /\ TabOK(t') /\ RealSize(t') = RealSize(t) /\ SamePlaces(t.node, t'.node)
      /\ \A j \in Keys : Get(t', j) = Get(t, j)
  BY <1>1, <1>2, ClearedSame
<1>4. building' \in BOOLEAN /\ (building' => building)
  BY <1>2 DEF Inv, Traversal
<1> QED BY <1>2, <1>3, <1>4, SameKeeps

(* Where the entries in use are.                                           *)
LEMMA Places ==
    ASSUME TabOK(t), NEW k \in Keys, Get(t, k) # Nil
    PROVE  IndexOf(t, k) \in Nat /\ IndexOf(t, k) > 0 /\ IndexOf(t, k) # None
<1>1. IndexOf(t, k) \in Used(t)
  BY IndexUsed
<1>2. RealSize(t) \in Nat /\ Size(t.node) \in Nat /\ IndexOf(t, k) \in 1..RealSize(t) + Size(t.node)
  BY <1>1, UsedEntry
<1> QED BY <1>2, TableAssumption

(* next(t, nil) returns the entry in use with the least index.             *)
LEMMA BeginKeeps ==
    ASSUME Inv, Begin
    PROVE  /\ Inv'
           /\ cursor' \in Keys /\ content[cursor'] # Nil /\ seen' = {cursor'}
<1> DEFINE k == After(t, 0)
<1>1. TabOK(t) /\ content \in [Keys -> Cells] /\ \A j \in Keys : Get(t, j) = content[j]
  BY DEF Inv, Kept
<1>2. k # None /\ cursor' = k /\ seen' = {k} /\ building' = FALSE /\ content' = content /\ t' = t
  BY DEF Begin
<1>3. /\ k \in Keys /\ Get(t, k) # Nil /\ IndexOf(t, k) > 0
      /\ \A j \in Keys : Get(t, j) # Nil => (IndexOf(t, j) <= IndexOf(t, k) <=> j = k \/ IndexOf(t, j) <= 0)
  BY <1>1, <1>2, AfterFinds
<1> HIDE DEF k
<1>4. \A j \in Keys : Get(t, j) # Nil => IndexOf(t, j) \in Nat /\ IndexOf(t, j) > 0 /\ IndexOf(t, j) # None
  BY <1>1, Places
<1>5. \A j \in Keys : content[j] # Nil => (j \in {k} <=> IndexOf(t, j) <= IndexOf(t, k))
  <2> TAKE j \in Keys
  <2> HAVE content[j] # Nil
  <2>1. IndexOf(t, j) \in Nat /\ IndexOf(t, j) > 0
    BY <1>1, <1>4
  <2>2. ~(IndexOf(t, j) <= 0)
    BY <2>1
  <2> QED BY <2>2, <1>1, <1>3
<1>6. Kept'
  BY <1>2 DEF Inv, Kept
<1>7. k # Idle /\ {k} # Idle
  BY <1>3, TableAssumption
<1>8. Traversal'
  BY <1>2, <1>3, <1>4, <1>5, <1>7 DEF Traversal
<1> QED BY <1>1, <1>2, <1>3, <1>6, <1>8 DEF Inv

(* Either every entry was returned, or the next one is returned.           *)
LEMMA VisitKeeps ==
    ASSUME Inv, Visit
    PROVE  /\ Inv'
           /\ seen # Idle
           /\ \/ cursor' = Idle /\ seen' = Idle /\ \A j \in Keys : content[j] # Nil => j \in seen
              \/ /\ cursor' \in Keys /\ content[cursor'] # Nil /\ cursor' \notin seen
                 /\ seen' = seen \cup {cursor'}
<1> DEFINE i == IndexOf(t, cursor)
           k == After(t, i)
<1>1. TabOK(t) /\ content \in [Keys -> Cells] /\ \A j \in Keys : Get(t, j) = content[j]
  BY DEF Inv, Kept
<1>2. cursor # Idle /\ content' = content /\ t' = t /\ building' = building
  BY DEF Visit
<1>3. /\ cursor \in Keys /\ seen \in SUBSET Keys /\ seen # Idle /\ i # None /\ building \in BOOLEAN /\ ~building
      /\ \A j \in Keys : content[j] # Nil => (j \in seen <=> IndexOf(t, j) <= i)
  BY <1>2 DEF Inv, Traversal
<1>4. i \in Nat
  BY <1>1, <1>3, IndexType
<1>5. IF k = None THEN cursor' = Idle /\ seen' = Idle ELSE cursor' = k /\ seen' = seen \cup {k}
  BY <1>3 DEF Visit
<1>6. /\ k = None => \A j \in Keys : Get(t, j) # Nil => IndexOf(t, j) <= i
      /\ k # None => /\ k \in Keys /\ Get(t, k) # Nil /\ IndexOf(t, k) > i
                     /\ \A j \in Keys : Get(t, j) # Nil =>
                           (IndexOf(t, j) <= IndexOf(t, k) <=> j = k \/ IndexOf(t, j) <= i)
  BY <1>1, <1>4, AfterFinds
<1>7. Kept'
  BY <1>2 DEF Inv, Kept
<1>8. \A j \in Keys : Get(t, j) # Nil => IndexOf(t, j) \in Nat /\ IndexOf(t, j) # None
  BY <1>1, Places
<1> HIDE DEF i, k
<1>9. CASE k = None
  <2>1. cursor' = Idle /\ seen' = Idle
    BY <1>5, <1>9
  <2>2. \A j \in Keys : content[j] # Nil => j \in seen
    BY <1>1, <1>3, <1>6, <1>9
  <2>3. Traversal'
    BY <2>1, <1>2, <1>3 DEF Traversal
  <2> QED BY <2>1, <2>2, <2>3, <1>3, <1>7 DEF Inv
<1>10. CASE k # None
  <2>1. cursor' = k /\ seen' = seen \cup {k} /\ k \in Keys /\ content[k] # Nil
    BY <1>1, <1>5, <1>6, <1>10
  <2>2. k \notin seen
    <3>1. IndexOf(t, k) \in Nat /\ ~(IndexOf(t, k) <= i)
      BY <1>1, <1>4, <1>6, <1>8, <1>10, <2>1
    <3> QED BY <3>1, <2>1, <1>3
  <2>3. k # Idle /\ seen \cup {k} # Idle /\ seen \cup {k} \in SUBSET Keys
    BY <2>1, <1>3, TableAssumption
  <2>4. \A j \in Keys : content[j] # Nil => (j \in seen \cup {k} <=> IndexOf(t, j) <= IndexOf(t, k))
    BY <1>1, <1>3, <1>6, <1>10
  <2>5. IndexOf(t, k) # None
    BY <1>1, <1>8, <2>1
  <2>6. Traversal'
    BY <2>1, <2>3, <2>4, <2>5, <1>2, <1>3 DEF Traversal
  <2> QED BY <2>1, <2>2, <2>6, <1>3, <1>7 DEF Inv
<1> QED BY <1>9, <1>10

(* Every step keeps the invariant.                                         *)
LEMMA NextInv == Inv /\ [Next]_vars => Inv'
<1> SUFFICES ASSUME Inv, [Next]_vars PROVE Inv'
  OBVIOUS
<1>1. ASSUME NEW n \in 1..MaxList, NEW list \in [1..n -> Values \cup {Nil}], SetList(list) PROVE Inv'
  BY <1>1, SetListKeeps DEF Cells
<1>2. ASSUME NEW k \in Written, NEW v \in Values \cup {Nil}, Write(k, v) PROVE Inv'
  <2>1. k \in Keys
    BY TableAssumption
  <2> QED BY <1>2, <2>1, WriteKeeps DEF Cells
<1>3. ASSUME NEW k \in Ints, Read(k) PROVE Inv'
  BY <1>3, ReadKeeps
<1>4. CASE Measure
  BY <1>4, MeasureKeeps
<1>5. CASE Clear
  BY <1>5, ClearKeeps
<1>6. CASE Begin
  BY <1>6, BeginKeeps
<1>7. CASE Visit
  BY <1>7, VisitKeeps
<1>8. CASE UNCHANGED vars
  <2>1. content' = content /\ t' = t /\ building' = building /\ cursor' = cursor /\ seen' = seen
    BY <1>8 DEF vars
  <2>2. Kept'
    BY <2>1 DEF Inv, Kept
  <2>3. Traversal'
    BY <2>1 DEF Inv, Traversal
  <2> QED BY <2>2, <2>3 DEF Inv
<1> QED BY <1>1, <1>2, <1>3, <1>4, <1>5, <1>6, <1>7, <1>8 DEF Next

(* The invariant holds in every reachable state.                           *)
THEOREM Invariant == Spec => []Inv
  BY InitInv, NextInv, PTL DEF Spec

-----------------------------------------------------------------------------
(* Theorems.                                                               *)

(* The table keeps its form: every key, value and link is of its type, and *)
(* lastfree stays within the nodes.                                        *)
THEOREM TypeCorrect == Spec => []TypeOK
<1>1. ASSUME Inv PROVE TypeOK
  <2>1. TabOK(t) /\ ArrayOK(t) /\ NodesOK(t)
    BY <1>1 DEF Inv, Kept, TabOK
  <2>2. RealSize(t) \in Nat /\ t.arr \in [1..RealSize(t) -> Cells] /\ t.lim \in Nat /\ t.real \in BOOLEAN
    BY <2>1, TableAssumption DEF ArrayOK
  <2>3. t.arr \in Seq(Values \cup {Nil})
    BY <2>2, SeqDef DEF Cells
  <2>4. \A n \in DOMAIN t.node : t.node[n] \in NodeType /\ t.node[n].next \in DOMAIN t.node \cup {None}
    BY <2>1 DEF NodesOK, WellChained, Chained, IsNodes
  <2>5. t.free \in 0..Cardinality(DOMAIN t.node)
    BY <2>1 DEF NodesOK, Size
  <2> QED BY <1>1, <2>2, <2>3, <2>4, <2>5 DEF TypeOK, Inv, Traversal
<1> QED BY <1>1, Invariant, PTL

(* The size of the array can be told from alimit, whether that is the size *)
(* or a hint that luaH_getn and luaH_getint left there.                    *)
THEOREM SizeIsKnown == Spec => []SizeKnown
<1>1. ASSUME Inv PROVE SizeKnown
  <2>1. ArrayOK(t)
    BY <1>1 DEF Inv, Kept, TabOK
  <2>2. RealSize(t) \in Nat /\ t.arr \in [1..RealSize(t) -> Cells]
    BY <2>1, TableAssumption DEF ArrayOK
  <2>3. t.arr \in Seq(Cells)
    BY <2>2, SeqDef
  <2> QED BY <2>2, <2>3, LenProperties DEF SizeKnown
<1> QED BY <1>1, Invariant, PTL

(* Every walk along the chains of luaH_get comes to an end, and no two     *)
(* nodes lead to the same one.                                             *)
THEOREM ChainsAreFinite == Spec => []ChainsEnd
<1>1. ASSUME Inv PROVE ChainsEnd
  <2>1. PICK c, r : Chained(t.node, c, r)
    BY <1>1 DEF Inv, Kept, TabOK, NodesOK, WellChained
  <2>2. IsNodes(t.node) /\ Linked(t.node, c, r)
    BY <2>1 DEF Chained
  <2>3. \A n \in DOMAIN t.node : Chain(t.node, n)[Cardinality(DOMAIN t.node)] = None
    BY <2>2, WalkEnds DEF Size
  <2>4. \A m, n \in DOMAIN t.node : t.node[m].next = t.node[n].next => m = n \/ t.node[m].next = None
    BY <2>2, NextInjective
  <2> QED BY <2>3, <2>4 DEF ChainsEnd
<1> QED BY <1>1, Invariant, PTL

(* What luaH_get finds is what was stored last, through every rehash,      *)
(* resize, eviction and visit of the collector.                            *)
THEOREM TableIsMap == Spec => []IsMap
<1>1. ASSUME Inv PROVE IsMap
  BY <1>1 DEF Inv, Kept, IsMap
<1> QED BY <1>1, Invariant, PTL

(* luaH_getn returns a border of the table, whatever hint it starts from.  *)
THEOREM LengthFindsBorder == Spec => []LengthIsBorder
<1>1. ASSUME Inv PROVE LengthIsBorder
  <2>1. TabOK(t)
    BY <1>1 DEF Inv, Kept
  <2> QED BY <2>1, LengthFinds DEF IsAnswer, LengthIsBorder
<1> QED BY <1>1, Invariant, PTL

-----------------------------------------------------------------------------
(* The layout implements a map, step by step.                              *)

(* Every step is one of the map, or changes nothing that the map knows.    *)
LEMMA MapStep == Inv /\ [Next]_vars => [Map!Next]_(Map!vars)
<1> SUFFICES ASSUME Inv, [Next]_vars PROVE [Map!Next]_(Map!vars)
  OBVIOUS
<1>1. ASSUME NEW n \in 1..MaxList, NEW list \in [1..n -> Values \cup {Nil}], SetList(list)
      PROVE  Map!Next
  <2>1. Map!SetList(list)
    BY <1>1 DEF SetList, Map!SetList
  <2> QED BY <2>1 DEF Map!Next
<1>2. ASSUME NEW k \in Written, NEW v \in Values \cup {Nil}, Write(k, v) PROVE Map!Next
  <2>1. k \in Keys /\ Get(t, k) = content[k]
    BY TableAssumption DEF Inv, Kept
  <2>2. Map!Write(k, v)
    BY <1>2, <2>1 DEF Write, Map!Write
  <2> QED BY <2>1, <2>2 DEF Map!Next
<1>3. ASSUME NEW k \in Ints, Read(k) PROVE UNCHANGED Map!vars
  BY <1>3 DEF Read, Map!vars
<1>4. CASE Measure
  <2>1. Map!Measure
    BY <1>4 DEF Measure, Map!Measure
  <2> QED BY <2>1 DEF Map!Next
<1>5. CASE Clear
  BY <1>5 DEF Clear, Map!vars
<1>6. CASE Begin
  <2>1. cursor' \in Keys /\ content[cursor'] # Nil /\ seen' = {cursor'}
    BY <1>6, BeginKeeps
  <2>2. building' = FALSE /\ content' = content
    BY <1>6 DEF Begin
  <2>3. Map!Begin(cursor')
    BY <2>1, <2>2 DEF Map!Begin, Map!Present
  <2> QED BY <2>1, <2>3 DEF Map!Next
<1>7. CASE Visit
  <2>1. content' = content /\ building' = building
    BY <1>7 DEF Visit
  <2>2. /\ seen # Idle
        /\ \/ cursor' = Idle /\ seen' = Idle /\ \A j \in Keys : content[j] # Nil => j \in seen
           \/ /\ cursor' \in Keys /\ content[cursor'] # Nil /\ cursor' \notin seen
              /\ seen' = seen \cup {cursor'}
    BY <1>7, VisitKeeps
  <2>3. CASE seen' = Idle /\ \A j \in Keys : content[j] # Nil => j \in seen
    <3>1. Map!End
      BY <2>1, <2>2, <2>3 DEF Map!End, Map!Present
    <3> QED BY <3>1 DEF Map!Next
  <2>4. CASE cursor' \in Keys /\ content[cursor'] # Nil /\ cursor' \notin seen /\ seen' = seen \cup {cursor'}
    <3>1. Map!Visit(cursor')
      BY <2>1, <2>2, <2>4 DEF Map!Visit, Map!Present
    <3> QED BY <2>4, <3>1 DEF Map!Next
  <2> QED BY <2>2, <2>3, <2>4
<1>8. CASE UNCHANGED vars
  BY <1>8 DEF vars, Map!vars
<1> QED BY <1>1, <1>2, <1>3, <1>4, <1>5, <1>6, <1>7, <1>8 DEF Next

(* A table is a map, and a traversal with next returns every entry once,   *)
(* whatever is set to nil or overwritten and whenever the collector comes. *)
THEOREM ImplementsMap == Spec => VisitsOnce
<1>1. Init => Map!Init
  BY DEF Init, Map!Init
<1> QED BY <1>1, MapStep, Invariant, PTL DEF Spec, VisitsOnce, Map!Spec
=============================================================================
