-------------------------- MODULE UnwindProofs --------------------------
(***************************************************************************)
(* Theorems about Unwind, for a stack of any size and calls of any depth.  *)
(***************************************************************************)
EXTENDS Unwind, SequenceTheorems, WellFoundedInduction, TLAPS

-----------------------------------------------------------------------------
(* Facts about numbers and sequences.                                      *)

(* A set of natural numbers that is not empty has a least element.         *)
LEMMA Least ==
    ASSUME NEW T \in SUBSET Nat, T # {}
    PROVE  \E x \in T : \A y \in T : x <= y
<1>1. PICK x \in T : \A y \in T : ~ (<<y, x>> \in OpToRel(<, Nat))
  BY WFMin, NatLessThanWellFounded
<1>2. ASSUME NEW y \in T, y < x PROVE FALSE
  <2>1. <<y, x>> \in Nat \X Nat /\ <<y, x>>[1] < <<y, x>>[2]
    BY <1>2
  <2>2. <<y, x>> \in OpToRel(<, Nat)
    BY <2>1, Zenon DEF OpToRel
  <2> QED BY <1>1, <2>2
<1> QED BY <1>2

(* A maximum is the greatest element, when there is one.                   *)
LEMMA MaxIs ==
    ASSUME NEW T \in SUBSET Int, NEW x \in T, \A y \in T : y <= x
    PROVE  Max(T) = x
<1>1. \A z \in T : (\A y \in T : z >= y) => z = x
  OBVIOUS
<1>2. \A y \in T : x >= y
  OBVIOUS
<1> HIDE DEF Max
<1> QED BY <1>1, <1>2 DEF Max

(* A bounded set of natural numbers has a greatest element.                *)
LEMMA HighestIs ==
    ASSUME NEW S \in SUBSET Nat, NEW b \in Nat, \A x \in S : x <= b
    PROVE  /\ Highest(S) \in S \cup {0} /\ Highest(S) \in Nat
           /\ \A x \in S : x <= Highest(S)
<1> DEFINE T == {n \in Nat : \A x \in S : x <= n}
<1>1. PICK n \in T : \A m \in T : n <= m
  <2>1. T \in SUBSET Nat /\ b \in T
    OBVIOUS
  <2> QED BY <2>1, Least
<1>2. n \in S \cup {0}
  <2>1. SUFFICES ASSUME n # 0, n \notin S PROVE FALSE
    OBVIOUS
  <2>2. n - 1 \in T
    BY <2>1
  <2> QED BY <1>1, <2>2
<1>3. Max(S \cup {0}) = n
  BY <1>1, <1>2, MaxIs
<1> QED BY <1>1, <1>2, <1>3 DEF Highest

(* A sequence and one more element, one other element or fewer elements.   *)
LEMMA Appended ==
    ASSUME NEW X, NEW s \in Seq(X), NEW e \in X
    PROVE  /\ Append(s, e) \in Seq(X) /\ Append(s, e) # <<>>
           /\ Len(s) \in Nat /\ Len(Append(s, e)) = Len(s) + 1
           /\ DOMAIN s = 1..Len(s) /\ DOMAIN Append(s, e) = 1..Len(s) + 1
           /\ \A k \in 1..Len(s) : Append(s, e)[k] = s[k]
           /\ Append(s, e)[Len(s) + 1] = e
           /\ Last(Append(s, e)) = e
<1>1. /\ Append(s, e) \in Seq(X) /\ Len(Append(s, e)) = Len(s) + 1
      /\ \A k \in 1..Len(s) : Append(s, e)[k] = s[k]
      /\ Append(s, e)[Len(s) + 1] = e
  BY AppendProperties
<1>2. Len(s) \in Nat /\ DOMAIN s = 1..Len(s) /\ DOMAIN Append(s, e) = 1..Len(Append(s, e))
  BY <1>1, LenProperties
<1> QED BY <1>1, <1>2, EmptySeq DEF Last

(* The first m elements of a sequence                                      *)
LEMMA Cut ==
    ASSUME NEW X, NEW s \in Seq(X), NEW m \in 0..Len(s)
    PROVE  /\ SubSeq(s, 1, m) \in Seq(X) /\ Len(SubSeq(s, 1, m)) = m
           /\ DOMAIN SubSeq(s, 1, m) = 1..m
           /\ \A k \in 1..m : SubSeq(s, 1, m)[k] = s[k]
<1>1. Len(s) \in Nat /\ m \in Nat /\ \A k \in 1..m : k \in 1..Len(s)
  BY LenProperties
<1>2. /\ SubSeq(s, 1, m) \in Seq(X)
      /\ Len(SubSeq(s, 1, m)) = IF 1 <= m THEN m - 1 + 1 ELSE 0
      /\ \A k \in 1..m - 1 + 1 : SubSeq(s, 1, m)[k] = s[1 + k - 1]
  BY <1>1, SubSeqProperties
<1>3. Len(SubSeq(s, 1, m)) = m
  BY <1>1, <1>2
<1>4. \A k \in 1..m : SubSeq(s, 1, m)[k] = s[k]
  BY <1>1, <1>2
<1> QED BY <1>2, <1>3, <1>4, LenProperties

(* The last element of a sequence, and the others                          *)
LEMMA FrontIs ==
    ASSUME NEW X, NEW s \in Seq(X), s # <<>>
    PROVE  /\ Len(s) \in Nat \ {0} /\ DOMAIN s = 1..Len(s)
           /\ \A k \in 1..Len(s) : s[k] \in X
           /\ Last(s) = s[Len(s)] /\ Last(s) \in X
           /\ Front(s) \in Seq(X) /\ Len(Front(s)) = Len(s) - 1
           /\ DOMAIN Front(s) = 1..Len(s) - 1
           /\ \A k \in 1..Len(s) - 1 : Front(s)[k] = s[k]
<1>1. Len(s) \in Nat \ {0} /\ DOMAIN s = 1..Len(s) /\ \A k \in 1..Len(s) : s[k] \in X
  BY LenProperties, EmptySeq
<1>2. Len(s) - 1 \in 0..Len(s) /\ Len(s) \in 1..Len(s)
  BY <1>1
<1> QED BY <1>1, <1>2, Cut DEF Front, Last

(* A sequence with another last element                                    *)
LEMMA ReplacedIs ==
    ASSUME NEW X, NEW s \in Seq(X), s # <<>>, NEW e \in X
    PROVE  /\ Replaced(s, e) \in Seq(X) /\ Replaced(s, e) # <<>>
           /\ Len(Replaced(s, e)) = Len(s) /\ DOMAIN Replaced(s, e) = 1..Len(s)
           /\ \A k \in 1..Len(s) - 1 : Replaced(s, e)[k] = s[k]
           /\ Replaced(s, e)[Len(s)] = e
           /\ Last(Replaced(s, e)) = e
<1>1. /\ Front(s) \in Seq(X) /\ Len(Front(s)) = Len(s) - 1 /\ Len(s) \in Nat \ {0}
      /\ \A k \in 1..Len(s) - 1 : Front(s)[k] = s[k]
  BY FrontIs
<1>2. Len(s) - 1 + 1 = Len(s)
  BY <1>1
<1> QED BY <1>1, <1>2, Appended DEF Replaced

-----------------------------------------------------------------------------
(* Frames and activations as records.                                      *)

(* The bounds of a frame.                                                  *)
LEMMA FrameBounds ==
    ASSUME NEW f \in Frames
    PROVE  /\ f.func \in Nat /\ f.top \in Nat /\ f.act \in Nat /\ f.delta \in Nat
           /\ f.wanted \in {-1, 0, 1} /\ f.next \in {"any", "prep", "open"}
           /\ Base(f) \in Nat /\ Next1(f) \in Nat /\ Origin(f) \in Int
           /\ Origin(f) < Base(f) /\ f.func < Base(f) /\ Base(f) <= Next1(f)
           /\ FrameShape(f) => /\ Origin(f) \in Nat \ {0} /\ Next1(f) <= f.top
                               /\ f.kind \in {"lua", "fp"}
  BY SlotsAssumption DEF Frames, FrameShape, Base, Next1, Origin

(* What is below a frame and what is above it.                             *)
LEMMA Between ==
    ASSUME NEW f \in Frames, NEW x \in Int, NEW y \in Int, x <= Origin(f), Next1(f) <= y
    PROVE  x < y /\ x <= y
<1> DEFINE o == Origin(f)  b == Base(f)  n == Next1(f)
<1>1. o \in Int /\ b \in Nat /\ n \in Nat /\ o < b /\ b <= n /\ x <= o /\ n <= y
  BY FrameBounds
<1> HIDE DEF o, b, n
<1> QED BY <1>1

(* The frame of a call.                                                    *)
LEMMA NewFrame ==
    ASSUME NEW func \in Nat \ {0}, NEW wanted \in {-1, 0, 1}, NEW next \in {"any", "prep", "open"}
    PROVE  /\ LET f == Frame("lua", func, func + 1 + FrameSize, wanted, next)
              IN  /\ f \in Frames /\ FrameShape(f)
                  /\ f.kind = "lua" /\ Origin(f) = func /\ Base(f) = func + 1 /\ Next1(f) = func + 1
                  /\ f.top = func + 1 + FrameSize /\ f.wanted = wanted
           /\ LET f == Frame("fp", func, func + 2, wanted, next)
              IN  /\ f \in Frames /\ FrameShape(f)
                  /\ f.kind = "fp" /\ Origin(f) = func /\ Base(f) = func + 1 /\ Next1(f) = func + 1
                  /\ f.top = func + 2 /\ f.wanted = wanted
  BY SlotsAssumption DEF Frames, Frame, FrameShape, Base, Next1, Origin

(* The frame of a Lua function that is called at func                      *)
IsLua(f, func) ==
    /\ f \in Frames /\ FrameShape(f) /\ f.kind = "lua"
    /\ Origin(f) = func /\ Base(f) = func + 1 /\ f.top = func + 1 + FrameSize

(* A new one is such a frame.                                              *)
LEMMA NewLua ==
    ASSUME NEW func \in Nat \ {0}, NEW wanted \in {-1, 0, 1}, NEW next \in {"any", "prep", "open"}
    PROVE  IsLua(Frame("lua", func, func + 1 + FrameSize, wanted, next), func)
  BY SlotsAssumption DEF IsLua, Frames, Frame, FrameShape, Base, Next1, Origin

(* Other registers are in use.                                             *)
LEMMA WithAct ==
    ASSUME NEW f \in Frames, FrameShape(f), f.kind = "lua", f.next = "any", NEW n \in 0..FrameSize
    PROVE  LET g == [f EXCEPT !.act = n]
           IN  /\ g \in Frames /\ FrameShape(g) /\ g.kind = "lua" /\ g.next = "any"
               /\ Origin(g) = Origin(f) /\ Base(g) = Base(f) /\ Next1(g) = Base(f) + n
               /\ g.top = f.top
  BY SlotsAssumption DEF Frames, FrameShape, Base, Next1, Origin

(* An instruction is done.                                                 *)
LEMMA WithNext ==
    ASSUME NEW f \in Frames, FrameShape(f), NEW v \in {"any", "open"}
    PROVE  LET g == [f EXCEPT !.next = v]
           IN  /\ g \in Frames /\ FrameShape(g) /\ g.kind = f.kind
               /\ Origin(g) = Origin(f) /\ Base(g) = Base(f) /\ Next1(g) = Next1(f)
               /\ Registers(g) = Registers(f) /\ Varargs(g) = Varargs(f)
               /\ g.top = f.top
<1> DEFINE g == [f EXCEPT !.next = v]
<1>1. /\ g \in Frames /\ FrameShape(g) /\ g.kind = f.kind
      /\ g.func = f.func /\ g.act = f.act /\ g.delta = f.delta /\ g.top = f.top
  BY DEF Frames, FrameShape, Base
<1> HIDE DEF g
<1>2. QED BY <1>1 DEF g, Base, Next1, Origin, Registers, Varargs

(* A vararg function has moved its frame above its arguments.              *)
LEMMA Moved ==
    ASSUME NEW f \in Frames, FrameShape(f), f.kind = "lua", f.next = "prep", NEW by \in Nat
    PROVE  LET g == [f EXCEPT !.func = @ + by, !.top = @ + by, !.delta = by, !.next = "any"]
           IN  /\ g \in Frames /\ FrameShape(g) /\ g.kind = "lua"
               /\ Origin(g) = Origin(f) /\ Base(g) = Base(f) + by /\ Next1(g) = Base(f) + by
               /\ Base(f) = Next1(f) /\ g.top = f.top + by
<1> DEFINE g == [f EXCEPT !.func = @ + by, !.top = @ + by, !.delta = by, !.next = "any"]
<1>1. /\ g.kind = "lua" /\ g.func = f.func + by /\ g.top = f.top + by /\ g.delta = by
      /\ g.act = f.act /\ g.next = "any" /\ g.wanted = f.wanted
  BY DEF Frames
<1>2. g \in Frames
  <2>1. f.func + by \in Nat /\ f.top + by \in Nat
    BY FrameBounds
  <2> QED BY <2>1 DEF Frames
<1>3. /\ f.act = 0 /\ f.delta = 0 /\ f.top = f.func + 1 + FrameSize
      /\ f.func \in Nat \ {0} /\ FrameSize \in Nat
  BY FrameBounds, SlotsAssumption DEF FrameShape, Base
<1> HIDE DEF g
<1>4. FrameShape(g) /\ Origin(g) = Origin(f) /\ Base(g) = Base(f) + by /\ Next1(g) = Base(f) + by
      /\ Base(f) = Next1(f)
  BY <1>1, <1>3 DEF FrameShape, Base, Next1, Origin
<1> QED BY <1>1, <1>2, <1>4 DEF g

(* The frame of the host, which is never one of a function.                *)
IsBase(f) == f \in Frames /\ f.kind = "base" /\ f.func = 0 /\ f.act = 0 /\ f.delta = 0

(* The frame of the thread itself has no registers, whatever its top is.   *)
LEMMA BaseFrame ==
    ASSUME NEW f, IsBase(f), NEW n \in Nat
    PROVE  /\ IsBase([f EXCEPT !.top = n])
           /\ Origin(f) = 0 /\ Base(f) = 1 /\ Next1(f) = 1 /\ Registers(f) = {} /\ Varargs(f) = {}
<1>1. IsBase([f EXCEPT !.top = n])
  BY DEF IsBase, Frames
<1>2. f.func = 0 /\ f.act = 0 /\ f.delta = 0
  BY DEF IsBase
<1> QED BY <1>1, <1>2 DEF IsBase, Base, Next1, Origin, Registers, Varargs

(* What an activation is about to do, and how it is in general.            *)
LEMMA ActivationFields ==
    ASSUME NEW c \in Activations
    PROVE  /\ c.func \in Nat /\ c.depth \in Nat /\ c.level \in Nat /\ c.from \in Nat /\ c.n \in Nat
           /\ c.at \in {"run", "close", "return", "unwind"}
           /\ c.by \in {"host", "op", "pcall", "closer"}
  BY DEF Activations

(* An activation as Precall makes it                                       *)
Fresh(func, wanted, by, depth) == [Activation(func, wanted, by) EXCEPT !.depth = depth]

(* and what is known of one.                                               *)
IsFresh(c, func, by, depth) ==
    /\ c \in Activations /\ c.func = func /\ c.depth = depth /\ c.by = by
    /\ c.at = "run" /\ c.from = 0 /\ c.n = 0

(* Fresh makes one.                                                        *)
LEMMA NewActivation ==
    ASSUME NEW func \in Nat, NEW wanted \in {-1, 0, 1}, NEW depth \in Nat,
           NEW by \in {"host", "op", "pcall", "closer"}
    PROVE  IsFresh(Fresh(func, wanted, by, depth), func, by, depth)
<1> DEFINE c == [func |-> func, depth |-> depth, wanted |-> wanted, by |-> by,
                 at |-> "run", level |-> 0, from |-> 0, n |-> 0]
<1>1. [Activation(func, wanted, by) EXCEPT !.depth = depth] = c
  BY DEF Activation
<1>2. /\ c \in Activations /\ c.func = func /\ c.depth = depth /\ c.by = by
      /\ c.at = "run" /\ c.from = 0 /\ c.n = 0
  BY DEF Activations
<1> HIDE DEF c
<1> QED BY <1>1, <1>2 DEF Fresh, IsFresh

(* The fields of an activation that is to close something                  *)
LEMMA ClosingFields ==
    ASSUME NEW c \in Activations, NEW at \in {"run", "close", "return", "unwind"},
           NEW level \in Nat, NEW from \in Nat, NEW n \in Nat
    PROVE  LET d == Closing(c, at, level, from, n)
           IN  /\ d \in Activations /\ d.func = c.func /\ d.depth = c.depth /\ d.by = c.by
               /\ d.at = at /\ d.level = level /\ d.from = from /\ d.n = n
  BY DEF Closing, Activations

(* and of one that an error has reached.                                   *)
LEMMA UnwindingFields ==
    ASSUME NEW c \in Activations
    PROVE  LET d == Unwinding(c)
           IN  /\ d \in Activations /\ d.func = c.func /\ d.depth = c.depth /\ d.by = c.by
               /\ d.at = "unwind" /\ d.level = c.func /\ d.from = 0 /\ d.n = 0
  BY DEF Unwinding, Closing, Activations

-----------------------------------------------------------------------------
(* Stacked frames.                                                         *)

(* What FramesStacked says of a sequence of frames, for the first frame,   *)
(* the last and any two of them.                                           *)
LEMMA StackedFacts ==
    ASSUME NEW F \in Seq(Frames), FramesStacked(F)
    PROVE  /\ Len(F) \in Nat \ {0} /\ DOMAIN F = 1..Len(F) /\ 1 \in DOMAIN F
           /\ \A k \in DOMAIN F : F[k] \in Frames
           /\ Last(F) = F[Len(F)] /\ Last(F) \in Frames /\ Len(F) \in DOMAIN F
           /\ IsBase(F[1])
           /\ \A k \in DOMAIN F : k # 1 => FrameShape(F[k])
           /\ \A k, m \in DOMAIN F : k < m => Next1(F[k]) <= Origin(F[m])
           /\ \A k \in DOMAIN F : k <= Len(F) /\ Next1(F[k]) <= Next1(Last(F))
<1>1. /\ Len(F) \in Nat \ {0} /\ DOMAIN F = 1..Len(F)
      /\ \A k \in DOMAIN F : F[k] \in Frames
      /\ Last(F) = F[Len(F)]
  BY FrontIs DEF FramesStacked
<1>2. 1 \in DOMAIN F /\ Len(F) \in DOMAIN F
  BY <1>1
<1>3. \A k, m \in DOMAIN F : k < m => Next1(F[k]) <= Origin(F[m])
  BY DEF FramesStacked
<1>4. ASSUME NEW k \in DOMAIN F PROVE k <= Len(F) /\ Next1(F[k]) <= Next1(Last(F))
  <2>1. CASE k = Len(F)
    BY <2>1, <1>1, FrameBounds
  <2>2. CASE k < Len(F)
    <3>1. Next1(F[k]) <= Origin(F[Len(F)])
      BY <2>2, <1>2, <1>3
    <3>2. Origin(F[Len(F)]) < Next1(F[Len(F)]) /\ Next1(F[k]) \in Nat
      BY <1>1, <1>2, FrameBounds
    <3>3. Next1(F[Len(F)]) \in Nat /\ Origin(F[Len(F)]) \in Int
      BY <1>1, <1>2, FrameBounds
    <3> QED BY <2>2, <3>1, <3>2, <3>3, <1>1
  <2> QED BY <2>1, <2>2, <1>1
<1> QED BY <1>1, <1>2, <1>3, <1>4 DEF FramesStacked, IsBase

(* A frame on top                                                          *)
LEMMA PushStacked ==
    ASSUME NEW F \in Seq(Frames), FramesStacked(F), NEW g \in Frames, FrameShape(g),
           Next1(Last(F)) <= Origin(g)
    PROVE  Append(F, g) \in Seq(Frames) /\ FramesStacked(Append(F, g))
<1> DEFINE G == Append(F, g)
<1>1. /\ G \in Seq(Frames) /\ G # <<>> /\ DOMAIN F = 1..Len(F) /\ DOMAIN G = 1..Len(F) + 1
      /\ \A k \in 1..Len(F) : G[k] = F[k]
      /\ G[Len(F) + 1] = g
  BY Appended
<1>2. /\ Len(F) \in Nat \ {0} /\ 1 \in DOMAIN F /\ IsBase(F[1])
      /\ \A k \in DOMAIN F : k # 1 => FrameShape(F[k])
      /\ \A k, m \in DOMAIN F : k < m => Next1(F[k]) <= Origin(F[m])
      /\ \A k \in DOMAIN F : Next1(F[k]) <= Next1(Last(F))
      /\ Last(F) \in Frames
      /\ \A k \in DOMAIN F : F[k] \in Frames
  BY StackedFacts
<1> HIDE DEF G
<1>3. G[1] = F[1] /\ G[1].kind = "base" /\ G[1].func = 0 /\ G[1].act = 0 /\ G[1].delta = 0
  BY <1>1, <1>2 DEF IsBase
<1>4. \A k \in DOMAIN G : k # 1 => FrameShape(G[k])
  BY <1>1, <1>2
<1>5. ASSUME NEW k \in DOMAIN G, NEW m \in DOMAIN G, k < m PROVE Next1(G[k]) <= Origin(G[m])
  <2>1. k \in 1..Len(F) /\ G[k] = F[k]
    BY <1>1, <1>2, <1>5
  <2>2. CASE m \in 1..Len(F)
    BY <2>1, <2>2, <1>1, <1>2, <1>5
  <2>3. CASE m = Len(F) + 1
    BY <2>1, <2>3, <1>1, <1>2, FrameBounds
  <2> QED BY <2>2, <2>3, <1>1, <1>2
<1>6. FramesStacked(G)
  BY <1>1, <1>3, <1>4, <1>5 DEF FramesStacked
<1> QED BY <1>1, <1>6 DEF G

(* another one in the place of the last                                    *)
LEMMA ReplaceStacked ==
    ASSUME NEW F \in Seq(Frames), FramesStacked(F), Len(F) # 1, NEW g \in Frames, FrameShape(g),
           Origin(Last(F)) <= Origin(g)
    PROVE  Replaced(F, g) \in Seq(Frames) /\ FramesStacked(Replaced(F, g))
<1> DEFINE G == Replaced(F, g)
<1>0. F # <<>>
  BY DEF FramesStacked
<1>1. /\ G \in Seq(Frames) /\ G # <<>> /\ DOMAIN F = 1..Len(F) /\ DOMAIN G = 1..Len(F)
      /\ \A k \in 1..Len(F) - 1 : G[k] = F[k]
      /\ G[Len(F)] = g
  BY <1>0, ReplacedIs, LenProperties
<1>2. /\ Len(F) \in Nat \ {0} /\ 1 \in DOMAIN F /\ IsBase(F[1])
      /\ \A k \in DOMAIN F : k # 1 => FrameShape(F[k])
      /\ \A k, m \in DOMAIN F : k < m => Next1(F[k]) <= Origin(F[m])
      /\ Last(F) = F[Len(F)] /\ Len(F) \in DOMAIN F
      /\ \A k \in DOMAIN F : F[k] \in Frames
  BY StackedFacts
<1> HIDE DEF G
<1>3. 1 \in 1..Len(F) - 1
  <2> DEFINE n == Len(F)
  <2>1. n \in Nat \ {0} /\ n # 1
    BY <1>2
  <2> HIDE DEF n
  <2>2. 1 \in 1..n - 1
    BY <2>1
  <2> QED BY <2>2 DEF n
<1>4. G[1] = F[1] /\ G[1].kind = "base" /\ G[1].func = 0 /\ G[1].act = 0 /\ G[1].delta = 0
  BY <1>1, <1>2, <1>3 DEF IsBase
<1>5. \A k \in DOMAIN G : k # 1 => FrameShape(G[k])
  BY <1>1, <1>2
<1>6. ASSUME NEW k \in DOMAIN G, NEW m \in DOMAIN G, k < m PROVE Next1(G[k]) <= Origin(G[m])
  <2>1. k \in 1..Len(F) - 1 /\ G[k] = F[k] /\ k \in DOMAIN F /\ m \in DOMAIN F
    BY <1>1, <1>2, <1>6
  <2>2. CASE m \in 1..Len(F) - 1
    BY <2>1, <2>2, <1>1, <1>2, <1>6
  <2>3. CASE m = Len(F)
    <3> DEFINE f == F[k]  l == Last(F)
    <3>1. f \in Frames /\ l \in Frames /\ Next1(f) <= Origin(l)
      BY <2>1, <2>3, <1>2, <1>6
    <3>2. G[k] = f /\ G[m] = g
      BY <2>1, <2>3, <1>1
    <3> HIDE DEF f, l
    <3>3. Next1(f) \in Nat /\ Origin(l) \in Int /\ Origin(g) \in Int
      BY <3>1, FrameBounds
    <3>4. Next1(f) <= Origin(g)
      <4> DEFINE x == Next1(f)  y == Origin(l)  z == Origin(g)
      <4>1. x \in Nat /\ y \in Int /\ z \in Int /\ x <= y /\ y <= z
        BY <3>1, <3>3 DEF l
      <4> HIDE DEF x, y, z
      <4>2. x <= z
        BY <4>1
      <4> QED BY <4>2 DEF x, z
    <3> QED BY <3>2, <3>4
  <2> QED BY <2>2, <2>3, <1>1, <1>2
<1>7. FramesStacked(G)
  BY <1>1, <1>4, <1>5, <1>6 DEF FramesStacked
<1> QED BY <1>1, <1>7 DEF G

(* and fewer of them.                                                      *)
LEMMA CutStacked ==
    ASSUME NEW F \in Seq(Frames), FramesStacked(F), NEW m \in 1..Len(F)
    PROVE  /\ SubSeq(F, 1, m) \in Seq(Frames) /\ FramesStacked(SubSeq(F, 1, m))
           /\ Len(SubSeq(F, 1, m)) = m /\ Last(SubSeq(F, 1, m)) = F[m]
           /\ DOMAIN SubSeq(F, 1, m) = 1..m
           /\ \A k \in 1..m : k \in DOMAIN F /\ SubSeq(F, 1, m)[k] = F[k]
<1> DEFINE G == SubSeq(F, 1, m)
<1>1. Len(F) \in Nat /\ DOMAIN F = 1..Len(F) /\ m \in 0..Len(F) /\ m # 0 /\ m \in Nat
  BY LenProperties
<1>2. /\ G \in Seq(Frames) /\ Len(G) = m /\ DOMAIN G = 1..m
      /\ \A k \in 1..m : G[k] = F[k]
  BY <1>1, Cut
<1> HIDE DEF G
<1>3. \A k \in 1..m : k \in DOMAIN F
  BY <1>1
<1>4. G # <<>> /\ G[1] = F[1]
  BY <1>1, <1>2, EmptySeq
<1>5. FramesStacked(G)
  BY <1>2, <1>3, <1>4 DEF FramesStacked
<1>6. Last(G) = F[m]
  BY <1>1, <1>2 DEF Last
<1> QED BY <1>2, <1>3, <1>5, <1>6 DEF G

-----------------------------------------------------------------------------
(* Stacked activations.                                                    *)

(* What CallsStacked says of a sequence of activations, with the types of  *)
(* what it compares.                                                       *)
LEMMA CallsFacts ==
    ASSUME NEW F \in Seq(Frames), FramesStacked(F),
           NEW C \in Seq(Activations), CallsStacked(F, C)
    PROVE  /\ Len(C) \in Nat /\ DOMAIN C = 1..Len(C)
           /\ \A i \in DOMAIN C : C[i] \in Activations /\ Situated(F, C, i)
           /\ \A i \in DOMAIN C : /\ C[i].depth \in 1..Len(F)
                                  /\ DepthAt(F, C, i) \in 1..Len(F)
                                  /\ C[i].depth <= DepthAt(F, C, i)
           /\ \A i, j \in DOMAIN C : i < j =>
                 /\ C[i].depth <= C[j].depth /\ C[i].func < C[j].func
                 /\ C[i].from + C[i].n <= C[j].func
           /\ C # <<>> => Len(C) \in DOMAIN C /\ Last(C) = C[Len(C)]
<1>1. Len(C) \in Nat /\ DOMAIN C = 1..Len(C) /\ \A i \in DOMAIN C : C[i] \in Activations
  <2>1. Len(C) \in Nat /\ DOMAIN C = 1..Len(C)
    BY LenProperties
  <2>2. ASSUME NEW i \in 1..Len(C) PROVE C[i] \in Activations
    BY ElementOfSeq
  <2> QED BY <2>1, <2>2
<1>2. ASSUME C # <<>> PROVE Len(C) \in DOMAIN C /\ Last(C) = C[Len(C)]
  <2>1. Len(C) \in Nat \ {0} /\ DOMAIN C = 1..Len(C) /\ Last(C) = C[Len(C)]
    BY <1>2, FrontIs
  <2>2. Len(C) \in 1..Len(C)
    BY <2>1
  <2> QED BY <2>1, <2>2
<1>3. ASSUME NEW i \in DOMAIN C
      PROVE  /\ C[i].depth \in 1..Len(F) /\ DepthAt(F, C, i) \in 1..Len(F)
             /\ C[i].depth <= DepthAt(F, C, i)
  <2>1. Situated(F, C, i) /\ DOMAIN F = 1..Len(F) /\ Len(F) \in Nat
    BY StackedFacts DEF CallsStacked
  <2>2. /\ C[i].depth \in 1..Len(F) /\ DepthAt(F, C, i) \in 1..Len(F)
        /\ IF C[i].at = "unwind" THEN DepthAt(F, C, i) = C[i].depth ELSE DepthAt(F, C, i) > C[i].depth
    BY <2>1 DEF Situated, Busy
  <2> QED BY <2>1, <2>2
<1> QED BY <1>1, <1>2, <1>3 DEF CallsStacked

(* The parts that Situated consists of                                     *)
LEMMA SituatedIf ==
    ASSUME NEW F, NEW C, NEW i,
           /\ C[i].depth \in DOMAIN F
           /\ \A k \in DOMAIN F :
                 IF k <= C[i].depth THEN Next1(F[k]) <= C[i].func ELSE C[i].func <= Origin(F[k])
           /\ Busy(F, C[i], DepthAt(F, C, i))
           /\ C[i].by = "host" <=> i = 1
           /\ C[i].by = "host" => C[i].depth = 1
           /\ C[i].by = "pcall" =>
                 /\ F[C[i].depth].kind = "fp" /\ C[i].func = Base(F[C[i].depth])
                 /\ C[i - 1].at = "run" /\ C[i - 1].depth + 1 < C[i].depth,
           DepthAt(F, C, i) \in DOMAIN F
    PROVE  Situated(F, C, i)
  BY DEF Situated

(* An activation that keeps its place when what lies above it changes      *)
LEMMA SituatedKept ==
    ASSUME NEW F \in Seq(Frames), FramesStacked(F), NEW G \in Seq(Frames), FramesStacked(G),
           NEW C \in Seq(Activations), CallsStacked(F, C), NEW B,
           NEW i \in DOMAIN C, B[i] = C[i], i # 1 => B[i - 1] = C[i - 1],
           DepthAt(G, B, i) = DepthAt(F, C, i), DepthAt(F, C, i) <= Len(G),
           \A k \in 1..DepthAt(F, C, i) : G[k] = F[k],
           \A k \in DOMAIN G : k > DepthAt(F, C, i) => C[i].func <= Origin(G[k])
    PROVE  Situated(G, B, i)
<1> DEFINE c == C[i]
           d == DepthAt(F, C, i)
<1>1. /\ Situated(F, C, i) /\ c.depth \in 1..Len(F) /\ d \in 1..Len(F) /\ c.depth <= d
      /\ DOMAIN F = 1..Len(F) /\ Len(F) \in Nat /\ DOMAIN G = 1..Len(G) /\ Len(G) \in Nat
  BY CallsFacts, StackedFacts
<1>2. c.depth \in 1..d /\ d \in 1..d /\ c.depth \in DOMAIN G /\ d \in DOMAIN G
  BY <1>1
<1>3. ASSUME NEW k \in DOMAIN G
      PROVE  IF k <= c.depth THEN Next1(G[k]) <= c.func ELSE c.func <= Origin(G[k])
  <2>1. CASE k <= d
    <3>1. k \in 1..d /\ k \in DOMAIN F
      BY <1>1, <2>1
    <3> QED BY <3>1, <1>1 DEF Situated
  <2>2. CASE k > d
    BY <2>2, <1>1
  <2> QED BY <2>1, <2>2, <1>1
<1>4. F[d] = G[d] /\ F[c.depth] = G[c.depth]
  BY <1>2
<1>5. Busy(G, c, d)
  BY <1>1, <1>4 DEF Situated, Busy
<1>6. c.by = "host" <=> i = 1
  BY <1>1 DEF Situated
<1>7. /\ c.by = "host" => c.depth = 1
      /\ c.by = "pcall" =>
            /\ G[c.depth].kind = "fp" /\ c.func = Base(G[c.depth])
            /\ B[i - 1].at = "run" /\ B[i - 1].depth + 1 < c.depth
  BY <1>1, <1>4, <1>6 DEF Situated
<1> HIDE DEF d
<1> QED BY <1>2, <1>3, <1>5, <1>6, <1>7 DEF Situated, d

(* What an activation does on top of the stack: those above it are gone,   *)
(* and the frames above it are its own.                                    *)
LEMMA Restacked ==
    ASSUME NEW F \in Seq(Frames), FramesStacked(F), NEW G \in Seq(Frames), FramesStacked(G),
           NEW C \in Seq(Activations), CallsStacked(F, C), NEW B \in Seq(Activations),
           NEW j \in DOMAIN C, Len(B) = j, \A i \in 1..j - 1 : B[i] = C[i],
           B[j].func = C[j].func, B[j].depth = C[j].depth, B[j].by = C[j].by,
           C[j].depth <= Len(G), \A k \in 1..C[j].depth : G[k] = F[k],
           \A k \in DOMAIN G : k > C[j].depth => C[j].func <= Origin(G[k]) /\ G[k].kind # "fp",
           Busy(G, B[j], Len(G))
    PROVE  CallsStacked(G, B)
<1> DEFINE c == B[j]
<1>1. /\ Len(C) \in Nat /\ DOMAIN C = 1..Len(C)
      /\ \A i \in DOMAIN C : /\ C[i] \in Activations /\ Situated(F, C, i)
                             /\ C[i].depth \in 1..Len(F) /\ C[i].depth <= DepthAt(F, C, i)
      /\ \A i, m \in DOMAIN C : i < m =>
            /\ C[i].depth <= C[m].depth /\ C[i].func < C[m].func
            /\ C[i].from + C[i].n <= C[m].func
  BY CallsFacts
<1>2. /\ DOMAIN F = 1..Len(F) /\ Len(F) \in Nat /\ DOMAIN G = 1..Len(G) /\ Len(G) \in Nat \ {0}
      /\ \A k \in DOMAIN G : G[k] \in Frames
  BY StackedFacts
<1>3. /\ j \in Nat \ {0} /\ DOMAIN B = 1..j /\ j \in DOMAIN B /\ B # <<>>
      /\ \A i \in DOMAIN B : i \in DOMAIN C /\ (i < j => i \in 1..j - 1 /\ B[i] = C[i])
      /\ \A i \in DOMAIN B : i < j => i + 1 \in DOMAIN B /\ B[i + 1].depth = C[i + 1].depth
  <2>1. j \in Nat \ {0} /\ DOMAIN B = 1..j /\ j <= Len(C)
    BY <1>1, LenProperties
  <2>2. ASSUME NEW i \in DOMAIN B, i < j
        PROVE  /\ i \in 1..j - 1 /\ B[i] = C[i] /\ i + 1 \in DOMAIN B
               /\ B[i + 1].depth = C[i + 1].depth
    <3>1. i \in 1..j - 1 /\ i + 1 \in 1..j /\ (i + 1 = j \/ i + 1 \in 1..j - 1)
      BY <2>1, <2>2
    <3> QED BY <3>1, <2>1
  <2>3. B # <<>>
    BY <2>1, EmptySeq
  <2> QED BY <1>1, <2>1, <2>2, <2>3
<1>4. \A i \in DOMAIN B : /\ B[i].func = C[i].func /\ B[i].depth = C[i].depth
                          /\ i < j => C[i].depth <= C[j].depth /\ C[i].func < C[j].func
  BY <1>1, <1>3
<1>5. ASSUME NEW i \in DOMAIN B, i < j
      PROVE  Situated(G, B, i)
  <2>1. i < Len(C) /\ i < Len(B) /\ i \in DOMAIN C /\ i + 1 \in DOMAIN C
    BY <1>1, <1>3, <1>5
  <2>2. DepthAt(F, C, i) = C[i + 1].depth /\ DepthAt(G, B, i) = C[i + 1].depth
    BY <1>3, <1>5, <2>1 DEF DepthAt
  <2>3. C[i + 1].depth <= C[j].depth /\ C[i].func < C[j].func
    BY <1>1, <1>4, <1>3, <1>5, <2>1
  <2>4. C[i + 1].depth \in Nat /\ C[j].depth \in Nat /\ C[j].func \in Nat /\ C[i].func \in Nat
    BY <1>1, <2>1, ActivationFields
  <2>5. DepthAt(F, C, i) <= Len(G) /\ \A k \in 1..DepthAt(F, C, i) : G[k] = F[k]
    <3>1. \A k \in 1..C[i + 1].depth : k \in 1..C[j].depth
      BY <2>3, <2>4
    <3> QED BY <1>2, <2>2, <2>3, <2>4, <3>1
  <2>6. ASSUME NEW k \in DOMAIN G, k > DepthAt(F, C, i)
        PROVE  C[i].func <= Origin(G[k])
    <3>1. CASE k <= C[j].depth
      <4>1. k \in 1..C[j].depth /\ k \in DOMAIN F
        BY <3>1, <1>1, <1>2, <2>4
      <4>2. ~(k <= C[i].depth)
        BY <1>1, <1>2, <2>1, <2>2, <2>4, <2>6, ActivationFields
      <4>3. C[i].func <= Origin(F[k])
        BY <1>1, <2>1, <4>1, <4>2 DEF Situated
      <4> QED BY <4>1, <4>3
    <3>2. CASE k > C[j].depth
      <4>1. C[j].func <= Origin(G[k]) /\ Origin(G[k]) \in Int
        BY <3>2, <1>2, FrameBounds
      <4> QED BY <4>1, <2>3, <2>4
    <3> QED BY <3>1, <3>2, <1>2, <2>4
  <2>7. B[i] = C[i] /\ (i # 1 => B[i - 1] = C[i - 1])
    <3>1. i # 1 => i - 1 \in DOMAIN B /\ i - 1 < j
      BY <1>3, <1>5
    <3> QED BY <1>3, <1>5, <3>1
  <2> QED BY <2>1, <2>2, <2>5, <2>6, <2>7, SituatedKept
<1>6. Situated(G, B, j)
  <2>1. DepthAt(G, B, j) = Len(G) /\ Situated(F, C, j) /\ C[j].depth \in 1..Len(F)
    BY <1>1, <1>3 DEF DepthAt
  <2>2. c.depth \in 1..c.depth /\ c.depth \in DOMAIN G /\ Len(G) \in DOMAIN G
        /\ G[c.depth] = F[c.depth]
    BY <2>1, <1>2
  <2>3. ASSUME NEW k \in DOMAIN G
        PROVE  IF k <= c.depth THEN Next1(G[k]) <= c.func ELSE c.func <= Origin(G[k])
    <3>1. CASE k <= c.depth
      <4>1. k \in 1..C[j].depth /\ k \in DOMAIN F
        BY <3>1, <1>2, <2>1
      <4> QED BY <3>1, <4>1, <2>1 DEF Situated
    <3>2. CASE ~(k <= c.depth)
      <4>1. k > C[j].depth
        BY <3>2, <1>2, <2>1
      <4> QED BY <3>2, <4>1
    <3> QED BY <3>1, <3>2
  <2>4. j # 1 => B[j - 1] = C[j - 1]
    <3>1. j # 1 => j - 1 \in 1..j - 1
      BY <1>3
    <3> QED BY <3>1
  <2>5. c.by = "host" <=> j = 1
    BY <2>1 DEF Situated
  <2>6. /\ c.by = "host" => c.depth = 1
        /\ c.by = "pcall" =>
              /\ G[c.depth].kind = "fp" /\ c.func = Base(G[c.depth])
              /\ B[j - 1].at = "run" /\ B[j - 1].depth + 1 < c.depth
    BY <2>1, <2>2, <2>4, <2>5 DEF Situated
  <2> QED BY <2>1, <2>2, <2>3, <2>5, <2>6 DEF Situated
<1>7. \A i \in DOMAIN B : Situated(G, B, i)
  <2>1. \A i \in DOMAIN B : i < j \/ i = j
    BY <1>3
  <2> QED BY <1>5, <1>6, <2>1
<1>8. ASSUME NEW i \in DOMAIN B, NEW m \in DOMAIN B, i < m
      PROVE  B[i].depth <= B[m].depth /\ B[i].func < B[m].func /\ B[i].from + B[i].n <= B[m].func
  <2>1. i < j /\ B[i] = C[i] /\ i \in DOMAIN C /\ m \in DOMAIN C
    BY <1>3, <1>8
  <2>2. B[m].depth = C[m].depth /\ B[m].func = C[m].func
    BY <1>4
  <2> QED BY <1>1, <1>8, <2>1, <2>2
<1>9. ASSUME NEW k \in DOMAIN G, G[k].kind = "fp"
      PROVE  \E i \in DOMAIN B : B[i].by = "pcall" /\ B[i].depth = k
  <2>1. C[j].depth \in Nat /\ k \in 1..C[j].depth /\ k \in DOMAIN F /\ F[k].kind = "fp"
    <3>1. C[j].depth \in 1..Len(F)
      BY <1>1
    <3>2. k <= C[j].depth
      BY <1>2, <1>9, <3>1
    <3>3. k \in 1..C[j].depth
      BY <1>2, <3>1, <3>2
    <3> QED BY <1>2, <1>9, <3>1, <3>3
  <2>2. PICK i \in DOMAIN C : C[i].by = "pcall" /\ C[i].depth = k
    BY <2>1 DEF CallsStacked
  <2>3. i <= j
    <3>1. SUFFICES ASSUME i > j PROVE FALSE
      BY <1>1
    <3>2. i - 1 \in DOMAIN C /\ j <= i - 1
      BY <1>1, <3>1
    <3>3. C[i - 1].depth + 1 < C[i].depth
      BY <1>1, <2>2 DEF Situated
    <3>4. C[j].depth <= C[i - 1].depth
      <4>1. j = i - 1 \/ j < i - 1
        BY <1>1, <3>2
      <4> QED BY <4>1, <1>1, <3>2, ActivationFields
    <3>5. C[i - 1].depth \in Nat
      BY <1>1, <3>2, ActivationFields
    <3> QED BY <2>1, <2>2, <3>3, <3>4, <3>5
  <2>4. i \in DOMAIN B
    BY <2>3, <1>1, <1>3
  <2>5. B[i].by = C[i].by /\ B[i].depth = C[i].depth
    <3>1. i < j \/ i = j
      BY <2>3, <1>1
    <3> QED BY <3>1, <2>4, <1>3
  <2> QED BY <2>2, <2>4, <2>5
<1> QED BY <1>3, <1>7, <1>8, <1>9 DEF CallsStacked

(* A call out of the last activation, whose frames come on top.            *)
LEMMA Called ==
    ASSUME NEW F \in Seq(Frames), FramesStacked(F), NEW G \in Seq(Frames), FramesStacked(G),
           NEW C \in Seq(Activations), CallsStacked(F, C), C # <<>>, NEW c \in Activations,
           Len(F) <= c.depth, c.depth <= Len(G), \A k \in 1..Len(F) : G[k] = F[k],
           Last(C).func < c.func, Last(C).from + Last(C).n <= c.func,
           Next1(G[c.depth]) <= c.func,
           \A k \in DOMAIN G : k > c.depth => c.func <= Origin(G[k]) /\ G[k].kind # "fp",
           \/ c.by \in {"op", "closer"} /\ c.depth = Len(F)
           \/ /\ c.by = "pcall" /\ c.depth = Len(F) + 1
              /\ G[c.depth].kind = "fp" /\ c.func = Base(G[c.depth]) /\ Last(C).at = "run",
           Busy(G, c, Len(G))
    PROVE  CallsStacked(G, Append(C, c))
<1> DEFINE B == Append(C, c)
           n == Len(C)
           d == c.depth
<1>1. /\ n \in Nat \ {0} /\ DOMAIN C = 1..n /\ n \in DOMAIN C /\ Last(C) = C[n]
      /\ \A i \in DOMAIN C : /\ C[i] \in Activations /\ Situated(F, C, i)
                             /\ C[i].depth \in 1..Len(F) /\ C[i].depth <= DepthAt(F, C, i)
      /\ \A i, m \in DOMAIN C : i < m =>
            /\ C[i].depth <= C[m].depth /\ C[i].func < C[m].func
            /\ C[i].from + C[i].n <= C[m].func
  <2>1. n \in Nat \ {0}
    BY FrontIs
  <2> QED BY <2>1, CallsFacts
<1>2. /\ DOMAIN F = 1..Len(F) /\ Len(F) \in Nat \ {0} /\ DOMAIN G = 1..Len(G) /\ Len(G) \in Nat \ {0}
      /\ \A k \in DOMAIN G : G[k] \in Frames
      /\ \A k, m \in DOMAIN G : k < m => Next1(G[k]) <= Origin(G[m])
  BY StackedFacts
<1>3. /\ B \in Seq(Activations) /\ B # <<>> /\ Len(B) = n + 1 /\ DOMAIN B = 1..n + 1
      /\ \A i \in 1..n : B[i] = C[i]
      /\ B[n + 1] = c
  BY Appended
<1>4. d \in Nat /\ d \in DOMAIN G /\ c.func \in Nat /\ Len(F) \in DOMAIN G
  <2>1. d \in Nat /\ c.func \in Nat
    BY ActivationFields
  <2> QED BY <1>2, <2>1
<1>5. \A i \in DOMAIN C : /\ C[i].func \in Nat /\ C[i].depth \in Nat /\ C[i].depth <= Len(F)
                          /\ C[i].func < c.func /\ C[i].depth <= d /\ C[i].from + C[i].n <= c.func
                          /\ C[i].from + C[i].n \in Nat
  <2>1. ASSUME NEW i \in DOMAIN C
        PROVE  /\ C[i].func \in Nat /\ C[i].depth \in Nat /\ C[i].depth <= Len(F)
               /\ C[i].from + C[i].n \in Nat
               /\ C[n].func \in Nat
    <3>1. C[i] \in Activations /\ C[n] \in Activations /\ C[i].depth \in 1..Len(F)
      BY <1>1
    <3>2. /\ C[i].func \in Nat /\ C[n].func \in Nat
          /\ C[i].from \in Nat /\ C[i].n \in Nat
      BY <3>1, ActivationFields
    <3> QED BY <3>1, <3>2, <1>2
  <2>2. ASSUME NEW i \in DOMAIN C
        PROVE  C[i].func < c.func /\ C[i].depth <= d /\ C[i].from + C[i].n <= c.func
    <3>1. CASE i = n
      BY <3>1, <1>1, <1>2, <1>4, <2>1
    <3>2. CASE i < n
      <4>1. C[i].func < C[n].func /\ C[i].from + C[i].n <= C[n].func /\ C[n].func < c.func
        BY <3>2, <1>1
      <4> QED BY <4>1, <1>2, <1>4, <2>1
    <3> QED BY <3>1, <3>2, <1>1
  <2> QED BY <2>1, <2>2
<1> HIDE DEF B, n, d
<1>6. ASSUME NEW i \in DOMAIN C, NEW k \in DOMAIN G, k > C[i].depth
      PROVE  C[i].func <= Origin(G[k])
  <2>1. CASE k <= Len(F)
    <3>1. k \in DOMAIN F /\ G[k] = F[k] /\ ~(k <= C[i].depth)
      BY <2>1, <1>2, <1>5, <1>6
    <3> QED BY <3>1, <1>1 DEF Situated
  <2>2. CASE k > d
    <3>1. c.func <= Origin(G[k]) /\ Origin(G[k]) \in Int
      BY <2>2, <1>2, FrameBounds DEF d
    <3> QED BY <3>1, <1>4, <1>5
  <2>3. CASE Len(F) < k /\ k <= d
    <3>1. c.by = "pcall" /\ k = d /\ C[n].at = "run"
      BY <2>3, <1>1, <1>2, <1>4 DEF d, n
    <3>2. C[n].depth < Len(F)
      <4>1. Busy(F, C[n], DepthAt(F, C, n))
        BY <1>1 DEF Situated
      <4>2. DepthAt(F, C, n) = Len(F)
        BY <1>1 DEF DepthAt, n
      <4> QED BY <3>1, <4>1, <4>2, <1>1, <1>2 DEF Busy
    <3>3. C[i].depth < Len(F)
      <4>1. i = n \/ i < n
        BY <1>1
      <4>2. C[i].depth <= C[n].depth
        BY <4>1, <1>1, <1>5
      <4>3. C[i].depth \in Nat /\ C[n].depth \in Nat /\ Len(F) \in Nat
        BY <1>1, <1>2
      <4> QED BY <4>2, <4>3, <3>2
    <3>4. C[i].func <= Origin(F[Len(F)])
      BY <3>3, <1>1, <1>2, <1>5 DEF Situated
    <3>5. Len(F) \in 1..Len(F) /\ G[Len(F)] = F[Len(F)]
      BY <1>2
    <3> DEFINE g == G[Len(F)]
               h == G[k]
    <3>6. C[i].func <= Origin(g) /\ Next1(g) <= Origin(h)
      BY <2>3, <3>4, <3>5, <1>2, <1>4
    <3>7. g \in Frames /\ h \in Frames /\ C[i].func \in Nat
      BY <1>2, <1>4, <1>5
    <3> HIDE DEF g, h
    <3>8. C[i].func <= Origin(h)
      <4>0. Origin(h) \in Int
        BY <3>7, FrameBounds, Zenon
      <4>1. C[i].func \in Int /\ Origin(h) \in Int
        BY <3>7, <4>0
      <4>2. Origin(g) \in Int /\ Next1(g) \in Int /\ Origin(g) <= Next1(g)
        <5>1. Origin(g) \in Int /\ Next1(g) \in Nat /\ Base(g) \in Nat
          BY <3>7, FrameBounds, Zenon
        <5>2. Origin(g) < Base(g) /\ Base(g) <= Next1(g)
          BY <3>7, FrameBounds, Zenon
        <5> DEFINE x == Origin(g)  y == Base(g)  z == Next1(g)
        <5> HIDE DEF x, y, z
        <5>3. x \in Int /\ z \in Int /\ x <= z
          BY <5>1, <5>2 DEF x, y, z
        <5> QED BY <5>3 DEF x, z
      <4> DEFINE x == C[i].func  y == Origin(g)  z == Next1(g)  w == Origin(h)
      <4>3. x \in Int /\ y \in Int /\ z \in Int /\ w \in Int /\ x <= y /\ y <= z /\ z <= w
        BY <3>6, <4>1, <4>2
      <4> HIDE DEF x, y, z, w
      <4>4. x <= w
        BY <4>3
      <4> QED BY <4>4 DEF x, w
    <3> QED BY <3>8 DEF h
  <2> QED BY <2>1, <2>2, <2>3, <1>2, <1>4
<1>7. ASSUME NEW i \in DOMAIN C
      PROVE  Situated(G, B, i)
  <2>1. B[i] = C[i] /\ (i # 1 => B[i - 1] = C[i - 1])
    <3>1. i # 1 => i - 1 \in 1..n
      BY <1>1
    <3> QED BY <1>1, <1>3, <3>1
  <2>2. DepthAt(G, B, i) = IF i < n THEN C[i + 1].depth ELSE d
    <3>1. i < n => i + 1 \in 1..n
      BY <1>1
    <3>2. i < n + 1 /\ (~(i < n) => i + 1 = n + 1)
      BY <1>1
    <3> QED BY <1>3, <3>1, <3>2 DEF DepthAt, d
  <2>3. DepthAt(F, C, i) = IF i < n THEN C[i + 1].depth ELSE Len(F)
    BY DEF DepthAt, n
  <2>4. CASE i < n \/ d = Len(F)
    <3>1. DepthAt(G, B, i) = DepthAt(F, C, i)
      BY <2>2, <2>3, <2>4
    <3>2. DepthAt(F, C, i) \in 1..Len(F) /\ C[i].depth <= DepthAt(F, C, i)
      BY CallsFacts
    <3>3. DepthAt(F, C, i) <= Len(G) /\ \A k \in 1..DepthAt(F, C, i) : G[k] = F[k]
      <4>1. Len(F) <= Len(G)
        BY <1>2, <1>4
      <4>2. \A k \in 1..DepthAt(F, C, i) : k \in 1..Len(F)
        BY <3>2, <1>2
      <4> QED BY <4>1, <4>2, <3>2, <1>2
    <3>4. ASSUME NEW k \in DOMAIN G, k > DepthAt(F, C, i)
          PROVE  C[i].func <= Origin(G[k])
      <4>1. k > C[i].depth
        BY <3>2, <3>4, <1>2, <1>5
      <4> QED BY <4>1, <1>6
    <3> QED BY <2>1, <3>1, <3>3, <3>4, SituatedKept
  <2>5. CASE i = n /\ d # Len(F)
    <3>1. /\ C[n].at = "run" /\ d = Len(F) + 1 /\ DepthAt(G, B, n) = d /\ B[n] = C[n]
          /\ n # 1 => B[n - 1] = C[n - 1]
      BY <2>1, <2>2, <2>5, <1>1, <1>2 DEF d, n
    <3>2. Situated(F, C, n) /\ C[n].depth \in DOMAIN F /\ C[n].depth \in DOMAIN G
          /\ G[C[n].depth] = F[C[n].depth]
      <4>1. C[n].depth \in 1..Len(F) /\ Situated(F, C, n)
        BY <1>1
      <4> QED BY <4>1, <1>2, <1>4
    <3>3. ASSUME NEW k \in DOMAIN G
          PROVE  IF k <= C[n].depth THEN Next1(G[k]) <= C[n].func ELSE C[n].func <= Origin(G[k])
      <4>1. CASE k <= C[n].depth
        <5>1. k \in DOMAIN F /\ G[k] = F[k]
          BY <4>1, <1>1, <1>2, <1>5
        <5> QED BY <4>1, <5>1, <3>2 DEF Situated
      <4>2. CASE ~(k <= C[n].depth)
        BY <4>2, <1>1, <1>2, <1>5, <1>6
      <4> QED BY <4>1, <4>2
    <3>4. Busy(G, C[n], d)
      <4>1. C[n].from = 0 /\ C[n].n = 0 /\ d > C[n].depth
        BY <3>1, <3>2, <1>1, <1>2, <1>5 DEF Situated, Busy
      <4> QED BY <4>1, <3>1 DEF Busy
    <3>5. C[n].by = "host" <=> n = 1
      BY <3>2 DEF Situated
    <3>6. /\ C[n].by = "host" => C[n].depth = 1
          /\ C[n].by = "pcall" =>
                /\ G[C[n].depth].kind = "fp" /\ C[n].func = Base(G[C[n].depth])
                /\ B[n - 1].at = "run" /\ B[n - 1].depth + 1 < C[n].depth
      BY <3>1, <3>2, <3>5 DEF Situated
    <3> QED BY <2>5, <3>1, <3>2, <3>3, <3>4, <3>5, <3>6, <1>4 DEF Situated
  <2> QED BY <2>4, <2>5, <1>1
<1>8. Situated(G, B, n + 1)
  <2>1. DepthAt(G, B, n + 1) = Len(G) /\ Len(G) \in DOMAIN G /\ B[n + 1] = c
    BY <1>1, <1>2, <1>3 DEF DepthAt
  <2>2. ASSUME NEW k \in DOMAIN G
        PROVE  IF k <= d THEN Next1(G[k]) <= c.func ELSE c.func <= Origin(G[k])
    <3>1. CASE k < d
      <4> DEFINE g == G[k]
                 h == G[d]
      <4>1. Next1(g) <= Origin(h) /\ Next1(h) <= c.func
        BY <3>1, <1>2, <1>4 DEF d
      <4>2. g \in Frames /\ h \in Frames /\ k \in Nat
        BY <1>2, <1>4
      <4> HIDE DEF g, h
      <4>3. Next1(g) <= c.func
        <5> DEFINE x == Next1(g)
        <5>1. x \in Int /\ c.func \in Int /\ x <= Origin(h)
          <6>1. x \in Nat
            BY <4>2, FrameBounds
          <6>2. x <= Origin(h)
            BY <4>1
          <6> HIDE DEF x
          <6> QED BY <6>1, <6>2, <1>4
        <5> HIDE DEF x
        <5>2. x <= c.func
          BY <4>1, <4>2, <5>1, Between
        <5> QED BY <5>2 DEF x
      <4> QED BY <3>1, <4>2, <4>3, <1>4 DEF g
    <3>2. CASE k = d
      BY <3>2, <1>4 DEF d
    <3>3. CASE k > d
      BY <3>3, <1>2, <1>4 DEF d
    <3> QED BY <3>1, <3>2, <3>3, <1>2, <1>4
  <2>3. c.by # "host" /\ n + 1 # 1 /\ n + 1 - 1 = n
    BY <1>1
  <2>4. c.by = "pcall" =>
           /\ G[d].kind = "fp" /\ c.func = Base(G[d])
           /\ B[n].at = "run" /\ B[n].depth + 1 < d
    <3>1. SUFFICES ASSUME c.by = "pcall"
                   PROVE  /\ G[d].kind = "fp" /\ c.func = Base(G[d])
                          /\ B[n].at = "run" /\ B[n].depth + 1 < d
      OBVIOUS
    <3>2. d = Len(F) + 1 /\ G[d].kind = "fp" /\ c.func = Base(G[d]) /\ C[n].at = "run" /\ B[n] = C[n]
      BY <3>1, <1>1, <1>3 DEF d, n
    <3>3. C[n].depth < Len(F)
      <4>1. Situated(F, C, n) /\ DepthAt(F, C, n) = Len(F) /\ C[n].at = "run"
        BY <3>2, <1>1 DEF DepthAt, n
      <4> QED BY <4>1 DEF Situated, Busy
    <3>4. C[n].depth \in Nat /\ Len(F) \in Nat
      BY <1>1, <1>2, <1>5
    <3>5. C[n].depth + 1 < d
      BY <3>2, <3>3, <3>4
    <3> QED BY <3>2, <3>5
  <2>5. Busy(G, c, Len(G))
    OBVIOUS
  <2>6. c.depth = d
    BY DEF d
  <2>7. /\ c.by = "host" <=> n + 1 = 1
        /\ c.by = "host" => c.depth = 1
        /\ c.by = "pcall" =>
              /\ G[c.depth].kind = "fp" /\ c.func = Base(G[c.depth])
              /\ B[n].at = "run" /\ B[n].depth + 1 < c.depth
    BY <2>3, <2>4, <2>6
  <2>8. c.depth \in DOMAIN G /\ DepthAt(G, B, n + 1) \in DOMAIN G
    BY <2>1, <2>6, <1>4
  <2>9. \A k \in DOMAIN G : IF k <= c.depth THEN Next1(G[k]) <= c.func ELSE c.func <= Origin(G[k])
    BY <2>2, <2>6
  <2> DEFINE m == n + 1
             e == B[m]
  <2>10. /\ e.depth \in DOMAIN G
         /\ \A k \in DOMAIN G : IF k <= e.depth THEN Next1(G[k]) <= e.func ELSE e.func <= Origin(G[k])
         /\ Busy(G, e, DepthAt(G, B, m))
         /\ e.by = "host" <=> m = 1
         /\ e.by = "host" => e.depth = 1
         /\ e.by = "pcall" =>
               /\ G[e.depth].kind = "fp" /\ e.func = Base(G[e.depth])
               /\ B[m - 1].at = "run" /\ B[m - 1].depth + 1 < e.depth
    <3>1. e = c /\ m - 1 = n /\ m = n + 1
      BY <2>1, <1>1
    <3> HIDE DEF e, m
    <3> QED BY <3>1, <2>1, <2>5, <2>7, <2>8, <2>9
  <2>11. DepthAt(G, B, m) \in DOMAIN G
    BY <2>8
  <2> HIDE DEF m
  <2>12. Situated(G, B, m)
    BY <2>10, <2>11, SituatedIf
  <2> QED BY <2>12 DEF m
<1>9. \A i \in DOMAIN B : (i \in DOMAIN C /\ i <= n /\ B[i] = C[i]) \/ i = n + 1
  BY <1>1, <1>3
<1>10. ASSUME NEW i \in DOMAIN B, NEW m \in DOMAIN B, i < m
       PROVE  B[i].depth <= B[m].depth /\ B[i].func < B[m].func /\ B[i].from + B[i].n <= B[m].func
  <2>1. i \in DOMAIN C /\ B[i] = C[i]
    BY <1>1, <1>3, <1>9, <1>10
  <2>2. CASE m = n + 1
    BY <2>1, <2>2, <1>3, <1>5 DEF d
  <2>3. CASE m \in DOMAIN C /\ B[m] = C[m]
    BY <2>1, <2>3, <1>1, <1>10
  <2> QED BY <2>2, <2>3, <1>9
<1>11. ASSUME NEW k \in DOMAIN G, G[k].kind = "fp"
       PROVE  \E i \in DOMAIN B : B[i].by = "pcall" /\ B[i].depth = k
  <2>1. CASE k <= Len(F)
    <3>1. k \in DOMAIN F /\ F[k].kind = "fp"
      BY <2>1, <1>2, <1>11
    <3>2. PICK i \in DOMAIN C : C[i].by = "pcall" /\ C[i].depth = k
      BY <3>1 DEF CallsStacked
    <3>3. i \in DOMAIN B /\ B[i] = C[i]
      BY <1>1, <1>3
    <3> QED BY <3>2, <3>3
  <2>2. CASE ~(k <= Len(F))
    <3>1. k <= d
      BY <1>2, <1>4, <1>11 DEF d
    <3>2. c.by = "pcall" /\ k = d
      BY <2>2, <3>1, <1>2, <1>4 DEF d
    <3>3. n + 1 \in DOMAIN B
      BY <1>1, <1>3
    <3> QED BY <3>2, <3>3, <1>3 DEF d
  <2> QED BY <2>1, <2>2
<1>12. \A i \in DOMAIN B : Situated(G, B, i)
  BY <1>7, <1>8, <1>9
<1> QED BY <1>3, <1>10, <1>11, <1>12 DEF CallsStacked, B

(* The first call, on a thread at rest.                                    *)
LEMMA CalledFirst ==
    ASSUME NEW G \in Seq(Frames), FramesStacked(G), NEW c \in Activations,
           c.depth = 1, 1 <= c.func, c.by = "host",
           \A k \in DOMAIN G : k > 1 => c.func <= Origin(G[k]),
           \A k \in DOMAIN G : G[k].kind # "fp",
           Busy(G, c, Len(G))
    PROVE  CallsStacked(G, <<c>>)
<1>1. /\ DOMAIN G = 1..Len(G) /\ Len(G) \in Nat \ {0} /\ IsBase(G[1]) /\ 1 \in DOMAIN G
      /\ \A k, m \in DOMAIN G : k < m => Next1(G[k]) <= Origin(G[m])
  BY StackedFacts
<1>2. Next1(G[1]) = 1
  BY <1>1, BaseFrame, 0 \in Nat
<1>3. \A k \in DOMAIN G : IF k <= 1 THEN Next1(G[k]) <= c.func ELSE c.func <= Origin(G[k])
  BY <1>1, <1>2
<1>4. Len(<<c>>) = 1 /\ DOMAIN <<c>> = 1..1 /\ <<c>>[1] = c /\ <<c>> # <<>>
  OBVIOUS
<1>5. DepthAt(G, <<c>>, 1) = Len(G) /\ Len(G) \in DOMAIN G
  BY <1>1, <1>4 DEF DepthAt
<1>6. Situated(G, <<c>>, 1)
  BY <1>1, <1>3, <1>4, <1>5 DEF Situated
<1> QED BY <1>4, <1>6 DEF CallsStacked

-----------------------------------------------------------------------------
(* Variables that wait and open upvalues.                                  *)

(* A register lies above the origin of its frame, between its base and its *)
(* end.                                                                    *)
LEMMA RegisterBounds ==
    ASSUME NEW f \in Frames, NEW s \in Registers(f)
    PROVE  /\ s \in Nat /\ f.kind = "lua" /\ Base(f) <= s /\ s < Next1(f)
           /\ Origin(f) < s
<1> DEFINE o == Origin(f)  b == Base(f)  n == Next1(f)
<1>1. o \in Int /\ b \in Nat /\ n \in Nat /\ o < b
  BY FrameBounds
<1>2. f.kind = "lua" /\ s \in b..n - 1
  BY DEF Registers
<1> HIDE DEF o, b, n
<1>3. s \in Nat /\ b <= s /\ s < n /\ o < s
  BY <1>1, <1>2
<1> QED BY <1>2, <1>3 DEF o, b, n

(* Activation j of C has the same place in B, where it is the last one.    *)
Resumes(F, C, G, B, j) ==
    /\ j \in DOMAIN C /\ Len(B) = j /\ \A i \in 1..j - 1 : B[i] = C[i]
    /\ B[j].func = C[j].func /\ B[j].depth = C[j].depth /\ B[j].by = C[j].by
    /\ C[j].depth <= Len(G) /\ \A k \in 1..C[j].depth : G[k] = F[k]

(* and above it waits and is open what is to.                              *)
StillWait(C, G, B, j, t, D, E) ==
    \A s \in E : /\ 0 < s /\ s < t
                 /\ s < C[j].func => s \in D
                 /\ s >= C[j].func => \/ B[j].at = "unwind"
                                      \/ \E k \in DOMAIN G : s \in Registers(G[k])

(* The upvalues that are open afterwards were open below the activation,   *)
(* or are in registers above it.                                           *)
StillOpen(C, G, B, j, U, V) ==
    \A s \in V : /\ s < C[j].func => s \in U
                 /\ s >= C[j].func => \E k \in DOMAIN G : s \in Registers(G[k])
                 /\ B[j].at # "run" => s < B[j].level

(* Where an activation that goes on stands among the frames and            *)
(* activations, before and after.                                          *)
LEMMA ResumesFacts ==
    ASSUME NEW F \in Seq(Frames), FramesStacked(F), NEW G \in Seq(Frames), FramesStacked(G),
           NEW C \in Seq(Activations), CallsStacked(F, C), NEW B \in Seq(Activations),
           NEW j, Resumes(F, C, G, B, j)
    PROVE  /\ j \in Nat \ {0} /\ j \in DOMAIN C /\ DOMAIN B = 1..j /\ j \in DOMAIN B /\ Last(B) = B[j]
           /\ B # <<>>
           /\ \A i \in DOMAIN B : i \in DOMAIN C /\ i <= j /\ B[i].func = C[i].func
           /\ \A i \in DOMAIN B : i < j => B[i] = C[i] /\ i + 1 \in DOMAIN B /\ i + 1 \in DOMAIN C
                                           /\ i < Len(C)
           /\ \A i \in DOMAIN B : C[i].func <= C[j].func
           /\ \A i \in DOMAIN C : C[i].func < C[j].func => i < j /\ i \in DOMAIN B
           /\ \A k \in DOMAIN F : k <= C[j].depth => k \in DOMAIN G /\ G[k] = F[k]
           /\ \A k \in DOMAIN F : ~(k <= C[j].depth) => C[j].func <= Origin(F[k])
           /\ C[j].func \in Nat /\ C[j].depth \in DOMAIN F /\ C[j].depth \in DOMAIN G
           /\ Next1(F[C[j].depth]) <= C[j].func
<1>1. /\ Len(C) \in Nat /\ DOMAIN C = 1..Len(C)
      /\ \A i \in DOMAIN C : /\ C[i] \in Activations /\ Situated(F, C, i)
                             /\ C[i].depth \in 1..Len(F)
      /\ \A i, m \in DOMAIN C : i < m => C[i].func < C[m].func
  BY CallsFacts
<1>2. /\ DOMAIN F = 1..Len(F) /\ Len(F) \in Nat /\ DOMAIN G = 1..Len(G) /\ Len(G) \in Nat
  BY StackedFacts
<1>3. j \in Nat \ {0} /\ j <= Len(C) /\ j \in DOMAIN C /\ Len(B) = j
  BY <1>1 DEF Resumes
<1>4. DOMAIN B = 1..j /\ j \in DOMAIN B /\ Last(B) = B[j] /\ B # <<>>
  BY <1>3, LenProperties, EmptySeq DEF Last
<1>5. ASSUME NEW i \in DOMAIN B
      PROVE  /\ i \in DOMAIN C /\ i <= j
             /\ i < j => B[i] = C[i] /\ i + 1 \in DOMAIN B /\ i + 1 \in DOMAIN C /\ i < Len(C)
  <2>1. i \in 1..j
    BY <1>4
  <2>2. i \in DOMAIN C /\ i <= j /\ (i < j => i \in 1..j - 1 /\ i + 1 \in 1..j /\ i + 1 \in DOMAIN C /\ i < Len(C))
    BY <2>1, <1>1, <1>3
  <2> QED BY <2>2, <1>4 DEF Resumes
<1>6. ASSUME NEW i \in DOMAIN B
      PROVE  B[i].func = C[i].func /\ C[i].func <= C[j].func
  <2>1. i < j \/ i = j
    BY <1>3, <1>4
  <2>2. C[i].func \in Nat /\ i \in DOMAIN C
    BY <1>1, <1>5, ActivationFields
  <2>3. CASE i = j
    BY <2>2, <2>3 DEF Resumes
  <2>4. CASE i < j
    <3>1. C[i].func < C[j].func /\ C[j].func \in Nat /\ B[i] = C[i]
      BY <2>2, <2>4, <1>1, <1>3, <1>5, ActivationFields
    <3> QED BY <2>2, <3>1
  <2> QED BY <2>1, <2>3, <2>4
<1>7. ASSUME NEW i \in DOMAIN C, C[i].func < C[j].func
      PROVE  i < j /\ i \in DOMAIN B
  <2>1. C[i].func \in Nat /\ C[j].func \in Nat
    BY <1>1, <1>3, ActivationFields
  <2>2. ~(j < i) /\ i # j
    <3>1. j < i => C[j].func < C[i].func
      BY <1>1, <1>3
    <3> HIDE <1>1
    <3> QED BY <3>1, <1>7, <2>1
  <2> QED BY <2>2, <1>1, <1>3, <1>4
<1>8. /\ C[j].depth \in 1..Len(F) /\ C[j].depth <= Len(G) /\ \A k \in 1..C[j].depth : G[k] = F[k]
      /\ Situated(F, C, j) /\ C[j].func \in Nat
  BY <1>1, <1>3, ActivationFields DEF Resumes
<1>9. /\ \A k \in DOMAIN F : k <= C[j].depth => k \in DOMAIN G /\ G[k] = F[k]
      /\ C[j].depth \in DOMAIN F /\ C[j].depth \in DOMAIN G
  BY <1>2, <1>8
<1>10. /\ \A k \in DOMAIN F : ~(k <= C[j].depth) => C[j].func <= Origin(F[k])
       /\ Next1(F[C[j].depth]) <= C[j].func
  BY <1>8, <1>9 DEF Situated
<1> QED BY <1>3, <1>4, <1>5, <1>6, <1>7, <1>8, <1>9, <1>10

(* Another activation in the place of the last                             *)
LEMMA ReplacedCall ==
    ASSUME NEW C \in Seq(Activations), C # <<>>, NEW e \in Activations
    PROVE  /\ Replaced(C, e) \in Seq(Activations) /\ Replaced(C, e) # <<>>
           /\ Len(Replaced(C, e)) = Len(C)
           /\ \A i \in 1..Len(C) - 1 : Replaced(C, e)[i] = C[i]
           /\ Replaced(C, e)[Len(C)] = e
           /\ Last(Replaced(C, e)) = e
  BY ReplacedIs

(* The frames with another current frame,                                  *)
LEMMA ReplacedFrame ==
    ASSUME NEW F \in Seq(Frames), F # <<>>, NEW g \in Frames
    PROVE  /\ Replaced(F, g) \in Seq(Frames) /\ Len(Replaced(F, g)) = Len(F)
           /\ DOMAIN Replaced(F, g) = 1..Len(F)
           /\ \A k \in 1..Len(F) - 1 : Replaced(F, g)[k] = F[k]
           /\ Replaced(F, g)[Len(F)] = g
           /\ Last(Replaced(F, g)) = g
  BY ReplacedIs

(* with one more,                                                          *)
LEMMA AppendedFrame ==
    ASSUME NEW F \in Seq(Frames), NEW g \in Frames
    PROVE  /\ Append(F, g) \in Seq(Frames) /\ Len(Append(F, g)) = Len(F) + 1
           /\ DOMAIN Append(F, g) = 1..Len(F) + 1
           /\ \A k \in 1..Len(F) : Append(F, g)[k] = F[k]
           /\ Append(F, g)[Len(F) + 1] = g
           /\ Last(Append(F, g)) = g
  BY Appended

(* with one less                                                           *)
LEMMA FrontFrame ==
    ASSUME NEW F \in Seq(Frames), F # <<>>
    PROVE  /\ Front(F) \in Seq(Frames) /\ Len(Front(F)) = Len(F) - 1
           /\ DOMAIN Front(F) = 1..Len(F) - 1
           /\ \A k \in 1..Len(F) - 1 : Front(F)[k] = F[k]
           /\ Front(F) = SubSeq(F, 1, Len(F) - 1)
  BY FrontIs DEF Front

(* and the activations with one less.                                      *)
LEMMA FrontCall ==
    ASSUME NEW C \in Seq(Activations), C # <<>>
    PROVE  /\ Front(C) \in Seq(Activations) /\ Len(Front(C)) = Len(C) - 1
           /\ DOMAIN Front(C) = 1..Len(C) - 1
           /\ \A i \in 1..Len(C) - 1 : Front(C)[i] = C[i]
           /\ Front(C) = SubSeq(C, 1, Len(C) - 1)
  BY FrontIs DEF Front

(* What lies below the last activation goes on waiting; above it is what   *)
(* its frames use or it unwinds.                                           *)
LEMMA WaitKept ==
    ASSUME NEW F \in Seq(Frames), FramesStacked(F), NEW G \in Seq(Frames), FramesStacked(G),
           NEW C \in Seq(Activations), CallsStacked(F, C), NEW B \in Seq(Activations),
           NEW j, Resumes(F, C, G, B, j),
           NEW t, NEW D \in SUBSET Nat, Waiting(F, C, t, D), NEW t2 \in Nat, NEW E \in SUBSET Nat,
           StillWait(C, G, B, j, t2, D, E)
    PROVE  Waiting(G, B, t2, E)
<1>1. /\ j \in Nat \ {0} /\ j \in DOMAIN B /\ Len(B) = j
      /\ \A i \in DOMAIN B : i \in DOMAIN C /\ i <= j /\ B[i].func = C[i].func
      /\ \A i \in DOMAIN B : i < j => B[i] = C[i] /\ i + 1 \in DOMAIN B /\ i + 1 \in DOMAIN C /\ i < Len(C)
      /\ \A i \in DOMAIN C : C[i].func < C[j].func => i < j /\ i \in DOMAIN B
      /\ \A k \in DOMAIN F : k <= C[j].depth => k \in DOMAIN G /\ G[k] = F[k]
      /\ \A k \in DOMAIN F : ~(k <= C[j].depth) => C[j].func <= Origin(F[k])
      /\ C[j].func \in Nat
  <2>1. Len(B) = j
    BY DEF Resumes
  <2> QED BY <2>1, ResumesFacts
<1>2. SUFFICES ASSUME NEW s \in E
               PROVE  \/ \E k \in DOMAIN G : s \in Registers(G[k])
                      \/ \E i \in DOMAIN B :
                            B[i].at = "unwind" /\ B[i].func <= s /\ s < EndAt(B, t2, i)
  <2>1. \A s \in E : 0 < s /\ s < t2
    BY DEF StillWait
  <2> QED BY <2>1 DEF Waiting
<1>0. /\ s < C[j].func => s \in D
      /\ s >= C[j].func => \/ B[j].at = "unwind"
                           \/ \E k \in DOMAIN G : s \in Registers(G[k])
      /\ s < t2 /\ s \in Nat
  BY DEF StillWait
<1>3. CASE s >= C[j].func
  <2>1. CASE B[j].at = "unwind"
    <3>1. EndAt(B, t2, j) = t2
      BY <1>1 DEF EndAt
    <3>2. B[j].func <= s /\ s < EndAt(B, t2, j)
      BY <1>1, <1>3, <3>1, <1>0
    <3> QED BY <2>1, <3>2, <1>1
  <2> QED BY <2>1, <1>3, <1>0
<1>4. CASE s < C[j].func
  <2>0. s \in D /\ s \in Nat
    BY <1>4, <1>0
  <2>1. CASE \E k \in DOMAIN F : s \in Registers(F[k])
    <3>1. PICK k \in DOMAIN F : s \in Registers(F[k])
      BY <2>1
    <3>2. F[k] \in Frames /\ Origin(F[k]) < s /\ Origin(F[k]) \in Int
      BY <3>1, StackedFacts, RegisterBounds, FrameBounds
    <3>3. k <= C[j].depth
      BY <1>1, <1>4, <2>0, <3>2
    <3> QED BY <3>1, <3>3, <1>1
  <2>2. CASE \E i \in DOMAIN C : C[i].at = "unwind" /\ C[i].func <= s /\ s < EndAt(C, t, i)
    <3>1. PICK i \in DOMAIN C : C[i].at = "unwind" /\ C[i].func <= s /\ s < EndAt(C, t, i)
      BY <2>2
    <3>2. C[i].func \in Nat
      BY CallsFacts, ActivationFields
    <3>3. i < j /\ i \in DOMAIN B
      BY <1>1, <1>4, <2>0, <3>1, <3>2
    <3>4. EndAt(B, t2, i) = EndAt(C, t, i)
      BY <1>1, <3>3 DEF EndAt
    <3> QED BY <1>1, <3>1, <3>3, <3>4
  <2> QED BY <2>0, <2>1, <2>2 DEF Waiting
<1> QED BY <1>0, <1>1, <1>3, <1>4

(* Upvalues below the activation stay open in the same registers; above it *)
(* they are in those of its own frames.                                    *)
LEMMA CapturedKept ==
    ASSUME NEW F \in Seq(Frames), FramesStacked(F), NEW G \in Seq(Frames), FramesStacked(G),
           NEW C \in Seq(Activations), CallsStacked(F, C), NEW B \in Seq(Activations),
           NEW j, Resumes(F, C, G, B, j),
           NEW U \in SUBSET Nat, Captured(F, C, U), NEW V \in SUBSET Nat,
           StillOpen(C, G, B, j, U, V)
    PROVE  Captured(G, B, V)
<1>1. /\ j \in Nat \ {0} /\ j \in DOMAIN B /\ Len(B) = j /\ DOMAIN B = 1..j
      /\ \A i \in DOMAIN B : i \in DOMAIN C /\ i <= j /\ B[i].func = C[i].func /\ C[i].func <= C[j].func
      /\ \A i \in DOMAIN B : i < j => B[i] = C[i] /\ i + 1 \in DOMAIN B /\ i + 1 \in DOMAIN C /\ i < Len(C)
      /\ \A k \in DOMAIN F : k <= C[j].depth => k \in DOMAIN G /\ G[k] = F[k]
      /\ \A k \in DOMAIN F : ~(k <= C[j].depth) => C[j].func <= Origin(F[k])
      /\ C[j].func \in Nat
  <2>1. Len(B) = j
    BY DEF Resumes
  <2> QED BY <2>1, ResumesFacts
<1>2. ASSUME NEW s \in V
      PROVE  \E k \in DOMAIN G : s \in Registers(G[k])
  <2>1. CASE s < C[j].func
    <3>1. PICK k \in DOMAIN F : s \in Registers(F[k])
      BY <2>1 DEF Captured, StillOpen
    <3>2. F[k] \in Frames /\ Origin(F[k]) < s /\ Origin(F[k]) \in Int /\ s \in Nat
      BY <3>1, StackedFacts, RegisterBounds, FrameBounds
    <3>3. k <= C[j].depth
      BY <1>1, <2>1, <3>2
    <3> QED BY <3>1, <3>3, <1>1
  <2>2. CASE s >= C[j].func
    BY <2>2 DEF StillOpen
  <2>3. s \in Nat /\ C[j].func \in Nat
    BY <1>1
  <2> QED BY <2>1, <2>2, <2>3
<1>3. ASSUME NEW i \in DOMAIN B, B[i].at # "run", NEW s \in V
      PROVE  s < B[i].level \/ (i < Len(B) /\ B[i + 1].func <= s)
  <2>1. CASE i = j
    BY <2>1, <1>3 DEF StillOpen
  <2>2. CASE i < j
    <3>1. /\ B[i] = C[i] /\ i + 1 \in DOMAIN B /\ i < Len(B) /\ i \in DOMAIN C
          /\ B[i + 1].func = C[i + 1].func /\ C[i + 1].func <= C[j].func
      BY <2>2, <1>1
    <3>2. C[i + 1].func \in Nat
      BY <1>1, <2>2, CallsFacts, ActivationFields
    <3>3. CASE s < C[j].func
      BY <3>1, <3>3, <1>3 DEF Captured, StillOpen
    <3>4. CASE s >= C[j].func
      <4>1. C[i + 1].func <= s
        BY <3>1, <3>2, <3>4, <1>1
      <4> QED BY <3>1, <4>1
    <3> QED BY <3>3, <3>4, <1>1
  <2> QED BY <2>1, <2>2, <1>1
<1> QED BY <1>2, <1>3 DEF Captured

-----------------------------------------------------------------------------
(* The frames, the activations, L->top, the variables that wait and the    *)
(* open upvalues: the part of the invariant that says what is where.       *)

(* The part of the invariant that frames, activations, L->top, waiting     *)
(* variables and open upvalues have in common, for any values of them.     *)
Placed(F, C, t, D, U) ==
    /\ F \in Seq(Frames) /\ C \in Seq(Activations) /\ t \in Nat
    /\ D \in SUBSET Nat /\ U \in SUBSET Nat
    /\ FramesStacked(F) /\ CallsStacked(F, C) /\ TopAbove(F, C, t)
    /\ Waiting(F, C, t, D) /\ Captured(F, C, U)

(* The frames above those of activation j lie above its function, and none *)
(* is that of a pcall.                                                     *)
OwnAbove(C, G, j) ==
    \A k \in DOMAIN G : k > C[j].depth => C[j].func <= Origin(G[k]) /\ G[k].kind # "fp"

(* When activation j goes on with frames of its own, everything is in      *)
(* place again if what it closes, waits for and captures is.               *)
LEMMA Continues ==
    ASSUME NEW F, NEW C, NEW t, NEW D, NEW U, Placed(F, C, t, D, U),
           NEW G \in Seq(Frames), FramesStacked(G), NEW B \in Seq(Activations),
           NEW j, Resumes(F, C, G, B, j),
           OwnAbove(C, G, j), Busy(G, B[j], Len(G)),
           NEW t2 \in Nat, TopAbove(G, B, t2), NEW E \in SUBSET Nat, NEW V \in SUBSET Nat,
           StillWait(C, G, B, j, t2, D, E), StillOpen(C, G, B, j, U, V)
    PROVE  Placed(G, B, t2, E, V)
<1>1. /\ F \in Seq(Frames) /\ C \in Seq(Activations) /\ FramesStacked(F) /\ CallsStacked(F, C)
      /\ D \in SUBSET Nat /\ U \in SUBSET Nat /\ Waiting(F, C, t, D) /\ Captured(F, C, U)
  BY DEF Placed
<1>2. CallsStacked(G, B)
  <2>1. /\ j \in DOMAIN C /\ Len(B) = j /\ \A i \in 1..j - 1 : B[i] = C[i]
        /\ B[j].func = C[j].func /\ B[j].depth = C[j].depth /\ B[j].by = C[j].by
        /\ C[j].depth <= Len(G) /\ \A k \in 1..C[j].depth : G[k] = F[k]
        /\ \A k \in DOMAIN G : k > C[j].depth => C[j].func <= Origin(G[k]) /\ G[k].kind # "fp"
    BY DEF Resumes, OwnAbove
  <2> QED BY <1>1, <2>1, Restacked
<1>3. Waiting(G, B, t2, E)
  BY <1>1, WaitKept, Zenon
<1>4. Captured(G, B, V)
  BY <1>1, CapturedKept, Zenon
<1> QED BY <1>2, <1>3, <1>4 DEF Placed

(* What the last activation knows of it.                                   *)
LEMMA LastCall ==
    ASSUME NEW F, NEW C, NEW t, NEW D, NEW U, Placed(F, C, t, D, U), C # <<>>
    PROVE  LET c == Last(C)
               f == Last(F)
           IN  /\ Len(C) \in Nat \ {0} /\ DOMAIN C = 1..Len(C) /\ Len(C) \in DOMAIN C
               /\ c = C[Len(C)] /\ c \in Activations
               /\ c.func \in Nat /\ c.depth \in 1..Len(F) /\ c.func < t
               /\ Len(F) \in Nat \ {0} /\ DOMAIN F = 1..Len(F)
               /\ f = F[Len(F)] /\ f \in Frames
               /\ Situated(F, C, Len(C)) /\ Busy(F, c, Len(F))
               /\ \A k \in DOMAIN F : k > c.depth => c.func <= Origin(F[k]) /\ F[k].kind = "lua"
               /\ \A k \in DOMAIN F : k <= c.depth => Next1(F[k]) <= c.func
               /\ c.at # "unwind" => /\ Len(F) > c.depth /\ Len(F) # 1 /\ f.kind = "lua"
                                     /\ FrameShape(f) /\ c.func <= Origin(f)
               /\ c.at = "unwind" => Len(F) = c.depth /\ c.level = c.func /\ Next1(f) <= c.func
<1> DEFINE n == Len(C)
           c == C[n]
           N == Len(F)
           f == F[N]
<1>1. /\ F \in Seq(Frames) /\ C \in Seq(Activations) /\ FramesStacked(F) /\ CallsStacked(F, C)
      /\ TopAbove(F, C, t)
  BY DEF Placed
<1>2. /\ n \in Nat \ {0} /\ DOMAIN C = 1..n /\ n \in DOMAIN C /\ Last(C) = c
  BY <1>1, CallsFacts, FrontIs
<1>3. /\ \A i \in DOMAIN C : C[i] \in Activations /\ C[i].depth \in 1..N /\ Situated(F, C, i)
      /\ \A i, m \in DOMAIN C : i < m => C[i].depth <= C[m].depth
  BY <1>1, CallsFacts
<1>4. /\ N \in Nat \ {0} /\ DOMAIN F = 1..N /\ N \in DOMAIN F
      /\ \A k \in DOMAIN F : F[k] \in Frames /\ (k # 1 => FrameShape(F[k]))
      /\ Last(F) = f
  BY <1>1, StackedFacts
<1>5. c \in Activations /\ c.depth \in 1..N /\ c.func \in Nat /\ c.depth \in Nat /\ c.func < t
  BY <1>1, <1>2, <1>3, ActivationFields DEF TopAbove
<1>6. Situated(F, C, n) /\ DepthAt(F, C, n) = N
  BY <1>2, <1>3 DEF DepthAt
<1> HIDE DEF n, N
<1>7. /\ Busy(F, c, N)
      /\ \A k \in DOMAIN F : IF k <= c.depth THEN Next1(F[k]) <= c.func ELSE c.func <= Origin(F[k])
  BY <1>6 DEF Situated
<1>8. ASSUME NEW k \in DOMAIN F, k > c.depth
      PROVE  c.func <= Origin(F[k]) /\ F[k].kind = "lua" /\ FrameShape(F[k]) /\ k # 1
  <2>1. c.func <= Origin(F[k]) /\ k # 1
    BY <1>4, <1>5, <1>7, <1>8
  <2>2. FrameShape(F[k])
    BY <2>1, <1>4
  <2>3. F[k].kind # "fp"
    <3>1. SUFFICES ASSUME F[k].kind = "fp" PROVE FALSE
      OBVIOUS
    <3>2. PICK i \in DOMAIN C : C[i].depth = k
      BY <1>1, <3>1 DEF CallsStacked
    <3>3. i < n \/ i = n
      BY <1>2
    <3>4. C[i].depth <= c.depth
      BY <3>3, <1>2, <1>3, <1>5
    <3> QED BY <3>2, <3>4, <1>4, <1>5, <1>8
  <2> QED BY <2>1, <2>2, <2>3 DEF FrameShape
<1>9. c.at # "unwind" => N > c.depth
  BY <1>7 DEF Busy
<1>10. c.at = "unwind" => N = c.depth /\ c.level = c.func
  BY <1>7 DEF Busy
<1>11. c.at = "unwind" => Next1(f) <= c.func
  BY <1>4, <1>5, <1>7, <1>10
<1>12. \A k \in DOMAIN F : k <= c.depth => Next1(F[k]) <= c.func
  BY <1>7
<1> QED BY <1>2, <1>4, <1>5, <1>6, <1>7, <1>8, <1>9, <1>10, <1>11, <1>12 DEF n, N

(* Where what is in use is.                                                *)
LEMMA Whereabouts ==
    ASSUME NEW F, NEW C, NEW t, NEW D, NEW U, Placed(F, C, t, D, U), C # <<>>,
           NEW s \in D \cup U
    PROVE  LET c == Last(C)
           IN  /\ s \in Nat
               /\ \/ s < c.func
                  \/ \E k \in DOMAIN F : k > c.depth /\ s \in Registers(F[k])
                  \/ c.at = "unwind" /\ s \in D
               /\ s \in D => 0 < s /\ s < t
               /\ s \in U /\ c.at # "run" => s < c.level
<1> DEFINE n == Len(C)
           c == C[n]
<1>1. /\ F \in Seq(Frames) /\ C \in Seq(Activations) /\ FramesStacked(F) /\ CallsStacked(F, C)
      /\ D \in SUBSET Nat /\ U \in SUBSET Nat /\ Waiting(F, C, t, D) /\ Captured(F, C, U)
  BY DEF Placed
<1>2. /\ n \in Nat \ {0} /\ DOMAIN C = 1..n /\ n \in DOMAIN C /\ Last(C) = c
      /\ c.func \in Nat /\ c.depth \in 1..Len(F)
      /\ \A k \in DOMAIN F : k <= c.depth => Next1(F[k]) <= c.func
  BY LastCall
<1>3. ASSUME NEW k \in DOMAIN F, s \in Registers(F[k]), ~(k > c.depth)
      PROVE  s < c.func
  <2>1. F[k] \in Frames /\ k \in Nat /\ c.depth \in Nat
    BY <1>1, <1>2, StackedFacts
  <2>2. s \in Nat /\ s < Next1(F[k]) /\ Next1(F[k]) \in Nat
    BY <2>1, <1>3, RegisterBounds, FrameBounds
  <2>3. Next1(F[k]) <= c.func
    BY <2>1, <1>2, <1>3
  <2> QED BY <2>2, <2>3, <1>2
<1>4. CASE s \in U
  <2>1. PICK k \in DOMAIN F : s \in Registers(F[k])
    BY <1>1, <1>4 DEF Captured
  <2>2. c.at # "run" => s < c.level
    BY <1>1, <1>2, <1>4 DEF Captured
  <2>3. s \in D => 0 < s /\ s < t
    BY <1>1 DEF Waiting
  <2>4. s \in Nat
    BY <1>1, <1>4
  <2> HIDE DEF c
  <2> QED BY <2>1, <2>2, <2>3, <2>4, <1>2, <1>3
<1>5. CASE s \in D /\ s \notin U
  <2>1. s \in Nat /\ 0 < s /\ s < t
    BY <1>1, <1>5 DEF Waiting
  <2>2. CASE \E k \in DOMAIN F : s \in Registers(F[k])
    <3> HIDE DEF c
    <3> QED BY <2>1, <2>2, <1>2, <1>3, <1>5
  <2>3. CASE \E i \in DOMAIN C : C[i].at = "unwind" /\ C[i].func <= s /\ s < EndAt(C, t, i)
    <3>1. PICK i \in DOMAIN C : C[i].at = "unwind" /\ C[i].func <= s /\ s < EndAt(C, t, i)
      BY <2>3
    <3>2. CASE i = n
      BY <3>1, <3>2, <2>1, <1>2, <1>5
    <3>3. CASE i < n
      <4>1. i + 1 \in DOMAIN C /\ (i + 1 = n \/ i + 1 < n)
        BY <3>3, <1>2
      <4>2. s < C[i + 1].func /\ C[i + 1].func \in Nat
        BY <3>1, <3>3, <4>1, <1>1, CallsFacts, ActivationFields DEF EndAt
      <4>3. C[i + 1].func <= c.func
        BY <4>1, <4>2, <1>1, <1>2, CallsFacts
      <4>4. s < c.func
        BY <4>2, <4>3, <2>1, <1>2
      <4> HIDE DEF c
      <4> QED BY <4>4, <2>1, <1>2, <1>5
    <3> QED BY <3>2, <3>3, <1>2
  <2> QED BY <2>2, <2>3, <1>1, <1>5 DEF Waiting
<1> QED BY <1>4, <1>5

-----------------------------------------------------------------------------
(* How a step leaves everything in its place.                              *)

(* The function that runs goes on, with other registers.                   *)
LEMMA Advances ==
    ASSUME NEW F, NEW C, NEW t, NEW D, NEW U, Placed(F, C, t, D, U),
           C # <<>>, Last(C).at # "unwind",
           NEW g \in Frames, FrameShape(g), g.kind = "lua", Origin(Last(F)) <= Origin(g),
           NEW e \in Activations, e.func = Last(C).func, e.depth = Last(C).depth,
           e.by = Last(C).by, e.at = "run", e.from = 0, e.n = 0,
           NEW t2 \in Nat, Base(g) <= t2, NEW E \in SUBSET Nat, NEW V \in SUBSET Nat,
           \A s \in E : 0 < s /\ s < t2 /\ (s \in Registers(g) \/ (s \in D /\ s \notin Registers(Last(F)))),
           \A s \in V : s \in Registers(g) \/ (s \in U /\ s \notin Registers(Last(F)))
    PROVE  Placed(Replaced(F, g), Replaced(C, e), t2, E, V)
<1> DEFINE n == Len(C)
           N == Len(F)
           c == C[n]
           f == F[N]
           G == Replaced(F, g)
           B == Replaced(C, e)
<1>1. /\ F \in Seq(Frames) /\ C \in Seq(Activations) /\ FramesStacked(F) /\ F # <<>>
  BY DEF Placed, FramesStacked
<1>2. /\ n \in Nat \ {0} /\ DOMAIN C = 1..n /\ n \in DOMAIN C /\ Last(C) = c /\ c \in Activations
      /\ c.func \in Nat /\ c.depth \in 1..N /\ N \in Nat \ {0} /\ DOMAIN F = 1..N /\ Last(F) = f
      /\ f \in Frames
      /\ \A k \in DOMAIN F : k > c.depth => c.func <= Origin(F[k]) /\ F[k].kind = "lua"
      /\ N > c.depth /\ N # 1 /\ c.func <= Origin(f)
  BY LastCall
<1>3. /\ G \in Seq(Frames) /\ DOMAIN G = 1..N /\ Len(G) = N
      /\ \A k \in 1..N - 1 : G[k] = F[k]
      /\ G[N] = g /\ Last(G) = g
  <2>1. /\ G \in Seq(Frames) /\ DOMAIN G = 1..Len(F) /\ Len(G) = Len(F)
        /\ \A k \in 1..Len(F) - 1 : G[k] = F[k]
        /\ G[Len(F)] = g /\ Last(G) = g
    <3> HIDE DEF N
    <3> QED BY <1>1, ReplacedFrame, Zenon
  <2> QED BY <2>1
<1>4. FramesStacked(G)
  BY <1>1, <1>2, ReplaceStacked
<1>5. /\ B \in Seq(Activations) /\ B # <<>> /\ Len(B) = n
      /\ \A i \in 1..n - 1 : B[i] = C[i]
      /\ B[n] = e /\ Last(B) = e
  BY <1>1, ReplacedIs
<1>6. Origin(f) \in Int /\ Origin(g) \in Int /\ Base(g) \in Nat /\ Origin(g) < Base(g)
  BY <1>2, FrameBounds
<1>7. c.func <= Origin(g) /\ c.func < t2
  BY <1>2, <1>6
<1>8. /\ e.func = c.func /\ e.depth = c.depth /\ e.by = c.by
      /\ \A s \in E : s \in Registers(g) \/ (s \in D /\ s \notin Registers(f))
      /\ \A s \in V : s \in Registers(g) \/ (s \in U /\ s \notin Registers(f))
      /\ c.at # "unwind"
  BY <1>2
<1> HIDE DEF n, N, c, f, G, B
<1>9. Resumes(F, C, G, B, n)
  <2>1. \A k \in 1..c.depth : k \in 1..N - 1
    BY <1>2
  <2>2. c.depth <= N
    BY <1>2
  <2> QED BY <2>1, <2>2, <1>2, <1>3, <1>5, <1>8 DEF Resumes, c
<1>10. OwnAbove(C, G, n)
  <2>0. SUFFICES ASSUME NEW k \in DOMAIN G, k > c.depth
                 PROVE  c.func <= Origin(G[k]) /\ G[k].kind # "fp"
    BY DEF OwnAbove, c
  <2>1. CASE k = N
    BY <2>1, <1>3, <1>7
  <2>2. CASE k \in 1..N - 1
    <3>1. G[k] = F[k] /\ k \in DOMAIN F
      BY <2>2, <1>2, <1>3
    <3> QED BY <3>1, <1>2, <2>0
  <2> QED BY <2>1, <2>2, <1>2, <1>3
<1>11. Busy(G, B[n], Len(G))
  BY <1>2, <1>3, <1>5, <1>8 DEF Busy
<1>12. TopAbove(G, B, t2)
  BY <1>2, <1>3, <1>5, <1>7, <1>8 DEF TopAbove
<1>13. ASSUME NEW s, NEW X, s \in Nat, s \in Registers(g) \/ (s \in X /\ s \notin Registers(f)), X \subseteq D \cup U
       PROVE  /\ s < C[n].func => s \in X
              /\ s >= C[n].func => \E k \in DOMAIN G : s \in Registers(G[k])
  <2>1. CASE s \in Registers(g)
    <3>1. s > Origin(g)
      BY <2>1, RegisterBounds
    <3>2. ~(s < c.func)
      BY <3>1, <1>2, <1>6, <1>7, <1>13
    <3>3. N \in DOMAIN G
      BY <1>2, <1>3
    <3> QED BY <2>1, <3>2, <3>3, <1>3 DEF c
  <2>2. CASE s \in X /\ s \notin Registers(f)
    <3>1. s < c.func \/ \E k \in DOMAIN F : k > c.depth /\ s \in Registers(F[k])
      <4>1. s \in D \cup U
        BY <2>2, <1>13
      <4> QED BY <4>1, <1>2, <1>8, Whereabouts
    <3>2. CASE s < c.func
      BY <2>2, <3>2, <1>2, <1>13 DEF c
    <3>3. CASE \E k \in DOMAIN F : k > c.depth /\ s \in Registers(F[k])
      <4>1. PICK k \in DOMAIN F : k > c.depth /\ s \in Registers(F[k])
        BY <3>3
      <4>2. k # N
        BY <4>1, <2>2 DEF f
      <4>3. k \in DOMAIN G /\ G[k] = F[k]
        BY <4>2, <1>2, <1>3
      <4> QED BY <2>2, <4>1, <4>3
    <3> QED BY <3>1, <3>2, <3>3
  <2> QED BY <2>1, <2>2, <1>13
<1>14. StillWait(C, G, B, n, t2, D, E)
  <2>0. SUFFICES ASSUME NEW s \in E
                 PROVE  /\ 0 < s /\ s < t2
                        /\ s < C[n].func => s \in D
                        /\ s >= C[n].func => \/ B[n].at = "unwind"
                                             \/ \E k \in DOMAIN G : s \in Registers(G[k])
    BY DEF StillWait
  <2>1. s \in Nat /\ 0 < s /\ s < t2
    OBVIOUS
  <2>2. s \in Registers(g) \/ (s \in D /\ s \notin Registers(f))
    BY <1>8
  <2> QED BY <2>1, <2>2, <1>13
<1>15. StillOpen(C, G, B, n, U, V)
  <2>0. SUFFICES ASSUME NEW s \in V
                 PROVE  /\ s < C[n].func => s \in U
                        /\ s >= C[n].func => \E k \in DOMAIN G : s \in Registers(G[k])
                        /\ B[n].at # "run" => s < B[n].level
    BY DEF StillOpen
  <2>1. s \in Nat /\ (s \in Registers(g) \/ (s \in U /\ s \notin Registers(f)))
    BY <1>8
  <2>2. B[n].at = "run"
    BY <1>5
  <2> QED BY <2>1, <2>2, <1>13
<1>16. Placed(G, B, t2, E, V)
  BY <1>3, <1>4, <1>5, <1>9, <1>10, <1>11, <1>12, <1>14, <1>15, Continues, Zenon
<1> QED BY <1>16 DEF G, B

(* An error goes to the luaD_call of activation j.                         *)
LEMMA Unwinds ==
    ASSUME NEW F, NEW C, NEW t, NEW D, NEW U, Placed(F, C, t, D, U), NEW j \in DOMAIN C,
           NEW t2 \in Nat, C[j].func < t2, NEW E \in SUBSET D, \A s \in E : s < t2
    PROVE  Placed(SubSeq(F, 1, C[j].depth), Replaced(SubSeq(C, 1, j), Unwinding(C[j])), t2, E,
                  {s \in U : s < C[j].func})
<1> DEFINE c == C[j]
           G == SubSeq(F, 1, c.depth)
           S == SubSeq(C, 1, j)
           B == Replaced(S, Unwinding(c))
           V == {s \in U : s < C[j].func}
<1>1. /\ F \in Seq(Frames) /\ C \in Seq(Activations) /\ FramesStacked(F) /\ CallsStacked(F, C)
      /\ D \in SUBSET Nat /\ U \in SUBSET Nat /\ Waiting(F, C, t, D)
  BY DEF Placed
<1>2. /\ Len(C) \in Nat /\ DOMAIN C = 1..Len(C) /\ c \in Activations /\ c.depth \in 1..Len(F)
      /\ c.func \in Nat
  BY <1>1, CallsFacts, ActivationFields
<1>3. /\ G \in Seq(Frames) /\ FramesStacked(G) /\ Len(G) = c.depth /\ DOMAIN G = 1..c.depth
      /\ \A k \in 1..c.depth : G[k] = F[k]
  BY <1>1, <1>2, CutStacked
<1>4. /\ S \in Seq(Activations) /\ Len(S) = j /\ \A i \in 1..j : S[i] = C[i]
      /\ j \in Nat \ {0} /\ S # <<>>
  <2>1. j \in 0..Len(C) /\ j \in Nat \ {0}
    BY <1>2
  <2>2. S \in Seq(Activations) /\ Len(S) = j /\ \A i \in 1..j : S[i] = C[i]
    BY <1>1, <2>1, Cut
  <2> QED BY <2>1, <2>2, EmptySeq
<1>5. LET d == Unwinding(c)
      IN  /\ d \in Activations /\ d.func = c.func /\ d.depth = c.depth /\ d.by = c.by
          /\ d.at = "unwind" /\ d.level = c.func /\ d.from = 0 /\ d.n = 0
  BY <1>2, UnwindingFields
<1> DEFINE e == Unwinding(c)
<1> HIDE DEF e
<1>6. /\ e \in Activations /\ e.func = c.func /\ e.depth = c.depth /\ e.by = c.by
      /\ e.at = "unwind" /\ e.level = c.func /\ e.from = 0 /\ e.n = 0 /\ B = Replaced(S, e)
  BY <1>5 DEF e
<1>7. /\ B \in Seq(Activations) /\ B # <<>> /\ Len(B) = j /\ Last(B) = e /\ B[j] = e
      /\ \A i \in 1..j - 1 : B[i] = S[i]
  <2> HIDE DEF B, S
  <2>1. /\ Replaced(S, e) \in Seq(Activations) /\ Replaced(S, e) # <<>>
        /\ Len(Replaced(S, e)) = Len(S)
        /\ \A k \in 1..Len(S) - 1 : Replaced(S, e)[k] = S[k]
        /\ Replaced(S, e)[Len(S)] = e /\ Last(Replaced(S, e)) = e
    BY <1>4, <1>6, ReplacedCall, Zenon
  <2> QED BY <2>1, <1>4, <1>6
<1> HIDE DEF B, G, S
<1>8. Resumes(F, C, G, B, j)
  <2>1. \A i \in 1..j - 1 : i \in 1..j
    BY <1>4
  <2>2. c.depth <= c.depth
    BY <1>2
  <2> QED BY <2>1, <2>2, <1>3, <1>4, <1>6, <1>7 DEF Resumes
<1>9. OwnAbove(C, G, j)
  <2>1. \A k \in DOMAIN G : ~(k > C[j].depth)
    BY <1>2, <1>3
  <2> QED BY <2>1 DEF OwnAbove
<1>10. Busy(G, B[j], Len(G))
  BY <1>3, <1>6, <1>7 DEF Busy
<1>11. TopAbove(G, B, t2)
  BY <1>2, <1>6, <1>7 DEF TopAbove
<1>12. StillWait(C, G, B, j, t2, D, E)
  BY <1>1, <1>6, <1>7 DEF Waiting, StillWait
<1>13. StillOpen(C, G, B, j, U, V)
  <2>0. SUFFICES ASSUME NEW s \in V
                 PROVE  /\ s < C[j].func => s \in U
                        /\ s >= C[j].func => \E k \in DOMAIN G : s \in Registers(G[k])
                        /\ B[j].at # "run" => s < B[j].level
    BY DEF StillOpen
  <2>1. s \in U /\ s < c.func /\ s \in Nat /\ B[j].level = c.func
    BY <1>1, <1>6, <1>7
  <2>2. ~(s >= c.func)
    BY <2>1, <1>2
  <2> QED BY <2>1, <2>2
<1>14. E \in SUBSET Nat /\ V \in SUBSET Nat
  BY <1>1
<1> HIDE DEF V
<1>15. Placed(G, B, t2, E, V)
  BY <1>3, <1>7, <1>8, <1>9, <1>10, <1>11, <1>12, <1>13, <1>14, Continues, Zenon
<1> QED BY <1>15 DEF G, B, S, V

(* A function returns to its caller in the same luaD_call.                 *)
LEMMA ReturnsInRun ==
    ASSUME NEW F, NEW C, NEW t, NEW D, NEW U, Placed(F, C, t, D, U),
           C # <<>>, Last(C).at # "unwind", Len(Front(F)) > Last(C).depth,
           \A s \in D \cup U : s \notin Registers(Last(F)), NEW wanted,
           NEW e \in Activations, e.func = Last(C).func, e.depth = Last(C).depth,
           e.by = Last(C).by, e.at = "run", e.from = 0, e.n = 0,
           NEW t2 \in Nat, Origin(Last(F)) <= t2
    PROVE  Placed(Resumed(Front(F), wanted), Replaced(C, e), t2, D, U)
<1> DEFINE n == Len(C)
           N == Len(F)
           c == C[n]
           f == F[N]
           H == Front(F)
           h == F[N - 1]
           v == IF wanted = -1 THEN "open" ELSE "any"
           g == [h EXCEPT !.next = v]
           G == Replaced(H, g)
           B == Replaced(C, e)
<1>1. /\ F \in Seq(Frames) /\ C \in Seq(Activations) /\ FramesStacked(F) /\ F # <<>>
      /\ D \in SUBSET Nat /\ U \in SUBSET Nat
  BY DEF Placed, FramesStacked
<1>2. /\ n \in Nat \ {0} /\ DOMAIN C = 1..n /\ n \in DOMAIN C /\ Last(C) = c /\ c \in Activations
      /\ c.func \in Nat /\ c.depth \in 1..N /\ N \in Nat \ {0} /\ DOMAIN F = 1..N /\ Last(F) = f
      /\ f \in Frames
      /\ \A k \in DOMAIN F : k > c.depth => c.func <= Origin(F[k]) /\ F[k].kind = "lua"
      /\ c.func <= Origin(f)
  BY LastCall
<1>3. /\ H \in Seq(Frames) /\ Len(H) = N - 1 /\ DOMAIN H = 1..N - 1
      /\ \A k \in 1..N - 1 : H[k] = F[k]
  BY <1>1, FrontFrame, Zenon
<1>4. /\ N - 1 > c.depth /\ N - 1 \in DOMAIN F /\ N - 1 # 1 /\ N - 1 \in 1..N - 1 /\ N - 1 \in Nat
  BY <1>2, <1>3
<1>5. H # <<>> /\ Last(H) = h /\ h \in Frames /\ FrameShape(h) /\ h.kind = "lua"
  <2>1. H # <<>> /\ Last(H) = H[N - 1]
    BY <1>3, <1>4, EmptySeq DEF Last
  <2>2. H[N - 1] = h
    BY <1>3, <1>4
  <2>3. h \in Frames /\ FrameShape(h) /\ h.kind = "lua"
    BY <1>1, <1>2, <1>4, StackedFacts
  <2> QED BY <2>1, <2>2, <2>3
<1>6. /\ g \in Frames /\ FrameShape(g) /\ g.kind = "lua"
      /\ Origin(g) = Origin(h) /\ Base(g) = Base(h) /\ Next1(g) = Next1(h)
      /\ Registers(g) = Registers(h)
  <2>1. v \in {"any", "open"}
    OBVIOUS
  <2> HIDE DEF v, h
  <2> QED BY <2>1, <1>5, WithNext
<1>7. Resumed(H, wanted) = G
  <2> HIDE DEF h, H
  <2> QED BY <1>5 DEF Resumed
<1> HIDE DEF g, v
<1>8. H = SubSeq(F, 1, N - 1) /\ N - 1 \in 1..N
  BY <1>2, <1>4 DEF Front
<1>9. FramesStacked(H)
  BY <1>1, <1>8, CutStacked
<1>10. /\ G \in Seq(Frames) /\ DOMAIN G = 1..N - 1 /\ Len(G) = N - 1
       /\ \A k \in 1..N - 1 - 1 : G[k] = H[k]
       /\ G[N - 1] = g /\ Last(G) = g
  <2>1. /\ G \in Seq(Frames) /\ DOMAIN G = 1..Len(H) /\ Len(G) = Len(H)
        /\ \A k \in 1..Len(H) - 1 : G[k] = H[k]
        /\ G[Len(H)] = g /\ Last(G) = g
    <3> HIDE DEF H
    <3> QED BY <1>3, <1>5, <1>6, ReplacedFrame, Zenon
  <2> QED BY <2>1, <1>3
<1>11. FramesStacked(G)
  <2>1. Origin(Last(H)) <= Origin(g) /\ Len(H) # 1
    <3>1. Origin(h) \in Int /\ Origin(h) = Origin(g) /\ Len(H) # 1
      BY <1>3, <1>4, <1>5, <1>6, FrameBounds
    <3> HIDE DEF h, H
    <3> QED BY <3>1, <1>5
  <2> HIDE DEF H, h
  <2> QED BY <2>1, <1>3, <1>6, <1>9, ReplaceStacked
<1>12. /\ B \in Seq(Activations) /\ B # <<>> /\ Len(B) = n
       /\ \A i \in 1..n - 1 : B[i] = C[i]
       /\ B[n] = e /\ Last(B) = e
  BY <1>1, ReplacedIs
<1>13. /\ Origin(f) \in Int /\ Origin(g) \in Int /\ Base(g) \in Nat /\ Origin(g) < Base(g)
       /\ Base(g) <= Next1(g) /\ Next1(g) \in Nat
  BY <1>2, <1>6, FrameBounds
<1>14. Next1(g) <= Origin(f)
  BY <1>1, <1>2, <1>4, <1>6, StackedFacts
<1>15. c.func < t2 /\ Base(g) <= t2 /\ c.func <= Origin(g)
  <2>1. c.func <= Origin(g)
    BY <1>2, <1>4, <1>6
  <2> DEFINE o == Origin(g)  b == Base(g)  x == Next1(g)  y == Origin(f)
  <2>2. c.func <= o /\ o < b /\ b <= x /\ x <= y /\ y <= t2
    BY <2>1, <1>2, <1>13, <1>14
  <2>3. o \in Int /\ b \in Nat /\ x \in Nat /\ y \in Int /\ c.func \in Nat
    BY <1>2, <1>13
  <2> HIDE DEF o, b, x, y, c
  <2>4. c.func < t2 /\ b <= t2
    BY <2>2, <2>3
  <2> QED BY <2>1, <2>4 DEF b
<1>16. /\ e.func = c.func /\ e.depth = c.depth /\ e.by = c.by
       /\ \A s \in D \cup U : s \notin Registers(f)
       /\ c.at # "unwind"
  BY <1>2
<1> HIDE DEF n, N, c, f, G, B, H, h
<1>17. \A k \in 1..N - 1 : /\ k \in DOMAIN F /\ k \in DOMAIN G
                           /\ Registers(G[k]) = Registers(F[k])
                           /\ k # N - 1 => G[k] = F[k]
  <2>1. ASSUME NEW k \in 1..N - 1, k # N - 1 PROVE k \in DOMAIN F /\ k \in DOMAIN G /\ G[k] = F[k]
    BY <2>1, <1>2, <1>3, <1>10
  <2>2. N - 1 \in DOMAIN F /\ N - 1 \in DOMAIN G /\ Registers(G[N - 1]) = Registers(F[N - 1])
    BY <1>4, <1>6, <1>10 DEF h
  <2> QED BY <2>1, <2>2
<1>18. Resumes(F, C, G, B, n)
  <2>1. \A k \in 1..c.depth : k \in 1..N - 1 /\ k # N - 1
    BY <1>2, <1>4
  <2>2. c.depth <= N - 1
    BY <1>2, <1>4
  <2> QED BY <2>1, <2>2, <1>2, <1>10, <1>12, <1>16, <1>17 DEF Resumes, c
<1>19. OwnAbove(C, G, n)
  <2>0. SUFFICES ASSUME NEW k \in DOMAIN G, k > c.depth
                 PROVE  c.func <= Origin(G[k]) /\ G[k].kind # "fp"
    BY DEF OwnAbove, c
  <2>1. CASE k = N - 1
    BY <2>1, <1>6, <1>10, <1>15
  <2>2. CASE k # N - 1
    <3>1. G[k] = F[k] /\ k \in DOMAIN F
      BY <2>2, <1>10, <1>17
    <3> QED BY <3>1, <1>2, <2>0
  <2> QED BY <2>1, <2>2
<1>20. Busy(G, B[n], Len(G))
  BY <1>2, <1>4, <1>10, <1>12, <1>16 DEF Busy
<1>21. TopAbove(G, B, t2)
  BY <1>2, <1>10, <1>12, <1>15, <1>16 DEF TopAbove
<1>22. ASSUME NEW s \in D \cup U
       PROVE  /\ s \in Nat /\ s < t2
              /\ s < c.func \/ \E k \in DOMAIN G : s \in Registers(G[k])
  <2>1. /\ s \in Nat
        /\ s < c.func \/ \E k \in DOMAIN F : k > c.depth /\ s \in Registers(F[k])
    BY <1>2, <1>16, Whereabouts
  <2>2. CASE s < c.func
    BY <2>1, <2>2, <1>2, <1>15
  <2>3. CASE \E k \in DOMAIN F : k > c.depth /\ s \in Registers(F[k])
    <3>1. PICK k \in DOMAIN F : k > c.depth /\ s \in Registers(F[k])
      BY <2>3
    <3>2. k # N
      BY <3>1, <1>16 DEF f
    <3>3. k \in 1..N - 1 /\ k < N /\ N \in DOMAIN F
      BY <3>2, <1>2
    <3>4. s \in Registers(G[k]) /\ k \in DOMAIN G
      BY <3>1, <3>3, <1>17
    <3>5. Next1(F[k]) <= Origin(f) /\ F[k] \in Frames
      BY <3>3, <1>1, StackedFacts DEF f
    <3>6. s < Next1(F[k]) /\ Next1(F[k]) \in Nat
      BY <3>1, <3>5, RegisterBounds, FrameBounds
    <3>7. Origin(f) <= t2
      BY <1>2
    <3>8. s < t2
      BY <3>5, <3>6, <3>7, <2>1, <1>13
    <3> QED BY <3>4, <3>8, <2>1
  <2> QED BY <2>1, <2>2, <2>3
<1>23. StillWait(C, G, B, n, t2, D, D)
  <2>1. ASSUME NEW s \in D
        PROVE  0 < s /\ s < t2 /\ (s >= C[n].func => \E k \in DOMAIN G : s \in Registers(G[k]))
    <3>1. s \in D \cup U
      OBVIOUS
    <3>2. 0 < s
      BY <3>1, Whereabouts
    <3>3. s \in Nat /\ s < t2 /\ (s < c.func \/ \E k \in DOMAIN G : s \in Registers(G[k]))
      BY <3>1, <1>22
    <3>4. s >= c.func => ~(s < c.func)
      BY <3>3, <1>2
    <3> QED BY <3>2, <3>3, <3>4 DEF c
  <2> QED BY <2>1 DEF StillWait
<1>24. StillOpen(C, G, B, n, U, U)
  <2>1. ASSUME NEW s \in U
        PROVE  s >= C[n].func => \E k \in DOMAIN G : s \in Registers(G[k])
    <3>1. s \in Nat /\ (s < c.func \/ \E k \in DOMAIN G : s \in Registers(G[k]))
      BY <1>22
    <3>2. s >= c.func => ~(s < c.func)
      BY <3>1, <1>2
    <3> QED BY <3>1, <3>2 DEF c
  <2>2. B[n].at = "run"
    BY <1>12
  <2> QED BY <2>1, <2>2 DEF StillOpen
<1>25. Placed(G, B, t2, D, U)
  BY <1>1, <1>10, <1>11, <1>12, <1>18, <1>19, <1>20, <1>21, <1>23, <1>24, Continues, Zenon
<1> QED BY <1>25, <1>7 DEF G, B, H

(* The activation below the last one, when the host did not call the last. *)
LEMMA BelowLast ==
    ASSUME NEW F, NEW C, NEW t, NEW D, NEW U, Placed(F, C, t, D, U),
           C # <<>>, Last(C).by # "host"
    PROVE  LET c == Last(C)
               b == C[Len(C) - 1]
           IN  /\ Len(C) - 1 \in DOMAIN C /\ Len(C) - 1 \in Nat \ {0} /\ Front(C) # <<>>
               /\ Last(Front(C)) = b /\ b \in Activations
               /\ b.func \in Nat /\ b.func < c.func /\ b.depth <= c.depth /\ b.depth \in 1..Len(F)
               /\ b.from + b.n <= c.func
               /\ Busy(F, b, c.depth)
               /\ b.at # "run" => \A s \in U : s < b.level \/ c.func <= s
               /\ c.depth \in 1..Len(F)
               /\ c.by = "pcall" =>
                     /\ F[c.depth].kind = "fp" /\ c.func = Base(F[c.depth])
                     /\ b.at = "run" /\ b.depth + 1 < c.depth
<1> DEFINE n == Len(C)
           m == n - 1
           c == C[n]
           b == C[m]
<1>1. /\ F \in Seq(Frames) /\ C \in Seq(Activations) /\ FramesStacked(F) /\ CallsStacked(F, C)
      /\ Captured(F, C, U)
  BY DEF Placed
<1>2. /\ n \in Nat \ {0} /\ DOMAIN C = 1..n /\ n \in DOMAIN C /\ Last(C) = c
      /\ Situated(F, C, n) /\ c.depth \in 1..Len(F)
  BY LastCall
<1>3. n # 1
  BY <1>2 DEF Situated
<1>4. m \in DOMAIN C /\ m \in Nat \ {0} /\ m < n /\ m + 1 = n
  BY <1>2, <1>3
<1>5. Front(C) # <<>> /\ Last(Front(C)) = b
  <2>1. /\ Front(C) \in Seq(Activations) /\ Len(Front(C)) = m
        /\ \A i \in 1..m : Front(C)[i] = C[i]
    BY <1>1, FrontCall
  <2>2. m \in 1..m
    BY <1>4
  <2> HIDE DEF m
  <2> QED BY <2>1, <2>2, <1>4, EmptySeq DEF Last
<1> HIDE DEF n, m
<1>6. /\ b \in Activations /\ Situated(F, C, m) /\ b.depth \in 1..Len(F)
      /\ b.depth <= c.depth /\ b.func < c.func /\ b.from + b.n <= c.func
  BY <1>1, <1>2, <1>4, CallsFacts
<1>7. b.func \in Nat
  BY <1>6, ActivationFields
<1>8. DepthAt(F, C, m) = c.depth
  BY <1>4 DEF DepthAt, n
<1>9. Busy(F, b, c.depth)
  BY <1>6, <1>8 DEF Situated
<1>10. b.at # "run" => \A s \in U : s < b.level \/ c.func <= s
  BY <1>1, <1>4 DEF Captured, n
<1>11. c.by = "pcall" =>
          /\ F[c.depth].kind = "fp" /\ c.func = Base(F[c.depth])
          /\ b.at = "run" /\ b.depth + 1 < c.depth
  BY <1>2, <1>4 DEF Situated, m
<1> QED BY <1>2, <1>4, <1>5, <1>6, <1>7, <1>9, <1>10, <1>11 DEF n, m

(* What lies below a function that is over is found from the one below.    *)
LEMMA LowerPart ==
    ASSUME NEW F, NEW C, NEW t, NEW D, NEW U, Placed(F, C, t, D, U),
           C # <<>>, Last(C).by # "host", NEW s \in D \cup U, s < Last(C).func
    PROVE  LET c == Last(C)
               b == C[Len(C) - 1]
           IN  /\ s \in Nat
               /\ \/ s < b.func
                  \/ \E k \in DOMAIN F : k <= c.depth /\ s \in Registers(F[k])
                  \/ s \in D /\ b.at = "unwind"
<1> DEFINE n == Len(C)
           m == n - 1
           c == C[n]
           b == C[m]
<1>1. /\ F \in Seq(Frames) /\ C \in Seq(Activations) /\ FramesStacked(F) /\ CallsStacked(F, C)
      /\ D \in SUBSET Nat /\ U \in SUBSET Nat /\ Waiting(F, C, t, D) /\ Captured(F, C, U)
  BY DEF Placed
<1>2. /\ n \in Nat \ {0} /\ DOMAIN C = 1..n /\ n \in DOMAIN C /\ Last(C) = c
      /\ c.depth \in 1..Len(F) /\ c.func \in Nat
      /\ \A k \in DOMAIN F : k > c.depth => c.func <= Origin(F[k])
  BY LastCall
<1>3. m \in DOMAIN C /\ b.func \in Nat /\ s \in Nat /\ s < c.func
  BY <1>1, <1>2, BelowLast
<1>4. ASSUME NEW k \in DOMAIN F, s \in Registers(F[k])
      PROVE  k <= c.depth
  <2>1. F[k] \in Frames /\ k \in Nat /\ c.depth \in Nat
    BY <1>1, <1>2, StackedFacts
  <2>2. Origin(F[k]) < s /\ Origin(F[k]) \in Int
    BY <2>1, <1>4, RegisterBounds, FrameBounds
  <2>3. k > c.depth => c.func <= Origin(F[k])
    BY <1>2
  <2> HIDE DEF c
  <2> QED BY <2>1, <2>2, <2>3, <1>2, <1>3
<1> HIDE DEF c, b
<1>5. CASE \E k \in DOMAIN F : s \in Registers(F[k])
  BY <1>2, <1>3, <1>4, <1>5 DEF b, m, n
<1>6. CASE s \in D /\ \E i \in DOMAIN C : C[i].at = "unwind" /\ C[i].func <= s /\ s < EndAt(C, t, i)
  <2>1. PICK i \in DOMAIN C : C[i].at = "unwind" /\ C[i].func <= s /\ s < EndAt(C, t, i)
    BY <1>6
  <2>2. i # n
    BY <2>1, <1>2, <1>3 DEF c
  <2>3. CASE i = m
    BY <2>1, <2>3, <1>2, <1>3, <1>6 DEF b, m, n
  <2>4. CASE i < m
    <3>1. i + 1 \in DOMAIN C /\ (i + 1 = m \/ i + 1 < m) /\ i < n
      BY <2>4, <1>2, <1>3
    <3>2. s < C[i + 1].func /\ C[i + 1].func \in Nat
      BY <2>1, <3>1, <1>1, CallsFacts, ActivationFields DEF EndAt
    <3>3. C[i + 1].func <= b.func
      BY <3>1, <3>2, <1>1, <1>3, CallsFacts DEF b
    <3>4. s < b.func
      BY <3>2, <3>3, <1>3
    <3> QED BY <3>4, <1>2, <1>3 DEF b, m, n
  <2> QED BY <2>2, <2>3, <2>4, <1>2, <1>3
<1> QED BY <1>1, <1>5, <1>6 DEF Captured, Waiting

(* A call is over: the frames are those of the activation below.           *)
LEMMA Popped ==
    ASSUME NEW F, NEW C, NEW t, NEW D, NEW U, Placed(F, C, t, D, U),
           C # <<>>, Last(C).by # "host",
           NEW G \in Seq(Frames), FramesStacked(G), Len(G) <= Last(C).depth,
           Last(C).by = "pcall" => Len(G) < Last(C).depth,
           \A k \in 1..Len(G) : /\ Registers(G[k]) = Registers(F[k]) /\ Origin(G[k]) = Origin(F[k])
                                /\ G[k].kind = F[k].kind
                                /\ k <= C[Len(C) - 1].depth => G[k] = F[k],
           \A k \in DOMAIN F : Len(G) < k /\ k <= Last(C).depth => Registers(F[k]) = {},
           Busy(G, C[Len(C) - 1], Len(G)), C[Len(C) - 1].depth <= Len(G),
           NEW t2 \in Nat, TopAbove(G, Front(C), t2),
           \A s \in D \cup U : s < Last(C).func /\ s < t2
    PROVE  Placed(G, Front(C), t2, D, U)
<1> DEFINE n == Len(C)
           m == n - 1
           c == Last(C)
           b == C[m]
           B == Front(C)
<1>1. /\ F \in Seq(Frames) /\ C \in Seq(Activations) /\ FramesStacked(F) /\ CallsStacked(F, C)
      /\ D \in SUBSET Nat /\ U \in SUBSET Nat /\ Waiting(F, C, t, D)
  BY DEF Placed
<1>2. /\ m \in DOMAIN C /\ m \in Nat \ {0} /\ B # <<>> /\ Last(B) = b /\ b \in Activations
      /\ b.func \in Nat /\ b.func < c.func /\ b.depth <= c.depth /\ b.depth \in 1..Len(F)
      /\ b.at # "run" => \A s \in U : s < b.level \/ c.func <= s
      /\ c.depth \in 1..Len(F)
  BY BelowLast
<1>3. /\ c.func \in Nat /\ c = C[n] /\ n \in Nat \ {0} /\ DOMAIN C = 1..n
      /\ DOMAIN F = 1..Len(F) /\ Len(F) \in Nat
  BY <1>1, LastCall
<1>4. Len(G) \in Nat /\ DOMAIN G = 1..Len(G)
  BY StackedFacts
<1>5. B \in Seq(Activations) /\ Len(B) = m /\ \A i \in 1..m : B[i] = C[i]
  BY <1>1, FrontCall
<1>6. \A k \in DOMAIN G : /\ k \in DOMAIN F /\ k <= c.depth /\ k \in Nat
                          /\ Registers(G[k]) = Registers(F[k]) /\ Origin(G[k]) = Origin(F[k])
                          /\ G[k].kind = F[k].kind
                          /\ k <= b.depth => G[k] = F[k]
  BY <1>2, <1>3, <1>4
<1>7. \A s \in D \cup U : s \in Nat /\ s < c.func /\ s < t2
  BY <1>1
<1>8. \A k \in DOMAIN F : k <= c.depth => k \in DOMAIN G \/ Registers(F[k]) = {}
  BY <1>3, <1>4
<1>9. Busy(G, b, Len(G)) /\ (c.by = "pcall" => Len(G) < c.depth) /\ TopAbove(G, B, t2) /\ b.depth <= Len(G)
  OBVIOUS
<1> HIDE DEF B, c
<1>10. B[m] = b
  <2>1. m \in 1..m
    BY <1>2
  <2> HIDE DEF m, n
  <2> QED BY <2>1, <1>5
<1> HIDE DEF m, n, b
<1>11. Resumes(F, C, G, B, m)
  <2>1. \A i \in 1..m - 1 : i \in 1..m
    BY <1>2
  <2>2. \A k \in 1..b.depth : k \in DOMAIN G /\ k <= b.depth
    BY <1>2, <1>4, <1>9
  <2> QED BY <2>1, <2>2, <1>2, <1>5, <1>6, <1>9, <1>10 DEF Resumes, b
<1>12. OwnAbove(C, G, m)
  <2>1. SUFFICES ASSUME NEW k \in DOMAIN G, k > b.depth
                 PROVE  b.func <= Origin(G[k]) /\ G[k].kind # "fp"
    BY DEF OwnAbove, b
  <2>2. k \in DOMAIN F /\ ~(k <= b.depth) /\ k <= c.depth /\ k \in Nat
    BY <2>1, <1>2, <1>6
  <2>3. b.func <= Origin(F[k])
    BY <2>2, <1>1, <1>2, CallsFacts DEF Situated, b
  <2>4. F[k].kind # "fp"
    <3>1. SUFFICES ASSUME F[k].kind = "fp" PROVE FALSE
      OBVIOUS
    <3>2. PICK i \in DOMAIN C : C[i].by = "pcall" /\ C[i].depth = k
      BY <3>1, <2>2, <1>1 DEF CallsStacked
    <3>3. CASE i = n
      <4>1. c.by = "pcall" /\ c.depth = k
        BY <3>2, <3>3, <1>3
      <4> QED BY <4>1, <1>4, <1>9
    <3>4. CASE i = m
      BY <3>2, <3>4, <2>2 DEF b
    <3>5. CASE i < m
      <4>1. C[i].depth <= b.depth
        BY <3>5, <1>1, <1>2, CallsFacts DEF b
      <4> QED BY <3>2, <4>1, <2>2
    <3> QED BY <3>3, <3>4, <3>5, <1>3 DEF m
  <2> QED BY <2>2, <2>3, <2>4, <1>6
<1>13. ASSUME NEW s \in D \cup U
       PROVE  \/ s < b.func
              \/ \E k \in DOMAIN G : s \in Registers(G[k])
              \/ s \in D /\ b.at = "unwind"
  <2>1. s < Last(C).func
    BY <1>7 DEF c
  <2>2. \/ s < b.func
        \/ \E k \in DOMAIN F : k <= c.depth /\ s \in Registers(F[k])
        \/ s \in D /\ b.at = "unwind"
    BY <2>1, LowerPart DEF c, b, m, n
  <2> QED BY <2>2, <1>6, <1>8
<1>14. StillWait(C, G, B, m, t2, D, D)
  <2>1. ASSUME NEW s \in D
        PROVE  /\ 0 < s /\ s < t2
               /\ s >= b.func => \/ b.at = "unwind"
                                 \/ \E k \in DOMAIN G : s \in Registers(G[k])
    <3>1. s \in D \cup U /\ s \in Nat /\ s < t2
      BY <1>7
    <3>2. 0 < s
      BY <1>1 DEF Waiting
    <3>3. s >= b.func => ~(s < b.func)
      BY <3>1, <1>2
    <3> QED BY <3>1, <3>2, <3>3, <1>13
  <2> QED BY <2>1, <1>10 DEF StillWait, b
<1>15. StillOpen(C, G, B, m, U, U)
  <2>1. ASSUME NEW s \in U
        PROVE  /\ s >= b.func => \E k \in DOMAIN G : s \in Registers(G[k])
               /\ b.at # "run" => s < b.level
    <3>1. s \in D \cup U /\ s \in Nat /\ s < c.func
      BY <1>7
    <3>2. b.at # "run" => s < b.level
      BY <3>1, <1>2, <1>3
    <3>3. b.at = "unwind" => b.level = b.func
      BY <1>9 DEF Busy
    <3>4. s >= b.func => ~(s < b.func)
      BY <3>1, <1>2
    <3> QED BY <3>1, <3>2, <3>3, <3>4, <1>13
  <2> QED BY <2>1, <1>10 DEF StillOpen, b
<1>16. Busy(G, B[m], Len(G))
  BY <1>9, <1>10
<1>17. Placed(G, B, t2, D, U)
  BY <1>1, <1>5, <1>9, <1>11, <1>12, <1>14, <1>15, <1>16, Continues, Zenon
<1> QED BY <1>17 DEF B

(* A metamethod or a closing method is over.                               *)
LEMMA ReturnsToCaller ==
    ASSUME NEW F, NEW C, NEW t, NEW D, NEW U, Placed(F, C, t, D, U),
           C # <<>>, Last(C).by \in {"op", "closer"},
           \A s \in D \cup U : s < Last(C).func
    PROVE  Placed(SubSeq(F, 1, Last(C).depth), Front(C), Last(C).func, D, U)
<1> DEFINE c == Last(C)
           b == C[Len(C) - 1]
           G == SubSeq(F, 1, c.depth)
<1>1. /\ F \in Seq(Frames) /\ FramesStacked(F)
  BY DEF Placed
<1>2. c.by # "host" /\ c.by # "pcall"
  OBVIOUS
<1>3. /\ Front(C) # <<>> /\ Last(Front(C)) = b /\ b \in Activations
      /\ b.func \in Nat /\ b.func < c.func /\ b.depth <= c.depth /\ b.depth \in 1..Len(F)
      /\ b.from + b.n <= c.func
      /\ Busy(F, b, c.depth)
      /\ c.depth \in 1..Len(F)
  BY <1>2, BelowLast
<1>4. /\ G \in Seq(Frames) /\ FramesStacked(G) /\ Len(G) = c.depth
      /\ Last(G) = F[c.depth]
      /\ \A k \in 1..c.depth : k \in DOMAIN F /\ G[k] = F[k]
  BY <1>1, <1>3, CutStacked
<1>5. /\ c.func \in Nat /\ F[c.depth] \in Frames /\ c.depth \in Nat /\ DOMAIN F = 1..Len(F)
      /\ Next1(F[c.depth]) <= c.func
  <2>1. c.depth \in DOMAIN F /\ c.depth <= c.depth
    BY <1>1, <1>3, StackedFacts
  <2> QED BY <2>1, <1>1, <1>3, LastCall, StackedFacts
<1>6. Base(F[c.depth]) <= c.func /\ Next1(F[c.depth]) <= c.func
  BY <1>5, FrameBounds
<1> HIDE DEF G, b, c
<1>7. TopAbove(G, Front(C), c.func)
  BY <1>3, <1>4, <1>5, <1>6 DEF TopAbove
<1>8. Busy(G, b, Len(G))
  <2>1. c.depth \in 1..c.depth
    BY <1>3, <1>5
  <2>2. G[c.depth] = F[c.depth]
    BY <2>1, <1>4
  <2> QED BY <2>2, <1>3, <1>4 DEF Busy
<1>9. ASSUME NEW k \in 1..Len(G)
      PROVE  /\ Registers(G[k]) = Registers(F[k]) /\ Origin(G[k]) = Origin(F[k])
             /\ G[k].kind = F[k].kind
             /\ k <= b.depth => G[k] = F[k]
  BY <1>4
<1>10. \A k \in DOMAIN F : ~(Len(G) < k /\ k <= c.depth)
  BY <1>4, <1>5
<1>11. Len(G) <= c.depth /\ (c.by = "pcall" => Len(G) < c.depth) /\ b.depth <= Len(G)
  BY <1>2, <1>3, <1>4, <1>5
<1>12. \A s \in D \cup U : s < c.func
  BY DEF c
<1> QED BY <1>2, <1>4, <1>5, <1>7, <1>8, <1>9, <1>10, <1>11, <1>12, Popped DEF G, b, c

(* pcall is over.                                                          *)
LEMMA PcallReturns ==
    ASSUME NEW F, NEW C, NEW t, NEW D, NEW U, Placed(F, C, t, D, U),
           C # <<>>, Last(C).by = "pcall",
           \A s \in D \cup U : s < Last(C).func, NEW wanted,
           NEW t2 \in Nat, F[Last(C).depth].func <= t2
    PROVE  Placed(Resumed(SubSeq(F, 1, Last(C).depth - 1), wanted), Front(C), t2, D, U)
<1> DEFINE c == Last(C)
           b == C[Len(C) - 1]
           p == F[c.depth]
           m == c.depth - 1
           H == SubSeq(F, 1, m)
           v == IF wanted = -1 THEN "open" ELSE "any"
           g == [F[m] EXCEPT !.next = v]
           G == Replaced(H, g)
<1>1. /\ F \in Seq(Frames) /\ FramesStacked(F) /\ D \in SUBSET Nat /\ U \in SUBSET Nat
      /\ C \in Seq(Activations) /\ CallsStacked(F, C)
  BY DEF Placed
<1>2. c.by # "host" /\ c.by = "pcall"
  OBVIOUS
<1>3. /\ Front(C) # <<>> /\ Last(Front(C)) = b /\ b \in Activations /\ Len(C) - 1 \in DOMAIN C
      /\ b.func \in Nat /\ b.func < c.func /\ b.depth \in 1..Len(F)
      /\ Busy(F, b, c.depth)
      /\ c.depth \in 1..Len(F)
      /\ p.kind = "fp" /\ c.func = Base(p) /\ b.at = "run" /\ b.depth + 1 < c.depth
  BY <1>2, BelowLast
<1>4. /\ DOMAIN F = 1..Len(F) /\ Len(F) \in Nat /\ c.func \in Nat /\ c.depth \in Nat
      /\ \A k \in DOMAIN F : F[k] \in Frames /\ (k # 1 => FrameShape(F[k]))
      /\ \A k, l \in DOMAIN F : k < l => Next1(F[k]) <= Origin(F[l])
      /\ IsBase(F[1])
  BY <1>1, LastCall, StackedFacts
<1>5. /\ m \in 1..Len(F) /\ m \in DOMAIN F /\ m # 1 /\ m < c.depth /\ c.depth \in DOMAIN F /\ c.depth # 1
      /\ b.depth < m /\ b.depth \in Nat /\ m \in Nat \ {0} /\ m - 1 \in Nat
  BY <1>3, <1>4
<1>6. /\ p \in Frames /\ FrameShape(p) /\ F[m] \in Frames /\ FrameShape(F[m])
      /\ Next1(F[m]) <= Origin(p)
  BY <1>4, <1>5
<1>7. Origin(p) = p.func /\ c.func = p.func + 1 /\ Registers(p) = {} /\ p.func \in Nat
  <2>1. c.func = Base(p) /\ p.kind = "fp" /\ p \in Frames /\ FrameShape(p)
    BY <1>3, <1>6
  <2> HIDE DEF p, c
  <2>2. p.delta = 0 /\ p.func \in Nat
    BY <2>1, FrameBounds DEF FrameShape
  <2> QED BY <2>1, <2>2 DEF Origin, Base, Registers
<1>8. /\ H \in Seq(Frames) /\ FramesStacked(H) /\ Len(H) = m /\ Last(H) = F[m]
      /\ \A k \in 1..m : H[k] = F[k]
  BY <1>1, <1>5, CutStacked
<1>9. H # <<>>
  BY <1>8 DEF FramesStacked
<1>10. F[Last(C).depth].func <= t2
  OBVIOUS
<1> DEFINE h == F[m]
<1> HIDE DEF H, m, p, b, c, v, h
<1>11. /\ g \in Frames /\ FrameShape(g) /\ g.kind = h.kind
       /\ Origin(g) = Origin(h) /\ Base(g) = Base(h) /\ Next1(g) = Next1(h)
       /\ Registers(g) = Registers(h)
  <2>1. v \in {"any", "open"}
    BY DEF v
  <2>2. h \in Frames /\ FrameShape(h)
    BY <1>6 DEF h
  <2>3. [h EXCEPT !.next = v] = g
    BY DEF h
  <2> HIDE DEF g
  <2> QED BY <2>1, <2>2, <2>3, WithNext
<1>12. Resumed(H, wanted) = G
  BY <1>8 DEF Resumed, v
<1> HIDE DEF g
<1>13. /\ G \in Seq(Frames) /\ Len(G) = Len(H) /\ G[Len(H)] = g /\ Last(G) = g
       /\ \A k \in 1..Len(H) - 1 : G[k] = H[k]
  BY <1>8, <1>9, <1>11, ReplacedFrame, Zenon
<1>14. FramesStacked(G)
  <2>1. Origin(Last(H)) <= Origin(g) /\ Len(H) # 1
    BY <1>5, <1>6, <1>8, <1>11, FrameBounds DEF h
  <2> QED BY <2>1, <1>8, <1>11, ReplaceStacked
<1> HIDE DEF G
<1>15. ASSUME NEW k \in 1..m
       PROVE  /\ Registers(G[k]) = Registers(F[k]) /\ Origin(G[k]) = Origin(F[k])
              /\ G[k].kind = F[k].kind
              /\ k <= b.depth => G[k] = F[k]
  <2>1. CASE k = m
    <3>1. ~(k <= b.depth)
      BY <2>1, <1>5
    <3> QED BY <2>1, <3>1, <1>8, <1>11, <1>13 DEF h
  <2>2. CASE k \in 1..m - 1
    BY <2>2, <1>8, <1>13
  <2> QED BY <2>1, <2>2, <1>5
<1>16. \A k \in DOMAIN F : Len(G) < k /\ k <= c.depth => Registers(F[k]) = {}
  <2>1. ASSUME NEW k \in DOMAIN F, m < k, k <= c.depth PROVE k = c.depth
    BY <2>1, <1>4 DEF m
  <2> QED BY <2>1, <1>7, <1>8, <1>13 DEF p
<1>17. Busy(G, b, Len(G))
  <2>1. b.from = 0 /\ b.n = 0
    BY <1>3 DEF Busy
  <2> QED BY <2>1, <1>3, <1>5, <1>8, <1>13 DEF Busy
<1>18. Base(g) <= t2 /\ b.func < t2
  <2>1. Base(g) \in Nat /\ Next1(g) \in Nat /\ Base(g) <= Next1(g) /\ Next1(g) <= p.func
    BY <1>6, <1>7, <1>11, FrameBounds DEF h
  <2>2. p.func <= t2
    BY <1>10 DEF p, c
  <2>3. b.func < Base(g)
    <3>1. Origin(g) < Base(g) /\ Origin(g) \in Int
      BY <1>11, FrameBounds
    <3>2. ~(m <= b.depth)
      BY <1>5
    <3>3. b.func <= Origin(h)
      <4>1. Situated(F, C, Len(C) - 1) /\ m \in DOMAIN F
        BY <1>1, <1>3, <1>5, CallsFacts
      <4> QED BY <3>2, <4>1 DEF Situated, b, h
    <3>4. Origin(h) = Origin(g) /\ b.func \in Nat
      BY <1>3, <1>11
    <3> HIDE DEF g, h, b
    <3> QED BY <2>1, <3>1, <3>3, <3>4
  <2> QED BY <2>1, <2>2, <2>3, <1>3, <1>7
<1>19. TopAbove(G, Front(C), t2)
  BY <1>3, <1>13, <1>18 DEF TopAbove
<1>20. ASSUME NEW s \in D \cup U
       PROVE  s < c.func /\ s < t2
  <2>1. s < c.func /\ s \in Nat
    BY <1>1 DEF c
  <2>2. \/ s < b.func
        \/ \E k \in DOMAIN F : k <= c.depth /\ s \in Registers(F[k])
        \/ s \in D /\ b.at = "unwind"
    BY <1>2, LowerPart DEF c, b
  <2>3. CASE s < b.func
    BY <2>1, <2>3, <1>3, <1>18
  <2>4. CASE \E k \in DOMAIN F : k <= c.depth /\ s \in Registers(F[k])
    <3>1. PICK k \in DOMAIN F : k <= c.depth /\ s \in Registers(F[k])
      BY <2>4
    <3>2. k # c.depth
      BY <3>1, <1>7 DEF p
    <3>3. k < c.depth
      BY <3>1, <3>2, <1>4
    <3>4. Next1(F[k]) <= Origin(p) /\ F[k] \in Frames
      BY <3>3, <1>4, <1>5 DEF p
    <3>5. s < Next1(F[k]) /\ Next1(F[k]) \in Nat
      BY <3>1, <3>4, RegisterBounds, FrameBounds
    <3>6. p.func <= t2
      BY <1>10 DEF p, c
    <3> QED BY <3>4, <3>5, <3>6, <2>1, <1>7
  <2> QED BY <2>1, <2>2, <2>3, <2>4, <1>3
<1>21. Len(G) <= c.depth /\ (c.by = "pcall" => Len(G) < c.depth) /\ b.depth <= Len(G)
  BY <1>5, <1>8, <1>13
<1>22. \A k \in 1..Len(G) : /\ Registers(G[k]) = Registers(F[k]) /\ Origin(G[k]) = Origin(F[k])
                            /\ G[k].kind = F[k].kind
                            /\ k <= b.depth => G[k] = F[k]
  BY <1>8, <1>13, <1>15
<1>23. Placed(G, Front(C), t2, D, U)
  BY <1>2, <1>13, <1>14, <1>16, <1>17, <1>19, <1>20, <1>21, <1>22, Popped DEF b, c
<1> QED BY <1>12, <1>23 DEF G, H, m, c

(* The call of the host is over.                                           *)
LEMMA HostReturns ==
    ASSUME NEW F, NEW C, NEW t, NEW D, NEW U, Placed(F, C, t, D, U),
           C # <<>>, Last(C).by = "host",
           \A s \in D \cup U : s < Last(C).func,
           NEW G \in Seq(Frames), FramesStacked(G), Len(G) = 1, NEW t2 \in Nat, 0 < t2
    PROVE  Placed(G, <<>>, t2, D, U) /\ D = {} /\ U = {} /\ Len(C) = 1 /\ Last(C).depth = 1
<1> DEFINE n == Len(C)
           c == Last(C)
<1>1. /\ F \in Seq(Frames) /\ C \in Seq(Activations) /\ FramesStacked(F) /\ CallsStacked(F, C)
      /\ D \in SUBSET Nat /\ U \in SUBSET Nat /\ Waiting(F, C, t, D) /\ Captured(F, C, U)
  BY DEF Placed
<1>2. /\ DOMAIN C = 1..n /\ c = C[n] /\ Situated(F, C, n) /\ c.func \in Nat
      /\ \A k \in DOMAIN F : k > c.depth => c.func <= Origin(F[k])
      /\ DOMAIN F = 1..Len(F) /\ Len(F) \in Nat
      /\ \A k \in DOMAIN F : F[k] \in Frames
      /\ IsBase(F[1])
  BY <1>1, LastCall, StackedFacts
<1>3. n = 1 /\ c.depth = 1
  BY <1>2 DEF Situated
<1>4. Registers(F[1]) = {}
  BY <1>2, BaseFrame, 0 \in Nat
<1>5. ASSUME NEW s \in D \cup U, NEW k \in DOMAIN F, s \in Registers(F[k]) PROVE FALSE
  <2>1. k # 1 /\ k > 1
    BY <1>2, <1>4, <1>5
  <2>2. c.func <= Origin(F[k]) /\ Origin(F[k]) < s /\ Origin(F[k]) \in Int /\ s \in Nat
    BY <2>1, <1>2, <1>3, <1>5, RegisterBounds, FrameBounds
  <2>3. s < c.func
    OBVIOUS
  <2> HIDE DEF c
  <2> QED BY <2>2, <2>3, <1>2
<1>6. U = {}
  BY <1>1, <1>5 DEF Captured
<1>7. D = {}
  <2>1. SUFFICES ASSUME NEW s \in D PROVE FALSE
    OBVIOUS
  <2>2. PICK i \in DOMAIN C : C[i].func <= s
    BY <1>1, <1>5 DEF Waiting
  <2>3. i = n /\ s < c.func /\ s \in Nat
    BY <1>1, <1>2, <1>3
  <2> QED BY <2>2, <2>3, <1>2
<1>8. Len(<<>>) = 0 /\ DOMAIN <<>> = {}
  OBVIOUS
<1>9. \A k \in DOMAIN G : G[k].kind # "fp"
  <2>1. DOMAIN G = 1..1 /\ IsBase(G[1])
    BY StackedFacts
  <2> QED BY <2>1 DEF IsBase
<1>10. CallsStacked(G, <<>>)
  BY <1>8, <1>9 DEF CallsStacked
<1>11. TopAbove(G, <<>>, t2) /\ Waiting(G, <<>>, t2, {}) /\ Captured(G, <<>>, {})
  BY <1>8 DEF TopAbove, Waiting, Captured
<1>12. <<>> \in Seq(Activations)
  OBVIOUS
<1> QED BY <1>3, <1>6, <1>7, <1>10, <1>11, <1>12 DEF Placed

(* A call out of the last activation, above everything in use.             *)
LEMMA CallsOut ==
    ASSUME NEW F, NEW C, NEW t, NEW D, NEW U, Placed(F, C, t, D, U), C # <<>>,
           NEW G \in Seq(Frames), FramesStacked(G), NEW c \in Activations,
           Len(F) <= c.depth, c.depth <= Len(G), \A k \in 1..Len(F) : G[k] = F[k],
           Last(C).func < c.func, Last(C).from + Last(C).n <= c.func,
           Next1(G[c.depth]) <= c.func,
           \A k \in DOMAIN G : k > c.depth => c.func <= Origin(G[k]) /\ G[k].kind # "fp",
           \/ c.by \in {"op", "closer"} /\ c.depth = Len(F)
           \/ /\ c.by = "pcall" /\ c.depth = Len(F) + 1
              /\ G[c.depth].kind = "fp" /\ c.func = Base(G[c.depth]) /\ Last(C).at = "run",
           c.at \in {"run", "unwind"}, Busy(G, c, Len(G)),
           NEW t2 \in Nat, TopAbove(G, Append(C, c), t2), NEW E \in SUBSET D,
           \A s \in D \cup U : s < c.func
    PROVE  Placed(G, Append(C, c), t2, E, U)
<1> DEFINE n == Len(C)
           B == Append(C, c)
<1>1. /\ F \in Seq(Frames) /\ C \in Seq(Activations) /\ FramesStacked(F) /\ CallsStacked(F, C)
      /\ D \in SUBSET Nat /\ U \in SUBSET Nat /\ Waiting(F, C, t, D) /\ Captured(F, C, U)
  BY DEF Placed
<1>2. CallsStacked(G, B)
  BY <1>1, Called
<1>3. /\ B \in Seq(Activations) /\ Len(B) = n + 1 /\ DOMAIN B = 1..n + 1
      /\ \A i \in 1..n : B[i] = C[i]
      /\ B[n + 1] = c
      /\ n \in Nat \ {0} /\ DOMAIN C = 1..n
  BY <1>1, LastCall, Appended
<1>4. \A k \in DOMAIN F : k \in DOMAIN G /\ G[k] = F[k]
  <2>1. /\ DOMAIN F = 1..Len(F) /\ DOMAIN G = 1..Len(G) /\ Len(F) \in Nat /\ Len(G) \in Nat
        /\ c.depth \in Nat
    BY <1>1, StackedFacts, ActivationFields
  <2> QED BY <2>1
<1>5. c.func \in Nat /\ (c.at = "unwind" => c.level = c.func) /\ \A s \in D \cup U : s \in Nat /\ s < c.func
  BY <1>1, ActivationFields DEF Busy
<1>6. TopAbove(G, B, t2)
  OBVIOUS
<1>7. c.func < t2
  <2>1. B # <<>> /\ Last(B) = c
    BY <1>1, Appended
  <2> HIDE DEF B
  <2> QED BY <2>1, <1>6 DEF TopAbove
<1> HIDE DEF B, n
<1>8. Waiting(G, B, t2, E)
  <2>1. SUFFICES ASSUME NEW s \in E
                 PROVE  /\ 0 < s /\ s < t2
                        /\ \/ \E k \in DOMAIN G : s \in Registers(G[k])
                           \/ \E i \in DOMAIN B :
                                 B[i].at = "unwind" /\ B[i].func <= s /\ s < EndAt(B, t2, i)
    BY DEF Waiting
  <2>2. 0 < s /\ s < t2 /\ s < c.func /\ s \in Nat
    BY <1>1, <1>5, <1>7 DEF Waiting
  <2>3. CASE \E k \in DOMAIN F : s \in Registers(F[k])
    BY <2>2, <2>3, <1>4
  <2>4. CASE \E i \in DOMAIN C : C[i].at = "unwind" /\ C[i].func <= s /\ s < EndAt(C, t, i)
    <3>1. PICK i \in DOMAIN C : C[i].at = "unwind" /\ C[i].func <= s /\ s < EndAt(C, t, i)
      BY <2>4
    <3>2. i \in DOMAIN B /\ B[i] = C[i] /\ i < Len(B) /\ i + 1 \in 1..n + 1
      BY <1>3
    <3>3. EndAt(B, t2, i) = B[i + 1].func
      BY <3>2 DEF EndAt
    <3>4. CASE i = n
      BY <2>2, <3>1, <3>2, <3>3, <3>4, <1>3
    <3>5. CASE i < n
      <4>1. i + 1 \in 1..n
        BY <3>5, <1>3
      <4>2. EndAt(C, t, i) = B[i + 1].func
        BY <3>5, <4>1, <1>3 DEF EndAt, n
      <4> QED BY <2>2, <3>1, <3>2, <3>3, <4>2
    <3> QED BY <3>4, <3>5, <1>3
  <2> QED BY <2>3, <2>4, <1>1 DEF Waiting
<1>9. Captured(G, B, U)
  <2>1. \A s \in U : \E k \in DOMAIN G : s \in Registers(G[k])
    BY <1>1, <1>4 DEF Captured
  <2>2. ASSUME NEW i \in DOMAIN B, B[i].at # "run", NEW s \in U
        PROVE  s < B[i].level \/ (i < Len(B) /\ B[i + 1].func <= s)
    <3>1. CASE i = n + 1
      BY <2>2, <3>1, <1>3, <1>5
    <3>2. CASE i \in 1..n
      <4>1. i \in DOMAIN C /\ B[i] = C[i] /\ i < Len(B)
        BY <3>2, <1>3
      <4>2. s < C[i].level \/ (i < n /\ C[i + 1].func <= s)
        BY <2>2, <4>1, <1>1 DEF Captured, n
      <4>3. i < n => B[i + 1] = C[i + 1]
        <5>1. i < n => i + 1 \in 1..n
          BY <3>2, <1>3
        <5> QED BY <5>1, <1>3
      <4> QED BY <4>1, <4>2, <4>3
    <3> QED BY <3>1, <3>2, <1>3
  <2> QED BY <2>1, <2>2 DEF Captured
<1>10. E \in SUBSET Nat
  BY <1>1
<1>11. Placed(G, B, t2, E, U)
  BY <1>1, <1>2, <1>3, <1>6, <1>8, <1>9, <1>10 DEF Placed
<1> QED BY <1>11 DEF B

(* luaD_call of a Lua function, which finds room for its frame or not.     *)
Called1(H, C, func, wanted, by, t, D, U) ==
    LET c == Fresh(func, wanted, by, Len(H))
    IN  /\ Placed(Append(H, Frame("lua", func, func + 1 + FrameSize, wanted, "any")),
                  Append(C, c), t, D, U)
        /\ Placed(H, Append(C, Unwinding(c)), t, D, U)

(* A call from above the last frame and everything in use adds an          *)
(* activation, or unwinds the caller, or enters a Lua function; all of it  *)
(* is in place.                                                            *)
LEMMA Precalled ==
    ASSUME NEW F, NEW C, NEW t, NEW D, NEW U, Placed(F, C, t, D, U), C # <<>>,
           NEW H \in Seq(Frames), FramesStacked(H), Len(F) <= Len(H), \A k \in 1..Len(F) : H[k] = F[k],
           NEW func \in Nat, NEW wanted \in {-1, 0, 1}, NEW by \in {"op", "pcall", "closer"},
           Next1(Last(H)) <= func, Last(C).func < func, Last(C).from + Last(C).n <= func,
           \/ by \in {"op", "closer"} /\ Len(H) = Len(F)
           \/ /\ by = "pcall" /\ Len(H) = Len(F) + 1
              /\ Last(H).kind = "fp" /\ func = Base(Last(H)) /\ Last(C).at = "run",
           NEW t2 \in Nat, func < t2, NEW E \in SUBSET D, \A s \in D \cup U : s < func
    PROVE  Called1(H, C, func, wanted, by, t2, E, U)
<1> DEFINE c == Fresh(func, wanted, by, Len(H))
           u == Unwinding(c)
           g == Frame("lua", func, func + 1 + FrameSize, wanted, "any")
           G == Append(H, g)
<1>1. /\ F \in Seq(Frames) /\ C \in Seq(Activations) /\ FramesStacked(F)
  BY DEF Placed
<1>2. /\ Len(H) \in Nat \ {0} /\ DOMAIN H = 1..Len(H) /\ Last(H) = H[Len(H)] /\ Len(H) \in DOMAIN H
      /\ Last(H) \in Frames
      /\ Len(F) \in Nat \ {0} /\ DOMAIN F = 1..Len(F)
  BY <1>1, StackedFacts
<1>3. Last(C).func \in Nat
  BY LastCall
<1>4. func \in Nat \ {0}
  <2> DEFINE x == Last(C).func
  <2>1. x \in Nat /\ x < func
    BY <1>3
  <2> HIDE DEF x
  <2> QED BY <2>1
<1>5. /\ g \in Frames /\ FrameShape(g) /\ g.kind = "lua" /\ Origin(g) = func /\ Base(g) = func + 1
  <2>1. "any" \in {"any", "prep", "open"}
    OBVIOUS
  <2>2. IsLua(Frame("lua", func, func + 1 + FrameSize, wanted, "any"), func)
    BY <1>4, <2>1, NewLua
  <2> QED BY <2>2 DEF IsLua
<1>6. /\ c \in Activations /\ c.func = func /\ c.depth = Len(H) /\ c.by = by
      /\ c.at = "run" /\ c.from = 0 /\ c.n = 0
  <2>1. Len(H) \in Nat /\ by \in {"host", "op", "pcall", "closer"}
    BY <1>2
  <2>2. IsFresh(Fresh(func, wanted, by, Len(H)), func, by, Len(H))
    BY <2>1, NewActivation
  <2> QED BY <2>2 DEF IsFresh
<1> HIDE DEF c, g
<1>7. /\ u \in Activations /\ u.func = func /\ u.depth = Len(H) /\ u.by = by
      /\ u.at = "unwind" /\ u.level = func /\ u.from = 0 /\ u.n = 0
  BY <1>6, UnwindingFields
<1> HIDE DEF u
<1>8. /\ G \in Seq(Frames) /\ DOMAIN G = 1..Len(H) + 1 /\ Len(G) = Len(H) + 1 /\ Last(G) = g
      /\ \A k \in 1..Len(H) : G[k] = H[k]
      /\ G[Len(H) + 1] = g
  BY <1>5, Appended
<1>9. FramesStacked(G)
  BY <1>5, PushStacked
<1> HIDE DEF G
<1>10. /\ Append(C, c) # <<>> /\ Last(Append(C, c)) = c
       /\ Append(C, u) # <<>> /\ Last(Append(C, u)) = u
  BY <1>1, <1>6, <1>7, Appended
<1>11. TopAbove(G, Append(C, c), t2) /\ TopAbove(H, Append(C, u), t2)
  <2>1. func + 1 <= t2 /\ 0 < t2 /\ func < t2
    OBVIOUS
  <2>2. TopAbove(G, Append(C, c), t2)
    BY <2>1, <1>5, <1>6, <1>8, <1>10 DEF TopAbove
  <2>3. TopAbove(H, Append(C, u), t2)
    BY <2>1, <1>7, <1>10 DEF TopAbove
  <2> QED BY <2>2, <2>3
<1>12. Busy(G, c, Len(G)) /\ Busy(H, u, Len(H))
  <2> DEFINE x == Len(H)  y == Len(G)
  <2>0. x \in Nat /\ y = x + 1
    BY <1>2, <1>8
  <2>1. y > x
    <3> HIDE DEF x, y
    <3> QED BY <2>0
  <2> QED BY <2>1, <1>6, <1>7, <1>8 DEF Busy
<1> DEFINE N == Len(H)  M == Len(F)  l == Last(C)
<1>13. /\ N \in Nat \ {0} /\ M \in Nat \ {0} /\ M <= N /\ Next1(H[N]) <= func
       /\ \/ by \in {"op", "closer"} /\ N = M
          \/ /\ by = "pcall" /\ N = M + 1
             /\ H[N].kind = "fp" /\ func = Base(H[N]) /\ l.at = "run"
       /\ l.func < func /\ l.from + l.n <= func
       /\ DOMAIN H = 1..N /\ N \in 1..N
  BY <1>2
<1> HIDE DEF N, M, l
<1>14. Placed(H, Append(C, u), t2, E, U)
  <2>1. /\ M <= u.depth /\ u.depth <= N /\ l.func < u.func
        /\ l.from + l.n <= u.func
        /\ Next1(H[u.depth]) <= u.func
        /\ u.at \in {"run", "unwind"}
    <3>1. u.depth = N /\ u.func = func /\ u.at = "unwind"
      BY <1>7 DEF N
    <3>2. N <= N
      BY <1>13
    <3> QED BY <3>1, <3>2, <1>13
  <2>2. \/ u.by \in {"op", "closer"} /\ u.depth = M
        \/ /\ u.by = "pcall" /\ u.depth = M + 1
           /\ H[u.depth].kind = "fp" /\ u.func = Base(H[u.depth]) /\ l.at = "run"
    BY <1>7, <1>13 DEF N
  <2>3. \A k \in DOMAIN H : k > u.depth => u.func <= Origin(H[k]) /\ H[k].kind # "fp"
    <3>1. \A k \in 1..N : ~(k > N)
      BY <1>13
    <3>2. u.depth = N
      BY <1>7 DEF N
    <3> QED BY <3>1, <3>2, <1>13
  <2>4. \A s \in D \cup U : s < u.func
    BY <1>7
  <2> QED BY <2>1, <2>2, <2>3, <2>4, <1>7, <1>11, <1>12, CallsOut DEF N, M, l
<1>15. Placed(G, Append(C, c), t2, E, U)
  <2>1. G[N] = H[N] /\ Len(G) = N + 1 /\ DOMAIN G = 1..N + 1 /\ G[N + 1] = g
        /\ \A k \in 1..N : G[k] = H[k]
    BY <1>8, <1>13 DEF N
  <2>2. c.depth = N
    BY <1>6 DEF N
  <2>3. /\ M <= c.depth /\ c.depth <= Len(G) /\ l.func < c.func
        /\ l.from + l.n <= c.func
        /\ Next1(G[c.depth]) <= c.func
        /\ c.at \in {"run", "unwind"}
    <3>1. c.func = func /\ c.at = "run" /\ N <= N + 1
      BY <1>6, <1>13
    <3> QED BY <2>1, <2>2, <3>1, <1>13
  <2>4. \/ c.by \in {"op", "closer"} /\ c.depth = M
        \/ /\ c.by = "pcall" /\ c.depth = M + 1
           /\ G[c.depth].kind = "fp" /\ c.func = Base(G[c.depth]) /\ l.at = "run"
    BY <2>1, <2>2, <1>6, <1>13
  <2>5. ASSUME NEW k \in DOMAIN G, k > c.depth
        PROVE  c.func <= Origin(G[k]) /\ G[k].kind # "fp"
    <3>1. k = N + 1
      BY <2>1, <2>2, <2>5, <1>13
    <3>2. Origin(g) = c.func /\ g.kind # "fp" /\ c.func \in Nat
      BY <1>5, <1>6
    <3> QED BY <3>1, <3>2, <2>1
  <2>6. \A k \in 1..M : G[k] = F[k]
    <3>1. \A k \in 1..M : k \in 1..N
      BY <1>13
    <3>2. \A k \in 1..M : H[k] = F[k]
      BY DEF M
    <3> QED BY <3>1, <3>2, <2>1
  <2>7. \A s \in D \cup U : s < c.func
    BY <1>6
  <2> QED BY <2>3, <2>4, <2>5, <2>6, <2>7, <1>6, <1>8, <1>9, <1>11, <1>12, CallsOut DEF M, l
<1> QED BY <1>14, <1>15 DEF Called1, c, u, g, G

(* The first call, on a thread at rest.                                    *)
LEMMA Started ==
    ASSUME NEW F, NEW t, NEW D, NEW U, Placed(F, <<>>, t, D, U),
           NEW H \in Seq(Frames), FramesStacked(H), Len(H) = 1,
           NEW func \in Nat \ {0}, NEW wanted \in {-1, 0, 1},
           NEW t2 \in Nat, func < t2
    PROVE  Called1(H, <<>>, func, wanted, "host", t2, D, U) /\ D = {} /\ U = {}
<1> DEFINE c == Fresh(func, wanted, "host", Len(H))
           u == Unwinding(c)
           g == Frame("lua", func, func + 1 + FrameSize, wanted, "any")
           G == Append(H, g)
<1>1. /\ F \in Seq(Frames) /\ FramesStacked(F) /\ CallsStacked(F, <<>>)
      /\ Waiting(F, <<>>, t, D) /\ Captured(F, <<>>, U)
  BY DEF Placed
<1>2. /\ IsBase(F[1]) /\ DOMAIN F = 1..Len(F) /\ Len(F) = 1
      /\ IsBase(H[1]) /\ DOMAIN H = 1..Len(H) /\ Last(H) = H[Len(H)]
  BY <1>1, StackedFacts DEF CallsStacked
<1>3. D = {} /\ U = {}
  <2>1. Registers(F[1]) = {}
    BY <1>2, BaseFrame, 0 \in Nat
  <2>2. \A k \in DOMAIN F : Registers(F[k]) = {}
    BY <2>1, <1>2
  <2>3. DOMAIN <<>> = {}
    OBVIOUS
  <2> QED BY <2>2, <2>3, <1>1 DEF Waiting, Captured
<1>4. Next1(H[1]) = 1 /\ H[1].kind # "fp"
  BY <1>2, BaseFrame, 0 \in Nat DEF IsBase
<1>5. /\ g \in Frames /\ FrameShape(g) /\ g.kind = "lua" /\ Origin(g) = func /\ Base(g) = func + 1
  <2>1. "any" \in {"any", "prep", "open"}
    OBVIOUS
  <2>2. IsLua(Frame("lua", func, func + 1 + FrameSize, wanted, "any"), func)
    BY <2>1, NewLua
  <2> QED BY <2>2 DEF IsLua
<1>6. /\ c \in Activations /\ c.func = func /\ c.depth = 1 /\ c.by = "host"
      /\ c.at = "run" /\ c.from = 0 /\ c.n = 0
  <2>1. Len(H) \in Nat /\ func \in Nat
    OBVIOUS
  <2>2. "host" \in {"host", "op", "pcall", "closer"}
    OBVIOUS
  <2>3. IsFresh(Fresh(func, wanted, "host", Len(H)), func, "host", Len(H))
    BY <2>1, <2>2, NewActivation
  <2> QED BY <2>3 DEF IsFresh
<1> HIDE DEF c, g
<1>7. /\ u \in Activations /\ u.func = func /\ u.depth = 1 /\ u.by = "host"
      /\ u.at = "unwind" /\ u.level = func /\ u.from = 0 /\ u.n = 0
  BY <1>6, UnwindingFields
<1> HIDE DEF u
<1>8. /\ G \in Seq(Frames) /\ DOMAIN G = 1..2 /\ Len(G) = 2 /\ Last(G) = g
      /\ G[1] = H[1] /\ G[2] = g
  <2>1. /\ G \in Seq(Frames) /\ DOMAIN G = 1..Len(H) + 1 /\ Len(G) = Len(H) + 1 /\ Last(G) = g
        /\ \A k \in 1..Len(H) : G[k] = H[k]
        /\ G[Len(H) + 1] = g
    BY <1>5, AppendedFrame, Zenon
  <2> HIDE DEF G
  <2> QED BY <2>1
<1>9. FramesStacked(G)
  <2>1. Next1(Last(H)) <= Origin(g)
    BY <1>2, <1>4, <1>5
  <2> QED BY <2>1, <1>5, PushStacked
<1> HIDE DEF G
<1>10. Busy(G, c, Len(G)) /\ Busy(H, u, Len(H))
  BY <1>6, <1>7, <1>8 DEF Busy
<1>11. CallsStacked(G, <<c>>)
  <2>1. \A k \in DOMAIN G : G[k].kind # "fp" /\ (k > 1 => c.func <= Origin(G[k]))
    BY <1>4, <1>5, <1>6, <1>8
  <2>2. 1 <= c.func
    BY <1>6
  <2> QED BY <2>1, <2>2, <1>6, <1>8, <1>9, <1>10, CalledFirst
<1>12. CallsStacked(H, <<u>>)
  <2>1. \A k \in DOMAIN H : H[k].kind # "fp" /\ (k > 1 => u.func <= Origin(H[k]))
    BY <1>2, <1>4
  <2>2. 1 <= u.func
    BY <1>7
  <2> QED BY <2>1, <2>2, <1>7, <1>10, CalledFirst
<1>13. /\ Append(<<>>, c) = <<c>> /\ Append(<<>>, u) = <<u>>
       /\ <<c>> \in Seq(Activations) /\ <<u>> \in Seq(Activations)
       /\ Last(<<c>>) = c /\ Last(<<u>>) = u /\ <<c>> # <<>> /\ <<u>> # <<>>
  BY <1>6, <1>7 DEF Last
<1>14. TopAbove(G, <<c>>, t2) /\ TopAbove(H, <<u>>, t2)
  <2>1. func + 1 <= t2 /\ 0 < t2
    OBVIOUS
  <2> QED BY <2>1, <1>5, <1>6, <1>7, <1>8, <1>13 DEF TopAbove
<1>15. /\ Waiting(G, <<c>>, t2, {}) /\ Waiting(H, <<u>>, t2, {})
       /\ Captured(G, <<c>>, {}) /\ Captured(H, <<u>>, {})
  BY DEF Waiting, Captured
<1>16. Placed(G, <<c>>, t2, {}, {}) /\ Placed(H, <<u>>, t2, {}, {})
  BY <1>8, <1>9, <1>11, <1>12, <1>13, <1>14, <1>15 DEF Placed
<1> QED BY <1>3, <1>13, <1>16 DEF Called1, c, u, g, G

-----------------------------------------------------------------------------
(* What is live.                                                           *)

(* Live slots are below whatever the frames, the results on their way and  *)
(* the variables that wait are below.                                      *)
LEMMA LiveParts ==
    ASSUME NEW H \in Seq(Frames), NEW B \in Seq(Activations), NEW b \in Int,
           declared \in SUBSET Nat,
           \A k \in DOMAIN H : Next1(H[k]) <= b,
           \A i \in DOMAIN B : (B[i].from = 0 /\ B[i].n = 0) \/ B[i].from + B[i].n <= b,
           \A s \in declared : s < b
    PROVE  \A s \in LiveIn(H, B) : s \in Int /\ s < b
<1>0. SUFFICES ASSUME NEW s \in LiveIn(H, B) PROVE s \in Int /\ s < b
  OBVIOUS
<1>1. ASSUME s \in declared PROVE s \in Int /\ s < b
  <2>1. s \in Nat
    BY <1>1, Zenon
  <2>2. s < b
    BY <1>1, Zenon
  <2> QED BY <2>1, <2>2
<1>2. CASE \E f \in Range(H) : s \in Registers(f) \cup Varargs(f)
  <2>1. PICK f \in Range(H) : s \in Registers(f) \cup Varargs(f)
    BY <1>2
  <2>2. PICK k \in DOMAIN H : H[k] = f
    BY <2>1 DEF Range
  <2>3. f \in Frames
    <3>1. DOMAIN H = 1..Len(H)
      BY LenProperties
    <3> QED BY <2>2, <3>1, ElementOfSeq
  <2>4. Next1(f) <= b
    BY <2>2
  <2>5. /\ Next1(f) \in Nat /\ f.func \in Nat /\ f.func < Base(f) /\ Base(f) <= Next1(f) /\ Base(f) \in Nat
        /\ Origin(f) \in Int
    BY <2>3, FrameBounds
  <2>6. CASE s \in Registers(f)
    <3>1. s \in Nat /\ s < Next1(f)
      BY <2>3, <2>6, RegisterBounds
    <3> QED BY <3>1, <2>4, <2>5
  <2>7. CASE s \in Varargs(f)
    <3>1. s \in Int /\ s < f.func
      BY <2>5, <2>7 DEF Varargs
    <3> DEFINE x == Next1(f)  y == Base(f)
    <3>2. x <= b /\ f.func < y /\ y <= x /\ x \in Nat /\ y \in Nat /\ f.func \in Nat
      BY <2>4, <2>5
    <3> HIDE DEF x, y
    <3> QED BY <3>1, <3>2
  <2> QED BY <2>1, <2>6, <2>7
<1>3. CASE \E c \in Range(B) : s \in c.from..c.from + c.n - 1
  <2>1. PICK c \in Range(B) : s \in c.from..c.from + c.n - 1
    BY <1>3
  <2>2. PICK i \in DOMAIN B : B[i] = c
    BY <2>1 DEF Range
  <2>3. c \in Activations
    <3>1. DOMAIN B = 1..Len(B)
      BY LenProperties
    <3> QED BY <2>2, <3>1, ElementOfSeq
  <2>4. c.from \in Nat /\ c.n \in Nat
    BY <2>3, ActivationFields
  <2>5. (c.from = 0 /\ c.n = 0) \/ c.from + c.n <= b
    BY <2>2
  <2> DEFINE x == c.from  y == c.n
  <2>6. /\ x \in Nat /\ y \in Nat /\ s \in x..x + y - 1
        /\ (x = 0 /\ y = 0) \/ x + y <= b
    BY <2>1, <2>4, <2>5
  <2> HIDE DEF x, y
  <2>7. s \in Int /\ x <= s /\ s <= x + y - 1
    BY <2>6
  <2>8. ~(x = 0 /\ y = 0)
    BY <2>6, <2>7
  <2>9. s < b
    BY <2>6, <2>7, <2>8
  <2> QED BY <2>7, <2>9
<1> QED BY <1>1, <1>2, <1>3 DEF LiveIn

(* Nothing live is written to.                                             *)
LEMMA Unharmed ==
    ASSUME lost = {}, NEW L, NEW S, NEW b \in Int, \A s \in L : s \in Int /\ s < b,
           \A s \in S : s \in Int /\ b <= s
    PROVE  lost \cup (S \cap L) = {}
<1>1. ASSUME NEW s \in S \cap L PROVE FALSE
  OBVIOUS
<1> QED BY <1>1

(* The part of UnwindInv that every step of a call keeps by itself         *)
Settled == Placed(ci, calls, top, declared, openupval) /\ lost = {}

(* In general                                                              *)
LEMMA InCall ==
    ASSUME Settled, calls # <<>>
    PROVE  /\ ci \in Seq(Frames) /\ FramesStacked(ci) /\ ci # <<>> /\ calls \in Seq(Activations)
           /\ CallsStacked(ci, calls)
           /\ declared \in SUBSET Nat /\ openupval \in SUBSET Nat /\ top \in Nat
           /\ Call \in Activations /\ Call = calls[Len(calls)] /\ Len(calls) \in DOMAIN calls
           /\ Now \in Frames /\ Now = ci[Len(ci)] /\ Len(ci) \in Nat \ {0} /\ DOMAIN ci = 1..Len(ci)
           /\ Next1(Now) \in Nat /\ Base(Now) \in Nat /\ Origin(Now) \in Int
           /\ Origin(Now) < Base(Now) /\ Base(Now) <= Next1(Now)
           /\ Call.func \in Nat /\ Call.func < top /\ Call.depth \in 1..Len(ci)
           /\ Busy(ci, Call, Len(ci)) /\ TopAbove(ci, calls, top)
           /\ \A k \in DOMAIN ci : Next1(ci[k]) <= Next1(Now)
           /\ \A s \in declared : 0 < s /\ s < top
           /\ Call.at # "unwind" => /\ Len(ci) > Call.depth /\ Len(ci) # 1 /\ Now.kind = "lua"
                                    /\ FrameShape(Now) /\ Call.func <= Origin(Now)
                                    /\ Origin(Now) \in Nat \ {0}
                                    /\ Next1(Now) <= Now.top
           /\ Call.at = "unwind" => Len(ci) = Call.depth /\ Call.level = Call.func /\ Next1(Now) <= Call.func
<1>1. /\ ci \in Seq(Frames) /\ FramesStacked(ci) /\ calls \in Seq(Activations) /\ CallsStacked(ci, calls)
      /\ declared \in SUBSET Nat /\ openupval \in SUBSET Nat /\ top \in Nat
      /\ Placed(ci, calls, top, declared, openupval)
      /\ Waiting(ci, calls, top, declared) /\ TopAbove(ci, calls, top)
  BY DEF Settled, Placed
<1>2. ci # <<>>
  BY <1>1 DEF FramesStacked
<1>3. \A s \in declared : 0 < s /\ s < top
  BY <1>1 DEF Waiting
<1>4. /\ Len(calls) \in DOMAIN calls /\ Call \in Activations /\ Call = calls[Len(calls)]
      /\ Call.func \in Nat /\ Call.depth \in 1..Len(ci) /\ Call.func < top
      /\ Len(ci) \in Nat \ {0} /\ DOMAIN ci = 1..Len(ci)
      /\ Now = ci[Len(ci)] /\ Now \in Frames /\ Busy(ci, Call, Len(ci))
      /\ Call.at # "unwind" => /\ Len(ci) > Call.depth /\ Len(ci) # 1 /\ Now.kind = "lua"
                               /\ FrameShape(Now) /\ Call.func <= Origin(Now)
      /\ Call.at = "unwind" => Len(ci) = Call.depth /\ Call.level = Call.func /\ Next1(Now) <= Call.func
  BY <1>1, LastCall DEF Call, Now
<1>5. \A k \in DOMAIN ci : Next1(ci[k]) <= Next1(Now)
  BY <1>1, StackedFacts DEF Now
<1>6. /\ Next1(Now) \in Nat /\ Base(Now) \in Nat /\ Origin(Now) \in Int
      /\ Origin(Now) < Base(Now) /\ Base(Now) <= Next1(Now)
      /\ FrameShape(Now) => Origin(Now) \in Nat \ {0} /\ Next1(Now) <= Now.top
  BY <1>4, FrameBounds
<1> QED BY <1>1, <1>2, <1>3, <1>4, <1>5, <1>6

(* while a Lua function runs or closes variables,                          *)
LEMMA InFunction ==
    ASSUME Settled, calls # <<>>, Call.at # "unwind"
    PROVE  /\ \A s \in declared \cup openupval :
                 /\ s \in Nat /\ s < Next1(Now)
                 /\ s \notin Registers(Now) => s < Origin(Now)
           /\ \A s \in LiveIn(Front(ci), Front(calls)) :
                 (\A x \in declared : x \notin Registers(Now)) => s \in Int /\ s < Origin(Now)
<1>1. /\ ci \in Seq(Frames) /\ FramesStacked(ci) /\ ci # <<>> /\ calls \in Seq(Activations)
      /\ CallsStacked(ci, calls)
      /\ declared \in SUBSET Nat
      /\ Call \in Activations /\ Call = calls[Len(calls)] /\ Len(calls) \in DOMAIN calls
      /\ Now \in Frames /\ Now = ci[Len(ci)] /\ Len(ci) \in Nat \ {0} /\ DOMAIN ci = 1..Len(ci)
      /\ Next1(Now) \in Nat /\ Base(Now) \in Nat
      /\ Origin(Now) < Base(Now) /\ Base(Now) <= Next1(Now)
      /\ Call.func \in Nat /\ Call.func <= Origin(Now) /\ Origin(Now) \in Nat \ {0}
  BY InCall
<1>2. \A k \in 1..Len(ci) - 1 : /\ k \in DOMAIN ci /\ ci[k] \in Frames
                                /\ Next1(ci[k]) <= Origin(Now)
  <2>1. \A k \in 1..Len(ci) - 1 : k \in DOMAIN ci /\ k < Len(ci) /\ Len(ci) \in DOMAIN ci
    BY <1>1
  <2> QED BY <2>1, <1>1, StackedFacts
<1>3. ASSUME NEW s \in declared \cup openupval
      PROVE  /\ s \in Nat /\ s < Next1(Now)
             /\ s \notin Registers(Now) => s < Origin(Now)
  <2>1. /\ s \in Nat
        /\ s < Call.func \/ \E k \in DOMAIN ci : s \in Registers(ci[k])
    BY Whereabouts DEF Settled, Call
  <2>2. CASE s < Call.func
    <3> DEFINE o == Origin(Now)  b == Base(Now)  x == Next1(Now)
    <3>1. o \in Nat /\ b \in Nat /\ x \in Nat /\ Call.func <= o /\ o < b /\ b <= x /\ Call.func \in Nat
      BY <1>1
    <3> HIDE DEF o, b, x
    <3>2. s < o /\ s < x
      BY <2>1, <2>2, <3>1
    <3> QED BY <2>1, <3>2 DEF o, x
  <2>3. CASE \E k \in DOMAIN ci : s \in Registers(ci[k])
    <3>1. PICK k \in DOMAIN ci : s \in Registers(ci[k])
      BY <2>3
    <3>2. CASE k = Len(ci)
      BY <3>1, <3>2, <1>1, <2>1, RegisterBounds
    <3>3. CASE k \in 1..Len(ci) - 1
      <4> DEFINE o == Origin(Now)  b == Base(Now)  x == Next1(Now)  y == Next1(ci[k])
      <4>1. o \in Nat /\ b \in Nat /\ x \in Nat /\ y \in Nat /\ y <= o /\ o < b /\ b <= x /\ s < y
        BY <3>1, <3>3, <1>1, <1>2, RegisterBounds, FrameBounds
      <4> HIDE DEF o, b, x, y
      <4>2. s < o /\ s < x
        BY <2>1, <4>1
      <4> QED BY <2>1, <4>2 DEF o, x
    <3> QED BY <3>2, <3>3, <1>1
  <2> QED BY <2>1, <2>2, <2>3
<1>4. ASSUME \A x \in declared : x \notin Registers(Now)
      PROVE  \A s \in LiveIn(Front(ci), Front(calls)) : s \in Int /\ s < Origin(Now)
  <2>1. /\ Front(ci) \in Seq(Frames) /\ DOMAIN Front(ci) = 1..Len(ci) - 1
        /\ \A k \in 1..Len(ci) - 1 : Front(ci)[k] = ci[k]
    BY <1>1, FrontFrame
  <2>2. /\ Front(calls) \in Seq(Activations) /\ DOMAIN Front(calls) = 1..Len(calls) - 1
        /\ \A k \in 1..Len(calls) - 1 : Front(calls)[k] = calls[k]
    BY <1>1, FrontCall
  <2>3. \A k \in DOMAIN Front(ci) : Next1(Front(ci)[k]) <= Origin(Now)
    BY <2>1, <1>2
  <2>4. ASSUME NEW i \in DOMAIN Front(calls)
        PROVE  Front(calls)[i].from + Front(calls)[i].n <= Origin(Now)
    <3>1. DOMAIN calls = 1..Len(calls) /\ Len(calls) \in Nat
      BY <1>1, CallsFacts
    <3>2. i \in DOMAIN calls /\ i < Len(calls) /\ Front(calls)[i] = calls[i]
      BY <2>2, <3>1
    <3>3. calls[i].from + calls[i].n <= Call.func
      BY <3>2, <1>1, CallsFacts
    <3>4. calls[i].from \in Nat /\ calls[i].n \in Nat
      BY <3>2, <1>1, CallsFacts, ActivationFields
    <3> QED BY <3>2, <3>3, <3>4, <1>1
  <2>5. \A s \in declared : s < Origin(Now)
    BY <1>3, <1>4
  <2>6. Origin(Now) \in Int
    BY <1>1
  <2> QED BY <2>1, <2>2, <2>3, <2>4, <2>5, <2>6, <1>1, LiveParts
<1> QED BY <1>3, <1>4

(* while it runs,                                                          *)
LEMMA Running ==
    ASSUME Settled, calls # <<>>, Call.at = "run"
    PROVE  /\ Call.from = 0 /\ Call.n = 0 /\ Base(Now) <= top
           /\ Replaced(calls, Call) = calls
           /\ \A s \in Live : s \in Int /\ s < Next1(Now)
<1>1. /\ ci \in Seq(Frames) /\ calls \in Seq(Activations) /\ CallsStacked(ci, calls)
      /\ FramesStacked(ci) /\ declared \in SUBSET Nat
      /\ Call \in Activations /\ Call = calls[Len(calls)] /\ Len(calls) \in DOMAIN calls
      /\ Next1(Now) \in Nat /\ Base(Now) \in Nat /\ Origin(Now) \in Int
      /\ Origin(Now) < Base(Now) /\ Base(Now) <= Next1(Now)
      /\ Call.func \in Nat /\ Call.func <= Origin(Now)
      /\ Busy(ci, Call, Len(ci)) /\ TopAbove(ci, calls, top)
      /\ \A k \in DOMAIN ci : Next1(ci[k]) <= Next1(Now)
  BY InCall
<1>2. Call.from = 0 /\ Call.n = 0 /\ Base(Now) <= top
  BY <1>1 DEF Busy, TopAbove, Call, Now
<1>3. Replaced(calls, Call) = calls
  <2> DEFINE B == Replaced(calls, Call)
  <2>1. /\ B \in Seq(Activations) /\ Len(B) = Len(calls)
        /\ \A i \in 1..Len(calls) - 1 : B[i] = calls[i]
        /\ B[Len(calls)] = Call
    BY <1>1, ReplacedCall, Zenon
  <2>2. Len(calls) \in Nat
    BY <1>1, CallsFacts
  <2> HIDE DEF B
  <2>3. \A i \in 1..Len(B) : B[i] = calls[i]
    <3>1. \A i \in 1..Len(B) : i = Len(calls) \/ i \in 1..Len(calls) - 1
      BY <2>1, <2>2
    <3> QED BY <3>1, <2>1, <1>1
  <2>4. B = calls
    BY <2>1, <2>3, <1>1, SeqEqual
  <2> QED BY <2>4 DEF B
<1>4. \A i \in DOMAIN calls : (calls[i].from = 0 /\ calls[i].n = 0) \/ calls[i].from + calls[i].n <= Next1(Now)
  <2>1. SUFFICES ASSUME NEW i \in DOMAIN calls
                 PROVE  (calls[i].from = 0 /\ calls[i].n = 0) \/ calls[i].from + calls[i].n <= Next1(Now)
    OBVIOUS
  <2>2. DOMAIN calls = 1..Len(calls) /\ Len(calls) \in Nat
    BY <1>1, CallsFacts
  <2>3. CASE i = Len(calls)
    BY <2>3, <1>1, <1>2
  <2>4. CASE i < Len(calls)
    <3>1. calls[i].from + calls[i].n <= Call.func
      BY <2>4, <1>1, CallsFacts
    <3>2. calls[i].from \in Nat /\ calls[i].n \in Nat
      BY <1>1, CallsFacts, ActivationFields
    <3> DEFINE o == Origin(Now)  b == Base(Now)  x == Next1(Now)
    <3>3. o \in Int /\ b \in Nat /\ x \in Nat /\ Call.func <= o /\ o < b /\ b <= x /\ Call.func \in Nat
      BY <1>1
    <3> HIDE DEF o, b, x
    <3>4. calls[i].from + calls[i].n <= x
      BY <3>1, <3>2, <3>3
    <3> QED BY <3>4 DEF x
  <2> QED BY <2>2, <2>3, <2>4
<1>5. \A s \in declared : s < Next1(Now)
  BY InFunction
<1>6. Next1(Now) \in Int
  BY <1>1
<1>7. \A s \in Live : s \in Int /\ s < Next1(Now)
  BY <1>1, <1>4, <1>5, <1>6, LiveParts DEF Live
<1> QED BY <1>2, <1>3, <1>7

(* and while luaF_close is at work.                                        *)
LEMMA AtClose ==
    ASSUME Settled, Closes
    PROVE  /\ \A s \in declared \cup openupval : s \in Nat /\ s < top
           /\ \A s \in Live : s \in Int /\ s < top
           /\ Next1(Now) <= top /\ Call.from + Call.n <= top
           /\ \A s \in openupval : s < Call.level
<1>0. calls # <<>> /\ Call.at # "run"
  BY DEF Closes
<1>1. /\ ci \in Seq(Frames) /\ calls \in Seq(Activations) /\ CallsStacked(ci, calls)
      /\ FramesStacked(ci) /\ declared \in SUBSET Nat /\ openupval \in SUBSET Nat /\ top \in Nat
      /\ Call \in Activations /\ Call = calls[Len(calls)] /\ Len(calls) \in DOMAIN calls
      /\ Next1(Now) \in Nat
      /\ Call.func \in Nat /\ Call.func < top
      /\ Busy(ci, Call, Len(ci)) /\ TopAbove(ci, calls, top)
      /\ \A k \in DOMAIN ci : Next1(ci[k]) <= Next1(Now)
      /\ \A s \in declared : 0 < s /\ s < top
      /\ Call.at = "unwind" => Next1(Now) <= Call.func
      /\ Call.at \in {"run", "close", "return", "unwind"}
      /\ DOMAIN calls = 1..Len(calls) /\ Len(calls) \in Nat
  BY <1>0, InCall, ActivationFields, CallsFacts
<1>2. Next1(Now) <= top
  <2>1. CASE Call.at = "unwind"
    BY <2>1, <1>1
  <2>2. CASE Call.at \in {"close", "return"}
    BY <2>2, <1>0, <1>1 DEF TopAbove, Call, Now
  <2> QED BY <2>1, <2>2, <1>0, <1>1
<1>3. Call.from + Call.n <= top
  <2>1. CASE Call.at = "return"
    BY <2>1, <1>0, <1>1 DEF TopAbove, Call
  <2>2. CASE Call.at # "return"
    BY <2>2, <1>1 DEF Busy
  <2> QED BY <2>1, <2>2
<1>4. ASSUME NEW i \in DOMAIN calls
      PROVE  calls[i].from + calls[i].n <= top
  <2>1. CASE i = Len(calls)
    BY <2>1, <1>1, <1>3
  <2>2. CASE i < Len(calls)
    <3>1. calls[i].from + calls[i].n <= Call.func
      BY <2>2, <1>1, CallsFacts
    <3>2. calls[i].from \in Nat /\ calls[i].n \in Nat
      BY <1>1, CallsFacts, ActivationFields
    <3> QED BY <3>1, <3>2, <1>1
  <2> QED BY <2>1, <2>2, <1>1
<1>5. \A k \in DOMAIN ci : Next1(ci[k]) <= top
  <2>1. \A k \in DOMAIN ci : ci[k] \in Frames
    BY <1>1, StackedFacts
  <2>2. ASSUME NEW k \in DOMAIN ci PROVE Next1(ci[k]) <= top
    <3>1. Next1(ci[k]) \in Nat /\ Next1(ci[k]) <= Next1(Now)
      BY <2>1, <1>1, FrameBounds
    <3> QED BY <3>1, <1>1, <1>2
  <2> QED BY <2>2
<1>6. \A s \in Live : s \in Int /\ s < top
  <2>1. top \in Int
    BY <1>1
  <2>2. \A s \in declared : s < top
    BY <1>1
  <2>3. \A i \in DOMAIN calls : (calls[i].from = 0 /\ calls[i].n = 0) \/ calls[i].from + calls[i].n <= top
    BY <1>4
  <2> QED BY <1>1, <1>5, <2>1, <2>2, <2>3, LiveParts DEF Live
<1>7. \A s \in openupval : s < Call.level
  BY <1>0, Whereabouts DEF Settled, Call
<1>8. ASSUME NEW s \in openupval PROVE s < top
  <2>1. PICK k \in DOMAIN ci : s \in Registers(ci[k])
    BY DEF Settled, Placed, Captured
  <2>2. s \in Nat /\ s < Next1(ci[k]) /\ Next1(ci[k]) \in Nat
    BY <2>1, <1>1, StackedFacts, RegisterBounds, FrameBounds
  <2> QED BY <2>2, <1>1, <1>5
<1> QED BY <1>1, <1>2, <1>3, <1>6, <1>7, <1>8

-----------------------------------------------------------------------------
(* The steps. What each makes of a placed stack, and that it writes to     *)
(* nothing live.                                                           *)

(* and the same without the variables that were lost.                      *)
InPlace == Placed(ci, calls, top, declared, openupval)

(* A function and its activation that stay as they are                     *)
LEMMA NowAgain ==
    ASSUME Settled, calls # <<>>
    PROVE  Replaced(ci, Now) = ci
<1>1. /\ ci \in Seq(Frames) /\ ci # <<>> /\ Now \in Frames /\ Now = ci[Len(ci)]
      /\ Len(ci) \in Nat \ {0} /\ DOMAIN ci = 1..Len(ci)
  BY InCall
<1> DEFINE G == Replaced(ci, Now)
<1>2. /\ G \in Seq(Frames) /\ Len(G) = Len(ci) /\ \A k \in 1..Len(ci) - 1 : G[k] = ci[k]
      /\ G[Len(ci)] = Now
  BY <1>1, ReplacedFrame, Zenon
<1> HIDE DEF G
<1>3. \A i \in 1..Len(G) : G[i] = ci[i]
  <2> DEFINE m == Len(ci)
  <2>0. m \in Nat /\ Len(G) = m
    BY <1>1, <1>2
  <2> HIDE DEF m
  <2>1. \A i \in 1..m : i = m \/ i \in 1..m - 1
    BY <2>0
  <2>2. \A i \in 1..Len(G) : i = Len(ci) \/ i \in 1..Len(ci) - 1
    BY <2>0, <2>1 DEF m
  <2> QED BY <2>2, <1>1, <1>2
<1>4. G = ci
  BY <1>1, <1>2, <1>3, SeqEqual
<1> QED BY <1>4 DEF G

(* A function goes on, or stays, with other registers in use.              *)
LEMMA Uses ==
    ASSUME Settled, calls # <<>>, Call.at # "unwind",
           NEW g \in Frames, FrameShape(g), g.kind = "lua", Origin(g) = Origin(Now),
           NEW e \in {Call, Closing(Call, "run", 0, 0, 0)}, e.at = "run",
           NEW t2 \in Nat, Base(g) <= t2, NEW E \in SUBSET Nat, NEW V \in SUBSET Nat,
           \A s \in E : /\ s < t2
                        /\ \/ s \in Registers(g)
                           \/ s \in declared /\ s \notin Registers(Now),
           \A s \in V : \/ s \in Registers(g)
                        \/ s \in openupval /\ s \notin Registers(Now)
    PROVE  Placed(Replaced(ci, g), Replaced(calls, e), t2, E, V)
<1>1. /\ Placed(ci, calls, top, declared, openupval) /\ Call \in Activations
      /\ Busy(ci, Call, Len(ci)) /\ Origin(Now) \in Int
      /\ \A s \in declared : 0 < s
  BY InCall DEF Settled
<1>2. /\ e \in Activations /\ e.func = Call.func /\ e.depth = Call.depth /\ e.by = Call.by
      /\ e.at = "run" /\ e.from = 0 /\ e.n = 0
  <2>1. CASE e = Call
    <3>1. Call.at = "run"
      BY <2>1
    <3>2. Call.from = 0 /\ Call.n = 0
      BY <3>1, <1>1 DEF Busy
    <3> QED BY <2>1, <3>1, <3>2, <1>1
  <2>2. CASE e = Closing(Call, "run", 0, 0, 0)
    BY <2>2, <1>1 DEF Closing, Activations
  <2> QED BY <2>1, <2>2
<1>3. \A s \in E : 0 < s /\ s < t2 /\ (s \in Registers(g) \/ (s \in declared /\ s \notin Registers(Now)))
  <2>1. ASSUME NEW s \in E PROVE 0 < s
    <3>1. CASE s \in declared
      BY <3>1, <1>1
    <3>2. CASE s \in Registers(g)
      <4>1. Base(g) <= s /\ g.func \in Nat /\ g.func < Base(g) /\ Base(g) \in Nat /\ s \in Nat
        BY <3>2, RegisterBounds, FrameBounds
      <4> QED BY <4>1
    <3> QED BY <3>1, <3>2
  <2> QED BY <2>1
<1>4. Origin(Last(ci)) <= Origin(g)
  BY <1>1 DEF Now
<1> QED BY <1>1, <1>2, <1>3, <1>4, Advances DEF Call, Now

(* A sequence cut at its end                                               *)
LEMMA CutAll ==
    ASSUME NEW C \in Seq(Activations)
    PROVE  SubSeq(C, 1, Len(C)) = C
<1> DEFINE B == SubSeq(C, 1, Len(C))
<1>1. Len(C) \in Nat /\ Len(C) \in 0..Len(C)
  BY LenProperties
<1>2. B \in Seq(Activations) /\ Len(B) = Len(C) /\ \A i \in 1..Len(C) : B[i] = C[i]
  BY <1>1, Cut
<1> HIDE DEF B
<1>3. B = C
  BY <1>2, SeqEqual
<1> QED BY <1>3 DEF B

(* What is in place when an error reaches activation j: the frames and     *)
(* activations up to it, and no upvalue that is open above its function.   *)
UnwindsTo(F, C, j, t, E, U) ==
    Placed(SubSeq(F, 1, C[j].depth), Replaced(SubSeq(C, 1, j), Unwinding(C[j])), t, E,
           {s \in U : s < C[j].func})

(* It is, with fewer waiting variables and another L->top.                 *)
LEMMA UnwindsHere ==
    ASSUME NEW F, NEW C, NEW t, NEW D, NEW U, Placed(F, C, t, D, U), NEW j \in DOMAIN C,
           NEW t2 \in Nat, C[j].func < t2, NEW E \in SUBSET D, \A s \in E : s < t2
    PROVE  UnwindsTo(F, C, j, t2, E, U)
  BY Unwinds DEF UnwindsTo

(* An error below the last activation, and below the one before it         *)
LEMMA FailHere ==
    ASSUME Settled, calls # <<>>, Fail(calls), top' \in Nat, Call.func < top',
           declared' \in SUBSET declared, \A s \in declared' : s < top'
    PROVE  InPlace'
<1>1. /\ Placed(ci, calls, top, declared, openupval) /\ Call = calls[Len(calls)]
      /\ Len(calls) \in DOMAIN calls /\ Call \in Activations /\ calls \in Seq(Activations)
  BY InCall DEF Settled
<1>2. SubSeq(calls, 1, Len(calls)) = calls
  BY <1>1, CutAll
<1>3. Placed(SubSeq(ci, 1, Call.depth), Replaced(calls, Unwinding(Call)), top', declared',
             {s \in openupval : s < Call.func})
  <2> DEFINE j == Len(calls)
  <2>1. /\ Placed(ci, calls, top, declared, openupval) /\ j \in DOMAIN calls /\ calls[j] = Call
        /\ top' \in Nat /\ calls[j].func < top' /\ declared' \in SUBSET declared
        /\ \A s \in declared' : s < top'
    BY <1>1
  <2> HIDE DEF j
  <2>2. UnwindsTo(ci, calls, j, top', declared', openupval)
    BY <2>1, UnwindsHere
  <2>3. SubSeq(calls, 1, j) = calls
    BY <1>2 DEF j
  <2> QED BY <2>1, <2>2, <2>3 DEF UnwindsTo
<1>4. Unwinding(Call).depth = Call.depth /\ Unwinding(Call).level = Call.func
  BY <1>1, UnwindingFields
<1>5. /\ ci' = SubSeq(ci, 1, Call.depth) /\ calls' = Replaced(calls, Unwinding(Call))
      /\ openupval' = {s \in openupval : s < Call.func}
  BY <1>4 DEF Fail, CloseUpvals, Call
<1> QED BY <1>3, <1>5 DEF InPlace

(* An error that is handed on from the last activation to the one below,   *)
(* which unwinds.                                                          *)
LEMMA FailBelow ==
    ASSUME Settled, calls # <<>>, Call.by # "host", Fail(Front(calls)),
           top' \in Nat, Call.func <= top',
           declared' \in SUBSET declared, \A s \in declared' : s < top'
    PROVE  InPlace'
<1> DEFINE m == Len(calls) - 1  b == calls[m]
<1>1. /\ Placed(ci, calls, top, declared, openupval) /\ Call = calls[Len(calls)]
      /\ calls \in Seq(Activations) /\ Call.func \in Nat
  BY InCall DEF Settled
<1>2. /\ m \in DOMAIN calls /\ Last(Front(calls)) = b /\ b \in Activations
      /\ b.func \in Nat /\ b.func < Call.func
  BY <1>1, BelowLast DEF Call
<1>3. Front(calls) = SubSeq(calls, 1, m)
  BY <1>1, FrontCall
<1> HIDE DEF m, b
<1>4. b.func < top'
  BY <1>1, <1>2
<1>5. Placed(SubSeq(ci, 1, b.depth), Replaced(SubSeq(calls, 1, m), Unwinding(b)), top', declared',
             {s \in openupval : s < b.func})
  <2>1. /\ b = calls[m] /\ calls[m].func < top' /\ declared' \in SUBSET declared
        /\ \A s \in declared' : s < top'
    BY <1>4 DEF b
  <2>2. UnwindsTo(ci, calls, m, top', declared', openupval)
    BY <1>1, <1>2, <2>1, UnwindsHere
  <2> QED BY <2>1, <2>2 DEF UnwindsTo
<1>6. Unwinding(b).depth = b.depth /\ Unwinding(b).level = b.func
  BY <1>2, UnwindingFields
<1>7. /\ ci' = SubSeq(ci, 1, b.depth) /\ calls' = Replaced(SubSeq(calls, 1, m), Unwinding(b))
      /\ openupval' = {s \in openupval : s < b.func}
  BY <1>2, <1>3, <1>6 DEF Fail, CloseUpvals
<1> QED BY <1>5, <1>7 DEF InPlace

(* A call of luaD_call                                                     *)
LEMMA PrecallPlaces ==
    ASSUME NEW func, NEW t, NEW wanted, NEW by, NEW H, Precall(func, t, wanted, by, H),
           Called1(H, calls, func, wanted, by, t, declared', openupval')
    PROVE  InPlace'
<1> DEFINE c == Fresh(func, wanted, by, Len(H))
           fits == Tight(t, FrameSize) => CanGrow(t, FrameSize)
<1>1. CASE fits
  <2>1. /\ ci' = Append(H, Frame("lua", func, func + 1 + FrameSize, wanted, "any"))
        /\ calls' = Append(calls, c) /\ top' = t
    BY <1>1 DEF Precall, Fresh
  <2> QED BY <2>1 DEF Called1, InPlace
<1>2. CASE ~fits
  <2>1. ci' = H /\ calls' = Append(calls, Unwinding(c)) /\ top' = t
    BY <1>2 DEF Precall, Fresh
  <2> QED BY <2>1 DEF Called1, InPlace
<1> QED BY <1>1, <1>2

-----------------------------------------------------------------------------
(* A function that runs                                                    *)
LEMMA WhileRuns ==
    ASSUME Settled, Runs
    PROVE  /\ calls # <<>> /\ Call.at = "run" /\ Now.next = "any" /\ lost = {}
           /\ Now \in Frames /\ FrameShape(Now) /\ Now.kind = "lua"
           /\ Base(Now) \in Nat /\ Next1(Now) \in Nat /\ Origin(Now) \in Nat \ {0}
           /\ Now.top \in Nat /\ Now.act \in Nat /\ top \in Nat
           /\ Origin(Now) < Base(Now) /\ Base(Now) <= Next1(Now) /\ Next1(Now) <= Now.top
           /\ Next1(Now) = Base(Now) + Now.act /\ Now.top = Base(Now) + FrameSize
           /\ Base(Now) <= top
           /\ Call.func \in Nat /\ Call.func <= Origin(Now) /\ Call.func < top
           /\ declared \in SUBSET Nat /\ openupval \in SUBSET Nat
           /\ \A s \in declared \cup openupval : s < Next1(Now)
           /\ \A s \in declared : s < top
           /\ \A s \in Live : s \in Int /\ s < Next1(Now)
           /\ Replaced(calls, Call) = calls /\ Replaced(ci, Now) = ci
<1>1. calls # <<>> /\ Call.at = "run" /\ Now.next = "any" /\ lost = {} /\ Call.at # "unwind"
  BY DEF Runs, Settled
<1>2. /\ Now \in Frames /\ FrameShape(Now) /\ Now.kind = "lua"
      /\ Base(Now) \in Nat /\ Next1(Now) \in Nat /\ Origin(Now) \in Nat \ {0} /\ top \in Nat
      /\ Origin(Now) < Base(Now) /\ Base(Now) <= Next1(Now) /\ Next1(Now) <= Now.top
      /\ Call.func \in Nat /\ Call.func <= Origin(Now) /\ Call.func < top
      /\ declared \in SUBSET Nat /\ openupval \in SUBSET Nat
      /\ \A s \in declared : s < top
  BY <1>1, InCall
<1>3. /\ Base(Now) <= top /\ Replaced(calls, Call) = calls
      /\ \A s \in Live : s \in Int /\ s < Next1(Now)
  BY <1>1, Running
<1>4. \A s \in declared \cup openupval : s < Next1(Now)
  BY <1>1, InFunction
<1>5. Replaced(ci, Now) = ci
  BY <1>1, NowAgain
<1>6. Now.top \in Nat /\ Now.act \in Nat
  BY <1>2, FrameBounds
<1>7. Next1(Now) = Base(Now) + Now.act /\ Now.top = Base(Now) + FrameSize
  BY <1>2 DEF FrameShape, Next1
<1> QED BY <1>1, <1>2, <1>3, <1>4, <1>5, <1>6, <1>7

(* A register of a frame that stays where it is                            *)
LEMMA SameFrame ==
    ASSUME NEW f \in Frames, NEW g \in Frames, g.kind = "lua", Base(g) = Base(f), Next1(g) \in Nat,
           NEW s \in Nat, s < Next1(g), s \in Registers(f) \/ Base(f) <= s
    PROVE  s \in Registers(g)
<1>1. Base(f) <= s /\ Base(f) \in Nat
  BY RegisterBounds, FrameBounds
<1> DEFINE b == Base(g)  x == Next1(g)
<1>2. b \in Nat /\ x \in Nat /\ b <= s /\ s < x
  BY <1>1
<1> HIDE DEF b, x
<1>3. s \in b..x - 1
  BY <1>2
<1> QED BY <1>3 DEF Registers, b, x

(* A Lua function that goes on with another number of registers in use,    *)
(* after it has marked one to be closed or closed some.                    *)
LEMMA UsesAct ==
    ASSUME Settled, calls # <<>>, Call.at # "unwind", NEW n \in Nat,
           NEW g \in Frames, FrameShape(g), g.kind = "lua", Origin(g) = Origin(Now),
           Base(g) = Base(Now), Next1(g) = Base(Now) + n,
           NEW e \in {Call, Closing(Call, "run", 0, 0, 0)}, e.at = "run",
           NEW t2 \in Nat, Base(Now) <= t2, NEW E \in SUBSET Nat,
           \A s \in E : s < t2 /\ s < Base(Now) + n /\ (s \in declared \/ s = Next1(Now)),
           \A s \in openupval : s < Base(Now) + n
    PROVE  Placed(Replaced(ci, g), Replaced(calls, e), t2, E, openupval)
<1>1. /\ openupval \in SUBSET Nat /\ Now \in Frames /\ Base(Now) \in Nat /\ Next1(Now) \in Nat
      /\ Base(Now) <= Next1(Now)
  BY InCall
<1>2. Next1(g) \in Nat
  BY FrameBounds
<1>3. \A s \in E : /\ s < t2
                   /\ \/ s \in Registers(g)
                      \/ s \in declared /\ s \notin Registers(Now)
  <2>1. ASSUME NEW s \in E PROVE s \in Registers(g) \/ (s \in declared /\ s \notin Registers(Now))
    <3>1. s \in Nat /\ s < Next1(g)
      OBVIOUS
    <3>2. CASE s = Next1(Now)
      BY <3>1, <3>2, <1>1, <1>2, SameFrame
    <3>3. CASE s \in Registers(Now)
      BY <3>1, <3>3, <1>1, <1>2, SameFrame
    <3> QED BY <3>2, <3>3
  <2> QED BY <2>1
<1>4. \A s \in openupval : \/ s \in Registers(g)
                           \/ s \in openupval /\ s \notin Registers(Now)
  <2>1. ASSUME NEW s \in openupval, s \in Registers(Now) PROVE s \in Registers(g)
    <3>1. s \in Nat /\ s < Next1(g)
      BY <1>1
    <3> QED BY <3>1, <2>1, <1>1, <1>2, SameFrame
  <2> QED BY <2>1
<1>5. Base(g) <= t2
  OBVIOUS
<1> QED BY <1>1, <1>3, <1>4, <1>5, Uses

(* Local: one more register is in use.                                     *)
LEMMA LocalPlaces ==
    ASSUME Settled, Local
    PROVE  Settled'
<1> DEFINE n == Now.act + 1  g == [Now EXCEPT !.act = n]
<1>1. /\ Runs /\ n <= FrameSize /\ ci' = Replaced(ci, g)
      /\ top' = top /\ openupval' = openupval /\ calls' = calls /\ declared' = declared /\ lost' = lost
  BY DEF Local, Room, Using, stack
<1>2. n \in Nat /\ n \in 0..FrameSize /\ Call.at # "unwind"
  <2>1. Now.act \in Nat /\ Call.at # "unwind" /\ FrameSize \in Nat
    BY <1>1, WhileRuns, SlotsAssumption
  <2> QED BY <2>1, <1>1
<1>3. /\ g \in Frames /\ FrameShape(g) /\ g.kind = "lua" /\ Origin(g) = Origin(Now)
      /\ Base(g) = Base(Now) /\ Next1(g) = Base(Now) + n
  BY <1>1, <1>2, WhileRuns, WithAct
<1>4. \A s \in declared \cup openupval : s < Base(Now) + n
  <2>1. ASSUME NEW s \in declared \cup openupval PROVE s < Base(Now) + n
    BY <1>1, WhileRuns
  <2> QED BY <2>1
<1> HIDE DEF n, g
<1>5. Placed(Replaced(ci, g), Replaced(calls, Call), top, declared, openupval)
  BY <1>1, <1>2, <1>3, <1>4, WhileRuns, UsesAct
<1> QED BY <1>1, <1>5, WhileRuns DEF Settled

(* Leave: registers without variables go out of use.                       *)
LEMMA LeavePlaces ==
    ASSUME Settled, NEW n \in 0..Now.act - 1, Leave(n)
    PROVE  Settled'
<1> DEFINE g == [Now EXCEPT !.act = n]
<1>1. /\ Runs /\ ToClose(Base(Now) + n) = {} /\ ci' = Replaced(ci, g)
      /\ top' = top /\ openupval' = openupval /\ calls' = calls /\ declared' = declared /\ lost' = lost
  BY DEF Leave, Using, stack
<1>2. n \in Nat /\ n \in 0..FrameSize /\ Call.at # "unwind"
  <2>1. Now.act \in Nat /\ Now.act <= FrameSize /\ FrameSize \in Nat
    <3>1. Now.kind = "lua" /\ FrameShape(Now) /\ Now.act \in Nat
      BY <1>1, WhileRuns
    <3> QED BY <3>1, SlotsAssumption DEF FrameShape
  <2>2. Call.at # "unwind"
    BY <1>1, WhileRuns
  <2> QED BY <2>1, <2>2
<1>3. /\ g \in Frames /\ FrameShape(g) /\ g.kind = "lua" /\ Origin(g) = Origin(Now)
      /\ Base(g) = Base(Now) /\ Next1(g) = Base(Now) + n
  BY <1>1, <1>2, WhileRuns, WithAct
<1>4. \A s \in declared \cup openupval : s < Base(Now) + n
  <2>1. ASSUME NEW s \in declared \cup openupval PROVE s < Base(Now) + n
    <3>1. ~(s >= Base(Now) + n)
      BY <1>1 DEF ToClose
    <3>2. s \in Nat /\ Base(Now) \in Nat
      BY <1>1, WhileRuns
    <3> QED BY <3>1, <3>2, <1>2
  <2> QED BY <2>1
<1> HIDE DEF g
<1>5. Placed(Replaced(ci, g), Replaced(calls, Call), top, declared, openupval)
  BY <1>1, <1>2, <1>3, <1>4, WhileRuns, UsesAct
<1> QED BY <1>1, <1>5, WhileRuns DEF Settled

(* An open upvalue of a register, OP_CLOSURE                               *)
LEMMA CapturePlaces ==
    ASSUME Settled, NEW level \in Registers(Now), Capture(level)
    PROVE  Settled'
<1>1. /\ Runs /\ openupval' = openupval \cup {level} /\ ci' = ci
      /\ top' = top /\ calls' = calls /\ declared' = declared /\ lost' = lost
  BY DEF Capture
<1>2. /\ Now \in Frames /\ level \in Nat /\ Base(Now) <= level /\ level < Next1(Now)
  BY <1>1, WhileRuns, RegisterBounds
<1>3. /\ \A s \in declared : /\ s < top
                             /\ \/ s \in Registers(Now)
                                \/ s \in declared /\ s \notin Registers(Now)
      /\ \A s \in openupval \cup {level} : \/ s \in Registers(Now)
                                           \/ s \in openupval /\ s \notin Registers(Now)
  BY <1>1, WhileRuns
<1>4. openupval \cup {level} \in SUBSET Nat /\ Call.at # "unwind" /\ Call \in {Call, Closing(Call, "run", 0, 0, 0)}
  BY <1>1, <1>2, WhileRuns
<1>5. Placed(Replaced(ci, Now), Replaced(calls, Call), top, declared, openupval \cup {level})
  BY <1>1, <1>3, <1>4, WhileRuns, Uses
<1> QED BY <1>1, <1>5, WhileRuns DEF Settled

(* A to-be-closed variable, and one of nil                                 *)
LEMMA TbcPlaces ==
    ASSUME Settled, \/ Tbc
                    \/ TbcNil
    PROVE  Settled'
<1> DEFINE n == Now.act + 1  g == [Now EXCEPT !.act = n]
<1>1. /\ Runs /\ n <= FrameSize /\ ci' = Replaced(ci, g) /\ top' = Now.top
      /\ openupval' = openupval /\ calls' = calls /\ lost' = lost
      /\ declared' \in {declared, declared \cup {Next1(Now)}}
  BY DEF Tbc, TbcNil, Room, Using, KeepList
<1>2. n \in Nat /\ n \in 0..FrameSize /\ Call.at # "unwind"
  <2>1. Now.act \in Nat /\ Call.at # "unwind" /\ FrameSize \in Nat
    BY <1>1, WhileRuns, SlotsAssumption
  <2> QED BY <2>1, <1>1
<1>3. /\ g \in Frames /\ FrameShape(g) /\ g.kind = "lua" /\ Origin(g) = Origin(Now)
      /\ Base(g) = Base(Now) /\ Next1(g) = Base(Now) + n
  BY <1>1, <1>2, WhileRuns, WithAct
<1>4. /\ Next1(Now) < Base(Now) + n /\ Base(Now) + n <= Now.top
      /\ Next1(Now) \in Nat /\ Base(Now) \in Nat /\ Now.top \in Nat /\ Base(Now) <= Now.top
  <2>1. /\ Next1(Now) = Base(Now) + Now.act /\ Now.top = Base(Now) + FrameSize
        /\ Base(Now) \in Nat /\ Now.act \in Nat /\ Next1(Now) \in Nat /\ Now.top \in Nat
        /\ Base(Now) <= Next1(Now) /\ Next1(Now) <= Now.top
    BY <1>1, WhileRuns
  <2> DEFINE b == Base(Now)  x == Next1(Now)
  <2>2. x = b + Now.act /\ Now.top = b + FrameSize /\ b \in Nat /\ x \in Nat /\ b <= x /\ x <= Now.top
    BY <2>1
  <2> HIDE DEF b, x
  <2>3. x < b + n /\ b + n <= Now.top /\ b <= Now.top
    BY <2>1, <2>2, <1>1, SlotsAssumption
  <2> QED BY <2>1, <2>3 DEF b, x
<1>5. \A s \in declared \cup openupval : s < Base(Now) + n
  <2>1. ASSUME NEW s \in declared \cup openupval PROVE s < Base(Now) + n
    <3>1. s \in Nat /\ s < Next1(Now)
      BY <1>1, WhileRuns
    <3> QED BY <3>1, <1>2, <1>4
  <2> QED BY <2>1
<1>6. declared \in SUBSET Nat /\ declared' \in SUBSET Nat /\ openupval \in SUBSET Nat
  BY <1>1, <1>4, WhileRuns
<1> HIDE DEF n, g
<1>7. \A s \in declared' : s < Now.top /\ s < Base(Now) + n /\ (s \in declared \/ s = Next1(Now))
  <2>1. ASSUME NEW s \in declared' PROVE s < Now.top /\ s < Base(Now) + n /\ (s \in declared \/ s = Next1(Now))
    <3>1. s \in Nat /\ (s \in declared \/ s = Next1(Now))
      BY <1>1, <1>6
    <3>2. s < Base(Now) + n
      BY <3>1, <1>4, <1>5
    <3> QED BY <3>1, <3>2, <1>2, <1>4
  <2> QED BY <2>1
<1>8. /\ calls # <<>> /\ Replaced(calls, Call) = calls /\ lost = {} /\ Call.at = "run"
      /\ Call \in {Call, Closing(Call, "run", 0, 0, 0)}
  BY <1>1, WhileRuns
<1>9. Placed(Replaced(ci, g), Replaced(calls, Call), Now.top, declared', openupval)
  BY <1>1, <1>2, <1>3, <1>4, <1>5, <1>6, <1>7, <1>8, UsesAct
<1> QED BY <1>1, <1>8, <1>9 DEF Settled

(* An error                                                                *)
LEMMA RaisePlaces ==
    ASSUME Settled, NEW t \in {top, Now.top}, Raise(t)
    PROVE  Settled'
<1>1. Runs /\ top' = t /\ Fail(calls) /\ declared' = declared /\ lost' = lost
  BY DEF Raise, KeepList
<1>2. /\ calls # <<>> /\ lost = {} /\ Call.func \in Nat /\ top \in Nat /\ Now.top \in Nat
      /\ Call.func < top /\ Call.func <= Origin(Now) /\ Origin(Now) \in Nat
      /\ Origin(Now) < Base(Now) /\ Base(Now) <= Next1(Now) /\ Next1(Now) <= Now.top
      /\ Base(Now) \in Nat /\ Next1(Now) \in Nat
      /\ declared \in SUBSET Nat
      /\ \A s \in declared : s < top /\ s < Next1(Now)
  BY <1>1, WhileRuns
<1>3. t \in Nat /\ Call.func < t
  BY <1>2
<1>4. \A s \in declared : s < t
  <2>1. ASSUME NEW s \in declared PROVE s < t
    <3>1. s \in Nat /\ s < top /\ s < Next1(Now)
      BY <1>2
    <3> QED BY <3>1, <1>2
  <2> QED BY <2>1
<1>5. InPlace'
  BY <1>1, <1>2, <1>3, <1>4, FailHere
<1> QED BY <1>1, <1>2, <1>5 DEF Settled, InPlace

(* A collection writes below nothing in use.                               *)
LEMMA CollectPlaces ==
    ASSUME Settled, Collect
    PROVE  Settled'
<1>1. /\ Runs /\ top' = Next1(Now) + 1 /\ declared' = declared /\ openupval' = openupval
      /\ ci' = ci /\ calls' = calls
      /\ lost' = lost \cup ({s \in Live : s >= Next1(Now) + 1} \cap Live)
  BY DEF Collect, KeepList, Write
<1>2. /\ Base(Now) \in Nat /\ Next1(Now) \in Nat /\ Base(Now) <= Next1(Now)
      /\ calls # <<>> /\ Call.at # "unwind" /\ Call.at = "run" /\ lost = {}
      /\ declared \in SUBSET Nat /\ openupval \in SUBSET Nat
      /\ \A s \in Live : s \in Int /\ s < Next1(Now)
      /\ Now \in Frames /\ FrameShape(Now) /\ Now.kind = "lua"
      /\ Call \in {Call, Closing(Call, "run", 0, 0, 0)}
      /\ Replaced(ci, Now) = ci /\ Replaced(calls, Call) = calls
  BY <1>1, WhileRuns
<1>3. \A s \in declared : s < Next1(Now)
  BY <1>1, WhileRuns
<1>4. /\ \A s \in declared : /\ s < Next1(Now) + 1
                             /\ \/ s \in Registers(Now)
                                \/ s \in declared /\ s \notin Registers(Now)
      /\ \A s \in openupval : \/ s \in Registers(Now)
                              \/ s \in openupval /\ s \notin Registers(Now)
  <2>1. ASSUME NEW s \in declared PROVE s < Next1(Now) + 1
    <3>1. s \in Nat /\ s < Next1(Now)
      BY <1>2, <1>3
    <3> QED BY <3>1, <1>2
  <2> QED BY <2>1
<1>5. Next1(Now) + 1 \in Nat /\ Base(Now) <= Next1(Now) + 1
  BY <1>2
<1>6. Placed(Replaced(ci, Now), Replaced(calls, Call), Next1(Now) + 1, declared, openupval)
  BY <1>2, <1>4, <1>5, Uses
<1>7. {s \in Live : s >= Next1(Now) + 1} \cap Live = {}
  <2>1. ASSUME NEW s \in Live, s >= Next1(Now) + 1 PROVE FALSE
    <3>1. s \in Int /\ s < Next1(Now)
      BY <1>2
    <3> QED BY <3>1, <2>1, <1>2
  <2> QED BY <2>1
<1> QED BY <1>1, <1>2, <1>6, <1>7 DEF Settled

(* What is written above all that is live                                  *)
LEMMA WrittenAbove ==
    ASSUME Settled, NEW S, NEW b \in Int, \A s \in S : s \in Int /\ b <= s,
           \A s \in Live : s \in Int /\ s < b, Write(S)
    PROVE  lost' = {}
<1>1. lost \cup (S \cap Live) = {}
  BY Unharmed DEF Settled
<1> QED BY <1>1 DEF Write

(* Below a frame that is given up                                          *)
LEMMA BelowNow ==
    ASSUME Settled, Runs, \A x \in declared : x \notin Registers(Now)
    PROVE  \A s \in LiveIn(Front(ci), calls) : s \in Int /\ s < Origin(Now)
<1>1. /\ ci \in Seq(Frames) /\ FramesStacked(ci) /\ ci # <<>> /\ calls \in Seq(Activations)
      /\ CallsStacked(ci, calls) /\ declared \in SUBSET Nat
      /\ Call = calls[Len(calls)] /\ Len(calls) \in DOMAIN calls
      /\ Now = ci[Len(ci)] /\ Len(ci) \in Nat \ {0} /\ DOMAIN ci = 1..Len(ci)
      /\ Call.func \in Nat
  BY WhileRuns, InCall
<1>2. /\ Call.func <= Origin(Now) /\ Origin(Now) \in Nat /\ calls # <<>> /\ Call.at = "run"
  BY WhileRuns
<1>3. Call.from = 0 /\ Call.n = 0
  BY <1>2, Running
<1>4. \A k \in DOMAIN Front(ci) : Next1(Front(ci)[k]) <= Origin(Now)
  <2>1. /\ DOMAIN Front(ci) = 1..Len(ci) - 1 /\ \A k \in 1..Len(ci) - 1 : Front(ci)[k] = ci[k]
    BY <1>1, FrontFrame
  <2>2. \A k \in 1..Len(ci) - 1 : k \in DOMAIN ci /\ k < Len(ci) /\ Len(ci) \in DOMAIN ci
    BY <1>1
  <2> QED BY <2>1, <2>2, <1>1, StackedFacts
<1>5. \A i \in DOMAIN calls : (calls[i].from = 0 /\ calls[i].n = 0) \/ calls[i].from + calls[i].n <= Origin(Now)
  <2>1. SUFFICES ASSUME NEW i \in DOMAIN calls
                 PROVE  (calls[i].from = 0 /\ calls[i].n = 0) \/ calls[i].from + calls[i].n <= Origin(Now)
    OBVIOUS
  <2>2. DOMAIN calls = 1..Len(calls) /\ Len(calls) \in Nat
    BY <1>1, CallsFacts
  <2>3. CASE i = Len(calls)
    BY <2>3, <1>1, <1>3
  <2>4. CASE i < Len(calls)
    <3>1. calls[i].from + calls[i].n <= Call.func
      BY <2>4, <1>1, CallsFacts
    <3>2. calls[i].from \in Nat /\ calls[i].n \in Nat
      BY <1>1, CallsFacts, ActivationFields
    <3> DEFINE o == Origin(Now)
    <3>3. o \in Nat /\ Call.func <= o /\ Call.func \in Nat
      BY <1>1, <1>2
    <3> HIDE DEF o
    <3>4. calls[i].from + calls[i].n <= o
      BY <3>1, <3>2, <3>3
    <3> QED BY <3>4 DEF o
  <2> QED BY <2>2, <2>3, <2>4
<1>6. \A s \in declared : s < Origin(Now)
  <2>1. Call.at # "unwind"
    BY <1>2
  <2> QED BY <2>1, <1>2, InFunction
<1>7. Front(ci) \in Seq(Frames) /\ Origin(Now) \in Int
  BY <1>1, <1>2, FrontFrame
<1> QED BY <1>1, <1>4, <1>5, <1>6, <1>7, LiveParts

(* A function calls another in the same run.                               *)
LEMMA Pushes ==
    ASSUME Settled, Runs, NEW g \in Frames, FrameShape(g), g.kind = "lua",
           Origin(g) = Next1(Now), NEW t2 \in Nat, Base(g) <= t2
    PROVE  Placed(Append(ci, g), calls, t2, declared, openupval)
<1> DEFINE G == Append(ci, g)  j == Len(calls)
<1>0. calls # <<>> /\ Call.at = "run" /\ Call.at # "unwind"
  BY WhileRuns
<1>1. /\ Placed(ci, calls, top, declared, openupval)
      /\ ci \in Seq(Frames) /\ FramesStacked(ci) /\ calls \in Seq(Activations)
      /\ Call = calls[j] /\ j \in DOMAIN calls /\ DOMAIN ci = 1..Len(ci) /\ Len(ci) \in Nat \ {0}
      /\ Call.func \in Nat /\ Call.depth \in 1..Len(ci) /\ Len(ci) > Call.depth
      /\ Call.func <= Origin(Now) /\ Origin(Now) \in Nat /\ Origin(Now) < Base(Now)
      /\ Base(Now) <= Next1(Now) /\ Base(Now) \in Nat /\ Next1(Now) \in Nat
      /\ declared \in SUBSET Nat /\ openupval \in SUBSET Nat
      /\ \A s \in declared : 0 < s
      /\ Last(ci) = Now /\ Last(calls) = Call
  BY <1>0, InCall DEF Settled, Now, Call
<1>2. /\ G \in Seq(Frames) /\ FramesStacked(G) /\ Len(G) = Len(ci) + 1
      /\ DOMAIN G = 1..Len(ci) + 1
      /\ \A k \in 1..Len(ci) : G[k] = ci[k]
      /\ G[Len(ci) + 1] = g /\ Last(G) = g
  <2>1. Next1(Last(ci)) <= Origin(g)
    BY <1>1
  <2> QED BY <2>1, <1>1, PushStacked, AppendedFrame
<1>3. Call.func < Base(g) /\ Call.func <= Origin(g) /\ Base(g) \in Nat /\ Next1(Now) < Base(g)
  <2>1. Origin(g) < Base(g) /\ Base(g) \in Nat
    BY FrameBounds
  <2> QED BY <2>1, <1>1
<1> HIDE DEF G, j
<1>4. Resumes(ci, calls, G, calls, j)
  <2>1. Len(calls) = j
    BY DEF j
  <2>2. \A k \in 1..Call.depth : G[k] = ci[k]
    BY <1>1, <1>2
  <2>3. Call.depth <= Len(G)
    BY <1>1, <1>2
  <2> QED BY <2>1, <2>2, <2>3, <1>1 DEF Resumes
<1>5. OwnAbove(calls, G, j)
  <2>1. ASSUME NEW k \in DOMAIN G, k > Call.depth PROVE Call.func <= Origin(G[k]) /\ G[k].kind # "fp"
    <3>1. CASE k \in 1..Len(ci)
      <4>1. Call.func <= Origin(ci[k]) /\ ci[k].kind = "lua"
        BY <3>1, <2>1, <1>0, <1>1, LastCall
      <4> QED BY <4>1, <3>1, <1>2
    <3>2. CASE k = Len(ci) + 1
      BY <3>2, <1>2, <1>3
    <3> QED BY <3>1, <3>2, <1>1, <1>2
  <2> QED BY <2>1, <1>1 DEF OwnAbove
<1>6. Busy(G, calls[j], Len(G))
  <2>1. Call.from = 0 /\ Call.n = 0
    BY <1>0, Running
  <2>2. Len(G) > Call.depth
    BY <1>1, <1>2
  <2> QED BY <2>1, <2>2, <1>0, <1>1 DEF Busy
<1>7. TopAbove(G, calls, t2)
  <2>1. 0 < t2 /\ Call.func < t2
    BY <1>1, <1>3
  <2> QED BY <2>1, <1>0, <1>1, <1>2 DEF TopAbove
<1>8. \A s \in declared \cup openupval : s \in Nat /\ s < Next1(Now)
  BY <1>0, InFunction
<1>9. \A s \in declared \cup openupval : s >= Call.func => \E k \in DOMAIN G : s \in Registers(G[k])
  <2>1. ASSUME NEW s \in declared \cup openupval, s >= Call.func
        PROVE  \E k \in DOMAIN G : s \in Registers(G[k])
    <3>1. s < Call.func \/ \E k \in DOMAIN ci : s \in Registers(ci[k])
      BY <1>0, Whereabouts DEF Settled, Call
    <3>2. ~(s < Call.func)
      BY <2>1, <1>1, <1>8
    <3>3. PICK k \in DOMAIN ci : s \in Registers(ci[k])
      BY <3>1, <3>2
    <3>4. k \in DOMAIN G /\ G[k] = ci[k]
      BY <1>1, <1>2
    <3> QED BY <3>3, <3>4
  <2> QED BY <2>1
<1>10. StillWait(calls, G, calls, j, t2, declared, declared)
  <2>1. \A s \in declared : s < t2
    <3>1. ASSUME NEW s \in declared PROVE s < t2
      <4>1. s \in Nat /\ s < Next1(Now)
        BY <1>8
      <4> QED BY <4>1, <1>1, <1>3
    <3> QED BY <3>1
  <2> QED BY <2>1, <1>1, <1>9 DEF StillWait
<1>11. StillOpen(calls, G, calls, j, openupval, openupval)
  BY <1>0, <1>1, <1>9 DEF StillOpen
<1>12. Placed(G, calls, t2, declared, openupval)
  BY <1>1, <1>2, <1>4, <1>5, <1>6, <1>7, <1>10, <1>11, Continues, Zenon
<1> QED BY <1>12 DEF G

(* What a function writes above its registers                              *)
LEMMA NewSlots ==
    ASSUME Settled, Runs, NEW m \in Int, Write(Next1(Now)..m)
    PROVE  lost' = {}
<1>1. Next1(Now) \in Int /\ \A s \in Live : s \in Int /\ s < Next1(Now)
  BY WhileRuns
<1>2. \A s \in Next1(Now)..m : s \in Int /\ Next1(Now) <= s
  BY <1>1
<1> QED BY <1>1, <1>2, WrittenAbove

(* The frame that luaD_precall makes for a Lua function                    *)
LEMMA LuaFrame ==
    ASSUME NEW func \in Nat \ {0}, NEW wanted \in {-1, 0, 1}, NEW args
    PROVE  LET g == Frame("lua", func, func + 1 + FrameSize, wanted, Entered(args))
           IN  g \in Frames /\ FrameShape(g) /\ g.kind = "lua" /\ Origin(g) = func /\ Base(g) = func + 1
<1> DEFINE next == Entered(args)
<1>1. next \in {"any", "prep", "open"}
  BY DEF Entered
<1> HIDE DEF next
<1>2. LET g == Frame("lua", func, func + 1 + FrameSize, wanted, next)
      IN  g \in Frames /\ FrameShape(g) /\ g.kind = "lua" /\ Origin(g) = func /\ Base(g) = func + 1
  BY <1>1, SlotsAssumption DEF Frames, Frame, FrameShape, Base, Next1, Origin
<1> QED BY <1>2 DEF next

(* A call of a Lua function, or its error                                  *)
LEMMA CallLuaPlaces ==
    ASSUME Settled, NEW wanted \in {-1, 1}, NEW args \in {0, MaxArgs}, CallLua(wanted, args)
    PROVE  Settled'
<1> DEFINE func == Next1(Now)
           t == func + 1 + args
           g == Frame("lua", func, func + 1 + FrameSize, wanted, Entered(args))
           fits == Tight(t, FrameSize) => CanGrow(t, FrameSize)
<1>1. /\ Runs /\ top' = t /\ Write(func..t - 1) /\ declared' = declared
      /\ fits => ci' = Append(ci, g) /\ openupval' = openupval /\ calls' = calls
      /\ ~fits => Fail(calls)
  BY DEF CallLua, KeepList
<1>2. /\ func \in Nat \ {0} /\ args \in Nat /\ t \in Nat /\ func + 1 <= t /\ t - 1 \in Int
      /\ Call.func < t
      /\ calls # <<>> /\ declared \in SUBSET Nat
  <2>1. /\ func \in Nat /\ Base(Now) \in Nat /\ Base(Now) <= func /\ Origin(Now) \in Nat \ {0}
        /\ Origin(Now) < Base(Now) /\ Call.func \in Nat /\ Call.func <= Origin(Now)
        /\ calls # <<>> /\ declared \in SUBSET Nat
    BY <1>1, WhileRuns
  <2>2. args \in Nat
    BY SlotsAssumption
  <2> HIDE DEF func
  <2> QED BY <2>1, <2>2
<1>3. \A s \in declared : s < t
  <2>1. ASSUME NEW s \in declared PROVE s < t
    <3>1. s \in Nat /\ s < func
      BY <1>1, WhileRuns
    <3> HIDE DEF func
    <3> QED BY <3>1, <1>2
  <2> QED BY <2>1
<1>4. lost' = {}
  BY <1>1, <1>2, NewSlots
<1>5. CASE fits
  <2>1. wanted \in {-1, 0, 1}
    OBVIOUS
  <2>2. g \in Frames /\ FrameShape(g) /\ g.kind = "lua" /\ Origin(g) = func /\ Base(g) = func + 1
    BY <1>2, <2>1, LuaFrame
  <2> HIDE DEF g
  <2>3. Placed(Append(ci, g), calls, t, declared, openupval)
    BY <1>1, <1>2, <2>2, Pushes
  <2> QED BY <2>3, <1>1, <1>4, <1>5 DEF Settled
<1>6. CASE ~fits
  <2>1. InPlace'
    BY <1>1, <1>2, <1>3, <1>6, FailHere
  <2> QED BY <2>1, <1>4 DEF Settled, InPlace
<1> QED BY <1>5, <1>6

(* A tail call                                                             *)
LEMMA TailCallPlaces ==
    ASSUME Settled, NEW args \in {0, MaxArgs}, TailCall(args)
    PROVE  Settled'
<1> DEFINE t == Next1(Now) + 1 + args
           m == FrameSize - Now.delta
           func == Origin(Now)
           g == Frame("lua", func, func + 1 + FrameSize, Now.wanted, Entered(args))
           fits == Tight(t, m) => CanGrow(t, m)
<1>1. /\ Runs /\ declared' = declared /\ \A s \in declared : s < Base(Now)
      /\ fits => /\ top' = func + 1 + args /\ ci' = Replaced(ci, g) /\ calls' = calls
                 /\ openupval' = {s \in openupval : s < Base(Now)}
                 /\ lost' = lost \cup (func..func + args \cap LiveIn(Front(ci), calls))
      /\ ~fits => top' = t /\ Fail(calls) /\ lost' = lost
  BY DEF TailCall, KeepList, Replacing, CloseUpvals
<1>2. /\ func \in Nat \ {0} /\ args \in Nat /\ t \in Nat /\ func + 1 + args \in Nat
      /\ func + 1 <= func + 1 + args
      /\ Call.func < t /\ Call.at # "unwind" /\ Call \in {Call, Closing(Call, "run", 0, 0, 0)}
      /\ calls # <<>> /\ declared \in SUBSET Nat /\ openupval \in SUBSET Nat
  <2>1. /\ Next1(Now) \in Nat /\ Base(Now) \in Nat /\ Base(Now) <= Next1(Now) /\ func \in Nat \ {0}
        /\ func < Base(Now) /\ Call.func \in Nat /\ Call.func <= func
        /\ calls # <<>> /\ declared \in SUBSET Nat /\ openupval \in SUBSET Nat /\ Call.at = "run"
    BY <1>1, WhileRuns
  <2>2. args \in Nat
    BY SlotsAssumption
  <2> HIDE DEF func
  <2> QED BY <2>1, <2>2
<1>3. /\ Now \in Frames /\ lost = {} /\ Call.at = "run" /\ Replaced(calls, Call) = calls
      /\ Base(Now) \in Nat /\ Next1(Now) \in Nat
      /\ \A s \in declared : s < Next1(Now)
  BY <1>1, WhileRuns
<1>4. CASE fits
  <2>1. \A x \in declared \cup openupval : x < Base(Now) => x \notin Registers(Now)
    <3>1. ASSUME NEW x \in declared \cup openupval, x < Base(Now), x \in Registers(Now) PROVE FALSE
      <4>1. x \in Nat /\ Base(Now) <= x
        BY <3>1, <1>3, RegisterBounds
      <4> QED BY <4>1, <3>1, <1>3
    <3> QED BY <3>1
  <2>2. \A x \in declared : x \notin Registers(Now)
    BY <2>1, <1>1
  <2>3. Now.wanted \in {-1, 0, 1}
    BY <1>3, FrameBounds
  <2>4. g \in Frames /\ FrameShape(g) /\ g.kind = "lua" /\ Origin(g) = func /\ Base(g) = func + 1
    <3> DEFINE next == Entered(args)
    <3>1. next \in {"any", "prep", "open"}
      BY DEF Entered
    <3>2. func \in Nat \ {0}
      BY <1>2
    <3> HIDE DEF func, next
    <3>3. IsLua(Frame("lua", func, func + 1 + FrameSize, Now.wanted, next), func)
      BY <2>3, <3>1, <3>2, NewLua
    <3> QED BY <3>3 DEF IsLua, next
  <2> HIDE DEF g
  <2>5. \A s \in declared : s < func + 1 + args
    <3>1. ASSUME NEW s \in declared PROVE s < func + 1 + args
      <4>1. s \in Nat /\ s < func
        BY <1>2, <2>2, InFunction
      <4> HIDE DEF func
      <4> QED BY <4>1, <1>2
    <3> QED BY <3>1
  <2> DEFINE V == {s \in openupval : s < Base(Now)}
  <2>6. /\ V \in SUBSET Nat /\ \A s \in V : s \in openupval /\ s \notin Registers(Now)
        /\ Base(g) <= func + 1 + args
    BY <1>2, <2>1, <2>4
  <2> HIDE DEF V
  <2>7. Placed(Replaced(ci, g), Replaced(calls, Call), func + 1 + args, declared, V)
    <3>1. \A s \in declared : /\ s < func + 1 + args
                              /\ \/ s \in Registers(g)
                                 \/ s \in declared /\ s \notin Registers(Now)
      BY <2>2, <2>5
    <3>2. \A s \in V : \/ s \in Registers(g)
                       \/ s \in openupval /\ s \notin Registers(Now)
      BY <2>6
    <3> QED BY <1>2, <1>3, <2>4, <2>6, <3>1, <3>2, Uses
  <2>8. lost' = {}
    <3>1. \A s \in LiveIn(Front(ci), calls) : s \in Int /\ s < func
      BY <1>1, <2>2, BelowNow
    <3>2. \A s \in func..func + args : s \in Int /\ func <= s
      BY <1>2
    <3>3. lost \cup (func..func + args \cap LiveIn(Front(ci), calls)) = {}
      BY <1>2, <1>3, <3>1, <3>2, Unharmed
    <3> QED BY <1>1, <1>4, <3>3
  <2> QED BY <1>1, <1>3, <1>4, <2>7, <2>8 DEF Settled, V
<1>5. CASE ~fits
  <2>1. \A s \in declared : s < t
    <3>1. ASSUME NEW s \in declared PROVE s < t
      <4>1. s \in Nat /\ s < Next1(Now)
        BY <1>2, <1>3
      <4> QED BY <4>1, <1>2, <1>3
    <3> QED BY <3>1
  <2>2. InPlace'
    BY <1>1, <1>2, <1>5, <2>1, FailHere
  <2> QED BY <2>2, <1>1, <1>3, <1>5 DEF Settled, InPlace
<1> QED BY <1>4, <1>5

(* The prologue of a vararg function                                       *)
LEMMA VarargPrepPlaces ==
    ASSUME Settled, VarargPrep
    PROVE  Settled'
<1> DEFINE by == top - Now.func
           fits == Tight(top, FrameSize + 1) => CanGrow(top, FrameSize + 1)
           g == [Now EXCEPT !.func = @ + by, !.top = @ + by, !.delta = by, !.next = "any"]
<1>1. /\ calls # <<>> /\ Call.at = "run" /\ Now.next = "prep" /\ Call.at # "unwind"
      /\ declared' = declared
      /\ fits => /\ top' = top + 1 /\ ci' = Replaced(ci, g) /\ Write({top})
                 /\ openupval' = openupval /\ calls' = calls
      /\ ~fits => Fail(calls) /\ top' = top /\ lost' = lost
  BY DEF VarargPrep, KeepList
<1>2. /\ Now \in Frames /\ FrameShape(Now) /\ Now.kind = "lua" /\ Base(Now) <= top
      /\ top \in Nat /\ Base(Now) \in Nat /\ Next1(Now) \in Nat
      /\ declared \in SUBSET Nat /\ openupval \in SUBSET Nat
      /\ Call.func < top /\ \A s \in declared : s < top
      /\ Replaced(calls, Call) = calls
      /\ \A s \in Live : s \in Int /\ s < Next1(Now)
  BY <1>1, InCall, Running
<1>3. Now.func \in Nat /\ Now.act = 0 /\ Next1(Now) = Base(Now) /\ Base(Now) = Now.func + 1
  BY <1>1, <1>2, FrameBounds DEF FrameShape, Next1, Base
<1>4. by \in Nat /\ Base(Now) + by = top + 1
  <2> DEFINE b == Base(Now)
  <2>1. b \in Nat /\ b = Now.func + 1 /\ b <= top
    BY <1>2, <1>3
  <2> HIDE DEF b
  <2>2. by \in Nat /\ b + by = top + 1
    BY <1>2, <1>3, <2>1
  <2> QED BY <2>2 DEF b
<1>5. CASE fits
  <2>1. /\ g \in Frames /\ FrameShape(g) /\ g.kind = "lua" /\ Origin(g) = Origin(Now)
        /\ Base(g) = top + 1
    BY <1>1, <1>2, <1>4, Moved
  <2> HIDE DEF g
  <2>2. \A s : s \notin Registers(Now)
    <3>1. ASSUME NEW s \in Registers(Now) PROVE FALSE
      BY <1>2, <1>3, RegisterBounds
    <3> QED BY <3>1
  <2>3. \A s \in declared : /\ s < top + 1
                            /\ \/ s \in Registers(g)
                               \/ s \in declared /\ s \notin Registers(Now)
    <3>1. ASSUME NEW s \in declared PROVE s < top + 1
      BY <1>2
    <3> QED BY <3>1, <2>2
  <2>4. \A s \in openupval : \/ s \in Registers(g)
                             \/ s \in openupval /\ s \notin Registers(Now)
    BY <2>2
  <2>5. top + 1 \in Nat /\ Base(g) <= top + 1 /\ Call \in {Call, Closing(Call, "run", 0, 0, 0)}
    BY <1>2, <2>1
  <2>6. Placed(Replaced(ci, g), Replaced(calls, Call), top + 1, declared, openupval)
    BY <1>1, <1>2, <2>1, <2>3, <2>4, <2>5, Uses
  <2>7. lost' = {}
    <3>1. \A s \in {top} : s \in Int /\ Next1(Now) <= s
      BY <1>2, <1>3
    <3>2. Next1(Now) \in Int
      BY <1>2
    <3> QED BY <1>1, <1>2, <1>5, <3>1, <3>2, WrittenAbove
  <2> QED BY <1>1, <1>2, <1>5, <2>6, <2>7 DEF Settled
<1>6. CASE ~fits
  <2>1. InPlace'
    BY <1>1, <1>2, <1>6, FailHere
  <2> QED BY <2>1, <1>1, <1>6 DEF Settled, InPlace
<1> QED BY <1>5, <1>6

(* The arguments of a vararg function                                      *)
LEMMA VarargPlaces ==
    ASSUME Settled, Vararg
    PROVE  Settled'
<1> DEFINE n == Now.delta - 1
           fits == Tight(Now.top, n) => CanGrow(Now.top, n)
           g == [Now EXCEPT !.next = "open"]
           x == Next1(Now)
<1>1. /\ Runs /\ Now.delta > 0 /\ declared' = declared
      /\ fits => /\ top' = x + n /\ ci' = Replaced(ci, g) /\ Write(x..x + n - 1)
                 /\ openupval' = openupval /\ calls' = calls
      /\ ~fits => Fail(calls) /\ top' = Now.top /\ lost' = lost
  BY DEF Vararg, KeepList
<1>2. /\ Now \in Frames /\ FrameShape(Now) /\ Now.kind = "lua" /\ Call.at # "unwind" /\ calls # <<>>
      /\ Base(Now) \in Nat /\ x \in Nat /\ Now.top \in Nat /\ Base(Now) <= x /\ x <= Now.top
      /\ declared \in SUBSET Nat /\ openupval \in SUBSET Nat /\ Call.at = "run"
      /\ Origin(Now) \in Nat /\ Call.func \in Nat /\ Call.func <= Origin(Now) /\ Origin(Now) < Base(Now)
      /\ \A s \in declared : s < x
      /\ Replaced(calls, Call) = calls /\ lost = {}
      /\ Call \in {Call, Closing(Call, "run", 0, 0, 0)}
  BY <1>1, WhileRuns
<1>3. n \in Nat
  BY <1>1, <1>2, FrameBounds
<1>4. /\ g \in Frames /\ FrameShape(g) /\ g.kind = "lua" /\ Origin(g) = Origin(Now)
      /\ Base(g) = Base(Now) /\ Registers(g) = Registers(Now)
  BY <1>2, WithNext
<1> HIDE DEF n, g, x
<1>5. x + n \in Nat /\ Base(Now) <= x + n /\ x + n - 1 \in Int
  BY <1>2, <1>3
<1>6. CASE fits
  <2>1. \A s \in declared : /\ s < x + n
                            /\ \/ s \in Registers(g)
                               \/ s \in declared /\ s \notin Registers(Now)
    <3>1. ASSUME NEW s \in declared PROVE s < x + n
      BY <1>2, <1>3
    <3> QED BY <3>1, <1>4
  <2>2. \A s \in openupval : \/ s \in Registers(g)
                             \/ s \in openupval /\ s \notin Registers(Now)
    BY <1>4
  <2>3. Base(g) <= x + n
    BY <1>4, <1>5
  <2>4. Placed(Replaced(ci, g), Replaced(calls, Call), x + n, declared, openupval)
    BY <1>2, <1>4, <1>5, <2>1, <2>2, <2>3, Uses
  <2>5. lost' = {}
    BY <1>1, <1>5, <1>6, NewSlots DEF x
  <2> QED BY <1>1, <1>2, <1>6, <2>4, <2>5 DEF Settled
<1>7. CASE ~fits
  <2>1. \A s \in declared : s < Now.top
    <3>1. ASSUME NEW s \in declared PROVE s < Now.top
      BY <1>2
    <3> QED BY <3>1
  <2>2. Call.func < Now.top
    BY <1>2
  <2>3. InPlace'
    BY <1>1, <1>2, <1>7, <2>1, <2>2, FailHere
  <2> QED BY <2>3, <1>1, <1>2, <1>7 DEF Settled, InPlace
<1> QED BY <1>6, <1>7

(* A call of a metamethod                                                  *)
LEMMA CallMetamethodPlaces ==
    ASSUME Settled, CallMetamethod
    PROVE  Settled'
<1>1. /\ Runs /\ Precall(Now.top, Now.top + 3, 1, "op", ci) /\ Write(Now.top..Now.top + 2)
      /\ openupval' = openupval /\ declared' = declared
  BY DEF CallMetamethod, KeepList
<1>2. /\ calls # <<>> /\ Call.at # "unwind" /\ Now.top \in Nat /\ Next1(Now) \in Nat /\ Next1(Now) <= Now.top
      /\ Call.func \in Nat /\ Call.func <= Origin(Now) /\ Origin(Now) \in Nat
      /\ Origin(Now) < Base(Now) /\ Base(Now) \in Nat /\ Base(Now) <= Next1(Now)
      /\ declared \in SUBSET Nat /\ openupval \in SUBSET Nat
      /\ \A s \in declared \cup openupval : s < Next1(Now)
      /\ \A s \in Live : s \in Int /\ s < Next1(Now)
      /\ Call.at = "run"
  BY <1>1, WhileRuns
<1>3. /\ Placed(ci, calls, top, declared, openupval) /\ ci \in Seq(Frames) /\ FramesStacked(ci)
      /\ Len(ci) \in Nat
  BY <1>2, InCall DEF Settled
<1>4. Call.from = 0 /\ Call.n = 0
  BY <1>2, Running
<1>5. /\ Next1(Last(ci)) <= Now.top /\ Last(calls).func < Now.top
      /\ Last(calls).from + Last(calls).n <= Now.top
  BY <1>2, <1>4 DEF Now, Call
<1>6. \A s \in declared \cup openupval : s < Now.top
  <2>1. ASSUME NEW s \in declared \cup openupval PROVE s < Now.top
    <3>1. s \in Nat /\ s < Next1(Now)
      BY <1>2
    <3> QED BY <3>1, <1>2
  <2> QED BY <2>1
<1>7. /\ Now.top + 3 \in Nat /\ Now.top < Now.top + 3 /\ 1 \in {-1, 0, 1}
      /\ "op" \in {"op", "pcall", "closer"} /\ declared \in SUBSET declared
      /\ Len(ci) <= Len(ci) /\ \A k \in 1..Len(ci) : ci[k] = ci[k]
  BY <1>2, <1>3
<1>8. Called1(ci, calls, Now.top, 1, "op", Now.top + 3, declared, openupval)
  BY <1>2, <1>3, <1>5, <1>6, <1>7, Precalled
<1>9. InPlace'
  BY <1>1, <1>8, PrecallPlaces
<1>10. lost' = {}
  <2>1. \A s \in Now.top..Now.top + 2 : s \in Int /\ Next1(Now) <= s
    BY <1>2
  <2>2. Next1(Now) \in Int
    BY <1>2
  <2> QED BY <1>1, <1>2, <2>1, <2>2, WrittenAbove
<1> QED BY <1>9, <1>10 DEF Settled, InPlace

(* A call of pcall                                                         *)
LEMMA CallPcallPlaces ==
    ASSUME Settled, NEW wanted \in {-1, 1}, CallPcall(wanted)
    PROVE  Settled'
<1> DEFINE x == Next1(Now)
           g == Frame("fp", x, x + 2, wanted, "any")
           H == Append(ci, g)
<1>1. /\ Runs /\ Precall(x + 1, x + 2, -1, "pcall", H) /\ Write({x, x + 1})
      /\ openupval' = openupval /\ declared' = declared
  BY DEF CallPcall, KeepList
<1>2. /\ calls # <<>> /\ Call.at # "unwind" /\ x \in Nat
      /\ Call.func \in Nat /\ Call.func <= Origin(Now) /\ Origin(Now) \in Nat \ {0}
      /\ Origin(Now) < Base(Now) /\ Base(Now) \in Nat /\ Base(Now) <= x
      /\ declared \in SUBSET Nat /\ openupval \in SUBSET Nat
      /\ \A s \in declared \cup openupval : s < x
      /\ \A s \in Live : s \in Int /\ s < x
      /\ Call.at = "run"
  BY <1>1, WhileRuns
<1>3. /\ Placed(ci, calls, top, declared, openupval) /\ ci \in Seq(Frames) /\ FramesStacked(ci)
      /\ Len(ci) \in Nat
  BY <1>2, InCall DEF Settled
<1>4. Call.from = 0 /\ Call.n = 0
  BY <1>2, Running
<1> HIDE DEF x, g, H
<1>5. x \in Nat \ {0} /\ Call.func < x
  BY <1>2
<1>6. g \in Frames /\ FrameShape(g) /\ g.kind = "fp" /\ Origin(g) = x /\ Base(g) = x + 1 /\ Next1(g) = x + 1
  <2>1. wanted \in {-1, 0, 1}
    OBVIOUS
  <2> QED BY <1>5, <2>1, SlotsAssumption DEF g, Frames, Frame, FrameShape, Base, Next1, Origin
<1>7. Next1(Last(ci)) <= Origin(g)
  BY <1>2, <1>6 DEF Now, x
<1>8. /\ H \in Seq(Frames) /\ FramesStacked(H) /\ Len(H) = Len(ci) + 1
      /\ \A k \in 1..Len(ci) : H[k] = ci[k]
      /\ Last(H) = g
  BY <1>3, <1>6, <1>7, PushStacked, AppendedFrame DEF H
<1>9. /\ Next1(Last(H)) <= x + 1 /\ Last(calls).func < x + 1
      /\ Last(calls).from + Last(calls).n <= x + 1
      /\ Last(H).kind = "fp" /\ x + 1 = Base(Last(H)) /\ Last(calls).at = "run"
  BY <1>2, <1>4, <1>5, <1>6, <1>8 DEF Call
<1>10. \A s \in declared \cup openupval : s < x + 1
  <2>1. ASSUME NEW s \in declared \cup openupval PROVE s < x + 1
    <3>1. s \in Nat /\ s < x
      BY <1>2
    <3> QED BY <3>1, <1>2
  <2> QED BY <2>1
<1>11. /\ x + 1 \in Nat /\ x + 2 \in Nat /\ x + 1 < x + 2 /\ -1 \in {-1, 0, 1}
       /\ "pcall" \in {"op", "pcall", "closer"} /\ declared \in SUBSET declared
       /\ Len(ci) <= Len(H)
  BY <1>2, <1>3, <1>8
<1>12. Called1(H, calls, x + 1, -1, "pcall", x + 2, declared, openupval)
  BY <1>2, <1>3, <1>8, <1>9, <1>10, <1>11, Precalled
<1>13. InPlace'
  BY <1>1, <1>12, PrecallPlaces
<1>14. lost' = {}
  <2>1. \A s \in {x, x + 1} : s \in Int /\ x <= s
    BY <1>2
  <2>2. x \in Int
    BY <1>2
  <2> QED BY <1>1, <1>2, <2>1, <2>2, WrittenAbove
<1> QED BY <1>13, <1>14 DEF Settled, InPlace

(* The next closing method: one in Lua, one in Rust                        *)
LEMMA CloseNextPlaces ==
    ASSUME Settled, CloseNext
    PROVE  Settled'
<1>1. /\ Closes /\ Precall(top, top + 3, 0, "closer", ci) /\ Write(top..top + 2)
      /\ openupval' = openupval /\ declared' = declared \ {tbclist}
  BY DEF CloseNext, Pop
<1>2. calls # <<>> /\ Call.at # "run"
  BY <1>1 DEF Closes
<1>3. /\ Placed(ci, calls, top, declared, openupval) /\ ci \in Seq(Frames) /\ FramesStacked(ci)
      /\ Len(ci) \in Nat /\ top \in Nat /\ Call.func < top
  BY <1>2, InCall DEF Settled
<1>4. /\ \A s \in declared \cup openupval : s < top
      /\ \A s \in Live : s \in Int /\ s < top
      /\ Next1(Now) <= top /\ Call.from + Call.n <= top
  BY <1>1, AtClose
<1>5. /\ Next1(Last(ci)) <= top /\ Last(calls).func < top
      /\ Last(calls).from + Last(calls).n <= top
  BY <1>3, <1>4 DEF Now, Call
<1>6. /\ top + 3 \in Nat /\ top < top + 3 /\ 0 \in {-1, 0, 1}
      /\ "closer" \in {"op", "pcall", "closer"} /\ declared' \in SUBSET declared
      /\ Len(ci) <= Len(ci) /\ \A k \in 1..Len(ci) : ci[k] = ci[k]
  BY <1>1, <1>3
<1>7. Called1(ci, calls, top, 0, "closer", top + 3, declared', openupval)
  BY <1>2, <1>3, <1>4, <1>5, <1>6, Precalled
<1>8. InPlace'
  BY <1>1, <1>7, PrecallPlaces
<1>9. lost' = {}
  <2>1. \A s \in top..top + 2 : s \in Int /\ top <= s
    BY <1>3
  <2>2. top \in Int
    BY <1>3
  <2> QED BY <1>1, <1>4, <2>1, <2>2, WrittenAbove
<1> QED BY <1>8, <1>9 DEF Settled, InPlace

(* CloseNextFp: a __close that is a Rust function runs at once, and an     *)
(* error of it unwinds.                                                    *)
LEMMA CloseNextFpPlaces ==
    ASSUME Settled, NEW fails \in BOOLEAN, CloseNextFp(fails)
    PROVE  Settled'
<1>1. /\ Closes /\ Write(top..top + 2) /\ top' = top /\ declared' = declared \ {tbclist}
      /\ \/ openupval' = openupval /\ ci' = ci /\ calls' = calls
         \/ Fail(calls)
  BY DEF CloseNextFp, Pop
<1>2. calls # <<>> /\ Call.at # "run"
  BY <1>1 DEF Closes
<1>3. /\ Placed(ci, calls, top, declared, openupval) /\ top \in Nat /\ Call.func < top
      /\ declared \in SUBSET Nat
  BY <1>2, InCall DEF Settled
<1>4. /\ \A s \in declared : s < top
      /\ \A s \in Live : s \in Int /\ s < top
  BY <1>1, AtClose
<1>5. lost' = {}
  <2>1. \A s \in top..top + 2 : s \in Int /\ top <= s
    BY <1>3
  <2>2. top \in Int
    BY <1>3
  <2> QED BY <1>1, <1>4, <2>1, <2>2, WrittenAbove
<1>6. CASE Fail(calls)
  <2>1. InPlace'
    BY <1>1, <1>2, <1>3, <1>4, <1>6, FailHere
  <2> QED BY <2>1, <1>5 DEF Settled, InPlace
<1>7. CASE openupval' = openupval /\ ci' = ci /\ calls' = calls
  <2>1. Waiting(ci, calls, top, declared')
    BY <1>1, <1>3 DEF Placed, Waiting
  <2>2. Placed(ci, calls, top, declared', openupval)
    BY <1>1, <1>3, <2>1 DEF Placed
  <2> QED BY <1>1, <1>5, <1>7, <2>2 DEF Settled
<1> QED BY <1>1, <1>6, <1>7

(* OP_CLOSE and OP_RETURN turn to luaF_close.                              *)
LEMMA TurnsToClose ==
    ASSUME Settled, calls # <<>>, Call.at = "run",
           NEW e \in Activations, e.func = Call.func, e.depth = Call.depth, e.by = Call.by,
           e.at \in {"close", "return"}, Busy(ci, e, Len(ci)),
           NEW t2 \in Nat, Next1(Now) <= t2, e.at = "return" => e.from + e.n <= t2
    PROVE  Placed(ci, Replaced(calls, e), t2, declared, {s \in openupval : s < e.level})
<1> DEFINE B == Replaced(calls, e)  j == Len(calls)  V == {s \in openupval : s < e.level}
<1>1. /\ Placed(ci, calls, top, declared, openupval)
      /\ ci \in Seq(Frames) /\ FramesStacked(ci) /\ calls \in Seq(Activations)
      /\ Call = calls[j] /\ j \in DOMAIN calls /\ DOMAIN ci = 1..Len(ci) /\ Len(ci) \in Nat \ {0}
      /\ Call.func \in Nat /\ Call.depth \in 1..Len(ci) /\ Len(ci) > Call.depth
      /\ Call.func <= Origin(Now) /\ Origin(Now) \in Nat /\ Origin(Now) < Base(Now)
      /\ Base(Now) <= Next1(Now) /\ Base(Now) \in Nat /\ Next1(Now) \in Nat
      /\ declared \in SUBSET Nat /\ openupval \in SUBSET Nat
      /\ \A s \in declared : 0 < s
      /\ Last(ci) = Now /\ Last(calls) = Call
  BY InCall DEF Settled, Now, Call
<1>2. /\ B \in Seq(Activations) /\ Len(B) = j /\ B # <<>>
      /\ \A i \in 1..j - 1 : B[i] = calls[i]
      /\ B[j] = e /\ Last(B) = e
  BY <1>1, ReplacedCall
<1>3. V \in SUBSET Nat /\ \A s \in V : s \in openupval /\ s < e.level
  BY <1>1
<1> HIDE DEF B, j, V
<1>4. Resumes(ci, calls, ci, B, j)
  <2>1. Call.depth <= Len(ci)
    BY <1>1
  <2> QED BY <2>1, <1>1, <1>2 DEF Resumes
<1>5. OwnAbove(calls, ci, j)
  <2>1. ASSUME NEW k \in DOMAIN ci, k > Call.depth PROVE Call.func <= Origin(ci[k]) /\ ci[k].kind # "fp"
    <3>1. Call.func <= Origin(ci[k]) /\ ci[k].kind = "lua"
      BY <2>1, <1>1, LastCall
    <3> QED BY <3>1
  <2> QED BY <2>1, <1>1 DEF OwnAbove
<1>6. Busy(ci, B[j], Len(ci))
  BY <1>2
<1>7. TopAbove(ci, B, t2)
  <2>1. 0 < t2 /\ Call.func < t2
    BY <1>1
  <2> QED BY <2>1, <1>1, <1>2 DEF TopAbove
<1>8. \A s \in declared \cup openupval : s \in Nat /\ s < Next1(Now)
  BY InFunction
<1>9. \A s \in declared \cup openupval : s >= Call.func => \E k \in DOMAIN ci : s \in Registers(ci[k])
  <2>1. ASSUME NEW s \in declared \cup openupval, s >= Call.func
        PROVE  \E k \in DOMAIN ci : s \in Registers(ci[k])
    <3>1. s < Call.func \/ \E k \in DOMAIN ci : s \in Registers(ci[k])
      BY Whereabouts DEF Settled, Call
    <3>2. ~(s < Call.func)
      BY <2>1, <1>1, <1>8
    <3> QED BY <3>1, <3>2
  <2> QED BY <2>1
<1>10. StillWait(calls, ci, B, j, t2, declared, declared)
  <2>1. \A s \in declared : s < t2
    <3>1. ASSUME NEW s \in declared PROVE s < t2
      <4>1. s \in Nat /\ s < Next1(Now)
        BY <1>8
      <4> QED BY <4>1, <1>1
    <3> QED BY <3>1
  <2> QED BY <2>1, <1>1, <1>9 DEF StillWait
<1>11. StillOpen(calls, ci, B, j, openupval, V)
  BY <1>1, <1>2, <1>3, <1>9 DEF StillOpen
<1>12. Placed(ci, B, t2, declared, V)
  BY <1>1, <1>2, <1>3, <1>4, <1>5, <1>6, <1>7, <1>10, <1>11, Continues, Zenon
<1> QED BY <1>12 DEF B, V

(* Close: the end of a block closes its variables, or has none.            *)
LEMMA ClosePlaces ==
    ASSUME Settled, NEW n \in 0..Now.act - 1, Close(n)
    PROVE  Settled'
<1> DEFINE level == Base(Now) + n
           e == Closing(Call, "close", level, 0, 0)
<1>1. /\ Runs /\ openupval' = {s \in openupval : s < level} /\ calls' = Replaced(calls, e)
      /\ top' = Now.top /\ ci' = ci /\ declared' = declared /\ lost' = lost
  BY DEF Close, CloseUpvals
<1>2. /\ calls # <<>> /\ Call.at = "run" /\ lost = {} /\ Call.at # "unwind"
      /\ Base(Now) \in Nat /\ Next1(Now) \in Nat /\ Next1(Now) = Base(Now) + Now.act
      /\ Now.act \in Nat /\ Now.top \in Nat /\ Next1(Now) <= Now.top
  BY <1>1, WhileRuns
<1>3. /\ Call \in Activations /\ Busy(ci, Call, Len(ci)) /\ Now = ci[Len(ci)]
  BY <1>2, InCall
<1>4. n \in Nat /\ level \in Nat /\ level \in Base(Now)..Next1(Now)
  <2> DEFINE b == Base(Now)  x == Next1(Now)
  <2>1. b \in Nat /\ x \in Nat /\ x = b + Now.act /\ Now.act \in Nat
    BY <1>2
  <2> HIDE DEF b, x
  <2>2. b + n \in b..x /\ n \in Nat /\ b + n \in Nat
    BY <2>1
  <2> QED BY <2>2 DEF b, x
<1> HIDE DEF level
<1>5. /\ e \in Activations /\ e.func = Call.func /\ e.depth = Call.depth /\ e.by = Call.by
      /\ e.at = "close" /\ e.level = level /\ e.from = 0 /\ e.n = 0
  BY <1>3, <1>4 DEF Closing, Activations
<1> HIDE DEF e
<1>6. Busy(ci, e, Len(ci))
  BY <1>2, <1>3, <1>4, <1>5 DEF Busy
<1>7. Placed(ci, Replaced(calls, e), Now.top, declared, {s \in openupval : s < e.level})
  BY <1>2, <1>5, <1>6, TurnsToClose
<1> QED BY <1>1, <1>2, <1>5, <1>7 DEF Settled

(* pcall ends.                                                             *)
LEMMA PcallEndsPlaces ==
    ASSUME Settled, calls # <<>>, Call.by = "pcall", NEW t \in Nat, Call.func <= t, NEW k \in {1, 4},
           \A s \in declared \cup openupval : s < Call.func, declared' = declared, PcallEnds(t, k)
    PROVE  Settled'
<1> DEFINE p == ci[Call.depth]
           end == Larger(p.top, t)
           grows == t + k > end /\ Tight(end, Reserve)
           n == t + k - Base(p)
           m == Call.depth - 1
           L == LiveIn(SubSeq(ci, 1, m), Front(calls))
           fits == grows => CanGrow(end, Reserve)
<1>1. /\ Placed(ci, calls, top, declared, openupval) /\ lost = {}
      /\ ci \in Seq(Frames) /\ FramesStacked(ci) /\ calls \in Seq(Activations) /\ CallsStacked(ci, calls)
      /\ declared \in SUBSET Nat /\ openupval \in SUBSET Nat /\ Call.func \in Nat
      /\ Len(calls) \in Nat /\ DOMAIN ci = 1..Len(ci) /\ Len(ci) \in Nat
      /\ Last(calls) = Call
  BY InCall, CallsFacts DEF Settled, Call
<1>2. /\ Len(calls) - 1 \in DOMAIN calls /\ Len(calls) - 1 \in Nat \ {0}
      /\ calls[Len(calls) - 1].func \in Nat /\ calls[Len(calls) - 1].func < Call.func
      /\ Busy(ci, calls[Len(calls) - 1], Call.depth) /\ calls[Len(calls) - 1].at = "run"
      /\ Call.depth \in 1..Len(ci) /\ p.kind = "fp" /\ Call.func = Base(p)
  BY <1>1, BelowLast DEF Call
<1>3. p \in Frames /\ FrameShape(p) /\ Call.depth \in DOMAIN ci /\ Call.depth # 1
  <2>1. ci[1].kind = "base"
    BY <1>1 DEF FramesStacked
  <2>2. Call.depth \in DOMAIN ci
    BY <1>1, <1>2
  <2>3. Call.depth # 1
    BY <2>1, <1>2
  <2> QED BY <2>2, <2>3, <1>1, StackedFacts
<1>4. /\ p.func \in Nat /\ p.top = p.func + 2 /\ Origin(p) = p.func /\ Base(p) = p.func + 1
      /\ p.wanted \in {-1, 0, 1}
  <2>1. p.kind = "fp" /\ FrameShape(p) /\ Base(p) = p.func + 1
    BY <1>2, <1>3, Zenon DEF Base
  <2>2. p.delta = 0 /\ p.top = p.func + 2
    BY <2>1 DEF FrameShape
  <2>3. p.func \in Nat /\ p.wanted \in {-1, 0, 1}
    BY <1>3, FrameBounds, Zenon
  <2>4. Origin(p) = p.func
    BY <2>2, <2>3 DEF Origin
  <2> QED BY <2>1, <2>2, <2>3, <2>4, Zenon
<1>5. /\ n \in Nat /\ Arriving(p, n) \in Nat /\ Call.func = p.func + 1
      /\ end \in Nat /\ Call.func <= end
  <2> DEFINE b == Base(p)  q == p.func  x == p.top
  <2>1. Call.func = b /\ b = q + 1 /\ q \in Nat /\ x = q + 2 /\ b <= t /\ k \in Nat
    BY <1>2, <1>4
  <2> HIDE DEF b, q, x
  <2>2. t + k - b \in Nat /\ Larger(x, t) \in Nat /\ b <= Larger(x, t)
    BY <2>1 DEF Larger
  <2>3. n \in Nat /\ end \in Nat /\ Call.func <= end /\ Call.func = p.func + 1
    BY <2>1, <2>2 DEF b, q, x
  <2> HIDE DEF n, end
  <2>4. Arriving(p, n) \in Nat
    BY <1>4, <2>3 DEF Arriving
  <2> QED BY <2>3, <2>4
<1>6. /\ fits => /\ top' = p.func + Arriving(p, n)
                 /\ ci' = Resumed(SubSeq(ci, 1, m), p.wanted) /\ calls' = Front(calls)
                 /\ openupval' = openupval
                 /\ lost' = lost \cup ((p.func..p.func + Arriving(p, n) - 1) \cap L)
      /\ ~fits => top' = end /\ Fail(Front(calls)) /\ lost' = lost
  BY DEF PcallEnds, Move
<1> HIDE DEF end, grows, n, L
<1>7. CASE fits
  <2>1. ASSUME NEW t2 \in Nat, p.func <= t2
        PROVE  Placed(Resumed(SubSeq(ci, 1, m), p.wanted), Front(calls), t2, declared, openupval)
    BY <1>1, <2>1, PcallReturns DEF Call
  <2>2. p.func + Arriving(p, n) \in Nat /\ p.func <= p.func + Arriving(p, n)
    BY <1>4, <1>5
  <2>3. Placed(Resumed(SubSeq(ci, 1, m), p.wanted), Front(calls), p.func + Arriving(p, n),
               declared, openupval)
    BY <2>1, <2>2
  <2>4. \A s \in declared : s < p.func
    <3>1. p.func <= p.func
      BY <1>4
    <3>2. Placed(Resumed(SubSeq(ci, 1, m), p.wanted), Front(calls), p.func, declared, openupval)
      BY <3>1, <1>4, <2>1
    <3> QED BY <3>2 DEF Placed, Waiting
  <2>5. /\ SubSeq(ci, 1, m) \in Seq(Frames)
        /\ \A i \in DOMAIN SubSeq(ci, 1, m) : Next1(SubSeq(ci, 1, m)[i]) <= p.func
    <3>1. m \in 1..Len(ci) /\ m < Call.depth /\ m \in Int /\ Call.depth \in Int
      BY <1>1, <1>2, <1>3
    <3> HIDE DEF m
    <3>2. /\ SubSeq(ci, 1, m) \in Seq(Frames) /\ DOMAIN SubSeq(ci, 1, m) = 1..m
          /\ \A i \in 1..m : i \in DOMAIN ci /\ SubSeq(ci, 1, m)[i] = ci[i]
      BY <1>1, <3>1, CutStacked
    <3>3. \A i \in 1..m : i < Call.depth
      BY <3>1
    <3>4. \A i \in 1..m : Next1(ci[i]) <= Origin(p)
      BY <1>1, <1>3, <3>2, <3>3, StackedFacts
    <3> QED BY <3>2, <3>4, <1>4
  <2>6. /\ Front(calls) \in Seq(Activations) /\ DOMAIN Front(calls) = 1..Len(calls) - 1
        /\ \A i \in 1..Len(calls) - 1 : Front(calls)[i] = calls[i]
    BY <1>1, FrontCall
  <2>7. \A i \in DOMAIN Front(calls) : \/ Front(calls)[i].from = 0 /\ Front(calls)[i].n = 0
                                       \/ Front(calls)[i].from + Front(calls)[i].n <= p.func
    <3>1. ASSUME NEW i \in 1..Len(calls) - 1
          PROVE  \/ calls[i].from = 0 /\ calls[i].n = 0
                 \/ calls[i].from + calls[i].n <= p.func
      <4>1. CASE i = Len(calls) - 1
        BY <4>1, <1>2 DEF Busy
      <4>2. CASE i < Len(calls) - 1
        <5>1. i \in DOMAIN calls
          BY <1>1, <1>2, <4>2, CallsFacts
        <5>2. calls[i].from + calls[i].n <= calls[Len(calls) - 1].func
          BY <1>1, <1>2, <4>2, <5>1, CallsFacts
        <5>3. calls[i].from \in Nat /\ calls[i].n \in Nat
          BY <1>1, <5>1, CallsFacts, ActivationFields
        <5> DEFINE y == calls[i].from  z == calls[i].n  b == calls[Len(calls) - 1].func  q == p.func
        <5>4. /\ y \in Nat /\ z \in Nat /\ y + z <= b /\ b \in Nat /\ b < Call.func
              /\ q \in Nat /\ Call.func = q + 1
          BY <5>2, <5>3, <1>2, <1>4, <1>5
        <5> HIDE DEF y, z, b, q
        <5>5. y + z <= q
          BY <5>4
        <5> QED BY <5>5 DEF y, z, q
      <4> QED BY <4>1, <4>2, <1>1
    <3> QED BY <3>1, <2>6
  <2>8. \A s \in L : s \in Int /\ s < p.func
    <3>1. p.func \in Int
      BY <1>4
    <3> QED BY <3>1, <1>1, <2>4, <2>5, <2>6, <2>7, LiveParts DEF L
  <2>9. lost' = {}
    <3>1. \A s \in p.func..p.func + Arriving(p, n) - 1 : s \in Int /\ p.func <= s
      BY <1>4, <1>5
    <3>2. lost \cup ((p.func..p.func + Arriving(p, n) - 1) \cap L) = {}
      BY <1>1, <1>4, <2>8, <3>1, Unharmed
    <3> QED BY <3>2, <1>6, <1>7
  <2> QED BY <2>3, <2>9, <1>6, <1>7 DEF Settled
<1>8. CASE ~fits
  <2>1. Call.by # "host"
    OBVIOUS
  <2>2. \A s \in declared : s < end
    <3>1. ASSUME NEW s \in declared PROVE s < end
      BY <1>1, <1>5
    <3> QED BY <3>1
  <2>3. InPlace'
    BY <1>1, <1>5, <1>6, <1>8, <2>1, <2>2, FailBelow
  <2> QED BY <2>3, <1>1, <1>6, <1>8 DEF Settled, InPlace
<1> QED BY <1>7, <1>8

(* The frame of the thread alone                                           *)
LEMMA OneFrame ==
    ASSUME NEW g, IsBase(g)
    PROVE  <<g>> \in Seq(Frames) /\ FramesStacked(<<g>>) /\ Len(<<g>>) = 1
<1>1. <<g>> \in Seq(Frames) /\ Len(<<g>>) = 1 /\ <<g>>[1] = g /\ DOMAIN <<g>> = {1} /\ <<g>> # <<>>
  BY DEF IsBase
<1> DEFINE F == <<g>>
<1> HIDE DEF F
<1>2. FramesStacked(F)
  <2>1. F # <<>> /\ F[1] = g /\ DOMAIN F = {1}
    BY <1>1 DEF F
  <2>2. \A k, m \in DOMAIN F : ~(k < m)
    BY <2>1
  <2> QED BY <2>1, <2>2 DEF FramesStacked, IsBase
<1> QED BY <1>1, <1>2 DEF F

(* A function returns                                                      *)
LEMMA FinishPlaces ==
    ASSUME Settled, calls # <<>>, Call.at # "unwind", NEW n \in Nat,
           \A s \in declared \cup openupval : s \notin Registers(Now),
           declared' = declared, Finish(n)
    PROVE  Settled'
<1> DEFINE f == [Now EXCEPT !.func = Origin(Now)]
           end == f.func + Arriving(f, n)
           e == Closing(Call, "run", 0, 0, 0)
<1>1. /\ Placed(ci, calls, top, declared, openupval) /\ lost = {}
      /\ ci \in Seq(Frames) /\ FramesStacked(ci) /\ ci # <<>> /\ calls \in Seq(Activations)
      /\ CallsStacked(ci, calls)
      /\ declared \in SUBSET Nat /\ openupval \in SUBSET Nat /\ Call.func \in Nat
      /\ Now \in Frames /\ Now = ci[Len(ci)] /\ DOMAIN ci = 1..Len(ci) /\ Len(ci) \in Nat \ {0}
      /\ Origin(Now) \in Nat \ {0} /\ Call.func <= Origin(Now)
      /\ Len(ci) > Call.depth /\ Call.depth \in 1..Len(ci) /\ Call \in Activations
      /\ Last(calls) = Call /\ Last(ci) = Now /\ Call = calls[Len(calls)]
  BY InCall DEF Settled, Call, Now
<1>2. /\ f.func = Origin(Now) /\ f.wanted = Now.wanted
      /\ Arriving(f, n) \in Nat /\ end \in Nat /\ Origin(Now) <= end
      /\ end = Origin(Now) + Arriving(f, n)
  <2>1. f.func = Origin(Now) /\ f.wanted = Now.wanted /\ Now.wanted \in {-1, 0, 1}
    BY <1>1, FrameBounds DEF Frames
  <2> HIDE DEF f
  <2>2. Arriving(f, n) \in Nat
    BY <2>1 DEF Arriving
  <2>3. end = Origin(Now) + Arriving(f, n)
    BY <2>1
  <2> DEFINE o == Origin(Now)  a == Arriving(f, n)
  <2>4. o \in Nat /\ a \in Nat
    BY <1>1, <2>2
  <2> HIDE DEF o, a
  <2>5. o + a \in Nat /\ o <= o + a
    BY <2>4
  <2> QED BY <2>1, <2>2, <2>3, <2>5 DEF o, a
<1> HIDE DEF f
<1>3. /\ \A s \in declared \cup openupval : s \in Nat /\ s < Origin(Now)
      /\ \A s \in LiveIn(Front(ci), Front(calls)) : s \in Int /\ s < Origin(Now)
  BY InFunction
<1>4. ASSUME Move(f, n, Front(ci)) PROVE lost' = {}
  <2> DEFINE o == Origin(Now)  S == o..o + Arriving(f, n) - 1  L == LiveIn(Front(ci), Front(calls))
  <2>1. \A s \in S : s \in Int /\ o <= s
    BY <1>1, <1>2
  <2>2. o \in Int /\ \A s \in L : s \in Int /\ s < o
    BY <1>1, <1>3
  <2>3. lost' = lost \cup (S \cap L)
    BY <1>2, <1>4 DEF Move
  <2> HIDE DEF o, S, L
  <2>4. lost \cup (S \cap L) = {}
    BY <1>1, <2>1, <2>2, Unharmed
  <2> QED BY <2>3, <2>4
<1>5. Len(Front(ci)) = Len(ci) - 1 /\ Front(ci) = SubSeq(ci, 1, Len(ci) - 1)
  BY <1>1, FrontFrame
<1>6. CASE Len(Front(ci)) > Call.depth
  <2>1. /\ top' = end /\ ci' = Resumed(Front(ci), Now.wanted) /\ calls' = Replaced(calls, e)
        /\ Move(f, n, Front(ci)) /\ openupval' = openupval
    BY <1>2, <1>6 DEF Finish, f
  <2>2. /\ e \in Activations /\ e.func = Call.func /\ e.depth = Call.depth /\ e.by = Call.by
        /\ e.at = "run" /\ e.from = 0 /\ e.n = 0
    BY <1>1 DEF Closing, Activations
  <2> HIDE DEF e
  <2>3. Placed(Resumed(Front(ci), Now.wanted), Replaced(calls, e), end, declared, openupval)
    BY <1>1, <1>2, <1>6, <2>2, ReturnsInRun
  <2> QED BY <1>4, <2>1, <2>3 DEF Settled
<1>7. CASE ~(Len(Front(ci)) > Call.depth)
  <2>1. Call.depth = Len(ci) - 1 /\ Front(ci) = SubSeq(ci, 1, Call.depth)
    BY <1>1, <1>5, <1>7
  <2>2. \A s \in declared \cup openupval : s < Call.func
    <3>1. ASSUME NEW s \in declared \cup openupval PROVE s < Call.func
      <4>1. s < Call.func \/ \E k \in DOMAIN ci : k > Call.depth /\ s \in Registers(ci[k])
        BY Whereabouts DEF Settled, Call
      <4>2. \A k \in DOMAIN ci : k > Call.depth => k = Len(ci)
        BY <1>1, <2>1
      <4> QED BY <4>1, <4>2, <1>1
    <3> QED BY <3>1
  <2>3. CASE Call.by = "pcall"
    <3>1. PcallEnds(end, 1)
      BY <1>7, <2>3 DEF Finish, f
    <3>2. Call.func <= end
      <4> DEFINE o == Origin(Now)
      <4>1. o \in Nat /\ Call.func <= o /\ o <= end /\ Call.func \in Nat
        BY <1>1, <1>2
      <4> HIDE DEF o, end
      <4> QED BY <4>1, <1>2
    <3> QED BY <1>2, <2>2, <2>3, <3>1, <3>2, PcallEndsPlaces
  <2>4. CASE Call.by # "pcall"
    <3>1. /\ top' = Call.func /\ Move(f, n, Front(ci)) /\ openupval' = openupval
          /\ calls' = Front(calls)
          /\ ci' = IF Call.by = "host"
                   THEN <<[Last(Front(ci)) EXCEPT !.top = Larger(@, end)]>>
                   ELSE Front(ci)
      BY <1>7, <2>4 DEF Finish, f
    <3>2. CASE Call.by = "host"
      <4>1. Len(calls) = 1 /\ Call.depth = 1 /\ 1 <= Call.func
        <5>1. /\ Situated(ci, calls, Len(calls)) /\ \A k \in DOMAIN ci : k <= Call.depth => Next1(ci[k]) <= Call.func
          BY <1>1, LastCall
        <5>2. Len(calls) = 1 /\ Call.depth = 1
          BY <3>2, <5>1, <1>1 DEF Situated
        <5>3. IsBase(ci[1]) /\ 1 \in DOMAIN ci
          BY <1>1, StackedFacts
        <5>4. Next1(ci[1]) = 1
          BY <5>3, BaseFrame, 0 \in Nat
        <5> QED BY <5>1, <5>2, <5>3, <5>4
      <4>2. Last(Front(ci)) = ci[1] /\ IsBase(ci[1])
        <5>1. Len(ci) = 2
          BY <2>1, <4>1, <1>1
        <5>0. Len(ci) - 1 = 1 /\ 1 \in 1..Len(ci) - 1
          BY <5>1
        <5>2. Front(ci)[1] = ci[1] /\ Len(Front(ci)) = 1
          BY <5>0, <1>1, FrontFrame
        <5> QED BY <5>2, <1>1, StackedFacts DEF Last
      <4> DEFINE g == [ci[1] EXCEPT !.top = Larger(@, end)]
      <4>3. IsBase(g)
        <5>1. Larger(ci[1].top, end) \in Nat
          <6>1. ci[1].top \in Nat
            BY <4>2 DEF IsBase, Frames
          <6> QED BY <6>1, <1>2 DEF Larger
        <5> QED BY <5>1, <4>2, BaseFrame
      <4>4. ci' = <<g>>
        BY <3>1, <3>2, <4>2
      <4> HIDE DEF g
      <4>5. <<g>> \in Seq(Frames) /\ FramesStacked(<<g>>) /\ Len(<<g>>) = 1
        BY <4>3, OneFrame
      <4>6. 0 < Call.func
        BY <4>1, <1>1
      <4>7. Placed(<<g>>, <<>>, Call.func, declared, openupval)
        <5> DEFINE G == <<g>>
        <5>1. G \in Seq(Frames) /\ FramesStacked(G) /\ Len(G) = 1
          BY <4>5
        <5>2. /\ Last(calls).by = "host" /\ \A s \in declared \cup openupval : s < Last(calls).func
          BY <1>1, <2>2, <3>2
        <5> HIDE DEF G
        <5>3. Placed(G, <<>>, Call.func, declared, openupval)
          <6>1. Placed(ci, calls, top, declared, openupval) /\ calls # <<>> /\ Call.func \in Nat
            BY <1>1
          <6> QED BY <6>1, <4>6, <5>1, <5>2, HostReturns
        <5> QED BY <5>3 DEF G
      <4>8. Front(calls) = <<>>
        <5>1. Front(calls) \in Seq(Activations) /\ Len(Front(calls)) = 0
          BY <1>1, <4>1, FrontCall
        <5> QED BY <5>1, EmptySeq
      <4> QED BY <1>4, <3>1, <4>4, <4>7, <4>8 DEF Settled
    <3>3. CASE Call.by \in {"op", "closer"}
      <4>1. Placed(SubSeq(ci, 1, Call.depth), Front(calls), Call.func, declared, openupval)
        BY <1>1, <2>2, <3>3, ReturnsToCaller
      <4> QED BY <1>4, <2>1, <3>1, <3>3, <4>1 DEF Settled
    <3> QED BY <2>4, <3>2, <3>3, <1>1, ActivationFields
  <2> QED BY <2>3, <2>4
<1> QED BY <1>6, <1>7

(* OP_RETURN                                                               *)
LEMMA ReturnPlaces ==
    ASSUME Settled, NEW n \in 0..Limit, Return(n)
    PROVE  Settled'
<1>1. /\ calls # <<>> /\ Call.at = "run" /\ Call.at # "unwind" /\ Now.next # "prep" /\ declared' = declared
      /\ IF Now.next = "open" THEN n = top - Next1(Now) ELSE Now.act + n <= FrameSize
      /\ n \in Nat
  BY SlotsAssumption DEF Return, KeepList, Room
<1>2. /\ Now \in Frames /\ FrameShape(Now) /\ Now.kind = "lua" /\ Now = ci[Len(ci)]
      /\ Base(Now) \in Nat /\ Next1(Now) \in Nat /\ top \in Nat /\ Next1(Now) <= Now.top
      /\ declared \in SUBSET Nat /\ openupval \in SUBSET Nat
      /\ Call \in Activations /\ Busy(ci, Call, Len(ci))
  BY <1>1, InCall
<1>3. Now.top \in Nat /\ Now.act \in Nat
  BY <1>2, FrameBounds
<1>4. CASE ToClose(Base(Now)) = {}
  <2>1. Finish(n)
    BY <1>4 DEF Return
  <2>2. \A s \in declared \cup openupval : s \notin Registers(Now)
    <3>1. ASSUME NEW s \in declared \cup openupval, s \in Registers(Now) PROVE FALSE
      <4>1. s \in Nat /\ Base(Now) <= s
        BY <3>1, <1>2, RegisterBounds
      <4>2. s \in ToClose(Base(Now))
        BY <4>1, <1>2 DEF ToClose
      <4> QED BY <4>2, <1>4
    <3> QED BY <3>1
  <2> QED BY <1>1, <2>1, <2>2, FinishPlaces
<1>5. CASE ToClose(Base(Now)) # {}
  <2> DEFINE e == Closing(Call, "return", Base(Now), Next1(Now), n)
             t2 == Larger(top, Now.top)
             b == Base(Now)
             x == Next1(Now)
  <2>1. /\ top' = t2 /\ openupval' = {s \in openupval : s < Base(Now)}
        /\ calls' = Replaced(calls, e) /\ ci' = ci /\ lost' = lost
    BY <1>5 DEF Return, CloseUpvals, ReturnTop
  <2>2. /\ e \in Activations /\ e.func = Call.func /\ e.depth = Call.depth /\ e.by = Call.by
        /\ e.at = "return" /\ e.level = b /\ e.from = x /\ e.n = n
    BY <1>1, <1>2 DEF Closing, Activations
  <2>3. x = b + Now.act /\ Now.top = b + FrameSize /\ FrameSize \in Nat
    BY <1>2, SlotsAssumption DEF Next1, FrameShape
  <2>4. IF Now.next = "open" THEN n = top - x ELSE Now.act + n <= FrameSize
    BY <1>1
  <2>5. b \in Nat /\ x \in Nat /\ x <= Now.top
    BY <1>2
  <2> HIDE DEF e, b, x
  <2>6. x + n <= top \/ x + n <= Now.top
    <3>1. CASE Now.next = "open"
      BY <3>1, <2>4, <2>5, <1>2
    <3>2. CASE Now.next # "open"
      <4>1. Now.act + n <= FrameSize
        BY <3>2, <2>4
      <4> QED BY <4>1, <2>3, <2>5, <1>1, <1>3
    <3> QED BY <3>1, <3>2
  <2>7. t2 \in Nat /\ top <= t2 /\ Now.top <= t2
    BY <1>2, <1>3 DEF Larger
  <2> HIDE DEF t2
  <2>8. x <= t2 /\ x + n <= t2
    BY <1>1, <1>2, <1>3, <2>5, <2>6, <2>7
  <2>9. Busy(ci, e, Len(ci))
    BY <1>1, <1>2, <2>2 DEF Busy, b, x
  <2>10. /\ e.at \in {"close", "return"} /\ Next1(Now) <= t2
         /\ e.at = "return" => e.from + e.n <= t2
    BY <2>2, <2>8 DEF x
  <2>11. Placed(ci, Replaced(calls, e), t2, declared, {s \in openupval : s < e.level})
    BY <1>1, <2>2, <2>7, <2>9, <2>10, TurnsToClose
  <2> QED BY <1>1, <2>1, <2>2, <2>11 DEF Settled, b
<1> QED BY <1>4, <1>5

(* A Lua function with fewer registers in use                              *)
LEMMA WithLess ==
    ASSUME NEW f \in Frames, FrameShape(f), f.kind = "lua", NEW n \in Nat, n <= f.act
    PROVE  LET g == [f EXCEPT !.act = n]
           IN  /\ g \in Frames /\ FrameShape(g) /\ g.kind = "lua" /\ Origin(g) = Origin(f)
               /\ Base(g) = Base(f) /\ Next1(g) = Base(f) + n
<1> DEFINE g == [f EXCEPT !.act = n]
<1>1. /\ f.act \in Nat /\ f.act <= FrameSize /\ f.delta < f.func /\ f.top = Base(f) + FrameSize
      /\ f.next = "prep" => f.act = 0 /\ f.delta = 0
  BY FrameBounds DEF FrameShape
<1>2. /\ g \in Frames /\ g.act = n /\ g.kind = f.kind /\ g.func = f.func /\ g.delta = f.delta
      /\ g.top = f.top /\ g.next = f.next
  BY DEF Frames
<1>3. n <= FrameSize /\ (f.act = 0 => n = 0)
  BY <1>1, SlotsAssumption
<1>4. Base(g) = Base(f) /\ Next1(g) = Base(f) + n /\ Origin(g) = Origin(f)
  BY <1>2 DEF Base, Next1, Origin
<1>5. FrameShape(g)
  BY <1>1, <1>2, <1>3, <1>4 DEF FrameShape
<1> QED BY <1>2, <1>4, <1>5

(* luaF_close is done.                                                     *)
LEMMA CloseDonePlaces ==
    ASSUME Settled, tbclist = Highest(declared), CloseDone
    PROVE  Settled'
<1>1. Closes /\ tbclist < Call.level /\ declared' = declared /\ calls # <<>> /\ Call.at # "run"
  BY DEF CloseDone, KeepList, Closes
<1>2. /\ Placed(ci, calls, top, declared, openupval) /\ lost = {}
      /\ ci \in Seq(Frames) /\ FramesStacked(ci) /\ ci # <<>> /\ calls \in Seq(Activations)
      /\ declared \in SUBSET Nat /\ openupval \in SUBSET Nat /\ top \in Nat
      /\ Call \in Activations /\ Call.func \in Nat /\ Call.depth \in 1..Len(ci)
      /\ Now \in Frames /\ Now = ci[Len(ci)] /\ Len(ci) \in Nat \ {0} /\ DOMAIN ci = 1..Len(ci)
      /\ Next1(Now) \in Nat /\ Base(Now) \in Nat
      /\ Busy(ci, Call, Len(ci)) /\ Last(calls) = Call
      /\ \A s \in declared : s < top
      /\ Call.func < top
      /\ Call.at # "unwind" => Now.kind = "lua" /\ FrameShape(Now)
      /\ Call.at = "unwind" => Len(ci) = Call.depth /\ Call.level = Call.func /\ Next1(Now) <= Call.func
  BY <1>1, InCall DEF Settled, Call
<1>3. \A s \in declared \cup openupval : s < Call.level
  <2>1. \A s \in openupval : s < Call.level
    BY <1>1, AtClose
  <2>2. ASSUME NEW s \in declared PROVE s < Call.level
    <3>1. \A y \in declared : y <= top
      BY <1>2
    <3>2. Highest(declared) \in Nat /\ s <= Highest(declared)
      BY <1>2, <3>1, HighestIs
    <3>3. Call.level \in Nat /\ s \in Nat
      BY <1>2, ActivationFields
    <3> QED BY <1>1, <3>2, <3>3
  <2> QED BY <2>1, <2>2
<1>4. ASSUME Call.at = "unwind" PROVE \A s \in declared \cup openupval : s < Call.func
  BY <1>2, <1>3, <1>4
<1>5. CASE Call.at = "close"
  <2> DEFINE n == Call.level - Base(Now)
             g == [Now EXCEPT !.act = n]
             e == Closing(Call, "run", 0, 0, 0)
  <2>1. /\ ci' = Replaced(ci, g) /\ calls' = Replaced(calls, e) /\ top' = top
        /\ openupval' = openupval /\ lost' = lost
    BY <1>5 DEF CloseDone, Using
  <2>2. Call.level \in Base(Now)..Next1(Now)
    BY <1>2, <1>5 DEF Busy
  <2>3. Next1(Now) = Base(Now) + Now.act /\ Now.act \in Nat
    BY <1>2, FrameBounds DEF Next1
  <2>4. n \in Nat /\ n <= Now.act /\ Base(Now) + n = Call.level
    <3> DEFINE b == Base(Now)  x == Next1(Now)
    <3>1. b \in Nat /\ x \in Nat /\ x = b + Now.act /\ Now.act \in Nat /\ Call.level \in b..x
      BY <1>2, <2>2, <2>3
    <3> HIDE DEF b, x
    <3>2. Call.level - b \in Nat /\ Call.level - b <= Now.act /\ b + (Call.level - b) = Call.level
      BY <3>1
    <3> QED BY <3>2 DEF b
  <2> HIDE DEF n
  <2>5. /\ g \in Frames /\ FrameShape(g) /\ g.kind = "lua" /\ Origin(g) = Origin(Now)
        /\ Base(g) = Base(Now) /\ Next1(g) = Base(Now) + n
    BY <1>2, <1>5, <2>4, WithLess
  <2>6. e.at = "run" /\ e \in {Call, Closing(Call, "run", 0, 0, 0)}
    BY <1>2 DEF Closing, Activations
  <2> HIDE DEF e, g
  <2>7. Base(Now) <= top
    <3>1. Next1(Now) <= top /\ Base(Now) <= Next1(Now)
      BY <1>1, <1>2, AtClose, FrameBounds
    <3> QED BY <3>1, <1>2
  <2>8. /\ \A s \in declared : s < top /\ s < Base(Now) + n /\ (s \in declared \/ s = Next1(Now))
        /\ \A s \in openupval : s < Base(Now) + n
    BY <1>2, <1>3, <2>4
  <2>9. Call.at # "unwind"
    BY <1>5
  <2>10. Placed(Replaced(ci, g), Replaced(calls, e), top, declared, openupval)
    BY <1>1, <1>2, <2>4, <2>5, <2>6, <2>7, <2>8, <2>9, UsesAct
  <2> QED BY <1>1, <1>2, <2>1, <2>10 DEF Settled
<1>6. CASE Call.at = "return"
  <2>1. Finish(Call.n) /\ Call.n \in Nat /\ Call.level = Base(Now)
    BY <1>2, <1>6, ActivationFields DEF CloseDone, Busy
  <2>2. \A s \in declared \cup openupval : s \notin Registers(Now)
    <3>1. ASSUME NEW s \in declared \cup openupval, s \in Registers(Now) PROVE FALSE
      <4>1. s \in Nat /\ Base(Now) <= s /\ s < Base(Now)
        BY <3>1, <1>2, <1>3, <2>1, RegisterBounds
      <4> QED BY <4>1, <1>2
    <3> QED BY <3>1
  <2> QED BY <1>1, <1>6, <2>1, <2>2, FinishPlaces
<1>7. CASE Call.at = "unwind" /\ Call.by = "host"
  <2>1. top' = Call.func /\ calls' = <<>> /\ ci' = ci /\ openupval' = openupval /\ lost' = lost
    BY <1>7 DEF CloseDone
  <2>2. Situated(ci, calls, Len(calls)) /\ Call = calls[Len(calls)]
    BY <1>1, <1>2, LastCall
  <2>3. Len(ci) = 1 /\ 0 < Call.func
    <3>1. Call.depth = 1 /\ Len(ci) = 1
      BY <1>2, <1>7, <2>2 DEF Situated
    <3>2. IsBase(Now)
      BY <3>1, <1>2, StackedFacts
    <3>3. Next1(Now) = 1
      BY <3>2, BaseFrame, 0 \in Nat
    <3> DEFINE x == Call.func
    <3>4. x \in Nat /\ 1 <= x
      BY <3>1, <3>3, <1>2, <2>2 DEF Situated
    <3> HIDE DEF x
    <3>5. 0 < x
      BY <3>4
    <3> QED BY <3>1, <3>5 DEF x
  <2>4. Placed(ci, <<>>, Call.func, declared, openupval)
    <3>1. /\ Last(calls).by = "host" /\ \A s \in declared \cup openupval : s < Last(calls).func
      BY <1>2, <1>4, <1>7
    <3> QED BY <1>1, <1>2, <2>3, <3>1, HostReturns
  <2> QED BY <1>1, <1>2, <2>1, <2>4 DEF Settled
<1>8. CASE Call.at = "unwind" /\ Call.by = "pcall"
  <2>1. PcallEnds(Call.func, 4) /\ Call.func <= Call.func
    BY <1>2, <1>8 DEF CloseDone
  <2> QED BY <1>1, <1>2, <1>4, <1>8, <2>1, PcallEndsPlaces
<1>9. CASE Call.at = "unwind" /\ Call.by \in {"op", "closer"}
  <2>1. top' = Call.func /\ Fail(Front(calls)) /\ lost' = lost
    BY <1>9 DEF CloseDone
  <2>2. Call.by # "host" /\ Call.func <= Call.func
    BY <1>2, <1>9
  <2>3. InPlace'
    BY <1>1, <1>2, <1>4, <1>9, <2>1, <2>2, FailBelow
  <2> QED BY <2>1, <2>3, <1>2 DEF Settled, InPlace
<1> QED BY <1>1, <1>2, <1>5, <1>6, <1>7, <1>8, <1>9, ActivationFields

(* A call from the host                                                    *)
LEMMA StartPlaces ==
    ASSUME Settled, Start
    PROVE  Settled'
<1> DEFINE g == [Now EXCEPT !.top = Larger(@, top + 1)]
           H == Replaced(ci, g)
<1>1. /\ calls = <<>> /\ Precall(top, top + 1, -1, "host", H) /\ Write({top})
      /\ openupval' = openupval /\ declared' = declared
  BY DEF Start, KeepList
<1>2. /\ Placed(ci, <<>>, top, declared, openupval) /\ lost = {}
      /\ ci \in Seq(Frames) /\ FramesStacked(ci) /\ ci # <<>> /\ Len(ci) = 1
      /\ top \in Nat /\ 0 < top
  <2>1. Placed(ci, <<>>, top, declared, openupval) /\ lost = {}
    BY <1>1 DEF Settled
  <2> QED BY <2>1 DEF Placed, FramesStacked, CallsStacked, TopAbove
<1>3. Now = ci[1] /\ IsBase(Now)
  BY <1>2, StackedFacts DEF Now
<1>4. IsBase(g)
  <2>1. Larger(Now.top, top + 1) \in Nat
    <3>1. Now.top \in Nat
      BY <1>3 DEF IsBase, Frames
    <3> QED BY <3>1, <1>2 DEF Larger
  <2> QED BY <2>1, <1>3, BaseFrame
<1> HIDE DEF g
<1>5. H \in Seq(Frames) /\ FramesStacked(H) /\ Len(H) = 1
  <2>1. g \in Frames
    BY <1>4 DEF IsBase
  <2>2. H \in Seq(Frames) /\ Len(H) = 1 /\ H[1] = g /\ DOMAIN H = 1..1
    <3>1. /\ H \in Seq(Frames) /\ Len(H) = Len(ci) /\ H[Len(ci)] = g /\ DOMAIN H = 1..Len(ci)
      BY <1>2, <2>1, ReplacedFrame
    <3> QED BY <1>2, <3>1
  <2> HIDE DEF H
  <2>3. H # <<>> /\ \A k \in DOMAIN H : k = 1
    BY <2>2
  <2>4. \A k, m \in DOMAIN H : ~(k < m)
    BY <2>3
  <2> QED BY <2>2, <2>3, <2>4, <1>4 DEF FramesStacked, IsBase
<1> HIDE DEF H
<1>6. top \in Nat \ {0} /\ top + 1 \in Nat /\ top < top + 1 /\ -1 \in {-1, 0, 1}
  BY <1>2
<1>7. Called1(H, <<>>, top, -1, "host", top + 1, declared, openupval) /\ declared = {} /\ openupval = {}
  BY <1>2, <1>5, <1>6, Started
<1>8. InPlace'
  BY <1>1, <1>7, PrecallPlaces
<1>9. Live = {}
  <2>1. Range(calls) = {} /\ Range(ci) = {Now}
    <3>1. DOMAIN ci = {1}
      BY <1>2, LenProperties
    <3> QED BY <3>1, <1>1, <1>3 DEF Range
  <2>2. Registers(Now) = {} /\ Varargs(Now) = {}
    BY <1>3, BaseFrame, 0 \in Nat
  <2> QED BY <1>7, <2>1, <2>2 DEF Live, LiveIn
<1>10. lost' = {}
  BY <1>1, <1>2, <1>9 DEF Write
<1> QED BY <1>8, <1>10 DEF Settled, InPlace

(* Whatever the step                                                       *)
LEMMA SettledKept ==
    ASSUME Settled, tbclist = Highest(declared), [Next]_vars
    PROVE  Settled'
<1>1. CASE Start
  BY <1>1, StartPlaces
<1>2. CASE Local
  BY <1>2, LocalPlaces
<1>3. CASE Tbc \/ TbcNil
  BY <1>3, TbcPlaces
<1>4. CASE Collect
  BY <1>4, CollectPlaces
<1>5. CASE CallMetamethod
  BY <1>5, CallMetamethodPlaces
<1>6. CASE \E wanted \in {-1, 1} : CallPcall(wanted)
  BY <1>6, CallPcallPlaces
<1>7. CASE \E wanted \in {-1, 1} : \E args \in {0, MaxArgs} : CallLua(wanted, args)
  BY <1>7, CallLuaPlaces
<1>8. CASE \E args \in {0, MaxArgs} : TailCall(args)
  BY <1>8, TailCallPlaces
<1>9. CASE VarargPrep
  BY <1>9, VarargPrepPlaces
<1>10. CASE Vararg
  BY <1>10, VarargPlaces
<1>11. CASE \E t \in {top, Now.top} : Raise(t)
  BY <1>11, RaisePlaces
<1>12. CASE \E level \in Registers(Now) : Capture(level)
  BY <1>12, CapturePlaces
<1>13. CASE \E n \in 0..Now.act-1 : Leave(n)
  BY <1>13, LeavePlaces
<1>14. CASE \E n \in 0..Now.act-1 : Close(n)
  BY <1>14, ClosePlaces
<1>15. CASE \E n \in 0..Limit : Return(n)
  BY <1>15, ReturnPlaces
<1>16. CASE CloseNext
  BY <1>16, CloseNextPlaces
<1>17. CASE CloseDone
  BY <1>17, CloseDonePlaces
<1>18. CASE \E fails \in BOOLEAN : CloseNextFp(fails)
  BY <1>18, CloseNextFpPlaces
<1>19. CASE UNCHANGED vars
  BY <1>19 DEF Settled, vars, stack
<1> QED BY <1>1, <1>2, <1>3, <1>4, <1>5, <1>6, <1>7, <1>8, <1>9, <1>10, <1>11, <1>12, <1>13, <1>14,
           <1>15, <1>16, <1>17, <1>18, <1>19 DEF Next

-----------------------------------------------------------------------------
(* The list of to-be-closed variables.                                     *)

(* Multiples of a number are in the order of their factors.                *)
LEMMA Multiples ==
    ASSUME NEW i \in Nat, NEW k \in Nat, i <= k, NEW m \in Nat \ {0}
    PROVE  i * m \in Nat /\ k * m \in Nat /\ i * m <= k * m /\ i <= i * m /\ (i < k => i * m < k * m)
  OBVIOUS

(* A number lies between a multiple of the divisor and the next.           *)
LEMMA Divided ==
    ASSUME NEW a \in Nat, NEW m \in Nat \ {0}
    PROVE  /\ a \div m \in Nat /\ (a \div m) * m <= a /\ a < (a \div m) * m + m
  OBVIOUS

(* The part of UnwindInv that is about the list of variables to be closed  *)
ListOK ==
    /\ tbclist \in Nat /\ DOMAIN tbcdelta \subseteq Nat
    /\ tbcdelta \in [DOMAIN tbcdelta -> 0..MaxDelta]
    /\ Nodes

(* The variable before one that waits                                      *)
LEMMA BelowIs ==
    ASSUME ListOK, declared \in SUBSET Nat, NEW s \in declared
    PROVE  /\ Below(s) = Highest({d \in declared : d < s})
           /\ Below(s) \in Nat /\ Below(s) < s
           /\ \A x \in declared : x < s => x <= Below(s)
<1> DEFINE d == Highest({x \in declared : x < s})
<1>1. /\ s \in Nat /\ s > 0 /\ s \in DOMAIN tbcdelta /\ tbcdelta[s] > 0 /\ tbcdelta[s] \in Nat
  BY DEF ListOK, Nodes
<1>2. PICK k \in 0..s : /\ s = d + k * MaxDelta + tbcdelta[s]
                        /\ \A i \in 1..k : IsDummy(d + i * MaxDelta)
  BY DEF ListOK, Nodes
<1>3. /\ d \in {x \in declared : x < s} \cup {0} /\ d \in Nat
      /\ \A x \in {x \in declared : x < s} : x <= d
  <2>1. \A x \in {x \in declared : x < s} : x <= s
    BY <1>1
  <2>2. {x \in declared : x < s} \in SUBSET Nat
    OBVIOUS
  <2> QED BY <1>1, <2>1, <2>2, HighestIs
<1>4. d < s /\ \A x \in declared : x < s => x <= d
  BY <1>1, <1>3
<1>5. ~IsDummy(d)
  <2>1. CASE d = 0
    BY <2>1 DEF IsDummy
  <2>2. CASE d \in declared
    <3>1. tbcdelta[d] > 0 /\ d \in DOMAIN tbcdelta
      BY <2>2 DEF ListOK, Nodes
    <3>2. tbcdelta[d] \in Nat
      BY <3>1 DEF ListOK
    <3> QED BY <3>1, <3>2 DEF IsDummy
  <2> QED BY <1>3, <2>1, <2>2
<1> HIDE DEF d
<1>6. MaxDelta \in Nat \ {0} /\ k \in Nat
  BY SlotsAssumption
<1> DEFINE node == s - tbcdelta[s]
<1>7. k * MaxDelta \in Nat /\ k <= k * MaxDelta
  BY <1>6, Multiples
<1>8. node = d + k * MaxDelta /\ node \in Nat /\ k \in 0..node
  <2> DEFINE q == k * MaxDelta  e == tbcdelta[s]
  <2>1. q \in Nat /\ k <= q /\ e \in Nat /\ d \in Nat /\ s = d + q + e /\ k \in Nat
    BY <1>1, <1>2, <1>3, <1>6, <1>7
  <2> HIDE DEF q, e
  <2>2. s - e = d + q /\ s - e \in Nat /\ k \in 0..s - e
    BY <2>1
  <2> QED BY <2>2 DEF q, e
<1> DEFINE T == {t \in {node - i * MaxDelta : i \in 0..node} : ~IsDummy(t)}
<1>9. ASSUME NEW i \in 0..node, ~IsDummy(node - i * MaxDelta)
      PROVE  node - i * MaxDelta \in Int /\ node - i * MaxDelta <= d
  <2>1. i \in Nat /\ i * MaxDelta \in Nat
    BY <1>6, Multiples
  <2>2. CASE k <= i
    <3>1. k * MaxDelta <= i * MaxDelta
      BY <1>6, <2>1, <2>2, Multiples
    <3> QED BY <1>3, <1>7, <1>8, <2>1, <3>1
  <2>3. CASE i < k
    <3>1. k - i \in 1..k
      BY <1>6, <2>1, <2>3
    <3>2. (k - i) * MaxDelta = k * MaxDelta - i * MaxDelta
      BY <1>6, <2>1
    <3>3. d + (k - i) * MaxDelta = node - i * MaxDelta
      BY <1>3, <1>7, <1>8, <2>1, <3>2
    <3> QED BY <1>2, <1>9, <3>1, <3>3
  <2> QED BY <1>6, <2>1, <2>2, <2>3
<1>10. d \in T
  <2>1. node - k * MaxDelta = d
    BY <1>3, <1>7, <1>8
  <2> QED BY <1>5, <1>8, <2>1
<1>11. T \in SUBSET Int /\ \A t \in T : t <= d
  BY <1>9
<1>12. Below(s) = Max(T)
  BY DEF Below
<1> HIDE DEF T
<1>13. Below(s) = d
  BY <1>10, <1>11, <1>12, MaxIs
<1> QED BY <1>3, <1>4, <1>13 DEF d

(* luaF_newtbcupval keeps the list,                                        *)
LEMMA InsertKeeps ==
    ASSUME ListOK, declared \in SUBSET Nat, NEW level \in Nat, level > 0,
           \A s \in declared : s < level,
           Insert(level), declared' = declared \cup {level}
    PROVE  ListOK'
<1> DEFINE a == level - tbclist - 1
           k == a \div MaxDelta
           q == k * MaxDelta
           D == Dummies(level)
           before == Max({tbclist} \cup D)
<1>1. /\ tbclist \in Nat /\ DOMAIN tbcdelta \subseteq Nat /\ tbclist = Highest(declared)
      /\ \A s \in DOMAIN tbcdelta : tbcdelta[s] \in 0..MaxDelta /\ s > 0 /\ s <= tbclist
      /\ declared \subseteq DOMAIN tbcdelta
      /\ MaxDelta \in Nat \ {0}
  BY SlotsAssumption DEF ListOK, Nodes
<1>2. tbclist \in declared \cup {0} /\ \A x \in declared : x <= tbclist
  <2>1. \A x \in declared : x <= level
    OBVIOUS
  <2> QED BY <1>1, <2>1, HighestIs
<1>3. tbclist < level /\ a \in Nat
  BY <1>1, <1>2
<1> HIDE DEF a
<1>4. k \in Nat /\ q <= a /\ a < q + MaxDelta /\ q \in Nat /\ k <= q
  BY <1>1, <1>3, Divided, Multiples
<1>5. D = {tbclist + i * MaxDelta : i \in 1..k}
  BY DEF Dummies, a
<1> HIDE DEF k, D
<1>6. \A i \in 1..k : i * MaxDelta \in Nat /\ i * MaxDelta > 0 /\ i * MaxDelta <= q
  <2>1. ASSUME NEW i \in 1..k PROVE i * MaxDelta \in Nat /\ i * MaxDelta > 0 /\ i * MaxDelta <= q
    <3>1. i \in Nat /\ i <= k /\ i > 0
      BY <1>4
    <3>2. i * MaxDelta \in Nat /\ i * MaxDelta <= q /\ i <= i * MaxDelta
      BY <1>1, <1>4, <3>1, Multiples
    <3> QED BY <3>1, <3>2
  <2> QED BY <2>1
<1>7. \A s \in D : s \in Nat /\ s > tbclist /\ s <= tbclist + q
  BY <1>1, <1>4, <1>5, <1>6
<1>8. before = tbclist + q
  <2>1. tbclist + q \in {tbclist} \cup D
    <3>1. CASE k = 0
      <4>1. q = 0
        BY <3>1, <1>1
      <4> QED BY <1>1, <4>1
    <3>2. CASE k # 0
      <4>1. k \in 1..k
        BY <3>2, <1>4
      <4> QED BY <4>1, <1>5
    <3> QED BY <3>1, <3>2
  <2>2. \A s \in {tbclist} \cup D : s <= tbclist + q
    BY <1>1, <1>4, <1>7
  <2>3. {tbclist} \cup D \in SUBSET Int
    BY <1>1, <1>7
  <2> QED BY <2>1, <2>2, <2>3, MaxIs
<1>9. /\ DOMAIN tbcdelta' = DOMAIN tbcdelta \cup D \cup {level}
      /\ tbcdelta'[level] = level - before
      /\ \A s \in DOMAIN tbcdelta \cup D : s # level =>
            tbcdelta'[s] = IF s \in DOMAIN tbcdelta THEN tbcdelta[s] ELSE 0
      /\ tbclist' = level
      /\ tbcdelta' = [s \in DOMAIN tbcdelta' |-> tbcdelta'[s]]
  BY DEF Insert, D
<1> HIDE DEF before
<1>10. level - before \in 1..MaxDelta
  <2>1. level = tbclist + a + 1
    BY <1>1 DEF a
  <2> HIDE DEF q
  <2> QED BY <2>1, <1>1, <1>3, <1>4, <1>8
<1>11. \A s \in DOMAIN tbcdelta \cup D : s \in Nat /\ s > 0 /\ s < level
  <2>1. level = tbclist + a + 1
    BY <1>1 DEF a
  <2> HIDE DEF q
  <2>2. ASSUME NEW s \in DOMAIN tbcdelta PROVE s \in Nat /\ s > 0 /\ s < level
    BY <1>1, <1>3
  <2>3. ASSUME NEW s \in D PROVE s \in Nat /\ s > 0 /\ s < level
    BY <2>1, <1>1, <1>3, <1>4, <1>7
  <2> QED BY <2>2, <2>3
<1>12. \A s \in DOMAIN tbcdelta : s \in DOMAIN tbcdelta' /\ tbcdelta'[s] = tbcdelta[s]
  BY <1>9, <1>11
<1>13. \A s \in D : s \in DOMAIN tbcdelta' /\ tbcdelta'[s] = 0
  <2>1. ASSUME NEW s \in D PROVE s \notin DOMAIN tbcdelta /\ s # level
    BY <1>1, <1>7, <1>11
  <2> QED BY <2>1, <1>9
<1>14. /\ tbclist' \in Nat /\ DOMAIN tbcdelta' \subseteq Nat
       /\ \A s \in DOMAIN tbcdelta' : s > 0 /\ s <= level /\ tbcdelta'[s] \in 0..MaxDelta
  <2>1. ASSUME NEW s \in DOMAIN tbcdelta' PROVE s \in Nat /\ s > 0 /\ s <= level /\ tbcdelta'[s] \in 0..MaxDelta
    <3>1. CASE s \in DOMAIN tbcdelta
      BY <3>1, <1>1, <1>11, <1>12
    <3>2. CASE s \in D
      BY <3>2, <1>1, <1>11, <1>13
    <3>3. CASE s = level
      BY <3>3, <1>9, <1>10
    <3> QED BY <3>1, <3>2, <3>3, <1>9
  <2> QED BY <2>1, <1>9
<1>15. Highest(declared') = level
  <2>1. declared' \cup {0} \in SUBSET Int /\ level \in declared' \cup {0}
    OBVIOUS
  <2>2. \A y \in declared' \cup {0} : y <= level
    BY <1>1
  <2> QED BY <2>1, <2>2, MaxIs DEF Highest
<1>16. \A s \in declared : {x \in declared' : x < s} = {x \in declared : x < s}
  <2>1. ASSUME NEW s \in declared, NEW x \in declared', x < s PROVE x \in declared
    <3>1. s < level /\ s \in Nat
      OBVIOUS
    <3>2. x # level
      BY <2>1, <3>1
    <3> QED BY <3>2
  <2> QED BY <2>1
<1>17. {x \in declared' : x < level} = declared
  <2>1. ~(level < level)
    OBVIOUS
  <2>2. \A x \in declared' : x < level <=> x \in declared
    BY <2>1
  <2>3. declared \subseteq declared'
    OBVIOUS
  <2> QED BY <2>2, <2>3
<1> DEFINE Dummy(t) == t > 0 /\ t \in DOMAIN tbcdelta' /\ tbcdelta'[t] = 0
<1>18. \A t : IsDummy(t) => Dummy(t)
  BY <1>12 DEF IsDummy
<1> HIDE DEF Dummy
<1>19. ASSUME NEW s \in declared'
       PROVE  /\ tbcdelta'[s] > 0
              /\ \E j \in 0..s : /\ s = Highest({x \in declared' : x < s}) + j * MaxDelta + tbcdelta'[s]
                                 /\ \A i \in 1..j : Dummy(Highest({x \in declared' : x < s}) + i * MaxDelta)
  <2>1. CASE s \in declared
    <3>1. tbcdelta[s] > 0 /\ tbcdelta'[s] = tbcdelta[s]
      BY <2>1, <1>1, <1>12 DEF ListOK, Nodes
    <3> DEFINE d == Highest({x \in declared : x < s})
    <3>2. PICK j \in 0..s : s = d + j * MaxDelta + tbcdelta[s] /\ \A i \in 1..j : IsDummy(d + i * MaxDelta)
      BY <2>1 DEF ListOK, Nodes
    <3>3. Highest({x \in declared' : x < s}) = d
      BY <2>1, <1>16
    <3> HIDE DEF d
    <3>4. \A i \in 1..j : Dummy(d + i * MaxDelta)
      BY <3>2, <1>18
    <3> QED BY <3>1, <3>2, <3>3, <3>4
  <2>2. CASE s = level
    <3>1. Highest({x \in declared' : x < s}) = tbclist
      BY <2>2, <1>1, <1>17
    <3>2. tbcdelta'[s] = level - before /\ level - before > 0
      BY <2>2, <1>9, <1>10
    <3>3. s = tbclist + k * MaxDelta + (level - before)
      BY <2>2, <1>1, <1>4, <1>8
    <3>4. k \in 0..s
      <4>1. level = tbclist + a + 1
        BY <1>1 DEF a
      <4> HIDE DEF q
      <4> QED BY <2>2, <4>1, <1>1, <1>3, <1>4
    <3>5. \A i \in 1..k : Dummy(tbclist + i * MaxDelta)
      <4>1. ASSUME NEW i \in 1..k PROVE Dummy(tbclist + i * MaxDelta)
        <5>1. tbclist + i * MaxDelta \in D
          BY <1>5
        <5> QED BY <5>1, <1>11, <1>13 DEF Dummy
      <4> QED BY <4>1
    <3> QED BY <3>1, <3>2, <3>3, <3>4, <3>5
  <2> QED BY <2>1, <2>2
<1>20. declared' \subseteq DOMAIN tbcdelta'
  BY <1>1, <1>9
<1>21. tbcdelta' \in [DOMAIN tbcdelta' -> 0..MaxDelta]
  BY <1>9, <1>14
<1>22. ASSUME NEW s \in declared'
       PROVE  /\ tbcdelta'[s] > 0
              /\ LET d == Highest({x \in declared' : x < s})
                 IN  \E j \in 0..s : /\ s = d + j * MaxDelta + tbcdelta'[s]
                                    /\ \A i \in 1..j : LET t == d + i * MaxDelta
                                                      IN  t > 0 /\ t \in DOMAIN tbcdelta' /\ tbcdelta'[t] = 0
  BY <1>19 DEF Dummy
<1>23. Nodes'
  BY <1>9, <1>14, <1>15, <1>20, <1>22 DEF Nodes, IsDummy
<1> QED BY <1>9, <1>14, <1>21, <1>23 DEF ListOK

(* A variable that luaF_close reaches                                      *)
LEMMA ReachedIsOne ==
    ASSUME Settled, tbclist = Highest(declared), Closes, tbclist >= Call.level
    PROVE  tbclist \in declared /\ tbclist \in Nat /\ Call.level \in Nat /\ \A s \in declared : s <= tbclist
<1>1. calls # <<>> /\ Call.at # "run"
  BY DEF Closes
<1>2. /\ Call \in Activations /\ Busy(ci, Call, Len(ci)) /\ Now = ci[Len(ci)] /\ Base(Now) \in Nat
      /\ Now \in Frames
      /\ Call.func \in Nat /\ declared \in SUBSET Nat /\ top \in Nat
      /\ \A s \in declared : s < top
      /\ ci \in Seq(Frames) /\ FramesStacked(ci) /\ Call.depth \in 1..Len(ci)
      /\ Placed(ci, calls, top, declared, openupval)
      /\ Call.at \in {"run", "close", "return", "unwind"}
      /\ Call = Last(calls)
  BY <1>1, InCall, ActivationFields DEF Settled, Call
<1>3. Call.level \in Nat /\ Call.level > 0
  <2>1. Call.level \in Nat
    BY <1>2, ActivationFields
  <2>2. CASE Call.at = "unwind"
    <3>1. Call.level = Call.func
      BY <1>2, <2>2 DEF Busy
    <3>2. \A k \in DOMAIN ci : k <= Call.depth => Next1(ci[k]) <= Call.func
      BY <1>1, <1>2, LastCall
    <3>3. IsBase(ci[1]) /\ 1 \in DOMAIN ci
      BY <1>2, StackedFacts
    <3>4. Next1(ci[1]) = 1
      BY <3>3, BaseFrame, 0 \in Nat
    <3> QED BY <3>1, <3>2, <3>3, <3>4, <1>2
  <2>3. CASE Call.at = "close" \/ Call.at = "return"
    <3>1. Call.level = Base(Now) \/ Call.level \in Base(Now)..Next1(Now)
      BY <1>2, <2>3 DEF Busy
    <3>2. Base(Now) > 0 /\ Next1(Now) \in Nat
      <4>1. Now.func \in Nat /\ Next1(Now) \in Nat
        BY <1>2, FrameBounds, Zenon
      <4> QED BY <4>1 DEF Base
    <3> QED BY <3>1, <3>2, <1>2
  <2> QED BY <1>1, <1>2, <2>1, <2>2, <2>3
<1>4. \A x \in declared : x <= top
  BY <1>2
<1>5. Highest(declared) \in declared \cup {0} /\ Highest(declared) \in Nat /\ \A s \in declared : s <= Highest(declared)
  BY <1>2, <1>4, HighestIs
<1> QED BY <1>3, <1>5

(* and so does poptbclist.                                                 *)
LEMMA PopKeeps ==
    ASSUME ListOK, declared \in SUBSET Nat, tbclist \in declared, Pop
    PROVE  ListOK'
<1> DEFINE d == Below(tbclist)
<1>1. /\ tbclist \in Nat /\ DOMAIN tbcdelta \subseteq Nat /\ tbclist = Highest(declared)
      /\ \A s \in DOMAIN tbcdelta : tbcdelta[s] \in 0..MaxDelta /\ s > 0 /\ s <= tbclist
      /\ declared \subseteq DOMAIN tbcdelta
  BY DEF ListOK, Nodes
<1>2. /\ d = Highest({x \in declared : x < tbclist}) /\ d \in Nat /\ d < tbclist
      /\ \A x \in declared : x < tbclist => x <= d
  BY BelowIs
<1>3. \A x \in declared : x <= tbclist
  BY <1>1
<1>4. /\ tbclist' = d /\ declared' = declared \ {tbclist}
      /\ DOMAIN tbcdelta' = {t \in DOMAIN tbcdelta : t <= d}
      /\ \A s \in DOMAIN tbcdelta : s <= d => s \in DOMAIN tbcdelta' /\ tbcdelta'[s] = tbcdelta[s]
      /\ tbcdelta' = [s \in DOMAIN tbcdelta' |-> tbcdelta'[s]]
  BY DEF Pop
<1> HIDE DEF d
<1>5. declared' = {x \in declared : x < tbclist}
  <2>1. \A x \in declared : x # tbclist <=> x < tbclist
    BY <1>1, <1>3
  <2> QED BY <2>1, <1>4
<1>6. \A x \in declared' : x \in declared /\ x \in DOMAIN tbcdelta /\ x <= d
  BY <1>1, <1>2, <1>5
<1>7. \A s \in declared' : {x \in declared' : x < s} = {x \in declared : x < s}
  <2>1. ASSUME NEW s \in declared', NEW x \in declared, x < s PROVE x \in declared'
    <3>1. s \in Nat /\ x \in Nat /\ s < tbclist
      BY <1>5
    <3>2. x < tbclist
      BY <2>1, <3>1, <1>1
    <3> QED BY <3>2, <1>5
  <2>2. declared' \subseteq declared
    BY <1>6
  <2> QED BY <2>1, <2>2
<1>8. ASSUME NEW s \in declared'
      PROVE  /\ tbcdelta'[s] > 0
             /\ LET e == Highest({x \in declared' : x < s})
                IN  \E j \in 0..s : /\ s = e + j * MaxDelta + tbcdelta'[s]
                                   /\ \A i \in 1..j : LET t == e + i * MaxDelta
                                                     IN  t > 0 /\ t \in DOMAIN tbcdelta' /\ tbcdelta'[t] = 0
  <2>1. s \in declared /\ s \in Nat /\ s <= d /\ tbcdelta'[s] = tbcdelta[s] /\ tbcdelta[s] \in Nat
    BY <1>1, <1>4, <1>6
  <2>2. tbcdelta[s] > 0
    BY <2>1 DEF ListOK, Nodes
  <2> DEFINE e == Highest({x \in declared : x < s})
  <2>3. PICK j \in 0..s : s = e + j * MaxDelta + tbcdelta[s] /\ \A i \in 1..j : IsDummy(e + i * MaxDelta)
    BY <2>1 DEF ListOK, Nodes
  <2>4. e \in Nat
    <3>1. {x \in declared : x < s} \in SUBSET Nat
      OBVIOUS
    <3>2. \A x \in {x \in declared : x < s} : x <= s
      BY <2>1
    <3> QED BY <3>1, <3>2, <2>1, HighestIs
  <2> HIDE DEF e
  <2>5. ASSUME NEW i \in 1..j
        PROVE  LET t == e + i * MaxDelta IN t > 0 /\ t \in DOMAIN tbcdelta' /\ tbcdelta'[t] = 0
    <3>1. i \in Nat /\ j \in Nat /\ i <= j /\ MaxDelta \in Nat \ {0}
      BY SlotsAssumption
    <3>2. i * MaxDelta \in Nat /\ j * MaxDelta \in Nat /\ i * MaxDelta <= j * MaxDelta
      BY <3>1, Multiples
    <3> DEFINE x == i * MaxDelta  y == j * MaxDelta  z == tbcdelta[s]
    <3>3. x \in Nat /\ y \in Nat /\ z \in Nat /\ x <= y /\ s = e + y + z
      BY <2>1, <2>3, <3>2
    <3> HIDE DEF x, y, z
    <3>4. e + x <= d
      BY <1>2, <2>1, <2>4, <3>3
    <3>5. IsDummy(e + x)
      BY <2>3 DEF x
    <3>6. e + x > 0 /\ e + x \in DOMAIN tbcdelta /\ tbcdelta[e + x] = 0
      BY <3>5 DEF IsDummy
    <3>7. e + x \in DOMAIN tbcdelta' /\ tbcdelta'[e + x] = 0
      BY <1>4, <3>4, <3>6
    <3> QED BY <3>6, <3>7 DEF x
  <2>6. Highest({x \in declared' : x < s}) = e
    BY <1>7 DEF e
  <2>7. s = e + j * MaxDelta + tbcdelta'[s]
    BY <2>1, <2>3
  <2> QED BY <2>1, <2>2, <2>5, <2>6, <2>7
<1>9. tbclist' = Highest(declared')
  BY <1>2, <1>4, <1>5
<1>10. declared' \subseteq DOMAIN tbcdelta'
  BY <1>4, <1>6
<1>11. \A s \in DOMAIN tbcdelta' : s > 0 /\ s <= tbclist' /\ tbcdelta'[s] \in 0..MaxDelta
  BY <1>1, <1>4
<1>12. tbcdelta' \in [DOMAIN tbcdelta' -> 0..MaxDelta]
  BY <1>4, <1>11
<1>13. Nodes'
  BY <1>8, <1>9, <1>10, <1>11 DEF Nodes, IsDummy
<1> QED BY <1>1, <1>2, <1>4, <1>12, <1>13 DEF ListOK

(* The list is what the steps make of it.                                  *)
LEMMA ListKept ==
    ASSUME Settled, ListOK, [Next]_vars
    PROVE  ListOK'
<1>1. tbclist = Highest(declared) /\ declared \in SUBSET Nat
  BY DEF ListOK, Nodes, Settled, Placed
<1>2. CASE UNCHANGED <<tbclist, tbcdelta, declared>>
  BY <1>2 DEF ListOK, Nodes, IsDummy
<1>3. CASE Tbc
  <2>1. Runs /\ Insert(Next1(Now)) /\ declared' = declared \cup {Next1(Now)}
    BY <1>3 DEF Tbc
  <2> DEFINE level == Next1(Now)
  <2>2. level \in Nat /\ Base(Now) \in Nat /\ Base(Now) <= level /\ Origin(Now) \in Nat /\ Origin(Now) < Base(Now)
        /\ \A s \in declared : s < level
    BY <2>1, WhileRuns
  <2> HIDE DEF level
  <2>3. level > 0
    BY <2>2
  <2>4. Insert(level) /\ declared' = declared \cup {level}
    BY <2>1 DEF level
  <2> QED BY <1>1, <2>2, <2>3, <2>4, InsertKeeps
<1>4. CASE CloseNext \/ \E fails \in BOOLEAN : CloseNextFp(fails)
  <2>1. Closes /\ tbclist >= Call.level /\ Pop
    BY <1>4 DEF CloseNext, CloseNextFp
  <2>2. tbclist \in declared
    BY <2>1, <1>1, ReachedIsOne
  <2> QED BY <1>1, <2>1, <2>2, PopKeeps
<1>5. \/ UNCHANGED <<tbclist, tbcdelta, declared>>
      \/ Tbc
      \/ CloseNext \/ \E fails \in BOOLEAN : CloseNextFp(fails)
  <2>1. CASE Next
    BY <2>1 DEF Next, Start, Local, TbcNil, Collect, CallMetamethod, CallPcall, CallLua, TailCall, VarargPrep,
       Vararg, Raise, Capture, Leave, Close, Return, CloseDone, KeepList, stack
  <2>2. CASE UNCHANGED vars
    BY <2>2 DEF vars, stack
  <2> QED BY <2>1, <2>2
<1> QED BY <1>2, <1>3, <1>4, <1>5

-----------------------------------------------------------------------------
(* The room on the stack.                                                  *)

(* Frames and functions within the first z slots                           *)
Within(F, C, z) ==
    /\ \A k \in DOMAIN F : k # 1 => F[k].top <= z
    /\ \A i \in DOMAIN C : C[i].func <= z

(* The part of UnwindInv that is about the size of the stack               *)
RoomOK == size \in Nat /\ InRoom

(* What fits a stack fits a larger one,                                    *)
LEMMA WithinMore ==
    ASSUME NEW F \in Seq(Frames), NEW C \in Seq(Activations), NEW y \in Nat, NEW z \in Nat, y <= z,
           Within(F, C, y)
    PROVE  Within(F, C, z)
<1>1. DOMAIN F = 1..Len(F) /\ DOMAIN C = 1..Len(C)
  BY LenProperties
<1>2. ASSUME NEW k \in DOMAIN F, k # 1 PROVE F[k].top <= z
  <2>1. F[k] \in Frames
    BY <1>1, <1>2, ElementOfSeq
  <2>2. F[k].top \in Nat /\ F[k].top <= y
    BY <1>2, <2>1, FrameBounds DEF Within
  <2> QED BY <2>2
<1>3. ASSUME NEW i \in DOMAIN C PROVE C[i].func <= z
  <2>1. C[i] \in Activations
    BY <1>1, ElementOfSeq
  <2>2. C[i].func \in Nat /\ C[i].func <= y
    BY <2>1, ActivationFields DEF Within
  <2> QED BY <2>2
<1> QED BY <1>2, <1>3 DEF Within

(* with one more frame that fits,                                          *)
LEMMA WithinPushed ==
    ASSUME NEW F \in Seq(Frames), NEW C \in Seq(Activations), NEW z \in Nat, Within(F, C, z),
           NEW g \in Frames, g.top <= z
    PROVE  Within(Append(F, g), C, z)
<1> DEFINE G == Append(F, g)
<1>1. /\ DOMAIN G = 1..Len(F) + 1 /\ \A k \in 1..Len(F) : G[k] = F[k]
      /\ G[Len(F) + 1] = g
  BY AppendedFrame
<1>2. DOMAIN F = 1..Len(F) /\ Len(F) \in Nat
  BY LenProperties
<1> HIDE DEF G
<1>3. \A k \in DOMAIN G : k \in DOMAIN F \/ k = Len(F) + 1
  BY <1>1, <1>2
<1>4. Within(G, C, z)
  BY <1>1, <1>2, <1>3 DEF Within
<1> QED BY <1>4 DEF G

(* with another current frame that fits,                                   *)
LEMMA WithinReplaced ==
    ASSUME NEW F \in Seq(Frames), F # <<>>, NEW C \in Seq(Activations), NEW z \in Nat, Within(F, C, z),
           NEW g \in Frames, Len(F) # 1 => g.top <= z
    PROVE  Within(Replaced(F, g), C, z)
<1> DEFINE G == Replaced(F, g)
<1>1. /\ DOMAIN G = 1..Len(F) /\ \A k \in 1..Len(F) - 1 : G[k] = F[k]
      /\ G[Len(F)] = g
  BY ReplacedFrame
<1>2. DOMAIN F = 1..Len(F) /\ Len(F) \in Nat
  BY LenProperties
<1> HIDE DEF G
<1>3. \A k \in DOMAIN G : k \in 1..Len(F) - 1 \/ k = Len(F)
  BY <1>1, <1>2
<1>4. \A k \in 1..Len(F) - 1 : k \in DOMAIN F
  BY <1>2
<1>5. Within(G, C, z)
  BY <1>1, <1>3, <1>4 DEF Within
<1> QED BY <1>5 DEF G

(* with the first of the frames only,                                      *)
LEMMA WithinCut ==
    ASSUME NEW F \in Seq(Frames), NEW C \in Seq(Activations), NEW z \in Nat, Within(F, C, z),
           NEW m \in 1..Len(F)
    PROVE  Within(SubSeq(F, 1, m), C, z)
<1> DEFINE G == SubSeq(F, 1, m)
<1>1. Len(F) \in Nat /\ DOMAIN F = 1..Len(F) /\ m \in 0..Len(F)
  BY LenProperties
<1>2. DOMAIN G = 1..m /\ \A k \in 1..m : G[k] = F[k]
  BY <1>1, Cut
<1> HIDE DEF G
<1>3. \A k \in 1..m : k \in DOMAIN F
  BY <1>1
<1>4. Within(G, C, z)
  BY <1>2, <1>3 DEF Within
<1> QED BY <1>4 DEF G

(* with one more activation                                                *)
LEMMA WithinOneMore ==
    ASSUME NEW F, NEW C \in Seq(Activations), NEW z \in Nat, Within(F, C, z),
           NEW c \in Activations, c.func <= z
    PROVE  Within(F, Append(C, c), z)
<1>1. DOMAIN C = 1..Len(C) /\ Len(C) \in Nat
  BY LenProperties
<1>2. /\ DOMAIN Append(C, c) = 1..Len(C) + 1 /\ \A i \in 1..Len(C) : Append(C, c)[i] = C[i]
      /\ Append(C, c)[Len(C) + 1] = c
  BY Appended
<1>3. \A i \in 1..Len(C) + 1 : i \in 1..Len(C) \/ i = Len(C) + 1
  BY <1>1
<1> QED BY <1>1, <1>2, <1>3 DEF Within

(* and with one less or another last one.                                  *)
LEMMA WithinCalls ==
    ASSUME NEW F, NEW C \in Seq(Activations), C # <<>>, NEW z \in Nat, Within(F, C, z),
           NEW c \in Activations, c.func <= z
    PROVE  Within(F, Front(C), z) /\ Within(F, Replaced(C, c), z)
<1>1. DOMAIN C = 1..Len(C) /\ Len(C) \in Nat
  BY LenProperties
<1>3. /\ DOMAIN Front(C) = 1..Len(C) - 1 /\ \A i \in 1..Len(C) - 1 : Front(C)[i] = C[i]
  BY FrontCall
<1>4. /\ DOMAIN Replaced(C, c) = 1..Len(C) /\ \A i \in 1..Len(C) - 1 : Replaced(C, c)[i] = C[i]
      /\ Replaced(C, c)[Len(C)] = c
  BY ReplacedIs
<1>6. \A i \in 1..Len(C) : i \in 1..Len(C) - 1 \/ i = Len(C)
  <2> DEFINE m == Len(C)
  <2>1. m \in Nat
    BY <1>1
  <2> HIDE DEF m
  <2>2. \A i \in 1..m : i \in 1..m - 1 \/ i = m
    BY <2>1
  <2> QED BY <2>2 DEF m
<1>7. \A i \in 1..Len(C) - 1 : i \in DOMAIN C
  BY <1>1
<1>9. Within(F, Front(C), z)
  BY <1>3, <1>7 DEF Within
<1>10. Within(F, Replaced(C, c), z)
  BY <1>4, <1>6, <1>7 DEF Within
<1> QED BY <1>9, <1>10

(* luaD_growstack gives the room it was asked for.                         *)
LEMMA Grown ==
    ASSUME size \in Nat, size <= Limit, NEW t \in Nat, NEW n \in Int,
           Tight(t, n) => CanGrow(t, n)
    PROVE  LET z == IF Tight(t, n) THEN Doubled(t, n) ELSE size
           IN  z \in Nat /\ size <= z /\ t + n <= z /\ z <= Limit
<1>1. Limit \in Nat
  BY SlotsAssumption
<1>2. CASE Tight(t, n)
  BY <1>1, <1>2 DEF CanGrow, Doubled, Larger
<1>3. CASE ~Tight(t, n)
  BY <1>1, <1>3 DEF Tight
<1> QED BY <1>2, <1>3

(* A step keeps the room if everything, L->top included, fits the stack.   *)
LEMMA RoomIf ==
    ASSUME size' \in Nat, size' <= Limit, Within(ci', calls', size'), top' \in Nat, top' <= size'
    PROVE  RoomOK'
<1>1. top' <= size' + Extra
  BY SlotsAssumption
<1> QED BY <1>1 DEF RoomOK, InRoom, Within

(* What RoomOK says of the stack, and of L->top unless it is left behind.  *)
LEMMA InRoomFacts ==
    ASSUME RoomOK
    PROVE  /\ size \in Nat /\ size <= Limit /\ Within(ci, calls, size)
           /\ ~Idle => top <= size
  BY DEF RoomOK, InRoom, Within

(* An error keeps the frames and activations below the one it unwinds.     *)
LEMMA FailRoom ==
    ASSUME Settled, RoomOK, calls # <<>>, Fail(calls),
           size' \in Nat, size <= size', size' <= Limit, top' \in Nat, top' <= size'
    PROVE  RoomOK'
<1> DEFINE c == Unwinding(Call)
<1>1. /\ Call \in Activations /\ Call = calls[Len(calls)] /\ Len(calls) \in DOMAIN calls
      /\ Call.depth \in 1..Len(ci) /\ ci \in Seq(Frames) /\ calls \in Seq(Activations)
  BY InCall
<1>2. c \in Activations /\ c.depth = Call.depth /\ c.func = Call.func
  BY <1>1, UnwindingFields
<1>3. ci' = SubSeq(ci, 1, c.depth) /\ calls' = Replaced(calls, c)
  BY DEF Fail, Call
<1> HIDE DEF c
<1>4. size \in Nat /\ Within(ci, calls, size)
  BY InRoomFacts
<1>5. c.func <= size'
  <2>1. Call.func <= size
    BY <1>1, <1>4 DEF Within
  <2>2. Call.func \in Nat
    BY <1>1, ActivationFields
  <2> QED BY <2>1, <2>2, <1>2, <1>4
<1>6. Within(ci, calls, size')
  BY <1>1, <1>4, WithinMore
<1>7. Within(ci, Replaced(calls, c), size')
  BY <1>1, <1>2, <1>5, <1>6, WithinCalls
<1>8. Within(SubSeq(ci, 1, c.depth), Replaced(calls, c), size')
  <2>1. Replaced(calls, c) \in Seq(Activations)
    BY <1>1, <1>2, ReplacedCall
  <2> QED BY <1>1, <1>2, <1>7, <2>1, WithinCut
<1> QED BY <1>3, <1>8, RoomIf

(* So does one that is handed on to the activation below.                  *)
LEMMA FailBelowRoom ==
    ASSUME Settled, RoomOK, calls # <<>>, Call.by # "host", Fail(Front(calls)), size' = size,
           top' \in Nat, top' <= size
    PROVE  RoomOK'
<1> DEFINE b == calls[Len(calls) - 1]
           c == Unwinding(b)
<1>1. /\ Placed(ci, calls, top, declared, openupval)
      /\ Call \in Activations /\ ci \in Seq(Frames) /\ calls \in Seq(Activations)
  BY InCall DEF Settled
<1>2. /\ Len(calls) - 1 \in DOMAIN calls /\ Front(calls) # <<>> /\ Last(Front(calls)) = b
      /\ b \in Activations /\ b.depth \in 1..Len(ci)
  BY <1>1, BelowLast DEF Call
<1>3. ci' = SubSeq(ci, 1, c.depth) /\ calls' = Replaced(Front(calls), c)
  BY <1>2 DEF Fail
<1>4. c \in Activations /\ c.depth = b.depth /\ c.func = b.func
  BY <1>2, UnwindingFields
<1> HIDE DEF c
<1>5. size \in Nat /\ Within(ci, calls, size) /\ size <= Limit
  BY InRoomFacts
<1>6. c.func <= size
  BY <1>2, <1>4, <1>5 DEF Within
<1>7. Front(calls) \in Seq(Activations)
  BY <1>1, FrontCall
<1>8. Within(ci, Front(calls), size)
  BY <1>1, <1>5, <1>4, <1>6, WithinCalls
<1> DEFINE A == Front(calls)
<1> HIDE DEF A
<1>9. Within(ci, Replaced(A, c), size) /\ Replaced(A, c) \in Seq(Activations)
  <2>1. A \in Seq(Activations) /\ A # <<>> /\ Within(ci, A, size)
    BY <1>2, <1>7, <1>8 DEF A
  <2> QED BY <2>1, <1>1, <1>4, <1>5, <1>6, WithinCalls, ReplacedCall
<1>10. Within(SubSeq(ci, 1, c.depth), Replaced(A, c), size)
  BY <1>1, <1>2, <1>4, <1>5, <1>9, WithinCut
<1> QED BY <1>3, <1>5, <1>10, RoomIf DEF A

(* luaD_precall finds the room a Lua function needs.                       *)
LEMMA PrecallRoom ==
    ASSUME RoomOK, calls \in Seq(Activations), NEW H \in Seq(Frames), Within(H, calls, size),
           NEW func \in Nat \ {0}, func <= size, NEW t \in Nat, func < t, t <= func + 3,
           NEW wanted \in {-1, 0, 1}, NEW by \in {"host", "op", "pcall", "closer"},
           Precall(func, t, wanted, by, H), \A s \in declared' : s < func
    PROVE  RoomOK'
<1> DEFINE c == Fresh(func, wanted, by, Len(H))
           g == Frame("lua", func, func + 1 + FrameSize, wanted, "any")
           fits == Tight(t, FrameSize) => CanGrow(t, FrameSize)
           z == IF Tight(t, FrameSize) THEN Doubled(t, FrameSize) ELSE size
<1>1. /\ top' = t
      /\ fits => size' = z /\ ci' = Append(H, g) /\ calls' = Append(calls, c)
      /\ ~fits => size' = size /\ ci' = H /\ calls' = Append(calls, Unwinding(c))
  BY DEF Precall, Fresh
<1>2. size \in Nat /\ size <= Limit
  BY InRoomFacts
<1>3. c \in Activations /\ c.func = func
  <2>1. Len(H) \in Nat
    BY LenProperties
  <2>2. IsFresh(c, func, by, Len(H))
    BY <2>1, NewActivation
  <2> HIDE DEF c
  <2> QED BY <2>2 DEF IsFresh
<1>4. Unwinding(c) \in Activations /\ Unwinding(c).func = func /\ Unwinding(c).at = "unwind"
  BY <1>3, UnwindingFields
<1>5. /\ Append(calls, c) \in Seq(Activations)
      /\ Append(calls, Unwinding(c)) \in Seq(Activations) /\ Append(calls, Unwinding(c)) # <<>>
      /\ Last(Append(calls, Unwinding(c))) = Unwinding(c)
  BY <1>3, <1>4, Appended
<1>6. CASE fits
  <2>1. z \in Nat /\ size <= z /\ t + FrameSize <= z /\ z <= Limit
    <3>1. FrameSize \in Int
      BY SlotsAssumption
    <3> QED BY <1>2, <1>6, <3>1, Grown
  <2>2. g \in Frames /\ g.top = func + 1 + FrameSize
    <3>1. "any" \in {"any", "prep", "open"}
      OBVIOUS
    <3>2. IsLua(Frame("lua", func, func + 1 + FrameSize, wanted, "any"), func)
      BY <3>1, NewLua
    <3> QED BY <3>2 DEF IsLua
  <2> HIDE DEF c, g, z
  <2>3. g.top <= z /\ t <= z /\ func <= z
    <3>1. FrameSize \in Nat
      BY SlotsAssumption
    <3>2. func + 1 + FrameSize <= z /\ t <= z /\ func <= z
      BY <2>1, <1>2, <3>1
    <3> QED BY <3>2, <2>2
  <2>4. Within(H, calls, z)
    BY <1>2, <2>1, WithinMore
  <2>5. Within(H, Append(calls, c), z)
    BY <1>3, <2>1, <2>3, <2>4, WithinOneMore
  <2>6. Within(Append(H, g), Append(calls, c), z)
    BY <1>5, <2>1, <2>2, <2>3, <2>5, WithinPushed
  <2> QED BY <1>1, <1>6, <2>1, <2>3, <2>6, RoomIf
<1>7. CASE ~fits
  <2>1. Within(H, Append(calls, Unwinding(c)), size)
    BY <1>2, <1>4, WithinOneMore
  <2>2. t <= size + Extra
    <3>1. Extra \in Nat /\ Extra >= 3
      BY SlotsAssumption
    <3> QED BY <1>2, <3>1
  <2>3. Idle'
    BY <1>1, <1>4, <1>5, <1>7 DEF Idle, Call
  <2> QED BY <1>1, <1>2, <1>7, <2>1, <2>2, <2>3 DEF RoomOK, InRoom, Within
<1> QED BY <1>6, <1>7

(* The steps of a running function                                         *)
LEMMA RunRoom ==
    ASSUME Settled, RoomOK, calls # <<>>, Call.at # "unwind"
    PROVE  /\ size \in Nat /\ size <= Limit /\ Within(ci, calls, size) /\ top \in Nat /\ top <= size
           /\ Now \in Frames /\ Now.top \in Nat /\ Now.top <= size
           /\ Next1(Now) \in Nat /\ Next1(Now) <= Now.top
           /\ Base(Now) \in Nat /\ Origin(Now) \in Nat \ {0} /\ Origin(Now) < Base(Now)
           /\ Base(Now) <= Next1(Now)
           /\ ci \in Seq(Frames) /\ ci # <<>> /\ calls \in Seq(Activations) /\ Len(ci) # 1
           /\ Call \in Activations /\ Call.func \in Nat /\ Call.func <= size
           /\ Call.func <= Origin(Now)
<1>1. /\ size \in Nat /\ size <= Limit /\ Within(ci, calls, size) /\ top <= size
  BY InRoomFacts DEF Idle
<1>2. /\ Now \in Frames /\ Now = ci[Len(ci)] /\ Len(ci) # 1 /\ DOMAIN ci = 1..Len(ci)
      /\ Len(ci) \in Nat \ {0} /\ FrameShape(Now)
      /\ Next1(Now) \in Nat /\ Next1(Now) <= Now.top /\ top \in Nat
      /\ Base(Now) \in Nat /\ Origin(Now) \in Nat \ {0} /\ Origin(Now) < Base(Now)
      /\ Base(Now) <= Next1(Now)
      /\ ci \in Seq(Frames) /\ ci # <<>> /\ calls \in Seq(Activations)
      /\ Call \in Activations /\ Call.func \in Nat /\ Call = calls[Len(calls)]
      /\ Len(calls) \in DOMAIN calls
      /\ Call.func <= Origin(Now)
  BY InCall
<1>3. Now.top \in Nat
  BY <1>2, FrameBounds
<1>4. Len(ci) \in DOMAIN ci
  BY <1>2
<1>5. Now.top <= size
  BY <1>1, <1>2, <1>4 DEF Within
<1>6. Call.func <= size
  BY <1>1, <1>2 DEF Within
<1> QED BY <1>1, <1>2, <1>3, <1>5, <1>6

(* A function whose frame and activation are replaced, on a stack that has *)
(* not shrunk                                                              *)
LEMMA UsesRoom ==
    ASSUME Settled, RoomOK, calls # <<>>, Call.at # "unwind",
           NEW g \in Frames, NEW e \in Activations, e.func = Call.func,
           ci' = Replaced(ci, g), calls' = Replaced(calls, e),
           size' \in Nat, size <= size', size' <= Limit, g.top <= size', top' \in Nat, top' <= size'
    PROVE  RoomOK'
<1>1. /\ size \in Nat /\ Within(ci, calls, size)
      /\ ci \in Seq(Frames) /\ ci # <<>> /\ calls \in Seq(Activations)
      /\ Call.func \in Nat /\ Call.func <= size
  BY RunRoom
<1>2. Within(ci, calls, size') /\ e.func <= size'
  BY <1>1, WithinMore
<1>3. Within(ci, Replaced(calls, e), size') /\ Replaced(calls, e) \in Seq(Activations)
  BY <1>1, <1>2, WithinCalls, ReplacedCall
<1>4. Within(Replaced(ci, g), Replaced(calls, e), size')
  BY <1>1, <1>3, WithinReplaced
<1> QED BY <1>4, RoomIf

(* Steps that change L->top only                                           *)
LEMMA LocalRoom ==
    ASSUME Settled, RoomOK, \/ Local
                            \/ \E n \in 0..Now.act - 1 : Leave(n)
                            \/ \E level \in Registers(Now) : Capture(level)
                            \/ Tbc
                            \/ TbcNil
                            \/ \E n \in 0..Now.act - 1 : Close(n)
    PROVE  RoomOK'
<1>1. Runs /\ size' = size /\ top' \in {top, Now.top}
  BY DEF Local, Leave, Capture, Tbc, TbcNil, Close, stack, KeepList
<1>2. calls # <<>> /\ Call.at = "run" /\ Call.at # "unwind"
  BY <1>1 DEF Runs
<1>3. /\ Replaced(ci, Now) = ci /\ Replaced(calls, Call) = calls
  BY <1>1, WhileRuns
<1>4. \E n : ci' = Replaced(ci, [Now EXCEPT !.act = n]) /\ n \in Nat
  <2>1. Now.act \in Nat /\ Now = [Now EXCEPT !.act = Now.act]
    BY <1>1, WhileRuns DEF Frames
  <2>2. CASE ci' = ci
    BY <2>1, <2>2, <1>3
  <2>3. CASE \E n \in 0..Now.act - 1 : Leave(n)
    BY <2>1, <2>3 DEF Leave, Using
  <2>4. CASE Local \/ Tbc \/ TbcNil
    BY <2>1, <2>4 DEF Local, Tbc, TbcNil, Using
  <2> QED BY <2>2, <2>3, <2>4 DEF Capture, Close
<1>5. PICK n \in Nat : ci' = Replaced(ci, [Now EXCEPT !.act = n])
  BY <1>4
<1>6. /\ [Now EXCEPT !.act = n] \in Frames /\ [Now EXCEPT !.act = n].top = Now.top
  BY <1>2, RunRoom DEF Frames
<1>7. \E e \in Activations : e.func = Call.func /\ calls' = Replaced(calls, e)
  <2>1. Call \in Activations
    BY <1>2, RunRoom
  <2>2. CASE calls' = calls
    BY <2>1, <2>2, <1>3
  <2>3. CASE \E m \in 0..Now.act - 1 : Close(m)
    <3>1. PICK m \in 0..Now.act - 1 : Close(m)
      BY <2>3
    <3> DEFINE level == Base(Now) + m
               e == Closing(Call, "close", level, 0, 0)
    <3>2. calls' = Replaced(calls, e)
      BY <3>1 DEF Close
    <3>3. level \in Nat
      BY <1>2, RunRoom
    <3> HIDE DEF level
    <3>4. e \in Activations /\ e.func = Call.func
      BY <2>1, <3>3 DEF Closing, Activations
    <3> QED BY <3>2, <3>4
  <2> QED BY <2>2, <2>3 DEF Local, Leave, Capture, Tbc, TbcNil
<1>8. PICK e \in Activations : e.func = Call.func /\ calls' = Replaced(calls, e)
  BY <1>7
<1>9. /\ size \in Nat /\ size <= Limit /\ top \in Nat /\ top <= size
      /\ Now.top \in Nat /\ Now.top <= size
  BY <1>2, RunRoom
<1> DEFINE g == [Now EXCEPT !.act = n]
<1>10. g \in Frames /\ g.top = Now.top /\ ci' = Replaced(ci, g)
  BY <1>5, <1>6
<1> HIDE DEF g
<1>11. /\ size' \in Nat /\ size <= size' /\ size' <= Limit /\ top' \in Nat /\ top' <= size'
       /\ g.top <= size'
  BY <1>1, <1>9, <1>10
<1> QED BY <1>2, <1>8, <1>10, <1>11, UsesRoom

(* An error in a function, with either L->top                              *)
LEMMA RaiseRoom ==
    ASSUME Settled, RoomOK, NEW t \in {top, Now.top}, Raise(t)
    PROVE  RoomOK'
<1>1. Runs /\ top' = t /\ Fail(calls) /\ size' = size
  BY DEF Raise, KeepList
<1>2. calls # <<>> /\ Call.at # "unwind"
  BY <1>1 DEF Runs
<1>3. /\ size \in Nat /\ size <= Limit /\ top \in Nat /\ top <= size
      /\ Now.top \in Nat /\ Now.top <= size
  BY <1>2, RunRoom
<1> QED BY <1>1, <1>2, <1>3, FailRoom

(* The size after a collection                                             *)
LEMMA ShrunkIs ==
    ASSUME RoomOK, ci \in Seq(Frames), ci # <<>>, \A k \in DOMAIN ci : k # 1 => ci[k].top <= size
    PROVE  /\ Shrunk \in Nat /\ Shrunk <= Limit
           /\ \A k \in DOMAIN ci : k # 1 => ci[k].top <= Shrunk
<1> DEFINE T == {ci[i].top : i \in DOMAIN ci}
           x == Highest(T)
<1>1. size \in Nat /\ size <= Limit /\ Limit \in Nat /\ MinInUse \in Nat
  BY InRoomFacts, SlotsAssumption
<1>2. DOMAIN ci = 1..Len(ci) /\ 1 \in DOMAIN ci /\ \A k \in DOMAIN ci : ci[k] \in Frames /\ ci[k].top \in Nat
  <2>1. Len(ci) \in Nat \ {0} /\ DOMAIN ci = 1..Len(ci)
    BY LenProperties, EmptySeq
  <2>2. \A k \in DOMAIN ci : ci[k] \in Frames
    BY <2>1, ElementOfSeq
  <2> QED BY <2>1, <2>2, FrameBounds
<1>3. T \in SUBSET Nat /\ ci[1].top \in T
  BY <1>2
<1>4. \E b \in Nat : \A y \in T : y <= b
  <2> DEFINE b == Larger(size, ci[1].top)
  <2>1. b \in Nat /\ size <= b /\ ci[1].top <= b
    BY <1>1, <1>2 DEF Larger
  <2> HIDE DEF b
  <2>2. ASSUME NEW k \in DOMAIN ci PROVE ci[k].top <= b
    <3>1. CASE k = 1
      BY <3>1, <2>1
    <3>2. CASE k # 1
      <4>1. ci[k].top <= size /\ ci[k].top \in Nat
        BY <3>2, <1>2
      <4> QED BY <4>1, <2>1, <1>1
    <3> QED BY <3>1, <3>2
  <2>3. \A y \in T : y <= b
    BY <2>2
  <2> QED BY <2>1, <2>3
<1> HIDE DEF T
<1>5. x \in T \cup {0} /\ x \in Nat /\ \A y \in T : y <= x
  BY <1>3, <1>4, HighestIs
<1>6. x \in T
  <2>1. SUFFICES ASSUME x = 0 PROVE x \in T
    BY <1>5
  <2>2. ci[1].top = 0
    BY <2>1, <1>2, <1>3, <1>5
  <2> QED BY <2>1, <2>2, <1>3
<1> HIDE DEF x
<1>7. Max(T) = x
  <2>1. T \in SUBSET Int
    BY <1>3
  <2> QED BY <2>1, <1>5, <1>6, MaxIs
<1>8. InUse = Larger(MinInUse, 1 + x)
  BY <1>7 DEF InUse, T
<1>9. InUse \in Nat /\ 1 + x <= InUse
  BY <1>1, <1>5, <1>8 DEF Larger
<1> DEFINE u == InUse
<1>10. Shrunk = IF u <= Limit /\ size > (IF u > Limit \div Slack THEN Limit ELSE u * Slack)
                THEN IF u > Limit \div Spare THEN Limit ELSE u * Spare
                ELSE size
  BY DEF Shrunk
<1>11. Shrunk \in Nat /\ Shrunk <= Limit /\ (Shrunk = size \/ u <= Shrunk)
  <2>1. u \in Nat
    BY <1>9
  <2> HIDE DEF u
  <2>2. Spare \in Nat \ {0}
    BY SlotsAssumption
  <2> DEFINE d == Limit \div Spare
  <2>3. d \in Nat /\ d * Spare <= Limit /\ d * Spare \in Nat
    BY <1>1, <2>2, Divided
  <2> HIDE DEF d
  <2>4. u <= d => u * Spare \in Nat /\ u * Spare <= d * Spare /\ u <= u * Spare
    BY <2>1, <2>2, <2>3, Multiples
  <2> DEFINE w == u * Spare
  <2>5. u <= d => w \in Nat /\ w <= Limit /\ u <= w
    BY <1>1, <2>3, <2>4
  <2>6. Shrunk = size \/ (u <= Limit /\ Shrunk = Limit) \/ (u <= d /\ Shrunk = w)
    BY <1>1, <1>10, <2>1, <2>3 DEF d
  <2> HIDE DEF w
  <2> QED BY <1>1, <2>1, <2>3, <2>5, <2>6
<1>12. ASSUME NEW k \in DOMAIN ci, k # 1 PROVE ci[k].top <= Shrunk
  <2>1. ci[k].top \in Nat /\ ci[k].top <= size /\ ci[k].top \in T
    BY <1>2, <1>12 DEF T
  <2>2. ci[k].top <= x
    BY <2>1, <1>5
  <2> HIDE DEF u
  <2> QED BY <2>1, <2>2, <1>1, <1>5, <1>9, <1>11 DEF u
<1> QED BY <1>11, <1>12

(* A register more than a function uses                                    *)
LEMMA OneMoreFits ==
    ASSUME Settled, Runs, NEW n \in Nat, Room(n)
    PROVE  Next1(Now) + n <= Now.top
<1>1. /\ Next1(Now) = Base(Now) + Now.act /\ Now.top = Base(Now) + FrameSize
      /\ Base(Now) \in Nat /\ Now.act \in Nat /\ FrameSize \in Nat
  BY WhileRuns, SlotsAssumption
<1>2. Now.act + n <= FrameSize
  BY DEF Room
<1> DEFINE b == Base(Now)  a == Now.act
<1> HIDE DEF b, a
<1>3. b + a + n <= b + FrameSize
  BY <1>1, <1>2 DEF b, a
<1> QED BY <1>1, <1>3 DEF b, a

(* A collection leaves room for what is in use.                            *)
LEMMA CollectRoom ==
    ASSUME Settled, RoomOK, Collect
    PROVE  RoomOK'
<1>1. /\ Runs /\ Room(1) /\ top' = Next1(Now) + 1 /\ size' = Shrunk /\ ci' = ci /\ calls' = calls
  BY DEF Collect
<1>2. calls # <<>> /\ Call.at = "run" /\ Call.at # "unwind"
  BY <1>1 DEF Runs
<1>3. /\ ci \in Seq(Frames) /\ ci # <<>> /\ Len(ci) # 1 /\ calls \in Seq(Activations)
      /\ Within(ci, calls, size) /\ Next1(Now) \in Nat /\ Now.top \in Nat
      /\ Call.func \in Nat /\ Call.func <= Origin(Now) /\ Origin(Now) \in Nat
      /\ Origin(Now) < Base(Now) /\ Base(Now) \in Nat /\ Base(Now) <= Next1(Now) /\ Next1(Now) <= Now.top
  BY <1>2, RunRoom
<1>4. /\ Shrunk \in Nat /\ Shrunk <= Limit
      /\ \A k \in DOMAIN ci : k # 1 => ci[k].top <= Shrunk
  BY <1>3, ShrunkIs DEF Within
<1>5. Now.top <= Shrunk
  <2>1. Now = ci[Len(ci)] /\ Len(ci) \in DOMAIN ci
    <3>1. Now = ci[Len(ci)] /\ DOMAIN ci = 1..Len(ci) /\ Len(ci) \in Nat \ {0}
      BY <1>2, InCall
    <3> QED BY <3>1
  <2> QED BY <2>1, <1>3, <1>4
<1>6. Next1(Now) + 1 \in Nat /\ Next1(Now) + 1 <= Shrunk
  <2>1. Next1(Now) + 1 <= Now.top
    BY <1>1, OneMoreFits
  <2> QED BY <2>1, <1>3, <1>4, <1>5
<1>7. \A i \in DOMAIN calls : calls[i].func <= Shrunk
  <2>1. Call.func <= Shrunk
    BY <1>3, <1>4, <1>5
  <2>2. CallsStacked(ci, calls) /\ Call = calls[Len(calls)] /\ Len(calls) \in DOMAIN calls
    BY <1>2, InCall
  <2>3. DOMAIN calls = 1..Len(calls) /\ Len(calls) \in Nat
    BY <1>3, LenProperties
  <2>4. ASSUME NEW i \in DOMAIN calls, i # Len(calls) PROVE calls[i].func <= Shrunk
    <3>1. i < Len(calls)
      BY <2>3, <2>4
    <3>2. calls[i].func < Call.func
      BY <3>1, <2>2 DEF CallsStacked
    <3>3. calls[i].func \in Nat
      <4>1. calls[i] \in Activations
        BY <1>3, <2>3, ElementOfSeq
      <4> QED BY <4>1, ActivationFields
    <3> QED BY <2>1, <3>2, <3>3, <1>3, <1>4
  <2> QED BY <2>1, <2>2, <2>4
<1>8. Within(ci, calls, Shrunk)
  BY <1>4, <1>7 DEF Within
<1> QED BY <1>1, <1>4, <1>6, <1>8, RoomIf

(* OP_CALL of a Lua function grows the stack or raises an error.           *)
LEMMA CallLuaRoom ==
    ASSUME Settled, RoomOK, NEW wanted \in {-1, 1}, NEW args \in {0, MaxArgs}, CallLua(wanted, args)
    PROVE  RoomOK'
<1> DEFINE func == Next1(Now)
           t == func + 1 + args
           g == Frame("lua", func, func + 1 + FrameSize, wanted, Entered(args))
           z == IF Tight(t, FrameSize) THEN Doubled(t, FrameSize) ELSE size
           fits == Tight(t, FrameSize) => CanGrow(t, FrameSize)
<1>1. /\ Runs /\ Room(1 + args) /\ top' = t
      /\ fits => size' = z /\ ci' = Append(ci, g) /\ calls' = calls
      /\ ~fits => Fail(calls) /\ size' = size
  BY DEF CallLua
<1>2. calls # <<>> /\ Call.at = "run" /\ Call.at # "unwind"
  BY <1>1 DEF Runs
<1>3. /\ size \in Nat /\ size <= Limit /\ Within(ci, calls, size) /\ func \in Nat
      /\ ci \in Seq(Frames) /\ calls \in Seq(Activations)
      /\ Base(Now) \in Nat /\ Origin(Now) \in Nat \ {0} /\ Origin(Now) < Base(Now) /\ Base(Now) <= func
      /\ Now.top \in Nat /\ Now.top <= size
  BY <1>2, RunRoom
<1>4. args \in Nat /\ FrameSize \in Nat
  BY SlotsAssumption
<1> HIDE DEF func
<1>5. func \in Nat \ {0} /\ t \in Nat /\ func + 1 <= t
  BY <1>3, <1>4
<1>6. CASE fits
  <2>1. wanted \in {-1, 0, 1}
    OBVIOUS
  <2>2. g \in Frames /\ g.top = func + 1 + FrameSize
    <3>1. g \in Frames
      BY <1>5, <2>1, LuaFrame
    <3> QED BY <3>1 DEF Frame
  <2>3. z \in Nat /\ size <= z /\ t + FrameSize <= z /\ z <= Limit
    BY <1>3, <1>4, <1>5, <1>6, Grown
  <2> HIDE DEF g, z
  <2>4. g.top <= z /\ t <= z
    <3> HIDE DEF t
    <3>1. func + 1 + FrameSize <= z /\ t <= z
      BY <1>4, <1>5, <2>3
    <3> QED BY <3>1, <2>2
  <2>5. Within(ci, calls, z)
    BY <1>3, <2>3, WithinMore
  <2>6. Within(Append(ci, g), calls, z)
    BY <1>3, <2>2, <2>3, <2>4, <2>5, WithinPushed
  <2> QED BY <1>1, <1>5, <1>6, <2>3, <2>4, <2>6, RoomIf
<1>7. CASE ~fits
  <2>1. t <= Now.top
    <3>1. func + (1 + args) <= Now.top
      BY <1>1, <1>4, OneMoreFits DEF func
    <3> QED BY <3>1, <1>3, <1>4
  <2>2. size' \in Nat /\ size <= size' /\ size' <= Limit /\ top' \in Nat /\ top' <= size'
    BY <1>1, <1>3, <1>5, <1>7, <2>1
  <2> QED BY <1>1, <1>2, <1>7, <2>2, FailRoom
<1> QED BY <1>6, <1>7

(* So does OP_TAILCALL, which moves the function down,                     *)
LEMMA TailCallRoom ==
    ASSUME Settled, RoomOK, NEW args \in {0, MaxArgs}, TailCall(args)
    PROVE  RoomOK'
<1> DEFINE t == Next1(Now) + 1 + args
           m == FrameSize - Now.delta
           func == Origin(Now)
           g == Frame("lua", func, func + 1 + FrameSize, Now.wanted, Entered(args))
           z == IF Tight(t, m) THEN Doubled(t, m) ELSE size
           fits == Tight(t, m) => CanGrow(t, m)
<1>1. /\ Runs /\ Room(1 + args)
      /\ fits => size' = z /\ top' = func + 1 + args /\ ci' = Replaced(ci, g) /\ calls' = calls
      /\ ~fits => top' = t /\ Fail(calls) /\ size' = size
  BY DEF TailCall
<1>2. calls # <<>> /\ Call.at = "run" /\ Call.at # "unwind" /\ Replaced(calls, Call) = calls
  BY <1>1, WhileRuns
<1>3. /\ size \in Nat /\ size <= Limit /\ Next1(Now) \in Nat
      /\ Call \in Activations /\ Now \in Frames
      /\ Base(Now) \in Nat /\ func \in Nat \ {0} /\ func < Base(Now) /\ Base(Now) <= Next1(Now)
      /\ Now.top \in Nat /\ Now.top <= size
  BY <1>2, RunRoom
<1>4. args \in Nat /\ FrameSize \in Nat
  BY SlotsAssumption
<1>5. /\ Now.delta \in Nat /\ Now.func \in Nat /\ func = Now.func - Now.delta
      /\ Base(Now) = Now.func + 1 /\ m \in Int
  BY <1>3, <1>4, FrameBounds DEF Origin, Base
<1>6. t \in Nat /\ t <= Now.top /\ t <= size /\ func + 1 + args \in Nat /\ func + 1 + args <= t
  <2>1. Next1(Now) + (1 + args) <= Now.top
    BY <1>1, <1>4, OneMoreFits
  <2> DEFINE x == Next1(Now)  b == Base(Now)
  <2>2. x \in Nat /\ b \in Nat /\ b <= x /\ func < b /\ func \in Nat /\ x + (1 + args) <= Now.top
    BY <2>1, <1>3
  <2> HIDE DEF x, b, func
  <2>3. /\ x + 1 + args \in Nat /\ x + 1 + args <= Now.top /\ x + 1 + args <= size
        /\ func + 1 + args \in Nat /\ func + 1 + args <= x + 1 + args
    BY <2>2, <1>3, <1>4
  <2> QED BY <2>3 DEF x
<1>7. CASE fits
  <2>1. Now.wanted \in {-1, 0, 1}
    BY <1>3, FrameBounds
  <2>2. g \in Frames /\ g.top = func + 1 + FrameSize
    <3>1. g \in Frames
      BY <1>3, <2>1, LuaFrame
    <3> QED BY <3>1 DEF Frame
  <2>3. z \in Nat /\ size <= z /\ t + m <= z /\ z <= Limit
    BY <1>3, <1>5, <1>6, <1>7, Grown
  <2> HIDE DEF g, z
  <2>4. func + 1 + FrameSize <= t + m
    <3> DEFINE x == Next1(Now)  b == Base(Now)
    <3>1. x \in Nat /\ b \in Nat /\ b <= x /\ b = Now.func + 1 /\ func = Now.func - Now.delta
          /\ t = x + 1 + args
      BY <1>3, <1>5
    <3> HIDE DEF x, b, func, t
    <3> QED BY <3>1, <1>4, <1>5
  <2>5. g.top <= z /\ func + 1 + args <= z
    <3> DEFINE y == func + 1 + FrameSize  q == func + 1 + args
    <3>1. y \in Nat /\ q \in Nat /\ q <= t
      BY <1>3, <1>4, <1>6
    <3>2. y <= t + m /\ g.top = y
      BY <2>2, <2>4
    <3> HIDE DEF y, q, t, m
    <3>3. y <= z /\ q <= z
      BY <3>1, <3>2, <2>3, <1>3, <1>5, <1>6
    <3> QED BY <3>2, <3>3 DEF q
  <2>6. /\ size' \in Nat /\ size <= size' /\ size' <= Limit /\ g.top <= size' /\ top' \in Nat
        /\ top' <= size' /\ ci' = Replaced(ci, g) /\ calls' = Replaced(calls, Call)
    BY <1>1, <1>2, <1>6, <1>7, <2>3, <2>5
  <2> QED BY <1>2, <1>3, <2>2, <2>6, UsesRoom
<1>8. CASE ~fits
  <2>2. size' \in Nat /\ size <= size' /\ size' <= Limit /\ top' \in Nat /\ top' <= size'
    BY <1>1, <1>3, <1>6, <1>8
  <2> QED BY <1>1, <1>2, <1>8, <2>2, FailRoom
<1> QED BY <1>7, <1>8

(* OP_VARARGPREP, which moves it up,                                       *)
LEMMA VarargPrepRoom ==
    ASSUME Settled, RoomOK, VarargPrep
    PROVE  RoomOK'
<1> DEFINE by == top - Now.func
           g == [Now EXCEPT !.func = @ + by, !.top = @ + by, !.delta = by, !.next = "any"]
           n == FrameSize + 1
           z == IF Tight(top, n) THEN Doubled(top, n) ELSE size
           fits == Tight(top, n) => CanGrow(top, n)
<1>1. /\ calls # <<>> /\ Call.at = "run" /\ Now.next = "prep" /\ Call.at # "unwind"
      /\ fits => size' = z /\ top' = top + 1 /\ ci' = Replaced(ci, g) /\ calls' = calls
      /\ ~fits => Fail(calls) /\ top' = top /\ size' = size
  BY DEF VarargPrep
<1>2. /\ size \in Nat /\ size <= Limit /\ top \in Nat /\ top <= size /\ Call \in Activations /\ Now \in Frames
      /\ Base(Now) \in Nat
  BY <1>1, RunRoom
<1>3. /\ FrameShape(Now) /\ Now.kind = "lua" /\ Base(Now) <= top /\ Replaced(calls, Call) = calls
  BY <1>1, InCall, Running
<1>4. /\ Now.func \in Nat /\ Now.top \in Nat /\ Base(Now) = Now.func + 1
      /\ Now.top = Base(Now) + FrameSize /\ FrameSize \in Nat
  BY <1>2, <1>3, FrameBounds, SlotsAssumption DEF FrameShape, Base
<1>5. by \in Nat /\ Now.top + by = top + n
  <2> DEFINE b == Base(Now)
  <2>1. b \in Nat /\ b = Now.func + 1 /\ b <= top /\ Now.top = b + FrameSize
    BY <1>2, <1>3, <1>4
  <2> HIDE DEF b
  <2> QED BY <2>1, <1>2, <1>4
<1>6. CASE fits
  <2>1. g \in Frames
    BY <1>1, <1>2, <1>3, <1>5, Moved
  <2>2. g.top = top + n
    BY <1>2, <1>5 DEF Frames
  <2>3. n \in Nat /\ n > 0
    BY <1>4
  <2>4. z \in Nat /\ size <= z /\ top + n <= z /\ z <= Limit
    BY <1>2, <1>6, <2>3, Grown
  <2> HIDE DEF g, z, n
  <2>5. top + 1 \in Nat /\ top + 1 <= z
    BY <1>2, <2>3, <2>4
  <2>6. /\ size' \in Nat /\ size <= size' /\ size' <= Limit /\ g.top <= size' /\ top' \in Nat
        /\ top' <= size' /\ ci' = Replaced(ci, g) /\ calls' = Replaced(calls, Call)
    BY <1>1, <1>3, <1>6, <2>2, <2>4, <2>5
  <2> QED BY <1>1, <1>2, <2>1, <2>6, UsesRoom
<1>7. CASE ~fits
  <2>2. size' \in Nat /\ size <= size' /\ size' <= Limit /\ top' \in Nat /\ top' <= size'
    BY <1>1, <1>2, <1>7
  <2> QED BY <1>1, <1>7, <2>2, FailRoom
<1> QED BY <1>6, <1>7

(* and OP_VARARG, which leaves its results above the registers.            *)
LEMMA VarargRoom ==
    ASSUME Settled, RoomOK, Vararg
    PROVE  RoomOK'
<1> DEFINE n == Now.delta - 1
           x == Next1(Now)
           g == [Now EXCEPT !.next = "open"]
           z == IF Tight(Now.top, n) THEN Doubled(Now.top, n) ELSE size
           fits == Tight(Now.top, n) => CanGrow(Now.top, n)
<1>1. /\ Runs /\ Now.delta > 0
      /\ fits => size' = z /\ top' = x + n /\ ci' = Replaced(ci, g) /\ calls' = calls
      /\ ~fits => Fail(calls) /\ top' = Now.top /\ size' = size
  BY DEF Vararg
<1>2. calls # <<>> /\ Call.at = "run" /\ Call.at # "unwind" /\ Replaced(calls, Call) = calls
  BY <1>1, WhileRuns
<1>3. /\ size \in Nat /\ size <= Limit /\ Call \in Activations /\ Now \in Frames
      /\ Now.top \in Nat /\ Now.top <= size /\ x \in Nat /\ x <= Now.top
  BY <1>2, RunRoom
<1>4. n \in Nat
  BY <1>1, <1>3, FrameBounds
<1>5. CASE fits
  <2>1. g \in Frames /\ g.top = Now.top
    BY <1>3 DEF Frames
  <2> HIDE DEF n, x, g
  <2>2. z \in Nat /\ size <= z /\ Now.top + n <= z /\ z <= Limit
    BY <1>3, <1>4, <1>5, Grown
  <2> HIDE DEF z
  <2>3. x + n \in Nat /\ x + n <= z /\ Now.top <= z
    BY <1>3, <1>4, <2>2
  <2>6. /\ size' \in Nat /\ size <= size' /\ size' <= Limit /\ g.top <= size' /\ top' \in Nat
        /\ top' <= size' /\ ci' = Replaced(ci, g) /\ calls' = Replaced(calls, Call)
    BY <1>1, <1>2, <1>5, <2>1, <2>2, <2>3
  <2> QED BY <1>2, <1>3, <2>1, <2>6, UsesRoom
<1>6. CASE ~fits
  <2>2. size' \in Nat /\ size <= size' /\ size' <= Limit /\ top' \in Nat /\ top' <= size'
    BY <1>1, <1>3, <1>6
  <2> QED BY <1>1, <1>2, <1>6, <2>2, FailRoom
<1> QED BY <1>5, <1>6

(* The calls through luaD_call                                             *)
LEMMA CallMetamethodRoom ==
    ASSUME Settled, RoomOK, CallMetamethod
    PROVE  RoomOK'
<1>1. /\ Runs /\ Precall(Now.top, Now.top + 3, 1, "op", ci) /\ declared' = declared
  BY DEF CallMetamethod, KeepList
<1>2. calls # <<>> /\ Call.at = "run" /\ Call.at # "unwind"
  BY <1>1 DEF Runs
<1>3. /\ Within(ci, calls, size) /\ ci \in Seq(Frames) /\ calls \in Seq(Activations)
      /\ Now.top \in Nat /\ Now.top <= size /\ Next1(Now) \in Nat /\ Next1(Now) <= Now.top
      /\ Origin(Now) \in Nat \ {0} /\ Origin(Now) < Base(Now) /\ Base(Now) \in Nat /\ Base(Now) <= Next1(Now)
  BY <1>2, RunRoom
<1>4. \A s \in declared' : s < Now.top
  <2>1. ASSUME NEW s \in declared PROVE s < Now.top
    <3>1. s \in Nat /\ s < Next1(Now)
      BY <1>1, WhileRuns
    <3> QED BY <3>1, <1>3
  <2> QED BY <2>1, <1>1
<1>5. /\ Now.top \in Nat \ {0} /\ Now.top + 3 \in Nat /\ Now.top < Now.top + 3
      /\ Now.top + 3 <= Now.top + 3 /\ 1 \in {-1, 0, 1} /\ "op" \in {"host", "op", "pcall", "closer"}
  BY <1>3
<1> QED BY <1>1, <1>3, <1>4, <1>5, PrecallRoom

(* A call of pcall has room for its frame and for what it calls.           *)
LEMMA CallPcallRoom ==
    ASSUME Settled, RoomOK, NEW wanted \in {-1, 1}, CallPcall(wanted)
    PROVE  RoomOK'
<1> DEFINE x == Next1(Now)
           g == Frame("fp", x, x + 2, wanted, "any")
           H == Append(ci, g)
<1>1. /\ Runs /\ Room(2) /\ Precall(x + 1, x + 2, -1, "pcall", H) /\ declared' = declared
  BY DEF CallPcall, KeepList
<1>2. calls # <<>> /\ Call.at = "run" /\ Call.at # "unwind"
  BY <1>1 DEF Runs
<1>3. /\ Within(ci, calls, size) /\ ci \in Seq(Frames) /\ calls \in Seq(Activations) /\ size \in Nat
      /\ Now.top \in Nat /\ Now.top <= size /\ x \in Nat
  BY <1>2, RunRoom
<1>4. x + 2 <= Now.top
  BY <1>1, OneMoreFits
<1> HIDE DEF x
<1>5. /\ x + 2 <= size /\ x + 1 <= size /\ x + 1 \in Nat \ {0} /\ x + 2 \in Nat /\ x + 1 < x + 2
      /\ x + 2 <= x + 1 + 3 /\ -1 \in {-1, 0, 1} /\ "pcall" \in {"host", "op", "pcall", "closer"}
  BY <1>3, <1>4
<1>6. g \in Frames /\ g.top = x + 2
  <2>1. wanted \in {-1, 0, 1}
    OBVIOUS
  <2> QED BY <2>1, <1>3 DEF Frames, Frame
<1> HIDE DEF g
<1>7. Within(H, calls, size) /\ H \in Seq(Frames)
  BY <1>3, <1>5, <1>6, WithinPushed, AppendedFrame
<1>8. \A s \in declared' : s < x + 1
  <2>1. ASSUME NEW s \in declared PROVE s < x + 1
    <3>1. s \in Nat /\ s < x
      BY <1>1, WhileRuns DEF x
    <3> QED BY <3>1, <1>3
  <2> QED BY <2>1, <1>1
<1> HIDE DEF H
<1> QED BY <1>1, <1>3, <1>5, <1>7, <1>8, PrecallRoom

(* An activation that closes a variable is not idle.                       *)
LEMMA NotIdle ==
    ASSUME Settled, RoomOK, tbclist = Highest(declared), Closes, tbclist >= Call.level
    PROVE  /\ size \in Nat /\ size <= Limit /\ Within(ci, calls, size) /\ top \in Nat \ {0} /\ top <= size
           /\ ci \in Seq(Frames) /\ calls \in Seq(Activations)
           /\ \A s \in declared : s < top
<1>1. calls # <<>> /\ Call.at # "run"
  BY DEF Closes
<1>2. /\ Busy(ci, Call, Len(ci)) /\ Call \in Activations /\ Call.func \in Nat /\ top \in Nat /\ Call.func < top
      /\ ci \in Seq(Frames) /\ calls \in Seq(Activations) /\ \A s \in declared : s < top
  BY <1>1, InCall
<1>3. tbclist \in declared /\ tbclist \in Nat /\ Call.level \in Nat
  BY ReachedIsOne
<1>4. ~Idle
  <2>1. SUFFICES ASSUME Idle PROVE FALSE
    OBVIOUS
  <2>2. Call.level = Call.func /\ tbclist < Call.func
    BY <2>1, <1>2, <1>3 DEF Idle, Busy
  <2> QED BY <2>2, <1>2, <1>3
<1> QED BY <1>2, <1>4, InRoomFacts

(* A __close that is called has room as any function has,                  *)
LEMMA CloseNextRoom ==
    ASSUME Settled, RoomOK, tbclist = Highest(declared), CloseNext
    PROVE  RoomOK'
<1>1. /\ Closes /\ tbclist >= Call.level /\ Precall(top, top + 3, 0, "closer", ci)
      /\ declared' = declared \ {tbclist}
  BY DEF CloseNext, Pop
<1>2. /\ Within(ci, calls, size) /\ top \in Nat \ {0} /\ top <= size
      /\ ci \in Seq(Frames) /\ calls \in Seq(Activations)
      /\ \A s \in declared' : s < top
  BY <1>1, NotIdle
<1>3. /\ top + 3 \in Nat /\ top < top + 3 /\ top + 3 <= top + 3 /\ 0 \in {-1, 0, 1}
      /\ "closer" \in {"host", "op", "pcall", "closer"}
  BY <1>2
<1> QED BY <1>1, <1>2, <1>3, PrecallRoom

(* and so has one that is a Rust function.                                 *)
LEMMA CloseNextFpRoom ==
    ASSUME Settled, RoomOK, tbclist = Highest(declared), NEW fails \in BOOLEAN, CloseNextFp(fails)
    PROVE  RoomOK'
<1> DEFINE tight == TightFp(top + 3)
           fits == tight => CanGrow(top + 3, FpSlots)
<1>1. /\ Closes /\ tbclist >= Call.level /\ top' = top
      /\ size' = IF tight /\ fits THEN Doubled(top + 3, FpSlots) ELSE size
      /\ \/ ci' = ci /\ calls' = calls
         \/ Fail(calls)
  BY DEF CloseNextFp
<1>2. /\ size \in Nat /\ size <= Limit /\ Within(ci, calls, size) /\ top \in Nat /\ top <= size
      /\ ci \in Seq(Frames) /\ calls \in Seq(Activations) /\ calls # <<>>
  BY <1>1, NotIdle DEF Closes
<1>3. Limit \in Nat /\ FpSlots \in Nat
  BY SlotsAssumption
<1>4. /\ size' \in Nat /\ size <= size' /\ size' <= Limit /\ top' \in Nat /\ top' <= size'
  <2>1. CASE tight /\ fits
    <3>1. size' = Doubled(top + 3, FpSlots) /\ CanGrow(top + 3, FpSlots)
      BY <2>1, <1>1
    <3> QED BY <3>1, <1>1, <1>2, <1>3 DEF CanGrow, Doubled, Larger
  <2>2. CASE ~(tight /\ fits)
    <3>1. size' = size
      BY <2>2, <1>1
    <3> QED BY <3>1, <1>1, <1>2
  <2> QED BY <2>1, <2>2
<1>5. CASE Fail(calls)
  BY <1>2, <1>4, <1>5, FailRoom
<1>6. CASE ci' = ci /\ calls' = calls
  <2>1. Within(ci, calls, size')
    BY <1>2, <1>4, WithinMore
  <2> QED BY <1>4, <1>6, <2>1, RoomIf
<1> QED BY <1>1, <1>5, <1>6

(* The host starts a function with room for its frame.                     *)
LEMMA StartRoom ==
    ASSUME Settled, RoomOK, Start
    PROVE  RoomOK'
<1> DEFINE g == [Now EXCEPT !.top = Larger(@, top + 1)]
           H == Replaced(ci, g)
<1>1. /\ calls = <<>> /\ Precall(top, top + 1, -1, "host", H) /\ declared' = declared
  BY DEF Start, KeepList
<1>2. /\ Placed(ci, <<>>, top, declared, openupval)
      /\ ci \in Seq(Frames) /\ FramesStacked(ci) /\ ci # <<>> /\ Len(ci) = 1
      /\ top \in Nat /\ 0 < top /\ openupval \in SUBSET Nat /\ declared \in SUBSET Nat
  <2>1. Placed(ci, <<>>, top, declared, openupval)
    BY <1>1 DEF Settled
  <2> QED BY <2>1 DEF Placed, FramesStacked, CallsStacked, TopAbove
<1>3. Now \in Frames /\ Now.top \in Nat
  <2>1. Now = ci[1] /\ IsBase(Now)
    BY <1>2, StackedFacts DEF Now
  <2> QED BY <2>1 DEF IsBase, Frames
<1>4. g \in Frames
  <2>1. Larger(Now.top, top + 1) \in Nat
    BY <1>2, <1>3 DEF Larger
  <2> QED BY <1>3, <2>1 DEF Frames
<1> HIDE DEF g
<1>5. Within(ci, calls, size) /\ size \in Nat /\ top <= size
  BY <1>1, InRoomFacts DEF Idle
<1>6. calls \in Seq(Activations)
  BY <1>1
<1>7. Within(H, calls, size) /\ H \in Seq(Frames)
  BY <1>2, <1>4, <1>5, <1>6, WithinReplaced, ReplacedFrame
<1>8. \A s \in declared : s < top
  BY <1>2 DEF Placed, Waiting
<1>9. /\ top \in Nat \ {0} /\ top + 1 \in Nat /\ top < top + 1 /\ top + 1 <= top + 3 /\ -1 \in {-1, 0, 1}
      /\ "host" \in {"host", "op", "pcall", "closer"} /\ \A s \in declared' : s < top
  BY <1>1, <1>2, <1>8
<1> HIDE DEF H
<1> QED BY <1>1, <1>5, <1>6, <1>7, <1>9, PrecallRoom

(* The results of a call arrive in a frame that has room for them.         *)
LEMMA WithinResumed ==
    ASSUME NEW F \in Seq(Frames), F # <<>>, NEW C \in Seq(Activations), NEW z \in Nat, Within(F, C, z),
           NEW wanted
    PROVE  Within(Resumed(F, wanted), C, z)
<1> DEFINE next == IF wanted = -1 THEN "open" ELSE "any"
           g == [Last(F) EXCEPT !.next = next]
<1>1. /\ Len(F) \in Nat \ {0} /\ DOMAIN F = 1..Len(F) /\ Last(F) = F[Len(F)] /\ Last(F) \in Frames
  BY FrontIs
<1>2. next \in {"any", "prep", "open"}
  OBVIOUS
<1> HIDE DEF next
<1>3. g \in Frames /\ g.top = Last(F).top
  BY <1>1, <1>2 DEF Frames
<1>4. Len(F) # 1 => g.top <= z
  <2>1. Len(F) \in DOMAIN F
    BY <1>1
  <2> QED BY <2>1, <1>1, <1>3 DEF Within
<1>5. Resumed(F, wanted) = Replaced(F, g)
  BY DEF Resumed, next
<1> HIDE DEF g
<1> QED BY <1>3, <1>4, <1>5, WithinReplaced

(* pcall ends.                                                             *)
LEMMA PcallEndsRoom ==
    ASSUME Settled, RoomOK, calls # <<>>, Call.by = "pcall", NEW t \in Nat, Call.func <= t, t <= size,
           NEW k \in {1, 4}, PcallEnds(t, k)
    PROVE  RoomOK'
<1> DEFINE p == ci[Call.depth]
           end == Larger(p.top, t)
           grows == t + k > end /\ Tight(end, Reserve)
           n == t + k - Base(p)
           m == Call.depth - 1
           fits == grows => CanGrow(end, Reserve)
           z == IF grows THEN Doubled(end, Reserve) ELSE size
<1>1. /\ Placed(ci, calls, top, declared, openupval)
      /\ ci \in Seq(Frames) /\ FramesStacked(ci) /\ calls \in Seq(Activations) /\ CallsStacked(ci, calls)
      /\ Call.func \in Nat /\ Call \in Activations /\ DOMAIN ci = 1..Len(ci) /\ Len(ci) \in Nat
      /\ Last(calls) = Call
  BY InCall DEF Settled, Call
<1>2. Call.depth \in 1..Len(ci) /\ p.kind = "fp" /\ Call.func = Base(p)
  BY <1>1, BelowLast DEF Call
<1>3. p \in Frames /\ FrameShape(p) /\ Call.depth \in DOMAIN ci /\ Call.depth # 1
  <2>1. ci[1].kind = "base"
    BY <1>1 DEF FramesStacked
  <2>2. Call.depth \in DOMAIN ci
    BY <1>1, <1>2
  <2>3. Call.depth # 1
    BY <2>1, <1>2
  <2> QED BY <2>2, <2>3, <1>1, StackedFacts
<1>4. /\ p.func \in Nat /\ p.top = p.func + 2 /\ Base(p) = p.func + 1 /\ p.wanted \in {-1, 0, 1}
  BY <1>2, <1>3, FrameBounds DEF FrameShape, Base
<1>5. size \in Nat /\ size <= Limit /\ Within(ci, calls, size)
  BY InRoomFacts
<1>6. end \in Nat /\ p.top <= end /\ t <= end /\ end <= size
  <2>1. p.top <= size
    BY <1>3, <1>5 DEF Within
  <2> QED BY <2>1, <1>4 DEF Larger
<1>7. Reserve \in Nat /\ Reserve >= 3
  BY SlotsAssumption
<1>8. /\ fits => /\ top' = p.func + Arriving(p, n) /\ size' = z
                 /\ ci' = Resumed(SubSeq(ci, 1, m), p.wanted) /\ calls' = Front(calls)
      /\ ~fits => top' = end /\ Fail(Front(calls)) /\ size' = size
  BY DEF PcallEnds
<1>9. n \in Nat /\ p.func + n = t + k - 1 /\ n >= k
  <2> DEFINE b == Base(p)  q == p.func
  <2>1. b = q + 1 /\ q \in Nat /\ b <= t /\ k \in Nat
    BY <1>2, <1>4
  <2> HIDE DEF b, q
  <2>2. t + k - b \in Nat /\ q + (t + k - b) = t + k - 1 /\ t + k - b >= k
    BY <2>1
  <2> QED BY <2>2 DEF b, q
<1> HIDE DEF end, n
<1>10. p.func + Arriving(p, n) \in Nat /\ p.func + Arriving(p, n) <= t + k - 1
  <2> DEFINE a == Arriving(p, n)  q == p.func
  <2>1. a = n \/ a \in {0, 1}
    BY <1>4 DEF Arriving
  <2>2. a \in Nat /\ a <= n
    BY <2>1, <1>9
  <2>3. q \in Nat /\ q + n = t + k - 1
    BY <1>4, <1>9
  <2> HIDE DEF a, q
  <2>4. q + a \in Nat /\ q + a <= t + k - 1
    BY <2>2, <2>3, <1>9
  <2> QED BY <2>4 DEF a, q
<1>11. CASE fits
  <2>1. z \in Nat /\ size <= z /\ z <= Limit /\ t + k - 1 <= z
    <3>1. CASE grows
      <4>1. CanGrow(end, Reserve) /\ z = Doubled(end, Reserve)
        BY <1>11, <3>1
      <4>2. Limit \in Nat
        BY SlotsAssumption
      <4> QED BY <4>1, <4>2, <1>5, <1>6, <1>7 DEF CanGrow, Doubled, Larger
    <3>2. CASE ~grows
      <4>1. z = size /\ (t + k <= end \/ ~Tight(end, Reserve))
        BY <3>2, <1>6
      <4> QED BY <4>1, <1>5, <1>6, <1>7 DEF Tight
    <3> QED BY <3>1, <3>2
  <2>2. /\ SubSeq(ci, 1, m) \in Seq(Frames) /\ SubSeq(ci, 1, m) # <<>> /\ m \in 1..Len(ci)
    <3>1. m \in 1..Len(ci) /\ m \in 0..Len(ci) /\ m # 0
      BY <1>1, <1>2, <1>3
    <3> HIDE DEF m
    <3>2. SubSeq(ci, 1, m) \in Seq(Frames) /\ Len(SubSeq(ci, 1, m)) = m
      BY <1>1, <3>1, Cut
    <3> QED BY <3>1, <3>2, EmptySeq
  <2>3. Front(calls) \in Seq(Activations)
    BY <1>1, FrontCall
  <2> HIDE DEF m, z
  <2>4. Within(ci, calls, z)
    BY <1>1, <1>5, <2>1, WithinMore
  <2>5. Within(ci, Front(calls), z)
    <3>1. Call.func <= z
      BY <1>1, <1>5, <2>1
    <3> QED BY <1>1, <2>1, <2>4, <3>1, WithinCalls
  <2>6. Within(SubSeq(ci, 1, m), Front(calls), z)
    BY <1>1, <2>1, <2>2, <2>3, <2>5, WithinCut
  <2>7. Within(Resumed(SubSeq(ci, 1, m), p.wanted), Front(calls), z)
    <3> DEFINE F == SubSeq(ci, 1, m)
    <3> HIDE DEF F
    <3>1. F \in Seq(Frames) /\ F # <<>> /\ Within(F, Front(calls), z)
      BY <2>2, <2>6 DEF F
    <3>2. Within(Resumed(F, p.wanted), Front(calls), z)
      BY <2>1, <2>3, <3>1, WithinResumed
    <3> QED BY <3>2 DEF F
  <2> DEFINE y == p.func + Arriving(p, n)
  <2>8. y \in Nat /\ y <= t + k - 1
    BY <1>10
  <2> HIDE DEF y
  <2>9. y <= z
    BY <2>1, <2>8
  <2> QED BY <1>8, <1>11, <2>1, <2>7, <2>8, <2>9, RoomIf DEF y
<1>12. CASE ~fits
  <2>1. size' = size /\ top' \in Nat /\ top' <= size
    BY <1>6, <1>8, <1>12
  <2>2. Call.by # "host"
    OBVIOUS
  <2> QED BY <1>8, <1>12, <2>1, <2>2, FailBelowRoom
<1> QED BY <1>11, <1>12

(* A function returns.                                                     *)
LEMMA FinishRoom ==
    ASSUME Settled, RoomOK, calls # <<>>, Call.at # "unwind", NEW n \in Nat,
           Origin(Now) + n <= size, Finish(n)
    PROVE  RoomOK'
<1> DEFINE f == [Now EXCEPT !.func = Origin(Now)]
           end == f.func + Arriving(f, n)
           e == Closing(Call, "run", 0, 0, 0)
<1>1. /\ size \in Nat /\ size <= Limit /\ Within(ci, calls, size)
      /\ Now \in Frames /\ Base(Now) \in Nat /\ Origin(Now) \in Nat \ {0} /\ Origin(Now) < Base(Now)
      /\ Base(Now) <= Next1(Now) /\ Next1(Now) \in Nat /\ Next1(Now) <= Now.top
      /\ Now.top \in Nat /\ Now.top <= size
      /\ ci \in Seq(Frames) /\ ci # <<>> /\ calls \in Seq(Activations) /\ Len(ci) # 1
      /\ Call \in Activations /\ Call.func \in Nat /\ Call.func <= size
      /\ Call.func <= Origin(Now)
  BY RunRoom
<1>2. /\ f.func = Origin(Now) /\ f.wanted = Now.wanted
      /\ end \in Nat /\ end <= size /\ Origin(Now) <= end
  <2>1. f.func = Origin(Now) /\ f.wanted = Now.wanted /\ Now.wanted \in {-1, 0, 1}
    BY <1>1, FrameBounds DEF Frames
  <2> HIDE DEF f
  <2>2. Arriving(f, n) \in {0, 1, n}
    BY <2>1 DEF Arriving
  <2> DEFINE o == Origin(Now)  a == Arriving(f, n)
  <2>3. /\ o \in Nat /\ a \in {0, 1, n} /\ o + n <= size /\ end = o + a /\ o + 1 <= size
    <3>1. Origin(Now) + 1 <= size
      <4> DEFINE b == Base(Now)  x == Next1(Now)
      <4>1. o \in Nat /\ b \in Nat /\ x \in Nat /\ o < b /\ b <= x /\ x <= Now.top
        BY <1>1
      <4> HIDE DEF o, b, x
      <4>2. o + 1 <= size
        BY <4>1, <1>1
      <4> QED BY <4>2 DEF o
    <3> QED BY <1>1, <2>1, <2>2, <3>1
  <2> HIDE DEF o, a, end
  <2>4. end \in Nat /\ end <= size /\ o <= end
    BY <2>3, <1>1
  <2> QED BY <2>1, <2>4 DEF o
<1> HIDE DEF f, end
<1>3. /\ Front(ci) \in Seq(Frames) /\ Front(ci) # <<>> /\ Within(Front(ci), calls, size)
  <2>1. Len(ci) \in Nat \ {0} /\ Len(Front(ci)) = Len(ci) - 1 /\ Front(ci) \in Seq(Frames)
    BY <1>1, FrontIs
  <2>2. Front(ci) = SubSeq(ci, 1, Len(ci) - 1)
    BY DEF Front
  <2>3. Len(ci) - 1 \in 1..Len(ci) /\ Len(Front(ci)) # 0
    BY <2>1, <1>1
  <2> QED BY <1>1, <2>1, <2>2, <2>3, WithinCut, EmptySeq
<1> DEFINE H == Front(ci)
<1>4. CASE Len(H) > Call.depth
  <2>1. /\ top' = end /\ ci' = Resumed(H, f.wanted) /\ calls' = Replaced(calls, e) /\ size' = size
    BY <1>4 DEF Finish, f, end
  <2>2. e \in Activations /\ e.func = Call.func
    BY <1>1 DEF Closing, Activations
  <2> HIDE DEF H, e
  <2>3. Within(H, Replaced(calls, e), size) /\ Replaced(calls, e) \in Seq(Activations)
    <3>1. Within(H, calls, size)
      BY <1>3 DEF H
    <3> QED BY <1>1, <2>2, <3>1, WithinCalls, ReplacedCall
  <2>4. Within(Resumed(H, f.wanted), Replaced(calls, e), size)
    <3>1. H \in Seq(Frames) /\ H # <<>>
      BY <1>3 DEF H
    <3> QED BY <1>1, <2>3, <3>1, WithinResumed
  <2> QED BY <1>1, <1>2, <2>1, <2>4, RoomIf
<1>5. CASE ~(Len(H) > Call.depth) /\ Call.by = "pcall"
  <2>1. PcallEnds(end, 1)
    BY <1>5 DEF Finish, f, end
  <2>2. Call.func <= end
    <3> DEFINE o == Origin(Now)
    <3>1. o \in Nat /\ o <= end /\ Call.func <= o /\ Call.func \in Nat
      BY <1>1, <1>2
    <3> HIDE DEF o
    <3> QED BY <3>1, <1>2
  <2> QED BY <1>2, <1>5, <2>1, <2>2, PcallEndsRoom
<1>6. CASE ~(Len(H) > Call.depth) /\ Call.by # "pcall"
  <2>1. /\ top' = Call.func /\ calls' = Front(calls) /\ size' = size
        /\ ci' = IF Call.by = "host" THEN <<[Last(H) EXCEPT !.top = Larger(@, end)]>> ELSE H
    BY <1>6 DEF Finish, f, end
  <2>2. Within(H, Front(calls), size)
    BY <1>1, <1>3, WithinCalls
  <2>3. Within(ci', Front(calls), size)
    <3> DEFINE G == <<[Last(H) EXCEPT !.top = Larger(@, end)]>>
    <3>1. DOMAIN G = {1}
      OBVIOUS
    <3> HIDE DEF G
    <3>2. Within(G, Front(calls), size)
      BY <2>2, <3>1 DEF Within
    <3>3. ci' = G \/ ci' = H
      BY <2>1 DEF G
    <3> QED BY <2>2, <3>2, <3>3
  <2> QED BY <1>1, <2>1, <2>3, RoomIf
<1> QED BY <1>4, <1>5, <1>6

(* OP_RETURN                                                               *)
LEMMA ReturnRoom ==
    ASSUME Settled, RoomOK, NEW n \in 0..Limit, Return(n)
    PROVE  RoomOK'
<1> DEFINE x == Next1(Now)
           o == Origin(Now)
<1>1. /\ calls # <<>> /\ Call.at = "run" /\ Call.at # "unwind" /\ n \in Nat
      /\ IF Now.next = "open" THEN n = top - x ELSE Room(n)
  BY SlotsAssumption DEF Return
<1>2. /\ size \in Nat /\ size <= Limit /\ Within(ci, calls, size) /\ top \in Nat /\ top <= size
      /\ Now \in Frames /\ Now.top \in Nat /\ Now.top <= size
      /\ x \in Nat /\ Base(Now) \in Nat /\ o \in Nat /\ o < Base(Now) /\ Base(Now) <= x
      /\ ci \in Seq(Frames) /\ calls \in Seq(Activations)
      /\ Call \in Activations /\ Call.func \in Nat /\ Call.func <= size
  BY <1>1, RunRoom
<1>3. x + n <= size
  <2>1. CASE Now.next = "open"
    BY <2>1, <1>1, <1>2
  <2>2. CASE Now.next # "open"
    <3>1. /\ FrameShape(Now) /\ Now.kind = "lua"
      BY <1>1, InCall
    <3>2. /\ x = Base(Now) + Now.act /\ Now.top = Base(Now) + FrameSize /\ Now.act \in Nat
          /\ FrameSize \in Nat /\ Now.act + n <= FrameSize
      BY <2>2, <3>1, <1>1, <1>2, FrameBounds, SlotsAssumption DEF FrameShape, Next1, Room
    <3> DEFINE b == Base(Now)
    <3>3. x = b + Now.act /\ Now.top = b + FrameSize /\ b \in Nat
      BY <1>2, <3>2
    <3> DEFINE a == Now.act  w == Now.top
    <3>4. /\ n \in Nat /\ size \in Nat /\ w <= size /\ a \in Nat /\ FrameSize \in Nat
          /\ a + n <= FrameSize /\ x = b + a /\ w = b + FrameSize
      BY <1>1, <1>2, <3>2, <3>3
    <3> HIDE DEF b, x, a, w
    <3> QED BY <3>3, <3>4
  <2> QED BY <2>1, <2>2
<1>4. CASE ToClose(Base(Now)) = {}
  <2>1. Finish(n)
    BY <1>4 DEF Return
  <2>2. o + n <= size
    <3> HIDE DEF o, x
    <3> QED BY <1>1, <1>2, <1>3
  <2> QED BY <1>1, <2>1, <2>2, FinishRoom
<1>5. CASE ToClose(Base(Now)) # {}
  <2> DEFINE e == Closing(Call, "return", Base(Now), x, n)
  <2>1. /\ top' = Larger(top, Now.top) /\ calls' = Replaced(calls, e) /\ ci' = ci /\ size' = size
    BY <1>5 DEF Return, ReturnTop
  <2>2. e \in Activations /\ e.func = Call.func
    BY <1>1, <1>2 DEF Closing, Activations
  <2> HIDE DEF e
  <2>3. Within(ci, Replaced(calls, e), size)
    BY <1>1, <1>2, <2>2, WithinCalls
  <2>4. top' \in Nat /\ top' <= size
    BY <1>2, <2>1 DEF Larger
  <2> QED BY <1>2, <2>1, <2>3, <2>4, RoomIf
<1> QED BY <1>4, <1>5

(* luaF_close is done.                                                     *)
LEMMA CloseDoneRoom ==
    ASSUME Settled, RoomOK, CloseDone
    PROVE  RoomOK'
<1>1. Closes /\ calls # <<>> /\ Call.at # "run"
  BY DEF CloseDone, Closes
<1>2. /\ ci \in Seq(Frames) /\ calls \in Seq(Activations)
      /\ Call \in Activations /\ Call.func \in Nat
      /\ Busy(ci, Call, Len(ci)) /\ Now = ci[Len(ci)] /\ Call = calls[Len(calls)] /\ Len(calls) \in DOMAIN calls
  BY <1>1, InCall
<1>3. size \in Nat /\ size <= Limit /\ Within(ci, calls, size)
  BY InRoomFacts
<1>4. Call.func <= size
  BY <1>2, <1>3 DEF Within
<1>5. CASE Call.at = "close"
  <2> DEFINE n == Call.level - Base(Now)
             g == [Now EXCEPT !.act = n]
             e == Closing(Call, "run", 0, 0, 0)
  <2>1. ci' = Replaced(ci, g) /\ calls' = Replaced(calls, e) /\ top' = top /\ size' = size
    BY <1>5 DEF CloseDone, Using
  <2>2. /\ Call.level \in Base(Now)..Next1(Now) /\ Base(Now) \in Nat /\ Next1(Now) \in Nat
        /\ Now \in Frames /\ Now.top \in Nat /\ Now.top <= size /\ top \in Nat /\ top <= size
    BY <1>1, <1>2, <1>5, RunRoom DEF Busy
  <2>3. n \in Nat
    BY <2>2
  <2> HIDE DEF n
  <2>4. g \in Frames /\ g.top = Now.top
    BY <2>2, <2>3 DEF Frames
  <2>5. e \in Activations /\ e.func = Call.func
    BY <1>2 DEF Closing, Activations
  <2> HIDE DEF g, e
  <2>6. /\ size' \in Nat /\ size <= size' /\ size' <= Limit /\ g.top <= size' /\ top' \in Nat /\ top' <= size'
    BY <1>3, <2>1, <2>2, <2>4
  <2>7. Call.at # "unwind"
    BY <1>5
  <2> QED BY <1>1, <2>1, <2>4, <2>5, <2>6, <2>7, UsesRoom
<1>6. CASE Call.at = "return"
  <2>1. Finish(Call.n) /\ Call.from = Next1(Now) /\ Call.n \in Nat /\ Call.at # "unwind"
    BY <1>2, <1>6, ActivationFields DEF CloseDone, Busy
  <2>2. /\ Call.from + Call.n <= top
    BY <1>1, AtClose
  <2>3. /\ top \in Nat /\ top <= size /\ Next1(Now) \in Nat /\ Base(Now) \in Nat /\ Origin(Now) \in Nat
        /\ Origin(Now) < Base(Now) /\ Base(Now) <= Next1(Now)
    BY <1>1, <2>1, RunRoom
  <2>4. Origin(Now) + Call.n <= size
    <3> DEFINE o == Origin(Now)  b == Base(Now)  x == Next1(Now)
    <3>1. o \in Nat /\ b \in Nat /\ x \in Nat /\ o < b /\ b <= x /\ x + Call.n <= top
      BY <2>1, <2>2, <2>3
    <3> HIDE DEF o, b, x
    <3>2. o + Call.n <= size
      BY <3>1, <2>1, <2>3, <1>3
    <3> QED BY <3>2 DEF o
  <2> QED BY <1>1, <2>1, <2>4, FinishRoom
<1>7. CASE Call.at = "unwind" /\ Call.by = "host"
  <2>1. top' = Call.func /\ calls' = <<>> /\ ci' = ci /\ size' = size
    BY <1>7 DEF CloseDone
  <2>2. Within(ci, <<>>, size)
    BY <1>3 DEF Within
  <2> QED BY <1>2, <1>3, <1>4, <2>1, <2>2, RoomIf
<1>8. CASE Call.at = "unwind" /\ Call.by = "pcall"
  <2>1. PcallEnds(Call.func, 4) /\ Call.func <= Call.func
    BY <1>2, <1>8 DEF CloseDone
  <2> QED BY <1>1, <1>2, <1>4, <1>8, <2>1, PcallEndsRoom
<1>9. CASE Call.at = "unwind" /\ Call.by \in {"op", "closer"}
  <2>1. top' = Call.func /\ Fail(Front(calls)) /\ size' = size
    BY <1>9 DEF CloseDone
  <2>2. Call.by # "host"
    BY <1>9
  <2> QED BY <1>1, <1>2, <1>4, <2>1, <2>2, FailBelowRoom
<1> QED BY <1>1, <1>2, <1>5, <1>6, <1>7, <1>8, <1>9, ActivationFields

(* Whatever the step                                                       *)
LEMMA RoomKept ==
    ASSUME Settled, RoomOK, tbclist = Highest(declared), [Next]_vars
    PROVE  RoomOK'
<1>1. CASE Start
  BY <1>1, StartRoom
<1>2. CASE Local \/ Tbc \/ TbcNil
  BY <1>2, LocalRoom
<1>4. CASE Collect
  BY <1>4, CollectRoom
<1>5. CASE CallMetamethod
  BY <1>5, CallMetamethodRoom
<1>6. CASE \E wanted \in {-1, 1} : CallPcall(wanted)
  BY <1>6, CallPcallRoom
<1>7. CASE \E wanted \in {-1, 1} : \E args \in {0, MaxArgs} : CallLua(wanted, args)
  BY <1>7, CallLuaRoom
<1>8. CASE \E args \in {0, MaxArgs} : TailCall(args)
  BY <1>8, TailCallRoom
<1>9. CASE VarargPrep
  BY <1>9, VarargPrepRoom
<1>10. CASE Vararg
  BY <1>10, VarargRoom
<1>11. CASE \E t \in {top, Now.top} : Raise(t)
  BY <1>11, RaiseRoom
<1>12. CASE \E level \in Registers(Now) : Capture(level)
  BY <1>12, LocalRoom
<1>13. CASE \E n \in 0..Now.act-1 : Leave(n)
  BY <1>13, LocalRoom
<1>14. CASE \E n \in 0..Now.act-1 : Close(n)
  BY <1>14, LocalRoom
<1>15. CASE \E n \in 0..Limit : Return(n)
  BY <1>15, ReturnRoom
<1>16. CASE CloseNext
  BY <1>16, CloseNextRoom
<1>17. CASE CloseDone
  BY <1>17, CloseDoneRoom
<1>18. CASE \E fails \in BOOLEAN : CloseNextFp(fails)
  BY <1>18, CloseNextFpRoom
<1>19. CASE UNCHANGED vars
  BY <1>19 DEF RoomOK, InRoom, Idle, Call, vars, stack
<1> QED BY <1>1, <1>2, <1>4, <1>5, <1>6, <1>7, <1>8, <1>9, <1>10, <1>11, <1>12, <1>13, <1>14,
           <1>15, <1>16, <1>17, <1>18, <1>19 DEF Next

-----------------------------------------------------------------------------
(* The theorems.                                                           *)

(* UnwindInv consists of three parts.                                      *)
LEMMA Pieces ==
    UnwindInv <=> Settled /\ ListOK /\ RoomOK
<1>1. TypeOK /\ Kept <=>
          /\ top \in Nat /\ size \in Nat /\ tbclist \in Nat
          /\ tbcdelta \in [DOMAIN tbcdelta -> 0..MaxDelta]
          /\ DOMAIN tbcdelta \subseteq Nat /\ openupval \subseteq Nat /\ declared \subseteq Nat
          /\ ci \in Seq(Frames) /\ calls \in Seq(Activations) /\ lost = {}
  BY DEF TypeOK, Kept
<1> QED BY <1>1 DEF UnwindInv, Settled, Placed, ListOK, RoomOK

(* A new thread                                                            *)
LEMMA Begins ==
    ASSUME Init
    PROVE  UnwindInv
<1> DEFINE g == Frame("base", 0, 1, 0, "any")
<1>1. /\ top = 1 /\ size = Basic /\ tbclist = 0 /\ tbcdelta = <<>> /\ openupval = {}
      /\ ci = <<g>> /\ calls = <<>> /\ declared = {} /\ lost = {}
  BY DEF Init
<1>2. IsBase(g)
  BY DEF IsBase, Frame, Frames
<1> HIDE DEF g
<1>3. ci \in Seq(Frames) /\ FramesStacked(ci) /\ Len(ci) = 1
  BY <1>1, <1>2, OneFrame
<1>4. calls \in Seq(Activations) /\ DOMAIN calls = {} /\ DOMAIN tbcdelta = {}
  BY <1>1
<1>5. DOMAIN ci = {1} /\ ci[1] = g
  BY <1>1
<1>6. CallsStacked(ci, calls)
  <2>1. \A k \in DOMAIN ci : ci[k].kind = "base"
    BY <1>2, <1>5 DEF IsBase
  <2> QED BY <2>1, <1>3, <1>4 DEF CallsStacked
<1>7. TopAbove(ci, calls, top) /\ Waiting(ci, calls, top, declared) /\ Captured(ci, calls, openupval)
  BY <1>1, <1>4 DEF TopAbove, Waiting, Captured
<1>8. Settled
  BY <1>1, <1>3, <1>4, <1>6, <1>7 DEF Settled, Placed
<1>9. Highest({}) = 0
  <2>1. {} \in SUBSET Nat /\ 0 \in Nat /\ \A x \in {} : x <= 0
    OBVIOUS
  <2> QED BY <2>1, HighestIs
<1>10. ListOK
  <2>1. tbcdelta \in [DOMAIN tbcdelta -> 0..MaxDelta]
    BY <1>1, <1>4
  <2> QED BY <2>1, <1>1, <1>4, <1>9 DEF ListOK, Nodes
<1>11. RoomOK
  <2>1. Basic \in Nat /\ 3 <= Basic /\ Basic <= Limit
    BY SlotsAssumption
  <2>2. 1 <= Basic /\ ~Idle
    BY <1>1, <2>1 DEF Idle
  <2> QED BY <1>1, <1>4, <1>5, <2>1, <2>2 DEF RoomOK, InRoom
<1> QED BY <1>8, <1>10, <1>11, Pieces

(* The inductive invariant: frames and activations of luaD_call are nested *)
(* and lie above one another, variables and upvalues wait where the scopes *)
(* that will close them can find them, the list leads from each to the one *)
(* before, and everything is within the allocated stack.                   *)
THEOREM Invariant == Spec => []UnwindInv
<1>1. Init => UnwindInv
  BY Begins
<1>2. ASSUME UnwindInv, [Next]_vars PROVE UnwindInv'
  <2>1. Settled /\ ListOK /\ RoomOK
    BY <1>2, Pieces
  <2>2. tbclist = Highest(declared)
    BY <2>1 DEF ListOK, Nodes
  <2>3. Settled' /\ ListOK' /\ RoomOK'
    BY <1>2, <2>1, <2>2, SettledKept, ListKept, RoomKept
  <2>4. (Settled /\ ListOK /\ RoomOK)' => UnwindInv'
    BY Pieces, PTL
  <2> QED BY <2>3, <2>4
<1> QED BY <1>1, <1>2, PTL DEF Spec

(* Every variable keeps its type: the deltas of the to-be-closed list fit  *)
(* into 16 bits, frames and activations are what ldo.rs makes of them.     *)
THEOREM TypeCorrect == Spec => []TypeOK
<1>1. UnwindInv => TypeOK
  BY DEF UnwindInv
<1> QED BY <1>1, Invariant, PTL

(* Nothing that is in use is written to or cleared, by a call, a return, a *)
(* closing method or a collection (tests/lua/locals.lua:197).              *)
THEOREM NothingLost == Spec => []Kept
<1>1. UnwindInv => Kept
  BY DEF UnwindInv
<1> QED BY <1>1, Invariant, PTL

(* The list in the tbcdelta fields is the list of the variables that wait, *)
(* however far apart they are: luaF_newtbcupval and poptbclist agree.      *)
THEOREM ListIsExact == Spec => []ListExact
<1>1. ASSUME UnwindInv PROVE ListExact
  <2>1. ListOK /\ declared \in SUBSET Nat
    BY <1>1, Pieces DEF Settled, Placed
  <2>2. \A s \in declared : Below(s) = Highest({d \in declared : d < s})
    BY <2>1, BelowIs
  <2>3. \A s \in DOMAIN tbcdelta : tbcdelta[s] \in 0..MaxDelta
    BY <2>1 DEF ListOK
  <2> QED BY <2>1, <2>2, <2>3 DEF ListExact, ListOK, Nodes
<1> QED BY <1>1, Invariant, PTL

(* A variable waits and an upvalue is open only while its scope is active, *)
(* or until the luaF_close that is closing that scope comes to it.         *)
THEOREM ScopesAreClosed == Spec => []ScopesClosed
<1>1. ASSUME UnwindInv PROVE ScopesClosed
  <2>1. /\ ci \in Seq(Frames) /\ FramesStacked(ci) /\ calls \in Seq(Activations) /\ CallsStacked(ci, calls)
        /\ Waiting(ci, calls, top, declared) /\ Captured(ci, calls, openupval)
    BY <1>1, Pieces DEF Settled, Placed
  <2>2. openupval \subseteq UNION {Registers(ci[i]) : i \in DOMAIN ci}
    BY <2>1 DEF Captured
  <2>3. \A i \in DOMAIN calls : calls[i].at = "unwind" => calls[i].level = calls[i].func
    BY <2>1 DEF CallsStacked, Situated, Busy
  <2>4. \A s \in declared : \/ \E i \in DOMAIN ci : s \in Registers(ci[i])
                            \/ \E i \in DOMAIN calls : calls[i].at = "unwind" /\ calls[i].level <= s
    BY <2>1, <2>3 DEF Waiting
  <2> QED BY <2>2, <2>4 DEF ScopesClosed
<1> QED BY <1>1, Invariant, PTL

(* Everything in use lies in the allocated stack, whatever has made it     *)
(* grow or shrink or could not, and its size stays within LUAI_MAXSTACK.   *)
THEOREM StackIsBigEnough == Spec => []StackFits
<1>1. ASSUME UnwindInv PROVE StackFits
  <2> DEFINE b == size + Extra
  <2>1. /\ ci \in Seq(Frames) /\ FramesStacked(ci) /\ calls \in Seq(Activations) /\ CallsStacked(ci, calls)
        /\ TopAbove(ci, calls, top)
        /\ Waiting(ci, calls, top, declared) /\ Captured(ci, calls, openupval)
        /\ top \in Nat /\ declared \in SUBSET Nat /\ openupval \in SUBSET Nat
        /\ ListOK /\ RoomOK /\ InRoom /\ size \in Nat
    BY <1>1, Pieces DEF Settled, Placed, RoomOK
  <2>2. Extra \in Nat /\ Extra >= 3
    BY SlotsAssumption
  <2>3. size <= Limit /\ top <= b /\ b \in Nat /\ size <= b
    BY <2>1, <2>2 DEF InRoom
  <2>4. /\ \A k \in DOMAIN ci : ci[k] \in Frames /\ (k # 1 => FrameShape(ci[k])) /\ IsBase(ci[1])
        /\ \A k \in DOMAIN ci : k # 1 => ci[k].top <= size
    BY <2>1, StackedFacts DEF InRoom
  <2>5. \A k \in DOMAIN ci : Next1(ci[k]) <= b /\ Next1(ci[k]) \in Nat
    <3>1. ASSUME NEW k \in DOMAIN ci, k # 1 PROVE Next1(ci[k]) <= b /\ Next1(ci[k]) \in Nat
      <4>1. Next1(ci[k]) \in Nat /\ Next1(ci[k]) <= ci[k].top /\ ci[k].top \in Nat /\ ci[k].top <= size
        BY <3>1, <2>4, FrameBounds
      <4> HIDE DEF b
      <4> QED BY <4>1, <2>1, <2>3
    <3>2. ASSUME NEW k \in DOMAIN ci, k = 1 PROVE Next1(ci[k]) <= b /\ Next1(ci[k]) \in Nat
      <4>1. Next1(ci[k]) = 1
        BY <3>2, <2>4, BaseFrame, 0 \in Nat
      <4> QED BY <4>1, <2>1, <2>2
    <3> QED BY <3>1, <3>2
  <2> HIDE DEF b
  <2>6. /\ Len(calls) \in Nat /\ DOMAIN calls = 1..Len(calls)
        /\ \A i \in DOMAIN calls : calls[i] \in Activations /\ Situated(ci, calls, i)
        /\ \A i, j \in DOMAIN calls : i < j => calls[i].from + calls[i].n <= calls[j].func
        /\ \A i \in DOMAIN calls : calls[i].func <= size
    BY <2>1, CallsFacts DEF InRoom
  <2>7. \A i \in DOMAIN calls : (calls[i].from = 0 /\ calls[i].n = 0) \/ calls[i].from + calls[i].n <= b
    <3>1. ASSUME NEW i \in DOMAIN calls, calls[i].at = "return"
          PROVE  calls[i].from + calls[i].n <= b
      <4>1. calls[i].from \in Nat /\ calls[i].n \in Nat
        BY <2>6, ActivationFields
      <4> DEFINE y == calls[i].from + calls[i].n
      <4>2. y \in Nat
        BY <4>1
      <4>3. CASE i < Len(calls)
        <5>1. Len(calls) \in DOMAIN calls
          BY <2>6, <4>3
        <5>2. y <= calls[Len(calls)].func /\ calls[Len(calls)].func \in Nat /\ calls[Len(calls)].func <= size
          BY <2>6, <4>3, <5>1, ActivationFields
        <5> HIDE DEF y
        <5> QED BY <4>2, <5>2, <2>1, <2>3 DEF y
      <4>4. CASE i = Len(calls)
        <5>1. calls[i] = Last(calls) /\ calls # <<>>
          BY <4>4, <2>6 DEF Last
        <5>2. y <= top
          BY <3>1, <5>1, <2>1 DEF TopAbove
        <5> HIDE DEF y
        <5> QED BY <4>2, <5>2, <2>1, <2>3 DEF y
      <4> QED BY <4>3, <4>4, <2>6
    <3>2. ASSUME NEW i \in DOMAIN calls, calls[i].at # "return"
          PROVE  calls[i].from = 0 /\ calls[i].n = 0
      BY <3>2, <2>6 DEF Situated, Busy
    <3> QED BY <3>1, <3>2
  <2>8. \A s \in declared : s < b
    <3>1. ASSUME NEW s \in declared PROVE s < b
      <4>1. s \in Nat /\ s < top
        BY <2>1 DEF Waiting
      <4> QED BY <4>1, <2>1, <2>3
    <3> QED BY <3>1
  <2>9. \A s \in Live : s < b
    <3>1. b \in Int
      BY <2>3
    <3>2. \A s \in LiveIn(ci, calls) : s \in Int /\ s < b
      BY <2>1, <2>5, <2>7, <2>8, <3>1, LiveParts
    <3> QED BY <3>2 DEF Live
  <2>10. \A s \in openupval : s < b
    <3>1. ASSUME NEW s \in openupval PROVE s < b
      <4>1. PICK k \in DOMAIN ci : s \in Registers(ci[k])
        BY <2>1 DEF Captured
      <4>2. s \in Nat /\ s < Next1(ci[k])
        BY <4>1, <2>4, RegisterBounds
      <4> QED BY <4>2, <2>3, <2>5
    <3> QED BY <3>1
  <2>11. \A s \in DOMAIN tbcdelta : s < b
    <3>1. tbclist \in Nat /\ tbclist < b
      <4>1. \A x \in declared : x <= b
        <5>1. ASSUME NEW x \in declared PROVE x <= b
          BY <2>1, <2>3, <2>8
        <5> QED BY <5>1
      <4>2. tbclist \in declared \cup {0}
        BY <2>1, <2>3, <4>1, HighestIs DEF ListOK, Nodes
      <4>3. 0 < b
        BY <2>1, <2>2 DEF b
      <4> QED BY <4>2, <4>3, <2>1, <2>8 DEF ListOK
    <3>2. ASSUME NEW s \in DOMAIN tbcdelta PROVE s < b
      <4>1. s \in Nat /\ s <= tbclist
        BY <2>1 DEF ListOK, Nodes
      <4> QED BY <4>1, <3>1, <2>3
    <3> QED BY <3>2
  <2>12. \A i \in DOMAIN ci : ci[i].kind = "lua" => ci[i].top <= size
    <3>1. \A i \in DOMAIN ci : ci[i].kind = "lua" => i # 1
      BY <2>4 DEF IsBase
    <3> QED BY <3>1, <2>4
  <2> QED BY <2>3, <2>9, <2>10, <2>11, <2>12 DEF StackFits, b
<1> QED BY <1>1, Invariant, PTL

-----------------------------------------------------------------------------
(* The ends of calls.                                                      *)

(* A sequence whose elements are the first ones of another                 *)
LEMMA PrefixIs ==
    ASSUME NEW F \in Seq(Frames), NEW G \in Seq(Frames), Len(G) <= Len(F),
           \A k \in 1..Len(G) : G[k] = F[k]
    PROVE  IsPrefix(G, F)
<1>1. Len(F) \in Nat /\ Len(G) \in Nat /\ Len(G) \in 0..Len(F) /\ Len(G) \in 0..Len(G)
  BY LenProperties
<1>2. /\ SubSeq(F, 1, Len(G)) \in Seq(Frames) /\ Len(SubSeq(F, 1, Len(G))) = Len(G)
      /\ \A k \in 1..Len(G) : SubSeq(F, 1, Len(G))[k] = F[k]
  BY <1>1, Cut
<1>3. /\ SubSeq(G, 1, Len(G)) \in Seq(Frames) /\ Len(SubSeq(G, 1, Len(G))) = Len(G)
      /\ \A k \in 1..Len(G) : SubSeq(G, 1, Len(G))[k] = G[k]
  BY <1>1, Cut
<1> DEFINE A == SubSeq(F, 1, Len(G))  B == SubSeq(G, 1, Len(G))
<1>4. /\ A \in Seq(Frames) /\ B \in Seq(Frames) /\ Len(A) = Len(B)
      /\ \A k \in 1..Len(B) : B[k] = A[k]
  BY <1>2, <1>3
<1> HIDE DEF A, B
<1>5. B = A
  BY <1>4, SeqEqual
<1> QED BY <1>5 DEF IsPrefix, A, B

(* All but the last of some of these frames, whatever the last is now      *)
LEMMA FrontOfCut ==
    ASSUME NEW F \in Seq(Frames), NEW G \in Seq(Frames), G # <<>>, Len(G) <= Len(F),
           \A k \in 1..Len(G) - 1 : G[k] = F[k]
    PROVE  IsPrefix(Front(G), F)
<1>1. /\ Front(G) \in Seq(Frames) /\ Len(Front(G)) = Len(G) - 1
      /\ \A k \in 1..Len(G) - 1 : Front(G)[k] = G[k]
  BY FrontFrame
<1>2. Len(F) \in Nat /\ Len(G) \in Nat
  BY LenProperties
<1>3. Len(Front(G)) <= Len(F) /\ \A k \in 1..Len(Front(G)) : Front(G)[k] = F[k]
  BY <1>1, <1>2
<1> QED BY <1>1, <1>3, PrefixIs

(* luaD_call has returned or failed: what CallsBalance says of it.         *)
Ended ==
    LET c == Call
    IN  /\ \A s \in declared' \cup openupval' : s < c.func
        /\ IsPrefix(Front(ci'), ci) /\ Len(ci') <= c.depth
        /\ calls' # <<>> /\ Last(calls').at # "unwind" =>
              Len(ci') = IF c.by = "pcall" THEN c.depth - 1 ELSE c.depth

(* CallsBalance holds when an error is handed on,                          *)
LEMMA FailEnds ==
    ASSUME Settled, calls # <<>>, Call.by # "host", Fail(Front(calls)), declared' = declared,
           \A s \in declared \cup openupval : s < Call.func
    PROVE  Ended
<1> DEFINE b == calls[Len(calls) - 1]
           c == Unwinding(b)
<1>1. /\ Placed(ci, calls, top, declared, openupval)
      /\ Call \in Activations /\ ci \in Seq(Frames) /\ calls \in Seq(Activations)
      /\ Len(ci) \in Nat /\ Call.depth \in 1..Len(ci)
  BY InCall DEF Settled
<1>2. /\ Front(calls) # <<>> /\ Last(Front(calls)) = b
      /\ b \in Activations /\ b.depth \in 1..Len(ci) /\ b.depth <= Call.depth
  BY <1>1, BelowLast DEF Call
<1>3. /\ ci' = SubSeq(ci, 1, c.depth) /\ calls' = Replaced(Front(calls), c)
      /\ openupval' \in SUBSET openupval
  BY <1>2 DEF Fail, CloseUpvals
<1>4. c \in Activations /\ c.depth = b.depth /\ c.at = "unwind"
  BY <1>2, UnwindingFields
<1> HIDE DEF c, b
<1>5. Last(calls').at = "unwind"
  <2> DEFINE A == Front(calls)
  <2>1. A \in Seq(Activations) /\ A # <<>>
    BY <1>1, <1>2, FrontCall
  <2> HIDE DEF A
  <2>2. Last(Replaced(A, c)) = c
    BY <2>1, <1>4, ReplacedCall
  <2> QED BY <2>2, <1>3, <1>4 DEF A
<1>6. /\ ci' \in Seq(Frames) /\ Len(ci') = b.depth /\ ci' # <<>>
      /\ \A k \in 1..b.depth : ci'[k] = ci[k]
  <2>1. b.depth \in 0..Len(ci) /\ b.depth # 0
    BY <1>1, <1>2
  <2> QED BY <2>1, <1>1, <1>3, <1>4, Cut, EmptySeq
<1>7. Len(ci') <= Len(ci) /\ \A k \in 1..Len(ci') - 1 : ci'[k] = ci[k]
  BY <1>1, <1>2, <1>6
<1>8. IsPrefix(Front(ci'), ci)
  BY <1>1, <1>6, <1>7, FrontOfCut
<1> QED BY <1>2, <1>3, <1>5, <1>6, <1>8 DEF Ended

(* when pcall returns,                                                     *)
LEMMA PcallEndsEnds ==
    ASSUME Settled, calls # <<>>, Call.by = "pcall", NEW t, NEW k,
           \A s \in declared \cup openupval : s < Call.func, declared' = declared, PcallEnds(t, k)
    PROVE  Ended
<1> DEFINE p == ci[Call.depth]
           end == Larger(p.top, t)
           grows == t + k > end /\ Tight(end, Reserve)
           m == Call.depth - 1
           fits == grows => CanGrow(end, Reserve)
<1>1. /\ Placed(ci, calls, top, declared, openupval)
      /\ ci \in Seq(Frames) /\ FramesStacked(ci)
      /\ DOMAIN ci = 1..Len(ci) /\ Len(ci) \in Nat
  BY InCall DEF Settled
<1>2. Call.depth \in 1..Len(ci) /\ p.kind = "fp"
  BY <1>1, BelowLast DEF Call
<1>3. m \in 1..Len(ci) /\ m \in 0..Len(ci) /\ m # 0 /\ m + 1 = Call.depth
  <2>1. ci[1].kind = "base"
    BY <1>1 DEF FramesStacked
  <2>2. Call.depth # 1
    BY <2>1, <1>2
  <2> QED BY <2>2, <1>1, <1>2
<1>4. CASE fits
  <2>1. ci' = Resumed(SubSeq(ci, 1, m), p.wanted) /\ openupval' = openupval
    BY <1>4 DEF PcallEnds
  <2> DEFINE F == SubSeq(ci, 1, m)
             next == IF p.wanted = -1 THEN "open" ELSE "any"
             g == [Last(F) EXCEPT !.next = next]
  <2> HIDE DEF m
  <2>2. F \in Seq(Frames) /\ Len(F) = m /\ \A i \in 1..m : F[i] = ci[i]
    BY <1>1, <1>3, Cut
  <2>3. F # <<>>
    BY <2>2, <1>3, EmptySeq
  <2>4. ci' = Replaced(F, g)
    BY <2>1 DEF Resumed
  <2>5. next \in {"any", "prep", "open"}
    OBVIOUS
  <2> HIDE DEF F, next
  <2>6. g \in Frames
    <3>1. Last(F) \in Frames
      BY <2>2, <2>3, FrontIs
    <3> QED BY <3>1, <2>5 DEF Frames
  <2> HIDE DEF g
  <2>7. /\ ci' \in Seq(Frames) /\ Len(ci') = m /\ ci' # <<>>
        /\ \A i \in 1..m - 1 : ci'[i] = F[i]
    <3>1. /\ Replaced(F, g) \in Seq(Frames) /\ Len(Replaced(F, g)) = Len(F)
          /\ \A i \in 1..Len(F) - 1 : Replaced(F, g)[i] = F[i]
      BY <2>2, <2>3, <2>6, ReplacedFrame
    <3>2. Len(ci') # 0
      BY <2>2, <2>4, <3>1, <1>3
    <3> QED BY <2>2, <2>4, <3>1, <3>2, EmptySeq
  <2>8. Len(ci') <= Len(ci) /\ \A i \in 1..Len(ci') - 1 : ci'[i] = ci[i]
    BY <2>2, <2>7, <1>1, <1>3
  <2>9. IsPrefix(Front(ci'), ci)
    BY <1>1, <2>7, <2>8, FrontOfCut
  <2>10. Len(ci') <= Call.depth /\ Len(ci') = Call.depth - 1
    BY <1>1, <1>2, <1>3, <2>7 DEF m
  <2> QED BY <2>1, <2>9, <2>10 DEF Ended
<1>5. CASE ~fits
  <2>1. Fail(Front(calls)) /\ Call.by # "host"
    BY <1>5 DEF PcallEnds
  <2> QED BY <2>1, FailEnds
<1> QED BY <1>4, <1>5

(* when a function has nothing left to close and its results are moved,    *)
LEMMA FinishEnds ==
    ASSUME Settled, calls # <<>>, Call.at # "unwind", NEW n,
           \A s \in declared \cup openupval : s \notin Registers(Now),
           declared' = declared, Finish(n), Len(calls') < Len(calls)
    PROVE  Ended
<1> DEFINE f == [Now EXCEPT !.func = Origin(Now)]
           end == f.func + Arriving(f, n)
           e == Closing(Call, "run", 0, 0, 0)
           H == Front(ci)
<1>1. /\ Placed(ci, calls, top, declared, openupval)
      /\ ci \in Seq(Frames) /\ ci # <<>> /\ calls \in Seq(Activations)
      /\ Now = ci[Len(ci)] /\ DOMAIN ci = 1..Len(ci) /\ Len(ci) \in Nat \ {0}
      /\ Len(ci) > Call.depth /\ Call.depth \in 1..Len(ci) /\ Call \in Activations
  BY InCall DEF Settled
<1>2. /\ H \in Seq(Frames) /\ Len(H) = Len(ci) - 1 /\ \A k \in 1..Len(ci) - 1 : H[k] = ci[k]
  BY <1>1, FrontFrame
<1> HIDE DEF f, end
<1>3. ~(Len(H) > Call.depth)
  <2>1. SUFFICES ASSUME Len(H) > Call.depth PROVE FALSE
    OBVIOUS
  <2>2. calls' = Replaced(calls, e)
    BY <2>1 DEF Finish
  <2>3. e \in Activations
    BY <1>1 DEF Closing, Activations
  <2> HIDE DEF e
  <2>4. Len(Replaced(calls, e)) = Len(calls) /\ Len(calls) \in Nat
    BY <1>1, <2>3, ReplacedCall, LenProperties
  <2> QED BY <2>2, <2>4
<1>4. Call.depth = Len(ci) - 1
  BY <1>1, <1>2, <1>3
<1>5. \A s \in declared \cup openupval : s < Call.func
  <2>1. ASSUME NEW s \in declared \cup openupval PROVE s < Call.func
    <3>1. s < Call.func \/ \E k \in DOMAIN ci : k > Call.depth /\ s \in Registers(ci[k])
      BY Whereabouts DEF Settled, Call
    <3>2. \A k \in DOMAIN ci : k > Call.depth => k = Len(ci)
      BY <1>1, <1>4
    <3> QED BY <3>1, <3>2, <1>1
  <2> QED BY <2>1
<1>6. CASE Call.by = "pcall"
  <2>1. PcallEnds(end, 1)
    BY <1>3, <1>6 DEF Finish, f, end
  <2> QED BY <1>5, <1>6, <2>1, PcallEndsEnds
<1>7. CASE Call.by # "pcall"
  <2>1. /\ openupval' = openupval
        /\ ci' = IF Call.by = "host" THEN <<[Last(H) EXCEPT !.top = Larger(@, end)]>> ELSE H
    BY <1>3, <1>7 DEF Finish, f, end
  <2>2. CASE Call.by = "host"
    <3>1. Call.depth = 1
      <4>1. Situated(ci, calls, Len(calls)) /\ Call = calls[Len(calls)]
        BY <1>1, LastCall DEF Call
      <4> QED BY <4>1, <2>2 DEF Situated
    <3> DEFINE g == [Last(H) EXCEPT !.top = Larger(@, end)]
    <3>2. ci' = <<g>>
      BY <2>1, <2>2
    <3> HIDE DEF g
    <3>3. Len(ci') = 1 /\ Front(ci') = <<>>
      BY <3>2 DEF Front
    <3>4. IsPrefix(<<>>, ci)
      <4>1. <<>> \in Seq(Frames) /\ Len(<<>>) = 0
        OBVIOUS
      <4>2. Len(<<>>) <= Len(ci) /\ \A k \in 1..Len(<<>>) : <<>>[k] = ci[k]
        BY <4>1, <1>1
      <4> QED BY <4>1, <4>2, <1>1, PrefixIs
    <3> QED BY <1>5, <2>1, <2>2, <3>1, <3>3, <3>4 DEF Ended
  <2>3. CASE Call.by # "host"
    <3>1. ci' = H
      BY <2>1, <2>3
    <3>2. H # <<>> /\ Len(H) <= Len(ci) /\ \A k \in 1..Len(H) - 1 : H[k] = ci[k]
      <4>1. Len(H) # 0
        BY <1>1, <1>2, <1>4
      <4> QED BY <4>1, <1>1, <1>2, EmptySeq
    <3> HIDE DEF H
    <3>3. IsPrefix(Front(H), ci)
      BY <1>1, <1>2, <3>2, FrontOfCut
    <3>4. Len(H) = Call.depth /\ Len(H) <= Call.depth
      BY <1>1, <1>2, <1>4
    <3> QED BY <1>5, <1>7, <2>1, <3>1, <3>3, <3>4 DEF Ended
  <2> QED BY <2>2, <2>3
<1> QED BY <1>6, <1>7

(* that is for OP_RETURN                                                   *)
LEMMA ReturnEnds ==
    ASSUME Settled, NEW n \in 0..Limit, Return(n), Len(calls') < Len(calls)
    PROVE  Ended
<1>1. /\ calls # <<>> /\ Call.at = "run" /\ Call.at # "unwind" /\ declared' = declared /\ n \in Nat
  BY SlotsAssumption DEF Return, KeepList
<1>2. /\ Now \in Frames /\ Base(Now) \in Nat /\ Next1(Now) \in Nat
      /\ calls \in Seq(Activations) /\ Call \in Activations
  BY <1>1, InCall
<1>3. CASE ToClose(Base(Now)) = {}
  <2>1. Finish(n)
    BY <1>3 DEF Return
  <2>2. \A s \in declared \cup openupval : s \notin Registers(Now)
    <3>1. ASSUME NEW s \in declared \cup openupval, s \in Registers(Now) PROVE FALSE
      <4>1. s \in Nat /\ Base(Now) <= s
        BY <3>1, <1>2, RegisterBounds
      <4>2. s \in ToClose(Base(Now))
        BY <4>1, <1>2 DEF ToClose
      <4> QED BY <4>2, <1>3
    <3> QED BY <3>1
  <2> QED BY <1>1, <2>1, <2>2, FinishEnds
<1>4. CASE ToClose(Base(Now)) # {}
  <2> DEFINE e == Closing(Call, "return", Base(Now), Next1(Now), n)
  <2>1. calls' = Replaced(calls, e)
    BY <1>4 DEF Return
  <2>2. e \in Activations
    BY <1>1, <1>2 DEF Closing, Activations
  <2> HIDE DEF e
  <2>3. Len(calls') = Len(calls) /\ Len(calls) \in Nat
    BY <1>1, <1>2, <2>1, <2>2, ReplacedCall, LenProperties
  <2> QED BY <2>3
<1> QED BY <1>3, <1>4

(* and for a luaF_close that has come to its end.                          *)
LEMMA CloseDoneEnds ==
    ASSUME Settled, tbclist = Highest(declared), CloseDone, Len(calls') < Len(calls)
    PROVE  Ended
<1>1. Closes /\ tbclist < Call.level /\ declared' = declared /\ calls # <<>> /\ Call.at # "run"
  BY DEF CloseDone, KeepList, Closes
<1>2. /\ Placed(ci, calls, top, declared, openupval)
      /\ ci \in Seq(Frames) /\ ci # <<>> /\ calls \in Seq(Activations)
      /\ declared \in SUBSET Nat /\ openupval \in SUBSET Nat /\ top \in Nat
      /\ Call \in Activations /\ Call.depth \in 1..Len(ci)
      /\ Now \in Frames /\ Base(Now) \in Nat /\ Len(ci) \in Nat \ {0}
      /\ Busy(ci, Call, Len(ci)) /\ Now = ci[Len(ci)]
      /\ \A s \in declared : s < top
      /\ Call.at = "unwind" => Len(ci) = Call.depth /\ Call.level = Call.func
  BY <1>1, InCall DEF Settled
<1>3. \A s \in declared \cup openupval : s < Call.level
  <2>1. \A s \in openupval : s < Call.level
    BY <1>1, AtClose
  <2>2. ASSUME NEW s \in declared PROVE s < Call.level
    <3>1. \A y \in declared : y <= top
      BY <1>2
    <3>2. Highest(declared) \in Nat /\ s <= Highest(declared)
      BY <1>2, <3>1, HighestIs
    <3>3. Call.level \in Nat /\ s \in Nat
      BY <1>2, ActivationFields
    <3> QED BY <1>1, <3>2, <3>3
  <2> QED BY <2>1, <2>2
<1>4. CASE Call.at = "close"
  <2> DEFINE e == Closing(Call, "run", 0, 0, 0)
  <2>1. calls' = Replaced(calls, e)
    BY <1>4 DEF CloseDone
  <2>2. e \in Activations
    BY <1>2 DEF Closing, Activations
  <2> HIDE DEF e
  <2>3. Len(calls') = Len(calls) /\ Len(calls) \in Nat
    BY <1>1, <1>2, <2>1, <2>2, ReplacedCall, LenProperties
  <2> QED BY <2>3
<1>5. CASE Call.at = "return"
  <2>1. Finish(Call.n) /\ Call.level = Base(Now) /\ Call.at # "unwind"
    BY <1>2, <1>5 DEF CloseDone, Busy
  <2>2. \A s \in declared \cup openupval : s \notin Registers(Now)
    <3>1. ASSUME NEW s \in declared \cup openupval, s \in Registers(Now) PROVE FALSE
      <4>1. s \in Nat /\ Base(Now) <= s /\ s < Base(Now)
        BY <3>1, <1>2, <1>3, <2>1, RegisterBounds
      <4> QED BY <4>1, <1>2
    <3> QED BY <3>1
  <2> QED BY <1>1, <2>1, <2>2, FinishEnds
<1>6. ASSUME Call.at = "unwind" PROVE \A s \in declared \cup openupval : s < Call.func
  BY <1>2, <1>3, <1>6
<1>7. CASE Call.at = "unwind" /\ Call.by = "host"
  <2>1. calls' = <<>> /\ ci' = ci /\ openupval' = openupval
    BY <1>7 DEF CloseDone
  <2>2. Len(ci) <= Len(ci) /\ \A k \in 1..Len(ci) - 1 : ci[k] = ci[k]
    BY <1>2
  <2>3. IsPrefix(Front(ci), ci)
    BY <1>2, <2>2, FrontOfCut
  <2>4. Len(ci) <= Call.depth
    BY <1>2, <1>7
  <2> QED BY <1>1, <1>6, <1>7, <2>1, <2>3, <2>4 DEF Ended
<1>8. CASE Call.at = "unwind" /\ Call.by = "pcall"
  <2>1. PcallEnds(Call.func, 4)
    BY <1>8 DEF CloseDone
  <2> QED BY <1>1, <1>6, <1>8, <2>1, PcallEndsEnds
<1>9. CASE Call.at = "unwind" /\ Call.by \in {"op", "closer"}
  <2>1. Fail(Front(calls)) /\ Call.by # "host"
    BY <1>9 DEF CloseDone
  <2> QED BY <1>1, <1>6, <1>9, <2>1, FailEnds
<1> QED BY <1>1, <1>2, <1>4, <1>5, <1>7, <1>8, <1>9, ActivationFields

(* The other steps end no luaD_call.                                       *)
LEMMA FailLength ==
    ASSUME Settled, calls # <<>>, Fail(calls)
    PROVE  Len(calls') = Len(calls)
<1> DEFINE c == Unwinding(Call)
<1>1. Call \in Activations /\ calls \in Seq(Activations)
  BY InCall
<1>2. c \in Activations /\ calls' = Replaced(calls, c)
  BY <1>1, UnwindingFields DEF Fail, Call
<1> HIDE DEF c
<1> QED BY <1>1, <1>2, ReplacedCall

(* luaD_precall does not end an activation;                                *)
LEMMA PrecallLength ==
    ASSUME calls \in Seq(Activations), NEW H, NEW func, NEW t, NEW wanted, NEW by,
           Precall(func, t, wanted, by, H)
    PROVE  Len(calls') = Len(calls) + 1
<1>1. PICK c : calls' = Append(calls, c)
  BY DEF Precall
<1> QED BY <1>1

(* only OP_RETURN and the end of a luaF_close do.                          *)
LEMMA NoneEnds ==
    ASSUME Settled, [Next]_vars, Len(calls') < Len(calls)
    PROVE  \/ \E n \in 0..Limit : Return(n)
           \/ CloseDone
<1>1. calls \in Seq(Activations) /\ Len(calls) \in Nat
  <2>1. calls \in Seq(Activations)
    BY DEF Settled, Placed
  <2> QED BY <2>1, LenProperties
<1>2. ASSUME Len(calls') = Len(calls) \/ Len(calls') = Len(calls) + 1 PROVE FALSE
  BY <1>1, <1>2
<1>3. ASSUME Start PROVE FALSE
  <2> DEFINE H == Replaced(ci, [Now EXCEPT !.top = Larger(@, top + 1)])
  <2>1. Precall(top, top + 1, -1, "host", H)
    BY <1>3 DEF Start
  <2> HIDE DEF H
  <2> QED BY <2>1, <1>1, <1>2, PrecallLength
<1>4. ASSUME CallMetamethod PROVE FALSE
  <2>1. Precall(Now.top, Now.top + 3, 1, "op", ci)
    BY <1>4 DEF CallMetamethod
  <2> QED BY <2>1, <1>1, <1>2, PrecallLength
<1>5. ASSUME NEW wanted \in {-1, 1}, CallPcall(wanted) PROVE FALSE
  <2> DEFINE x == Next1(Now)  H == Append(ci, Frame("fp", x, x + 2, wanted, "any"))
  <2>1. Precall(x + 1, x + 2, -1, "pcall", H)
    BY <1>5 DEF CallPcall
  <2> HIDE DEF H, x
  <2> QED BY <2>1, <1>1, <1>2, PrecallLength
<1>6. ASSUME CloseNext PROVE FALSE
  <2>1. Precall(top, top + 3, 0, "closer", ci)
    BY <1>6 DEF CloseNext
  <2> QED BY <2>1, <1>1, <1>2, PrecallLength
<1>7. ASSUME calls # <<>>, calls' = calls \/ Fail(calls) PROVE FALSE
  BY <1>2, <1>7, FailLength
<1>8. ASSUME calls' = calls PROVE FALSE
  BY <1>2, <1>8
<1>9. ASSUME Local \/ Tbc \/ TbcNil \/ Collect PROVE FALSE
  BY <1>8, <1>9 DEF Local, Tbc, TbcNil, Collect
<1>10. ASSUME NEW wanted \in {-1, 1}, NEW args \in {0, MaxArgs}, CallLua(wanted, args) PROVE FALSE
  <2>1. calls # <<>> /\ (calls' = calls \/ Fail(calls))
    BY <1>10 DEF CallLua, Runs
  <2> QED BY <2>1, <1>7
<1>11. ASSUME NEW args \in {0, MaxArgs}, TailCall(args) PROVE FALSE
  <2>1. calls # <<>> /\ (calls' = calls \/ Fail(calls))
    BY <1>11 DEF TailCall, Runs
  <2> QED BY <2>1, <1>7
<1>12. ASSUME VarargPrep PROVE FALSE
  <2>1. calls # <<>> /\ (calls' = calls \/ Fail(calls))
    BY <1>12 DEF VarargPrep
  <2> QED BY <2>1, <1>7
<1>13. ASSUME Vararg PROVE FALSE
  <2>1. calls # <<>> /\ (calls' = calls \/ Fail(calls))
    BY <1>13 DEF Vararg, Runs
  <2> QED BY <2>1, <1>7
<1>14. ASSUME NEW t \in {top, Now.top}, Raise(t) PROVE FALSE
  <2>1. calls # <<>> /\ (calls' = calls \/ Fail(calls))
    BY <1>14 DEF Raise, Runs
  <2> QED BY <2>1, <1>7
<1>15. ASSUME NEW level \in Registers(Now), Capture(level) PROVE FALSE
  BY <1>8, <1>15 DEF Capture
<1>16. ASSUME NEW n \in 0..Now.act - 1, Leave(n) PROVE FALSE
  BY <1>8, <1>16 DEF Leave
<1>17. ASSUME NEW n \in 0..Now.act - 1, Close(n) PROVE FALSE
  <2> DEFINE level == Base(Now) + n
             e == Closing(Call, "close", level, 0, 0)
  <2>1. calls' = Replaced(calls, e) /\ calls # <<>> /\ n \in Nat
    <3>1. Now.act \in Nat
      BY <1>17, WhileRuns DEF Close
    <3> QED BY <3>1, <1>17 DEF Close, Runs
  <2>2. Call \in Activations /\ level \in Nat
    BY <2>1, InCall
  <2> HIDE DEF level
  <2>3. e \in Activations
    BY <2>1, <2>2 DEF Closing, Activations
  <2> HIDE DEF e
  <2>4. Len(Replaced(calls, e)) = Len(calls)
    BY <1>1, <2>1, <2>3, ReplacedCall
  <2> QED BY <2>1, <2>4, <1>2
<1>18. ASSUME NEW fails \in BOOLEAN, CloseNextFp(fails) PROVE FALSE
  <2>1. calls # <<>> /\ (calls' = calls \/ Fail(calls))
    BY <1>18 DEF CloseNextFp, Closes
  <2> QED BY <2>1, <1>7
<1>19. ASSUME UNCHANGED vars PROVE FALSE
  BY <1>8, <1>19 DEF vars
<1> QED BY <1>3, <1>4, <1>5, <1>6, <1>9, <1>10, <1>11, <1>12, <1>13, <1>14, <1>15, <1>16, <1>17,
           <1>18, <1>19 DEF Next

(* A variable that no longer waits was the newest one.                     *)
LEMMA NewestFirst ==
    ASSUME Settled, tbclist = Highest(declared), [Next]_vars, NEW s \in declared \ declared'
    PROVE  s = Max(declared)
<1>1. declared' # declared
  OBVIOUS
<1>2. CASE Tbc
  BY <1>2 DEF Tbc
<1>3. CASE CloseNext \/ \E fails \in BOOLEAN : CloseNextFp(fails)
  <2>1. Closes /\ tbclist >= Call.level /\ declared' = declared \ {tbclist}
    BY <1>3 DEF CloseNext, CloseNextFp, Pop
  <2>2. tbclist \in declared /\ \A x \in declared : x <= tbclist
    BY <2>1, ReachedIsOne
  <2>3. declared \in SUBSET Int
    BY DEF Settled, Placed
  <2>4. Max(declared) = tbclist
    BY <2>2, <2>3, MaxIs
  <2> QED BY <2>1, <2>4
<1>4. CASE KeepList
  BY <1>4 DEF KeepList
<1>5. CASE declared' = declared
  BY <1>5
<1> QED BY <1>2, <1>3, <1>4, <1>5 DEF Next, Start, Local, TbcNil, Collect, CallMetamethod, CallPcall,
           CallLua, TailCall, VarargPrep, Vararg, Raise, Capture, Leave, Close, Return, CloseDone,
           vars

(* A call of luaD_call leaves its caller's frames as they were, closes the *)
(* newest variable first, and is over, by a return or an error, when there *)
(* is nothing more of it to close.                                         *)
THEOREM CallsAreBalanced == Spec => CallsBalance
<1> DEFINE Balanced == /\ \A s \in declared \ declared' : s = Max(declared)
                       /\ Len(calls') < Len(calls) => Ended
<1>1. ASSUME UnwindInv, [Next]_vars PROVE Balanced
  <2>1. Settled /\ tbclist = Highest(declared)
    BY <1>1, Pieces DEF ListOK, Nodes
  <2>2. \A s \in declared \ declared' : s = Max(declared)
    BY <1>1, <2>1, NewestFirst
  <2>3. ASSUME Len(calls') < Len(calls) PROVE Ended
    <3>1. (\E n \in 0..Limit : Return(n)) \/ CloseDone
      BY <1>1, <2>1, <2>3, NoneEnds
    <3> QED BY <2>1, <2>3, <3>1, ReturnEnds, CloseDoneEnds
  <2> QED BY <2>2, <2>3
<1>2. Balanced =>
        /\ \A s \in declared \ declared' : s = Max(declared)
        /\ Len(calls') < Len(calls) =>
             LET c == Call
             IN  /\ \A s \in declared' \cup openupval' : s < c.func
                 /\ IsPrefix(Front(ci'), ci) /\ Len(ci') <= c.depth
                 /\ calls' # <<>> /\ Last(calls').at # "unwind" =>
                       Len(ci') = IF c.by = "pcall" THEN c.depth - 1 ELSE c.depth
  BY DEF Ended
<1> HIDE DEF Balanced
<1>3. Spec => [][Balanced]_vars
  BY <1>1, Invariant, PTL DEF Spec
<1>4. [][Balanced]_vars => CallsBalance
  BY <1>2, PTL DEF CallsBalance
<1> QED BY <1>3, <1>4, PTL
==========================================================================
