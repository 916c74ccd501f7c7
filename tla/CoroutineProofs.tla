------------------------- MODULE CoroutineProofs -------------------------
(***************************************************************************)
(* Theorems about Coroutine, for any number of threads and any depth of    *)
(* nesting.                                                                *)
(***************************************************************************)
EXTENDS Coroutine, SequenceTheorems, FiniteSetTheorems, TLAPS

-----------------------------------------------------------------------------
(* What the operations on sequences do, element by element.                *)

Kinds == {"body", "call", "yield", "async"}

(* All threads but one keep their frames.                                  *)
OthersKept(t) == \A u \in Threads : u # t => frames'[u] = frames[u]

(* The lowest frame of each stack, as an element.                          *)
LEMMA HeadIsFirst ==
  ASSUME NEW f \in [Threads -> Seq(Kinds)]
  PROVE  /\ \A t \in Threads : f[t] # <<>> <=> Len(f[t]) # 0
         /\ \A t \in Threads : f[t] # <<>> => Head(f[t]) = f[t][1]
  <1>1. \A s \in Seq(Kinds) : s # <<>> => Len(s) \in Nat \ {0}
    BY EmptySeq
  <1>2. Len(<<>>) = 0
    BY EmptySeq
  <1> QED BY <1>1, <1>2

(* A new activation lies on top of the others.                             *)
LEMMA PushFrame ==
  ASSUME TypeOK, NEW t \in Threads, NEW k \in Kinds,
         frames' = [frames EXCEPT ![t] = Append(@, k)]
  PROVE  /\ frames' \in [Threads -> Seq(Kinds)]
         /\ Depth(t)' = Depth(t) + 1
         /\ \A i \in 1..Depth(t) : frames'[t][i] = frames[t][i]
         /\ frames'[t][Depth(t) + 1] = k
         /\ OthersKept(t)
  <1>1. frames[t] \in Seq(Kinds) /\ frames'[t] = Append(frames[t], k)
    BY DEF TypeOK, Kinds
  <1>2. /\ Append(frames[t], k) \in Seq(Kinds)
        /\ Len(Append(frames[t], k)) = Len(frames[t]) + 1
        /\ \A i \in 1..Len(frames[t]) : Append(frames[t], k)[i] = frames[t][i]
        /\ Append(frames[t], k)[Len(frames[t]) + 1] = k
    BY <1>1, AppendProperties
  <1> QED BY <1>1, <1>2 DEF TypeOK, OthersKept, Depth, Kinds

(* Frames are removed from the top.                                        *)
LEMMA CutFrames ==
  ASSUME TypeOK, NEW t \in Threads, NEW n \in 0..Depth(t),
         frames' = [frames EXCEPT ![t] = SubSeq(@, 1, n)]
  PROVE  /\ frames' \in [Threads -> Seq(Kinds)]
         /\ Depth(t)' = n
         /\ \A i \in 1..n : frames'[t][i] = frames[t][i]
         /\ OthersKept(t)
  <1>1. /\ frames[t] \in Seq(Kinds)
        /\ frames'[t] = SubSeq(frames[t], 1, n)
        /\ Len(frames[t]) \in Nat
        /\ n \in Int
    BY DEF TypeOK, Kinds, Depth
  <1>2. \A i \in 1..n : frames[t][i] \in Kinds
    BY <1>1, ElementOfSeq DEF Depth
  <1>3. /\ SubSeq(frames[t], 1, n) \in Seq(Kinds)
        /\ Len(SubSeq(frames[t], 1, n)) = IF 1 <= n THEN n-1+1 ELSE 0
        /\ \A i \in 1..n-1+1 : SubSeq(frames[t], 1, n)[i] = frames[t][1+i-1]
    BY <1>1, <1>2, SubSeqProperties
  <1>4. \A i \in 1..n : SubSeq(frames[t], 1, n)[i] = frames[t][i]
    <2> TAKE i \in 1..n
    <2>1. i \in 1..n-1+1 /\ 1+i-1 = i
      BY <1>1
    <2> QED BY <1>3, <2>1
  <1> QED BY <1>1, <1>3, <1>4 DEF TypeOK, OthersKept, Depth, Kinds

(* A thread is driven from one frame more.                                 *)
LEMMA PushDrive ==
  ASSUME TypeOK, NEW d \in Drives, rust' = Append(rust, d)
  PROVE  /\ rust' \in Seq(Drives)
         /\ Len(rust') = Len(rust) + 1
         /\ DOMAIN rust = 1..Len(rust) /\ DOMAIN rust' = 1..Len(rust) + 1
         /\ \A i \in DOMAIN rust : rust'[i] = rust[i]
         /\ rust'[Len(rust) + 1] = d
         /\ Len(rust) \in Nat
  BY AppendProperties, LenProperties DEF TypeOK

(* What ran last is over.                                                  *)
LEMMA PopDrive ==
  ASSUME TypeOK, Running, rust' = Front(rust)
  PROVE  /\ rust' \in Seq(Drives)
         /\ Len(rust) \in Nat \ {0} /\ Len(rust') = Len(rust) - 1
         /\ DOMAIN rust = 1..Len(rust) /\ DOMAIN rust' = 1..Len(rust) - 1
         /\ \A i \in DOMAIN rust' : rust'[i] = rust[i]
         /\ Now = rust[Len(rust)] /\ Now \in Drives
  <1>1. rust \in Seq(Drives) /\ Len(rust) \in Nat \ {0} /\ DOMAIN rust = 1..Len(rust)
    BY EmptySeq, LenProperties DEF TypeOK, Running
  <1>2. Now = rust[Len(rust)] /\ Now \in Drives
    BY <1>1, ElementOfSeq DEF Now, Last
  <1>3. rust' = SubSeq(rust, 1, Len(rust) - 1)
    BY DEF Front
  <1>4. /\ SubSeq(rust, 1, Len(rust)-1) \in Seq(Drives)
        /\ Len(SubSeq(rust, 1, Len(rust)-1)) = IF 1 <= Len(rust)-1 THEN Len(rust)-1-1+1 ELSE 0
        /\ \A i \in 1..Len(rust)-1-1+1 : SubSeq(rust, 1, Len(rust)-1)[i] = rust[1+i-1]
    <2>1. \A i \in 1..Len(rust)-1 : rust[i] \in Drives
      BY <1>1, ElementOfSeq
    <2>2. Len(rust)-1 \in Int
      BY <1>1
    <2> QED BY <2>1, <2>2, SubSeqProperties
  <1>5. rust' \in Seq(Drives) /\ Len(rust') = Len(rust) - 1
    BY <1>1, <1>3, <1>4
  <1>6. DOMAIN rust' = 1..Len(rust)-1
    BY <1>5, LenProperties
  <1>7. \A i \in 1..Len(rust)-1 : rust'[i] = rust[i]
    <2> TAKE i \in 1..Len(rust)-1
    <2>1. i \in 1..Len(rust)-1-1+1 /\ 1+i-1 = i
      BY <1>1
    <2> QED BY <1>3, <1>4, <2>1
  <1> QED BY <1>1, <1>2, <1>5, <1>6, <1>7

(* The types that the sequences of the state have.                         *)
LEMMA Lengths ==
  ASSUME TypeOK
  PROVE  /\ frames \in [Threads -> Seq(Kinds)]
         /\ \A t \in Threads : Depth(t) \in Nat /\ \A i \in 1..Depth(t) : frames[t][i] \in Kinds
         /\ \A t \in Threads : Busy(t) <=> Depth(t) # 0
         /\ \A t \in Threads : Depth(t) # 0 => frames[t][1] \in {"body", "call"}
         /\ Len(rust) \in Nat /\ DOMAIN rust = 1..Len(rust)
         /\ \A i \in DOMAIN rust : rust[i] \in Drives /\ rust[i].th \in Threads
                                 /\ rust[i].base \in Nat
         /\ \A d \in awaiting : d \in Drives /\ d.th \in Threads
         /\ rust = <<>> <=> Len(rust) = 0
  <1>1. frames \in [Threads -> Seq(Kinds)]
    BY DEF TypeOK, Kinds
  <1>2. \A t \in Threads : Depth(t) \in Nat /\ \A i \in 1..Depth(t) : frames[t][i] \in Kinds
    BY <1>1, ElementOfSeq, LenProperties DEF Depth
  <1>3. \A t \in Threads : Busy(t) <=> Depth(t) # 0
    BY <1>1, HeadIsFirst DEF Busy, Depth
  <1>4. \A t \in Threads : Depth(t) # 0 => frames[t][1] \in {"body", "call"}
    BY <1>1, <1>3, HeadIsFirst DEF TypeOK, Busy
  <1>5. Len(rust) \in Nat /\ DOMAIN rust = 1..Len(rust)
    BY LenProperties DEF TypeOK
  <1>6. \A i \in DOMAIN rust : rust[i] \in Drives
    BY <1>5, ElementOfSeq DEF TypeOK
  <1>7. \A d \in awaiting : d \in Drives
    BY DEF TypeOK
  <1>8. rust = <<>> <=> Len(rust) = 0
    BY EmptySeq DEF TypeOK
  <1> QED BY <1>1, <1>2, <1>3, <1>4, <1>5, <1>6, <1>7, <1>8 DEF Drives

-----------------------------------------------------------------------------
(* What an operation has to show of the frames it changes, those of one    *)
(* thread, for each part of the invariant to be preserved.                 *)

(* The stacks keep their type when the lowest frame was called.            *)
LEMMA FramesType ==
  ASSUME frames' \in [Threads -> Seq(Kinds)], TypeOK, NEW t \in Threads, OthersKept(t),
         Depth(t)' # 0 => frames'[t][1] \in {"body", "call"}
  PROVE  /\ frames' \in [Threads -> Seq({"body", "call", "yield", "async"})]
         /\ \A u \in Threads : Busy(u)' => Head(frames[u])' \in {"body", "call"}
  <1>1. Busy(t)' => Head(frames'[t]) \in {"body", "call"}
    BY HeadIsFirst DEF Depth, Busy
  <1>2. \A u \in Threads : Busy(u)' => Head(frames[u])' \in {"body", "call"}
    BY <1>1 DEF TypeOK, Busy, OthersKept
  <1> QED BY <1>2 DEF Kinds

(* Threads whose frames are kept are as they were.                         *)
LEMMA OthersAsBefore ==
  ASSUME NEW t \in Threads, OthersKept(t)
  PROVE  \A u \in Threads : u # t =>
            /\ frames'[u] = frames[u]
            /\ Depth(u)' = Depth(u)
            /\ Suspended(u)' <=> Suspended(u)
            /\ LowestDriven(u)' = LowestDriven(u)
  BY DEF OthersKept, Depth, Suspended, LowestDriven

(* A resumption or future starts at the bottom of a stack nobody drives.   *)
LEMMA NestedStart ==
  ASSUME TypeOK, Nested, NEW t \in Threads, NEW how \in Async \cup Resumes,
         \A i \in DOMAIN rust : rust[i].th # t,
         how \in Async => ~Running,
         rust' = Append(rust, Drive(t, how, 1)),
         Depth(t)' = 1, frames'[t][1] = Root(how), OthersKept(t)
  PROVE  /\ Nested'
         /\ rust' \in Seq(Drives)
         /\ \A u \in Threads : u # t =>
              ((\E i \in DOMAIN rust' : rust'[i].th = u /\ rust'[i].how \in Resumes)
               <=> (\E i \in DOMAIN rust : rust[i].th = u /\ rust[i].how \in Resumes))
         /\ \E i \in DOMAIN rust' : rust'[i].th = t /\ rust'[i].how = how
         /\ \A i \in DOMAIN rust' : rust'[i].th = t => rust'[i].how = how
  <1> DEFINE d == Drive(t, how, 1)
  <1>1. d \in Drives /\ d.th = t /\ d.how = how /\ d.base = 1
    BY DEF Drive, Drives, Async, Resumes
  <1>2. /\ rust' \in Seq(Drives)
        /\ DOMAIN rust = 1..Len(rust) /\ DOMAIN rust' = 1..Len(rust) + 1
        /\ \A i \in DOMAIN rust : rust'[i] = rust[i]
        /\ rust'[Len(rust) + 1] = d
        /\ Len(rust) \in Nat
    BY <1>1, PushDrive
  <1>3. ~Suspended(t)' /\ LowestDriven(t)' = 1
    BY DEF Suspended, LowestDriven
  <1>4. \A u \in Threads : u # t =>
            /\ frames'[u] = frames[u] /\ Depth(u)' = Depth(u)
            /\ LowestDriven(u)' = LowestDriven(u)
    BY OthersAsBefore
  <1>5. ASSUME NEW u \in Threads, NEW i \in DOMAIN rust', rust'[i].th = u
        PROVE  /\ rust'[i].base \in LowestDriven(u)'..Depth(u)'
               /\ frames'[u][rust'[i].base] = Root(rust'[i].how)
    <2>1. CASE i \in DOMAIN rust
      BY <1>2, <1>4, <1>5, <2>1 DEF Nested
    <2>2. CASE i = Len(rust) + 1
      BY <1>1, <1>2, <1>3, <1>5, <2>2
    <2> QED BY <1>2, <2>1, <2>2
  <1>6. ASSUME NEW i \in DOMAIN rust'
        PROVE  /\ rust'[i].how # "call" => rust'[i].base = 1
               /\ rust'[i].how \in Async => i = 1
    <2>1. Running \/ Len(rust) = 0
      BY Lengths DEF Running
    <2> QED BY <1>1, <1>2, <2>1 DEF Nested
  <1>7. ASSUME NEW i \in DOMAIN rust', NEW j \in DOMAIN rust', i < j, rust'[i].th = rust'[j].th
        PROVE  rust'[i].base < rust'[j].base
    BY <1>1, <1>2, <1>7 DEF Nested
  <1>8. ASSUME NEW u \in Threads, NEW b \in LowestDriven(u)'..Depth(u)'
        PROVE  \E i \in DOMAIN rust' : rust'[i].th = u /\ rust'[i].base = b
    <2>1. CASE u = t
      BY <1>1, <1>2, <1>3, <2>1
    <2>2. CASE u # t
      BY <1>2, <1>4, <2>2 DEF Nested
    <2> QED BY <2>1, <2>2
  <1>9. Nested'
    BY <1>5, <1>6, <1>7, <1>8 DEF Nested
  <1> QED BY <1>1, <1>2, <1>9

(* A thread that nobody drives any more has no frames but a suspension's.  *)
LEMMA NestedFree ==
  ASSUME TypeOK, Nested, NEW t \in Threads, NEW m \in 0..Len(rust),
         DOMAIN rust' = 1..m,
         \A i \in 1..m : rust'[i] = rust[i] /\ rust[i].th # t,
         \A i \in m+1..Len(rust) : rust[i].th = t,
         Depth(t)' \in Nat, Depth(t)' < LowestDriven(t)', OthersKept(t)
  PROVE  /\ Nested'
         /\ \A u \in Threads : u # t =>
              ((\E i \in DOMAIN rust' : rust'[i].th = u /\ rust'[i].how \in Resumes)
               <=> (\E i \in DOMAIN rust : rust[i].th = u /\ rust[i].how \in Resumes))
  <1>1. Len(rust) \in Nat /\ DOMAIN rust = 1..Len(rust)
    BY Lengths
  <1>2. \A u \in Threads : u # t =>
            /\ frames'[u] = frames[u] /\ Depth(u)' = Depth(u)
            /\ LowestDriven(u)' = LowestDriven(u)
    BY OthersAsBefore
  <1>3. ASSUME NEW u \in Threads, NEW i \in DOMAIN rust', rust'[i].th = u
        PROVE  /\ rust'[i].base \in LowestDriven(u)'..Depth(u)'
               /\ frames'[u][rust'[i].base] = Root(rust'[i].how)
    BY <1>1, <1>2, <1>3 DEF Nested
  <1>4. ASSUME NEW i \in DOMAIN rust'
        PROVE  /\ rust'[i].how # "call" => rust'[i].base = 1
               /\ rust'[i].how \in Async => i = 1
    BY <1>1 DEF Nested
  <1>5. ASSUME NEW i \in DOMAIN rust', NEW j \in DOMAIN rust', i < j, rust'[i].th = rust'[j].th
        PROVE  rust'[i].base < rust'[j].base
    BY <1>1, <1>5 DEF Nested
  <1>6. ASSUME NEW u \in Threads, NEW b \in LowestDriven(u)'..Depth(u)'
        PROVE  \E i \in DOMAIN rust' : rust'[i].th = u /\ rust'[i].base = b
    <2>1. LowestDriven(t)' \in Nat
      BY DEF LowestDriven
    <2>2. u # t
      BY <1>6, <2>1
    <2>3. PICK i \in DOMAIN rust : rust[i].th = u /\ rust[i].base = b
      BY <1>2, <1>6, <2>2 DEF Nested
    <2>4. i \in 1..m
      BY <1>1, <2>2, <2>3
    <2> QED BY <2>3, <2>4
  <1>7. Nested'
    BY <1>3, <1>4, <1>5, <1>6 DEF Nested
  <1>8. \A i \in DOMAIN rust : rust[i].th # t => i \in 1..m
    BY <1>1
  <1> QED BY <1>1, <1>7, <1>8

(* pending of one thread changes, and with it who resumes it.              *)
LEMMA PendingOthers ==
  ASSUME \A u \in Threads : PendingTrue(u), NEW t \in Threads, OthersKept(t),
         \A u \in Threads : u # t =>
            /\ pending'[u] = pending[u] /\ leaf'[u] = leaf[u]
            /\ Resumed(u)' <=> Resumed(u),
         abandoned \subseteq abandoned',
         PendingTrue(t)'
  PROVE  \A u \in Threads : PendingTrue(u)'
  <1>1. ASSUME NEW u \in Threads, u # t
        PROVE  PendingTrue(u)'
    <2>1. /\ frames'[u] = frames[u] /\ pending'[u] = pending[u] /\ leaf'[u] = leaf[u]
          /\ Suspended(u)' <=> Suspended(u)
          /\ Resumed(u)' <=> Resumed(u)
      BY <1>1, OthersAsBefore
    <2> QED BY <2>1 DEF PendingTrue
  <1> QED BY <1>1

-----------------------------------------------------------------------------
(* One lemma per operation.                                                *)

(* A call adds a frame and its drive, and suspends nothing.                *)
LEMMA CallStep ==
  ASSUME CoInv, NEW t \in Threads, Call(t)
  PROVE  CoInv'
  <1> DEFINE d == Drive(t, "call", Depth(t) + 1)
  <1>1. TypeOK /\ Nested /\ Waits /\ YieldAnswered /\ \A u \in Threads : PendingTrue(u)
    BY DEF CoInv
  <1>2. d \in Drives /\ d.th = t /\ d.how = "call" /\ d.base = Depth(t) + 1
    BY <1>1, Lengths DEF Drive, Drives
  <1>3. /\ frames' \in [Threads -> Seq(Kinds)]
        /\ Depth(t)' = Depth(t) + 1
        /\ \A i \in 1..Depth(t) : frames'[t][i] = frames[t][i]
        /\ frames'[t][Depth(t) + 1] = "call"
        /\ OthersKept(t)
    BY <1>1, PushFrame DEF Call, Kinds
  <1>4. /\ rust' \in Seq(Drives)
        /\ Len(rust') = Len(rust) + 1
        /\ DOMAIN rust = 1..Len(rust) /\ DOMAIN rust' = 1..Len(rust) + 1
        /\ \A i \in DOMAIN rust : rust'[i] = rust[i]
        /\ rust'[Len(rust) + 1] = d
        /\ Len(rust) \in Nat
    BY <1>1, <1>2, PushDrive DEF Call
  <1>5. UNCHANGED <<entry, pending, leaf, yielding, awaiting, nullci, abandoned>>
    BY DEF Call
  <1>6. \A u \in Threads : Depth(u) \in Nat
    BY <1>1, Lengths
  <1>7. \A u \in Threads :
           /\ Depth(u)' \in Nat /\ Depth(u) <= Depth(u)'
           /\ \A b \in 1..Depth(u) : frames'[u][b] = frames[u][b]
           /\ u # t => Depth(u)' = Depth(u)
    <2> SUFFICES ASSUME NEW u \in Threads
                 PROVE  /\ Depth(u)' \in Nat /\ Depth(u) <= Depth(u)'
                        /\ \A b \in 1..Depth(u) : frames'[u][b] = frames[u][b]
                        /\ u # t => Depth(u)' = Depth(u)
      OBVIOUS
    <2>1. CASE u = t
      BY <1>3, <1>6, <2>1
    <2>2. CASE u # t
      <3>1. frames'[u] = frames[u] /\ Depth(u)' = Depth(u)
        BY <1>3, <2>2, OthersAsBefore
      <3> QED BY <1>6, <2>2, <3>1
    <2> QED BY <2>1, <2>2
  <1>8. \A u \in Threads : Suspended(u)' <=> Suspended(u)
    BY <1>3, <1>6, <1>7 DEF Suspended
  <1>9. \A u \in Threads : LowestDriven(u)' = LowestDriven(u) /\ LowestDriven(u) \in 1..Depth(u) + 1
    BY <1>6, <1>8 DEF LowestDriven, Suspended
  <1>10. TypeOK'
    <2>1. Depth(t)' # 0 => frames'[t][1] \in {"body", "call"}
      <3>1. CASE Depth(t) = 0
        BY <1>3, <3>1
      <3>2. CASE Depth(t) # 0
        <4>1. 1 \in 1..Depth(t)
          BY <1>6, <3>2
        <4>2. frames[t][1] \in {"body", "call"}
          BY <1>1, <3>2, Lengths
        <4> QED BY <1>3, <4>1, <4>2
      <3> QED BY <3>1, <3>2
    <2> QED BY <1>1, <1>3, <1>4, <1>5, <2>1, FramesType DEF TypeOK
  <1>11. Nested'
    <2>1. ASSUME NEW u \in Threads, NEW i \in DOMAIN rust', rust'[i].th = u
          PROVE  /\ rust'[i].base \in LowestDriven(u)'..Depth(u)'
                 /\ frames'[u][rust'[i].base] = Root(rust'[i].how)
      <3>1. CASE i \in DOMAIN rust
        <4>1. /\ rust[i].base \in LowestDriven(u)..Depth(u)
              /\ frames[u][rust[i].base] = Root(rust[i].how)
              /\ rust'[i] = rust[i]
          BY <1>1, <1>4, <2>1, <3>1 DEF Nested
        <4> QED BY <1>6, <1>7, <1>9, <4>1
      <3>2. CASE i = Len(rust) + 1
        BY <1>2, <1>3, <1>4, <1>6, <1>9, <2>1, <3>2 DEF Root, Resumes
      <3> QED BY <1>4, <3>1, <3>2
    <2>2. ASSUME NEW i \in DOMAIN rust'
          PROVE  /\ rust'[i].how # "call" => rust'[i].base = 1
                 /\ rust'[i].how \in Async => i = 1
      BY <1>1, <1>2, <1>4 DEF Nested, Async
    <2>3. ASSUME NEW i \in DOMAIN rust', NEW j \in DOMAIN rust', i < j, rust'[i].th = rust'[j].th
          PROVE  rust'[i].base < rust'[j].base
      <3>1. i \in DOMAIN rust /\ rust'[i] = rust[i]
        BY <1>4, <2>3
      <3>2. CASE j \in DOMAIN rust
        BY <1>1, <1>4, <2>3, <3>1, <3>2 DEF Nested
      <3>3. CASE j = Len(rust) + 1
        <4>1. rust[i].th = t /\ rust'[j].base = Depth(t) + 1
          BY <1>2, <1>4, <2>3, <3>1, <3>3
        <4>2. rust[i].base \in LowestDriven(t)..Depth(t)
          BY <1>1, <3>1, <4>1 DEF Nested
        <4> QED BY <1>6, <1>9, <3>1, <4>1, <4>2
      <3> QED BY <1>4, <3>2, <3>3
    <2>4. ASSUME NEW u \in Threads, NEW b \in LowestDriven(u)'..Depth(u)'
          PROVE  \E i \in DOMAIN rust' : rust'[i].th = u /\ rust'[i].base = b
      <3>1. CASE u = t /\ b = Depth(t) + 1
        BY <1>2, <1>4, <3>1
      <3>2. CASE b \in LowestDriven(u)..Depth(u)
        BY <1>1, <1>4, <3>2 DEF Nested
      <3> QED BY <1>3, <1>6, <1>7, <1>9, <3>1, <3>2
    <2> QED BY <2>1, <2>2, <2>3, <2>4 DEF Nested
  <1>12. Waits'
    <2>1. ASSUME NEW w \in awaiting
          PROVE  w.th \in Threads
      BY <1>1, <2>1 DEF TypeOK, Drives
    <2> QED BY <1>1, <1>5, <1>6, <1>7, <1>8, <2>1 DEF Waits, Suspended
  <1>13. \A u \in Threads : PendingTrue(u)'
    <2> SUFFICES ASSUME NEW u \in Threads
                 PROVE  PendingTrue(u)'
      OBVIOUS
    <2>1. Resumed(u)' <=> Resumed(u)
      BY <1>2, <1>4, <1>5 DEF Resumes, Resumed
    <2>2. ASSUME Suspended(u)
          PROVE  frames'[u][1] = frames[u][1] /\ frames'[u][2] = frames[u][2]
      BY <1>6, <1>7, <2>2 DEF Suspended
    <2>3. PendingTrue(u)
      BY <1>1
    <2> QED BY <1>5, <1>8, <2>1, <2>2, <2>3 DEF PendingTrue
  <1>14. YieldAnswered'
    BY <1>1, <1>5 DEF YieldAnswered
  <1> QED BY <1>10, <1>11, <1>12, <1>13, <1>14 DEF CoInv

(* What a resumption or a future starts on a stack with nothing but itself *)
(* breaks nothing, if the rest of the step agrees.                         *)
LEMMA StartStep ==
  ASSUME CoInv, NEW t \in Threads, NEW how \in Async \cup Resumes,
         \A i \in DOMAIN rust : rust[i].th # t,
         \A d \in awaiting' : d \in awaiting /\ d.th # t,
         \A d \in awaiting : d.th # t => d \in awaiting',
         how \in Async => ~Running,
         rust' = Append(rust, Drive(t, how, 1)),
         frames' \in [Threads -> Seq(Kinds)],
         Depth(t)' = 1, frames'[t][1] = Root(how), OthersKept(t),
         pending' = IF how \in Resumes THEN [pending EXCEPT ![t] = "borrowed"] ELSE pending,
         how \notin Resumes => pending[t] = "none",
         UNCHANGED <<leaf, nullci, abandoned>>,
         entry' \in [Threads -> BOOLEAN],
         yielding' \in [Threads -> {"none", "args"}],
         YieldAnswered'
  PROVE  CoInv'
  <1>1. TypeOK /\ Nested /\ Waits /\ YieldAnswered /\ \A u \in Threads : PendingTrue(u)
    BY DEF CoInv
  <1>2. /\ Nested'
        /\ rust' \in Seq(Drives)
        /\ \A u \in Threads : u # t =>
              ((\E i \in DOMAIN rust' : rust'[i].th = u /\ rust'[i].how \in Resumes)
               <=> (\E i \in DOMAIN rust : rust[i].th = u /\ rust[i].how \in Resumes))
        /\ \E i \in DOMAIN rust' : rust'[i].th = t /\ rust'[i].how = how
        /\ \A i \in DOMAIN rust' : rust'[i].th = t => rust'[i].how = how
    BY <1>1, NestedStart
  <1>3. TypeOK'
    <2>1. frames'[t][1] \in {"body", "call"}
      BY DEF Root
    <2>2. awaiting' \subseteq Drives
      BY <1>1 DEF TypeOK
    <2> QED BY <1>1, <1>2, <2>1, <2>2, FramesType DEF TypeOK
  <1>4. Waits'
    <2>1. \A d \in awaiting' : d.th \in Threads /\ d.th # t /\ d \in awaiting
      BY <1>1, Lengths
    <2> QED BY <1>1, <2>1, OthersAsBefore DEF Waits
  <1>5. \A u \in Threads : PendingTrue(u)'
    <2>1. \A u \in Threads : u # t =>
            /\ pending'[u] = pending[u] /\ leaf'[u] = leaf[u]
            /\ Resumed(u)' <=> Resumed(u)
      <3> SUFFICES ASSUME NEW u \in Threads, u # t
                   PROVE  /\ pending'[u] = pending[u] /\ leaf'[u] = leaf[u]
                          /\ Resumed(u)' <=> Resumed(u)
        OBVIOUS
      <3>1. (\E d \in awaiting' : d.th = u /\ d.how \in Resumes)
            <=> (\E d \in awaiting : d.th = u /\ d.how \in Resumes)
        OBVIOUS
      <3>2. Resumed(u)' <=> Resumed(u)
        BY <1>2, <3>1 DEF Resumed
      <3> QED BY <1>1, <3>2 DEF TypeOK
    <2>2. PendingTrue(t)'
      <3>1. ~Suspended(t)'
        BY DEF Suspended
      <3>2. Resumed(t)' <=> how \in Resumes
        BY <1>2 DEF Resumed
      <3>3. pending'[t] = IF how \in Resumes THEN "borrowed" ELSE "none"
        BY <1>1 DEF TypeOK
      <3> QED BY <3>1, <3>2, <3>3 DEF PendingTrue
    <2> QED BY <1>1, <2>1, <2>2, PendingOthers
  <1> QED BY <1>2, <1>3, <1>4, <1>5 DEF CoInv

(* Nobody uses the stack of a thread that has no frames.                   *)
LEMMA EmptyFree ==
  ASSUME CoInv, NEW t \in Threads, ~Busy(t)
  PROVE  /\ Depth(t) = 0
         /\ \A i \in DOMAIN rust : rust[i].th # t
         /\ \A d \in awaiting : d.th # t
         /\ pending[t] = "none"
  <1>1. TypeOK /\ Nested /\ Waits /\ PendingTrue(t)
    BY DEF CoInv
  <1>2. Depth(t) = 0 /\ ~Suspended(t)
    BY <1>1, Lengths DEF Suspended
  <1>3. \A i \in DOMAIN rust : rust[i].th # t
    BY <1>1, <1>2 DEF Nested, LowestDriven
  <1>4. \A d \in awaiting : d.th # t
    BY <1>1, <1>2 DEF Waits
  <1>5. pending[t] = "none"
    <2>1. pending[t] \in {"none", "idle", "borrowed"}
      BY <1>1 DEF TypeOK
    <2>2. ~Resumed(t)
      BY <1>3, <1>4 DEF Resumed
    <2> QED BY <1>1, <1>2, <2>1, <2>2 DEF PendingTrue
  <1> QED BY <1>2, <1>3, <1>4, <1>5

(* A suspended coroutine that was not called from Rust meanwhile consists  *)
(* of its entry point and of what it waits in.                             *)
LEMMA IdleFree ==
  ASSUME CoInv, NEW t \in Threads, pending[t] = "idle", ~Driven(t, "call")
  PROVE  /\ Depth(t) = 2 /\ leaf[t] = 2 /\ frames[t][1] = "body"
         /\ \A i \in DOMAIN rust : rust[i].th # t
         /\ \A d \in awaiting : d.th # t
  <1>1. TypeOK /\ Nested /\ Waits /\ PendingTrue(t)
    BY DEF CoInv
  <1>2. /\ Suspended(t) /\ LowestDriven(t) = 3 /\ leaf[t] = 2 /\ frames[t][1] = "body"
        /\ Depth(t) \in Nat /\ Depth(t) >= 2
    BY <1>1, Lengths DEF PendingTrue, LowestDriven, Suspended
  <1>3. ASSUME NEW i \in DOMAIN rust, rust[i].th = t
        PROVE  FALSE
    <2>1. rust[i].base \in 3..Depth(t)
      BY <1>1, <1>2, <1>3 DEF Nested
    <2>2. rust[i].how = "call"
      BY <1>1, <2>1 DEF Nested
    <2> QED BY <1>3, <2>2 DEF Driven
  <1>4. Depth(t) = 2
    <2>1. \A b \in 3..Depth(t) : FALSE
      BY <1>1, <1>2, <1>3 DEF Nested
    <2> QED BY <1>2, <2>1
  <1>5. ASSUME NEW d \in awaiting, d.th = t
        PROVE  FALSE
    <2>1. Root(d.how) = "body"
      BY <1>1, <1>2, <1>5 DEF Waits
    <2>2. d.how \in Resumes
      BY <2>1 DEF Root
    <2> QED BY <1>1, <1>5, <2>2 DEF PendingTrue, Resumed
  <1> QED BY <1>2, <1>3, <1>4, <1>5

(* Thread::async_call.                                                     *)
LEMMA AsyncCallStep ==
  ASSUME CoInv, NEW t \in Threads, AsyncCall(t)
  PROVE  CoInv'
  <1>1. TypeOK /\ YieldAnswered
    BY DEF CoInv
  <1>2. /\ \A i \in DOMAIN rust : rust[i].th # t
        /\ \A d \in awaiting : d.th # t
        /\ pending[t] = "none"
    BY EmptyFree DEF AsyncCall, IsStackEmpty, Busy
  <1>3. rust' = Append(rust, Drive(t, "async_call", 1))
    BY DEF AsyncCall, Running
  <1>4. /\ frames' \in [Threads -> Seq(Kinds)]
        /\ Depth(t)' = 1 /\ frames'[t][1] = "call" /\ OthersKept(t)
    BY <1>1, Lengths DEF AsyncCall, OthersKept, Depth, Kinds
  <1>5. /\ UNCHANGED <<entry, pending, leaf, yielding, awaiting, nullci, abandoned>>
        /\ ~Running
    BY DEF AsyncCall
  <1>6. YieldAnswered' /\ entry' \in [Threads -> BOOLEAN] /\ yielding' \in [Threads -> {"none", "args"}]
    BY <1>1, <1>5 DEF YieldAnswered, TypeOK
  <1>7. /\ "async_call" \in Async \cup Resumes /\ "async_call" \notin Resumes
        /\ Root("async_call") = "call"
    BY DEF Async, Resumes, Root
  <1> QED BY <1>2, <1>3, <1>4, <1>5, <1>6, <1>7, StartStep

(* resume and async_resume of an entry point.                              *)
LEMMA StartOfBody ==
  ASSUME CoInv, NEW t \in Threads, NEW how \in Resumes, Start(t, how)
  PROVE  CoInv'
  <1>1. TypeOK /\ YieldAnswered
    BY DEF CoInv
  <1>2. /\ \A i \in DOMAIN rust : rust[i].th # t
        /\ \A d \in awaiting : d.th # t
    BY EmptyFree DEF Start
  <1>3. /\ rust' = Append(rust, Drive(t, how, 1))
        /\ pending' = [pending EXCEPT ![t] = "borrowed"]
        /\ UNCHANGED <<leaf, yielding, awaiting, nullci, abandoned>>
        /\ how \in Async => ~Running
    BY DEF Start, CanDrive, Async, Resumes
  <1>4. /\ frames' \in [Threads -> Seq(Kinds)]
        /\ Depth(t)' = 1 /\ frames'[t][1] = "body" /\ OthersKept(t)
    BY <1>1, Lengths DEF Start, OthersKept, Depth, Kinds
  <1>5. entry' \in [Threads -> BOOLEAN]
    BY <1>1 DEF Start, TypeOK
  <1>6. YieldAnswered' /\ yielding' \in [Threads -> {"none", "args"}]
    BY <1>1, <1>3 DEF YieldAnswered, TypeOK
  <1>7. how \in Async \cup Resumes /\ Root(how) = "body"
    BY DEF Root
  <1> QED BY <1>2, <1>3, <1>4, <1>5, <1>6, <1>7, StartStep

(* What is above the entry point of a coroutine goes when it is resumed.   *)
LEMMA PopToBody ==
  ASSUME CoInv, NEW t \in Threads, leaf[t] = 2, Depth(t) \in Nat, Depth(t) >= 2,
         frames' = Popped(t)
  PROVE  /\ frames' \in [Threads -> Seq(Kinds)]
         /\ Depth(t)' = 1 /\ frames'[t][1] = frames[t][1] /\ OthersKept(t)
  <1>1. 1 \in 0..Depth(t)
    OBVIOUS
  <1>2. frames' = [frames EXCEPT ![t] = SubSeq(@, 1, 1)]
    BY DEF Popped
  <1>3. TypeOK
    BY DEF CoInv
  <1>4. /\ frames' \in [Threads -> Seq(Kinds)] /\ Depth(t)' = 1
        /\ \A i \in 1..1 : frames'[t][i] = frames[t][i]
        /\ OthersKept(t)
    BY <1>1, <1>2, <1>3, CutFrames
  <1> QED BY <1>4

(* resume and async_resume of a coroutine in a yield.                      *)
LEMMA ResumeStep ==
  ASSUME CoInv, ~ResumesCalled, NEW t \in Threads, NEW how \in Resumes, Resume(t, how)
  PROVE  CoInv'
  <1>1. TypeOK /\ YieldAnswered
    BY DEF CoInv
  <1>2. /\ Depth(t) = 2 /\ leaf[t] = 2 /\ frames[t][1] = "body"
        /\ \A i \in DOMAIN rust : rust[i].th # t
        /\ \A d \in awaiting : d.th # t
    BY IdleFree DEF Resume, Resumable
  <1>3. /\ rust' = Append(rust, Drive(t, how, 1))
        /\ pending' = [pending EXCEPT ![t] = "borrowed"]
        /\ UNCHANGED <<entry, leaf, awaiting, nullci, abandoned>>
        /\ how \in Async => ~Running
        /\ frames' = Popped(t) /\ yielding' = Taken(t)
    BY DEF Resume, CanDrive, Async, Resumes
  <1>4. /\ frames' \in [Threads -> Seq(Kinds)]
        /\ Depth(t)' = 1 /\ frames'[t][1] = "body" /\ OthersKept(t)
    BY <1>2, <1>3, PopToBody
  <1>5. entry' \in [Threads -> BOOLEAN]
    BY <1>1, <1>3 DEF TypeOK
  <1>6. YieldAnswered' /\ yielding' \in [Threads -> {"none", "args"}]
    BY <1>1, <1>3 DEF YieldAnswered, TypeOK, Taken
  <1>7. how \in Async \cup Resumes /\ Root(how) = "body"
    BY DEF Root
  <1> QED BY <1>2, <1>3, <1>4, <1>5, <1>6, <1>7, StartStep

(* async_resume of a coroutine whose AsyncFp has become ready meanwhile.   *)
LEMMA ResumeReadyStep ==
  ASSUME CoInv, NEW t \in Threads, ResumeReady(t)
  PROVE  CoInv'
  <1>1. TypeOK /\ YieldAnswered /\ PendingTrue(t)
    BY DEF CoInv
  <1>2. ~Running
    BY DEF ResumeReady, CanDrive
  <1>3. /\ Depth(t) = 2 /\ leaf[t] = 2 /\ frames[t][1] = "body"
        /\ \A i \in DOMAIN rust : rust[i].th # t
        /\ \A d \in awaiting : d.th # t
    <2>1. \A i \in DOMAIN rust : FALSE
      BY <1>1, <1>2, Lengths DEF Running
    <2> QED BY <2>1, IdleFree DEF ResumeReady, Resumable, Driven
  <1>4. /\ rust' = Append(rust, Drive(t, "async_resume", 1))
        /\ pending' = [pending EXCEPT ![t] = "borrowed"]
        /\ UNCHANGED <<entry, leaf, awaiting, nullci, abandoned>>
        /\ frames' = Popped(t) /\ yielding' = [yielding EXCEPT ![t] = "args"]
    BY DEF ResumeReady
  <1>5. /\ frames' \in [Threads -> Seq(Kinds)]
        /\ Depth(t)' = 1 /\ frames'[t][1] = "body" /\ OthersKept(t)
    BY <1>3, <1>4, PopToBody
  <1>6. t \in abandoned
    BY <1>1, <1>3 DEF ResumeReady, Resumable, PendingTrue
  <1>7. entry' \in [Threads -> BOOLEAN]
    BY <1>1, <1>4 DEF TypeOK
  <1>8. YieldAnswered' /\ yielding' \in [Threads -> {"none", "args"}]
    BY <1>1, <1>4, <1>6 DEF YieldAnswered, TypeOK
  <1>9. /\ "async_resume" \in Async \cup Resumes /\ "async_resume" \in Resumes
        /\ Root("async_resume") = "body"
    BY DEF Async, Resumes, Root
  <1> QED BY <1>2, <1>3, <1>4, <1>5, <1>7, <1>8, <1>9, StartStep

(* A thread has one future at most, and no other use while it waits.       *)
LEMMA WaitsAlone ==
  ASSUME CoInv, NEW d \in awaiting
  PROVE  /\ d.th \in Threads /\ d.how \in Async /\ d = Drive(d.th, d.how, 1)
         /\ Depth(d.th) \in Nat /\ Depth(d.th) >= 2 /\ leaf[d.th] = 2
         /\ frames[d.th][1] = Root(d.how) /\ frames[d.th][2] = "async"
         /\ \A e \in awaiting : e.th = d.th => e = d
         /\ d.how \in Resumes => pending[d.th] = "borrowed"
         /\ d.how \notin Resumes /\ ~Running => pending[d.th] = "none"
  <1>1. TypeOK /\ Waits /\ \A t \in Threads : PendingTrue(t)
    BY DEF CoInv
  <1>2. \A e \in awaiting : e \in Drives /\ e.th \in Threads
    BY <1>1, Lengths
  <1>3. ASSUME NEW e \in awaiting
        PROVE  /\ e.how \in Async /\ e = Drive(e.th, e.how, 1)
               /\ frames[e.th][1] = Root(e.how)
    <2>1. e.how \in Async /\ e.base = 1 /\ frames[e.th][1] = Root(e.how)
      BY <1>1 DEF Waits
    <2> QED BY <1>2, <2>1 DEF Drive, Drives
  <1>4. \A h, k \in Async : Root(h) = Root(k) => h = k
    BY DEF Async, Root, Resumes
  <1>5. \A e \in awaiting : e.th = d.th => e = d
    <2> SUFFICES ASSUME NEW e \in awaiting, e.th = d.th
                 PROVE  e = d
      OBVIOUS
    <2>1. e.how = d.how
      BY <1>3, <1>4
    <2> QED BY <1>3, <2>1
  <1>6. /\ Suspended(d.th) /\ leaf[d.th] = 2 /\ frames[d.th][2] = "async"
        /\ Depth(d.th) \in Nat /\ Depth(d.th) >= 2
    BY <1>1, <1>2, Lengths DEF Waits, Suspended
  <1>7. d.how \in Resumes => pending[d.th] = "borrowed"
    BY <1>1, <1>2 DEF PendingTrue, Resumed
  <1>8. ASSUME d.how \notin Resumes, ~Running
        PROVE  pending[d.th] = "none"
    <2>1. frames[d.th][1] = "call"
      BY <1>3, <1>8 DEF Root
    <2>2. pending[d.th] # "idle"
      BY <1>1, <1>2, <2>1 DEF PendingTrue
    <2>3. \A i \in DOMAIN rust : FALSE
      BY <1>1, <1>8, Lengths DEF Running
    <2>4. ~Resumed(d.th)
      BY <1>5, <1>8, <2>3 DEF Resumed
    <2>5. pending[d.th] \in {"none", "idle", "borrowed"}
      BY <1>1, <1>2 DEF TypeOK
    <2> QED BY <1>1, <1>2, <2>2, <2>4, <2>5 DEF PendingTrue
  <1> QED BY <1>2, <1>3, <1>5, <1>6, <1>7, <1>8

(* An executor polls a future whose AsyncFp has become ready.              *)
LEMMA WakeStep ==
  ASSUME CoInv, NEW d \in awaiting, Wake(d)
  PROVE  CoInv'
  <1> DEFINE t == d.th
  <1>1. TypeOK /\ YieldAnswered
    BY DEF CoInv
  <1>2. /\ t \in Threads /\ d.how \in Async /\ d = Drive(t, d.how, 1)
        /\ Depth(t) \in Nat /\ Depth(t) >= 2 /\ leaf[t] = 2
        /\ frames[t][1] = Root(d.how)
        /\ \A e \in awaiting : e.th = t => e = d
        /\ d.how \in Resumes => pending[t] = "borrowed"
        /\ d.how \notin Resumes /\ ~Running => pending[t] = "none"
    BY WaitsAlone
  <1>3. /\ ~Running /\ frames' = Popped(t) /\ rust' = <<d>> /\ awaiting' = awaiting \ {d}
        /\ UNCHANGED <<entry, pending, leaf, yielding, nullci, abandoned>>
    BY DEF Wake
  <1>4. /\ frames' \in [Threads -> Seq(Kinds)]
        /\ Depth(t)' = 1 /\ frames'[t][1] = Root(d.how) /\ OthersKept(t)
    BY <1>2, <1>3, PopToBody
  <1>5. rust' = Append(rust, Drive(t, d.how, 1))
    BY <1>2, <1>3 DEF Running
  <1>6. \A i \in DOMAIN rust : rust[i].th # t
    BY <1>1, <1>3, Lengths DEF Running
  <1>7. pending' = IF d.how \in Resumes THEN [pending EXCEPT ![t] = "borrowed"] ELSE pending
    BY <1>1, <1>2, <1>3 DEF TypeOK
  <1>8. /\ YieldAnswered' /\ entry' \in [Threads -> BOOLEAN]
        /\ yielding' \in [Threads -> {"none", "args"}]
    BY <1>1, <1>3 DEF YieldAnswered, TypeOK
  <1>9. /\ \A e \in awaiting' : e \in awaiting /\ e.th # t
        /\ \A e \in awaiting : e.th # t => e \in awaiting'
    BY <1>2, <1>3
  <1>10. d.how \in Async \cup Resumes /\ (d.how \notin Resumes => pending[t] = "none")
    BY <1>2, <1>3
  <1>11. UNCHANGED <<leaf, nullci, abandoned>> /\ (d.how \in Async => ~Running)
    BY <1>3
  <1> HIDE DEF t
  <1> QED BY <1>2, <1>4, <1>5, <1>6, <1>7, <1>8, <1>9, <1>10, <1>11, StartStep

(* What leaves stacks, drives and futures alone preserves their relations. *)
LEMMA Untouched ==
  ASSUME CoInv, UNCHANGED <<frames, pending, leaf, rust, awaiting, abandoned>>
  PROVE  Nested' /\ Waits' /\ \A u \in Threads : PendingTrue(u)'
  <1>1. Nested'
    BY DEF CoInv, Nested, Suspended, LowestDriven, Depth
  <1>2. Waits'
    BY DEF CoInv, Waits, Suspended, Depth
  <1>3. \A u \in Threads : PendingTrue(u)'
    BY DEF CoInv, PendingTrue, Suspended, Depth, Resumed
  <1> QED BY <1>1, <1>2, <1>3

(* Thread::set_entry.                                                      *)
LEMMA SetEntryStep ==
  ASSUME CoInv, NEW t \in Threads, SetEntry(t)
  PROVE  CoInv'
  <1>1. Nested' /\ Waits' /\ \A u \in Threads : PendingTrue(u)'
    BY Untouched DEF SetEntry
  <1>2. TypeOK' /\ YieldAnswered'
    BY DEF CoInv, TypeOK, YieldAnswered, SetEntry, Busy
  <1> QED BY <1>1, <1>2 DEF CoInv

(* async_resume of a coroutine that still waits.                           *)
LEMMA ResumeUnreadyStep ==
  ASSUME CoInv, NEW t \in Threads, ResumeUnready(t)
  PROVE  CoInv'
  <1>1. Nested' /\ Waits' /\ \A u \in Threads : PendingTrue(u)'
    BY Untouched DEF ResumeUnready
  <1>2. TypeOK' /\ YieldAnswered'
    BY DEF CoInv, TypeOK, YieldAnswered, ResumeUnready, Taken, Busy
  <1> QED BY <1>1, <1>2 DEF CoInv

(* A step that ends with a thread nobody drives, and which stands in the   *)
(* suspension it is in or has none.                                        *)
LEMMA FreeStep ==
  ASSUME CoInv, NEW t \in Threads, NEW m \in 0..Len(rust),
         rust' \in Seq(Drives), DOMAIN rust' = 1..m,
         \A i \in 1..m : rust'[i] = rust[i] /\ rust[i].th # t,
         \A i \in m+1..Len(rust) : rust[i].th = t,
         frames' \in [Threads -> Seq(Kinds)], OthersKept(t),
         Depth(t)' \in Nat, Depth(t)' < LowestDriven(t)',
         Depth(t)' # 0 => frames'[t][1] \in {"body", "call"},
         awaiting' \subseteq Drives,
         \A d \in Drives : d.th # t => (d \in awaiting' <=> d \in awaiting),
         \A d \in awaiting' : d.th = t =>
            /\ d.how \in Async /\ d.base = 1 /\ Suspended(t)' /\ leaf'[t] = 2
            /\ frames'[t][1] = Root(d.how) /\ frames'[t][2] = "async",
         NEW p \in {"none", "idle", "borrowed"}, pending' = [pending EXCEPT ![t] = p],
         NEW l \in Nat, leaf' = [leaf EXCEPT ![t] = l],
         PendingTrue(t)',
         abandoned \subseteq abandoned', abandoned' \subseteq Threads,
         UNCHANGED <<entry, nullci>>,
         yielding' \in [Threads -> {"none", "args"}],
         YieldAnswered'
  PROVE  CoInv'
  <1>1. TypeOK /\ Nested /\ Waits /\ YieldAnswered /\ \A u \in Threads : PendingTrue(u)
    BY DEF CoInv
  <1>2. /\ Nested'
        /\ \A u \in Threads : u # t =>
              ((\E i \in DOMAIN rust' : rust'[i].th = u /\ rust'[i].how \in Resumes)
               <=> (\E i \in DOMAIN rust : rust[i].th = u /\ rust[i].how \in Resumes))
    BY <1>1, NestedFree
  <1>3. pending' \in [Threads -> {"none", "idle", "borrowed"}] /\ leaf' \in [Threads -> Nat]
    BY <1>1 DEF TypeOK
  <1>4. TypeOK'
    <2>1. /\ frames' \in [Threads -> Seq({"body", "call", "yield", "async"})]
          /\ \A u \in Threads : Busy(u)' => Head(frames[u])' \in {"body", "call"}
      BY <1>1, FramesType
    <2> QED BY <1>1, <1>3, <2>1 DEF TypeOK
  <1>5. \A u \in Threads : u # t =>
          /\ frames'[u] = frames[u] /\ pending'[u] = pending[u] /\ leaf'[u] = leaf[u]
          /\ Suspended(u)' <=> Suspended(u)
    BY <1>1, OthersAsBefore DEF TypeOK
  <1>6. Waits'
    <2> SUFFICES ASSUME NEW d \in awaiting'
                 PROVE  /\ d.how \in Async /\ d.base = 1
                        /\ Suspended(d.th)' /\ leaf'[d.th] = 2
                        /\ frames'[d.th][1] = Root(d.how) /\ frames'[d.th][2] = "async"
      BY DEF Waits
    <2>1. d \in Drives /\ d.th \in Threads
      BY DEF Drives
    <2>2. CASE d.th = t
      BY <2>2
    <2>3. CASE d.th # t
      <3>1. d \in awaiting
        BY <2>1, <2>3
      <3> QED BY <1>1, <1>5, <2>1, <2>3, <3>1 DEF Waits
    <2> QED BY <2>2, <2>3
  <1>7. \A u \in Threads : PendingTrue(u)'
    <2>1. ASSUME NEW u \in Threads, u # t
          PROVE  Resumed(u)' <=> Resumed(u)
      <3>1. \A d \in awaiting : d \in Drives
        BY <1>1 DEF TypeOK
      <3>2. (\E d \in awaiting' : d.th = u /\ d.how \in Resumes)
            <=> (\E d \in awaiting : d.th = u /\ d.how \in Resumes)
        BY <2>1, <3>1
      <3> QED BY <1>2, <2>1, <3>2 DEF Resumed
    <2>2. \A u \in Threads : u # t =>
            /\ pending'[u] = pending[u] /\ leaf'[u] = leaf[u]
            /\ Resumed(u)' <=> Resumed(u)
      BY <1>5, <2>1
    <2> QED BY <1>1, <2>2, PendingOthers
  <1> QED BY <1>2, <1>4, <1>6, <1>7 DEF CoInv

(* What runs as a resumption or a future drives its thread alone, from the *)
(* lowest frame, and nothing lies above it.                                *)
LEMMA RunsAlone ==
  ASSUME CoInv, Running, Now.how # "call"
  PROVE  /\ Now \in Drives /\ Now.th \in Threads /\ Now.base = 1
         /\ Len(rust) \in Nat \ {0} /\ DOMAIN rust = 1..Len(rust) /\ Now = rust[Len(rust)]
         /\ \A i \in 1..Len(rust)-1 : rust[i].th # Now.th
         /\ \A d \in awaiting : d.th # Now.th
         /\ Depth(Now.th) = 1 /\ frames[Now.th][1] = Root(Now.how)
         /\ Now.how \in Resumes => pending[Now.th] = "borrowed"
         /\ Now.how \notin Resumes => pending[Now.th] = "none"
         /\ Now.how \in Async => Len(rust) = 1
  <1> DEFINE n == Len(rust)
             t == Now.th
  <1>1. TypeOK /\ Nested /\ Waits /\ \A u \in Threads : PendingTrue(u)
    BY DEF CoInv
  <1>2. n \in Nat \ {0} /\ DOMAIN rust = 1..n
    BY <1>1, Lengths DEF Running
  <1>3. n \in DOMAIN rust /\ Now = rust[n]
    BY <1>2 DEF Now, Last
  <1>4. Now \in Drives /\ t \in Threads
    BY <1>1, <1>3, Lengths
  <1>5. Now.base = 1 /\ (Now.how \in Async => n = 1)
    BY <1>1, <1>3 DEF Nested
  <1>6. LowestDriven(t) = 1 /\ ~Suspended(t) /\ frames[t][1] = Root(Now.how)
        /\ Depth(t) \in Nat /\ 1 <= Depth(t)
    <2>1. 1 \in LowestDriven(t)..Depth(t) /\ frames[t][1] = Root(Now.how)
      BY <1>1, <1>3, <1>4, <1>5 DEF Nested
    <2>2. Depth(t) \in Nat
      BY <1>1, <1>4, Lengths
    <2> QED BY <2>1, <2>2 DEF LowestDriven
  <1>7. \A i \in 1..n-1 : rust[i].th # t
    <2> SUFFICES ASSUME NEW i \in 1..n-1, rust[i].th = t
                 PROVE  FALSE
      OBVIOUS
    <2>1. i \in DOMAIN rust /\ i < n
      BY <1>2
    <2>2. rust[i].base < 1
      BY <1>1, <1>3, <1>5, <2>1 DEF Nested
    <2>3. rust[i].base \in 1..Depth(t)
      BY <1>1, <1>4, <1>6, <2>1 DEF Nested
    <2> QED BY <1>6, <2>2, <2>3
  <1>8. Depth(t) = 1
    <2>1. \A b \in 1..Depth(t) : b = 1
      <3> SUFFICES ASSUME NEW b \in 1..Depth(t)
                   PROVE  b = 1
        OBVIOUS
      <3>1. PICK i \in DOMAIN rust : rust[i].th = t /\ rust[i].base = b
        BY <1>1, <1>4, <1>6 DEF Nested
      <3>2. i = n
        BY <1>2, <1>7, <3>1
      <3> QED BY <1>3, <1>5, <3>1, <3>2
    <2> QED BY <1>6, <2>1
  <1>9. \A d \in awaiting : d.th # t
    BY <1>1, <1>6 DEF Waits
  <1>10. Now.how \in Resumes => pending[t] = "borrowed"
    BY <1>1, <1>3, <1>4 DEF PendingTrue, Resumed
  <1>11. ASSUME Now.how \notin Resumes
         PROVE  pending[t] = "none"
    <2>1. \A i \in DOMAIN rust : rust[i].th = t => i = n
      BY <1>2, <1>7
    <2>2. ~Resumed(t)
      BY <1>3, <1>9, <1>11, <2>1 DEF Resumed
    <2>3. pending[t] \in {"none", "idle", "borrowed"}
      BY <1>1, <1>4 DEF TypeOK
    <2> QED BY <1>1, <1>4, <1>6, <2>2, <2>3 DEF PendingTrue
  <1> QED BY <1>2, <1>3, <1>4, <1>5, <1>6, <1>7, <1>8, <1>9, <1>10, <1>11

(* An activation is pushed.                                                *)
Pushed(t, k) == frames' = [frames EXCEPT ![t] = Append(@, k)]

(* An activation on top of the lowest frame suspends its thread.           *)
LEMMA PushSuspension ==
  ASSUME CoInv, NEW t \in Threads, NEW k \in {"yield", "async"}, Depth(t) = 1, Pushed(t, k)
  PROVE  /\ frames' \in [Threads -> Seq(Kinds)]
         /\ Depth(t)' = 2 /\ frames'[t][1] = frames[t][1] /\ frames'[t][2] = k
         /\ Suspended(t)' /\ LowestDriven(t)' = 3 /\ OthersKept(t)
  <1>1. TypeOK /\ k \in Kinds
    BY DEF CoInv, Kinds
  <1>2. /\ frames' \in [Threads -> Seq(Kinds)]
        /\ Depth(t)' = 1 + 1
        /\ \A i \in 1..1 : frames'[t][i] = frames[t][i]
        /\ frames'[t][1 + 1] = k
        /\ OthersKept(t)
    BY <1>1, PushFrame DEF Pushed
  <1>3. Depth(t)' = 2 /\ frames'[t][2] = k
    BY <1>2
  <1>4. 1 \in 1..1
    OBVIOUS
  <1>5. frames'[t][1] = frames[t][1]
    BY <1>2, <1>4
  <1>6. Suspended(t)'
    BY <1>3 DEF Suspended
  <1>7. LowestDriven(t)' = 3
    BY <1>6 DEF LowestDriven
  <1> QED BY <1>2, <1>3, <1>5, <1>6, <1>7

(* A YieldFp ends the resumption.                                          *)
LEMMA YieldStep ==
  ASSUME CoInv, Yield
  PROVE  CoInv'
  <1> DEFINE n == Len(rust)
  <1>1. TypeOK /\ YieldAnswered
    BY DEF CoInv
  <1>2. Running /\ Now.how \in Resumes /\ Now.how # "call"
    BY DEF Yield, MayYield, Yieldable, Resumes
  <1>0. PICK t \in Threads : t = Now.th
    BY <1>2, RunsAlone
  <1>3. /\ n \in Nat \ {0} /\ Now = rust[n]
        /\ \A i \in 1..n-1 : rust[i].th # t
        /\ \A d \in awaiting : d.th # t
        /\ Depth(t) = 1 /\ frames[t][1] = Root(Now.how)
    BY <1>0, <1>2, RunsAlone
  <1>4. CASE yielding[t] # "none"
    <2>1. UNCHANGED <<frames, pending, leaf, rust, awaiting, abandoned, entry>>
          /\ nullci' = TRUE /\ yielding' = Taken(t)
      BY <1>0, <1>4 DEF Yield
    <2>2. Nested' /\ Waits' /\ \A u \in Threads : PendingTrue(u)'
      BY <2>1, Untouched
    <2>3. TypeOK' /\ YieldAnswered'
      BY <1>1, <2>1 DEF TypeOK, YieldAnswered, Taken, Busy
    <2> QED BY <2>2, <2>3 DEF CoInv
  <1>5. CASE yielding[t] = "none"
    <2>1. /\ frames' = [frames EXCEPT ![t] = Append(@, "yield")]
          /\ leaf' = [leaf EXCEPT ![t] = 2]
          /\ pending' = [pending EXCEPT ![t] = "idle"]
          /\ rust' = Front(rust)
          /\ UNCHANGED <<yielding, nullci, entry, awaiting, abandoned>>
      BY <1>0, <1>3, <1>5 DEF Yield
    <2>2. /\ frames' \in [Threads -> Seq(Kinds)]
          /\ Depth(t)' = 2 /\ frames'[t][1] = "body" /\ frames'[t][2] = "yield"
          /\ Suspended(t)' /\ LowestDriven(t)' = 3 /\ OthersKept(t)
      <3>1. Pushed(t, "yield") /\ Root(Now.how) = "body"
        BY <1>2, <2>1 DEF Pushed, Root
      <3>2. Depth(t) = 1 /\ frames[t][1] = "body" /\ "yield" \in {"yield", "async"}
        BY <1>3, <3>1
      <3> QED BY <3>1, <3>2, PushSuspension
    <2>3. /\ rust' \in Seq(Drives) /\ DOMAIN rust' = 1..n-1
          /\ \A i \in 1..n-1 : rust'[i] = rust[i] /\ rust[i].th # t
      <3>1. rust' = Front(rust)
        BY <2>1
      <3>2. /\ rust' \in Seq(Drives) /\ DOMAIN rust' = 1..Len(rust) - 1
            /\ \A i \in DOMAIN rust' : rust'[i] = rust[i]
        BY <1>1, <1>2, <3>1, PopDrive
      <3>3. \A i \in 1..n-1 : rust[i].th # t
        BY <1>3
      <3> HIDE <1>3
      <3>4. \A i \in 1..n-1 : rust'[i] = rust[i]
        BY <3>2
      <3> QED BY <3>2, <3>3, <3>4
    <2>4. n-1 \in 0..Len(rust) /\ \A i \in (n-1)+1..Len(rust) : rust[i].th = t
      BY <1>0, <1>3
    <2>5. PendingTrue(t)'
      <3>1. ~Resumed(t)'
        BY <1>3, <2>1, <2>3 DEF Resumed
      <3>2. pending'[t] = "idle" /\ leaf'[t] = 2
        BY <1>1, <1>3, <2>1 DEF TypeOK
      <3> QED BY <2>2, <3>1, <3>2 DEF PendingTrue
    <2>6. /\ awaiting' \subseteq Drives /\ abandoned' \subseteq Threads
          /\ yielding' \in [Threads -> {"none", "args"}]
          /\ YieldAnswered'
      BY <1>1, <2>1 DEF TypeOK, YieldAnswered
    <2>7. /\ \A d \in awaiting' : d.th # t
          /\ \A d \in Drives : d.th # t => (d \in awaiting' <=> d \in awaiting)
          /\ abandoned \subseteq abandoned' /\ UNCHANGED <<entry, nullci>>
      BY <1>3, <2>1
    <2>8. Depth(t)' \in Nat /\ Depth(t)' < LowestDriven(t)'
      BY <2>2
    <2> HIDE DEF n
    <2> QED BY <1>3, <2>1, <2>2, <2>3, <2>4, <2>5, <2>6, <2>7, <2>8, FreeStep
  <1> QED BY <1>4, <1>5

(* An AsyncFp that is not ready suspends a future, and ends a resumption   *)
(* that finds a number in yielding.                                        *)
LEMMA AwaitStep ==
  ASSUME CoInv, Await
  PROVE  CoInv'
  <1>1. TypeOK /\ YieldAnswered
    BY DEF CoInv
  <1>2. Running /\ Now.how \in Async /\ Now.how # "call"
    BY DEF Await, Async
  <1>3. PICK t \in Threads : t = Now.th
    BY <1>2, RunsAlone
  <1>4. /\ Now \in Drives /\ Now.base = 1
        /\ Len(rust) = 1
        /\ rust[1].th = t
        /\ \A d \in awaiting : d.th # t
        /\ Depth(t) = 1 /\ frames[t][1] = Root(Now.how)
        /\ Now.how \in Resumes => pending[t] = "borrowed"
        /\ Now.how \notin Resumes => pending[t] = "none"
    BY <1>2, <1>3, RunsAlone
  <1>5. PICK d : d = Now
    OBVIOUS
  <1> DEFINE reported == d.how \in Resumes /\ yielding[t] # "none"
  <1>6. d.how \in Resumes <=> d.how = "async_resume"
    BY <1>2, <1>5 DEF Async, Resumes
  <1>7. /\ Pushed(t, "async")
        /\ leaf' = [leaf EXCEPT ![t] = 2]
        /\ awaiting' = IF reported THEN awaiting ELSE awaiting \cup {d}
        /\ pending' = IF reported THEN [pending EXCEPT ![t] = "idle"] ELSE pending
        /\ yielding' = IF reported THEN Taken(t) ELSE yielding
        /\ rust' = <<>>
        /\ UNCHANGED <<entry, nullci, abandoned>>
    BY <1>3, <1>4, <1>5, <1>6 DEF Await, Pushed
  <1>8. /\ frames' \in [Threads -> Seq(Kinds)]
        /\ Depth(t)' = 2 /\ frames'[t][1] = Root(d.how) /\ frames'[t][2] = "async"
        /\ Suspended(t)' /\ LowestDriven(t)' = 3 /\ OthersKept(t)
    <2>1. Depth(t) = 1 /\ frames[t][1] = Root(d.how) /\ "async" \in {"yield", "async"}
      BY <1>4, <1>5
    <2> QED BY <1>7, <2>1, PushSuspension
  <1>9. rust' \in Seq(Drives) /\ DOMAIN rust' = 1..0 /\ 0 \in 0..Len(rust)
    BY <1>4, <1>7, EmptySeq, LenProperties
  <1>10. \A i \in 0+1..Len(rust) : rust[i].th = t
    BY <1>4
  <1>11. PICK p \in {"none", "idle", "borrowed"} :
            /\ pending' = [pending EXCEPT ![t] = p]
            /\ p = IF reported THEN "idle" ELSE pending[t]
    BY <1>1, <1>7 DEF TypeOK
  <1>12. pending'[t] = p /\ leaf'[t] = 2
    BY <1>1, <1>7, <1>11 DEF TypeOK
  <1>13. \A e \in awaiting' : e.th = t => e = d
    BY <1>4, <1>7
  <1>14. PendingTrue(t)'
    <2>1. Resumed(t)' <=> d.how \in Resumes /\ ~reported
      <3>1. \A i \in DOMAIN rust' : FALSE
        BY <1>9
      <3>2. d.th = t
        BY <1>3, <1>5
      <3> QED BY <1>4, <1>7, <1>13, <3>1, <3>2 DEF Resumed
    <2>2. CASE reported
      <3>1. t \in abandoned'
        BY <1>1, <1>7, <2>2 DEF YieldAnswered
      <3> QED BY <1>8, <1>11, <1>12, <2>1, <2>2, <3>1 DEF PendingTrue, Root
    <2>3. CASE ~reported /\ d.how \in Resumes
      BY <1>4, <1>5, <1>8, <1>11, <1>12, <2>1, <2>3 DEF PendingTrue, Root
    <2>4. CASE d.how \notin Resumes
      BY <1>4, <1>5, <1>8, <1>11, <1>12, <2>1, <2>4 DEF PendingTrue, Root
    <2> QED BY <2>2, <2>3, <2>4
  <1>15. /\ awaiting' \subseteq Drives /\ abandoned' \subseteq Threads
         /\ yielding' \in [Threads -> {"none", "args"}]
         /\ YieldAnswered'
    BY <1>1, <1>4, <1>5, <1>7 DEF TypeOK, YieldAnswered, Taken
  <1>16. /\ \A e \in awaiting' : e.th = t =>
              /\ e.how \in Async /\ e.base = 1 /\ Suspended(t)' /\ leaf'[t] = 2
              /\ frames'[t][1] = Root(e.how) /\ frames'[t][2] = "async"
         /\ \A e \in Drives : e.th # t => (e \in awaiting' <=> e \in awaiting)
         /\ abandoned \subseteq abandoned' /\ UNCHANGED <<entry, nullci>>
    BY <1>2, <1>3, <1>4, <1>5, <1>7, <1>8, <1>12, <1>13
  <1>17. Depth(t)' \in Nat /\ Depth(t)' < LowestDriven(t)'
    BY <1>8
  <1>18. \A i \in 1..0 : FALSE
    OBVIOUS
  <1>19. frames'[t][1] \in {"body", "call"}
    BY <1>8 DEF Root
  <1> QED BY <1>7, <1>8, <1>9, <1>10, <1>11, <1>14, <1>15, <1>16, <1>17, <1>18, <1>19, FreeStep

(* resume of a coroutine that was left in an AsyncFp takes it to its end.  *)
LEMMA ResumeDroppedStep ==
  ASSUME CoInv, ~ResumesCalled, NEW t \in Threads, ResumeDropped(t)
  PROVE  CoInv'
  <1>1. TypeOK /\ YieldAnswered /\ PendingTrue(t)
    BY DEF CoInv
  <1>2. /\ leaf[t] = 2 /\ frames[t][leaf[t]] = "async" /\ pending[t] = "idle"
        /\ \A i \in DOMAIN rust : rust[i].th # t
        /\ \A d \in awaiting : d.th # t
    BY IdleFree DEF ResumeDropped, Resumable
  <1>3. /\ frames' = [frames EXCEPT ![t] = <<>>]
        /\ pending' = [pending EXCEPT ![t] = "none"]
        /\ yielding' = [yielding EXCEPT ![t] = "args"]
        /\ UNCHANGED <<entry, leaf, rust, awaiting, nullci, abandoned>>
    BY DEF ResumeDropped
  <1>4. /\ frames' \in [Threads -> Seq(Kinds)]
        /\ Depth(t)' = 0 /\ OthersKept(t)
    <2>1. frames' \in [Threads -> Seq(Kinds)] /\ frames'[t] = <<>>
      BY <1>1, <1>3, Lengths, EmptySeq
    <2>2. OthersKept(t)
      BY <1>1, <1>3, Lengths DEF OthersKept
    <2> QED BY <2>1, <2>2, EmptySeq DEF Depth
  <1>5. ~Suspended(t)' /\ LowestDriven(t)' = 1
    BY <1>4 DEF Suspended, LowestDriven
  <1>6. /\ rust' \in Seq(Drives) /\ DOMAIN rust' = 1..Len(rust)
        /\ \A i \in 1..Len(rust) : rust'[i] = rust[i] /\ rust[i].th # t
        /\ Len(rust) \in 0..Len(rust) /\ \A i \in Len(rust)+1..Len(rust) : rust[i].th = t
    BY <1>1, <1>2, <1>3, Lengths DEF TypeOK
  <1>7. PendingTrue(t)'
    <2>1. ~Resumed(t)'
      BY <1>2, <1>3 DEF Resumed
    <2>2. pending'[t] = "none"
      BY <1>1, <1>3 DEF TypeOK
    <2> QED BY <1>5, <2>1, <2>2 DEF PendingTrue
  <1>8. t \in abandoned
    BY <1>1, <1>2 DEF PendingTrue
  <1>9. /\ awaiting' \subseteq Drives /\ abandoned' \subseteq Threads
        /\ yielding' \in [Threads -> {"none", "args"}]
        /\ YieldAnswered'
        /\ leaf[t] \in Nat /\ leaf' = [leaf EXCEPT ![t] = leaf[t]]
    BY <1>1, <1>3, <1>8 DEF TypeOK, YieldAnswered
  <1>10. /\ \A d \in awaiting' : d.th # t
         /\ \A d \in Drives : d.th # t => (d \in awaiting' <=> d \in awaiting)
         /\ abandoned \subseteq abandoned' /\ UNCHANGED <<entry, nullci>>
    BY <1>2, <1>3
  <1>11. Depth(t)' \in Nat /\ Depth(t)' < LowestDriven(t)'
    BY <1>4, <1>5
  <1> QED BY <1>3, <1>4, <1>6, <1>7, <1>9, <1>10, <1>11, FreeStep

(* An executor drops a future that waits.                                  *)
LEMMA DropFutureStep ==
  ASSUME CoInv, NEW d \in awaiting, DropFuture(d)
  PROVE  CoInv'
  <1>1. TypeOK /\ YieldAnswered /\ Nested /\ \A u \in Threads : PendingTrue(u)
    BY DEF CoInv
  <1>2. PICK t \in Threads : t = d.th
    BY WaitsAlone
  <1>3. /\ d.how \in Async
        /\ Depth(t) \in Nat /\ Depth(t) >= 2 /\ leaf[t] = 2
        /\ frames[t][1] = Root(d.how) /\ frames[t][2] = "async"
        /\ \A e \in awaiting : e.th = t => e = d
        /\ d.how \in Resumes => pending[t] = "borrowed"
        /\ d.how \notin Resumes /\ ~Running => pending[t] = "none"
    BY <1>2, WaitsAlone
  <1>4. d.how \in Resumes <=> d.how = "async_resume"
    BY <1>3 DEF Async, Resumes
  <1>5. /\ ~Running /\ awaiting' = awaiting \ {d}
        /\ UNCHANGED <<entry, frames, leaf, yielding, rust, nullci>>
        /\ pending' = IF d.how \in Resumes THEN [pending EXCEPT ![t] = "idle"] ELSE pending
        /\ abandoned' = IF d.how \in Resumes THEN abandoned \cup {t} ELSE abandoned
    BY <1>2, <1>4 DEF DropFuture, Dropped
  <1>6. Len(rust) = 0 /\ DOMAIN rust = 1..0
    BY <1>1, <1>5, Lengths DEF Running
  <1>7. /\ Depth(t)' = Depth(t) /\ Suspended(t)' /\ LowestDriven(t)' = 3
        /\ LowestDriven(t) = 3 /\ OthersKept(t)
    BY <1>3, <1>5 DEF Suspended, LowestDriven, Depth, OthersKept
  <1>8. Depth(t) = 2
    <2>1. \A b \in 3..Depth(t) : FALSE
      BY <1>1, <1>6, <1>7 DEF Nested
    <2> QED BY <1>3, <2>1
  <1>9. PICK p \in {"none", "idle", "borrowed"} :
           /\ pending' = [pending EXCEPT ![t] = p]
           /\ p = IF d.how \in Resumes THEN "idle" ELSE "none"
    BY <1>1, <1>3, <1>5 DEF TypeOK
  <1>10. PendingTrue(t)'
    <2>1. \A i \in DOMAIN rust' : FALSE
      BY <1>5, <1>6
    <2>2. ~Resumed(t)'
      BY <1>3, <1>5, <2>1 DEF Resumed
    <2>3. pending'[t] = p
      BY <1>1, <1>9 DEF TypeOK
    <2>4. CASE d.how \in Resumes
      BY <1>3, <1>5, <1>7, <1>9, <2>2, <2>3, <2>4 DEF PendingTrue, Root
    <2>5. CASE d.how \notin Resumes
      BY <1>3, <1>5, <1>7, <1>9, <2>2, <2>3, <2>5 DEF PendingTrue, Root
    <2> QED BY <2>4, <2>5
  <1>11. /\ awaiting' \subseteq Drives /\ abandoned' \subseteq Threads
         /\ yielding' \in [Threads -> {"none", "args"}]
         /\ YieldAnswered'
         /\ leaf[t] \in Nat /\ leaf' = [leaf EXCEPT ![t] = leaf[t]]
         /\ rust' \in Seq(Drives) /\ frames' \in [Threads -> Seq(Kinds)]
    BY <1>1, <1>5, Lengths DEF TypeOK, YieldAnswered
  <1>12. /\ \A e \in awaiting' : e.th # t
         /\ \A e \in Drives : e.th # t => (e \in awaiting' <=> e \in awaiting)
         /\ abandoned \subseteq abandoned' /\ UNCHANGED <<entry, nullci>>
    BY <1>2, <1>3, <1>5
  <1>13. Depth(t)' \in Nat /\ Depth(t)' < LowestDriven(t)'
    BY <1>7, <1>8
  <1>14. frames'[t][1] \in {"body", "call"}
    BY <1>3, <1>5 DEF Root
  <1>15. /\ 0 \in 0..Len(rust) /\ DOMAIN rust' = 1..0
         /\ \A i \in 1..0 : FALSE
         /\ \A i \in 0+1..Len(rust) : rust[i].th = t
    BY <1>5, <1>6
  <1> QED BY <1>7, <1>9, <1>10, <1>11, <1>12, <1>13, <1>14, <1>15, FreeStep

(* What runs returns: a call leaves the frames below its own.              *)
LEMMA ReturnFromCall ==
  ASSUME CoInv, Return, Now.how = "call"
  PROVE  CoInv'
  <1> DEFINE n == Len(rust)
             b == Now.base
  <1>1. TypeOK /\ Nested /\ Waits /\ YieldAnswered /\ \A u \in Threads : PendingTrue(u)
    BY DEF CoInv
  <1>2. Running /\ rust' = Front(rust)
    BY DEF Return
  <1>3. /\ rust' \in Seq(Drives)
        /\ n \in Nat \ {0} /\ DOMAIN rust = 1..n /\ DOMAIN rust' = 1..n - 1
        /\ \A i \in DOMAIN rust' : rust'[i] = rust[i]
        /\ Now = rust[n] /\ Now \in Drives
    BY <1>1, <1>2, PopDrive
  <1>4. PICK t \in Threads : t = Now.th
    BY <1>3 DEF Drives
  <1>5. rust[n].th = t /\ rust[n].how = "call" /\ rust[n].base = b /\ n \in DOMAIN rust
    BY <1>3, <1>4
  <1>6. \A u \in Threads : Depth(u) \in Nat
    BY <1>1, Lengths
  <1>7. LowestDriven(t) \in {1, 3} /\ b \in LowestDriven(t)..Depth(t)
    BY <1>1, <1>5 DEF Nested, LowestDriven
  <1>8. b \in Nat /\ 1 <= b /\ b <= Depth(t) /\ LowestDriven(t) <= b
    BY <1>6, <1>7
  <1>9. \A i \in 1..n-1 : rust[i].th = t => rust[i].base < b
    BY <1>1, <1>3, <1>5 DEF Nested
  <1>10. b = Depth(t)
    <2> SUFFICES ASSUME b < Depth(t)
                 PROVE  FALSE
      BY <1>6, <1>8
    <2>1. Depth(t) \in LowestDriven(t)..Depth(t)
      BY <1>6, <1>7, <1>8
    <2>2. PICK i \in DOMAIN rust : rust[i].th = t /\ rust[i].base = Depth(t)
      BY <1>1, <2>1 DEF Nested
    <2>3. CASE i = n
      BY <1>5, <1>6, <2>2, <2>3
    <2>4. CASE i \in 1..n-1
      BY <1>6, <1>8, <1>9, <2>2, <2>4
    <2> QED BY <1>3, <2>3, <2>4
  <1>11. frames' = [frames EXCEPT ![t] = SubSeq(@, 1, b - 1)] /\ b - 1 \in 0..Depth(t)
    BY <1>4, <1>8, <1>10 DEF Return, Left
  <1>12. /\ frames' \in [Threads -> Seq(Kinds)]
         /\ Depth(t)' = b - 1
         /\ \A i \in 1..b-1 : frames'[t][i] = frames[t][i]
         /\ OthersKept(t)
    BY <1>1, <1>11, CutFrames
  <1>13. UNCHANGED <<entry, pending, leaf, yielding, awaiting, nullci, abandoned>>
    BY DEF Return, Finished, Yieldable
  <1> HIDE DEF n, b
  <1>14. Suspended(t)' <=> Suspended(t)
    <2>1. CASE Suspended(t)
      <3>1. b >= 3
        BY <1>8, <2>1 DEF LowestDriven
      <3>2. Depth(t)' >= 2 /\ frames'[t][2] = frames[t][2]
        BY <1>8, <1>12, <3>1
      <3> QED BY <2>1, <3>2 DEF Suspended
    <2>2. CASE ~Suspended(t)
      <3>1. CASE b - 1 < 2
        BY <1>8, <1>12, <2>2, <3>1 DEF Suspended
      <3>2. CASE b - 1 >= 2
        <4>1. frames'[t][2] = frames[t][2] /\ Depth(t) >= 2
          BY <1>6, <1>8, <1>12, <3>2
        <4> QED BY <2>2, <4>1 DEF Suspended
      <3> QED BY <1>8, <3>1, <3>2
    <2> QED BY <2>1, <2>2
  <1>15. LowestDriven(t)' = LowestDriven(t)
    BY <1>14 DEF LowestDriven
  <1>16. \A u \in Threads : u # t =>
            /\ frames'[u] = frames[u]
            /\ Depth(u)' = Depth(u)
            /\ Suspended(u)' <=> Suspended(u)
            /\ LowestDriven(u)' = LowestDriven(u)
    BY <1>12, OthersAsBefore
  <1>17. TypeOK'
    <2>1. Depth(t)' # 0 => frames'[t][1] \in {"body", "call"}
      <3> SUFFICES ASSUME b - 1 # 0
                   PROVE  frames'[t][1] \in {"body", "call"}
        BY <1>12
      <3>1. 1 \in 1..b-1
        BY <1>8
      <3>2. frames[t][1] \in {"body", "call"}
        BY <1>1, <1>8, <1>10, Lengths
      <3> QED BY <1>12, <3>1, <3>2
    <2> QED BY <1>1, <1>3, <1>12, <1>13, <2>1, FramesType DEF TypeOK
  <1>18. Nested'
    <2>1. ASSUME NEW u \in Threads, NEW i \in DOMAIN rust', rust'[i].th = u
          PROVE  /\ rust'[i].base \in LowestDriven(u)'..Depth(u)'
                 /\ frames'[u][rust'[i].base] = Root(rust'[i].how)
      <3>1. /\ i \in DOMAIN rust /\ i \in 1..n-1 /\ rust'[i] = rust[i]
            /\ rust[i].th = u
        BY <1>3, <2>1
      <3>2. /\ rust[i].base \in LowestDriven(u)..Depth(u)
            /\ frames[u][rust[i].base] = Root(rust[i].how)
        BY <1>1, <3>1 DEF Nested
      <3>3. CASE u # t
        BY <1>16, <3>1, <3>2, <3>3
      <3>4. CASE u = t
        <4>1. rust[i].base < b
          BY <1>9, <3>1, <3>4
        <4>2. rust[i].base \in LowestDriven(t)..b-1 /\ rust[i].base \in 1..b-1
          BY <1>7, <1>8, <1>10, <3>2, <3>4, <4>1
        <4> QED BY <1>12, <1>15, <3>1, <3>2, <3>4, <4>2
      <3> QED BY <3>3, <3>4
    <2>2. ASSUME NEW i \in DOMAIN rust'
          PROVE  /\ rust'[i].how # "call" => rust'[i].base = 1
                 /\ rust'[i].how \in Async => i = 1
      BY <1>1, <1>3 DEF Nested
    <2>3. ASSUME NEW i \in DOMAIN rust', NEW j \in DOMAIN rust', i < j, rust'[i].th = rust'[j].th
          PROVE  rust'[i].base < rust'[j].base
      BY <1>1, <1>3, <2>3 DEF Nested
    <2>4. ASSUME NEW u \in Threads, NEW c \in LowestDriven(u)'..Depth(u)'
          PROVE  \E i \in DOMAIN rust' : rust'[i].th = u /\ rust'[i].base = c
      <3>1. c \in LowestDriven(u)..Depth(u) /\ (u = t => c < b)
        <4>1. CASE u = t
          BY <1>7, <1>8, <1>10, <1>12, <1>15, <4>1
        <4>2. CASE u # t
          BY <1>16, <4>2
        <4> QED BY <4>1, <4>2
      <3>2. PICK i \in DOMAIN rust : rust[i].th = u /\ rust[i].base = c
        BY <1>1, <3>1 DEF Nested
      <3>3. i # n
        BY <1>5, <1>8, <3>1, <3>2
      <3>4. i \in DOMAIN rust'
        BY <1>3, <3>3
      <3> QED BY <1>3, <3>2, <3>4
    <2> QED BY <2>1, <2>2, <2>3, <2>4 DEF Nested
  <1>19. \A u \in Threads : Suspended(u) => frames'[u][1] = frames[u][1] /\ frames'[u][2] = frames[u][2]
    <2>1. ASSUME Suspended(t)
          PROVE  frames'[t][1] = frames[t][1] /\ frames'[t][2] = frames[t][2]
      <3>1. b >= 3
        BY <1>8, <2>1 DEF LowestDriven
      <3> QED BY <1>8, <1>12, <3>1
    <2> QED BY <1>16, <2>1
  <1>20. \A u \in Threads : Suspended(u)' <=> Suspended(u)
    BY <1>14, <1>16
  <1>21. Waits'
    <2>1. \A d \in awaiting : d.th \in Threads
      BY <1>1, Lengths
    <2> QED BY <1>1, <1>13, <1>19, <1>20, <2>1 DEF Waits
  <1>22. \A u \in Threads : PendingTrue(u)'
    <2> SUFFICES ASSUME NEW u \in Threads
                 PROVE  PendingTrue(u)'
      OBVIOUS
    <2>1. Resumed(u)' <=> Resumed(u)
      <3>1. (\E i \in DOMAIN rust' : rust'[i].th = u /\ rust'[i].how \in Resumes)
            <=> (\E i \in DOMAIN rust : rust[i].th = u /\ rust[i].how \in Resumes)
        BY <1>3, <1>5 DEF Resumes
      <3> QED BY <1>13, <3>1 DEF Resumed
    <2>2. PendingTrue(u)
      BY <1>1
    <2> QED BY <1>13, <1>19, <1>20, <2>1, <2>2 DEF PendingTrue
  <1>23. YieldAnswered'
    BY <1>1, <1>13 DEF YieldAnswered
  <1> QED BY <1>17, <1>18, <1>21, <1>22, <1>23 DEF CoInv

(* A resumption or a future that ends leaves nothing behind.               *)
LEMMA ReturnToRust ==
  ASSUME CoInv, Return, Now.how # "call"
  PROVE  CoInv'
  <1> DEFINE n == Len(rust)
  <1>1. TypeOK /\ YieldAnswered
    BY DEF CoInv
  <1>2. Running /\ rust' = Front(rust)
    BY DEF Return
  <1>3. PICK t \in Threads : t = Now.th
    BY <1>2, RunsAlone
  <1>4. /\ Now.base = 1
        /\ n \in Nat \ {0} /\ Now = rust[n]
        /\ \A i \in 1..n-1 : rust[i].th # t
        /\ \A d \in awaiting : d.th # t
        /\ Depth(t) = 1
        /\ Now.how \notin Resumes => pending[t] = "none"
    BY <1>2, <1>3, RunsAlone
  <1>5. /\ rust' \in Seq(Drives) /\ DOMAIN rust' = 1..n-1
        /\ \A i \in DOMAIN rust' : rust'[i] = rust[i]
    BY <1>1, <1>2, PopDrive
  <1>6. frames' = [frames EXCEPT ![t] = SubSeq(@, 1, 0)] /\ 0 \in 0..Depth(t)
    BY <1>3, <1>4 DEF Return, Left
  <1>7. /\ frames' \in [Threads -> Seq(Kinds)]
        /\ Depth(t)' = 0 /\ OthersKept(t)
    BY <1>1, <1>6, CutFrames
  <1>8. ~Suspended(t)' /\ LowestDriven(t)' = 1
    BY <1>7 DEF Suspended, LowestDriven
  <1>9. pending' = [pending EXCEPT ![t] = "none"]
    BY <1>1, <1>3, <1>4 DEF Return, Finished, Yieldable, Resumes, TypeOK
  <1>10. UNCHANGED <<entry, leaf, yielding, awaiting, nullci, abandoned>>
    BY DEF Return
  <1>11. \A i \in 1..n-1 : rust'[i] = rust[i] /\ rust[i].th # t
    <2>1. \A i \in 1..n-1 : rust'[i] = rust[i]
      BY <1>5
    <2> QED BY <1>4, <2>1
  <1>12. n-1 \in 0..Len(rust) /\ \A i \in (n-1)+1..Len(rust) : rust[i].th = t
    BY <1>3, <1>4
  <1>13. PendingTrue(t)'
    <2>1. ~Resumed(t)'
      BY <1>4, <1>5, <1>10, <1>11 DEF Resumed
    <2>2. pending'[t] = "none"
      BY <1>1, <1>9 DEF TypeOK
    <2> QED BY <1>8, <2>1, <2>2 DEF PendingTrue
  <1>14. /\ awaiting' \subseteq Drives /\ abandoned' \subseteq Threads
         /\ yielding' \in [Threads -> {"none", "args"}]
         /\ YieldAnswered'
         /\ leaf[t] \in Nat /\ leaf' = [leaf EXCEPT ![t] = leaf[t]]
    BY <1>1, <1>10 DEF TypeOK, YieldAnswered
  <1>15. /\ \A d \in awaiting' : d.th # t
         /\ \A d \in Drives : d.th # t => (d \in awaiting' <=> d \in awaiting)
         /\ abandoned \subseteq abandoned' /\ UNCHANGED <<entry, nullci>>
    BY <1>4, <1>10
  <1>16. Depth(t)' \in Nat /\ Depth(t)' < LowestDriven(t)'
    BY <1>7, <1>8
  <1> HIDE DEF n
  <1> QED BY <1>5, <1>7, <1>9, <1>11, <1>12, <1>13, <1>14, <1>15, <1>16, FreeStep

-----------------------------------------------------------------------------
(* The invariant.                                                          *)

(* No thread has frames and nothing runs: the invariant holds at first.   *)
LEMMA Initially == Init => CoInv
  <1> SUFFICES ASSUME Init
               PROVE  CoInv
    OBVIOUS
  <1>1. /\ \A t \in Threads : frames[t] = <<>> /\ pending[t] = "none" /\ yielding[t] = "none"
        /\ rust = <<>> /\ awaiting = {} /\ Len(<<>>) = 0
    BY EmptySeq DEF Init
  <1>2. TypeOK
    BY EmptySeq DEF Init, TypeOK, Busy
  <1>3. DOMAIN rust = 1..0
    BY <1>1, <1>2, Lengths
  <1>4. \A t \in Threads : Depth(t) = 0 /\ ~Suspended(t) /\ LowestDriven(t) = 1
    BY <1>1 DEF Depth, Suspended, LowestDriven
  <1>5. Nested
    BY <1>3, <1>4 DEF Nested
  <1>6. Waits /\ YieldAnswered
    BY <1>1 DEF Waits, YieldAnswered
  <1>7. \A t \in Threads : PendingTrue(t)
    BY <1>1, <1>3, <1>4 DEF PendingTrue, Resumed
  <1> QED BY <1>2, <1>5, <1>6, <1>7 DEF CoInv

(* Every step of the program, the coroutines and the executor keeps it.    *)
LEMMA Step ==
  ASSUME CoInv, ~ResumesCalled, [Next]_vars
  PROVE  CoInv'
  <1>1. CASE Next
    <2>1. ASSUME NEW t \in Threads, SetEntry(t)
          PROVE  CoInv'
      BY <2>1, SetEntryStep
    <2>2. ASSUME NEW t \in Threads, Call(t)
          PROVE  CoInv'
      BY <2>2, CallStep
    <2>3. ASSUME NEW t \in Threads, AsyncCall(t)
          PROVE  CoInv'
      BY <2>3, AsyncCallStep
    <2>4. ASSUME NEW t \in Threads, ResumeDropped(t)
          PROVE  CoInv'
      BY <2>4, ResumeDroppedStep
    <2>5. ASSUME NEW t \in Threads, ResumeReady(t)
          PROVE  CoInv'
      BY <2>5, ResumeReadyStep
    <2>6. ASSUME NEW t \in Threads, ResumeUnready(t)
          PROVE  CoInv'
      BY <2>6, ResumeUnreadyStep
    <2>7. ASSUME NEW t \in Threads, NEW how \in Resumes, Start(t, how)
          PROVE  CoInv'
      BY <2>7, StartOfBody
    <2>8. ASSUME NEW t \in Threads, NEW how \in Resumes, Resume(t, how)
          PROVE  CoInv'
      BY <2>8, ResumeStep
    <2>9. CASE Yield
      BY <2>9, YieldStep
    <2>10. CASE Await
      BY <2>10, AwaitStep
    <2>11. CASE Return
      BY <2>11, ReturnFromCall, ReturnToRust
    <2>12. ASSUME NEW d \in awaiting, Wake(d)
           PROVE  CoInv'
      BY <2>12, WakeStep
    <2>13. ASSUME NEW d \in awaiting, DropFuture(d)
           PROVE  CoInv'
      BY <2>13, DropFutureStep
    <2> QED BY <1>1, <2>1, <2>2, <2>3, <2>4, <2>5, <2>6, <2>7, <2>8, <2>9, <2>10, <2>11,
               <2>12, <2>13 DEF Next, Resumes
  <1>2. CASE UNCHANGED vars
    <2>1. Nested' /\ Waits' /\ \A u \in Threads : PendingTrue(u)'
      BY <1>2, Untouched DEF vars, thread
    <2>2. TypeOK' /\ YieldAnswered'
      BY <1>2 DEF CoInv, TypeOK, YieldAnswered, vars, thread, Busy
    <2> QED BY <2>1, <2>2 DEF CoInv
  <1> QED BY <1>1, <1>2

(* Every frame of every stack belongs to a suspension or to exactly one    *)
(* drive, in their order, and pending, leaf and the waiting futures agree  *)
(* with the frames, in all that programs do with set_entry, call, resume,  *)
(* async_call, async_resume, yields and dropped futures, if they do not    *)
(* resume a thread out of a call on it.                                    *)
THEOREM Invariant == ASSUME ~ResumesCalled PROVE Spec => []CoInv
  <1>1. Init => CoInv
    BY Initially
  <1>2. CoInv /\ [Next]_vars => CoInv'
    BY Step
  <1> QED BY <1>1, <1>2, PTL DEF Spec

-----------------------------------------------------------------------------
(* What follows.                                                           *)

(* A drive's frame is among the frames, of its kind, below the later ones. *)
LEMMA IntactFrames == CoInv => FramesIntact
  <1> SUFFICES ASSUME CoInv
               PROVE  FramesIntact
    OBVIOUS
  <1>1. TypeOK /\ Nested /\ Waits /\ \A t \in Threads : PendingTrue(t)
    BY DEF CoInv
  <1>2. \A t \in Threads :
          Depth(t) \in Nat /\ DOMAIN frames[t] = 1..Depth(t) /\ LowestDriven(t) \in {1, 3}
    BY <1>1, Lengths, LenProperties DEF Depth, LowestDriven
  <1>3. ASSUME NEW i \in DOMAIN rust
        PROVE  /\ rust[i].base \in DOMAIN frames[rust[i].th]
               /\ frames[rust[i].th][rust[i].base]
                    = IF rust[i].how \in {"call", "async_call"} THEN "call" ELSE "body"
               /\ \A j \in i+1..Len(rust) : rust[j].th = rust[i].th => rust[j].base > rust[i].base
    <2>1. PICK t \in Threads : t = rust[i].th
      BY <1>1, Lengths
    <2>2. rust[i].base \in LowestDriven(t)..Depth(t) /\ frames[t][rust[i].base] = Root(rust[i].how)
      BY <1>1, <2>1 DEF Nested
    <2>3. rust[i].base \in DOMAIN frames[t]
      BY <1>2, <2>2
    <2>4. rust[i].how \in {"call", "async_call", "resume", "async_resume"}
      BY <1>1, Lengths DEF Drives
    <2>5. frames[t][rust[i].base] = IF rust[i].how \in {"call", "async_call"} THEN "call" ELSE "body"
      BY <2>2, <2>4 DEF Root, Resumes
    <2>6. ASSUME NEW j \in i+1..Len(rust), rust[j].th = rust[i].th
          PROVE  rust[j].base > rust[i].base
      <3>1. j \in DOMAIN rust /\ i < j
        BY <1>1, Lengths
      <3>2. rust[i].base < rust[j].base /\ rust[i].base \in Nat /\ rust[j].base \in Nat
        BY <1>1, <2>6, <3>1, Lengths DEF Nested
      <3> QED BY <3>2
    <2> QED BY <2>1, <2>3, <2>5, <2>6
  <1>4. ASSUME NEW t \in Threads, pending[t] = "idle"
        PROVE  leaf[t] \in DOMAIN frames[t] /\ frames[t][leaf[t]] \in {"yield", "async"}
    BY <1>1, <1>2, <1>4 DEF PendingTrue, Suspended
  <1>5. ASSUME NEW d \in awaiting
        PROVE  leaf[d.th] \in DOMAIN frames[d.th] /\ frames[d.th][leaf[d.th]] = "async"
    <2>1. d.th \in Threads /\ Suspended(d.th) /\ leaf[d.th] = 2 /\ frames[d.th][2] = "async"
      BY <1>1, Lengths DEF Waits
    <2> QED BY <1>2, <2>1 DEF Suspended
  <1> QED BY <1>3, <1>4, <1>5 DEF FramesIntact

(* Two resumptions would start from the same frame.                        *)
LEMMA OneResumption == CoInv => ResumedOnce
  <1> SUFFICES ASSUME CoInv, NEW t \in Threads
               PROVE  LET active == {i \in DOMAIN rust :
                                       rust[i].th = t /\ rust[i].how \in {"resume", "async_resume"}}
                          waiting == {d \in awaiting : d.th = t /\ d.how = "async_resume"}
                      IN  /\ Cardinality(active) + Cardinality(waiting) <= 1
                          /\ pending[t] = "borrowed" <=> active \cup waiting # {}
    BY DEF ResumedOnce
  <1> DEFINE active == {i \in DOMAIN rust :
                          rust[i].th = t /\ rust[i].how \in {"resume", "async_resume"}}
             waiting == {d \in awaiting : d.th = t /\ d.how = "async_resume"}
  <1>1. TypeOK /\ Nested /\ Waits /\ PendingTrue(t)
    BY DEF CoInv
  <1>2. \A d \in awaiting : d.how \in Resumes => d.how = "async_resume"
    BY <1>1 DEF Waits, Async, Resumes
  <1>3. pending[t] = "borrowed" <=> active \cup waiting # {}
    BY <1>1, <1>2 DEF PendingTrue, Resumed, Resumes
  <1>4. ASSUME NEW i \in active
        PROVE  active = {i} /\ waiting = {}
    <2>1. rust[i].th = t /\ rust[i].how # "call" /\ rust[i].base = 1 /\ i \in DOMAIN rust
      BY <1>1 DEF Nested
    <2>2. ASSUME NEW j \in active
          PROVE  j = i
      <3>1. rust[j].th = t /\ rust[j].base = 1 /\ j \in DOMAIN rust
        BY <1>1 DEF Nested
      <3>2. ~(i < j) /\ ~(j < i)
        BY <1>1, <2>1, <3>1 DEF Nested
      <3>3. i \in Nat /\ j \in Nat
        BY <1>1, <2>1, <3>1, Lengths
      <3> QED BY <3>2, <3>3
    <2>3. ~Suspended(t)
      BY <1>1, <2>1 DEF Nested, LowestDriven
    <2>4. waiting = {}
      BY <1>1, <2>3 DEF Waits
    <2> QED BY <2>2, <2>4
  <1>5. ASSUME NEW d \in waiting
        PROVE  waiting = {d}
    BY <1>5, WaitsAlone
  <1>6. Cardinality({}) = 0 /\ \A x : Cardinality({x}) = 1
    BY FS_EmptySet, FS_Singleton
  <1>7. Cardinality(active) + Cardinality(waiting) <= 1
    <2> HIDE DEF active, waiting
    <2>1. CASE active = {} /\ waiting = {}
      BY <1>6, <2>1
    <2>2. CASE active # {}
      <3>1. PICK i \in active : active = {i} /\ waiting = {}
        BY <1>4, <2>2
      <3>2. Cardinality(active) = 1 /\ Cardinality(waiting) = 0
        BY <1>6, <3>1
      <3> QED BY <3>2
    <2>3. CASE active = {} /\ waiting # {}
      <3>1. PICK d \in waiting : waiting = {d}
        BY <1>5, <2>3
      <3>2. Cardinality(active) = 0 /\ Cardinality(waiting) = 1
        BY <1>6, <2>3, <3>1
      <3> QED BY <3>2
    <2> QED BY <2>1, <2>2, <2>3
  <1> QED BY <1>3, <1>7

(* What auxstatus looks at determines who drives the thread.               *)
LEMMA TrueStatus == CoInv => StatusTrue
  <1> SUFFICES ASSUME CoInv, NEW t \in Threads
               PROVE  LET active == \E i \in DOMAIN rust : rust[i].th = t
                          waits == \E d \in awaiting : d.th = t
                          resumed == Driven(t, "resume") \/ Driven(t, "async_resume") \/ waits
                      IN  /\ Status(t) = "suspended" =>
                               ~resumed /\ (entry[t] \/ frames[t][leaf[t]] \in {"yield", "async"})
                          /\ Status(t) = "dead" => ~active /\ ~waits
                          /\ Status(t) = "normal" =>
                               active \/ waits \/ frames[t] = <<"call", "async">>
    BY DEF StatusTrue
  <1> DEFINE active == \E i \in DOMAIN rust : rust[i].th = t
             waits == \E d \in awaiting : d.th = t
             resumed == Driven(t, "resume") \/ Driven(t, "async_resume") \/ waits
  <1>1. TypeOK /\ Nested /\ Waits /\ PendingTrue(t)
    BY DEF CoInv
  <1>2. CASE ~Busy(t)
    <2>1. ~active /\ ~waits
      BY <1>2, EmptyFree
    <2>2. ~resumed
      BY <2>1 DEF Driven
    <2>3. Status(t) = "suspended" => entry[t]
      BY <1>2 DEF Status, Busy, IsStackEmpty
    <2>4. Status(t) # "normal"
      BY <1>2 DEF Status
    <2> QED BY <2>1, <2>2, <2>3, <2>4
  <1>3. CASE Busy(t)
    <2>1. Status(t) # "dead"
      BY <1>3 DEF Status
    <2>2. ASSUME Status(t) = "suspended"
          PROVE  ~resumed /\ frames[t][leaf[t]] \in {"yield", "async"}
      <3>1. pending[t] = "idle"
        BY <1>3, <2>2 DEF Status
      <3>2. ~Resumed(t) /\ frames[t][leaf[t]] \in {"yield", "async"} /\ frames[t][1] = "body"
        BY <1>1, <3>1 DEF PendingTrue, Suspended
      <3>3. ~Driven(t, "resume") /\ ~Driven(t, "async_resume")
        BY <3>2 DEF Driven, Resumed, Resumes
      <3>4. ~waits
        BY <1>1, <3>2 DEF Waits, Root, Resumed
      <3> QED BY <3>2, <3>3, <3>4
    <2>3. ASSUME Status(t) = "normal", ~active, ~waits
          PROVE  frames[t] = <<"call", "async">>
      <3>1. pending[t] # "idle"
        BY <1>3, <2>3 DEF Status
      <3>2. pending[t] = "none"
        BY <1>1, <2>3, <3>1 DEF PendingTrue, Resumed, TypeOK
      <3>3. frames[t] \in Seq(Kinds) /\ Depth(t) \in Nat \ {0} /\ frames[t][1] \in {"body", "call"}
        BY <1>1, <1>3, Lengths
      <3>4. \A b \in LowestDriven(t)..Depth(t) : FALSE
        BY <1>1, <2>3 DEF Nested
      <3>5. Suspended(t) /\ Depth(t) = 2
        <4>1. CASE Suspended(t)
          BY <3>3, <3>4, <4>1 DEF LowestDriven, Suspended
        <4>2. CASE ~Suspended(t)
          BY <3>3, <3>4, <4>2 DEF LowestDriven
        <4> QED BY <4>1, <4>2
      <3>6. frames[t][1] = "call" /\ frames[t][2] = "async"
        BY <1>1, <3>2, <3>3, <3>5 DEF PendingTrue
      <3> QED BY <3>3, <3>5, <3>6 DEF Depth
    <2> QED BY <2>1, <2>2, <2>3
  <1> QED BY <1>2, <1>3

(* The frames of a suspension.                                             *)
LEMMA LowestTwo ==
  ASSUME NEW s \in Seq(Kinds), Len(s) >= 2
  PROVE  SubSeq(s, 1, 2) = <<s[1], s[2]>> /\ Len(SubSeq(s, 1, 2)) = 2
  <1>1. \A i \in 1..2 : s[i] \in Kinds
    BY ElementOfSeq, LenProperties
  <1>2. /\ SubSeq(s, 1, 2) \in Seq(Kinds)
        /\ Len(SubSeq(s, 1, 2)) = IF 1 <= 2 THEN 2-1+1 ELSE 0
        /\ \A i \in 1..2-1+1 : SubSeq(s, 1, 2)[i] = s[1+i-1]
    BY <1>1, SubSeqProperties
  <1>3. Len(SubSeq(s, 1, 2)) = 2 /\ SubSeq(s, 1, 2)[1] = s[1] /\ SubSeq(s, 1, 2)[2] = s[2]
    BY <1>2
  <1>4. <<s[1], s[2]>> \in Seq(Kinds) /\ Len(<<s[1], s[2]>>) = 2
    BY <1>1
  <1>5. \A i \in 1..2 : SubSeq(s, 1, 2)[i] = <<s[1], s[2]>>[i]
    BY <1>3
  <1>6. SubSeq(s, 1, 2) = <<s[1], s[2]>>
    BY <1>2, <1>3, <1>4, <1>5, SeqEqual
  <1> QED BY <1>3, <1>6

(* Steps keep what a suspended coroutine stands in.                        *)
LEMMA KeepsSuspended ==
  ASSUME CoInv, ~ResumesCalled, [Next]_vars,
         NEW t \in Threads, pending[t] = "idle", pending'[t] = "idle"
  PROVE  leaf'[t] = leaf[t] /\ IsPrefix(SubSeq(frames[t], 1, leaf[t]), frames'[t])
  <1>1. TypeOK /\ Nested /\ PendingTrue(t)
    BY DEF CoInv
  <1>2. /\ leaf[t] = 2 /\ Depth(t) \in Nat /\ Depth(t) >= 2
        /\ LowestDriven(t) = 3 /\ frames[t][1] = "body"
    BY <1>1, Lengths DEF PendingTrue, Suspended, LowestDriven
  <1>3. CoInv'
    BY Step
  <1>4. leaf'[t] = 2 /\ frames'[t][1] = "body" /\ Depth(t)' >= 2
    BY <1>3 DEF CoInv, PendingTrue, Suspended
  <1>5. ASSUME frames'[t][2] = frames[t][2]
        PROVE  leaf'[t] = leaf[t] /\ IsPrefix(SubSeq(frames[t], 1, leaf[t]), frames'[t])
    <2>1. frames[t] \in Seq(Kinds) /\ frames'[t] \in Seq(Kinds)
      BY <1>1, <1>3 DEF CoInv, TypeOK, Kinds
    <2>2. /\ SubSeq(frames[t], 1, 2) = SubSeq(frames'[t], 1, 2)
          /\ Len(SubSeq(frames[t], 1, 2)) = 2
      BY <1>2, <1>4, <1>5, <2>1, LowestTwo DEF Depth
    <2> QED BY <1>2, <1>4, <2>2 DEF IsPrefix, Depth
  <1>6. ~Resumed(t)
    BY <1>1 DEF PendingTrue
  <1>7. CASE frames'[t] = frames[t]
    BY <1>5, <1>7
  <1>8. CASE Call(t)
    <2>1. \A i \in 1..Depth(t) : frames'[t][i] = frames[t][i]
      BY <1>1, <1>8, PushFrame DEF Call, Kinds
    <2> QED BY <1>2, <1>5, <2>1
  <1>9. ASSUME Running, Now.th = t, Now.how # "call"
        PROVE  FALSE
    BY <1>9, RunsAlone
  <1>10. CASE Return /\ Now.th = t /\ Now.how = "call"
    <2>1. Running
      BY <1>10 DEF Return
    <2>2. PICK n \in DOMAIN rust : Now = rust[n]
      <3>1. Len(rust) \in DOMAIN rust
        BY <1>1, <2>1, Lengths DEF Running
      <3> QED BY <3>1 DEF Now, Last
    <2>3. Now.base \in 3..Depth(t)
      BY <1>1, <1>2, <1>10, <2>2 DEF Nested
    <2>4. PICK m \in Nat : m = Now.base - 1 /\ 2 <= m /\ m \in 0..Depth(t)
      BY <1>2, <2>3
    <2>5. frames' = [frames EXCEPT ![t] = SubSeq(@, 1, m)]
      BY <1>10, <2>4 DEF Return, Left
    <2>6. \A i \in 1..m : frames'[t][i] = frames[t][i]
      BY <1>1, <2>4, <2>5, CutFrames
    <2> QED BY <1>5, <2>4, <2>6
  <1>11. ASSUME NEW d \in awaiting, d.th = t, ~Running
         PROVE  FALSE
    BY <1>11, WaitsAlone
  <1>12. CASE UNCHANGED vars
    BY <1>7, <1>12 DEF vars, thread
  <1>13. CASE Next
    <2>1. ASSUME NEW u \in Threads, u # t,
                 \/ Call(u) \/ AsyncCall(u) \/ ResumeDropped(u) \/ ResumeReady(u)
                 \/ \E how \in {"resume", "async_resume"} : Start(u, how) \/ Resume(u, how)
          PROVE  frames'[t] = frames[t]
      BY <1>1, <2>1, Lengths DEF Call, AsyncCall, ResumeDropped, ResumeReady, Start, Resume, Popped
    <2>2. ASSUME NEW u \in Threads, SetEntry(u) \/ ResumeUnready(u)
          PROVE  frames'[t] = frames[t]
      BY <2>2 DEF SetEntry, ResumeUnready
    <2>3. ~AsyncCall(t)
      BY <1>1, <1>2, Lengths DEF AsyncCall, IsStackEmpty, Busy
    <2>4. /\ ~ResumeDropped(t) /\ ~ResumeReady(t)
          /\ \A how \in {"resume", "async_resume"} : ~Start(t, how) /\ ~Resume(t, how)
      BY <1>1 DEF ResumeDropped, ResumeReady, Start, Resume, TypeOK
    <2>5. CASE Yield \/ Await
      <3>1. Running /\ Now.how # "call"
        BY <2>5 DEF Yield, Await, MayYield, Yieldable
      <3>2. Now.th # t
        BY <1>9, <3>1
      <3>3. frames'[t] = frames[t]
        BY <1>1, <2>5, <3>2, Lengths DEF Yield, Await
      <3> QED BY <1>7, <3>3
    <2>6. CASE Return
      <3>1. CASE Now.th = t
        <4>1. Running
          BY <2>6 DEF Return
        <4> QED BY <1>9, <1>10, <2>6, <3>1, <4>1
      <3>2. CASE Now.th # t
        <4>1. frames'[t] = frames[t]
          BY <1>1, <2>6, <3>2, Lengths DEF Return
        <4> QED BY <1>7, <4>1
      <3> QED BY <3>1, <3>2
    <2>7. ASSUME NEW d \in awaiting, Wake(d) \/ DropFuture(d)
          PROVE  frames'[t] = frames[t]
      <3>1. ~Running
        BY <2>7 DEF Wake, DropFuture
      <3>2. d.th # t
        BY <1>11, <3>1
      <3> QED BY <1>1, <2>7, <3>2, Lengths DEF Wake, DropFuture, Popped
    <2> QED BY <1>7, <1>8, <1>13, <2>1, <2>2, <2>3, <2>4, <2>5, <2>6, <2>7 DEF Next
  <1> QED BY <1>12, <1>13

(* Every variable is of its kind, and the lowest frame of a stack is that  *)
(* of an entry point or of a function called from Rust.                    *)
THEOREM TypeCorrect == ASSUME ~ResumesCalled PROVE Spec => []TypeOK
  <1>1. CoInv => TypeOK
    BY DEF CoInv
  <1> QED BY <1>1, Invariant, PTL

(* No call, resumption or future finds that its frame on the Lua stack has *)
(* gone or is another's.                                                   *)
THEOREM FramesStay == ASSUME ~ResumesCalled PROVE Spec => []FramesIntact
  BY IntactFrames, Invariant, PTL

(* Nobody resumes a coroutine that is being resumed, and Thread.pending    *)
(* tells exactly this.                                                     *)
THEOREM OneResumes == ASSUME ~ResumesCalled PROVE Spec => []ResumedOnce
  BY OneResumption, Invariant, PTL

(* A yield finds a number in Thread.yielding that was not meant for it only *)
(* in a coroutine of which an async_resume was dropped.                    *)
THEOREM YieldsAnswered == ASSUME ~ResumesCalled PROVE Spec => []YieldAnswered
  <1>1. CoInv => YieldAnswered
    BY DEF CoInv
  <1> QED BY <1>1, Invariant, PTL

(* coroutine.status tells the truth.                                       *)
THEOREM StatusHolds == ASSUME ~ResumesCalled PROVE Spec => []StatusTrue
  BY TrueStatus, Invariant, PTL

(* While a coroutine is suspended, no step changes where it will go on or  *)
(* the frames below.                                                       *)
THEOREM SuspendedStays == ASSUME ~ResumesCalled PROVE Spec => SuspendedUntouched
  <1>1. ASSUME CoInv, [Next]_vars
        PROVE  [\A t \in Threads :
                  pending[t] = "idle" /\ pending'[t] = "idle"
                    => leaf'[t] = leaf[t] /\ IsPrefix(SubSeq(frames[t], 1, leaf[t]), frames'[t])]_vars
    BY <1>1, KeepsSuspended
  <1> QED BY <1>1, Invariant, PTL DEF Spec, SuspendedUntouched
==========================================================================
