-------------------------------- MODULE Engine --------------------------------
(***************************************************************************)
(* One Lua frame executed by one of the engines of src/src/vm, a micro     *)
(* step at a time.  A helper may move the Lua stack, fail, or (when it is  *)
(* awaited) suspend the whole thread; the engine may then only use what it *)
(* has computed again.  Meaning is what both promise.                      *)
(*                                                                         *)
(*   at          index of the next micro step                              *)
(*   base        does the pointer to the frame's first register point into *)
(*               the stack as it lies now                                  *)
(*   live        the registers a pointer that is still good was taken to   *)
(*   pc          CallInfo.pc is the address after this instruction         *)
(*   top         Thread.top: "entry" is what the last instruction left     *)
(*   next_block  State.next_block, by the name of the block                *)
(*   slot        the future that CallInfo.pending_future holds             *)
(***************************************************************************)
EXTENDS Jit

CONSTANTS
  Engines,   \* subset of {"interp", "jit"}
  Signed     \* which of MODK and GTI run on integers of different signs, or negative ones

VARIABLES engine, op, e, at, base, live, pc, top, popped, trace, mode, next_block, slot

frame == <<pc, top, popped>>
pointers == <<base, live>>
future == <<next_block, slot>>
vars == <<engine, op, e, at, pointers, frame, trace, mode, future>>

(***************************************************************************)
(* The opcodes and what they may find in their operands.                   *)
(***************************************************************************)
BitsK == {"BANDK", "BORK", "BXORK"}
ArithK == {"ADDK", "SUBK", "MULK", "MODK", "POWK", "DIVK", "IDIVK"}
Sized == {"SHRI", "SHLI", "ADDI"}
Plain == {"ADD", "SUB", "MUL", "MOD", "POW", "DIV", "IDIV", "BAND", "BOR", "BXOR", "SHR", "SHL"}
Arithmetic == BitsK \cup ArithK \cup Sized \cup Plain
Fallback == {"MMBIN", "MMBINI", "MMBINK"}
Gets == {"GETTABUP", "GETTABLE", "GETI", "GETFIELD", "SELF"}
Sets == {"SETTABUP", "SETTABLE", "SETI", "SETFIELD"}
Orders == {"LT", "LE"}
OrdersI == {"EQI", "LTI", "LEI", "GTI", "GEI"}
Opcodes ==
  Arithmetic \cup Fallback \cup Gets \cup Sets \cup Orders \cup OrdersI \cup
  {"MOVE", "LOADI", "LOADF", "LOADK", "LOADKX", "LOADFALSE", "LFALSESKIP", "LOADTRUE", "LOADNIL",
   "GETUPVAL", "SETUPVAL", "NEWTABLE", "UNM", "BNOT", "NOT", "LEN", "CONCAT", "CLOSE", "TBC",
   "JMP", "EQ", "EQK", "TEST", "TESTSET", "CALL", "TAILCALL", "RETURN", "RETURN0", "RETURN1",
   "FORLOOP", "FORPREP", "TFORPREP", "TFORCALL", "TFORLOOP", "SETLIST", "CLOSURE", "VARARG",
   "VARARGPREP", "EXTRAARG"}

WithSigns(o, S) == {x \in S : x.neg => o \notin {"MODK", "GTI"} \/ o \in Signed}
Operands(o) ==
  CASE o \in BitsK -> Binary({"int", "whole"})     \* luaK_exp2K, tointegerns at compile time
    [] o \in ArithK -> WithSigns(o, Binary({"int", "flt"}))
    [] o \in Sized -> Binary({"int"})
    [] o \in Plain -> Binary(Kind)
    [] o \in {"MMBINI", "MMBINK"} -> Flip
    [] o \in Gets -> {x \in Lookups : /\ x.ikey => o = "GETTABLE"
                                      /\ x.k => o = "SELF"}
    [] o \in Sets -> {x \in Stores : x.ikey => o = "SETTABLE"}
    [] o \in Orders -> Condition(Kind)
    [] o \in OrdersI -> WithSigns(o, Condition({"int"}))
    [] o \in {"NOT", "EQ", "EQK", "TEST", "TESTSET"} -> Test
    [] o = "LOADNIL" -> Loads
    [] o = "SETUPVAL" -> SetUpval
    [] o = "NEWTABLE" -> NewTable
    [] o \in {"UNM", "BNOT"} -> Unary
    [] o = "CALL" -> Calls
    [] o = "TAILCALL" -> TailCalls
    [] o = "RETURN" -> Returns
    [] o \in {"RETURN0", "RETURN1"} -> Wanted
    [] o = "FORLOOP" -> Loops
    [] o = "FORPREP" -> Prep
    [] o = "TFORLOOP" -> Iter
    [] o = "SETLIST" -> SetList
    [] OTHER -> None

interp == INSTANCE Interp
Nothing == [none |-> TRUE]
Steps(g, o, x) == IF g = "jit" THEN compile(o, x) ELSE interp!Arm(o, x)
step == Steps(engine, op, e)[at]
Shown == Seen(step, pc, top, popped)
Show == trace' = Append(trace, Shown)
(* At its end an instruction leaves only its last effect. *)
Retire(last) ==
  /\ e' = Nothing /\ at' = 1 /\ live' = {} /\ trace' = last
  /\ pc' = FALSE /\ top' = <<"entry">> /\ popped' = FALSE

Init ==
  /\ engine \in Engines
  /\ op = "-" /\ e = Nothing /\ at = 1
  /\ base = "fresh" /\ live = {}
  /\ pc = FALSE /\ top = <<"entry">> /\ popped = FALSE
  /\ trace = <<>> /\ mode = "idle"
  /\ next_block = "entry" /\ slot = "none"

(***************************************************************************)
(* The instruction that control arrives at.  An OP_MMBIN stands behind     *)
(* every arithmetic instruction and nowhere else.                          *)
(***************************************************************************)
Missed == op \in Arithmetic /\ trace = <<[go |-> "next"]>>
Fetch ==
  /\ mode = "idle"
  /\ op' \in Opcodes \ (IF engine = "jit" THEN Todo ELSE {})
  /\ op' \in Fallback <=> Missed
  /\ e' \in Operands(op')
  /\ trace' = <<>> /\ mode' = "run"
  /\ UNCHANGED <<engine, at, pointers, frame, future>>

(***************************************************************************)
(* Steps of the engine's own.                                              *)
(***************************************************************************)
Own(d) == mode = "run" /\ step.do = d /\ at' = at + 1 /\ UNCHANGED <<engine, op, e, mode, future>>

TakePointer ==
  /\ Own("at")
  /\ live' = live \cup step.regs
  /\ UNCHANGED <<base, frame, trace>>

Reload == Own("base") /\ base' = "fresh" /\ UNCHANGED <<live, frame, trace>>

Write == Own("put") /\ Show /\ UNCHANGED <<pointers, frame>>

Touch == (Own("heap") \/ Own("look")) /\ Show /\ UNCHANGED <<pointers, frame>>

SaveTop == Own("top") /\ top' = step.val /\ UNCHANGED <<pointers, pc, popped, trace>>

Save == Own("pc") /\ pc' = TRUE /\ UNCHANGED <<pointers, top, popped, trace>>

PopFrame == Own("pop") /\ popped' = TRUE /\ UNCHANGED <<pointers, pc, top, trace>>

RaiseError ==
  /\ mode = "run" /\ step.do = "raise"
  /\ Retire(<<Shown>>) /\ mode' = "raised"
  /\ UNCHANGED <<engine, op, base, future>>

Jump ==
  /\ mode = "run" /\ step.do = "go"
  /\ Retire(<<Shown>>)
  /\ mode' = IF step.to \in {"leave", "replaced"} THEN "out" ELSE "idle"
  /\ UNCHANGED <<engine, op, base, future>>

(***************************************************************************)
(* A helper.  The JIT keeps the future of one that is awaited in the       *)
(* frame; the interpreter keeps it in its own.                             *)
(***************************************************************************)
Running == mode \in {"called", "polled"}
Future(fn) ==
  IF fn \in {"precall", "luaD_precall"} THEN "precall"
  ELSE IF fn = "pretailcall" THEN "pretailcall" ELSE "run"

CallHelper ==
  /\ mode = "run" /\ step.do = "call"
  /\ Show /\ mode' = "called"
  /\ slot' = IF engine = "jit" /\ step.await THEN Future(step.fn) ELSE slot
  /\ UNCHANGED <<engine, op, e, at, pointers, frame, next_block>>

(* Pointers into the old stack are lost. *)
StackMoves ==
  /\ (Running /\ step.fn \in Moves) \/ mode = "suspended"
  /\ base' = "stale" /\ live' = {}
  /\ UNCHANGED <<engine, op, e, at, frame, trace, mode, future>>

Return ==
  /\ Running
  /\ at' = at + 1 /\ mode' = "run"
  /\ top' = IF step.fn \in Results THEN <<"results">> ELSE top
  /\ popped' = (popped \/ step.fn = "luaD_poscall")
  /\ slot' = IF step.await THEN "none" ELSE slot
  /\ UNCHANGED <<engine, op, e, pointers, pc, trace, next_block>>

Fail ==
  /\ Running /\ step.fn \in Raises
  /\ Retire(trace) /\ mode' = "raised"
  /\ slot' = IF step.await THEN "none" ELSE slot
  /\ UNCHANGED <<engine, op, base, next_block>>

(* The first time the block to come back to is written down. *)
Suspend ==
  /\ Running /\ step.await
  /\ mode' = "suspended" /\ live' = {}
  /\ next_block' = IF engine = "jit" /\ mode = "called" THEN step.block ELSE next_block
  /\ UNCHANGED <<engine, op, e, at, base, frame, trace, slot>>

(* Invoker::poll enters the function again; the block loads base and polls *)
(* the future.  The interpreter is polled inside of the await.             *)
Resume ==
  /\ mode = "suspended"
  /\ mode' = "polled"
  /\ base' = IF engine = "jit" THEN "fresh" ELSE base
  /\ UNCHANGED <<engine, op, e, at, live, frame, trace, future>>

(* Another frame: it gets a new State. *)
Enter ==
  /\ mode \in {"out", "raised"}
  /\ mode' = "idle" /\ base' = "fresh" /\ next_block' = "entry"
  /\ UNCHANGED <<engine, op, e, at, live, frame, trace, slot>>

Next ==
  \/ Fetch \/ TakePointer \/ Reload \/ Write \/ Touch \/ SaveTop \/ Save \/ PopFrame
  \/ RaiseError \/ Jump \/ CallHelper \/ StackMoves \/ Return \/ Fail \/ Suspend \/ Resume
  \/ Enter

Spec == Init /\ [][Next]_vars

(***************************************************************************)
(* Properties.                                                             *)
(***************************************************************************)

(* Every variable has its type. *)
TypeOK ==
  /\ engine \in Engines /\ op \in Opcodes \cup {"-"} /\ at \in Nat \ {0}
  /\ base \in {"fresh", "stale"}
  /\ live \subseteq {"ra", "rb", "rc", "pa", "base", "uv"}
  /\ pc \in BOOLEAN /\ popped \in BOOLEAN /\ top \in Seq(STRING)
  /\ mode \in {"idle", "run", "called", "polled", "suspended", "out", "raised"}
  /\ next_block \in {"entry"} \cup DOMAIN Polls
  /\ slot \in {"none", "precall", "pretailcall", "run"}

(* No pointer is used that was taken before the stack moved: an engine     *)
(* takes pointers to registers from a base it has loaded since the last    *)
(* helper that may have reallocated the stack or suspended the thread, and *)
(* writes through, or hands to a helper, only pointers taken since then.   *)
NoStaleUse ==
  /\ mode = "run" =>
       /\ (step.do = "at" /\ step.regs \ {"uv"} # {}) => base = "fresh"
       /\ step.do = "put" => step.reg \in live
       /\ step.do = "call" => step.regs \subseteq live
  /\ mode = "idle" => base = "fresh"

(* A helper that may fail finds the position of this instruction in the    *)
(* frame, for the line in the message and the traceback; one that pushes   *)
(* on the stack, or marks it, finds the top of this instruction, not the   *)
(* one an earlier instruction left behind.                                 *)
HelperReady ==
  mode = "run" =>
    /\ step.do = "call" => /\ step.fn \in Raises => pc
                           /\ step.fn \in UsesTop => top # <<"entry">>
    /\ step.do = "raise" => pc

(* A thread that was suspended in machine code comes back to the block     *)
(* that polls the very future it waits for (CallInfo.pending_future is a   *)
(* union, which does not know what it holds), and no future is written     *)
(* over one that was not dropped or is left in a frame that is done.       *)
ResumesPending ==
  /\ (engine = "jit" /\ mode \in {"suspended", "polled"}) => Polls[next_block] = slot
  /\ mode \in {"idle", "run", "out", "raised"} => slot = "none"

(* An arithmetic instruction runs into the metamethod call behind it       *)
(* exactly when it has not written a result: otherwise the metamethod      *)
(* would be applied to operands that may be overwritten and the result     *)
(* assigned twice, or the result would be lost.                            *)
ArithmeticOnce ==
  (mode = "run" /\ op \in Arithmetic /\ step.do = "go") =>
    (step.to = "next" <=> \A i \in DOMAIN trace : "put" \notin DOMAIN trace[i])

(* tests/lua/math.lua:589, assert(maxint % -2 == -1): a modulo by a        *)
(* constant rounds towards minus infinity, as luaV_mod does.               *)
ModuloFloors ==
  op = "MODK" => \A i \in DOMAIN trace :
    ("put" \in DOMAIN trace[i] /\ trace[i].val[1] = "int") => trace[i].val = <<"int", "luaV_mod">>

(***************************************************************************)
(* Refinement.                                                             *)
(***************************************************************************)
AbsMode == IF mode \in {"called", "polled", "suspended"} THEN "run" ELSE mode
meaning ==
  INSTANCE Meaning WITH Envs <- [o \in Opcodes |-> Operands(o)], mode <- AbsMode

(* Both engines, the JIT compiler and the interpreter, run every           *)
(* instruction with the same effects in the same order, with the same pc   *)
(* and top in the frame at each helper, whatever moves, fails or suspends. *)
Implements == meaning!Spec
=============================================================================
