------------------------------- MODULE Micro -------------------------------
(***************************************************************************)
(* The vocabulary in which both engines of src/src/vm write down one Lua   *)
(* instruction: a sequence of micro steps on the pointers an engine keeps  *)
(* into the Lua stack, on the two fields of the frame that helpers read    *)
(* (CallInfo.pc and Thread.top) and on the heap.  An operator of Interp or *)
(* Jit gives the sequence one opcode runs for one environment e, which     *)
(* says what the operands are; what a value is made of is left symbolic.   *)
(***************************************************************************)
EXTENDS Integers, Sequences

(* Pointers to the registers in S are computed from base and read. *)
At(S) == <<[do |-> "at", regs |-> S]>>

(* A value is written off registers above the pointer reg. *)
PutAt(reg, off, v) == <<[do |-> "put", reg |-> reg, off |-> off, val |-> v]>>
Put(reg, v) == PutAt(reg, 0, v)

(* n nils from off on. *)
Nils(reg, off, n) ==
  IF n <= 0 THEN <<>> ELSE [i \in 1 .. n |-> PutAt(reg, off + i - 1, <<"nil">>)[1]]

Top(v) == <<[do |-> "top", val |-> v]>>    \* Thread.top := v
SavePc == <<[do |-> "pc"]>>                \* CallInfo.pc := the address after this instruction
Base == <<[do |-> "base"]>>                \* base := stack + CallInfo.func + 1
Pop == <<[do |-> "pop"]>>                  \* Thread.ci := CallInfo.previous
Do(x) == <<[do |-> "heap", what |-> x]>>   \* an effect outside of the stack
Look(f, in) == <<[do |-> "look", fn |-> f, in |-> in]>>  \* a raw lookup in a table
Raise(x) == <<[do |-> "raise", err |-> x]>>
Go(t) == <<[do |-> "go", to |-> t]>>

(* A call of a helper: S are the stack pointers it is given, x the other   *)
(* operands.  A helper that is awaited may suspend the whole thread; the   *)
(* JIT names the block its function is entered at afterwards.              *)
Call(h, S, x) ==
  <<[do |-> "call", fn |-> h, regs |-> S, args |-> x, await |-> FALSE, block |-> "-"]>>
Await(h, S, x, b) ==
  <<[do |-> "call", fn |-> h, regs |-> S, args |-> x, await |-> TRUE, block |-> b]>>

When(c, steps) == IF c THEN steps ELSE <<>>

(***************************************************************************)
(* Operands: one record set per family of opcodes.  What the value of a    *)
(* register may be is split by what the engines test: "whole" is a float   *)
(* with an exact integer value, "other" is no number.                      *)
(***************************************************************************)
Kind == {"int", "flt", "whole", "other"}
IsNum(k) == k # "other"
AsInt(k) == k \in {"int", "whole"}         \* luaV_tointegerns with F2Ieq

None == [none : {TRUE}]
Loads == [b : 0 .. 2]                      \* one more nil than b
Unary == [l : Kind]
(* A test of ra (and rb, of kind r): cond is what it yields, k what the    *)
(* instruction wants, neg that one of two integers is negative.            *)
Condition(R) == {e \in [l : Kind, r : R, cond : BOOLEAN, k : BOOLEAN, neg : BOOLEAN] :
                   e.neg => e.l = "int" /\ e.r = "int"}
(* zero: the divisor is the integer 0; neg: two integers of different      *)
(* signs that the divisor does not divide.                                 *)
Binary(R) == {e \in [l : Kind, r : R, zero : BOOLEAN, neg : BOOLEAN] :
                /\ (e.zero \/ e.neg) => e.l = "int" /\ e.r = "int"
                /\ ~(e.zero /\ e.neg)}
(* A lookup finds a value in a table or in the properties of a userdata;   *)
(* "bare" is a userdata without any.  k: the operand C is a constant.      *)
Lookups == {e \in [tab : {"table", "props", "bare", "other"}, hit : BOOLEAN,
                   ikey : BOOLEAN, k : BOOLEAN] :
              e.hit => e.tab \in {"table", "props"}}
Stores == {e \in [tab : {"table", "props", "other"}, hit : BOOLEAN,
                  ikey : BOOLEAN, k : BOOLEAN, barrier : BOOLEAN] :
             (e.hit => e.tab = "table") /\ (e.barrier => e.hit)}
Test == [cond : BOOLEAN, k : BOOLEAN]
SetUpval == [barrier : BOOLEAN]
NewTable == [sized : BOOLEAN]
Flip == [flip : BOOLEAN]
(* fn: what is called; lua: it gets a frame of its own.  b0: the number of *)
(* arguments is what is left on the stack.                                 *)
Calls == {e \in [b0 : BOOLEAN, fn : {"fp", "lua", "other"}, lua : BOOLEAN] :
            (e.fn = "fp" => ~e.lua) /\ (e.fn = "lua" => e.lua)}
(* k: upvalues or to-be-closed variables are open; va: a vararg function.  *)
TailCalls == {e \in [b0 : BOOLEAN, fn : {"fp", "lua", "other"}, lua : BOOLEAN,
                     k : BOOLEAN, va : BOOLEAN] :
                (e.fn = "fp" => ~e.lua) /\ (e.fn = "lua" => e.lua)}
Returns == [open : BOOLEAN, k : BOOLEAN, va : BOOLEAN]
Wanted == [nres : -1 .. 2]                 \* CallInfo.nresults
Loops == [int : BOOLEAN, more : BOOLEAN]
Prep == [skip : BOOLEAN]
Iter == [more : BOOLEAN]
SetList == {e \in [b0 : BOOLEAN, n : 0 .. 2, k : BOOLEAN, grow : BOOLEAN, barrier : BOOLEAN] :
              (~e.b0 => e.n > 0) /\ (e.barrier => e.n > 0)}

(***************************************************************************)
(* Helpers, by what they may do to the frame that calls them.              *)
(***************************************************************************)
Precalls == {"call_fp", "setup_lua_ci", "luaD_precall", "precall"}
Pretailcalls == {"setup_tailcall_ci", "luaD_pretailcall", "pretailcall"}
(* May grow or shrink the Lua stack: they run Lua or Rust code, need room  *)
(* on the stack, or traverse the running thread (luaD_shrinkstack).        *)
Moves == Precalls \cup Pretailcalls \cup
         {"luaV_finishget", "luaV_finishset", "luaT_trybinTM", "luaT_trybiniTM",
          "luaT_trybinassocTM", "luaT_callorderiTM", "luaV_equalobj", "lessthanothers",
          "lessequalothers", "luaV_objlen", "luaV_concat", "luaF_close", "gc.step",
          "luaD_call", "run", "luaT_getvarargs", "luaT_adjustvarargs", "luaD_poscall"}
(* May fail; the message and the traceback name the line of CallInfo.pc.   *)
Raises == (Moves \ {"gc.step"}) \cup {"luaF_newtbcupval", "forprep"}
(* Push at Thread.top, mark the stack up to it, or take results below it.  *)
UsesTop == {"luaV_finishget", "luaV_finishset", "luaT_trybinTM", "luaT_trybiniTM",
            "luaT_trybinassocTM", "luaT_callorderiTM", "luaV_equalobj", "lessthanothers",
            "lessequalothers", "luaV_objlen", "luaV_concat", "luaF_close", "gc.step",
            "luaD_call", "luaT_getvarargs", "luaD_poscall"}
(* Leave their results below Thread.top. *)
Results == Precalls \cup Pretailcalls \cup {"luaD_call", "run", "luaD_poscall"}

(***************************************************************************)
(* What a step shows outside of the engine, in a frame whose pc is saved   *)
(* or not and whose top is the one given.  The three ways in which a call  *)
(* starts are one effect.                                                  *)
(***************************************************************************)
Hidden == {"at", "base", "pc", "top", "pop"}
TailCall(s) == s.fn \in Pretailcalls \/ (s.fn = "call_fp" /\ s.args = <<"ra", "multret">>)
Seen(s, pc, top, popped) ==
  CASE s.do = "put" -> [put |-> s.reg, off |-> s.off, val |-> s.val]
    [] s.do = "look" -> [look |-> IF s.fn = "luaH_getint" THEN "luaH_get" ELSE s.fn, in |-> s.in]
    [] s.do = "heap" -> [heap |-> s.what]
    [] s.do = "raise" -> [raise |-> s.err, pc |-> pc, top |-> top]
    [] s.do = "go" -> IF s.to = "leave" THEN [go |-> s.to, top |-> top, popped |-> popped]
                      ELSE [go |-> s.to]
    [] s.do = "call" ->
         IF TailCall(s) THEN [call |-> "pretailcall", args |-> <<"ra">>, pc |-> pc, top |-> top]
         ELSE [call |-> IF s.fn \in Precalls THEN "precall" ELSE s.fn, args |-> s.args,
               pc |-> pc, top |-> top]
============================================================================
