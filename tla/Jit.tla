-------------------------------- MODULE Jit --------------------------------
(***************************************************************************)
(* The JIT compiler, src/src/vm/jit: what the machine code of one          *)
(* instruction does when it runs, one operator per method of Emitter.      *)
(* "next" falls into the code of the following instruction; "skip", "jump" *)
(* and "back" jump to the label of another one.  Every jump carries base   *)
(* as the parameter of the block, so a method that changes it passes it on.*)
(***************************************************************************)
EXTENDS Micro, TLC

(***************************************************************************)
(* The methods that emit loads and stores on the frame.                    *)
(***************************************************************************)
get_reg(S) == At(S)
get_base == At({"base"})
set_top(v) == Top(v)
update_top_from_ci == set_top(<<"ci">>)
update_pc == SavePc
load_base_stack == Base
load_uv == At({"uv"})

(***************************************************************************)
(* The runtime functions the code calls back (src/src/vm/jit/mod.rs).      *)
(* After each of those that fail the code returns if the error is set.     *)
(***************************************************************************)
Runtime == [adjustvarargs |-> "luaT_adjustvarargs", getvarargs |-> "luaT_getvarargs",
            finishget |-> "luaV_finishget", finishset |-> "luaV_finishset",
            call |-> "luaD_call"]
Operators == [close |-> "luaF_close", poscall |-> "luaD_poscall", pushclosure |-> "pushclosure",
              step_gc |-> "gc.step", lessthanothers |-> "lessthanothers",
              lessequalothers |-> "lessequalothers", objlen |-> "luaV_objlen",
              concat |-> "luaV_concat"]
Metamethods == [trybinTM |-> "luaT_trybinTM", trybiniTM |-> "luaT_trybiniTM",
                trybinassocTM |-> "luaT_trybinassocTM", callorderiTM |-> "luaT_callorderiTM",
                newtbcupval |-> "luaF_newtbcupval", forprep |-> "forprep"]
(* Without a thread equalobj compares raw and calls nothing. *)
equalobj(td, S, x) == IF td THEN Call("luaV_equalobj", S, x) ELSE Do(<<"raw", "==">>)
barrier(e) == When(e.barrier, Do(<<"barrier">>))
barrier_back(e) == When(e.barrier, Do(<<"barrier_back">>))
div_zero == Raise("DivZero")
mod_zero == Raise("ModZero")

(***************************************************************************)
(* Futures.  precall, pretailcall and run_lua put theirs into              *)
(* CallInfo.pending_future and poll it; a pending one makes the function   *)
(* return, with State.next_block naming the block to enter when it is      *)
(* polled again (return_on_pending).  That block loads base from the       *)
(* frame, polls the same future again through resume_precall,              *)
(* resume_pretailcall or resume_run_lua and, unless it is still pending,   *)
(* joins the code after the call (join_on_ready).                          *)
(***************************************************************************)
return_on_pending(h, S, x, resume) == Await(h, S, x, resume)
precall(S, x) == return_on_pending("precall", S, x, "resume_precall")
pretailcall(S, x) == return_on_pending("pretailcall", S, x, "resume_pretailcall")
(* Mistake: the block polls the future of the call, not of its callee. *)
FaultyRunLua == return_on_pending("run", {}, <<>>, "resume_precall")
run_lua == return_on_pending("run", {}, <<>>, "resume_lua")
(* Which future each resume block polls. *)
Polls == [resume_precall |-> "precall", resume_pretailcall |-> "pretailcall",
          resume_lua |-> "run"]

(***************************************************************************)
(* Loads and moves.                                                        *)
(***************************************************************************)
move_(e) == get_reg({"ra", "rb"}) \o Put("ra", <<"rb">>) \o Go("next")
loadi(e) == get_reg({"ra"}) \o Put("ra", <<"int", "sBx">>) \o Go("next")
loadf(e) == get_reg({"ra"}) \o Put("ra", <<"flt", "sBx">>) \o Go("next")
loadk(e) == get_reg({"ra"}) \o Put("ra", <<"k[Bx]">>) \o Go("next")
loadfalse(e) == get_reg({"ra"}) \o Put("ra", <<"false">>) \o Go("next")
lfalseskip(e) == get_reg({"ra"}) \o Put("ra", <<"false">>) \o Go("skip")
loadtrue(e) == get_reg({"ra"}) \o Put("ra", <<"true">>) \o Go("next")
loadnil(e) == get_reg({"ra"}) \o Nils("ra", 0, e.b + 1) \o Go("next")
getupval(e) == get_reg({"ra"}) \o load_uv \o Put("ra", <<"uv">>) \o Go("next")
setupval(e) == get_reg({"ra"}) \o load_uv \o Put("uv", <<"ra">>) \o barrier(e) \o Go("next")

(***************************************************************************)
(* Lookups.                                                                *)
(***************************************************************************)
(* Mistake: pc is not saved. *)
FaultyFinishget(S, tab, key) ==
  update_top_from_ci \o Call(Runtime.finishget, S, <<tab, key>>)
    \o load_base_stack \o get_reg({"ra"}) \o Put("ra", <<"ret">>)
finishget(S, tab, key) ==
  update_top_from_ci \o update_pc \o Call(Runtime.finishget, S, <<tab, key>>)
    \o load_base_stack \o get_reg({"ra"}) \o Put("ra", <<"ret">>)
(* The key is put together in the native frame. *)
finishget_with_key_parts(S, tab, key) == finishget(S, tab, key)
(* A table, or a userdata that has properties, is looked into. *)
Lookup(e, f, missed) ==
  When(e.tab \in {"table", "props"}, Look(f, e.tab))
    \o (IF e.hit THEN Put("ra", <<"slot">>) ELSE missed) \o Go("next")

gettabup(e) ==
  get_reg({"ra"}) \o load_uv
    \o Lookup(e, "luaH_getshortstr", finishget_with_key_parts({"uv"}, "uv", "k[C]"))
gettable(e) ==
  get_reg({"ra", "rb", "rc"}) \o Lookup(e, "luaH_get", finishget({"rb", "rc"}, "rb", "rc"))
geti(e) ==
  get_reg({"ra", "rb"})
    \o Lookup(e, "luaH_getint", finishget_with_key_parts({"rb"}, "rb", "C"))
getfield(e) ==
  get_reg({"ra", "rb"}) \o Lookup(e, "luaH_getshortstr", finishget({"rb"}, "rb", "k[C]"))
rk(e) == IF e.k THEN "k[C]" ELSE "rc"
rk_regs(e) == IF e.k THEN {} ELSE {"rc"}
(* Mistake: the method's name is taken for a short string. *)
FaultySelf(e) ==
  get_reg({"ra", "rb"} \cup rk_regs(e)) \o PutAt("ra", 1, <<"rb">>)
    \o Lookup(e, "luaH_getshortstr", finishget({"rb"} \cup rk_regs(e), "rb", rk(e)))
self_(e) ==
  get_reg({"ra", "rb"} \cup rk_regs(e)) \o PutAt("ra", 1, <<"rb">>)
    \o Lookup(e, "luaH_getstr", finishget({"rb"} \cup rk_regs(e), "rb", rk(e)))

(***************************************************************************)
(* Stores: into a field that is there, or through luaV_finishset.          *)
(***************************************************************************)
Store(e, f, tab, S, key) ==
  When(e.tab = "table", Look(f, "table"))
    \o (IF e.hit
        THEN Do(<<"slot", rk(e)>>) \o barrier_back(e)
        ELSE update_top_from_ci \o update_pc
               \o Call(Runtime.finishset, S \cup rk_regs(e), <<tab, key, rk(e)>>)
               \o load_base_stack)
    \o Go("next")

settabup(e) == load_uv \o get_reg(rk_regs(e)) \o Store(e, "luaH_getshortstr", "uv", {"uv"}, "k[B]")
settable(e) ==
  get_reg({"ra", "rb"} \cup rk_regs(e)) \o Store(e, "luaH_get", "ra", {"ra", "rb"}, "rb")
seti(e) == get_reg({"ra"} \cup rk_regs(e)) \o Store(e, "luaH_getint", "ra", {"ra"}, "B")
setfield(e) ==
  get_reg({"ra"} \cup rk_regs(e)) \o Store(e, "luaH_getshortstr", "ra", {"ra"}, "k[B]")
newtable(e) ==
  get_reg({"ra"}) \o set_top(<<"ra", "+1">>) \o Do(<<"Table::new">>) \o Put("ra", <<"table">>)
    \o When(e.sized, Do(<<"luaH_resize">>)) \o set_top(<<"ra", "+1">>)
    \o Call(Operators.step_gc, {}, <<>>) \o load_base_stack \o Go("skip")

(***************************************************************************)
(* Arithmetic.  load_num_as_float leaves for the OP_MMBIN that follows     *)
(* when an operand is no number.                                           *)
(***************************************************************************)
load_num_as_float(l, r, done) == IF IsNum(l) /\ IsNum(r) THEN done ELSE Go("next")
(* Mistake: the result is written and control falls into the OP_MMBIN. *)
FaultySkip(v) == Put("ra", v) \o Go("next")
Skip(v) == Put("ra", v) \o Go("skip")
(* Two integers are tested for first. *)
IfInts(e, yes, no) == IF e.l = "int" /\ e.r = "int" THEN yes ELSE no
tointegerns(e, done) == IF AsInt(e.l) /\ AsInt(e.r) THEN done ELSE Go("next")
Arith(e, f) ==
  IfInts(e, Skip(<<"int", f>>), load_num_as_float(e.l, e.r, Skip(<<"flt", f>>)))

addi(e) ==
  get_reg({"ra", "rb"})
    \o IF e.l = "int" THEN Skip(<<"int", "add">>)
       ELSE IF IsNum(e.l) THEN Skip(<<"flt", "add">>) ELSE Go("next")
addk(e) == get_reg({"ra", "rb"}) \o Arith(e, "add")
mulk(e) == get_reg({"ra", "rb"}) \o Arith(e, "mul")
(* srem truncates: where the signs differ it is not luaV_mod. *)
modk(e) ==
  get_reg({"ra", "rb"})
    \o IfInts(e, IF e.zero THEN update_top_from_ci \o update_pc \o mod_zero
                 ELSE Skip(<<"int", IF e.neg THEN "srem" ELSE "luaV_mod">>),
                 load_num_as_float(e.l, e.r, Skip(<<"flt", "luaV_modf">>)))
divk(e) == get_reg({"ra", "rb"}) \o load_num_as_float(e.l, e.r, Skip(<<"flt", "div">>))
idivk(e) ==
  get_reg({"ra", "rb"})
    \o IfInts(e, IF e.zero THEN update_pc \o update_top_from_ci \o div_zero
                 ELSE Skip(<<"int", "luaV_idiv">>),
                 load_num_as_float(e.l, e.r, Skip(<<"flt", "floor">>)))
bandk(e) == get_reg({"ra", "rb"}) \o tointegerns(e, Skip(<<"int", "and">>))
bork(e) == get_reg({"ra", "rb"}) \o tointegerns(e, Skip(<<"int", "or">>))
bxork(e) == get_reg({"ra", "rb"}) \o tointegerns(e, Skip(<<"int", "xor">>))
shri(e) == get_reg({"ra", "rb"}) \o tointegerns(e, Skip(<<"int", "luaV_shiftl(rb,-sC)">>))
shli(e) == get_reg({"ra", "rb"}) \o tointegerns(e, Skip(<<"int", "luaV_shiftl(sC,rb)">>))
add(e) == get_reg({"ra", "rb", "rc"}) \o Arith(e, "add")
sub(e) == get_reg({"ra", "rb", "rc"}) \o Arith(e, "sub")
mul(e) == get_reg({"ra", "rb", "rc"}) \o Arith(e, "mul")
mod_(e) ==
  get_reg({"ra", "rb", "rc"})
    \o IfInts(e, IF e.zero THEN update_top_from_ci \o update_pc \o mod_zero
                 ELSE Skip(<<"int", "luaV_mod">>),
                 load_num_as_float(e.l, e.r, Skip(<<"flt", "luaV_modf">>)))
div(e) == get_reg({"ra", "rb", "rc"}) \o load_num_as_float(e.l, e.r, Skip(<<"flt", "div">>))
idiv(e) ==
  get_reg({"ra", "rb", "rc"})
    \o IfInts(e, IF e.zero THEN update_pc \o update_top_from_ci \o div_zero
                 ELSE Skip(<<"int", "luaV_idiv">>),
                 load_num_as_float(e.l, e.r, Skip(<<"flt", "floor">>)))
band(e) == get_reg({"ra", "rb", "rc"}) \o tointegerns(e, Skip(<<"int", "and">>))
bor(e) == get_reg({"ra", "rb", "rc"}) \o tointegerns(e, Skip(<<"int", "or">>))
bxor(e) == get_reg({"ra", "rb", "rc"}) \o tointegerns(e, Skip(<<"int", "xor">>))
shl(e) == get_reg({"ra", "rb", "rc"}) \o tointegerns(e, Skip(<<"int", "luaV_shiftl(rb,rc)">>))
shr(e) == get_reg({"ra", "rb", "rc"}) \o tointegerns(e, Skip(<<"int", "luaV_shiftl(rb,-rc)">>))

(***************************************************************************)
(* Metamethods of the arithmetic instruction in front, whose ra is "pa".   *)
(***************************************************************************)
Meta(h, S, x, r) ==
  update_top_from_ci \o update_pc \o Call(h, S, x) \o load_base_stack
    \o get_reg({r}) \o Put(r, <<"ret">>)
flip(e) == IF e.flip THEN "flip" ELSE "-"

mmbin(e) ==
  get_reg({"ra", "rb"})
    \o Meta(Metamethods.trybinTM, {"ra", "rb"}, <<"ra", "rb", "C">>, "pa") \o Go("next")
mmbini(e) ==
  get_reg({"ra"})
    \o Meta(Metamethods.trybiniTM, {"ra"}, <<"ra", "sB", flip(e), "C">>, "pa") \o Go("next")
mmbink(e) ==
  get_reg({"ra"})
    \o Meta(Metamethods.trybinassocTM, {"ra"}, <<"ra", "k[B]", flip(e), "C">>, "pa") \o Go("next")
unm(e) ==
  get_reg({"ra", "rb"})
    \o (IF e.l = "int" THEN Put("ra", <<"int", "neg">>)
        ELSE IF IsNum(e.l) THEN Put("ra", <<"flt", "neg">>)
        ELSE Meta(Metamethods.trybinTM, {"rb"}, <<"rb", "rb", "UNM">>, "ra"))
    \o Go("next")
bnot(e) ==
  get_reg({"rb"})
    \o (IF AsInt(e.l) THEN get_reg({"ra"}) \o Put("ra", <<"int", "not">>)
        ELSE Meta(Metamethods.trybinTM, {"rb"}, <<"rb", "rb", "BNOT">>, "ra"))
    \o Go("next")
not(e) ==
  get_reg({"ra", "rb"}) \o Put("ra", IF e.cond THEN <<"false">> ELSE <<"true">>) \o Go("next")
len(e) ==
  get_reg({"rb"}) \o update_top_from_ci \o update_pc \o Call(Operators.objlen, {"rb"}, <<"rb">>)
    \o load_base_stack \o get_reg({"ra"}) \o Put("ra", <<"ret">>) \o Go("next")
concat(e) ==
  get_reg({"ra"}) \o set_top(<<"ra", "+B">>) \o update_pc
    \o Call(Operators.concat, {}, <<"B">>) \o Call(Operators.step_gc, {}, <<>>)
    \o load_base_stack \o Go("next")
close(e) ==
  get_reg({"ra"}) \o update_top_from_ci \o update_pc
    \o Call(Operators.close, {"ra"}, <<"ra">>) \o load_base_stack \o Go("next")
tbc(e) ==
  get_reg({"ra"}) \o update_top_from_ci \o update_pc
    \o Call(Metamethods.newtbcupval, {"ra"}, <<"ra">>) \o Go("next")
jmp(e) == Go("jump")

(***************************************************************************)
(* Tests branch over the OP_JMP that follows, or fall into it.             *)
(***************************************************************************)
branch(cond, e) == IF cond # e.k THEN Go("skip") ELSE jmp(e)
order(e, f, h) ==
  get_reg({"ra", "rb"})
    \o IF e.l = "int" /\ e.r = "int" THEN Do(<<"int", f>>)
       ELSE IF IsNum(e.l) /\ IsNum(e.r) THEN Do(<<"num", f>>)
       ELSE update_top_from_ci \o update_pc \o Call(h, {"ra", "rb"}, <<"ra", "rb">>)
              \o load_base_stack
(* Mistake: the blocks join without a new base. *)
FaultyOrderi(e, f, flipped, ev) ==
  get_reg({"ra"})
    \o IF e.l = "int" THEN Do(<<"int", f>>)
       ELSE IF IsNum(e.l) THEN Do(<<"flt", f>>)
       ELSE update_top_from_ci \o update_pc
              \o Call(Metamethods.callorderiTM, {"ra"}, <<"ra", "sB", flipped, "C", ev>>)
orderi(e, f, flipped, ev) ==
  get_reg({"ra"})
    \o IF e.l = "int" THEN Do(<<"int", f>>)
       ELSE IF IsNum(e.l) THEN Do(<<"flt", f>>)
       ELSE update_top_from_ci \o update_pc
              \o Call(Metamethods.callorderiTM, {"ra"}, <<"ra", "sB", flipped, "C", ev>>)
              \o load_base_stack

eq(e) ==
  get_reg({"ra", "rb"}) \o update_top_from_ci \o update_pc
    \o equalobj(TRUE, {"ra", "rb"}, <<"ra", "rb">>) \o load_base_stack \o branch(e.cond, e)
lt(e) == order(e, "<", Operators.lessthanothers) \o branch(e.cond, e)
le(e) == order(e, "<=", Operators.lessequalothers) \o branch(e.cond, e)
eqk(e) ==
  get_reg({"ra"}) \o equalobj(FALSE, {"ra"}, <<"ra", "k[B]">>) \o load_base_stack
    \o branch(e.cond, e)
eqi(e) ==
  get_reg({"ra"})
    \o (IF e.l = "int" THEN Do(<<"int", "==">>) ELSE When(IsNum(e.l), Do(<<"flt", "==">>)))
    \o branch(IsNum(e.l) /\ e.cond, e)
lti(e) == orderi(e, "<", "-", "LT") \o branch(e.cond, e)
lei(e) == orderi(e, "<=", "-", "LE") \o branch(e.cond, e)
(* UnsignedGreaterThan: with a negative operand it is not the order of     *)
(* integers.                                                               *)
gti(e) == orderi(e, IF e.neg THEN ">u" ELSE ">", "flip", "LT") \o branch(e.cond, e)
gei(e) == orderi(e, ">=", "flip", "LE") \o branch(e.cond, e)
test(e) == get_reg({"ra"}) \o branch(e.cond, e)
testset(e) ==
  get_reg({"ra", "rb"})
    \o IF e.cond # e.k THEN Go("skip") ELSE Put("ra", <<"rb">>) \o jmp(e)

(***************************************************************************)
(* Calls and returns.                                                      *)
(***************************************************************************)
(* Both futures of a call end in the block that loads base. *)
call(e) ==
  get_reg({"ra"}) \o When(~e.b0, set_top(<<"ra", "+B">>)) \o update_pc
    \o precall({"ra"}, <<"ra", "nresults">>) \o When(e.lua, run_lua)
    \o load_base_stack \o Go("next")
(* The OP_RETURN behind it is never compiled into this path. *)
tailcall(e) ==
  get_reg({"ra"}) \o When(~e.b0, set_top(<<"ra", "+B">>))
    \o When(e.k, get_base \o Call("luaF_closeupval", {"base"}, <<"base">>)) \o update_pc
    \o pretailcall({"ra"}, <<"ra", "n", "delta">>)
    \o (IF e.lua THEN Go("replaced")
        ELSE When(e.va, Do(<<"func -= delta">>))
               \o Call(Operators.poscall, {}, <<"n">>) \o Go("leave"))
return_(e) ==
  When(e.open, get_reg({"ra"})) \o update_pc
    \o When(e.k, Do(<<"u2.nres := n">>) \o Top(<<"max", "ci">>) \o get_base
                   \o Call(Operators.close, {"base"}, <<"base">>) \o load_base_stack)
    \o When(e.va, Do(<<"func -= delta">>)) \o get_reg({"ra"}) \o set_top(<<"ra", "+n">>)
    \o Call(Operators.poscall, {}, <<"n">>) \o Go("leave")
return0(e) ==
  get_base \o Nils("base", -1, e.nres)
    \o set_top(<<"base", "-1", ToString(IF e.nres > 0 THEN e.nres ELSE 0)>>) \o Pop \o Go("leave")
return1(e) ==
  get_base
    \o (IF e.nres = 0 THEN set_top(<<"base", "-1", "0">>)
        ELSE get_reg({"ra"}) \o PutAt("base", -1, <<"ra">>) \o Nils("base", 0, e.nres - 1)
               \o set_top(<<"base", "-1", ToString(IF e.nres > 1 THEN e.nres ELSE 1)>>))
    \o Pop \o Go("leave")

(***************************************************************************)
(* Loops.                                                                  *)
(***************************************************************************)
forloop(e) ==
  get_reg({"ra"})
    \o (IF e.int
        THEN When(e.more, PutAt("ra", 1, <<"count-1">>) \o Put("ra", <<"idx+step">>)
                            \o PutAt("ra", 3, <<"idx+step">>))
        ELSE Call("floatforloop", {"ra"}, <<"ra">>))
    \o Go(IF e.more THEN "back" ELSE "next")
forprep(e) ==
  get_reg({"ra"}) \o update_top_from_ci \o update_pc
    \o Call(Metamethods.forprep, {"ra"}, <<"ra">>) \o Go(IF e.skip THEN "jump" ELSE "next")
tforprep(e) ==
  get_reg({"ra"}) \o update_top_from_ci \o update_pc
    \o Call(Metamethods.newtbcupval, {"ra"}, <<"ra+3">>) \o Go("jump")
tforcall(e) ==
  get_reg({"ra"}) \o PutAt("ra", 4, <<"ra">>) \o PutAt("ra", 5, <<"ra+1">>)
    \o PutAt("ra", 6, <<"ra+2">>) \o set_top(<<"ra", "+7">>) \o update_pc
    \o Call(Runtime.call, {"ra"}, <<"ra+4", "C">>) \o load_base_stack \o Go("next")
tforloop(e) ==
  get_reg({"ra"})
    \o IF e.more THEN PutAt("ra", 2, <<"ra+4">>) \o Go("back") ELSE Go("next")

(***************************************************************************)
(* Table constructors, closures, varargs.                                  *)
(***************************************************************************)
setlist(e) ==
  get_reg({"ra"}) \o When(~e.b0, update_top_from_ci)
    \o When(e.grow, Do(<<"luaH_resizearray">>))
    \o (IF e.n < 2 THEN <<>> ELSE Do(<<"array", "2">>) \o barrier_back(e))
    \o (IF e.n < 1 THEN <<>> ELSE Do(<<"array", "1">>) \o barrier_back(e))
    \o Go(IF e.k THEN "skip" ELSE "next")
closure(e) ==
  get_reg({"ra"}) \o get_base \o update_top_from_ci
    \o Call(Operators.pushclosure, {"base", "ra"}, <<"Bx", "base", "ra">>)
    \o set_top(<<"ra", "+1">>) \o Call(Operators.step_gc, {}, <<>>) \o load_base_stack \o Go("next")
vararg(e) ==
  get_reg({"ra"}) \o update_top_from_ci \o update_pc
    \o Call(Runtime.getvarargs, {"ra"}, <<"ra", "C">>) \o load_base_stack \o Go("next")
varargprep(e) ==
  update_pc \o Call(Runtime.adjustvarargs, {}, <<"A">>) \o load_base_stack \o Go("next")

(***************************************************************************)
(* compile: the method for each opcode; the others stop the program with   *)
(* todo!.                                                                  *)
(***************************************************************************)
Todo == {"LOADKX", "SUBK", "POWK", "POW", "EXTRAARG"}
compile(o, x) ==
  CASE o = "MOVE" -> move_(x) [] o = "LOADI" -> loadi(x) [] o = "LOADF" -> loadf(x)
    [] o = "LOADK" -> loadk(x) [] o = "LOADFALSE" -> loadfalse(x)
    [] o = "LFALSESKIP" -> lfalseskip(x) [] o = "LOADTRUE" -> loadtrue(x)
    [] o = "LOADNIL" -> loadnil(x) [] o = "GETUPVAL" -> getupval(x)
    [] o = "SETUPVAL" -> setupval(x) [] o = "GETTABUP" -> gettabup(x)
    [] o = "GETTABLE" -> gettable(x) [] o = "GETI" -> geti(x) [] o = "GETFIELD" -> getfield(x)
    [] o = "SETTABUP" -> settabup(x) [] o = "SETTABLE" -> settable(x) [] o = "SETI" -> seti(x)
    [] o = "SETFIELD" -> setfield(x) [] o = "NEWTABLE" -> newtable(x) [] o = "SELF" -> self_(x)
    [] o = "ADDI" -> addi(x) [] o = "ADDK" -> addk(x) [] o = "MULK" -> mulk(x)
    [] o = "MODK" -> modk(x) [] o = "DIVK" -> divk(x) [] o = "IDIVK" -> idivk(x)
    [] o = "BANDK" -> bandk(x) [] o = "BORK" -> bork(x) [] o = "BXORK" -> bxork(x)
    [] o = "SHRI" -> shri(x) [] o = "SHLI" -> shli(x) [] o = "ADD" -> add(x)
    [] o = "SUB" -> sub(x) [] o = "MUL" -> mul(x) [] o = "MOD" -> mod_(x) [] o = "DIV" -> div(x)
    [] o = "IDIV" -> idiv(x) [] o = "BAND" -> band(x) [] o = "BOR" -> bor(x)
    [] o = "BXOR" -> bxor(x) [] o = "SHL" -> shl(x) [] o = "SHR" -> shr(x)
    [] o = "MMBIN" -> mmbin(x) [] o = "MMBINI" -> mmbini(x) [] o = "MMBINK" -> mmbink(x)
    [] o = "UNM" -> unm(x) [] o = "BNOT" -> bnot(x) [] o = "NOT" -> not(x)
    [] o = "LEN" -> len(x) [] o = "CONCAT" -> concat(x) [] o = "CLOSE" -> close(x)
    [] o = "TBC" -> tbc(x) [] o = "JMP" -> jmp(x) [] o = "EQ" -> eq(x) [] o = "LT" -> lt(x)
    [] o = "LE" -> le(x) [] o = "EQK" -> eqk(x) [] o = "EQI" -> eqi(x) [] o = "LTI" -> lti(x)
    [] o = "LEI" -> lei(x) [] o = "GTI" -> gti(x) [] o = "GEI" -> gei(x)
    [] o = "TEST" -> test(x) [] o = "TESTSET" -> testset(x) [] o = "CALL" -> call(x)
    [] o = "TAILCALL" -> tailcall(x) [] o = "RETURN" -> return_(x)
    [] o = "RETURN0" -> return0(x) [] o = "RETURN1" -> return1(x) [] o = "FORLOOP" -> forloop(x)
    [] o = "FORPREP" -> forprep(x) [] o = "TFORPREP" -> tforprep(x)
    [] o = "TFORCALL" -> tforcall(x) [] o = "TFORLOOP" -> tforloop(x)
    [] o = "SETLIST" -> setlist(x) [] o = "CLOSURE" -> closure(x) [] o = "VARARG" -> vararg(x)
    [] o = "VARARGPREP" -> varargprep(x)
=============================================================================
