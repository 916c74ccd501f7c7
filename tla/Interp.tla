------------------------------- MODULE Interp -------------------------------
(***************************************************************************)
(* The interpreter, src/src/vm/interp/mod.rs: one operator per arm of the  *)
(* match in run.  "next" is the next! macro, "skip" steps over the         *)
(* following instruction, "jump" goes where the instruction (or the OP_JMP *)
(* that follows a test) says, "leave" returns to the previous frame.       *)
(***************************************************************************)
EXTENDS Micro, TLC

(* The two assignments in front of every helper that may fail. *)
Protect == Top(<<"ci">>) \o SavePc

(***************************************************************************)
(* Loads and moves.                                                        *)
(***************************************************************************)
op_MOVE(e) == At({"ra", "rb"}) \o Put("ra", <<"rb">>) \o Go("next")
op_LOADI(e) == At({"ra"}) \o Put("ra", <<"int", "sBx">>) \o Go("next")
op_LOADF(e) == At({"ra"}) \o Put("ra", <<"flt", "sBx">>) \o Go("next")
op_LOADK(e) == At({"ra"}) \o Put("ra", <<"k[Bx]">>) \o Go("next")
op_LOADKX(e) == At({"ra"}) \o Put("ra", <<"k[extra]">>) \o Go("skip")
op_LOADFALSE(e) == At({"ra"}) \o Put("ra", <<"false">>) \o Go("next")
op_LFALSESKIP(e) == At({"ra"}) \o Put("ra", <<"false">>) \o Go("skip")
op_LOADTRUE(e) == At({"ra"}) \o Put("ra", <<"true">>) \o Go("next")
op_LOADNIL(e) == At({"ra"}) \o Nils("ra", 0, e.b + 1) \o Go("next")
op_GETUPVAL(e) == At({"ra", "uv"}) \o Put("ra", <<"uv">>) \o Go("next")
op_SETUPVAL(e) ==
  At({"ra", "uv"}) \o Put("uv", <<"ra">>) \o When(e.barrier, Do(<<"barrier">>)) \o Go("next")

(***************************************************************************)
(* Lookups.  What a raw lookup does not find goes through the metamethods, *)
(* in the code behind the match (current_block 0) for all five opcodes.    *)
(***************************************************************************)
Finishget(tab, key) ==
  Protect \o Call("luaV_finishget", {tab}, <<tab, key>>) \o Base
    \o At({"ra"}) \o Put("ra", <<"ret">>) \o Go("next")
Get(e, f, tab, key) ==
  When(e.tab \in {"table", "props"}, Look(f, e.tab))
    \o IF e.hit THEN Put("ra", <<"slot">>) \o Go("next") ELSE Finishget(tab, key)
ByKind(e) == IF e.ikey THEN "luaH_getint" ELSE "luaH_get"

op_GETTABUP(e) == At({"ra", "uv"}) \o Get(e, "luaH_getshortstr", "uv", "k[C]")
op_GETTABLE(e) == At({"ra", "rb", "rc"}) \o Get(e, ByKind(e), "rb", "rc")
op_GETI(e) == At({"ra", "rb"}) \o Get(e, "luaH_getint", "rb", "C")
op_GETFIELD(e) == At({"ra", "rb"}) \o Get(e, "luaH_getshortstr", "rb", "k[C]")
op_SELF(e) ==
  At({"ra", "rb"} \cup IF e.k THEN {} ELSE {"rc"}) \o PutAt("ra", 1, <<"rb">>)
    \o Get(e, "luaH_getstr", "rb", IF e.k THEN "k[C]" ELSE "rc")

(***************************************************************************)
(* Stores: into an existing field, or through luaV_finishset.              *)
(***************************************************************************)
ValRegs(e) == IF e.k THEN {} ELSE {"rc"}
Val(e) == IF e.k THEN "k[C]" ELSE "rc"
Set(e, f, tab, S, key) ==
  When(e.tab = "table", Look(f, "table"))
    \o (IF e.hit
        THEN Do(<<"slot", Val(e)>>) \o When(e.barrier, Do(<<"barrier_back">>))
        ELSE Protect \o Call("luaV_finishset", S \cup ValRegs(e), <<tab, key, Val(e)>>) \o Base)
    \o Go("next")

op_SETTABUP(e) == At({"uv"} \cup ValRegs(e)) \o Set(e, "luaH_getshortstr", "uv", {"uv"}, "k[B]")
op_SETTABLE(e) == At({"ra", "rb"} \cup ValRegs(e)) \o Set(e, ByKind(e), "ra", {"ra", "rb"}, "rb")
op_SETI(e) == At({"ra"} \cup ValRegs(e)) \o Set(e, "luaH_getint", "ra", {"ra"}, "B")
op_SETFIELD(e) == At({"ra"} \cup ValRegs(e)) \o Set(e, "luaH_getshortstr", "ra", {"ra"}, "k[B]")

(* OP_EXTRAARG follows and is stepped over. *)
op_NEWTABLE(e) ==
  At({"ra"}) \o Top(<<"ra", "+1">>) \o Do(<<"Table::new">>) \o Put("ra", <<"table">>)
    \o When(e.sized, Do(<<"luaH_resize">>)) \o Top(<<"ra", "+1">>)
    \o Call("gc.step", {}, <<>>) \o Base \o Go("skip")

(***************************************************************************)
(* Arithmetic.  An operation on numbers writes ra and steps over the       *)
(* OP_MMBIN that follows; anything else runs into it.                      *)
(***************************************************************************)
Result(v) == Put("ra", v) \o Go("skip")
Floats(e, f) == IF IsNum(e.l) /\ IsNum(e.r) THEN Result(<<"flt", f>>) ELSE Go("next")
IntsOrFloats(e, i, f) ==
  IF e.l = "int" /\ e.r = "int" THEN Result(<<"int", i>>) ELSE Floats(e, f)
(* Integer division: an error for zero, raised after err. *)
Divide(e, i, f, zero, err) ==
  IF e.l = "int" /\ e.r = "int" /\ e.zero THEN err \o Raise(zero) ELSE IntsOrFloats(e, i, f)
Ints(e, f) == IF AsInt(e.l) /\ AsInt(e.r) THEN Result(<<"int", f>>) ELSE Go("next")

op_ADDI(e) ==
  At({"ra", "rb"})
    \o IF e.l = "int" THEN Result(<<"int", "add">>)
       ELSE IF IsNum(e.l) THEN Result(<<"flt", "add">>) ELSE Go("next")
op_ADDK(e) == At({"ra", "rb"}) \o IntsOrFloats(e, "add", "add")
op_SUBK(e) == At({"ra", "rb"}) \o IntsOrFloats(e, "sub", "sub")
op_MULK(e) == At({"ra", "rb"}) \o IntsOrFloats(e, "mul", "mul")
op_MODK(e) == Protect \o At({"ra", "rb"}) \o Divide(e, "luaV_mod", "luaV_modf", "ModZero", <<>>)
op_POWK(e) == At({"ra", "rb"}) \o Floats(e, "pow")
op_DIVK(e) == At({"ra", "rb"}) \o Floats(e, "div")
op_IDIVK(e) ==
  At({"ra", "rb"}) \o Divide(e, "luaV_idiv", "floor", "DivZero", SavePc \o Top(<<"ci">>))
op_BANDK(e) == At({"ra", "rb"}) \o Ints(e, "and")
op_BORK(e) == At({"ra", "rb"}) \o Ints(e, "or")
op_BXORK(e) == At({"ra", "rb"}) \o Ints(e, "xor")
op_SHRI(e) == At({"ra", "rb"}) \o Ints(e, "luaV_shiftl(rb,-sC)")
op_SHLI(e) == At({"ra", "rb"}) \o Ints(e, "luaV_shiftl(sC,rb)")
op_ADD(e) == At({"ra", "rb", "rc"}) \o IntsOrFloats(e, "add", "add")
op_SUB(e) == At({"ra", "rb", "rc"}) \o IntsOrFloats(e, "sub", "sub")
op_MUL(e) == At({"ra", "rb", "rc"}) \o IntsOrFloats(e, "mul", "mul")
op_MOD(e) ==
  At({"ra", "rb", "rc"}) \o Divide(e, "luaV_mod", "luaV_modf", "ModZero", SavePc \o Top(<<"ci">>))
op_POW(e) == At({"ra", "rb", "rc"}) \o Floats(e, "pow")
op_DIV(e) == At({"ra", "rb", "rc"}) \o Floats(e, "div")
op_IDIV(e) ==
  At({"ra", "rb", "rc"}) \o Divide(e, "luaV_idiv", "floor", "DivZero", SavePc \o Top(<<"ci">>))
op_BAND(e) == At({"ra", "rb", "rc"}) \o Ints(e, "and")
op_BOR(e) == At({"ra", "rb", "rc"}) \o Ints(e, "or")
op_BXOR(e) == At({"ra", "rb", "rc"}) \o Ints(e, "xor")
op_SHR(e) == At({"ra", "rb", "rc"}) \o Ints(e, "luaV_shiftl(rb,-rc)")
op_SHL(e) == At({"ra", "rb", "rc"}) \o Ints(e, "luaV_shiftl(rb,rc)")

(***************************************************************************)
(* The metamethod of the arithmetic instruction in front: its ra ("pa")    *)
(* takes the result.                                                       *)
(***************************************************************************)
Metamethod(h, S, x, r) ==
  Protect \o Call(h, S, x) \o Base \o At({r}) \o Put(r, <<"ret">>) \o Go("next")
Flipped(e) == IF e.flip THEN "flip" ELSE "-"

op_MMBIN(e) == At({"ra", "rb"}) \o Metamethod("luaT_trybinTM", {"ra", "rb"}, <<"ra", "rb", "C">>, "pa")
op_MMBINI(e) ==
  At({"ra"}) \o Metamethod("luaT_trybiniTM", {"ra"}, <<"ra", "sB", Flipped(e), "C">>, "pa")
op_MMBINK(e) ==
  At({"ra"}) \o Metamethod("luaT_trybinassocTM", {"ra"}, <<"ra", "k[B]", Flipped(e), "C">>, "pa")
op_UNM(e) ==
  At({"ra", "rb"})
    \o IF e.l = "int" THEN Put("ra", <<"int", "neg">>) \o Go("next")
       ELSE IF IsNum(e.l) THEN Put("ra", <<"flt", "neg">>) \o Go("next")
       ELSE Metamethod("luaT_trybinTM", {"rb"}, <<"rb", "rb", "UNM">>, "ra")
op_BNOT(e) ==
  At({"ra", "rb"})
    \o IF AsInt(e.l) THEN Put("ra", <<"int", "not">>) \o Go("next")
       ELSE Metamethod("luaT_trybinTM", {"rb"}, <<"rb", "rb", "BNOT">>, "ra")
op_NOT(e) == At({"ra", "rb"}) \o Put("ra", IF e.cond THEN <<"false">> ELSE <<"true">>) \o Go("next")
op_LEN(e) ==
  Protect \o At({"rb"}) \o Call("luaV_objlen", {"rb"}, <<"rb">>) \o Base
    \o At({"ra"}) \o Put("ra", <<"ret">>) \o Go("next")
op_CONCAT(e) ==
  At({"ra"}) \o Top(<<"ra", "+B">>) \o SavePc \o Call("luaV_concat", {}, <<"B">>)
    \o Call("gc.step", {}, <<>>) \o Base \o Go("next")
op_CLOSE(e) == At({"ra"}) \o Protect \o Call("luaF_close", {"ra"}, <<"ra">>) \o Base \o Go("next")
op_TBC(e) == At({"ra"}) \o Protect \o Call("luaF_newtbcupval", {"ra"}, <<"ra">>) \o Go("next")
op_JMP(e) == Go("jump")

(***************************************************************************)
(* Tests: the instruction that follows is the OP_JMP to take.              *)
(***************************************************************************)
Decide(e) == Go(IF e.cond # e.k THEN "skip" ELSE "jump")

Order(e, f, h) ==
  At({"ra", "rb"})
    \o IF e.l = "int" /\ e.r = "int" THEN Do(<<"int", f>>)
       ELSE IF IsNum(e.l) /\ IsNum(e.r) THEN Do(<<"num", f>>)
       ELSE Protect \o Call(h, {"ra", "rb"}, <<"ra", "rb">>) \o Base
OrderI(e, f, flip, ev) ==
  At({"ra"})
    \o IF e.l = "int" THEN Do(<<"int", f>>)
       ELSE IF IsNum(e.l) THEN Do(<<"flt", f>>)
       ELSE Protect \o Call("luaT_callorderiTM", {"ra"}, <<"ra", "sB", flip, "C", ev>>) \o Base

op_EQ(e) ==
  At({"ra", "rb"}) \o Protect \o Call("luaV_equalobj", {"ra", "rb"}, <<"ra", "rb">>)
    \o Base \o Decide(e)
op_LT(e) == Order(e, "<", "lessthanothers") \o Decide(e)
op_LE(e) == Order(e, "<=", "lessequalothers") \o Decide(e)
op_EQK(e) == At({"ra"}) \o Do(<<"raw", "==">>) \o Base \o Decide(e)
op_EQI(e) ==
  At({"ra"})
    \o (IF e.l = "int" THEN Do(<<"int", "==">>) ELSE When(IsNum(e.l), Do(<<"flt", "==">>)))
    \o Go(IF (IsNum(e.l) /\ e.cond) # e.k THEN "skip" ELSE "jump")
op_LTI(e) == OrderI(e, "<", "-", "LT") \o Decide(e)
op_LEI(e) == OrderI(e, "<=", "-", "LE") \o Decide(e)
op_GTI(e) == OrderI(e, ">", "flip", "LT") \o Decide(e)
op_GEI(e) == OrderI(e, ">=", "flip", "LE") \o Decide(e)
op_TEST(e) == At({"ra"}) \o Decide(e)
op_TESTSET(e) ==
  At({"ra", "rb"}) \o When(e.cond = e.k, Put("ra", <<"rb">>)) \o Decide(e)

(***************************************************************************)
(* Calls and returns.  A Lua callee runs in the same loop ("run"): its     *)
(* return continues at 'top, which loads base and pc from the frame again. *)
(***************************************************************************)
Callee == Await("run", {}, <<>>, "-") \o Base

op_CALL(e) ==
  At({"ra"}) \o When(~e.b0, Top(<<"ra", "+B">>)) \o SavePc
    \o (CASE e.fn = "fp" -> Await("call_fp", {"ra"}, <<"ra", "nresults">>, "-")
          [] e.fn = "lua" -> Call("setup_lua_ci", {"ra"}, <<"ra", "nresults">>)
          [] OTHER -> Await("luaD_precall", {"ra"}, <<"ra", "nresults">>, "-"))
    \o (IF e.lua THEN Callee ELSE Base) \o Go("next")

Poscall(e, n) ==
  When(e.va, Do(<<"func -= delta">>)) \o n \o Call("luaD_poscall", {}, <<"n">>) \o Base \o Go("leave")

(* A tail call into Lua takes the frame over. *)
op_TAILCALL(e) ==
  At({"ra"}) \o When(~e.b0, Top(<<"ra", "+B">>))
    \o When(e.k, At({"base"}) \o Call("luaF_closeupval", {"base"}, <<"base">>)) \o SavePc
    \o (CASE e.fn = "fp" -> Await("call_fp", {"ra"}, <<"ra", "multret">>, "-")
          [] e.fn = "lua" -> Call("setup_tailcall_ci", {"ra"}, <<"ra", "n", "delta">>)
          [] OTHER -> Await("luaD_pretailcall", {"ra"}, <<"ra", "n", "delta">>, "-"))
    \o IF e.lua THEN Go("replaced") ELSE Poscall(e, <<>>)

(* Closing variables may run anything, so base and ra are computed again;  *)
(* the number of results waits in u2.nres, the results below the top.      *)
op_RETURN(e) ==
  At({"ra"}) \o SavePc
    \o When(e.k, Do(<<"u2.nres := n">>) \o Top(<<"max", "ci">>) \o At({"base"})
                   \o Call("luaF_close", {"base"}, <<"base">>) \o Base \o At({"ra"}))
    \o Poscall(e, Top(<<"ra", "+n">>))

op_RETURN0(e) ==
  Pop \o At({"base"}) \o Nils("base", -1, e.nres)
    \o Top(<<"base", "-1", ToString(IF e.nres > 0 THEN e.nres ELSE 0)>>) \o Go("leave")
op_RETURN1(e) ==
  Pop
    \o (IF e.nres = 0
        THEN At({"base"}) \o Top(<<"base", "-1", "0">>)
        ELSE At({"base", "ra"}) \o PutAt("base", -1, <<"ra">>) \o Nils("base", 0, e.nres - 1)
               \o Top(<<"base", "-1", ToString(IF e.nres > 1 THEN e.nres ELSE 1)>>))
    \o Go("leave")

(***************************************************************************)
(* Loops.                                                                  *)
(***************************************************************************)
op_FORLOOP(e) ==
  At({"ra"})
    \o (IF e.int
        THEN When(e.more, PutAt("ra", 1, <<"count-1">>) \o Put("ra", <<"idx+step">>)
                            \o PutAt("ra", 3, <<"idx+step">>))
        ELSE Call("floatforloop", {"ra"}, <<"ra">>))
    \o Go(IF e.more THEN "back" ELSE "next")
op_FORPREP(e) ==
  At({"ra"}) \o Protect \o Call("forprep", {"ra"}, <<"ra">>)
    \o Go(IF e.skip THEN "jump" ELSE "next")
op_TFORPREP(e) ==
  At({"ra"}) \o Protect \o Call("luaF_newtbcupval", {"ra"}, <<"ra+3">>) \o Go("jump")
(* The iterator is called with a waker that refuses to suspend. *)
op_TFORCALL(e) ==
  At({"ra"}) \o PutAt("ra", 4, <<"ra">>) \o PutAt("ra", 5, <<"ra+1">>)
    \o PutAt("ra", 6, <<"ra+2">>) \o Top(<<"ra", "+7">>) \o SavePc
    \o Call("luaD_call", {"ra"}, <<"ra+4", "C">>) \o Base \o Go("next")
op_TFORLOOP(e) ==
  At({"ra"}) \o IF e.more THEN PutAt("ra", 2, <<"ra+4">>) \o Go("back") ELSE Go("next")

(***************************************************************************)
(* Table constructors, closures, varargs.                                  *)
(***************************************************************************)
Item(e, i) ==
  When(i <= e.n, Do(<<"array", ToString(i)>>) \o When(e.barrier, Do(<<"barrier_back">>)))
op_SETLIST(e) ==
  At({"ra"}) \o When(~e.b0, Top(<<"ci">>)) \o When(e.grow, Do(<<"luaH_resizearray">>))
    \o Item(e, 2) \o Item(e, 1) \o Go(IF e.k THEN "skip" ELSE "next")
op_CLOSURE(e) ==
  At({"ra", "base"}) \o Top(<<"ci">>) \o Call("pushclosure", {"base", "ra"}, <<"Bx", "base", "ra">>)
    \o Top(<<"ra", "+1">>) \o Call("gc.step", {}, <<>>) \o Base \o Go("next")
op_VARARG(e) ==
  At({"ra"}) \o Protect \o Call("luaT_getvarargs", {"ra"}, <<"ra", "C">>) \o Base \o Go("next")
op_VARARGPREP(e) == SavePc \o Call("luaT_adjustvarargs", {}, <<"A">>) \o Base \o Go("next")
op_EXTRAARG(e) == Go("next")

(* The arm of the match in run. *)
Arm(o, x) ==
  CASE o = "MOVE" -> op_MOVE(x) [] o = "LOADI" -> op_LOADI(x) [] o = "LOADF" -> op_LOADF(x)
    [] o = "LOADK" -> op_LOADK(x) [] o = "LOADKX" -> op_LOADKX(x)
    [] o = "LOADFALSE" -> op_LOADFALSE(x) [] o = "LFALSESKIP" -> op_LFALSESKIP(x)
    [] o = "LOADTRUE" -> op_LOADTRUE(x) [] o = "LOADNIL" -> op_LOADNIL(x)
    [] o = "GETUPVAL" -> op_GETUPVAL(x) [] o = "SETUPVAL" -> op_SETUPVAL(x)
    [] o = "GETTABUP" -> op_GETTABUP(x) [] o = "GETTABLE" -> op_GETTABLE(x)
    [] o = "GETI" -> op_GETI(x) [] o = "GETFIELD" -> op_GETFIELD(x)
    [] o = "SETTABUP" -> op_SETTABUP(x) [] o = "SETTABLE" -> op_SETTABLE(x)
    [] o = "SETI" -> op_SETI(x) [] o = "SETFIELD" -> op_SETFIELD(x)
    [] o = "NEWTABLE" -> op_NEWTABLE(x) [] o = "SELF" -> op_SELF(x)
    [] o = "ADDI" -> op_ADDI(x) [] o = "ADDK" -> op_ADDK(x) [] o = "SUBK" -> op_SUBK(x)
    [] o = "MULK" -> op_MULK(x) [] o = "MODK" -> op_MODK(x) [] o = "POWK" -> op_POWK(x)
    [] o = "DIVK" -> op_DIVK(x) [] o = "IDIVK" -> op_IDIVK(x) [] o = "BANDK" -> op_BANDK(x)
    [] o = "BORK" -> op_BORK(x) [] o = "BXORK" -> op_BXORK(x) [] o = "SHRI" -> op_SHRI(x)
    [] o = "SHLI" -> op_SHLI(x) [] o = "ADD" -> op_ADD(x) [] o = "SUB" -> op_SUB(x)
    [] o = "MUL" -> op_MUL(x) [] o = "MOD" -> op_MOD(x) [] o = "POW" -> op_POW(x)
    [] o = "DIV" -> op_DIV(x) [] o = "IDIV" -> op_IDIV(x) [] o = "BAND" -> op_BAND(x)
    [] o = "BOR" -> op_BOR(x) [] o = "BXOR" -> op_BXOR(x) [] o = "SHR" -> op_SHR(x)
    [] o = "SHL" -> op_SHL(x) [] o = "MMBIN" -> op_MMBIN(x) [] o = "MMBINI" -> op_MMBINI(x)
    [] o = "MMBINK" -> op_MMBINK(x) [] o = "UNM" -> op_UNM(x) [] o = "BNOT" -> op_BNOT(x)
    [] o = "NOT" -> op_NOT(x) [] o = "LEN" -> op_LEN(x) [] o = "CONCAT" -> op_CONCAT(x)
    [] o = "CLOSE" -> op_CLOSE(x) [] o = "TBC" -> op_TBC(x) [] o = "JMP" -> op_JMP(x)
    [] o = "EQ" -> op_EQ(x) [] o = "LT" -> op_LT(x) [] o = "LE" -> op_LE(x)
    [] o = "EQK" -> op_EQK(x) [] o = "EQI" -> op_EQI(x) [] o = "LTI" -> op_LTI(x)
    [] o = "LEI" -> op_LEI(x) [] o = "GTI" -> op_GTI(x) [] o = "GEI" -> op_GEI(x)
    [] o = "TEST" -> op_TEST(x) [] o = "TESTSET" -> op_TESTSET(x) [] o = "CALL" -> op_CALL(x)
    [] o = "TAILCALL" -> op_TAILCALL(x) [] o = "RETURN" -> op_RETURN(x)
    [] o = "RETURN0" -> op_RETURN0(x) [] o = "RETURN1" -> op_RETURN1(x)
    [] o = "FORLOOP" -> op_FORLOOP(x) [] o = "FORPREP" -> op_FORPREP(x)
    [] o = "TFORPREP" -> op_TFORPREP(x) [] o = "TFORCALL" -> op_TFORCALL(x)
    [] o = "TFORLOOP" -> op_TFORLOOP(x) [] o = "SETLIST" -> op_SETLIST(x)
    [] o = "CLOSURE" -> op_CLOSURE(x) [] o = "VARARG" -> op_VARARG(x)
    [] o = "VARARGPREP" -> op_VARARGPREP(x) [] o = "EXTRAARG" -> op_EXTRAARG(x)
=============================================================================
