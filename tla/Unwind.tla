------------------------------ MODULE Unwind ------------------------------
(***************************************************************************)
(* Calls on the Lua stack of one thread, and how they end: luaD_call, the  *)
(* to-be-closed variables and the open upvalues of the scopes a return, a  *)
(* block or an error leaves, and the growth of the stack                   *)
(* (src/src/ldo.rs, src/src/lfunc.rs, src/src/lapi.rs, with OP_CALL,       *)
(* OP_TAILCALL, OP_TBC, OP_CLOSE, OP_RETURN and the opcodes of vararg      *)
(* functions of src/src/vm/interp/mod.rs, and pcall).                      *)
(*                                                                         *)
(* A slot is a number, so that a reallocation changes nothing but the      *)
(* size. A Lua function does what the compiler could have made of one: it  *)
(* uses registers in order and returns with OP_RETURN's k when one of its  *)
(* variables must be closed.                                               *)
(*                                                                         *)
(* A definition named Faulty... is not part of the model: it is the next   *)
(* definition with a plausible mistake.                                    *)
(***************************************************************************)
EXTENDS Integers, SequencesExt

CONSTANTS
    Limit,      \* LUAI_MAXSTACK, 1000000: slots a stack may have
    Basic,      \* slots of a new stack, 40
    MinInUse,   \* slots a collection leaves at least, 20
    Slack,      \* a stack of more than this times what is in use shrinks, 3
    Spare,      \* to this times what is in use, 2
    Extra,      \* slots behind stack_last, 5
    FpSlots,    \* slots for a Rust function called in that room, 20
    Reserve,    \* slots Context::push asks for when it needs one, 5
    MaxDelta,   \* largest distance in StackValue.tbcdelta, 65535
    FrameSize,  \* Proto.maxstacksize of every function
    MaxArgs,    \* arguments of a call of a vararg function
    MaxFrames   \* bound: frames below which a function calls another

ASSUME SlotsAssumption ==
    /\ {Limit, Basic, MinInUse, Slack, Spare, Extra, FpSlots, Reserve, MaxDelta, FrameSize, MaxArgs, MaxFrames}
          \subseteq Nat \ {0}
    /\ 3 <= Basic /\ Basic <= Limit /\ Extra >= 3 /\ Reserve >= 3

VARIABLES
    top,        \* Thread.top
    size,       \* Thread.stack_last
    tbclist,    \* Thread.tbclist, 0 for the bottom of the stack
    tbcdelta,   \* StackValue.tbcdelta of the slots on that list
    openupval,  \* slots with an open upvalue
    ci,         \* the CallInfo list from base_ci to Thread.ci
    calls,      \* luaD_call activations on the Rust stack
    declared,   \* history: slots whose variable waits for its closing method
    lost        \* history: live slots that something else was written to

stack == <<top, size, tbclist, tbcdelta, openupval>>
vars == <<stack, ci, calls, declared, lost>>

Larger(a, b) == IF a < b THEN b ELSE a
Replaced(s, e) == Append(Front(s), e)

(* CallInfo: the slot of the function, the end of the frame, the number of *)
(* results wanted (-1 for all), and of a Lua function the registers in     *)
(* use, how far OP_VARARGPREP has moved it up from its origin, and whether *)
(* that is still to come or L->top ends an open list of results above the  *)
(* registers.                                                              *)
Frame(kind, func, end, wanted, next) ==
    [kind |-> kind, func |-> func, top |-> end, wanted |-> wanted, act |-> 0,
     delta |-> 0, next |-> next]
Base(f) == f.func + 1
Origin(f) == f.func - f.delta
Next1(f) == Base(f) + f.act
Registers(f) == IF f.kind = "lua" THEN Base(f)..Next1(f)-1 ELSE {}
Varargs(f) == Origin(f) + 1..f.func - 1

(* A luaD_call: its function, the height of the CallInfo list, who called, *)
(* and where it is: running the program, or in a luaF_close down to level  *)
(* from OP_CLOSE, OP_RETURN or luaD_closeprotected; n results from a slot  *)
(* wait for OP_RETURN to go on.                                            *)
Activation(func, wanted, by) ==
    [func |-> func, depth |-> Len(ci), wanted |-> wanted, by |-> by,
     at |-> "run", level |-> 0, from |-> 0, n |-> 0]
Closing(c, at, level, from, n) ==
    [c EXCEPT !.at = at, !.level = level, !.from = from, !.n = n]

FaultyUnwinding(c) == Closing(c, "unwind", IF c.at = "unwind" THEN Limit ELSE c.func, 0, 0)

(* An error in luaD_call, or of a closing method luaD_closeprotected calls *)
Unwinding(c) == Closing(c, "unwind", c.func, 0, 0)

Now == Last(ci)
Call == Last(calls)

Init ==
    /\ top = 1
    /\ size = Basic
    /\ tbclist = 0
    /\ tbcdelta = <<>>
    /\ openupval = {}
    /\ ci = <<Frame("base", 0, 1, 0, "any")>>
    /\ calls = <<>>
    /\ declared = {}
    /\ lost = {}

-----------------------------------------------------------------------------
(* The size of the stack.                                                  *)

(* luaD_growstack with L->top at t                                         *)
Doubled(t, n) == Larger(IF 2 * size > Limit THEN Limit ELSE 2 * size, t + n)

CanGrow(t, n) == size <= Limit /\ n < Limit /\ Doubled(t, n) <= Limit

FaultyTight(t, n) == size >= t /\ size - t <= n

(* The check of setup_lua_ci and lua_checkstack, and of call_fp            *)
Tight(t, n) == size - t <= n
TightFp(t) == size - t < 0

(* What a program still needs when these frames and activations go on      *)
LiveIn(frames, activations) ==
    declared
    \cup (UNION {Registers(f) \cup Varargs(f) : f \in Range(frames)})
    \cup (UNION {c.from..c.from + c.n - 1 : c \in Range(activations)})
Live == LiveIn(ci, calls)

(* Something is written to these slots, or they are cleared.               *)
Write(slots) == lost' = lost \cup (slots \cap Live)

FaultyInUse == Larger(MinInUse, top)

(* stackinuse and luaD_shrinkstack                                         *)
InUse == Larger(MinInUse, 1 + Max({ci[i].top : i \in DOMAIN ci}))
Shrunk ==
    IF /\ InUse <= Limit
       /\ size > (IF InUse > Limit \div Slack THEN Limit ELSE InUse * Slack)
    THEN IF InUse > Limit \div Spare THEN Limit ELSE InUse * Spare
    ELSE size

-----------------------------------------------------------------------------
(* The list of to-be-closed variables.                                     *)

FaultyDummies(level) ==
    {tbclist + i * MaxDelta : i \in 1..(level - tbclist) \div MaxDelta}

(* luaF_newtbcupval: nodes without a variable, of delta 0, bridge a gap.   *)
Dummies(level) ==
    {tbclist + i * MaxDelta : i \in 1..(level - tbclist - 1) \div MaxDelta}

Insert(level) ==
    LET before == Max({tbclist} \cup Dummies(level))
    IN  /\ tbcdelta' = [s \in DOMAIN tbcdelta \cup Dummies(level) \cup {level} |->
                           IF s = level THEN level - before
                           ELSE IF s \in DOMAIN tbcdelta THEN tbcdelta[s] ELSE 0]
        /\ tbclist' = level

(* poptbclist: the node before a variable's, or the bottom of the stack,   *)
(* where the dummies in between are left out in steps of MaxDelta          *)
IsDummy(t) == t > 0 /\ t \in DOMAIN tbcdelta /\ tbcdelta[t] = 0
Below(list) ==
    LET node == list - tbcdelta[list]
    IN  Max({t \in {node - i * MaxDelta : i \in 0..node} : ~IsDummy(t)})

Pop ==
    /\ tbclist' = Below(tbclist)
    /\ tbcdelta' = [s \in {t \in DOMAIN tbcdelta : t <= Below(tbclist)} |-> tbcdelta[s]]
    /\ declared' = declared \ {tbclist}

KeepList == UNCHANGED <<tbclist, tbcdelta, declared>>

(* luaF_closeupval                                                         *)
CloseUpvals(level) == openupval' = {s \in openupval : s < level}

-----------------------------------------------------------------------------
(* Calls and their ends. Each of these gives ci', calls', top' and size'.  *)

(* luaD_call, luaD_precall and setup_lua_ci: a Lua function at func whose  *)
(* arguments end at t. Without room, luaD_call turns to unwind.            *)
Precall(func, t, wanted, by, frames) ==
    LET c == [Activation(func, wanted, by) EXCEPT !.depth = Len(frames)]
        fits == Tight(t, FrameSize) => CanGrow(t, FrameSize)
    IN  /\ top' = t
        /\ size' = IF Tight(t, FrameSize) /\ fits THEN Doubled(t, FrameSize) ELSE size
        /\ ci' = IF fits
                 THEN Append(frames, Frame("lua", func, func + 1 + FrameSize, wanted, "any"))
                 ELSE frames
        /\ calls' = Append(calls, IF fits THEN c ELSE Unwinding(c))

FaultyFail(activations) ==
    /\ calls' = Replaced(activations, Unwinding(Last(activations)))
    /\ CloseUpvals(Last(activations).func)
    /\ UNCHANGED ci

(* The error path of luaD_call up to luaF_close in luaD_closeprotected,    *)
(* for an error below the last of these activations.                       *)
Fail(activations) ==
    LET c == Unwinding(Last(activations))
    IN  /\ ci' = SubSeq(ci, 1, c.depth)
        /\ calls' = Replaced(activations, c)
        /\ CloseUpvals(c.level)

(* luaD_poscall and moveresults: how many of n results arrive, and where   *)
Arriving(f, n) == IF f.wanted = -1 THEN n ELSE f.wanted
Move(f, n, frames) ==
    lost' = lost \cup ((f.func..f.func + Arriving(f, n) - 1) \cap LiveIn(frames, Front(calls)))

(* OP_CALL is done: with all results wanted they end at L->top.            *)
Resumed(frames, wanted) == Replaced(frames, [Last(frames) EXCEPT !.next = IF wanted = -1 THEN "open" ELSE "any"])

(* pcall ends with L->top at t and pushes k values, for the first of which *)
(* that is not below the end of its frame lua_checkstack looks for room.   *)
PcallEnds(t, k) ==
    LET p == ci[Call.depth]
        end == Larger(p.top, t)
        grows == t + k > end /\ Tight(end, Reserve)
        n == t + k - Base(p)
    IN  IF grows => CanGrow(end, Reserve)
        THEN /\ top' = p.func + Arriving(p, n)
             /\ size' = IF grows THEN Doubled(end, Reserve) ELSE size
             /\ ci' = Resumed(SubSeq(ci, 1, Call.depth - 1), p.wanted)
             /\ calls' = Front(calls)
             /\ Move(p, n, SubSeq(ci, 1, Call.depth - 1))
             /\ UNCHANGED openupval
        ELSE /\ top' = end
             /\ Fail(Front(calls))
             /\ UNCHANGED <<size, lost>>

(* The function of the last frame has n results: back to its caller in     *)
(* this run, or out of luaD_call to who called it. A metamethod's result   *)
(* and the host's are popped at once.                                      *)
Finish(n) ==
    LET f == [Now EXCEPT !.func = Origin(Now)]
        frames == Front(ci)
        end == f.func + Arriving(f, n)
        c == Call
    IN  IF Len(frames) > c.depth
        THEN /\ top' = end
             /\ ci' = Resumed(frames, f.wanted)
             /\ calls' = Replaced(calls, Closing(c, "run", 0, 0, 0))
             /\ Move(f, n, frames)
             /\ UNCHANGED <<size, openupval>>
        ELSE IF c.by = "pcall"
        THEN PcallEnds(end, 1)
        ELSE /\ top' = c.func
             /\ ci' = IF c.by = "host"
                      THEN <<[Last(frames) EXCEPT !.top = Larger(@, end)]>>
                      ELSE frames
             /\ calls' = Front(calls)
             /\ Move(f, n, frames)
             /\ UNCHANGED <<size, openupval>>

-----------------------------------------------------------------------------
(* What a program does.                                                    *)

Runs == calls # <<>> /\ Call.at = "run" /\ Now.next = "any"
Room(n) == Now.act + n <= FrameSize
Using(n) == Replaced(ci, [Now EXCEPT !.act = n])
ToClose(level) == {s \in openupval \cup declared : s >= level}

(* Thread::call of a Lua function on the thread at rest; lua_checkstack    *)
(* extends base_ci by the slot of the function.                            *)
Start ==
    /\ calls = <<>>
    /\ Precall(top, top + 1, -1, "host", Replaced(ci, [Now EXCEPT !.top = Larger(@, top + 1)]))
    /\ Write({top})
    /\ UNCHANGED openupval
    /\ KeepList

(* A local variable, and a block that ends with nothing in it to close     *)
Local ==
    /\ Runs /\ Room(1)
    /\ ci' = Using(Now.act + 1)
    /\ UNCHANGED <<stack, calls, declared, lost>>

Leave(n) ==
    /\ Runs
    /\ ToClose(Base(Now) + n) = {}
    /\ ci' = Using(n)
    /\ UNCHANGED <<stack, calls, declared, lost>>

(* OP_CLOSURE: luaF_findupval of a register                                *)
Capture(level) ==
    /\ Runs
    /\ openupval' = openupval \cup {level}
    /\ UNCHANGED <<top, size, tbclist, tbcdelta, ci, calls, declared, lost>>

(* OP_TBC and OP_TFORPREP: of a value with a closing method, and of nil or *)
(* false. Of any other value it is an error.                               *)
Tbc ==
    /\ Runs /\ Room(1)
    /\ top' = Now.top
    /\ Insert(Next1(Now))
    /\ declared' = declared \cup {Next1(Now)}
    /\ ci' = Using(Now.act + 1)
    /\ UNCHANGED <<size, openupval, calls, lost>>

TbcNil ==
    /\ Runs /\ Room(1)
    /\ top' = Now.top
    /\ ci' = Using(Now.act + 1)
    /\ KeepList
    /\ UNCHANGED <<size, openupval, calls, lost>>

(* Any error in a Lua function, whose instruction may have set L->top to   *)
(* the end of the frame                                                    *)
Raise(t) ==
    /\ Runs
    /\ top' = t
    /\ Fail(calls)
    /\ KeepList
    /\ UNCHANGED <<size, lost>>

(* gc.step() of an instruction that has made an object in a new register:  *)
(* the atomic phase shrinks the stack and clears what is above L->top.     *)
Collect ==
    /\ Runs /\ Room(1)
    /\ top' = Next1(Now) + 1
    /\ size' = Shrunk
    /\ Write({s \in Live : s >= Next1(Now) + 1})
    /\ KeepList
    /\ UNCHANGED <<openupval, ci, calls>>

(* OP_CALL of a Lua function: without arguments, or of a vararg function   *)
(* with some. Without room it is an error of this call.                    *)
Entered(args) == IF args = 0 THEN "any" ELSE "prep"

CallLua(wanted, args) ==
    /\ Runs /\ Room(1 + args) /\ Len(ci) < MaxFrames
    /\ LET func == Next1(Now)
           t == func + 1 + args
           tight == Tight(t, FrameSize)
       IN  /\ top' = t
           /\ IF tight => CanGrow(t, FrameSize)
              THEN /\ size' = IF tight THEN Doubled(t, FrameSize) ELSE size
                   /\ ci' = Append(ci, Frame("lua", func, func + 1 + FrameSize, wanted, Entered(args)))
                   /\ UNCHANGED <<openupval, calls>>
              ELSE /\ Fail(calls)
                   /\ UNCHANGED size
           /\ Write(func..t - 1)
    /\ KeepList

(* OP_TAILCALL of a Lua function, never compiled where variables are to be *)
(* closed: it takes the place of its caller, below that one's arguments.   *)
FaultyReplacing == UNCHANGED openupval
Replacing == CloseUpvals(Base(Now))

TailCall(args) ==
    /\ Runs /\ Room(1 + args)
    /\ \A s \in declared : s < Base(Now)
    /\ LET t == Next1(Now) + 1 + args
           n == FrameSize - Now.delta
           func == Origin(Now)
           tight == Tight(t, n)
       IN  IF tight => CanGrow(t, n)
           THEN /\ size' = IF tight THEN Doubled(t, n) ELSE size
                /\ top' = func + 1 + args
                /\ ci' = Replaced(ci, Frame("lua", func, func + 1 + FrameSize, Now.wanted, Entered(args)))
                /\ Replacing
                /\ lost' = lost \cup (func..func + args \cap LiveIn(Front(ci), calls))
                /\ UNCHANGED calls
           ELSE /\ top' = t
                /\ Fail(calls)
                /\ UNCHANGED <<size, lost>>
    /\ KeepList

(* OP_VARARGPREP, luaT_adjustvarargs: the frame moves above the arguments. *)
VarargPrep ==
    /\ calls # <<>> /\ Call.at = "run" /\ Now.next = "prep"
    /\ LET by == top - Now.func
           tight == Tight(top, FrameSize + 1)
       IN  IF tight => CanGrow(top, FrameSize + 1)
           THEN /\ size' = IF tight THEN Doubled(top, FrameSize + 1) ELSE size
                /\ top' = top + 1
                /\ ci' = Replaced(ci, [Now EXCEPT !.func = @ + by, !.top = @ + by,
                                                  !.delta = by, !.next = "any"])
                /\ Write({top})
                /\ UNCHANGED <<openupval, calls>>
           ELSE /\ Fail(calls)
                /\ UNCHANGED <<top, size, lost>>
    /\ KeepList

(* OP_VARARG of all arguments, luaT_getvarargs                             *)
Vararg ==
    /\ Runs /\ Room(1) /\ Now.delta > 0
    /\ LET n == Now.delta - 1
           tight == Tight(Now.top, n)
       IN  IF tight => CanGrow(Now.top, n)
           THEN /\ size' = IF tight THEN Doubled(Now.top, n) ELSE size
                /\ top' = Next1(Now) + n
                /\ ci' = Replaced(ci, [Now EXCEPT !.next = "open"])
                /\ Write(Next1(Now)..Next1(Now) + n - 1)
                /\ UNCHANGED <<openupval, calls>>
           ELSE /\ top' = Now.top
                /\ Fail(calls)
                /\ UNCHANGED <<size, lost>>
    /\ KeepList

(* A metamethod, luaT_callTMres: called above the frame, without a check   *)
CallMetamethod ==
    /\ Runs /\ Len(ci) < MaxFrames
    /\ Precall(Now.top, Now.top + 3, 1, "op", ci)
    /\ Write(Now.top..Now.top + 2)
    /\ UNCHANGED openupval
    /\ KeepList

(* OP_CALL of pcall with a Lua function                                    *)
CallPcall(wanted) ==
    /\ Runs /\ Room(2) /\ Len(ci) < MaxFrames
    /\ LET func == Next1(Now)
       IN  /\ Precall(func + 1, func + 2, -1, "pcall",
                      Append(ci, Frame("fp", func, func + 2, wanted, "any")))
           /\ Write({func, func + 1})
    /\ UNCHANGED openupval
    /\ KeepList

-----------------------------------------------------------------------------
(* What closes variables.                                                  *)

(* OP_CLOSE: the end of a block, a break or a goto out of it               *)
Close(n) ==
    /\ Runs
    /\ LET level == Base(Now) + n
       IN  /\ ToClose(level) # {}
           /\ CloseUpvals(level)
           /\ calls' = Replaced(calls, Closing(Call, "close", level, 0, 0))
    /\ top' = Now.top
    /\ UNCHANGED <<size, tbclist, tbcdelta, ci, declared, lost>>

FaultyReturnTop == top

(* Where OP_RETURN with k lets closing methods be called                   *)
ReturnTop == Larger(top, Now.top)

(* OP_RETURN of n values, or of all up to L->top                           *)
Return(n) ==
    /\ calls # <<>> /\ Call.at = "run" /\ Now.next # "prep"
    /\ IF Now.next = "open" THEN n = top - Next1(Now) ELSE Room(n)
    /\ IF ToClose(Base(Now)) = {}
       THEN Finish(n)
       ELSE /\ top' = ReturnTop
            /\ CloseUpvals(Base(Now))
            /\ calls' = Replaced(calls, Closing(Call, "return", Base(Now), Next1(Now), n))
            /\ UNCHANGED <<size, ci, lost>>
    /\ KeepList

(* luaF_close and callclosemethod: the next variable, with a closing       *)
(* method in Lua                                                           *)
Closes == calls # <<>> /\ Call.at # "run"

CloseNext ==
    /\ Closes /\ tbclist >= Call.level
    /\ Pop
    /\ Precall(top, top + 3, 0, "closer", ci)
    /\ Write(top..top + 2)
    /\ UNCHANGED openupval

(* ... and with one in Rust, call_fp, which fails or not                   *)
CloseNextFp(fails) ==
    /\ Closes /\ tbclist >= Call.level
    /\ Pop
    /\ LET tight == TightFp(top + 3)
           fits == tight => CanGrow(top + 3, FpSlots)
       IN  /\ size' = IF tight /\ fits THEN Doubled(top + 3, FpSlots) ELSE size
           /\ IF fits /\ ~fails THEN UNCHANGED <<openupval, ci, calls>> ELSE Fail(calls)
    /\ Write(top..top + 2)
    /\ UNCHANGED top

CloseDone ==
    /\ Closes /\ tbclist < Call.level
    /\ LET c == Call
       IN  \/ /\ c.at = "close"
              /\ ci' = Using(c.level - Base(Now))
              /\ calls' = Replaced(calls, Closing(c, "run", 0, 0, 0))
              /\ UNCHANGED <<top, size, openupval, lost>>
           \/ /\ c.at = "return"
              /\ Finish(c.n)
           \/ /\ c.at = "unwind" /\ c.by = "host"
              /\ top' = c.func
              /\ calls' = <<>>
              /\ UNCHANGED <<size, openupval, ci, lost>>
           \/ /\ c.at = "unwind" /\ c.by = "pcall"
              /\ PcallEnds(c.func, 4)
           \/ /\ c.at = "unwind" /\ c.by \in {"op", "closer"}
              /\ top' = c.func
              /\ Fail(Front(calls))
              /\ UNCHANGED <<size, lost>>
    /\ KeepList

Next ==
    \/ Start \/ Local \/ Tbc \/ TbcNil \/ Collect \/ CallMetamethod
    \/ \E wanted \in {-1, 1} :
          CallPcall(wanted) \/ \E args \in {0, MaxArgs} : CallLua(wanted, args)
    \/ \E args \in {0, MaxArgs} : TailCall(args)
    \/ VarargPrep \/ Vararg
    \/ \E t \in {top, Now.top} : Raise(t)
    \/ \E level \in Registers(Now) : Capture(level)
    \/ \E n \in 0..Now.act-1 : Leave(n) \/ Close(n)
    \/ \E n \in 0..Limit : Return(n)
    \/ CloseNext \/ CloseDone
    \/ \E fails \in BOOLEAN : CloseNextFp(fails)

Spec == Init /\ [][Next]_vars

-----------------------------------------------------------------------------
(* Properties.                                                             *)

Highest(S) == Max(S \cup {0})

(* The list in the tbcdelta fields, 16 bits wide and shared with nodes     *)
(* that hold no variable, is the list of the variables that wait for their *)
(* closing methods: none is skipped, and none is found that is not one.    *)
ListExact ==
    /\ tbclist = Highest(declared)
    /\ \A s \in declared : Below(s) = Highest({d \in declared : d < s})
    /\ \A s \in DOMAIN tbcdelta : tbcdelta[s] \in 0..MaxDelta

(* A variable waits for its closing method, and an upvalue is open, only   *)
(* while its scope is active, or while a luaF_close that will reach it is  *)
(* calling the methods of variables declared after it. In particular       *)
(* nothing of a call is left over when luaD_call has returned or failed,   *)
(* whatever the closing methods did.                                       *)
ScopesClosed ==
    /\ openupval \subseteq UNION {Registers(ci[i]) : i \in DOMAIN ci}
    /\ \A s \in declared :
          \/ \E i \in DOMAIN ci : s \in Registers(ci[i])
          \/ \E i \in DOMAIN calls : calls[i].at = "unwind" /\ calls[i].level <= s

(* What a call, a closing method or a collection writes or clears never is *)
(* a register in use, a variable that waits to be closed or a result on    *)
(* its way to the caller ("closing functions do not corrupt returning      *)
(* values", tests/lua/locals.lua:197).                                     *)
Kept == lost = {}

(* Everything in use lies in the allocated stack, which stays within its   *)
(* limit, whatever grows it, shrinks it or fails to grow it: frames up to  *)
(* stack_last, and pushes without a check in the extra room behind it.     *)
StackFits ==
    /\ size <= Limit
    /\ top <= size + Extra
    /\ \A i \in DOMAIN ci : ci[i].kind = "lua" => ci[i].top <= size
    /\ \A s \in Live \cup openupval \cup DOMAIN tbcdelta : s < size + Extra

(* luaD_call leaves the frames of its caller as it found them, closes the  *)
(* newest variable first, and is over only when everything in the call is  *)
(* closed.                                                                 *)
CallsBalance ==
    [][/\ \A s \in declared \ declared' : s = Max(declared)
       /\ Len(calls') < Len(calls) =>
             LET c == Call
             IN  /\ \A s \in declared' \cup openupval' : s < c.func
                 /\ IsPrefix(Front(ci'), ci) /\ Len(ci') <= c.depth
                 /\ calls' # <<>> /\ Last(calls').at # "unwind" =>
                       Len(ci') = IF c.by = "pcall" THEN c.depth - 1 ELSE c.depth]_vars

(***************************************************************************)
(* The invariant behind these properties.                                  *)

Frames ==
    [kind : {"base", "lua", "fp"}, func : Nat, top : Nat, wanted : {-1, 0, 1},
     act : Nat, delta : Nat, next : {"any", "prep", "open"}]

Activations ==
    [func : Nat, depth : Nat, wanted : {-1, 0, 1}, by : {"host", "op", "pcall", "closer"},
     at : {"run", "close", "return", "unwind"}, level : Nat, from : Nat, n : Nat]

TypeOK ==
    /\ {top, size, tbclist} \subseteq Nat
    /\ tbcdelta \in [DOMAIN tbcdelta -> 0..MaxDelta]
    /\ UNION {DOMAIN tbcdelta, openupval, declared, lost} \subseteq Nat
    /\ ci \in Seq(Frames)
    /\ calls \in Seq(Activations)

(* Frames lie above one another, each above the registers of the one       *)
(* below it.                                                               *)
FrameShape(f) ==
    \/ /\ f.kind = "lua"
       /\ f.act <= FrameSize /\ f.delta < f.func /\ f.top = Base(f) + FrameSize
       /\ f.next = "prep" => f.act = 0 /\ f.delta = 0
    \/ /\ f.kind = "fp"
       /\ f.act = 0 /\ f.delta = 0 /\ f.func > 0 /\ f.top = f.func + 2

FramesStacked(F) ==
    /\ F # <<>> /\ F[1].kind = "base" /\ F[1].func = 0 /\ F[1].act = 0 /\ F[1].delta = 0
    /\ \A k \in DOMAIN F : k # 1 => FrameShape(F[k])
    /\ \A k, m \in DOMAIN F : k < m => Next1(F[k]) <= Origin(F[m])

(* How many frames there are up to those of activation i, and the slot     *)
(* from which on the stack is not its own                                  *)
DepthAt(F, C, i) == IF i < Len(C) THEN C[i + 1].depth ELSE Len(F)
EndAt(C, t, i) == IF i < Len(C) THEN C[i + 1].func ELSE t

(* An activation of luaD_call and its frames up to d: it has some until it *)
(* unwinds, and what it closes and returns is in the last.                 *)
Busy(F, c, d) ==
    /\ IF c.at = "unwind" THEN c.level = c.func /\ d = c.depth ELSE d > c.depth
    /\ c.at = "close" => c.level \in Base(F[d])..Next1(F[d])
    /\ IF c.at = "return" THEN c.level = Base(F[d]) /\ c.from = Next1(F[d]) ELSE c.from = 0 /\ c.n = 0

(* Its place among the frames and the other activations                    *)
Situated(F, C, i) ==
    LET c == C[i]
    IN  /\ c.depth \in DOMAIN F /\ DepthAt(F, C, i) \in DOMAIN F
        /\ \A k \in DOMAIN F :
              IF k <= c.depth THEN Next1(F[k]) <= c.func ELSE c.func <= Origin(F[k])
        /\ Busy(F, c, DepthAt(F, C, i))
        /\ c.by = "host" <=> i = 1
        /\ c.by = "host" => c.depth = 1
        /\ c.by = "pcall" =>
              /\ F[c.depth].kind = "fp" /\ c.func = Base(F[c.depth])
              /\ C[i - 1].at = "run" /\ C[i - 1].depth + 1 < c.depth

CallsStacked(F, C) ==
    /\ C = <<>> => Len(F) = 1
    /\ \A i \in DOMAIN C : Situated(F, C, i)
    /\ \A i, j \in DOMAIN C : i < j =>
          /\ C[i].depth <= C[j].depth
          /\ C[i].func < C[j].func
          /\ C[i].from + C[i].n <= C[j].func
    /\ \A k \in DOMAIN F : F[k].kind = "fp" =>
          \E i \in DOMAIN C : C[i].by = "pcall" /\ C[i].depth = k

(* L->top lies above whatever is in use that the current frame does not    *)
(* know of, and above all of it when closing methods are called there.     *)
TopAbove(F, C, t) ==
    /\ 0 < t
    /\ C # <<>> =>
          LET c == Last(C)
          IN  /\ c.func < t
              /\ c.at = "run" => Base(Last(F)) <= t
              /\ c.at \in {"close", "return"} => Next1(Last(F)) <= t
              /\ c.at = "return" => c.from + c.n <= t

(* A variable that waits is in a register or in the part of the stack that *)
(* an error has left; open upvalues are in registers, and what a           *)
(* luaF_close is past has none.                                            *)
Waiting(F, C, t, D) ==
    \A s \in D :
       /\ 0 < s /\ s < t
       /\ \/ \E k \in DOMAIN F : s \in Registers(F[k])
          \/ \E i \in DOMAIN C :
                C[i].at = "unwind" /\ C[i].func <= s /\ s < EndAt(C, t, i)

Captured(F, C, U) ==
    /\ \A s \in U : \E k \in DOMAIN F : s \in Registers(F[k])
    /\ \A i \in DOMAIN C : C[i].at # "run" =>
          \A s \in U : s < C[i].level \/ (i < Len(C) /\ C[i + 1].func <= s)

(* The list: a node's delta leads to the last of the dummies above the     *)
(* variable before.                                                        *)
Nodes ==
    /\ tbclist = Highest(declared)
    /\ \A s \in DOMAIN tbcdelta : s > 0 /\ s <= tbclist
    /\ declared \subseteq DOMAIN tbcdelta
    /\ \A s \in declared :
          /\ tbcdelta[s] > 0
          /\ LET d == Highest({x \in declared : x < s})
             IN  \E k \in 0..s :
                    /\ s = d + k * MaxDelta + tbcdelta[s]
                    /\ \A i \in 1..k : IsDummy(d + i * MaxDelta)

(* The room that functions rely on. Only an activation that has nothing to *)
(* close may be unwound with L->top behind the end.                        *)
Idle == calls # <<>> /\ Call.at = "unwind" /\ \A s \in declared : s < Call.func

InRoom ==
    /\ size <= Limit
    /\ top <= IF Idle THEN size + Extra ELSE size
    /\ \A k \in DOMAIN ci : k # 1 => ci[k].top <= size
    /\ \A i \in DOMAIN calls : calls[i].func <= size

UnwindInv ==
    /\ TypeOK
    /\ FramesStacked(ci)
    /\ CallsStacked(ci, calls)
    /\ TopAbove(ci, calls, top)
    /\ Waiting(ci, calls, top, declared)
    /\ Captured(ci, calls, openupval)
    /\ Nodes
    /\ InRoom
    /\ Kept
===========================================================================
