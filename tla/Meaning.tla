------------------------------ MODULE Meaning ------------------------------
(***************************************************************************)
(* What an engine of src/src/vm promises about one Lua instruction: the    *)
(* effects of its arm in the interpreter, in that order and each with the  *)
(* pc and top it finds in the frame; only a step that can fail may end the *)
(* sequence early.  Where the Lua stack lies, whether the thread was       *)
(* suspended and how the engine found its way back is left out.            *)
(***************************************************************************)
EXTENDS Interp

LOCAL INSTANCE SequencesExt

CONSTANT Envs      \* the operands of each opcode

VARIABLES op,      \* the instruction
          e,       \* its operands
          trace,   \* its effects so far
          mode     \* "idle", "run", or how the instruction left: "out", "raised"

vars == <<op, e, trace, mode>>

(* One step on the frame as helpers see it; hidden steps only change it.   *)
Observe(f, s) ==
  [pc |-> f.pc \/ s.do = "pc",
   top |-> CASE s.do = "top" -> s.val
             [] s.do = "call" -> IF s.fn \in Results THEN <<"results">> ELSE f.top
             [] OTHER -> f.top,
   popped |-> f.popped \/ s.do = "pop" \/ (s.do = "call" /\ s.fn = "luaD_poscall"),
   out |-> IF s.do \in Hidden THEN f.out ELSE Append(f.out, Seen(s, f.pc, f.top, f.popped))]
Before == [pc |-> FALSE, top |-> <<"entry">>, popped |-> FALSE, out |-> <<>>]
Effects(o, x) == FoldLeft(Observe, Before, Arm(o, x)).out

MayFail(x) == "call" \in DOMAIN x /\ x.call \in Raises

Nothing == [none |-> TRUE]
Init == op = "-" /\ e = Nothing /\ trace = <<>> /\ mode = "idle"

Fetch ==
  /\ mode = "idle"
  /\ op' \in DOMAIN Envs /\ e' \in Envs[op']
  /\ trace' = <<>> /\ mode' = "run"

Upcoming == Effects(op, e)[Len(trace) + 1]
Ends == {"go", "raise"} \cap DOMAIN Upcoming # {}

Effect ==
  /\ mode = "run" /\ Len(trace) < Len(Effects(op, e)) /\ ~Ends
  /\ trace' = Append(trace, Upcoming)
  /\ UNCHANGED <<op, e, mode>>

(* The last effect; what came before it is forgotten. *)
Finish ==
  /\ mode = "run" /\ Len(trace) < Len(Effects(op, e)) /\ Ends
  /\ e' = Nothing /\ trace' = <<Upcoming>>
  /\ mode' = CASE "raise" \in DOMAIN Upcoming -> "raised"
                [] Upcoming.go \in {"leave", "replaced"} -> "out"
                [] OTHER -> "idle"
  /\ UNCHANGED op

Fail ==
  /\ mode = "run" /\ trace # <<>> /\ MayFail(trace[Len(trace)])
  /\ e' = Nothing /\ mode' = "raised"
  /\ UNCHANGED <<op, trace>>

(* Another frame runs. *)
Enter ==
  /\ mode \in {"out", "raised"}
  /\ mode' = "idle"
  /\ UNCHANGED <<op, e, trace>>

Next == Fetch \/ Effect \/ Finish \/ Fail \/ Enter

Spec == Init /\ [][Next]_vars
=============================================================================
