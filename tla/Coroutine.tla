---------------------------- MODULE Coroutine ----------------------------
(***************************************************************************)
(* Threads of one Lua state as coroutines: Thread::set_entry, call,        *)
(* resume, async_call and async_resume (src/src/thread/mod.rs), the        *)
(* futures at their leaves (YieldInvoker and AsyncInvoker, src/src/ldo.rs) *)
(* and coroutine.status.                                                   *)
(*                                                                         *)
(* A thread has one Lua stack, and three kinds of Rust code drive it: a    *)
(* call that runs to its end, a resumption that ends when the coroutine    *)
(* yields, and a future that an executor polls and may drop. What drives   *)
(* it nests like the Rust stack: the function that runs now may call or    *)
(* resume any thread, its own included.                                    *)
(*                                                                         *)
(* A definition named Faulty... is not part of the model: it is the next   *)
(* definition with a plausible mistake.                                    *)
(***************************************************************************)
EXTENDS Naturals, SequencesExt

CONSTANTS
    Threads,
    ResumesCalled,  \* whether the program resumes a suspended thread from
                    \* inside a call it made on that thread
    MaxDepth        \* bound: calls and resumptions nested in one another

ASSUME SwitchAssumption == ResumesCalled \in BOOLEAN
ASSUME DepthAssumption == MaxDepth \in Nat

VARIABLES
    entry,      \* whether the stack holds an entry point that is not started
    frames,     \* the CallInfo list from base_ci, one element per activation
                \* that matters: "body" is the entry point, "call" a function
                \* called from Rust, "yield" a YieldFp and "async" an AsyncFp
    pending,    \* Thread.pending: "none", "idle", or "borrowed" by a resumption
    leaf,       \* how many frames there were when the pending future last
                \* returned Poll::Pending: CallInfo its leaf goes on with
    yielding,   \* Thread.yielding between two polls: "none", or "args" when the
                \* number of arguments of a resume was not taken
    rust,       \* the Rust stack: what drives which thread from which frame on
    awaiting,   \* futures of async_call and async_resume between two polls
    nullci,     \* whether a YieldInvoker has returned through its null CallInfo
    abandoned   \* history: threads whose async_resume was dropped unfinished

thread == <<entry, frames, pending, leaf, yielding>>
vars == <<thread, rust, awaiting, nullci, abandoned>>

Depth(t) == Len(frames[t])
IsStackEmpty(t) == frames[t] = <<>> /\ ~entry[t]
Busy(t) == frames[t] # <<>>
Driven(t, how) == \E i \in DOMAIN rust : rust[i].th = t /\ rust[i].how = how
Running == rust # <<>>
Now == Last(rust)
Yieldable == Now.how \in {"resume", "async_resume"}
Drive(t, how, base) == [th |-> t, how |-> how, base |-> base]

Init ==
    /\ entry = [t \in Threads |-> FALSE]
    /\ frames = [t \in Threads |-> <<>>]
    /\ pending = [t \in Threads |-> "none"]
    /\ leaf = [t \in Threads |-> 0]
    /\ yielding = [t \in Threads |-> "none"]
    /\ rust = <<>>
    /\ awaiting = {}
    /\ nullci = FALSE
    /\ abandoned = {}

(* Thread::set_entry; ThreadBusy unless the stack is empty.                *)
SetEntry(t) ==
    /\ IsStackEmpty(t)
    /\ entry' = [entry EXCEPT ![t] = TRUE]
    /\ UNCHANGED <<frames, pending, leaf, yielding, rust, awaiting, nullci, abandoned>>

(* Thread::call, pcall and every other way to run a function to its end on *)
(* the stack of a thread, whatever is suspended there.                     *)
Call(t) ==
    /\ Len(rust) < MaxDepth
    /\ frames' = [frames EXCEPT ![t] = Append(@, "call")]
    /\ rust' = Append(rust, Drive(t, "call", Depth(t) + 1))
    /\ UNCHANGED <<entry, pending, leaf, yielding, awaiting, nullci, abandoned>>

(* Thread::async_call, polled for the first time by an executor.           *)
AsyncCall(t) ==
    /\ ~Running
    /\ IsStackEmpty(t)
    /\ frames' = [frames EXCEPT ![t] = <<"call">>]
    /\ rust' = <<Drive(t, "async_call", 1)>>
    /\ UNCHANGED <<entry, pending, leaf, yielding, awaiting, nullci, abandoned>>

CanDrive(how) ==
    \/ how = "resume" /\ Len(rust) < MaxDepth
    \/ how = "async_resume" /\ ~Running

(* resume and async_resume of an entry point that was not started          *)
Start(t, how) ==
    /\ CanDrive(how)
    /\ entry[t] /\ ~Busy(t)
    /\ entry' = [entry EXCEPT ![t] = FALSE]
    /\ frames' = [frames EXCEPT ![t] = <<"body">>]
    /\ pending' = [pending EXCEPT ![t] = "borrowed"]
    /\ rust' = Append(rust, Drive(t, how, 1))
    /\ UNCHANGED <<leaf, yielding, awaiting, nullci, abandoned>>

(* pending.try_borrow_mut, and a future in it                              *)
Resumable(t) == Busy(t) /\ pending[t] = "idle"

(* luaD_poscall: the frame of the leaf and what lies above it go.          *)
Popped(t) == [frames EXCEPT ![t] = SubSeq(@, 1, leaf[t] - 1)]

FaultyTaken(t) == [yielding EXCEPT ![t] = "args"]

(* YieldInvoker::poll and Resume::poll take what they find there.          *)
Taken(t) == [yielding EXCEPT ![t] = "none"]

(* resume and async_resume of a coroutine that stands in a yield: the      *)
(* arguments become the results of the YieldFp.                            *)
Resume(t, how) ==
    /\ CanDrive(how)
    /\ Resumable(t)
    /\ frames[t][leaf[t]] = "yield"
    /\ ResumesCalled \/ ~Driven(t, "call")
    /\ frames' = Popped(t)
    /\ pending' = [pending EXCEPT ![t] = "borrowed"]
    /\ rust' = Append(rust, Drive(t, how, 1))
    /\ yielding' = Taken(t)
    /\ UNCHANGED <<entry, leaf, awaiting, nullci, abandoned>>

(* resume of a coroutine that a dropped async_resume has left in an        *)
(* AsyncFp, which fails without an executor and takes the coroutine with   *)
(* it: no pcall can be between them. Nothing takes the arguments.          *)
ResumeDropped(t) ==
    /\ CanDrive("resume")
    /\ Resumable(t)
    /\ frames[t][leaf[t]] = "async"
    /\ ResumesCalled \/ ~Driven(t, "call")
    /\ frames' = [frames EXCEPT ![t] = <<>>]
    /\ pending' = [pending EXCEPT ![t] = "none"]
    /\ yielding' = [yielding EXCEPT ![t] = "args"]
    /\ UNCHANGED <<entry, leaf, rust, awaiting, nullci, abandoned>>

(* async_resume of such a coroutine goes on with it if the AsyncFp is      *)
(* ready by now; nothing takes the arguments.                              *)
ResumeReady(t) ==
    /\ CanDrive("async_resume")
    /\ Resumable(t)
    /\ frames[t][leaf[t]] = "async"
    /\ frames' = Popped(t)
    /\ pending' = [pending EXCEPT ![t] = "borrowed"]
    /\ rust' = Append(rust, Drive(t, "async_resume", 1))
    /\ yielding' = [yielding EXCEPT ![t] = "args"]
    /\ UNCHANGED <<entry, leaf, awaiting, nullci, abandoned>>

(* If it is not ready, Resume::poll takes its own arguments for values     *)
(* that the coroutine yields, and the coroutine stays where it is.         *)
ResumeUnready(t) ==
    /\ CanDrive("async_resume")
    /\ Resumable(t)
    /\ frames[t][leaf[t]] = "async"
    /\ yielding' = Taken(t)
    /\ UNCHANGED <<entry, frames, pending, leaf, rust, awaiting, nullci, abandoned>>

FaultyMayYield == Running

(* YieldInvoker::poll checks that the waker is one of a resumption.        *)
MayYield == Running /\ Yieldable

(* A YieldFp: what resume left in yielding means that the future is polled *)
(* again. A first poll that finds it returns through a null CallInfo.      *)
Yield ==
    /\ MayYield
    /\ LET t == Now.th
       IN  IF yielding[t] # "none"
           THEN /\ nullci' = TRUE
                /\ yielding' = Taken(t)
                /\ UNCHANGED <<frames, pending, leaf, rust>>
           ELSE /\ frames' = [frames EXCEPT ![t] = Append(@, "yield")]
                /\ leaf' = [leaf EXCEPT ![t] = Depth(t) + 1]
                /\ pending' = [pending EXCEPT ![t] = "idle"]
                /\ rust' = Front(rust)
                /\ UNCHANGED <<yielding, nullci>>
    /\ UNCHANGED <<entry, awaiting, abandoned>>

(* An AsyncFp that is not ready, AsyncInvoker::poll: without an executor   *)
(* it is an error. Resume::poll reports a number it finds in yielding as   *)
(* values yielded.                                                         *)
Await ==
    /\ Running
    /\ Now.how \in {"async_call", "async_resume"}
    /\ LET t == Now.th
           reported == Now.how = "async_resume" /\ yielding[t] # "none"
       IN  /\ frames' = [frames EXCEPT ![t] = Append(@, "async")]
           /\ leaf' = [leaf EXCEPT ![t] = Depth(t) + 1]
           /\ awaiting' = IF reported THEN awaiting ELSE awaiting \cup {Now}
           /\ pending' = IF reported THEN [pending EXCEPT ![t] = "idle"] ELSE pending
           /\ yielding' = IF reported THEN Taken(t) ELSE yielding
    /\ rust' = <<>>
    /\ UNCHANGED <<entry, nullci, abandoned>>

(* An executor polls a future whose AsyncFp has become ready.              *)
Wake(d) ==
    /\ ~Running
    /\ frames' = Popped(d.th)
    /\ rust' = <<d>>
    /\ awaiting' = awaiting \ {d}
    /\ UNCHANGED <<entry, pending, leaf, yielding, nullci, abandoned>>

(* Dropping Resume gives the borrow of pending back and keeps the future.  *)
Dropped(d) == IF d.how = "async_resume" THEN [pending EXCEPT ![d.th] = "idle"] ELSE pending

(* A future is dropped between two polls. That of async_call leaves its    *)
(* frames on the stack.                                                    *)
DropFuture(d) ==
    /\ ~Running
    /\ awaiting' = awaiting \ {d}
    /\ pending' = Dropped(d)
    /\ abandoned' = IF d.how = "async_resume" THEN abandoned \cup {d.th} ELSE abandoned
    /\ UNCHANGED <<entry, frames, leaf, yielding, rust, nullci>>

FaultyLeft == <<>>

(* The CallInfo luaD_call restores on an error and luaD_poscall on success *)
Left == SubSeq(frames[Now.th], 1, Now.base - 1)

FaultyFinished == pending

(* resume and async_resume clear pending when the coroutine has finished.  *)
Finished == IF Yieldable THEN [pending EXCEPT ![Now.th] = "none"] ELSE pending

(* The function that runs returns or fails, out of what drives it.         *)
Return ==
    /\ Running
    /\ frames' = [frames EXCEPT ![Now.th] = Left]
    /\ pending' = Finished
    /\ rust' = Front(rust)
    /\ UNCHANGED <<entry, leaf, yielding, awaiting, nullci, abandoned>>

(* auxstatus of coroutine.status                                           *)
FaultyStatus(t) ==
    IF Running /\ Now.th = t THEN "running"
    ELSE IF Busy(t) THEN IF pending[t] # "none" THEN "suspended" ELSE "normal"
    ELSE IF IsStackEmpty(t) THEN "dead" ELSE "suspended"

Status(t) ==
    IF Running /\ Now.th = t THEN "running"
    ELSE IF Busy(t) THEN IF pending[t] = "idle" THEN "suspended" ELSE "normal"
    ELSE IF IsStackEmpty(t) THEN "dead" ELSE "suspended"

(* After a return through the null CallInfo nothing is defined.            *)
Next ==
    /\ ~nullci
    /\ \/ \E t \in Threads :
             \/ SetEntry(t) \/ Call(t) \/ AsyncCall(t)
             \/ ResumeDropped(t) \/ ResumeReady(t) \/ ResumeUnready(t)
             \/ \E how \in {"resume", "async_resume"} : Start(t, how) \/ Resume(t, how)
       \/ Yield \/ Await \/ Return
       \/ \E d \in awaiting : Wake(d) \/ DropFuture(d)

Spec == Init /\ [][Next]_vars

-----------------------------------------------------------------------------
(* Properties.                                                             *)

Drives ==
    [th : Threads, how : {"call", "async_call", "resume", "async_resume"}, base : Nat \ {0}]

(* Every field of a thread, and what drives it, is of its kind; what lies  *)
(* lowest on a stack was called.                                           *)
TypeOK ==
    /\ entry \in [Threads -> BOOLEAN]
    /\ frames \in [Threads -> Seq({"body", "call", "yield", "async"})]
    /\ \A t \in Threads : Busy(t) => Head(frames[t]) \in {"body", "call"}
    /\ pending \in [Threads -> {"none", "idle", "borrowed"}]
    /\ leaf \in [Threads -> Nat]
    /\ yielding \in [Threads -> {"none", "args"}]
    /\ rust \in Seq(Drives)
    /\ awaiting \subseteq Drives
    /\ nullci \in BOOLEAN
    /\ abandoned \subseteq Threads

(* The frame a Rust future will return through is still its own, and only  *)
(* frames of what was started later lie above it, however calls, yields,   *)
(* resumptions and dropped futures of the thread have followed each other. *)
FramesIntact ==
    /\ \A i \in DOMAIN rust :
          LET d == rust[i]
          IN  /\ d.base \in DOMAIN frames[d.th]
              /\ frames[d.th][d.base] = IF d.how \in {"call", "async_call"} THEN "call" ELSE "body"
              /\ \A j \in i+1..Len(rust) : rust[j].th = d.th => rust[j].base > d.base
    /\ \A t \in Threads : pending[t] = "idle" =>
          leaf[t] \in DOMAIN frames[t] /\ frames[t][leaf[t]] \in {"yield", "async"}
    /\ \A d \in awaiting :
          leaf[d.th] \in DOMAIN frames[d.th] /\ frames[d.th][leaf[d.th]] = "async"

(* Thread.pending is borrowed exactly while one resumption of the thread   *)
(* is active, awaiting included, so that two never drive one coroutine and *)
(* a finished future is never polled again.                                *)
ResumedOnce ==
    \A t \in Threads :
        LET active == {i \in DOMAIN rust : rust[i].th = t /\ rust[i].how \in {"resume", "async_resume"}}
            waiting == {d \in awaiting : d.th = t /\ d.how = "async_resume"}
        IN  /\ Cardinality(active) + Cardinality(waiting) <= 1
            /\ pending[t] = "borrowed" <=> active \cup waiting # {}

(* Thread.yielding carries a number between resume and YieldInvoker and is *)
(* empty whenever a function runs, or else the next yield of the coroutine *)
(* would take it for the answer to itself. This holds of every thread none *)
(* of whose async_resume was dropped, whatever happens to the others.      *)
YieldAnswered == \A t \in Threads : yielding[t] # "none" => t \in abandoned

(* No YieldFp returns through a CallInfo that was never set ("100% safety",*)
(* README.md:18).                                                          *)
NoNullCallInfo == ~nullci

(* What coroutine.status says is true: a "suspended" thread was not started *)
(* or stands in a yield and nobody is resuming it, a "dead" one has nothing *)
(* to go on with for anybody, and a "normal" one is being driven, waits for *)
(* an executor or was left behind by its async_call.                       *)
StatusTrue ==
    \A t \in Threads :
        LET active == \E i \in DOMAIN rust : rust[i].th = t
            waits == \E d \in awaiting : d.th = t
            resumed == Driven(t, "resume") \/ Driven(t, "async_resume") \/ waits
        IN  /\ Status(t) = "suspended" => ~resumed /\ (entry[t] \/ frames[t][leaf[t]] \in {"yield", "async"})
            /\ Status(t) = "dead" => ~active /\ ~waits
            /\ Status(t) = "normal" => active \/ waits \/ frames[t] = <<"call", "async">>

(* Calls on the stack of a suspended coroutine leave it as it was: its     *)
(* frames change in a resumption only.                                     *)
SuspendedUntouched ==
    [][\A t \in Threads :
          pending[t] = "idle" /\ pending'[t] = "idle"
            => leaf'[t] = leaf[t] /\ IsPrefix(SubSeq(frames[t], 1, leaf[t]), frames'[t])]_vars

(***************************************************************************)
(* The invariant behind these properties, of programs that do not resume a *)
(* thread from inside a call on it: every frame that does not belong to a  *)
(* suspension is the frame of exactly one drive.                           *)
(***************************************************************************)
Async == {"async_call", "async_resume"}
Resumes == {"resume", "async_resume"}
Root(how) == IF how \in Resumes THEN "body" ELSE "call"

(* A suspension takes the lowest two frames: an entry point or function,   *)
(* and the yield or the future it waits for.                               *)
Suspended(t) == Depth(t) >= 2 /\ frames[t][2] \in {"yield", "async"}
LowestDriven(t) == IF Suspended(t) THEN 3 ELSE 1

(* The drives of a thread and its frames correspond, in order; all but     *)
(* calls return through the lowest frame, and an executor polls at the     *)
(* bottom of the Rust stack.                                               *)
Nested ==
    /\ \A t \in Threads : \A i \in DOMAIN rust :
          rust[i].th = t =>
            /\ rust[i].base \in LowestDriven(t)..Depth(t)
            /\ frames[t][rust[i].base] = Root(rust[i].how)
    /\ \A i \in DOMAIN rust :
          /\ rust[i].how # "call" => rust[i].base = 1
          /\ rust[i].how \in Async => i = 1
    /\ \A i, j \in DOMAIN rust :
          i < j /\ rust[i].th = rust[j].th => rust[i].base < rust[j].base
    /\ \A t \in Threads : \A b \in LowestDriven(t)..Depth(t) :
          \E i \in DOMAIN rust : rust[i].th = t /\ rust[i].base = b

(* An executor holds futures of suspended threads only, at an AsyncFp.     *)
Waits ==
    \A d \in awaiting :
        /\ d.how \in Async /\ d.base = 1
        /\ Suspended(d.th) /\ leaf[d.th] = 2
        /\ frames[d.th][1] = Root(d.how) /\ frames[d.th][2] = "async"

(* A resumption of the thread runs or waits for an executor.               *)
Resumed(t) ==
    \/ \E i \in DOMAIN rust : rust[i].th = t /\ rust[i].how \in Resumes
    \/ \E d \in awaiting : d.th = t /\ d.how \in Resumes

(* What pending says of a thread.                                          *)
PendingTrue(t) ==
    /\ pending[t] = "idle" => Suspended(t) /\ leaf[t] = 2 /\ frames[t][1] = "body"
    /\ pending[t] = "idle" /\ frames[t][2] = "async" => t \in abandoned
    /\ Suspended(t) /\ frames[t][1] = "body" => pending[t] # "none"
    /\ Suspended(t) /\ frames[t][1] = "call" => frames[t][2] = "async"
    /\ pending[t] = "borrowed" <=> Resumed(t)

CoInv ==
    /\ TypeOK /\ Nested /\ Waits /\ YieldAnswered
    /\ \A t \in Threads : PendingTrue(t)
==========================================================================
