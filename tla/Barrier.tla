------------------------------ MODULE Barrier ------------------------------
(***************************************************************************)
(* The barrier around every native entry point (src/rmbl_barrier.cpp and   *)
(* src/rmbl_entry.h): calls that nest, a Ctrl-C and a setTimeLimit() limit *)
(* that a kernel's poll takes from R, and how each call ends.              *)
(*                                                                         *)
(* frames is the C stack.  R code that a kernel runs is a frame too: the   *)
(* progress closure of a download, or an event handler (a GUI's callback)  *)
(* that R runs while it is polled.  An event handler may call the package  *)
(* again.  Another package's call of a C-API kernel has no barrier.        *)
(***************************************************************************)
EXTENDS Integers, Sequences, FiniteSets

CONSTANT MaxFrames      \* bound on the stack

ASSUME MaxFramesAssumption == MaxFrames \in Nat

VARIABLES
    frames,
    depth,      \* rmbl_barrier_depth
    flag,       \* rmbl_kernel_interrupted
    kept,       \* rmbl_pending_error holds the message of a time limit
    ctrlC,      \* R has a Ctrl-C pending
    limit,      \* the next check for events raises the time limit's error
    ended       \* history: the last native call that ended, and how

barrierVars == <<frames, depth, flag, kept, ctrlC, limit, ended>>

NativeKinds == {"guard", "kernel"}
RKinds      == {"closure", "event"}

\* stopped: a poll answered 1; failed: the closure it ran failed; owes: it, or the
\* closure it ran, took a Ctrl-C or a time limit that is to be raised
Frame == [kind : NativeKinds \cup RKinds, stopped : BOOLEAN, failed : BOOLEAN, owes : BOOLEAN]
New(kind) == [kind |-> kind, stopped |-> FALSE, failed |-> FALSE, owes |-> FALSE]

HowEnded == {"value", "error", "interrupt", "kept"}

Pop(stack)  == SubSeq(stack, 1, Len(stack) - 1)
\* a poll of the top frame answers 1; its closure fails
Stop(stack) == [stack EXCEPT ![Len(stack)].stopped = TRUE, ![Len(stack)].owes = TRUE]
Fail(stack) == [stack EXCEPT ![Len(stack)].failed = TRUE]

Top    == frames[Len(frames)]
Below  == Pop(frames)
AtTop  == frames = <<>>
On(kinds) == ~AtTop /\ Top.kind \in kinds

BarrierInit ==
    /\ frames = <<>> /\ depth = 0
    /\ flag = FALSE /\ kept = FALSE /\ ctrlC = FALSE /\ limit = FALSE
    /\ ended = [owes |-> FALSE, how |-> "value"]

-----------------------------------------------------------------------------
(* Calls.                                                                  *)

MayEnter == ~On(NativeKinds \cup {"closure"}) /\ Len(frames) < MaxFrames

\* mutant: what a call before left in the flag stays
EnterUncleared ==
    /\ MayEnter
    /\ frames' = Append(frames, New("guard"))
    /\ depth' = depth + 1
    /\ UNCHANGED <<flag, kept, ctrlC, limit, ended>>

\* R code calls a registered entry point: rmbl_guard() up to the body
Enter ==
    /\ MayEnter
    /\ frames' = Append(frames, New("guard"))
    /\ depth' = depth + 1
    /\ flag' = FALSE
    /\ UNCHANGED <<kept, ctrlC, limit, ended>>

\* Another package calls a kernel of the C API, outside any call of this package
EnterKernel ==
    /\ AtTop /\ MaxFrames > 0
    /\ frames' = <<New("kernel")>>
    /\ UNCHANGED <<depth, flag, kept, ctrlC, limit, ended>>

\* A kernel runs R code, in a top-level context of its own
RunR(kind) ==
    /\ On(NativeKinds) /\ ~Top.stopped /\ ~Top.failed
    /\ Len(frames) < MaxFrames
    /\ frames' = Append(frames, New(kind))
    /\ UNCHANGED <<depth, flag, kept, ctrlC, limit, ended>>

\* The R code is done
ReturnR ==
    /\ On(RKinds)
    /\ frames' = Below
    /\ UNCHANGED <<depth, flag, kept, ctrlC, limit, ended>>

\* The closure raises an error: R_tryEvalSilent() says so and xferinfo() ends the
\* transfer
FailClosure ==
    /\ On({"closure"})
    /\ frames' = Fail(Below)
    /\ UNCHANGED <<depth, flag, kept, ctrlC, limit, ended>>

\* R's evaluator takes a Ctrl-C inside the closure.  Its jump ends at
\* R_tryEvalSilent(), which reports it as it reports an error.
InterruptClosure ==
    /\ On({"closure"})
    /\ ctrlC /\ ctrlC' = FALSE
    /\ frames' = Fail([Below EXCEPT ![Len(Below)].owes = TRUE])
    /\ UNCHANGED <<depth, flag, kept, limit, ended>>

\* rmbl_interrupt_pending(): R's check for events raises a time limit first, whose
\* message is kept, and then a Ctrl-C
Poll ==
    /\ On(NativeKinds) /\ ~Top.stopped /\ ~Top.failed
    /\ limit \/ ctrlC \/ kept
    /\ kept' = (kept \/ limit)
    /\ limit' = FALSE
    /\ ctrlC' = (ctrlC /\ limit)
    /\ frames' = Stop(frames)
    /\ UNCHANGED <<depth, flag, ended>>

\* R jumps out of what ran above stack, with an error or an interrupt.  R code on
\* stack catches it (at top level, the prompt).  Or no code of an event handler does,
\* and it ends the poll that ran the handler: an interrupt at R_ToplevelExec(), an
\* error at rmbl_chk_error_(), which keeps its message.
Jump(stack, isError, held) ==
    \/ frames' = stack /\ kept' = held
    \/ stack # <<>> /\ frames' = Stop(Pop(stack)) /\ kept' = (held \/ isError)

\* R's own check, in an event handler or at top level
RTakes ==
    /\ ~On(NativeKinds \cup {"closure"})
    /\ limit \/ ctrlC
    /\ limit' = FALSE
    /\ ctrlC' = (ctrlC /\ limit)
    /\ Jump(frames, limit, kept)
    /\ UNCHANGED <<depth, flag, ended>>

\* An event handler fails
FailEvent ==
    /\ On({"event"})
    /\ Jump(frames, TRUE, kept)
    /\ UNCHANGED <<depth, flag, ctrlC, limit, ended>>

-----------------------------------------------------------------------------
(* How a native call ends.                                                 *)

Ends(how) == ended' = [owes |-> Top.owes, how |-> how]

Value == frames' = Below /\ Ends("value") /\ UNCHANGED kept
Error == Jump(Below, TRUE, kept) /\ Ends("error")

\* mutant: the message stays
RaiseKept == Jump(Below, kept, kept) /\ Ends(IF kept THEN "kept" ELSE "interrupt")

\* rmbl_raise_interrupt(): the kept message as an error, else R's interrupt
Raise == Jump(Below, kept, FALSE) /\ Ends(IF kept THEN "kept" ELSE "interrupt")

\* mutant: the depth is not put back
LeaveRaised == flag' = FALSE /\ UNCHANGED <<depth, ctrlC, limit>>

\* rmbl_guard() after its body: everything is cleared up before any jump
Leave == flag' = FALSE /\ depth' = depth - 1 /\ UNCHANGED <<ctrlC, limit>>

\* The body returned, after setting the flag if a poll had stopped it, or threw
\* Interrupt
Return ==
    /\ On({"guard"})
    /\ IF Top.stopped \/ flag THEN Raise ELSE Value
    /\ Leave

\* The body threw (an argument error, bad_alloc, any other exception), or raised an R
\* error, whose jump passes rmbl_unwound() on its way out
Throw ==
    /\ On({"guard"}) /\ ~Top.stopped
    /\ Error
    /\ Leave

\* A kernel of the C API returns; stopped, it raises here unless a barrier will
\* (rmbl_interrupt_raise_unbarriered())
KernelReturn ==
    /\ On({"kernel"})
    /\ flag' = (flag \/ Top.stopped)
    /\ IF Top.stopped /\ depth = 0 THEN Raise ELSE Value
    /\ UNCHANGED <<depth, ctrlC, limit>>

\* A kernel of the C API ends in an R error: rmbl_arg_error() without a barrier
KernelFail ==
    /\ On({"kernel"}) /\ ~Top.stopped /\ depth = 0
    /\ Error
    /\ UNCHANGED <<depth, flag, ctrlC, limit>>

-----------------------------------------------------------------------------
(* The user, the clock, and the whole.                                     *)

PressCtrlC ==
    /\ ~ctrlC /\ ctrlC' = TRUE
    /\ UNCHANGED <<frames, depth, flag, kept, limit, ended>>

LimitReached ==
    /\ ~limit /\ limit' = TRUE
    /\ UNCHANGED <<frames, depth, flag, kept, ctrlC, ended>>

\* No Ctrl-C lands in the progress closure
BarrierNext ==
    \/ Enter \/ EnterKernel
    \/ \E kind \in RKinds : RunR(kind)
    \/ ReturnR \/ FailClosure \/ FailEvent \/ Poll \/ RTakes
    \/ Return \/ Throw \/ KernelReturn \/ KernelFail
    \/ PressCtrlC \/ LimitReached

BarrierSpec == BarrierInit /\ [][BarrierNext]_barrierVars

-----------------------------------------------------------------------------
(* Properties.                                                             *)

BarrierTypeOK ==
    /\ frames \in Seq(Frame) /\ Len(frames) <= MaxFrames
    /\ depth \in Nat
    /\ {flag, kept, ctrlC, limit} \subseteq BOOLEAN
    /\ ended \in [owes : BOOLEAN, how : HowEnded]

\* The depth is the number of barriers on the stack, whichever way calls have ended:
\* one too many, and every later Ctrl-C in another package's call is dropped.
DepthIsBarriers ==
    depth = Cardinality({i \in 1 .. Len(frames) : frames[i].kind = "guard"})

\* A message that is kept is raised by the call that took it: with none under way
\* there is none, so no later call ends with it.
KeptIsOwed == kept => ~AtTop /\ Top.stopped

\* A call ends as interrupted, or with a message that was kept, exactly when a Ctrl-C
\* or an error of R's event check was taken on its behalf.
RaisedIffTaken == ended.owes <=> ended.how \in {"interrupt", "kept"}
=============================================================================
