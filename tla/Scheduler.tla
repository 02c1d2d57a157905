------------------------------- MODULE Scheduler -------------------------------
(***************************************************************************)
(* Tasks and the task scheduler (src/src/task.c) on top of the fiber layer. *)
(*                                                                         *)
(* Control is a stack of frames per fiber, top first.  A frame is a C call *)
(* that is still running: PHP code, a blocked await, a loop that resumes   *)
(* waiting operations, the scheduler loop.  Exactly one fiber runs; it      *)
(* executes the step of its top frame.  PHP code is arbitrary: a "code"     *)
(* frame may make any call of the API that the code lets it make.           *)
(***************************************************************************)
EXTENDS Fibers, Integers, FiniteSets

CONSTANTS Tasks,        \* Task objects the program may create
          Exts,         \* other awaitables (a Deferred, an AwaitableImpl)
          Queues,       \* operation lists used with async_await_op
          Pending,      \* the one of Queues that is scheduler->operations
          Background,   \* owners whose context is a background context
          Cancellable,  \* owners whose context has a cancellation
          MaxOps,       \* bound: calls of async_await_op in a behaviour
          MaxRuns,      \* bound: executions of one task callback
          Careful,      \* PHP code stays clear of the two inlining defects (a
                        \* task executed twice, a pending wait for a task that
                        \* has no fiber) and of a task that waits for itself
          Faults        \* exit() and errors in event callbacks happen

Owners == Tasks \cup {Root}      \* who an operation belongs to (op->arg)
Awaitables == Tasks \cup Exts
Lists == Awaitables \cup Queues
Fiber == Owners \cup {Runner}

ASSUME NamesAssumption ==
    /\ Root # Runner /\ NoFiber \notin Fiber
    /\ {Root, Runner, NoFiber} \cap (Tasks \cup Exts \cup Queues) = {}
    /\ Tasks \cap Exts = {} /\ Awaitables \cap Queues = {}
    /\ Pending \in Queues
ASSUME SetsAssumption ==
    /\ Background \subseteq Owners /\ Cancellable \subseteq Owners
    /\ MaxOps \in Nat /\ MaxRuns \in Nat
    /\ Careful \in BOOLEAN /\ Faults \in BOOLEAN
    /\ IsFiniteSet(Tasks)

VARIABLES stack,      \* per fiber: its C frames, top first
          status,     \* task->status, or the status of an awaitable
          spawned,    \* tasks with task->fiber # NULL
          disposed,   \* tasks with ASYNC_TASK_FLAG_DISPOSED
          ready,      \* scheduler->ready; Root stands for scheduler->root
          idle,       \* the idle watcher that calls dispatch_tasks is active
          op,         \* the operation each owner is (or was last) waiting on
          ops,        \* the operations queued on each list, as owners
          callbacks,  \* callbacks of the cancellation, as owners
          triggered,  \* the cancellation has been triggered
          caller,     \* scheduler->caller; NoFiber iff FLAG_RUNNING is clear
          busy,       \* scheduler->busy_count
          stopped,    \* FLAG_ERROR iff not empty: "error" (scheduler->error is
                      \* set) and "exit" (ASYNC_G(exit) is set)
          uvstop,     \* uv_stop has been called during the current uv_run
          closed,     \* ASYNC_TASK_SCHEDULER_FLAG_DISPOSED
          runs,       \* history: executions of the callback of each task
          issued      \* bound: calls of async_await_op so far

fiberVars == <<fiber, fibers, stack>>
taskVars  == <<status, spawned, disposed, runs>>
readyVars == <<ready, idle>>
opVars    == <<op, ops, callbacks, issued>>
loopVars  == <<caller, busy>>
stopVars  == <<triggered, stopped, uvstop, closed>>
vars == <<fiberVars, taskVars, readyVars, opVars, loopVars, stopVars>>
-------------------------------------------------------------------------------
(* Frames.  x is what the frame is about, o the owner of an operation.      *)
Frame(k, x, o) == [k |-> k, x |-> x, o |-> o]
Code(o)      == Frame("code", o, o)         \* PHP code of task o (or main)
Body(t)      == Frame("body", t, t)         \* run_task_fiber
Inline(t, o) == Frame("inline", t, o)       \* async_task_execute_inline, for o
Ret(x, t)    == Frame("ret", x, t)          \* t returned the awaitable x
Fin(how)     == Frame(how, Root, Root)      \* the code above has ended
Await(x, o)  == Frame("await", x, o)        \* blocked in await_val
Wait(q, o)   == Frame("wait", q, o)         \* blocked in async_await_op
Trigger(x)   == Frame("trigger", x, Root)   \* loop over the operations of x
Resched(t)   == Frame("resched", t, Root)   \* reschedule_task, after the switch
Inlined(t)   == Frame("inlined", t, Root)   \* inline execution is over
Bailing      == Frame("bail", Root, Root)   \* zend_bailout leaves an inline one
Cancel       == Frame("cancel", Root, Root) \* loop over cancel callbacks
Dispatch     == Frame("dispatch", Root, Root)
Loop         == Frame("loop", Root, Root)
Main         == Frame("main", Root, Root)   \* execute_root
End          == Frame("end", Root, Root)    \* about to suspend for good
Drain        == Frame("drain", Root, Root)  \* first run_loop of dispose
Shut         == Frame("shut", Root, Root)   \* failing what is still pending
Rerun        == Frame("rerun", Root, Root)  \* run_loop after shutdown
Done         == Frame("done", Root, Root)

Outcomes == {"ok", "fail", "exit"}
Top == Head(stack[fiber])
Rest == Tail(stack[fiber])
Goto(s) == stack' = [stack EXCEPT ![fiber] = s]

NoOp == [status |-> "PENDING", cancelled |-> FALSE, defer |-> FALSE]
Settled(x) == status[x] \in {"FINISHED", "FAILED"}

Init ==
    /\ fiber = Root /\ fibers = <<>>
    /\ stack = [f \in Fiber \cup {NoFiber} |->
                   CASE f = Root   -> <<Code(Root), Main>>
                     [] f = Runner -> <<Loop>>
                     [] OTHER      -> <<End>>]
    /\ status = [x \in Awaitables |-> IF x \in Tasks THEN "NONE" ELSE "PENDING"]
    /\ spawned = {} /\ disposed = {}
    /\ ready = <<>> /\ idle = FALSE
    /\ op = [o \in Owners |-> NoOp]
    /\ ops = [l \in Lists |-> <<>>]
    /\ callbacks = <<>> /\ triggered = FALSE
    /\ caller = NoFiber /\ busy = 0
    /\ stopped = {} /\ uvstop = FALSE /\ closed = FALSE
    /\ runs = [t \in Tasks |-> 0] /\ issued = 0
-------------------------------------------------------------------------------
(* Helpers.                                                                 *)
Foreground(o) == o \notin Background
Weight(o) == IF Foreground(o) THEN 1 ELSE 0
Enter(o) == busy' = busy + Weight(o)        \* ASYNC_BUSY_ENTER
Leave(o) == busy' = busy - Weight(o)        \* ASYNC_BUSY_EXIT

(* The loop has something to do: uv_loop_alive.  Requests of the list       *)
(* scheduler->operations are backed by active libuv handles.                *)
Alive == idle \/ busy > 0 \/ ops[Pending] # <<>>

(* FLAG_ACTIVE: the runner is inside uv_run, running or waiting to go on.   *)
Active == Runner \in {fiber} \cup ToSet(fibers)

(* async_task_scheduler_handle_exit and _handle_error                       *)
Stop(why) ==
    /\ stopped' = stopped \cup {why}
    /\ uvstop' = (uvstop \/ Active)

(* async_task_scheduler_enqueue.  NONE is a task that is being created: the *)
(* code sees status INIT, which such a task has at this call alone.         *)
EnqueueUnwatched(t) ==
    IF t = Root \/ status[t] \in {"NONE", "SUSPENDED"}
    THEN ready' = Append(ready, t) /\ UNCHANGED idle
    ELSE UNCHANGED readyVars
Enqueue(t) ==
    IF t = Root \/ status[t] \in {"NONE", "SUSPENDED"}
    THEN ready' = Append(ready, t) /\ idle' = (ready = <<>> \/ idle)
    ELSE UNCHANGED readyVars

(* async_task_scheduler_run_loop: s is what the main fiber goes on with.    *)
RunLoop(s) == caller' = fiber /\ Goto(s) /\ Suspend

(* The callback of an operation: continue_op_task / reschedule_task or      *)
(* continue_op_root / reschedule_root.  s is the rest of the caller's loop. *)
WakeTask(t, defer, s) ==
    IF defer
    THEN Enqueue(t) /\ Goto(s) /\ UNCHANGED <<fiber, fibers, status>>
    ELSE /\ status' = [status EXCEPT ![t] = "RUNNING"]
         /\ Goto(<<Resched(t)>> \o s)
         /\ Switch(IF t \in spawned THEN t ELSE NoFiber)
         /\ UNCHANGED readyVars
WakeRoot(defer, s) ==
    /\ Goto(s) /\ UNCHANGED status
    /\ IF stopped # {} THEN Suspend /\ UNCHANGED readyVars
       ELSE IF defer THEN Enqueue(Root) /\ UNCHANGED <<fiber, fibers>>
       ELSE Switch(caller) /\ UNCHANGED readyVars
Wake(o, defer, s) == IF o = Root THEN WakeRoot(defer, s) ELSE WakeTask(o, defer, s)

(* List l without the operation of o: ASYNC_LIST_REMOVE on op->list.         *)
KeepOp(l, o) == ops[l]
DropOp(l, o) == Unlink(ops[l], o)

(* ASYNC_RESOLVE_OP, ASYNC_FAIL_OP, ASYNC_FINISH_OP: take o's operation off *)
(* list l, settle it, call its callback.                                    *)
SettleOp(l, o, res, defer, s) ==
    /\ ops' = [ops EXCEPT ![l] = Unlink(@, o)]
    /\ op' = [op EXCEPT ![o] = [status |-> res, cancelled |-> @.cancelled, defer |-> defer]]
    /\ IF op[o].cancelled
       THEN Goto(s) /\ UNCHANGED <<fiber, fibers, status, ready, idle>>
       ELSE Wake(o, defer, s)

(* The busy section that ends with the PHP code on top of s: an inline       *)
(* execution leaves it before it looks at the result.                       *)
Section(s) == IF Head(s).k = "code" /\ s[2].k = "inline" THEN Weight(s[2].o) ELSE 0
EndCode(fr) == Goto(<<fr>> \o Rest) /\ busy' = busy - Section(stack[fiber])

(* s is what a C call returns to: PHP code goes on, a task that waits for   *)
(* the awaitable it returned ends with its result.                          *)
Deliver(how, s) == IF Head(s).k = "ret" THEN <<Fin(how)>> \o Tail(s) ELSE s
HowOf(res) == IF res \in {"RESOLVED", "FINISHED"} THEN "ok" ELSE "fail"

(* zend_bailout out of the call on top of s, to the closest zend_try: that  *)
(* of the body or of the inline execution the call is in.  An inline        *)
(* execution awaits what the callback returned after its zend_try; it is    *)
(* left as well, for what it was called from.                               *)
Bail(s) == IF Head(s).k = "ret" /\ s[2].k = "inline"
           THEN <<Bailing>> \o Tail(Tail(s))
           ELSE <<Fin("exit")>> \o Tail(s)
-------------------------------------------------------------------------------
(* What PHP code may call.                                                  *)
InCode == Top.k = "code"

(* The checks of await_val and async_await_op, for the task that awaits (or *)
(* the main script).  When one fails, an Error is thrown in the PHP code.   *)
CanAwait(o) ==
    /\ ~closed /\ stopped = {}
    /\ IF o = Root THEN caller = NoFiber
                   ELSE status[o] = "RUNNING" /\ o \notin disposed

(* Task::async / Task::asyncWithContext, async_task_object_create           *)
Async(t) ==
    /\ InCode /\ status[t] = "NONE"
    /\ Enqueue(t)
    /\ status' = [status EXCEPT ![t] = "INIT"]
    /\ UNCHANGED <<fiberVars, spawned, disposed, runs, opVars, loopVars, stopVars>>

(* The task an await is made for: the one of the fiber, also in PHP code    *)
(* that is executed inline; for a returned awaitable, the returning task.   *)
Awaiter == IF InCode THEN fiber ELSE Top.o
MayAwait(x) ==
    /\ \/ InCode /\ status[x] # "NONE"
       \/ Top.k = "ret" /\ x = Top.x
    /\ CanAwait(Awaiter)
    /\ Careful => x # Awaiter

(* task_await_delegate, first half: a task without a fiber is executed      *)
(* right here.                                                              *)
ReadyStill(x) == ready
ReadyWithout(x) == Unlink(ready, x)
Inlinable(x) == x \in Tasks /\ x \notin spawned
AwaitInline(x) ==
    /\ MayAwait(x) /\ Inlinable(x)
    /\ Careful => status[x] = "INIT"
    /\ runs[x] < MaxRuns
    /\ ready' = ReadyWithout(x)
    /\ status' = [status EXCEPT ![x] = "RUNNING"]
    /\ runs' = [runs EXCEPT ![x] = @ + 1]
    /\ Enter(Top.o)
    /\ Goto(<<Code(x), Inline(x, Top.o)>> \o stack[fiber])
    /\ UNCHANGED <<fiber, fibers, spawned, disposed, idle, opVars, caller, stopVars>>

(* await_val with a pending awaitable: queue the operation and block.       *)
AwaitBlock(x) ==
    /\ MayAwait(x) /\ ~Inlinable(x) /\ ~Settled(x)
    /\ Careful => Awaiter = fiber
    /\ op' = [op EXCEPT ![Awaiter] = [NoOp EXCEPT !.status = "RUNNING"]]
    /\ ops' = [ops EXCEPT ![x] = Append(@, Awaiter)]
    /\ Enter(Top.o)
    /\ LET s == <<Await(x, Awaiter)>> \o stack[fiber]
       IN IF Awaiter = Root THEN RunLoop(s)
                            ELSE Goto(s) /\ Suspend /\ UNCHANGED caller
    /\ UNCHANGED <<taskVars, readyVars, callbacks, issued, stopVars>>

(* A returned awaitable that is settled already, or that cannot be awaited. *)
ReturnSettled ==
    /\ Top.k = "ret"
    /\ \/ CanAwait(Top.o) /\ ~Inlinable(Top.x) /\ Settled(Top.x)
          /\ Goto(Deliver(HowOf(status[Top.x]), stack[fiber]))
       \/ ~CanAwait(Top.o) /\ Goto(Deliver("fail", stack[fiber]))
    /\ UNCHANGED <<fiber, fibers, taskVars, readyVars, opVars, loopVars, stopVars>>

(* async_await_op on list q.  Its callers on other lists than               *)
(* scheduler->operations bracket the call with a busy section.              *)
NeverCancelled(o) == FALSE
AlreadyCancelled(o) == o \in Cancellable /\ triggered
AwaitOp(q) ==
    /\ InCode /\ CanAwait(fiber) /\ issued < MaxOps
    /\ ~AlreadyCancelled(Top.o)
    /\ issued' = issued + 1
    /\ op' = [op EXCEPT ![fiber] = [NoOp EXCEPT !.status = "RUNNING"]]
    /\ ops' = [ops EXCEPT ![q] = Append(@, fiber)]
    /\ callbacks' = IF Top.o \in Cancellable THEN Append(callbacks, fiber) ELSE callbacks
    /\ IF q = Pending THEN UNCHANGED busy ELSE Enter(Top.o)
    /\ LET s == <<Wait(q, Top.o)>> \o stack[fiber]
       IN IF fiber = Root
          THEN RunLoop(s) /\ UNCHANGED status
          ELSE /\ Goto(s) /\ Suspend /\ UNCHANGED caller
               /\ status' = [status EXCEPT ![fiber] = "SUSPENDED"]
    /\ UNCHANGED <<spawned, disposed, runs, readyVars, stopVars>>

(* Code settles an awaitable: Deferred::resolve / fail,                     *)
(* async_awaitable_resolve / async_awaitable_fail.                          *)
Open(e) == status[e] = "PENDING"
SettleExt(e, res) ==
    /\ InCode /\ Open(e)
    /\ status' = [status EXCEPT ![e] = res]
    /\ Goto(<<Trigger(e)>> \o stack[fiber])
    /\ UNCHANGED <<fiber, fibers, spawned, disposed, runs, readyVars, opVars, loopVars, stopVars>>

(* Code finishes the first operation of a list, now or deferred.            *)
Signal(q, defer) ==
    /\ InCode /\ q # Pending /\ ops[q] # <<>>
    /\ SettleOp(q, Head(ops[q]), "RESOLVED", defer, stack[fiber])
    /\ UNCHANGED <<spawned, disposed, runs, callbacks, issued, loopVars, stopVars>>

(* The cancellation is triggered: CancellationHandler::__invoke.            *)
CancelCall ==
    /\ InCode /\ Cancellable # {} /\ ~triggered
    /\ triggered' = TRUE
    /\ Goto(<<Cancel>> \o stack[fiber])
    /\ UNCHANGED <<fiber, fibers, taskVars, readyVars, opVars, loopVars, stopped, uvstop, closed>>

(* The PHP code returns a plain value or throws.                            *)
Return(how) ==
    /\ InCode /\ how \in {"ok", "fail"}
    /\ EndCode(Fin(how))
    /\ UNCHANGED <<fiber, fibers, taskVars, readyVars, opVars, caller, stopVars>>

(* The PHP code of a task returns an awaitable.  An inline execution leaves  *)
(* its busy section before it awaits what the callback returned.  Careful:  *)
(* that is settled, or executed inline in turn, for a foreground owner by a *)
(* task of the foreground.                                                  *)
ReturnAwaitable(x) ==
    /\ InCode /\ Top.o # Root /\ status[x] # "NONE"
    /\ Careful => /\ x # Top.o /\ (Inlinable(x) => status[x] = "INIT")
                  /\ Head(Rest).k = "inline" =>
                       \/ Settled(x)
                       \/ Inlinable(x) /\ (Foreground(Head(Rest).o) => Foreground(Top.o))
    /\ EndCode(Ret(x, Top.o))
    /\ UNCHANGED <<fiber, fibers, taskVars, readyVars, opVars, caller, stopVars>>

(* The PHP code calls exit().                                               *)
Exit ==
    /\ InCode /\ Faults
    /\ EndCode(Fin("exit"))
    /\ UNCHANGED <<fiber, fibers, taskVars, readyVars, opVars, caller, stopVars>>
-------------------------------------------------------------------------------
(* What the C code does next: one action per frame.                         *)

(* run_task_fiber and task_run_opcode_handler, after the callback.  exit()  *)
(* is caught here; the task keeps the status it has.                        *)
FinishBody(how) ==
    /\ Top = Fin(how) /\ Head(Rest).k = "body"
    /\ LET t == Head(Rest).x
       IN IF how = "exit"
          THEN Stop("exit") /\ Goto(<<End>>) /\ UNCHANGED status
          ELSE /\ status' = [status EXCEPT ![t] = IF how = "ok" THEN "FINISHED" ELSE "FAILED"]
               /\ Goto(<<Trigger(t), End>>)
               /\ UNCHANGED <<stopped, uvstop>>
    /\ UNCHANGED <<fiber, fibers, spawned, disposed, runs, readyVars, opVars, loopVars,
                   triggered, closed>>

(* async_task_execute_inline, after the callback, and async_task_dispose.   *)
FinishInline(how) ==
    /\ Top = Fin(how) /\ Head(Rest).k = "inline"
    /\ LET t == Head(Rest).x
           s == <<Inlined(t)>> \o Tail(Rest)
       IN /\ status' = [status EXCEPT ![t] = IF how = "fail" THEN "FAILED" ELSE "FINISHED"]
          /\ disposed' = disposed \cup {t}
          /\ Goto(IF t \in disposed THEN s ELSE <<Trigger(t)>> \o s)
    /\ IF how = "exit" THEN Stop("exit") ELSE UNCHANGED <<stopped, uvstop>>
    /\ UNCHANGED <<fiber, fibers, spawned, runs, readyVars, opVars, loopVars,
                   triggered, closed>>

(* Back in task_await_delegate; ASYNC_FORWARD_EXIT comes first.             *)
ReturnInlined ==
    /\ Top.k = "inlined"
    /\ IF "exit" \in stopped
       THEN Goto(Bail(Rest)) /\ busy' = busy - Section(Rest)
       ELSE Goto(Deliver(HowOf(status[Top.x]), Rest)) /\ UNCHANGED busy
    /\ UNCHANGED <<fiber, fibers, taskVars, readyVars, opVars, caller, stopVars>>

(* zend_bailout on its way out of an inline execution.                      *)
Unwind ==
    /\ Top.k = "bail"
    /\ Goto(Bail(Rest)) /\ busy' = busy - Section(Rest)
    /\ UNCHANGED <<fiber, fibers, taskVars, readyVars, opVars, caller, stopVars>>

(* trigger_ops, and the loops of async_awaitable_resolve / _fail.           *)
Once == Rest
Again == stack[fiber]
VerdictRaw(x) == status[x]
Verdict(x) == IF status[x] = "FINISHED" THEN "RESOLVED" ELSE "FAILED"
TriggerOps ==
    /\ Top.k = "trigger"
    /\ LET x == Top.x
       IN IF ops[x] = <<>>
          THEN Goto(Rest) /\ UNCHANGED <<fiber, fibers, status, readyVars, op, ops>>
          ELSE SettleOp(x, Head(ops[x]), Verdict(x), FALSE, Again)
    /\ UNCHANGED <<spawned, disposed, runs, callbacks, issued, loopVars, stopVars>>

(* reschedule_task and dispatch_tasks, after the switch: async_task_dispose.*)
SwitchedBack(t) == t \notin disposed
Over(t) == Settled(t) /\ t \notin disposed
AfterSwitch ==
    /\ Top.k = "resched"
    /\ LET t == Top.x
       IN IF Over(t)
          THEN disposed' = disposed \cup {t} /\ Goto(<<Trigger(t)>> \o Rest)
          ELSE Goto(Rest) /\ UNCHANGED disposed
    /\ UNCHANGED <<fiber, fibers, status, spawned, runs, readyVars, opVars, loopVars, stopVars>>

(* The end of run_task_fiber.                                               *)
SuspendForGood ==
    /\ Top.k = "end" /\ fiber # NoFiber
    /\ Suspend
    /\ UNCHANGED <<stack, taskVars, readyVars, opVars, loopVars, stopVars>>

(* The main fiber leaves async_task_scheduler_run_loop when it runs again.  *)
LeaveLoop == caller' = IF fiber = Root THEN NoFiber ELSE caller

(* await_val, after the block.                                              *)
ResumeAwait ==
    /\ Top.k = "await"
    /\ LET o == Top.o
           w == Weight(Head(Rest).o)
       IN IF stopped # {}
          THEN /\ ops' = [ops EXCEPT ![Top.x] = DropOp(Top.x, o)]
               /\ op' = [op EXCEPT ![o] = NoOp]
               /\ Goto(Bail(Rest))
               /\ busy' = busy - w - Section(Rest)
          ELSE /\ op' = [op EXCEPT ![o] = IF @.status = "RUNNING" THEN @ ELSE NoOp]
               /\ Goto(Deliver(HowOf(op[o].status), Rest))
               /\ busy' = busy - w
               /\ UNCHANGED ops
    /\ IF Top.o = Root THEN LeaveLoop ELSE UNCHANGED caller
    /\ UNCHANGED <<fiber, fibers, taskVars, readyVars, callbacks, issued, stopVars>>

(* async_await_op, after the block, and the caller that frees the operation.*)
(* A bailout skips the caller, its ASYNC_BUSY_EXIT included.                *)
ResumeOp ==
    /\ Top.k = "wait"
    /\ callbacks' = Unlink(callbacks, fiber)
    /\ ops' = [ops EXCEPT ![Top.x] = DropOp(Top.x, fiber)]
    /\ op' = [op EXCEPT ![fiber] = NoOp]
    /\ IF stopped # {}
       THEN Goto(Bail(Rest)) /\ busy' = busy - Section(Rest)
       ELSE /\ Goto(Rest)
            /\ IF Top.x = Pending THEN UNCHANGED busy ELSE Leave(Top.o)
    /\ LeaveLoop
    /\ UNCHANGED <<fiber, fibers, taskVars, readyVars, issued, stopVars>>

(* chain of cancel callbacks: cancel_op and cancel_op_root.                 *)
CancelOps ==
    /\ Top.k = "cancel"
    /\ IF callbacks = <<>>
       THEN Goto(Rest) /\ UNCHANGED <<fiber, fibers, status, readyVars, op, callbacks>>
       ELSE LET o == Head(callbacks)
            IN /\ callbacks' = Tail(callbacks)
               /\ IF op[o].status = "RUNNING"
                  THEN /\ op' = [op EXCEPT ![o].status = "FAILED", ![o].cancelled = TRUE]
                       /\ Wake(o, op[o].defer, Again)
                  ELSE UNCHANGED <<fiber, fibers, stack, status, readyVars, op>>
    /\ UNCHANGED <<spawned, disposed, runs, ops, issued, loopVars, stopVars>>
-------------------------------------------------------------------------------
(* The event loop: run_scheduler_fiber and the callbacks of libuv.          *)
InLoop == Top.k = "loop"

(* The idle watcher calls dispatch_tasks.                                   *)
StartDispatch ==
    /\ InLoop /\ idle
    /\ Goto(<<Dispatch>> \o stack[fiber])
    /\ UNCHANGED <<fiber, fibers, taskVars, readyVars, opVars, loopVars, stopVars>>

(* dispatch_tasks, one round of its loop.  After an error tasks that have   *)
(* not been started are disposed instead.                                   *)
StartAnyway == TRUE
MayStart == stopped = {}
DispatchTask ==
    /\ Top.k = "dispatch" /\ ready # <<>>
    /\ ready' = Tail(ready)
    /\ LET t == Head(ready)
       IN \/ /\ t = Root
             /\ Switch(caller)
             /\ UNCHANGED <<stack, taskVars>>
          \/ /\ t \in Tasks \ spawned /\ ~MayStart
             /\ disposed' = disposed \cup {t}
             /\ Goto(IF t \in disposed THEN stack[fiber] ELSE <<Trigger(t)>> \o stack[fiber])
             /\ UNCHANGED <<fiber, fibers, status, spawned, runs>>
          \/ /\ t \in Tasks \ spawned /\ MayStart /\ runs[t] < MaxRuns
             /\ spawned' = spawned \cup {t}
             /\ status' = [status EXCEPT ![t] = "RUNNING"]
             /\ runs' = [runs EXCEPT ![t] = @ + 1]
             /\ stack' = [stack EXCEPT ![fiber] = <<Resched(t)>> \o @,
                                       ![t] = <<Code(t), Body(t)>>]
             /\ Switch(t)
             /\ UNCHANGED disposed
          \/ /\ t \in spawned
             /\ status' = [status EXCEPT ![t] = "RUNNING"]
             /\ Goto(<<Resched(t)>> \o stack[fiber])
             /\ Switch(t)
             /\ UNCHANGED <<spawned, disposed, runs>>
    /\ UNCHANGED <<idle, opVars, loopVars, stopVars>>

(* dispatch_tasks, at its end.                                              *)
StayIdle == UNCHANGED idle
StopIdle == idle' = FALSE
StopDispatch ==
    /\ Top.k = "dispatch" /\ ready = <<>>
    /\ StopIdle
    /\ Goto(Rest)
    /\ UNCHANGED <<fiber, fibers, taskVars, ready, opVars, loopVars, stopVars>>

(* A request on scheduler->operations completes, with or without an error.  *)
RequestDone(o, res) ==
    /\ InLoop /\ o \in ToSet(ops[Pending]) /\ res \in {"RESOLVED", "FAILED"}
    /\ SettleOp(Pending, o, res, FALSE, stack[fiber])
    /\ UNCHANGED <<spawned, disposed, runs, callbacks, issued, loopVars, stopVars>>

(* The timer of the cancellation fires: timed_out.                          *)
TimeOut ==
    /\ InLoop /\ Cancellable # {} /\ ~triggered
    /\ triggered' = TRUE
    /\ Goto(<<Cancel>> \o stack[fiber])
    /\ UNCHANGED <<fiber, fibers, taskVars, readyVars, opVars, loopVars, stopped, uvstop, closed>>

(* An event callback throws: async_task_scheduler_handle_error.             *)
CallbackError ==
    /\ InLoop /\ Faults /\ "error" \notin stopped
    /\ Stop("error")
    /\ UNCHANGED <<fiberVars, taskVars, readyVars, opVars, loopVars, triggered, closed>>

(* uv_run returns and the main fiber goes on.                               *)
LeaveUvRun ==
    /\ InLoop /\ (uvstop \/ ~Alive)
    /\ uvstop' = FALSE
    /\ SwitchNone(caller)
    /\ UNCHANGED <<stack, taskVars, readyVars, opVars, loopVars, triggered, stopped, closed>>
-------------------------------------------------------------------------------
(* execute_root after the main script: async_task_scheduler_dispose.        *)
FinishMain(how) ==
    /\ Top = Fin(how) /\ Head(Rest).k = "main"
    /\ IF how = "ok" THEN UNCHANGED <<stopped, uvstop>>
                     ELSE Stop(IF how = "exit" THEN "exit" ELSE "error")
    /\ IF "error" \in stopped'
       THEN /\ closed' = TRUE /\ Goto(<<Shut, Main>>)
            /\ UNCHANGED <<fiber, fibers, caller>>
       ELSE RunLoop(<<Drain, Main>>) /\ UNCHANGED closed
    /\ UNCHANGED <<taskVars, readyVars, opVars, busy, triggered>>

ResumeDrain ==
    /\ Top.k = "drain"
    /\ LeaveLoop /\ closed' = TRUE
    /\ Goto(<<Shut, Main>>)
    /\ UNCHANGED <<fiber, fibers, taskVars, readyVars, opVars, busy, triggered, stopped, uvstop>>

(* Fail what is still pending: scheduler->operations first, then the        *)
(* shutdown callbacks of awaitables and of the owners of other lists.       *)
Leftover == {q \in Queues : ops[q] # <<>>}
Unsettled == {e \in Exts : status[e] = "PENDING"}
FailLeftover(q) ==
    /\ Top.k = "shut" /\ q \in Leftover /\ (Pending \in Leftover => q = Pending)
    /\ SettleOp(q, Head(ops[q]), "FAILED", FALSE, stack[fiber])
    /\ UNCHANGED <<spawned, disposed, runs, callbacks, issued, loopVars, stopVars>>
FailUnsettled(e) ==
    /\ Top.k = "shut" /\ e \in Unsettled /\ Pending \notin Leftover
    /\ status' = [status EXCEPT ![e] = "FAILED"]
    /\ Goto(<<Trigger(e)>> \o stack[fiber])
    /\ UNCHANGED <<fiber, fibers, spawned, disposed, runs, readyVars, opVars, loopVars, stopVars>>
ShutDown ==
    /\ Top.k = "shut" /\ Leftover = {} /\ Unsettled = {}
    /\ RunLoop(<<Rerun, Main>>)
    /\ UNCHANGED <<taskVars, readyVars, opVars, busy, stopVars>>

(* The do-while of async_task_scheduler_dispose: again while the loop lives.*)
ResumeRerun ==
    /\ Top.k = "rerun"
    /\ LeaveLoop
    /\ Goto(<<IF Alive THEN Shut ELSE Done, Main>>)
    /\ UNCHANGED <<fiber, fibers, taskVars, readyVars, opVars, busy, stopVars>>
-------------------------------------------------------------------------------
PhpCode ==
    \/ \E t \in Tasks : Async(t)
    \/ \E x \in Awaitables : AwaitInline(x) \/ AwaitBlock(x) \/ ReturnAwaitable(x)
    \/ \E q \in Queues : AwaitOp(q) \/ \E defer \in BOOLEAN : Signal(q, defer)
    \/ \E e \in Exts, res \in {"FINISHED", "FAILED"} : SettleExt(e, res)
    \/ CancelCall \/ Exit
    \/ \E how \in {"ok", "fail"} : Return(how)
Engine ==
    \/ \E how \in Outcomes : FinishBody(how) \/ FinishInline(how) \/ FinishMain(how)
    \/ ReturnSettled \/ ReturnInlined \/ Unwind \/ TriggerOps \/ AfterSwitch
    \/ SuspendForGood \/ ResumeAwait \/ ResumeOp \/ CancelOps
    \/ ResumeDrain \/ ShutDown \/ ResumeRerun
    \/ \E q \in Queues : FailLeftover(q)
    \/ \E e \in Exts : FailUnsettled(e)
EventLoop ==
    \/ StartDispatch \/ DispatchTask \/ StopDispatch
    \/ \E o \in Owners, res \in {"RESOLVED", "FAILED"} : RequestDone(o, res)
    \/ TimeOut \/ CallbackError \/ LeaveUvRun
Next == PhpCode \/ Engine \/ EventLoop
Spec == Init /\ [][Next]_vars
-------------------------------------------------------------------------------
(* Properties.                                                              *)

Kinds == {"code", "body", "inline", "ret", "ok", "fail", "exit", "await", "wait",
          "trigger", "resched", "inlined", "bail", "cancel", "dispatch", "loop", "main",
          "end", "drain", "shut", "rerun", "done"}
Frames == [k : Kinds, x : Lists \cup Owners, o : Owners]
TaskStatus == {"NONE", "INIT", "SUSPENDED", "RUNNING", "FINISHED", "FAILED"}
OpRecord == [status : {"PENDING", "RUNNING", "RESOLVED", "FAILED"},
             cancelled : BOOLEAN, defer : BOOLEAN]

(* Every variable keeps its type.                                           *)
TypeOK ==
    /\ fiber \in Fiber \cup {NoFiber} /\ fibers \in Seq(Fiber)
    /\ stack \in [Fiber \cup {NoFiber} -> Seq(Frames)]
    /\ status \in [Awaitables -> TaskStatus \cup {"PENDING"}]
    /\ spawned \subseteq Tasks /\ disposed \subseteq Tasks
    /\ ready \in Seq(Owners) /\ idle \in BOOLEAN
    /\ op \in [Owners -> OpRecord]
    /\ ops \in [Lists -> Seq(Owners)]
    /\ callbacks \in Seq(Owners) /\ triggered \in BOOLEAN
    /\ caller \in {Root, NoFiber} /\ busy \in Int
    /\ stopped \subseteq {"error", "exit"} /\ uvstop \in BOOLEAN /\ closed \in BOOLEAN
    /\ runs \in [Tasks -> Nat] /\ issued \in Nat

(* The frames a fiber is blocked in.                                        *)
Blocked(f) == Head(stack[f]).k \in {"await", "wait", "drain", "rerun"}
NoDuplicates(s) == \A i, j \in DOMAIN s : s[i] = s[j] => i = j

(* ZEND_ASSERT(from != to) and the QUEUED flag of async_fiber_switch: the   *)
(* running fiber is not on the list of suspended resumers, and no fiber is  *)
(* there twice.                                                             *)
RunStack == fiber \notin ToSet(fibers) /\ NoDuplicates(fibers)

(* ZEND_ASSERT(next != NULL) of async_fiber_switch: control never goes to   *)
(* a fiber that does not exist.                                             *)
SwitchTarget == fiber # NoFiber

(* The callback of a task is executed at most once.                         *)
RunsOnce == \A t \in Tasks : runs[t] <= 1

(* No wakeup is lost: whoever is blocked on an awaitable that is settled is *)
(* still in the queue of it, and a loop over that queue is under way on the *)
(* running fiber or on one that gets control back.                          *)
NoLostWakeup ==
    \A f \in Owners : \A x \in Awaitables :
        (Head(stack[f]) = Await(x, f) /\ op[f].status = "RUNNING" /\ stopped = {}) =>
            /\ f \in ToSet(ops[x])
            /\ Settled(x) =>
                 \E g \in {fiber} \cup ToSet(fibers) :
                     \E i \in DOMAIN stack[g] : stack[g][i] = Trigger(x)

(* async_await_op, task.c: "Suspend the current execution until the async   *)
(* operation has been resolved or cancelled."                               *)
OpReturn == (Top.k = "wait" /\ stopped = {}) => op[fiber].status \in {"RESOLVED", "FAILED"}

(* scheduler->busy_count is the number of foreground waits and inline       *)
(* executions that are under way: the loop neither ends early nor hangs.    *)
BusyFrames ==
    {p \in UNION {{f} \X DOMAIN stack[f] : f \in Fiber} :
        LET s == stack[p[1]]
            fr == s[p[2]]
        IN \/ fr.k = "await" /\ Foreground(s[p[2] + 1].o)
           \/ fr.k = "wait" /\ fr.x # Pending /\ Foreground(fr.o)
           \/ fr.k = "inline" /\ Foreground(fr.o) /\ s[p[2] - 1].k = "code"}
BusyBalance == stopped = {} => busy = Cardinality(BusyFrames)

(* A task in the ready queue is always covered by an active idle watcher:   *)
(* the loop does not sleep while a task can run.                            *)
ReadyIsWatched == ready # <<>> => idle

(* FLAG_RUNNING and scheduler->caller are set exactly while the main fiber  *)
(* is in run_loop: no duplicate run ("Duplicate scheduler loop run          *)
(* detected"), and the loop always knows whom to return to.                 *)
CallerKnown ==
    /\ (caller = Root) <=> Blocked(Root)
    /\ fiber = Runner => caller = Root
    /\ Blocked(Root) => Root \notin ToSet(fibers)

(* ZEND_ASSERT(!(task->fiber->flags & ASYNC_FIBER_FLAG_QUEUED)) of the task *)
(* destructor: a disposed task is never run or gone back to.                *)
DisposedIsOver == \A t \in disposed \cap spawned : t # fiber /\ t \notin ToSet(fibers)

(* An operation on a list belongs to a fiber that is (still, or just no more) *)
(* blocked on that list: no list keeps an operation its owner has given up. *)
NoDanglingOp ==
    \A l \in Lists : \A o \in ToSet(ops[l]) :
        Head(stack[o]).k \in {"await", "wait"} /\ Head(stack[o]).x = l

(* Until something stops the scheduler, every step of it is one that the    *)
(* promise of Task::await (Futures) allows, or changes nothing it sees: an  *)
(* awaitable is settled once, and who awaits it blocks only while it is     *)
(* pending and goes on only after it was settled, whatever operations,      *)
(* cancellations and inline executions do meanwhile.                        *)
OutcomeOf(x) == CASE status[x] = "FINISHED" -> "ok"
                  [] status[x] = "FAILED"   -> "fail"
                  [] OTHER                  -> "pending"
AwaitedBy(f) == IF Head(stack[f]).k = "await" THEN Head(stack[f]).x ELSE NoFiber
Promise == INSTANCE Futures WITH
              Waiters <- Owners, Nobody <- NoFiber,
              outcome <- [x \in Awaitables |-> OutcomeOf(x)],
              waiting <- [f \in Owners |-> AwaitedBy(f)]
AwaitKeepsPromise ==
    Promise!Init /\ [][stopped' = {} => [Promise!Next]_(Promise!vars)]_vars

(* Once the scheduler is stopped no task callback is started any more.      *)
NoStartAfterStop == [][stopped # {} => runs' = runs]_vars

(* After a cancellation has been delivered nobody is left in a cancellable  *)
(* wait of that context.                                                    *)
CancelReachesAll ==
    (triggered /\ stopped = {} /\ \A f \in Fiber : Cancel \notin ToSet(stack[f])) =>
        \A f \in Owners :
            ~(Head(stack[f]).k = "wait" /\ Head(stack[f]).o \in Cancellable
              /\ op[f].status = "RUNNING")

(* The asserts of the scheduler destructor (ready and fibers are empty), and*)
(* dispose leaves no operation waiting on what it has shut down.            *)
CleanShutdown ==
    (Top.k = "done" /\ stopped = {}) =>
        /\ ready = <<>> /\ fibers = <<>>
        /\ \A l \in Exts \cup Queues : ops[l] = <<>>

(* What the scheduler's C code asserts or relies on, between any two steps: *)
(* the stack of resumers, the count of waits that keep the loop alive, who  *)
(* called the loop, the owners of queued operations, and that disposal and  *)
(* shutdown leave nothing behind.                                           *)
Bookkeeping ==
    /\ SwitchTarget /\ RunStack /\ OpReturn /\ BusyBalance /\ CallerKnown
    /\ DisposedIsOver /\ NoDanglingOp /\ CleanShutdown

(* Fairness: the process keeps executing.  PHP code of a bounded program    *)
(* comes to an end (MaxOps bounds the waits it can repeat).                 *)
FairSpec == Spec /\ WF_vars(Next)

(* Nothing is left to do but to wait for something nobody will settle.       *)
Starving ==
    /\ InLoop /\ ~idle /\ ops[Pending] = <<>>
    /\ \E f \in Owners : /\ Head(stack[f]).k \in {"await", "wait"}
                         /\ op[f].status = "RUNNING"
                         /\ Head(stack[f]).x \in Awaitables => ~Settled(Head(stack[f]).x)

(* Unless an error stops it, the process gets through the                   *)
(* main script, the event loop and shutdown, or a wait is left that nobody  *)
(* settles: the scheduler does not spin, and nobody is left behind in the   *)
(* await of something that is settled.                                      *)
Finishes == <>(Top.k = "done" \/ Starving \/ stopped # {})
===============================================================================
