--------------------------------- MODULE Thread ---------------------------------
(***************************************************************************)
(* Worker threads (src/src/thread.c, Unix): the event loop and the tasks of *)
(* the parent, on top of the fiber layer, and the workers run in parallel.  *)
(* They share the thread object: a mutex, the pointer to the interrupt flag *)
(* of the worker's VM, the exit code and the libuv async handle that tells  *)
(* the parent of the end (thirdparty/libuv/src/unix/async.c).               *)
(***************************************************************************)
EXTENDS Fibers, FiniteSets

CONSTANTS Tasks,        \* tasks of the parent
          MaxThreads,   \* bound: number of thread objects
          Scenes,       \* bound: which tasks run, how many objects they create
          Cancellable,  \* tasks whose context may be cancelled
          None

Threads == 1 .. MaxThreads

ASSUME ThreadNames == Runner \notin Tasks /\ None \notin Threads
ASSUME ThreadSets == Cancellable \subseteq Tasks /\ MaxThreads \in Nat
ASSUME ThreadScenes == Scenes \subseteq [tasks : SUBSET Tasks, threads : 0 .. MaxThreads]

VARIABLES stack,      \* per fiber of the parent: its C frames, top first
          op,         \* per task: status of the operation it is blocked in
          cancelled,  \* tasks whose context has been cancelled
          join,       \* thread->join: tasks that wait for the end
          flags,      \* thread->flags
          handle,     \* thread->handle
          dropped,    \* threads to which PHP code has no reference any more
          freed,      \* thread objects that are destroyed
          locked,     \* threads whose mutex the parent holds
          interrupt,  \* threads whose interrupt pointer is set
          vmint,      \* threads with EG(vm_interrupt) set
          exit,       \* thread->exit_code, once it is stored
          pc,         \* where each worker is in run_thread
          pending,    \* handle->pending
          wake,       \* the eventfd of the parent's loop is readable
          scene       \* the scene that is played

taskVars == <<fiber, fibers, stack, op, cancelled>>
objectVars == <<join, flags, handle, dropped, freed>>
sharedVars == <<locked, interrupt, vmint, exit>>
asyncVars == <<pending, wake>>
vars == <<taskVars, objectVars, sharedVars, pc, asyncVars, scene>>
-------------------------------------------------------------------------------
Frame(k, x, s) == [k |-> k, x |-> x, s |-> s]
Loop == Frame("loop", None, {})           \* the event loop
Code == Frame("code", None, {})           \* PHP code
Over == Frame("over", None, {})           \* the task has ended
Killing(h) == Frame("kill", h, {})        \* Thread::kill, with the mutex
Joining(h) == Frame("join", h, {})        \* blocked in Thread::join
AsyncIo(s) == Frame("io", None, s)        \* uv__async_io, handles yet to look at
Notify(h) == Frame("notify", h, {})       \* the loop of notify_thread_cb
Destroy(h) == Frame("destroy", h, {})     \* async_thread_object_destroy

Top == Head(stack[fiber])
Rest == Tail(stack[fiber])
Goto(s) == stack' = [stack EXCEPT ![fiber] = s]

Init ==
    /\ fiber = Runner /\ fibers = <<>>
    /\ stack = [f \in Tasks \cup {Runner} |-> IF f = Runner THEN <<Loop>> ELSE <<>>]
    /\ op = [t \in Tasks |-> "PENDING"] /\ cancelled = {}
    /\ join = [h \in Threads |-> <<>>] /\ flags = [h \in Threads |-> {}]
    /\ handle = [h \in Threads |-> "none"] /\ dropped = {} /\ freed = {}
    /\ locked = {} /\ interrupt = {} /\ vmint = {} /\ exit = [h \in Threads |-> None]
    /\ pc = [h \in Threads |-> "none"]
    /\ pending = [h \in Threads |-> 0] /\ wake = FALSE
    /\ scene \in Scenes
-------------------------------------------------------------------------------
(* PHP code in the parent.                                                  *)
InCode == fiber \in Tasks /\ Top = Code
Exists(h) == handle[h] # "none" /\ h \notin dropped

(* The constructor starts the worker (when the pipe of the parent fails it  *)
(* throws after that: New, then Drop).  When the file or the socket pair    *)
(* fails it closes the handle, there is no worker and no reference remains. *)
(* Objects are numbered in the order of their creation.                     *)
NextObject(h) ==
    /\ h <= scene.threads /\ handle[h] = "none"
    /\ \A g \in 1 .. h - 1 : handle[g] # "none"
New(h) ==
    /\ InCode /\ NextObject(h)
    /\ handle' = [handle EXCEPT ![h] = "active"]
    /\ flags' = [flags EXCEPT ![h] = {"RUNNING"}]
    /\ pc' = [pc EXCEPT ![h] = "born"]
    /\ UNCHANGED <<taskVars, join, dropped, freed, sharedVars, asyncVars>>
NewFails(h) ==
    /\ InCode /\ NextObject(h)
    /\ handle' = [handle EXCEPT ![h] = "closing"]
    /\ dropped' = dropped \cup {h}
    /\ UNCHANGED <<taskVars, join, flags, freed, sharedVars, pc, asyncVars>>

(* Thread::kill.  Bound: a VM whose flag is set is not flagged once more.   *)
KillUnlocked(h) ==
    /\ InCode /\ Exists(h) /\ h \notin vmint
    /\ flags' = [flags EXCEPT ![h] = @ \cup {"KILLED"}]
    /\ IF h \in interrupt THEN Goto(<<Killing(h)>> \o stack[fiber]) ELSE UNCHANGED stack
    /\ UNCHANGED <<fiber, fibers, op, cancelled, join, handle, dropped, freed,
                   sharedVars, pc, asyncVars>>
Kill(h) ==
    /\ InCode /\ Exists(h) /\ h \notin vmint
    /\ flags' = [flags EXCEPT ![h] = @ \cup {"KILLED"}]
    /\ IF h \in interrupt
       THEN locked' = locked \cup {h} /\ Goto(<<Killing(h)>> \o stack[fiber])
       ELSE UNCHANGED <<locked, stack>>
    /\ UNCHANGED <<fiber, fibers, op, cancelled, join, handle, dropped, freed,
                   interrupt, vmint, exit, pc, asyncVars>>
Interrupt ==
    /\ Top.k = "kill"
    /\ vmint' = vmint \cup {Top.x} /\ locked' = locked \ {Top.x}
    /\ Goto(Rest)
    /\ UNCHANGED <<fiber, fibers, op, cancelled, objectVars, interrupt, exit, pc, asyncVars>>

(* Thread::join.                                                            *)
Terminated(h) == "TERMINATED" \in flags[h]
Join(h) ==
    /\ InCode /\ Exists(h) /\ ~Terminated(h) /\ fiber \notin cancelled
    /\ join' = [join EXCEPT ![h] = Append(@, fiber)]
    /\ op' = [op EXCEPT ![fiber] = "RUNNING"]
    /\ Goto(<<Joining(h)>> \o stack[fiber]) /\ Suspend
    /\ UNCHANGED <<cancelled, flags, handle, dropped, freed, sharedVars, pc, asyncVars>>
Joined ==
    /\ Top.k = "join"
    /\ join' = [join EXCEPT ![Top.x] = Unlink(@, fiber)]
    /\ op' = [op EXCEPT ![fiber] = "PENDING"]
    /\ Goto(Rest)
    /\ UNCHANGED <<fiber, fibers, cancelled, flags, handle, dropped, freed, sharedVars, pc, asyncVars>>

(* The last reference of PHP code goes; the handle holds one until it is    *)
(* closed.                                                                  *)
Drop(h) ==
    /\ InCode /\ Exists(h) /\ \A t \in Tasks : Joining(h) \notin ToSet(stack[t])
    /\ dropped' = dropped \cup {h}
    /\ IF handle[h] = "closed" THEN Goto(<<Destroy(h)>> \o stack[fiber]) ELSE UNCHANGED stack
    /\ UNCHANGED <<fiber, fibers, op, cancelled, join, flags, handle, freed,
                   sharedVars, pc, asyncVars>>

(* The destructor waits for the worker, if there is one (uv_thread_join).   *)
HasEnded(h) == "RUNNING" \in flags[h] => pc[h] = "gone"
Destroyed ==
    /\ Top.k = "destroy" /\ HasEnded(Top.x)
    /\ freed' = freed \cup {Top.x}
    /\ flags' = [flags EXCEPT ![Top.x] = @ \ {"RUNNING"}]
    /\ Goto(Rest)
    /\ UNCHANGED <<fiber, fibers, op, cancelled, join, handle, dropped, sharedVars, pc, asyncVars>>

Return ==
    /\ InCode /\ Goto(<<Over>>) /\ Suspend
    /\ UNCHANGED <<op, cancelled, objectVars, sharedVars, pc, asyncVars>>
-------------------------------------------------------------------------------
(* The event loop of the parent.                                            *)
InLoop == fiber = Runner /\ Top = Loop
Run(t) ==
    /\ InLoop /\ t \in scene.tasks /\ stack[t] = <<>>
    /\ stack' = [stack EXCEPT ![t] = <<Code>>] /\ Switch(t)
    /\ UNCHANGED <<op, cancelled, objectVars, sharedVars, pc, asyncVars>>

(* uv__async_io: drain the eventfd, then look at each handle.  A worker     *)
(* that is between its two exchanges is waited for (uv__async_spin).        *)
PollAsync ==
    /\ InLoop /\ wake
    /\ wake' = FALSE
    /\ Goto(<<AsyncIo({h \in Threads : handle[h] = "active"})>> \o stack[fiber])
    /\ UNCHANGED <<fiber, fibers, op, cancelled, objectVars, sharedVars, pc, pending>>
Spins(h) == pending[h] = 1
LookAt(h) ==
    /\ Top.k = "io" /\ h \in Top.s /\ ~Spins(h)
    /\ LET next == AsyncIo(Top.s \ {h})
       IN IF pending[h] = 0
          THEN Goto(<<next>> \o Rest) /\ UNCHANGED flags
          ELSE /\ Goto(<<Notify(h), next>> \o Rest)
               /\ flags' = [flags EXCEPT ![h] = @ \cup {"TERMINATED"}]
    /\ pending' = [pending EXCEPT ![h] = 0]
    /\ UNCHANGED <<fiber, fibers, op, cancelled, join, handle, dropped, freed, sharedVars, pc, wake>>
LookedAtAll ==
    /\ Top.k = "io" /\ Top.s = {} /\ Goto(Rest)
    /\ UNCHANGED <<fiber, fibers, op, cancelled, objectVars, sharedVars, pc, asyncVars>>

(* notify_thread_cb resumes those who wait and closes the handle.           *)
Wake ==
    /\ Top.k = "notify"
    /\ LET q == join[Top.x]
       IN IF q # <<>>
          THEN /\ op' = [op EXCEPT ![Head(q)] = "RESOLVED"]
               /\ join' = [join EXCEPT ![Top.x] = Tail(@)]
               /\ Switch(Head(q)) /\ UNCHANGED <<stack, handle>>
          ELSE /\ handle' = [handle EXCEPT ![Top.x] = "closing"]
               /\ Goto(Rest) /\ UNCHANGED <<fiber, fibers, op, join>>
    /\ UNCHANGED <<cancelled, flags, dropped, freed, sharedVars, pc, asyncVars>>

(* close_async_cb releases the reference of the handle.                     *)
HandleClosed(h) ==
    /\ InLoop /\ handle[h] = "closing"
    /\ handle' = [handle EXCEPT ![h] = "closed"]
    /\ IF h \in dropped THEN Goto(<<Destroy(h)>> \o stack[fiber]) ELSE UNCHANGED stack
    /\ UNCHANGED <<fiber, fibers, op, cancelled, join, flags, dropped, freed,
                   sharedVars, pc, asyncVars>>

(* The loop has ended, the engine frees the objects that are left.          *)
Alive == \E h \in Threads : handle[h] \in {"active", "closing"}
FreeObject(h) ==
    /\ InLoop /\ ~Alive /\ \A t \in scene.tasks : stack[t] = <<Over>>
    /\ Exists(h)
    /\ dropped' = dropped \cup {h}
    /\ Goto(<<Destroy(h)>> \o stack[fiber])
    /\ UNCHANGED <<fiber, fibers, op, cancelled, join, flags, handle, freed,
                   sharedVars, pc, asyncVars>>

(* The context of t is cancelled while t waits: cancel_op fails the         *)
(* operation.  (Cancelled before, a task would throw instead of joining.)   *)
Cancel(t) ==
    /\ InLoop \/ InCode
    /\ t \in Cancellable /\ op[t] = "RUNNING"
    /\ cancelled' = cancelled \cup {t}
    /\ op' = [op EXCEPT ![t] = "FAILED"] /\ Switch(t)
    /\ UNCHANGED <<stack, objectVars, sharedVars, pc, asyncVars>>
-------------------------------------------------------------------------------
(* The worker: run_thread.                                                  *)
Step(h, from, to) == pc[h] = from /\ pc' = [pc EXCEPT ![h] = to]
Parent == <<taskVars, objectVars, locked>>

Publish(h) ==
    /\ Step(h, "born", "published") /\ h \notin locked
    /\ interrupt' = interrupt \cup {h}
    /\ UNCHANGED <<Parent, vmint, exit, asyncVars>>

(* php_request_startup: init_executor clears the interrupt flag.            *)
Startup(h) ==
    /\ Step(h, "published", "run")
    /\ vmint' = vmint \ {h}
    /\ UNCHANGED <<Parent, interrupt, exit, asyncVars>>

(* The worker's PHP code: it blocks and goes on in its own event loop, ends *)
(* in some way, or the VM looks at the interrupt flag (interrupt_thread).   *)
Work(h) ==
    /\ Step(h, "run", "blocked") \/ Step(h, "blocked", "run") \/ Step(h, "run", "over")
    /\ UNCHANGED <<Parent, interrupt, vmint, exit, asyncVars>>
Interrupted(h) ==
    /\ h \in vmint /\ vmint' = vmint \ {h}
    /\ "KILLED" \in flags[h] /\ Step(h, "run", "over")
    /\ UNCHANGED <<Parent, interrupt, exit, asyncVars>>

Withdraw(h) ==
    /\ Step(h, "over", "withdrawn") /\ h \notin locked
    /\ interrupt' = interrupt \ {h}
    /\ UNCHANGED <<Parent, vmint, exit, asyncVars>>
(* The exit code, then php_request_shutdown and ts_free_thread: the VM and  *)
(* its flag are gone.                                                       *)
StoreExit(h) ==
    /\ Step(h, "withdrawn", "shut") /\ h \notin locked
    /\ exit' = [exit EXCEPT ![h] = h]
    /\ UNCHANGED <<Parent, interrupt, vmint, asyncVars>>

(* uv_async_send: claim the handle, wake the loop, release the handle.      *)
Claim(h) ==
    /\ Step(h, "shut", IF pending[h] = 0 THEN "claimed" ELSE "gone")
    /\ pending' = IF pending[h] = 0 THEN [pending EXCEPT ![h] = 1] ELSE pending
    /\ UNCHANGED <<Parent, interrupt, vmint, exit, wake>>
WakeBefore(h) ==
    /\ Step(h, "claimed", "signalled")
    /\ UNCHANGED <<Parent, interrupt, vmint, exit, asyncVars>>
Signal(h) ==
    /\ Step(h, "claimed", "signalled")
    /\ wake' = TRUE
    /\ UNCHANGED <<Parent, interrupt, vmint, exit, pending>>
Release(h) ==
    /\ Step(h, "signalled", "gone")
    /\ pending' = [pending EXCEPT ![h] = 2]
    /\ UNCHANGED <<Parent, interrupt, vmint, exit, wake>>
-------------------------------------------------------------------------------
PhpCode ==
    \/ \E h \in Threads : New(h) \/ NewFails(h) \/ Kill(h) \/ Join(h) \/ Drop(h)
    \/ Return
Engine ==
    \/ Interrupt \/ Joined \/ Destroyed \/ Wake \/ LookedAtAll
    \/ \E h \in Threads : LookAt(h)
EventLoop ==
    \/ \E t \in Tasks : Run(t) \/ Cancel(t)
    \/ PollAsync
    \/ \E h \in Threads : HandleClosed(h) \/ FreeObject(h)
RunThread(h) ==
    \/ Publish(h) \/ Startup(h) \/ Interrupted(h)
    \/ Withdraw(h) \/ StoreExit(h) \/ Claim(h) \/ Signal(h) \/ Release(h)
Parental == (PhpCode \/ Engine \/ EventLoop) /\ UNCHANGED scene
Worker(h) == RunThread(h) /\ UNCHANGED scene
Next == Parental \/ \E h \in Threads : Worker(h) \/ (Work(h) /\ UNCHANGED scene)
Spec == Init /\ [][Next]_vars

-------------------------------------------------------------------------------
(* Properties.                                                              *)
Frames == [k : {"loop", "code", "over", "kill", "join", "io", "notify", "destroy"},
           x : Threads \cup {None}, s : SUBSET Threads]
Places == {"none", "born", "published", "run", "blocked", "over", "withdrawn",
           "shut", "claimed", "signalled", "gone"}

(* Every variable keeps its type.                                           *)
TypeOK ==
    /\ fiber \in Tasks \cup {Runner} /\ fibers \in Seq(Tasks \cup {Runner})
    /\ stack \in [Tasks \cup {Runner} -> Seq(Frames)]
    /\ op \in [Tasks -> {"PENDING", "RUNNING", "RESOLVED", "FAILED"}]
    /\ cancelled \subseteq Tasks /\ join \in [Threads -> Seq(Tasks)]
    /\ flags \in [Threads -> SUBSET {"RUNNING", "TERMINATED", "KILLED"}]
    /\ handle \in [Threads -> {"none", "active", "closing", "closed"}]
    /\ dropped \subseteq Threads /\ freed \subseteq Threads /\ locked \subseteq Threads
    /\ interrupt \subseteq Threads /\ vmint \subseteq Threads
    /\ exit \in [Threads -> Threads \cup {None}] /\ pc \in [Threads -> Places]
    /\ pending \in [Threads -> 0..2] /\ wake \in BOOLEAN /\ scene \in Scenes

(* Neither side touches what the other has freed: when the parent writes to *)
(* the interrupt flag the VM of the worker is there, and when the thread    *)
(* object is freed the worker has left it.                                  *)
NoUseAfterFree ==
    /\ Top.k = "kill" => pc[Top.x] \notin {"none", "shut", "claimed", "signalled", "gone"}
    /\ \A h \in freed : pc[h] \in {"none", "gone"}

(* A join that is told of the end, at once or by the callback, returns the  *)
(* exit code the worker has stored, and the worker has nothing more to do.  *)
JoinedIsOver ==
    \A h \in Threads :
        (Terminated(h) \/ (Top = Joining(h) /\ op[fiber] = "RESOLVED")) =>
            exit[h] # None /\ pc[h] = "gone"

(* The event loop of the parent does not end before its workers.            *)
NoOrphan == \A h \in Threads : pc[h] \notin {"none", "gone"} => handle[h] = "active"

(* Parent and workers agree: neither uses what the other has freed, who has *)
(* joined a thread finds it over, and the parent's loop outlasts its threads. *)
Sound == TypeOK /\ NoUseAfterFree /\ JoinedIsOver /\ NoOrphan

(* Fairness: both sides keep executing; a worker's PHP code may run or      *)
(* block for ever, but while it runs the VM looks at its flag.              *)
FairSpec ==
    /\ Spec /\ WF_vars(Parental)
    /\ \A h \in Threads : WF_vars(Worker(h))

(* A join returns when the worker's code has ended or is flagged by kill    *)
(* after its startup, unless the worker blocks in its own event loop.       *)
Waits(t, h) == stack[t] # <<>> /\ Head(stack[t]) = Joining(h)
KilledOrOver(h) ==
    \/ pc[h] \in {"over", "withdrawn", "shut", "claimed", "signalled", "gone"}
    \/ pc[h] = "run" /\ h \in vmint
JoinReturns ==
    \A h \in Threads :
        ((\E t \in Tasks : Waits(t, h)) /\ KilledOrOver(h)) ~>
            (pc[h] = "blocked" \/ \A t \in Tasks : ~Waits(t, h))
===============================================================================
