--------------------------------- MODULE Process ---------------------------------
(***************************************************************************)
(* Child processes (src/src/process/runner.c) on top of the fiber layer,    *)
(* and what libuv does for them (thirdparty/libuv/src/unix/process.c):      *)
(* spawn, SIGCHLD, kill and close.  Each process may have one pipe for its  *)
(* output; what is read from it is the matter of module Stream.             *)
(***************************************************************************)
EXTENDS Fibers, Integers, FiniteSets

CONSTANTS Tasks, Procs,
          Background,   \* tasks that run in a background context
          Cancellable,  \* tasks whose context may be cancelled
          Scenes,       \* the instances: [procs: the processes there are, piped: those
                        \* with a pipe, joins: bound on the calls of join]
          None

ASSUME ProcessNames == Runner \notin Tasks /\ None \notin Tasks
ASSUME ProcessSets ==
    /\ Background \subseteq Tasks /\ Cancellable \subseteq Tasks
    /\ Scenes \subseteq [procs : SUBSET Procs, piped : SUBSET Procs, joins : Nat]

VARIABLES scene,      \* a member of Scenes
          stack,      \* per fiber: its C frames, top first
          op,         \* status of the operation each task is blocked in
          cancelled,  \* tasks whose context has been cancelled
          joins,      \* number of calls of join so far
          held,       \* processes that a PHP variable refers to
          refs,       \* references to the process object
          func,       \* proc->cancel.func is set
          listed,     \* processes in scheduler->shutdown
          status,     \* proc->status
          observers,  \* proc->observers: tasks
          handle,     \* proc->handle: none, open, closing, closed
          active,     \* handles that are in loop->process_handles
          loopref,    \* handles that keep the loop alive (UV_HANDLE_REF)
          pipe,       \* stdout_state: none, open, closing, closed, freed
          objects,    \* number of pipe objects that exist
          child,      \* the operating system process: none, alive, zombie, reaped
          code,       \* what waitpid reports: the exit status, 0 if it was killed
          sigchld,    \* SIGCHLD has been sent and uv__chld has not run since
          early       \* history: a joiner left while another one waits

taskVars == <<fiber, fibers, stack, op, cancelled>>
objVars == <<held, refs, func, listed>>
uvVars == <<handle, active, loopref>>
pipeVars == <<pipe, objects>>
osVars == <<child, code, sigchld>>
vars == <<scene, taskVars, joins, objVars, status, observers, uvVars, pipeVars, osVars, early>>
-------------------------------------------------------------------------------
Frame(k, p, b) == [k |-> k, p |-> p, late |-> b]
Loop == Frame("loop", None, FALSE)            \* the event loop
Code == Frame("code", None, FALSE)            \* PHP code
Over == Frame("over", None, FALSE)            \* the task has ended
Joining(p, late) == Frame("join", p, late)    \* blocked in join; late: the handle
                                              \* was closed before it was called
Executing(p) == Frame("execute", p, FALSE)    \* blocked in async_process_execute
Dispose(p) == Frame("dispose", p, FALSE)      \* the loop of dispose_process
Wild == Frame("wild", None, FALSE)            \* memory that libuv uses is freed, or
                                              \* freed twice: nothing more is modelled
Top == Head(stack[fiber])
Rest == Tail(stack[fiber])
Goto(s) == stack' = [stack EXCEPT ![fiber] = s]
StepTo(s) == Goto(s) /\ UNCHANGED <<fiber, fibers, op>>
Await(f) ==
    /\ Goto(<<f>> \o stack[fiber])
    /\ IF fiber \in cancelled THEN op' = [op EXCEPT ![fiber] = "FAILED"] /\ UNCHANGED <<fiber, fibers>>
                              ELSE op' = [op EXCEPT ![fiber] = "RUNNING"] /\ Suspend
InCode == fiber \in Tasks /\ Top = Code
InLoop == fiber = Runner /\ Top = Loop

Init ==
    /\ scene \in Scenes
    /\ fiber = Runner /\ fibers = <<>>
    /\ stack = [f \in Tasks \cup {Runner} |-> IF f = Runner THEN <<Loop>> ELSE <<>>]
    /\ op = [t \in Tasks |-> "PENDING"] /\ cancelled = {} /\ joins = 0
    /\ held = {} /\ refs = [p \in Procs |-> 0] /\ func = {} /\ listed = {}
    /\ status = [p \in Procs |-> -1] /\ observers = [p \in Procs |-> <<>>]
    /\ handle = [p \in Procs |-> "none"] /\ active = {} /\ loopref = {}
    /\ pipe = [p \in Procs |-> "none"] /\ objects = [p \in Procs |-> 0]
    /\ child = [p \in Procs |-> "none"] /\ code = [p \in Procs |-> 0] /\ sigchld = FALSE
    /\ early = FALSE
-------------------------------------------------------------------------------
(* The operating system: SIGKILL ends a child that is alive.                *)
AfterKill(p) == IF child[p] = "alive" THEN "zombie" ELSE child[p]
Killed(p) == child' = [child EXCEPT ![p] = AfterKill(p)] /\ code' = code
             /\ sigchld' = (sigchld \/ child[p] = "alive")

(* uv_close on the handle of p.                                             *)
UvClose(p) ==
    /\ handle' = [handle EXCEPT ![p] = "closing"]
    /\ active' = active \ {p}

(* ASYNC_DELREF, n times.  With the last reference the destructor runs: if  *)
(* cancel.func is set, it kills the process and closes the handle, which    *)
(* takes a reference again.  Else the object is freed.                      *)
Final(p, n) == refs[p] = n
Release(p, n) ==
    /\ func' = IF Final(p, n) THEN func \ {p} ELSE func
    /\ listed' = IF Final(p, n) THEN listed \ {p} ELSE listed
    /\ refs' = [refs EXCEPT ![p] = IF Final(p, n) /\ p \in func THEN 1 ELSE @ - n]
    /\ IF Final(p, n) /\ p \in func THEN UvClose(p) /\ Killed(p)
                                    ELSE UNCHANGED <<handle, active, osVars>>
(* The frames that follow a release: nothing is left of the program's state *)
(* if a handle that is not closed is freed with the object.                 *)
Then(p, n, s) ==
    IF Final(p, n) /\ p \notin func /\ (handle[p] # "closed" \/ pipe[p] \in {"open", "closing"})
    THEN <<Wild>> ELSE s
-------------------------------------------------------------------------------
(* PHP code.  async_process_start: the child runs, or exec fails; then the  *)
(* destructor closes the handle.  (fork does not fail here.)                *)
Unborn(p) == p \in scene.procs /\ handle[p] = "none"
Spawned(p, ok) ==
    /\ handle' = [handle EXCEPT ![p] = IF ok THEN "open" ELSE "closing"]
    /\ active' = IF ok THEN active \cup {p} ELSE active
    /\ child' = [child EXCEPT ![p] = IF ok THEN "alive" ELSE "reaped"]
    /\ func' = IF ok THEN func \cup {p} ELSE func
    /\ refs' = [refs EXCEPT ![p] = 1]
Start(p, ok) ==
    /\ InCode /\ Unborn(p)
    /\ Spawned(p, ok)
    /\ held' = (IF ok THEN held \cup {p} ELSE held)
    /\ listed' = (IF ok THEN listed \cup {p} ELSE listed)
    /\ pipe' = [pipe EXCEPT ![p] = IF p \in scene.piped THEN "open" ELSE "none"]
    /\ StepTo(stack[fiber])
    /\ UNCHANGED <<cancelled, joins, status, observers, loopref, objects, code, sigchld, early>>

(* async_process_execute, without pipes.                                    *)
Execute(p, ok) ==
    /\ InCode /\ Unborn(p) /\ p \notin scene.piped
    /\ Spawned(p, ok)
    /\ IF ok THEN /\ loopref' = (IF fiber \in Background THEN loopref ELSE loopref \cup {p})
                  /\ observers' = [observers EXCEPT ![p] = <<fiber>>]
                  /\ Await(Executing(p))
             ELSE StepTo(stack[fiber]) /\ UNCHANGED <<loopref, observers>>
    /\ UNCHANGED <<cancelled, joins, held, listed, status, pipeVars, code, sigchld, early>>
ExecuteReturns ==
    /\ Top.k = "execute"
    /\ LET p == Top.p
       IN /\ observers' = [observers EXCEPT ![p] = Unlink(@, fiber)]
          /\ Release(p, 1) /\ op' = [op EXCEPT ![fiber] = "PENDING"]
          /\ Goto(Then(p, 1, Rest))
    /\ UNCHANGED <<fiber, fibers, cancelled, joins, held, status, loopref, pipeVars, early>>

(* Process::join.  uv_ref and uv_unref set and clear one flag, they do not  *)
(* count.                                                                   *)
Foreground(t) == t \notin Background
Holds(t) == Foreground(t)
Join(p) ==
    /\ InCode /\ p \in held /\ status[p] < 0 /\ joins < scene.joins
    /\ joins' = joins + 1
    /\ loopref' = IF Holds(fiber) THEN loopref \cup {p} ELSE loopref
    /\ observers' = [observers EXCEPT ![p] = Append(@, fiber)]
    /\ refs' = [refs EXCEPT ![p] = @ + 1]
    /\ Await(Joining(p, handle[p] = "closed"))
    /\ UNCHANGED <<cancelled, held, func, listed, status, handle, active, pipeVars, osVars, early>>
Waits(t, p) == \E b \in BOOLEAN : Joining(p, b) \in ToSet(stack[t])
JoinReturns ==
    /\ Top.k = "join"
    /\ LET p == Top.p
       IN /\ loopref' = (IF Foreground(fiber) THEN loopref \ {p} ELSE loopref)
          /\ observers' = [observers EXCEPT ![p] = Unlink(@, fiber)]
          /\ early' = (early \/ (Foreground(fiber) /\ \E t \in Tasks \ {fiber} : Waits(t, p)))
          /\ Release(p, 1) /\ op' = [op EXCEPT ![fiber] = "PENDING"]
          /\ Goto(Then(p, 1, Rest))
    /\ UNCHANGED <<fiber, fibers, cancelled, joins, held, status, pipeVars>>

(* Process::signal, with SIGKILL.                                           *)
Signal(p) ==
    /\ InCode /\ p \in held /\ status[p] < 0 /\ child[p] = "alive"
    /\ Killed(p) /\ StepTo(stack[fiber])
    /\ UNCHANGED <<cancelled, joins, objVars, status, observers, uvVars, pipeVars, early>>

(* The program drops its variable of the process.                           *)
Drop(p) ==
    /\ InCode /\ p \in held
    /\ held' = held \ {p} /\ Release(p, 1) /\ StepTo(Then(p, 1, stack[fiber]))
    /\ UNCHANGED <<cancelled, joins, status, observers, loopref, pipeVars, early>>

(* Process::getStdout makes a new object each time, with a reference to the *)
(* process; ReadablePipe::close takes another one; the pipe object frees    *)
(* the stream and gives two references back.                                *)
GetStdout(p) ==
    /\ InCode /\ p \in held /\ pipe[p] # "none" /\ objects[p] < 2
    /\ objects' = [objects EXCEPT ![p] = @ + 1] /\ refs' = [refs EXCEPT ![p] = @ + 1]
    /\ StepTo(stack[fiber])
    /\ UNCHANGED <<cancelled, joins, held, func, listed, status, observers, uvVars, pipe, osVars, early>>
NoReference == 0
CloseReference == 1
ClosePipe(p) ==
    /\ InCode /\ objects[p] > 0 /\ pipe[p] = "open"
    /\ pipe' = [pipe EXCEPT ![p] = "closing"]
    /\ refs' = [refs EXCEPT ![p] = @ + CloseReference]
    /\ StepTo(stack[fiber])
    /\ UNCHANGED <<cancelled, joins, held, func, listed, status, observers, uvVars, objects, osVars, early>>
DropPipe(p) ==
    /\ InCode /\ objects[p] > 0 /\ pipe[p] # "closing"
    /\ IF pipe[p] # "closed" THEN StepTo(<<Wild>>) /\ UNCHANGED <<pipe, objVars, handle, active, osVars>>
       ELSE /\ pipe' = [pipe EXCEPT ![p] = "freed"]
            /\ Release(p, 2) /\ StepTo(Then(p, 2, stack[fiber])) /\ UNCHANGED held
    /\ objects' = [objects EXCEPT ![p] = @ - 1]
    /\ UNCHANGED <<cancelled, joins, status, observers, loopref, early>>
PipeClosed(p) ==
    /\ InLoop /\ pipe[p] = "closing"
    /\ pipe' = [pipe EXCEPT ![p] = "closed"]
    /\ UNCHANGED <<taskVars, joins, objVars, status, observers, uvVars, objects, osVars, early>>

Return ==
    /\ InCode /\ Goto(<<Over>>) /\ Suspend
    /\ UNCHANGED <<op, cancelled, joins, objVars, status, observers, uvVars, pipeVars, osVars, early>>
-------------------------------------------------------------------------------
(* The event loop.                                                          *)
Run(t) ==
    /\ InLoop /\ stack[t] = <<>>
    /\ stack' = [stack EXCEPT ![t] = <<Code>>] /\ Switch(t)
    /\ UNCHANGED <<op, cancelled, joins, objVars, status, observers, uvVars, pipeVars, osVars, early>>

(* cancel_op; an execute that is cancelled kills the child when it goes on, *)
(* as the release of the last reference does.                               *)
Cancel(t) ==
    /\ InLoop \/ InCode
    /\ t \in Cancellable \ cancelled
    /\ cancelled' = cancelled \cup {t}
    /\ IF op[t] = "RUNNING" THEN op' = [op EXCEPT ![t] = "FAILED"] /\ Switch(t)
                            ELSE UNCHANGED <<op, fiber, fibers>>
    /\ UNCHANGED <<stack, joins, objVars, status, observers, uvVars, pipeVars, osVars, early>>

(* uv__chld reaps every child of an active handle that has ended, however   *)
(* many signals were sent; then exit_process ends each: it stores the       *)
(* status, kills and closes.                                                *)
Ended == {p \in active : child[p] = "zombie"}
Chld ==
    /\ InLoop /\ sigchld
    /\ sigchld' = FALSE
    /\ child' = [p \in Procs |-> IF p \in Ended THEN "reaped" ELSE child[p]]
    /\ status' = [p \in Procs |-> IF p \in Ended THEN code[p] ELSE status[p]]
    /\ active' = active \ Ended /\ func' = func \ Ended /\ listed' = listed \ Ended
    /\ handle' = [p \in Procs |-> IF p \in Ended THEN "closing" ELSE handle[p]]
    /\ refs' = [p \in Procs |-> IF p \in Ended THEN refs[p] + 1 ELSE refs[p]]
    /\ UNCHANGED <<taskVars, joins, held, observers, loopref, pipeVars, code, early>>

(* The close callback, dispose_process: it resumes the observers one by one *)
(* and gives its reference back.                                            *)
HandleClosed(p) ==
    /\ InLoop /\ handle[p] = "closing"
    /\ handle' = [handle EXCEPT ![p] = "closed"]
    /\ StepTo(<<Dispose(p)>> \o stack[fiber])
    /\ UNCHANGED <<cancelled, joins, objVars, status, observers, active, loopref, pipeVars, osVars, early>>
NotLast(p) == Len(observers[p]) > 1
MoreObservers(p) == observers[p] # <<>>
Disposing ==
    /\ Top.k = "dispose"
    /\ LET p == Top.p
           t == Head(observers[p])
       IN IF MoreObservers(p)
          THEN /\ observers' = [observers EXCEPT ![p] = Tail(@)]
               /\ op' = [op EXCEPT ![t] = "RESOLVED"] /\ Switch(t) /\ Goto(stack[fiber])
               /\ UNCHANGED <<refs, func, listed, handle, active, osVars>>
          ELSE /\ Release(p, 1) /\ StepTo(Then(p, 1, Rest)) /\ UNCHANGED observers
    /\ UNCHANGED <<cancelled, joins, held, status, loopref, pipeVars, early>>

(* async_task_scheduler_dispose: every listed process is shut down.         *)
Shutdown ==
    /\ InLoop /\ listed # {}
    /\ func' = func \ listed /\ listed' = {}
    /\ handle' = [p \in Procs |-> IF p \in listed THEN "closing" ELSE handle[p]]
    /\ active' = active \ listed
    /\ refs' = [p \in Procs |-> IF p \in listed THEN refs[p] + 1 ELSE refs[p]]
    /\ child' = [p \in Procs |-> IF p \in listed THEN AfterKill(p) ELSE child[p]]
    /\ sigchld' = (sigchld \/ \E p \in listed : child[p] = "alive")
    /\ UNCHANGED <<taskVars, joins, held, status, observers, loopref, pipeVars, code, early>>

(* A child ends by itself.                                                  *)
Exit(p) ==
    /\ InLoop /\ child[p] = "alive"
    /\ child' = [child EXCEPT ![p] = "zombie"] /\ sigchld' = TRUE
    /\ code' = [code EXCEPT ![p] = 1]
    /\ UNCHANGED <<taskVars, joins, objVars, status, observers, uvVars, pipeVars, early>>
-------------------------------------------------------------------------------
PhpCode ==
    \/ \E p \in Procs, ok \in BOOLEAN : Start(p, ok) \/ Execute(p, ok)
    \/ \E p \in Procs : Join(p) \/ Signal(p) \/ Drop(p) \/ GetStdout(p) \/ ClosePipe(p) \/ DropPipe(p)
    \/ Return
Engine == ExecuteReturns \/ JoinReturns \/ Disposing
EventLoop ==
    \/ \E t \in Tasks : Run(t)
    \/ Chld \/ \E p \in Procs : HandleClosed(p) \/ PipeClosed(p)
Environment == Shutdown \/ (\E t \in Tasks : Cancel(t)) \/ \E p \in Procs : Exit(p)
Program == (PhpCode \/ Engine \/ EventLoop) /\ UNCHANGED scene
Next == Program \/ (Environment /\ UNCHANGED scene)
Spec == Init /\ [][Next]_vars
(* The program goes on; nothing is assumed about the children.              *)
FairSpec == Spec /\ WF_vars(Program)
-------------------------------------------------------------------------------
(* Properties.                                                              *)
Frames == [k : {"loop", "code", "over", "join", "execute", "dispose", "wild"},
           p : Procs \cup {None}, late : BOOLEAN]
(* Every variable keeps its type; what is in the shutdown list has not     *)
(* been shut down.                                                          *)
TypeOK ==
    /\ fiber \in Tasks \cup {Runner} /\ fibers \in Seq(Tasks \cup {Runner})
    /\ stack \in [Tasks \cup {Runner} -> Seq(Frames)]
    /\ op \in [Tasks -> {"PENDING", "RUNNING", "RESOLVED", "FAILED"}]
    /\ cancelled \subseteq Tasks /\ joins \in 0 .. scene.joins
    /\ held \subseteq Procs /\ func \subseteq Procs /\ listed \subseteq func
    /\ refs \in [Procs -> Nat] /\ status \in [Procs -> {-1, 0, 1}]
    /\ observers \in [Procs -> Seq(Tasks)] /\ active \subseteq Procs /\ loopref \subseteq Procs
    /\ handle \in [Procs -> {"none", "open", "closing", "closed"}]
    /\ pipe \in [Procs -> {"none", "open", "closing", "closed", "freed"}]
    /\ objects \in [Procs -> 0 .. 2] /\ code \in [Procs -> {0, 1}]
    /\ child \in [Procs -> {"none", "alive", "zombie", "reaped"}]
    /\ sigchld \in BOOLEAN /\ early \in BOOLEAN

Astray == Top = Wild

(* The references to a process object are those of the program, of the      *)
(* calls that are running, of the handle while it closes, and of its pipe;  *)
(* an object is freed only when nothing refers to it any more.  (Pipes that *)
(* are fetched twice or not closed before they are dropped: Wild.)          *)
Calls(p) == {t \in Tasks : Waits(t, p) \/ Executing(p) \in ToSet(stack[t])}
Closing(p) == handle[p] = "closing" \/ Dispose(p) \in ToSet(stack[Runner])
B(b) == IF b THEN 1 ELSE 0
RefsCounted ==
    \/ Astray
    \/ \A p \in Procs :
          refs[p] = B(p \in held) + Cardinality(Calls(p)) + B(Closing(p)) + objects[p]
                    + B(pipe[p] \in {"closing", "closed"})

(* The loop does not end while a task in the foreground waits for a process *)
(* that has not been closed.  (Not so once another joiner has left: early.) *)
LoopHeld ==
    InLoop => \A t \in Tasks \ Background, p \in Procs :
        Waits(t, p) /\ handle[p] = "open" => early \/ p \in loopref

(* References are counted, the shutdown list holds live processes only, and *)
(* the loop is held for who waits.                                          *)
Sound == TypeOK /\ RefsCounted /\ LoopHeld

(* Who waits for a process goes on in the end after its child has ended or  *)
(* has been killed, also when several signals arrive as one.  (Not who      *)
(* joins a process whose handle was closed before: late.)                   *)
Blocked(t, p) == Joining(p, FALSE) \in ToSet(stack[t]) \/ Executing(p) \in ToSet(stack[t])
JoinsEnd ==
    \A t \in Tasks, p \in Procs :
        Blocked(t, p) /\ child[p] # "alive" ~> ~Blocked(t, p) \/ Astray
===============================================================================
