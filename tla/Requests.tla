-------------------------------- MODULE Requests --------------------------------
(***************************************************************************)
(* File system and name requests (src/src/filesystem.c, src/src/dns.c) and  *)
(* the thread pool of libuv that executes them (thirdparty/libuv/src/       *)
(* threadpool.c).  A task submits a request whose memory is on its C stack  *)
(* and waits; a worker thread executes it; the loop thread calls back.      *)
(* Worker threads and the loop interleave at the sections that hold a mutex.*)
(***************************************************************************)
EXTENDS Fibers, Integers, FiniteSets

CONSTANTS Tasks, Workers,
          Scenes,       \* bound: requests the tasks make, contexts that are cancelled
          MaxReqs,      \* the most requests of a scene
          None

Reqs == 1 .. MaxReqs
ASSUME RequestNames == Runner \notin Tasks /\ None \notin Tasks
Kinds == {"file", "name"}
ASSUME RequestScenes ==
    /\ MaxReqs \in Nat
    /\ \A s \in Scenes : s.code \in [Tasks -> Seq(Kinds)] /\ s.cancels \subseteq Tasks
ASSUME Threads == IsFiniteSet(Workers) /\ Workers # {}

VARIABLES stack,      \* per fiber: its C frames, top first
          code,       \* the requests each task will make
          cancels,    \* tasks whose context will be cancelled
          op,         \* status of the operation each task is blocked in
          cancelled,  \* tasks whose context has been cancelled
          made,       \* number of requests so far
          req,        \* the requests
          wq,         \* the queue of the pool: requests, and the slow work message
          slowq,      \* slow_io_pending_wq
          slow,       \* slow_io_work_running
          worker,     \* the worker threads
          loopq,      \* loop->wq
          wake        \* loop->wq_async has been sent and not handled

taskVars == <<fiber, fibers, stack, code, cancels, op, cancelled>>
poolVars == <<wq, slowq, slow, worker>>
vars == <<taskVars, made, req, poolVars, loopq, wake>>

SlowMsg == 0          \* run_slow_work_message
Frame(k, r) == [k |-> k, r |-> r]
Loop == Frame("loop", 0)          \* the event loop
Code == Frame("code", 0)          \* PHP code
Over == Frame("over", 0)          \* the task has ended
Waiting(r) == Frame("wait", r)    \* blocked in async_await_op for r
DoneCb(r) == Frame("done", r)     \* w->done(r) is called by uv__work_done
Wild == Frame("wild", 0)          \* memory is used that was freed or is on a stack
                                  \* that has moved on: nothing more is modelled
Top == Head(stack[fiber])
Rest == Tail(stack[fiber])
Goto(s) == stack' = [stack EXCEPT ![fiber] = s]
StepTo(s) == Goto(s) /\ UNCHANGED <<fiber, fibers, op>>
Fixed == <<code, cancels, cancelled>>  \* what only Submit and Cancel change
InCode == fiber \in Tasks /\ Top = Code
InLoop == fiber = Runner /\ Top = Loop

(* A worker: pc, the request it executes and whether that is slow work.     *)
Idle(pc) == [pc |-> pc, r |-> 0, slow |-> FALSE]
Init ==
    /\ fiber = Runner /\ fibers = <<>>
    /\ stack = [f \in Tasks \cup {Runner} |-> IF f = Runner THEN <<Loop>> ELSE <<>>]
    /\ \E s \in Scenes : code = s.code /\ cancels = s.cancels
    /\ op = [t \in Tasks |-> "PENDING"] /\ cancelled = {} /\ made = 0
    /\ req = [r \in Reqs |-> [task |-> None, slow |-> FALSE, place |-> "none", op |-> "none", ran |-> 0]]
    /\ wq = <<>> /\ slowq = <<>> /\ slow = 0
    /\ worker = [w \in Workers |-> Idle("ready")]
    /\ loopq = <<>> /\ wake = FALSE
-------------------------------------------------------------------------------
(* The pool.  cond_signal wakes one of the sleeping workers.                *)
Sleeping == {w \in Workers : worker[w].pc = "sleeping"}
Signals == Sleeping # {}
Signal(ws) ==
    IF Signals THEN \E w \in Sleeping : worker' = [ws EXCEPT ![w].pc = "woken"] ELSE worker' = ws

(* post: slow work goes to a queue of its own; one message for all of it is *)
(* in the common queue.                                                     *)
Scheduled == SlowMsg \in ToSet(wq)
Post(r, isSlow) ==
    IF isSlow
    THEN /\ slowq' = Append(slowq, r)
         /\ IF Scheduled THEN UNCHANGED <<wq, worker>> ELSE wq' = Append(wq, SlowMsg) /\ Signal(worker)
    ELSE wq' = Append(wq, r) /\ Signal(worker) /\ UNCHANGED slowq

(* worker: one pass of its loop, from where it locks the mutex to where it  *)
(* unlocks it.  At the threshold the message goes behind the other work;    *)
(* a message without slow work is dropped.                                  *)
Threshold == (Cardinality(Workers) + 1) \div 2
NoLimit(n) == FALSE
AtThreshold(n) == n >= Threshold
Available(n) ==
    IF wq # <<>> /\ Head(wq) = SlowMsg
    THEN IF AtThreshold(n) THEN Append(Tail(wq), SlowMsg)
         ELSE IF slowq = <<>> THEN Tail(wq) ELSE wq
    ELSE wq
NoMore == FALSE
More == Len(slowq) > 1
Take(w) ==
    /\ worker[w].pc \in {"ready", "woken", "after"}
    /\ LET n == slow - (IF worker[w].pc = "after" /\ worker[w].slow THEN 1 ELSE 0)
           q == Available(n)
       IN IF q = <<>> \/ (Head(q) = SlowMsg /\ AtThreshold(n))
          THEN /\ worker' = [worker EXCEPT ![w] = Idle("sleeping")]
               /\ wq' = q /\ slow' = n /\ UNCHANGED <<slowq, req>>
          ELSE IF Head(q) = SlowMsg
          THEN LET r == Head(slowq)
                   ws == [worker EXCEPT ![w] = [pc |-> "run", r |-> r, slow |-> TRUE]]
               IN /\ slow' = n + 1 /\ slowq' = Tail(slowq)
                  /\ req' = [req EXCEPT ![r].place = "running"]
                  /\ IF More THEN wq' = Append(Tail(q), SlowMsg) /\ Signal(ws)
                             ELSE wq' = Tail(q) /\ worker' = ws
          ELSE /\ worker' = [worker EXCEPT ![w] = [pc |-> "run", r |-> Head(q), slow |-> FALSE]]
               /\ req' = [req EXCEPT ![Head(q)].place = "running"]
               /\ wq' = Tail(q) /\ slow' = n /\ UNCHANGED slowq
    /\ UNCHANGED <<taskVars, made, loopq, wake>>
(* The work is executed and handed to the loop under its mutex.             *)
Work(w) ==
    /\ worker[w].pc = "run"
    /\ worker' = [worker EXCEPT ![w].pc = "after", ![w].r = 0]
    /\ req' = [req EXCEPT ![worker[w].r].place = "loop", ![worker[w].r].ran = @ + 1]
    /\ loopq' = Append(loopq, worker[w].r) /\ wake' = TRUE
    /\ UNCHANGED <<taskVars, made, wq, slowq, slow>>
-------------------------------------------------------------------------------
(* PHP code: ASYNC_FS_CALL, ASYNC_FS_CALLW or dns_gethostbyname.  Bound:    *)
(* MaxReqs requests.                                                        *)
IsSlow == Head(code[fiber]) = "name"
Submit ==
    /\ InCode /\ code[fiber] # <<>> /\ made < MaxReqs
    /\ code' = [code EXCEPT ![fiber] = Tail(@)]
    /\ made' = made + 1
    /\ req' = [req EXCEPT ![made'] = [task |-> fiber, slow |-> IsSlow, place |-> "queued",
                                      op |-> "alive", ran |-> 0]]
    /\ Post(made', IsSlow)
    /\ Goto(<<Waiting(made')>> \o stack[fiber])
    /\ IF fiber \in cancelled THEN op' = [op EXCEPT ![fiber] = "FAILED"] /\ UNCHANGED <<fiber, fibers>>
                              ELSE op' = [op EXCEPT ![fiber] = "RUNNING"] /\ Suspend
    /\ UNCHANGED <<cancels, cancelled, slow, loopq, wake>>
Finished ==
    /\ Top.k = "wait" /\ op[fiber] = "RESOLVED"
    /\ req' = [req EXCEPT ![Top.r].op = "freed"]
    /\ op' = [op EXCEPT ![fiber] = "PENDING"] /\ Goto(Rest)
    /\ UNCHANGED <<fiber, fibers, Fixed, made, poolVars, loopq, wake>>

(* The wait failed: uv_cancel, which succeeds if no worker has taken the    *)
(* request; the operation is freed then.                                    *)
EvenTaken(r) == req[r].place \in {"queued", "running"}
Untaken(r) == req[r].place = "queued"
GiveUp ==
    /\ Top.k = "wait" /\ op[fiber] = "FAILED"
    /\ LET r == Top.r
       IN IF Untaken(r)
          THEN /\ wq' = Unlink(wq, r) /\ slowq' = Unlink(slowq, r)
               /\ req' = [req EXCEPT ![r].place = "cancelled", ![r].op = "freed"]
               /\ loopq' = Append(loopq, r) /\ wake' = TRUE
          ELSE UNCHANGED <<wq, slowq, req, loopq, wake>>
    /\ op' = [op EXCEPT ![fiber] = "PENDING"] /\ Goto(Rest)
    /\ UNCHANGED <<fiber, fibers, Fixed, made, slow, worker>>
Return ==
    /\ InCode /\ code[fiber] = <<>> /\ Goto(<<Over>>) /\ Suspend
    /\ UNCHANGED <<op, Fixed, made, req, poolVars, loopq, wake>>

(* The event loop.                                                          *)
Run(t) ==
    /\ InLoop /\ stack[t] = <<>>
    /\ stack' = [stack EXCEPT ![t] = <<Code>>] /\ Switch(t)
    /\ UNCHANGED <<op, Fixed, made, req, poolVars, loopq, wake>>
(* cancel_op                                                                *)
Cancel(t) ==
    /\ InLoop \/ InCode
    /\ t \in cancels /\ cancels' = cancels \ {t}
    /\ cancelled' = cancelled \cup {t}
    /\ IF op[t] = "RUNNING" THEN op' = [op EXCEPT ![t] = "FAILED"] /\ Switch(t)
                            ELSE UNCHANGED <<op, fiber, fibers>>
    /\ UNCHANGED <<stack, code, made, req, poolVars, loopq, wake>>
(* uv__work_done takes the whole queue; then one callback after the other.  *)
WorkDone ==
    /\ InLoop /\ wake
    /\ wake' = FALSE /\ loopq' = <<>>
    /\ StepTo([i \in 1 .. Len(loopq) |-> DoneCb(loopq[i])] \o stack[fiber])
    /\ UNCHANGED <<Fixed, made, req, poolVars>>
(* dummy_cb, dns_gethostbyname_cb: they end the operation and so resume the *)
(* task; that of a cancelled request has been freed before.  The memory of  *)
(* a request that was given up may be anything by now.                      *)
Abandoned(r) == Waiting(r) \notin ToSet(stack[req[r].task])
Done ==
    /\ Top.k = "done"
    /\ LET r == Top.r
           t == req[r].task
       IN \/ Abandoned(r) /\ StepTo(<<Wild>>) /\ UNCHANGED req
          \/ /\ req[r].place = "loop"
             /\ req' = [req EXCEPT ![r].place = "done"]
             /\ IF Abandoned(r) THEN StepTo(Rest)
                ELSE op' = [op EXCEPT ![t] = "RESOLVED"] /\ Switch(t) /\ Goto(Rest)
    /\ UNCHANGED <<Fixed, made, poolVars, loopq, wake>>
-------------------------------------------------------------------------------
LoopThread ==
    \/ Submit \/ Finished \/ GiveUp \/ Return
    \/ WorkDone \/ Done \/ \E t \in Tasks : Run(t)
Next ==
    \/ LoopThread
    \/ \E w \in Workers : Take(w) \/ Work(w)
    \/ \E t \in Tasks : Cancel(t)
Spec == Init /\ [][Next]_vars
(* The loop thread and each worker go on; a file system call returns.  That *)
(* a name is ever resolved is not assumed.                                  *)
Quick(w) == worker[w].pc = "run" /\ ~worker[w].slow /\ Work(w)
FairSpec == Spec /\ WF_vars(LoopThread) /\ \A w \in Workers : WF_vars(Take(w)) /\ WF_vars(Quick(w))
-------------------------------------------------------------------------------
(* Properties.                                                              *)
Running == {w \in Workers : worker[w].pc \in {"run", "after"} /\ worker[w].slow}

(* Every variable keeps its type; the message is queued at most once.       *)
TypeOK ==
    /\ fiber \in Tasks \cup {Runner} /\ fibers \in Seq(Tasks \cup {Runner})
    /\ stack \in [Tasks \cup {Runner} -> Seq([k : {"loop", "code", "over", "wait", "done", "wild"},
                                              r : 0 .. MaxReqs])]
    /\ op \in [Tasks -> {"PENDING", "RUNNING", "RESOLVED", "FAILED"}]
    /\ code \in [Tasks -> Seq(Kinds)] /\ cancels \subseteq Tasks
    /\ cancelled \subseteq Tasks /\ made \in 0 .. MaxReqs
    /\ req \in [Reqs -> [task : Tasks \cup {None}, slow : BOOLEAN, op : {"none", "alive", "freed"},
                         place : {"none", "queued", "running", "loop", "cancelled", "done"}, ran : {0, 1}]]
    /\ wq \in Seq(0 .. MaxReqs) /\ slowq \in Seq(Reqs) /\ slow \in 0 .. Cardinality(Workers)
    /\ Cardinality({i \in 1 .. Len(wq) : wq[i] = SlowMsg}) <= 1
    /\ worker \in [Workers -> [pc : {"ready", "sleeping", "woken", "run", "after"},
                               r : 0 .. MaxReqs, slow : BOOLEAN]]
    /\ loopq \in Seq(Reqs) /\ wake \in BOOLEAN

(* Slow work never occupies more than half of the threads, rounded up.      *)
SlowBounded == slow = Cardinality(Running) /\ slow <= Threshold

(* The work of a request is executed at most once, and it is over when its  *)
(* task goes on without an error.  A request whose cancellation succeeded,  *)
(* and which its task has freed, is never executed.                         *)
RunsOnce ==
    /\ \A r \in Reqs : req[r].ran <= 1 /\ (req[r].place = "cancelled" => req[r].ran = 0)
    /\ Top.k = "wait" /\ op[fiber] = "RESOLVED" => req[Top.r].ran = 1
    /\ \A w \in Workers : worker[w].pc = "run" => req[worker[w].r].op = "alive"

(* The pool executes each request once and keeps threads free of slow work. *)
Sound == TypeOK /\ SlowBounded /\ RunsOnce

Astray == Top = Wild
(* A file system request ends although the slow requests may take forever:  *)
(* a thread is left for it.                                                 *)
Waits(t, b) == \E r \in Reqs : Waiting(r) \in ToSet(stack[t]) /\ req[r].slow = b
FastEnds == \A t \in Tasks : Waits(t, FALSE) ~> (~Waits(t, FALSE) \/ Astray)

(* A slow request ends unless a slow request is executed forever: it is not *)
(* forgotten behind others, nor when the one before it was cancelled.       *)
SlowEnds ==
    (\A t \in Tasks : Waits(t, TRUE) ~> (~Waits(t, TRUE) \/ Astray))
    \/ <>[](\E w \in Workers : worker[w].pc = "run" /\ worker[w].slow)

(* Requests end, the fast ones whatever the slow ones do.                   *)
RequestsEnd == FastEnds /\ SlowEnds
===============================================================================
