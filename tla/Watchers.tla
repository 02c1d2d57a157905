-------------------------------- MODULE Watchers --------------------------------
(***************************************************************************)
(* Objects that tasks wait on until libuv calls back: Timer, Timeout,       *)
(* SignalWatcher, StreamWatcher and Monitor (src/src/watcher), and the      *)
(* Condition (src/src/sync.c), which other tasks signal.  Each keeps lists  *)
(* of waiting operations.  A callback walks such a list and switches to the *)
(* owner of each operation, which may change the list before it comes back. *)
(***************************************************************************)
EXTENDS Fibers, Integers, FiniteSets

CONSTANTS Tasks, Watchers,
          Kind,         \* of each watcher
          Scenes,       \* what tasks may have access to: a watcher set each
          Background,   \* tasks whose context is a background context
          Cancellable,  \* tasks whose context may be cancelled
          Addrs,        \* memory for operations
          RefSize,      \* values of a ref_count; 256, it is a zend_uchar
          Faults,       \* timers may have a delay of zero and PHP code waits
                        \* on monitors it has closed
          None

Kinds == {"timer", "timeout", "signal", "poll", "monitor", "condition"}
Sides == {"in", "out"}  \* "out" is the list poll->writes, all others are "in"

ASSUME WatcherNames == Runner \notin Tasks /\ None \notin Addrs \cup Watchers
ASSUME WatcherSets ==
    /\ Kind \in [Watchers -> Kinds] /\ Scenes \subseteq [Tasks -> SUBSET Watchers]
    /\ Background \subseteq Tasks /\ Cancellable \subseteq Tasks
    /\ IsFiniteSet(Tasks) /\ IsFiniteSet(Addrs) /\ Cardinality(Addrs) >= Cardinality(Tasks)
    /\ RefSize \in Nat /\ RefSize > Cardinality(Tasks)
    /\ Faults \in BOOLEAN

VARIABLES stack,      \* per fiber: its C frames, top first
          ready,      \* scheduler->ready: tasks whose wake-up was deferred
          op,         \* the operation each task is blocked in
          list,       \* per watcher and side: waiting operations, as tasks
          armed,      \* sides whose events the libuv handle reports;
                      \* {} iff it is not active
          mask,       \* poll->events, without UV_DISCONNECT
          closed,     \* watchers whose error is set (cancel.func is NULL)
          ref,        \* ref_count
          held,       \* watchers whose handle keeps the loop alive (uv_ref)
          broadcast,  \* per condition: deferred wake-ups on their way
          cancelled,  \* tasks whose context has been cancelled
          woken,      \* history: tasks the running trigger loop has resumed
          due,        \* history: tasks it has yet to resume
          errored,    \* history: polls that libuv has stopped after an error
          lost,       \* history: its mark was freed before it was reached
          uses,       \* the watchers each task has access to
          turn        \* history, per condition: tasks woken and not yet resumed

queueVars == <<ready, op, list>>
handleVars == <<armed, mask, errored, closed, ref, held>>
history == <<woken, due, lost, turn>>
vars == <<fiber, fibers, stack, queueVars, handleVars, broadcast, cancelled, uses, history>>
-------------------------------------------------------------------------------
Frame(k, w, s, m) == [k |-> k, w |-> w, s |-> s, m |-> m]
Loop == Frame("loop", None, "in", None)         \* the event loop
Dispatch == Frame("dispatch", None, "in", None) \* dispatch_tasks
Code == Frame("code", None, "in", None)         \* PHP code
Over == Frame("over", None, "in", None)         \* the task has ended
Wait(w, s) == Frame("wait", w, s, None)         \* blocked in async_await_op
Trigger(w, s, m) == Frame("trigger", w, s, m)   \* wakes operations up to m
Settled(w) == Frame("settled", w, "in", None)   \* end of a trigger callback
Closing(w, s) == Frame("close", w, s, None)     \* fails what still waits

Top == Head(stack[fiber])
Rest == Tail(stack[fiber])
Goto(s) == stack' = [stack EXCEPT ![fiber] = s]
NoOp == [status |-> "PENDING", addr |-> None, defer |-> FALSE]

Init ==
    /\ fiber = Runner /\ fibers = <<>>
    /\ stack = [f \in Tasks \cup {Runner} |-> IF f = Runner THEN <<Loop>> ELSE <<>>]
    /\ ready = <<>> /\ op = [t \in Tasks |-> NoOp]
    /\ list = [w \in Watchers |-> [s \in Sides |-> <<>>]]
    /\ armed = [w \in Watchers |-> IF Kind[w] = "timeout" THEN {"in"} ELSE {}]
    /\ mask = [w \in Watchers |-> {}] /\ closed = {} /\ ref = [w \in Watchers |-> 0]
    /\ held = {w \in Watchers : Kind[w] = "monitor"}
    /\ broadcast = [w \in Watchers |-> 0] /\ cancelled = {} /\ errored = {}
    /\ woken = {} /\ due = {} /\ lost = FALSE /\ turn = [w \in Watchers |-> <<>>]
    /\ uses \in Scenes
-------------------------------------------------------------------------------
(* ASYNC_UNREF_ENTER and ASYNC_UNREF_EXIT, in three of the kinds.           *)
Counted(w, t) == Kind[w] \in {"timer", "signal", "poll"} /\ t \notin Background
Enter(w, t) ==
    IF Counted(w, t)
    THEN /\ ref' = [ref EXCEPT ![w] = (@ + 1) % RefSize]
         /\ held' = IF ref'[w] = 1 THEN held \cup {w} ELSE held
    ELSE UNCHANGED <<ref, held>>
ExitLate(w, t) ==
    IF Counted(w, t)
    THEN /\ ref' = [ref EXCEPT ![w] = (@ - 1) % RefSize]
         /\ held' = IF ref[w] = 0 THEN held \ {w} ELSE held
    ELSE UNCHANGED <<ref, held>>
Exit(w, t) ==
    IF Counted(w, t)
    THEN /\ ref' = [ref EXCEPT ![w] = (@ - 1) % RefSize]
         /\ held' = IF ref'[w] = 0 THEN held \ {w} ELSE held
    ELSE UNCHANGED <<ref, held>>

(* The operation of t is taken off list s of w and settled; its callback    *)
(* switches to t, or queues it.  r is the rest of the caller.               *)
Settle(w, s, t, res, defer, r) ==
    /\ list' = [list EXCEPT ![w][s] = Unlink(@, t)]
    /\ op' = [op EXCEPT ![t].status = res, ![t].defer = defer]
    /\ due' = due \ {t}
    /\ Goto(r)
    /\ IF defer THEN ready' = Append(ready, t) /\ UNCHANGED <<fiber, fibers>>
                ELSE Switch(t) /\ UNCHANGED ready

Keep == UNCHANGED <<armed, mask, errored>>
Activate(w) == armed' = [armed EXCEPT ![w] = {"in"}] /\ UNCHANGED <<mask, errored>>
Deactivate(w) == armed' = [armed EXCEPT ![w] = {}] /\ UNCHANGED <<mask, errored>>

(* sync_poll: the mask follows the lists, the handle follows the mask.      *)
Wanted(w, l) == {x \in Sides : l[w][x] # <<>>}
SyncPoll(w, l) ==
    IF Wanted(w, l) = mask[w] THEN Keep
    ELSE /\ armed' = [armed EXCEPT ![w] = Wanted(w, l)]
         /\ mask' = [mask EXCEPT ![w] = Wanted(w, l)]
         /\ errored' = errored \ {w}
-------------------------------------------------------------------------------
(* PHP code of a task.                                                      *)
InCode == fiber \in Tasks /\ Top = Code
Calls(w, kind) == InCode /\ w \in uses[fiber] /\ Kind[w] = kind

(* The waiting methods.  They throw on a closed object, except for          *)
(* Monitor::awaitEvent.  async_await_op fails in a cancelled context, when  *)
(* the handle has been started.                                             *)
Added(w, s, t) == [list EXCEPT ![w][s] = Append(@, t)]
Block(w, s) ==
    /\ IF fiber \in cancelled
       THEN UNCHANGED <<fiber, fibers, stack, queueVars, ref, held>>
       ELSE /\ list' = Added(w, s, fiber)
            /\ \E a \in Addrs \ {op[t].addr : t \in Tasks} :
                  op' = [op EXCEPT ![fiber] = [NoOp EXCEPT !.status = "RUNNING", !.addr = a]]
            /\ Enter(w, fiber)
            /\ Goto(<<Wait(w, s)>> \o stack[fiber]) /\ Suspend
            /\ UNCHANGED ready
    /\ UNCHANGED <<closed, broadcast, cancelled, history>>
Sleeping(w) == list[w]["in"] = <<>> /\ armed[w] = {}
AwaitTimeout(w) ==
    /\ Calls(w, "timer") /\ w \notin closed
    /\ IF Sleeping(w) THEN Activate(w) ELSE Keep
    /\ Block(w, "in")
AwaitSignal(w) ==
    /\ Calls(w, "signal") /\ w \notin closed
    /\ IF Sleeping(w) THEN Activate(w) ELSE Keep
    /\ Block(w, "in")
AwaitPoll(w, s) ==
    /\ Calls(w, "poll") /\ w \notin closed
    /\ SyncPoll(w, Added(w, s, fiber))
    /\ Block(w, s)
AwaitEvent(w) ==
    /\ Calls(w, "monitor") /\ (w \in closed => Faults)
    /\ Activate(w)
    /\ Block(w, "in")
AwaitExpiry(w) == Calls(w, "timeout") /\ w \notin closed /\ Keep /\ Block(w, "in")
CondWait(w) == Calls(w, "condition") /\ w \notin closed /\ Keep /\ Block(w, "in")

(* close(), with the shutdown callbacks up to their loops.                  *)
Shut(w, loops) ==
    /\ w \notin closed /\ closed' = closed \cup {w}
    /\ Deactivate(w)
    /\ Goto(loops \o stack[fiber])
    /\ UNCHANGED <<fiber, fibers, queueVars, ref, held, broadcast, cancelled, history>>
CloseTimer(w) == Calls(w, "timer") /\ Shut(w, <<Closing(w, "in")>>)
CloseSignal(w) == Calls(w, "signal") /\ Shut(w, <<Closing(w, "in")>>)
ClosePoll(w) == Calls(w, "poll") /\ Shut(w, <<Closing(w, "in"), Closing(w, "out")>>)
CloseMonitor(w) == Calls(w, "monitor") /\ Shut(w, <<Closing(w, "in")>>)
CondClose(w) == Calls(w, "condition") /\ Shut(w, <<Closing(w, "in")>>)

(* Condition::signal: behind the wake-ups of a broadcast, if any.           *)
OneMore(n) == n + 1
Behind(w) == broadcast[w] > 0
Signal(w) ==
    /\ Calls(w, "condition") /\ w \notin closed /\ list[w]["in"] # <<>>
    /\ LET t == Head(list[w]["in"])
       IN /\ broadcast' = IF Behind(w) THEN [broadcast EXCEPT ![w] = OneMore(@)]
                         ELSE broadcast
          /\ Settle(w, "in", t, "RESOLVED", Behind(w), stack[fiber])
          /\ turn' = [turn EXCEPT ![w] = Append(@, t)]
    /\ UNCHANGED <<handleVars, cancelled, woken, lost>>

(* Condition::broadcast: everyone, later and in order.                      *)
Broadcast(w) ==
    /\ Calls(w, "condition") /\ w \notin closed /\ list[w]["in"] # <<>>
    /\ LET ts == list[w]["in"]
       IN /\ broadcast' = [broadcast EXCEPT ![w] = @ + Len(ts)]
          /\ op' = [t \in Tasks |-> IF t \in ToSet(ts)
                                    THEN [op[t] EXCEPT !.status = "RESOLVED", !.defer = TRUE]
                                    ELSE op[t]]
          /\ ready' = ready \o ts
          /\ turn' = [turn EXCEPT ![w] = @ \o ts]
    /\ list' = [list EXCEPT ![w]["in"] = <<>>]
    /\ UNCHANGED <<fiber, fibers, stack, handleVars, cancelled, woken, due, lost>>

Return ==
    /\ InCode
    /\ Goto(<<Over>>) /\ Suspend
    /\ UNCHANGED <<queueVars, handleVars, broadcast, cancelled, history>>
-------------------------------------------------------------------------------
(* What the C code does next.                                               *)

(* The rest of the waiting method.  ASYNC_FREE_OP unlinks the operation of  *)
(* a cancelled wait; its memory may be used again.                          *)
Marks == {fr.m : fr \in {f \in ToSet(stack[Runner]) : f.k = "trigger"}}
Resume ==
    /\ fiber \in Tasks /\ Top.k = "wait"
    /\ LET w == Top.w
       IN /\ list' = [list EXCEPT ![w][Top.s] = Unlink(@, fiber)]
          /\ Exit(w, fiber)
          /\ broadcast' = IF op[fiber].defer THEN [broadcast EXCEPT ![w] = @ - 1] ELSE broadcast
          /\ turn' = [turn EXCEPT ![w] = Unlink(@, fiber)]
    /\ lost' = (lost \/ op[fiber].addr \in Marks)
    /\ op' = [op EXCEPT ![fiber] = NoOp]
    /\ Goto(Rest)
    /\ Keep
    /\ UNCHANGED <<fiber, fibers, ready, closed, cancelled, woken, due>>

(* The loops of the callbacks.  They compare addresses: the operation that  *)
(* is the mark is the last one they wake.                                   *)
TriggerStep ==
    /\ Top.k = "trigger"
    /\ LET q == list[Top.w][Top.s]
       IN IF q = <<>>
          THEN Goto(Rest) /\ UNCHANGED <<fiber, fibers, queueVars, woken, due>>
          ELSE /\ Settle(Top.w, Top.s, Head(q), "RESOLVED", FALSE,
                         IF op[Head(q)].addr = Top.m THEN Rest ELSE stack[fiber])
               /\ woken' = woken \cup {Head(q)}
    /\ UNCHANGED <<handleVars, broadcast, cancelled, lost, turn>>

(* Their end: stop the handle when nobody waits, or sync_poll.  Nothing is  *)
(* done to a handle that is closing.                                        *)
StopAlways(w) == TRUE
StopIf(w) == list[w]["in"] = <<>>
TriggerEnd ==
    /\ Top.k = "settled"
    /\ LET w == Top.w
       IN IF w \in closed THEN Keep
          ELSE IF Kind[w] = "poll" THEN SyncPoll(w, list)
          ELSE IF StopIf(w) THEN Deactivate(w) ELSE Keep
    /\ Goto(Rest)
    /\ woken' = {} /\ due' = {} /\ lost' = FALSE
    /\ UNCHANGED <<fiber, fibers, queueVars, closed, ref, held, broadcast, cancelled, turn>>

(* The loop of the shutdown callbacks.                                      *)
FailStep ==
    /\ Top.k = "close"
    /\ LET q == list[Top.w][Top.s]
       IN IF q = <<>>
          THEN Goto(Rest) /\ UNCHANGED <<fiber, fibers, queueVars, due>>
          ELSE Settle(Top.w, Top.s, Head(q), "FAILED", FALSE, stack[fiber])
    /\ UNCHANGED <<handleVars, broadcast, cancelled, woken, lost, turn>>

(* dispatch_tasks.                                                          *)
DispatchTask ==
    /\ Top = Dispatch
    /\ IF ready = <<>> THEN Goto(Rest) /\ UNCHANGED <<fiber, fibers, ready>>
       ELSE Switch(Head(ready)) /\ ready' = Tail(ready) /\ UNCHANGED stack
    /\ UNCHANGED <<op, list, handleVars, broadcast, cancelled, history>>
-------------------------------------------------------------------------------
(* The event loop.                                                          *)
InLoop == fiber = Runner /\ Top = Loop

(* A handle calls back.  Timer and signal wake up to the operation that is  *)
(* the last one now, poll and monitor wake the first one.                   *)
NoMark(q) == None
AddrOf(q, k) == IF q = <<>> THEN None ELSE op[q[k]].addr
FirstOf(q) == AddrOf(q, 1)
LastOf(q) == AddrOf(q, Len(q))
Callback(fs, tasks) ==
    /\ Goto(fs \o stack[fiber])
    /\ due' = tasks
    /\ UNCHANGED <<fiber, fibers, queueVars, closed, ref, held, broadcast, cancelled,
                   woken, lost, turn>>
WakeAll(w) ==
    LET q == list[w]["in"]
    IN Callback(<<Trigger(w, "in", LastOf(q)), Settled(w)>>, ToSet(q))
FireTimer(w) ==
    /\ InLoop /\ Kind[w] = "timer" /\ armed[w] # {}
    /\ WakeAll(w)
    /\ Keep \/ (Faults /\ Deactivate(w))
FireSignal(w) == InLoop /\ Kind[w] = "signal" /\ armed[w] # {} /\ WakeAll(w) /\ Keep
FireMonitor(w) ==
    /\ InLoop /\ Kind[w] = "monitor" /\ armed[w] # {}
    /\ LET q == list[w]["in"]
       IN Callback(<<Trigger(w, "in", FirstOf(q)), Settled(w)>>, IF q = <<>> THEN {} ELSE {Head(q)})
    /\ Keep

(* events is what has happened, both sides when the peer has disconnected.  *)
FirePoll(w, events) ==
    /\ InLoop /\ Kind[w] = "poll" /\ armed[w] # {}
    /\ events \subseteq armed[w] \/ events = Sides
    /\ LET T(s) == IF s \in events THEN <<Trigger(w, s, FirstOf(list[w][s]))>> ELSE <<>>
       IN Callback(T("in") \o T("out") \o <<Settled(w)>>,
                   {Head(list[w][s]) : s \in {x \in events : list[w][x] # <<>>}})
    /\ Keep

(* uv__poll_io: on POLLERR libuv stops the handle and reports no events.    *)
PollError(w) ==
    /\ InLoop /\ Kind[w] = "poll" /\ armed[w] # {}
    /\ Callback(<<Settled(w)>>, {})
    /\ armed' = [armed EXCEPT ![w] = {}] /\ errored' = errored \cup {w} /\ UNCHANGED mask

(* timeout_expired.                                                         *)
Expire(w) == InLoop /\ Kind[w] = "timeout" /\ Shut(w, <<Closing(w, "in")>>)

(* dispatch_tasks starts a task, or goes on with those that were queued.    *)
Run(t) ==
    /\ InLoop /\ stack[t] = <<>>
    /\ stack' = [stack EXCEPT ![t] = <<Code>>]
    /\ Switch(t)
    /\ UNCHANGED <<queueVars, handleVars, broadcast, cancelled, history>>
StartDispatch ==
    /\ InLoop /\ ready # <<>>
    /\ Goto(<<Dispatch>> \o stack[fiber])
    /\ UNCHANGED <<fiber, fibers, queueVars, handleVars, broadcast, cancelled, history>>

(* The context of t is cancelled: cancel_op if its operation is running.    *)
Cancel(t) ==
    /\ InLoop \/ InCode
    /\ t \in Cancellable \ cancelled
    /\ cancelled' = cancelled \cup {t}
    /\ IF op[t].status = "RUNNING"
       THEN /\ op' = [op EXCEPT ![t].status = "FAILED"]
            /\ due' = due \ {t}
            /\ Switch(t)
       ELSE UNCHANGED <<fiber, fibers, op, due>>
    /\ UNCHANGED <<stack, ready, list, handleVars, broadcast, woken, lost, turn>>
-------------------------------------------------------------------------------
PhpCode ==
    \/ \E w \in Watchers :
          \/ AwaitTimeout(w) \/ AwaitSignal(w) \/ AwaitEvent(w) \/ AwaitExpiry(w)
          \/ \E s \in Sides : AwaitPoll(w, s)
          \/ CloseTimer(w) \/ CloseSignal(w) \/ ClosePoll(w) \/ CloseMonitor(w)
          \/ CondWait(w) \/ Signal(w) \/ Broadcast(w) \/ CondClose(w)
    \/ Return
Engine == Resume \/ TriggerStep \/ TriggerEnd \/ FailStep \/ DispatchTask
EventLoop ==
    \/ \E w \in Watchers :
          \/ FireTimer(w) \/ FireSignal(w) \/ FireMonitor(w) \/ PollError(w) \/ Expire(w)
          \/ \E events \in SUBSET Sides \ {{}} : FirePoll(w, events)
    \/ \E t \in Tasks : Run(t) \/ Cancel(t)
    \/ StartDispatch
Next == (PhpCode \/ Engine \/ EventLoop) /\ UNCHANGED uses
Spec == Init /\ [][Next]_vars
-------------------------------------------------------------------------------
(* Properties.                                                              *)
Waits(t) == stack[t] # <<>> /\ Head(stack[t]).k = "wait" /\ op[t].status = "RUNNING"
On(t) == Head(stack[t])
BeingClosed(w) == \E f \in Tasks \cup {Runner} : \E fr \in ToSet(stack[f]) :
                     fr.k = "close" /\ fr.w = w

FrameKinds == {"loop", "dispatch", "code", "over", "wait", "trigger", "settled", "close"}
Frames == [k : FrameKinds, w : Watchers \cup {None}, s : Sides, m : Addrs \cup {None}]

(* Every variable keeps its type.                                           *)
TypeOK ==
    /\ fiber \in Tasks \cup {Runner} /\ fibers \in Seq(Tasks \cup {Runner})
    /\ stack \in [Tasks \cup {Runner} -> Seq(Frames)]
    /\ ready \in Seq(Tasks)
    /\ op \in [Tasks -> [status : {"PENDING", "RUNNING", "RESOLVED", "FAILED"},
                         addr : Addrs \cup {None}, defer : BOOLEAN]]
    /\ list \in [Watchers -> [Sides -> Seq(Tasks)]]
    /\ armed \in [Watchers -> SUBSET Sides] /\ mask \in [Watchers -> SUBSET Sides]
    /\ closed \subseteq Watchers /\ held \subseteq Watchers /\ errored \subseteq Watchers
    /\ ref \in [Watchers -> 0..RefSize - 1] /\ broadcast \in [Watchers -> Nat]
    /\ cancelled \subseteq Tasks /\ woken \subseteq Tasks /\ due \subseteq Tasks
    /\ uses \in Scenes /\ lost \in BOOLEAN /\ turn \in [Watchers -> Seq(Tasks)]

(* Nobody is forgotten: a task that waits is in the list, the handle is     *)
(* armed for it and keeps the loop alive unless the task is a background    *)
(* one; or the object is being closed and the task will be failed.          *)
Remembered(t, w, s) ==
    /\ t \in ToSet(list[w][s])
    /\ w \in closed => BeingClosed(w)
    /\ w \in closed \/ w \in held \/ ~(Counted(w, t) \/ Kind[w] = "monitor")
Watched(w, s) == w \in closed \/ Kind[w] = "condition" \/ s \in armed[w]
NobodyForgotten ==
    \A t \in Tasks : Waits(t) =>
        /\ Remembered(t, On(t).w, On(t).s)
        /\ On(t).w \notin errored => Watched(On(t).w, On(t).s)

(* A handle keeps the loop alive only while a foreground task waits on it.  *)
NotHeldInVain ==
    \A w \in held : Kind[w] # "monitor" =>
        \E t \in Tasks : /\ ToSet(stack[t]) \cap {Wait(w, s) : s \in Sides} # {}
                         /\ Counted(w, t)

(* A callback resumes everyone it has to: at its end nobody is left who     *)
(* waited when it came.                                                     *)
EveryoneWoken == Top.k = "settled" => due = {}

(* A callback comes to an end: it does not resume a task twice, even if     *)
(* that waits again at once, unless the operation it would stop at has been *)
(* cancelled meanwhile, or that side of a poll had none.                    *)
WokenOnce ==
    (Top.k = "trigger" /\ (Top.m = None => Kind[Top.w] # "poll") /\ ~lost /\ list[Top.w][Top.s] # <<>>) =>
        Head(list[Top.w][Top.s]) \notin woken

(* A callback wakes everyone it has to, and each of them once; a handle     *)
(* keeps the loop alive only for somebody who waits.                        *)
Sound == TypeOK /\ EveryoneWoken /\ WokenOnce /\ NotHeldInVain
===============================================================================
