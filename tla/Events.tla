--------------------------------- MODULE Events ---------------------------------
(***************************************************************************)
(* PollEvent, TickEvent and TimerEvent (src/src/event.c), and the loop that *)
(* serves them: run_scheduler_fiber (src/src/task.c) around uv_run.  Ticks  *)
(* are a queue of the scheduler and run before each uv_run; timers and      *)
(* polls are libuv handles.  PHP code runs in the main script, while the    *)
(* loop is parked, and in the callbacks of the loop.                        *)
(***************************************************************************)
EXTENDS Integers, Sequences, FiniteSets, SequencesExt

CONSTANTS Events, Kind,  \* event objects, and what each of them is
          Scenes,        \* programs: the events they use, whether they use
                         \* other operations, whether callbacks throw or call
                         \* exit() and descriptors fail
          MaxCalls,      \* bound: calls PHP code makes on events it has
          None           \* no event

Kinds == {"tick", "timer", "poll"}
ASSUME EventNames == None \notin Events /\ "op" \notin Events /\ IsFiniteSet(Events)
ASSUME EventSets ==
    /\ Kind \in [Events -> Kinds] /\ MaxCalls \in Nat
    /\ Scenes \subseteq [events : SUBSET Events, ops : BOOLEAN, faults : BOOLEAN]

VARIABLES ev,       \* the event objects
          ticks,    \* scheduler->ticks
          running,  \* scheduler->running
          refticks, \* scheduler->refticks
          pc,       \* what the scheduler fiber does; "main": it is suspended
          phase,    \* how far the main script is
          cb,       \* in a callback: its event; "op" for an operation's
          back,     \* in a callback: where it returns to
          nowait,   \* uv_run was called with UV_RUN_NOWAIT
          uvstop,   \* loop->stop_flag
          due,      \* timers with timeout <= loop->time
          seen,     \* polls that have been served by this uv__io_poll
          busy,     \* another handle or request keeps the loop alive
          stopped,  \* FLAG_ERROR iff not empty: "error" and "exit"
          scene,    \* the program
          calls     \* bound: calls so far

lists == <<ticks, running, refticks>>
loopVars == <<pc, phase, cb, back, nowait, uvstop>>
ioVars == <<due, seen, busy>>
vars == <<ev, lists, loopVars, ioVars, stopped, scene, calls>>
-------------------------------------------------------------------------------
(* An event before it is created.  hnd is its libuv handle, list the list   *)
(* that event->list points to.                                              *)
Blank == [made |-> FALSE, held |-> FALSE, refs |-> 0, list |-> "none", hnd |-> "idle",
          refd |-> TRUE, closed |-> FALSE, sched |-> FALSE,
          periodic |-> FALSE, repeat |-> FALSE]

Init ==
    /\ ev = [e \in Events |-> Blank]
    /\ ticks = <<>> /\ running = <<>> /\ refticks = 0
    /\ pc = "main" /\ phase = "script" /\ cb = None /\ back = "main"
    /\ nowait = FALSE /\ uvstop = FALSE
    /\ due = {} /\ seen = {} /\ busy = FALSE
    /\ stopped = {} /\ scene \in Scenes /\ calls = 0

Of(k) == {e \in Events : Kind[e] = k}
Open(v) == v.hnd \in {"idle", "active"}

(* uv__loop_alive *)
AliveIn(evs, other) ==
    \/ other
    \/ \E e \in Events : (evs[e].hnd = "active" /\ evs[e].refd) \/ evs[e].hnd = "closing"
Alive == AliveIn(ev, busy)

(* FLAG_ACTIVE: uv_run is running.                                          *)
Active == pc \in {"time", "timers", "poll", "sleep"} \/ (pc = "code" /\ back \in {"timers", "poll"})
Disposed == phase \notin {"script", "ending"}
-------------------------------------------------------------------------------
(* Objects.  ASYNC_DELREF: the destructor of a timer or poll closes the     *)
(* handle and keeps the object until close_timer or close_poll.             *)
Addref(v) == [v EXCEPT !.refs = @ + 1]
Unschedule(v) == IF v.sched THEN [v EXCEPT !.sched = FALSE, !.refs = @ - 1] ELSE v
CloseHandle(v) == IF Open(v) THEN Unschedule([Addref(v) EXCEPT !.hnd = "closing"]) ELSE v
Delref(e, v) ==
    LET w == [v EXCEPT !.refs = @ - 1]
    IN IF w.refs = 0 /\ Kind[e] # "tick" THEN CloseHandle(w) ELSE w

(* shutdown_timer marks the event as closed, shutdown_poll does not.        *)
ShutdownEvent(e, v) ==
    IF v.made /\ Kind[e] # "tick" /\ Open(v)
    THEN [CloseHandle(v) EXCEPT !.closed = @ \/ Kind[e] = "timer"]
    ELSE v

(* activate_tick and deactivate_tick, on the object v of e                  *)
NeverStops == FALSE
StopsLoop == Active /\ ticks = <<>>
Activate(e, v) ==
    /\ uvstop' = (uvstop \/ StopsLoop)
    /\ ticks' = Append(ticks, e)
    /\ refticks' = refticks + (IF v.refd THEN 1 ELSE 0)
    /\ ev' = [ev EXCEPT ![e] = [Addref(v) EXCEPT !.list = "ticks"]]
    /\ UNCHANGED running
Deactivate(e, v) ==
    /\ ticks' = (IF v.list = "ticks" THEN RemoveFirst(ticks, e) ELSE ticks)
    /\ running' = (IF v.list = "running" THEN RemoveFirst(running, e) ELSE running)
    /\ refticks' = refticks - (IF v.refd THEN 1 ELSE 0)
    /\ ev' = [ev EXCEPT ![e] = [Delref(e, v) EXCEPT !.list = "none"]]
    /\ UNCHANGED uvstop

(* dispose_ticks, on the objects evs                                        *)
Listed == {e \in Events : ev[e].list # "none"}
Counted == {e \in Listed : ev[e].refd}
Unlisted(evs) ==
    [e \in Events |-> IF e \in Listed THEN Delref(e, [evs[e] EXCEPT !.list = "none"]) ELSE evs[e]]
DisposeTicks(evs) ==
    /\ ev' = Unlisted(evs)
    /\ ticks' = <<>> /\ running' = <<>>
    /\ refticks' = refticks - Cardinality(Counted)

(* async_task_scheduler_handle_error and _handle_exit                       *)
Stop(why, evs) ==
    /\ stopped' = stopped \cup {why}
    /\ uvstop' = (uvstop \/ Active)
    /\ DisposeTicks(evs)
-------------------------------------------------------------------------------
(* Calls of PHP code on an event it can reach.  Code that the shutdown of   *)
(* other objects runs does not touch polls: their handles are closing, and  *)
(* libuv aborts the process when one is started or stopped.                 *)
InCode == pc = "code" \/ (pc = "main" /\ phase \in {"script", "first"})
Reaches(e) == InCode /\ e \in scene.events /\ ev[e].made /\ (ev[e].held \/ cb = e)
Usable(e) == Reaches(e) /\ ~ev[e].closed /\ calls < MaxCalls
Free == UNCHANGED <<pc, phase, cb, back, nowait, busy, stopped, scene, calls>>
Call == calls' = calls + 1 /\ UNCHANGED <<pc, phase, cb, back, nowait, busy, stopped, scene>>
Set(e, v) == ev' = [ev EXCEPT ![e] = v]

(* TaskScheduler::tick, ::timer and ::poll                                  *)
Create(e) ==
    /\ InCode /\ e \in scene.events /\ ~ev[e].made
    /\ ~Disposed /\ stopped = {}
    /\ LET v == [Blank EXCEPT !.made = TRUE, !.held = TRUE, !.refs = 1]
       IN IF Kind[e] = "tick" THEN Activate(e, v)
                              ELSE Set(e, v) /\ UNCHANGED <<lists, uvstop>>
    /\ Free /\ UNCHANGED <<due, seen>>

(* TickEvent::start, ::stop.  A tick may start itself again forever.        *)
StartTick(e) ==
    /\ Kind[e] = "tick" /\ Reaches(e) /\ ~ev[e].closed /\ ev[e].list = "none"
    /\ Activate(e, ev[e])
    /\ IF cb = e THEN Free ELSE calls < MaxCalls /\ Call
    /\ UNCHANGED <<due, seen>>
StopTick(e) ==
    /\ Kind[e] = "tick" /\ Usable(e) /\ ev[e].list # "none"
    /\ Deactivate(e, ev[e])
    /\ Call /\ UNCHANGED <<due, seen>>

(* TimerEvent::start: a delay of zero is due at once.                       *)
StartTimer(e, zero, periodic) ==
    /\ Kind[e] = "timer" /\ Usable(e)
    /\ LET v == ev[e] IN
       Set(e, [v EXCEPT !.hnd = "active", !.periodic = periodic, !.repeat = periodic /\ ~zero,
                        !.sched = TRUE, !.refs = @ + (IF v.sched THEN 0 ELSE 1)])
    /\ due' = IF zero THEN due \cup {e} ELSE due \ {e}
    /\ Call /\ UNCHANGED <<lists, uvstop, seen>>

(* PollEvent::start.  libuv forgets what it knows about the descriptor.     *)
StartPoll(e) ==
    /\ Kind[e] = "poll" /\ Usable(e) /\ Open(ev[e])
    /\ LET v == ev[e] IN
       Set(e, [v EXCEPT !.hnd = "active", !.sched = TRUE,
                        !.refs = @ + (IF v.sched THEN 0 ELSE 1)])
    /\ seen' = seen \cup {e}
    /\ Call /\ UNCHANGED <<lists, uvstop, due>>

(* TimerEvent::stop, PollEvent::stop                                        *)
StopHandle(e) ==
    /\ Kind[e] # "tick" /\ Usable(e) /\ Open(ev[e])
    /\ Set(e, Unschedule([ev[e] EXCEPT !.hnd = "idle"]))
    /\ due' = due \ {e} /\ seen' = seen \cup {e}
    /\ Call /\ UNCHANGED <<lists, uvstop>>

(* close of each class.  The object of a running callback stays.            *)
Close(e) ==
    /\ Usable(e)
    /\ IF Kind[e] = "tick"
       THEN LET v == [ev[e] EXCEPT !.closed = TRUE]
            IN IF v.list = "none" THEN Set(e, v) /\ UNCHANGED <<lists, uvstop>>
                                  ELSE Deactivate(e, v)
       ELSE /\ Set(e, [ShutdownEvent(e, ev[e]) EXCEPT !.closed = TRUE])
            /\ UNCHANGED <<lists, uvstop>>
    /\ due' = due \ {e} /\ seen' = seen \cup {e}
    /\ Call

(* ref and unref.  Only an active tick counts.                              *)
CountAlways(e, n) == refticks' = refticks + (IF Kind[e] = "tick" THEN n ELSE 0)
CountTick(e, n) ==
    refticks' = refticks + (IF Kind[e] = "tick" /\ ev[e].list # "none" THEN n ELSE 0)
Ref(e) ==
    /\ Usable(e) /\ ~ev[e].refd
    /\ Set(e, [ev[e] EXCEPT !.refd = TRUE]) /\ CountTick(e, 1)
    /\ Call /\ UNCHANGED <<ticks, running, uvstop, due, seen>>
Unref(e) ==
    /\ Usable(e) /\ ev[e].refd
    /\ Set(e, [ev[e] EXCEPT !.refd = FALSE]) /\ CountTick(e, 0 - 1)
    /\ Call /\ UNCHANGED <<ticks, running, uvstop, due, seen>>

(* The program drops its variable.                                          *)
Drop(e) ==
    /\ InCode /\ ev[e].held
    /\ Set(e, Delref(e, [ev[e] EXCEPT !.held = FALSE]))
    /\ due' = due \ {x \in due : ev'[x].hnd # "active"}
    /\ Free /\ UNCHANGED <<lists, uvstop, seen>>

(* A task begins an operation; its callback runs PHP code.                  *)
Begin ==
    /\ scene.ops /\ InCode /\ ~Disposed /\ stopped = {} /\ ~busy /\ calls < MaxCalls
    /\ busy' = TRUE /\ calls' = calls + 1
    /\ UNCHANGED <<ev, lists, loopVars, due, seen, stopped, scene>>
-------------------------------------------------------------------------------
(* The main script.                                                         *)
Goto(where) == pc' = where /\ UNCHANGED <<cb, back, nowait>>

(* It waits, or it is over and the scheduler is disposed: after an error    *)
(* that waits for nothing more.                                             *)
Wait ==
    /\ pc = "main" /\ phase = "script"
    /\ stopped = {}
    /\ Goto("top")
    /\ UNCHANGED <<ev, lists, phase, uvstop, ioVars, stopped, scene, calls>>
Finish ==
    /\ pc = "main" /\ phase = "script" /\ phase' = "ending"
    /\ Goto(IF "error" \in stopped THEN "main" ELSE "top")
    /\ UNCHANGED <<ev, lists, uvstop, ioVars, stopped, scene, calls>>

(* async_task_scheduler_dispose.  Whatever else is pending fails.  Its loop *)
(* ends after one round when nothing is alive then: see LoopIdle.           *)
Dispose ==
    /\ pc = "main" /\ phase = "ending" /\ phase' = "first"
    /\ DisposeTicks([e \in Events |-> ShutdownEvent(e, ev[e])])
    /\ due' = {} /\ busy' = FALSE
    /\ Goto("main") /\ UNCHANGED <<uvstop, seen, stopped, scene, calls>>
RunAgain ==
    /\ pc = "main"
    /\ \/ phase = "first" /\ phase' = "second" /\ Goto("top")
       \/ phase = "second" /\ phase' = "last" /\ Goto("top")
    /\ UNCHANGED <<ev, lists, uvstop, ioVars, stopped, scene, calls>>
Exit ==
    /\ pc = "main" /\ phase = "last" /\ phase' = "done"
    /\ ev' = [e \in Events |-> IF ev[e].held THEN Delref(e, [ev[e] EXCEPT !.held = FALSE])
                                             ELSE ev[e]]
    /\ Goto("main")
    /\ UNCHANGED <<lists, uvstop, ioVars, stopped, scene, calls>>
-------------------------------------------------------------------------------
(* run_scheduler_fiber.                                                     *)
Top ==
    /\ pc = "top"
    /\ IF ticks = <<>>
       THEN Goto("run") /\ UNCHANGED <<ev, lists>>
       ELSE /\ running' = ticks /\ ticks' = <<>>
            /\ ev' = [e \in Events |-> IF ev[e].list = "ticks" THEN [ev[e] EXCEPT !.list = "running"]
                                                               ELSE ev[e]]
            /\ Goto("ticks") /\ UNCHANGED refticks
    /\ UNCHANGED <<phase, uvstop, ioVars, stopped, scene, calls>>

(* run_ticks: the callback takes over the reference of the list.            *)
Callback(e, from) == pc' = "code" /\ cb' = e /\ back' = from /\ UNCHANGED <<phase, nowait, uvstop>>
TicksFirst == IF ticks # <<>> THEN "top" ELSE "run"
AfterTicks == "run"
RunTick ==
    /\ pc = "ticks"
    /\ IF running = <<>>
       THEN Goto(AfterTicks) /\ UNCHANGED <<ev, lists, phase, uvstop>>
       ELSE LET e == Head(running) IN
            /\ running' = Tail(running)
            /\ refticks' = refticks - (IF ev[e].refd THEN 1 ELSE 0)
            /\ Set(e, [ev[e] EXCEPT !.list = "none"])
            /\ Callback(e, "ticks") /\ UNCHANGED ticks
    /\ UNCHANGED <<ioVars, stopped, scene, calls>>

(* uv_run, up to the first iteration                                        *)
UvRun ==
    /\ pc = "run"
    /\ nowait' = (ticks # <<>>)
    /\ pc' = IF Alive THEN "time" ELSE "after"
    /\ UNCHANGED <<ev, lists, phase, cb, back, uvstop, ioVars, stopped, scene, calls>>

(* Time passes, when libuv looks at the clock.                              *)
Elapse(e) ==
    /\ pc \in {"time", "sleep"} /\ e \in Of("timer")
    /\ ev[e].hnd = "active" /\ e \notin due
    /\ due' = due \cup {e}
    /\ Goto(IF pc = "sleep" THEN "poll" ELSE pc)
    /\ UNCHANGED <<ev, lists, phase, uvstop, seen, busy, stopped, scene, calls>>

UpdateTime ==
    /\ pc = "time" /\ Goto("timers")
    /\ UNCHANGED <<ev, lists, phase, uvstop, ioVars, stopped, scene, calls>>

(* uv__run_timers and timer_cb                                              *)
TimerCb(e) ==
    /\ pc = "timers" /\ e \in due
    /\ LET v == Addref([ev[e] EXCEPT !.hnd = IF ev[e].repeat THEN "active" ELSE "idle"])
       IN Set(e, IF v.periodic THEN v ELSE Unschedule(v))
    /\ due' = due \ {e}
    /\ Callback(e, "timers")
    /\ UNCHANGED <<lists, seen, busy, stopped, scene, calls>>

(* uv_backend_timeout and the wait of uv__io_poll                           *)
MaySleep == /\ ~nowait /\ ~uvstop /\ Alive
            /\ \A e \in Events : ev[e].hnd # "closing"
LeaveTimers ==
    /\ pc = "timers" /\ due = {}
    /\ Goto(IF MaySleep THEN "sleep" ELSE "poll") /\ seen' = {}
    /\ UNCHANGED <<ev, lists, phase, uvstop, due, busy, stopped, scene, calls>>

(* uv__poll_io and poll_cb                                                  *)
Reported(e) == pc \in {"poll", "sleep"} /\ e \in Of("poll") \ seen /\ ev[e].hnd = "active"
PollCb(e) ==
    /\ Reported(e)
    /\ Set(e, Addref(ev[e])) /\ seen' = seen \cup {e}
    /\ Callback(e, "poll")
    /\ UNCHANGED <<lists, due, busy, stopped, scene, calls>>
PollFails(e) ==
    /\ Reported(e) /\ scene.faults
    /\ Stop("error", [ev EXCEPT ![e].hnd = "idle"])
    /\ seen' = seen \cup {e} /\ Goto("poll")
    /\ UNCHANGED <<phase, due, busy, scene, calls>>
OpCb ==
    /\ pc \in {"poll", "sleep"} /\ busy
    /\ busy' = FALSE /\ Callback("op", "poll")
    /\ UNCHANGED <<ev, lists, due, seen, stopped, scene, calls>>

(* The rest of an iteration: closing callbacks, and whether to go on.       *)
Closed == [e \in Events |-> IF ev[e].hnd = "closing" THEN Delref(e, [ev[e] EXCEPT !.hnd = "closed"])
                                                     ELSE ev[e]]
LeavePoll ==
    /\ pc = "poll"
    /\ ev' = Closed
    /\ Goto(IF ~nowait /\ ~uvstop /\ AliveIn(Closed, busy) THEN "time" ELSE "after")
    /\ UNCHANGED <<lists, phase, uvstop, ioVars, stopped, scene, calls>>

(* The end of uv_run, and of the loop around it                             *)
Again == Alive \/ refticks > 0
After ==
    /\ pc = "after" /\ uvstop' = FALSE
    /\ Goto(IF stopped = {} /\ Again THEN "top" ELSE "main")
    /\ UNCHANGED <<ev, lists, phase, ioVars, stopped, scene, calls>>

(* A callback is over.  A tick that fails ends run_ticks.                   *)
Released == IF cb = "op" THEN ev ELSE [ev EXCEPT ![cb] = Delref(cb, ev[cb])]
LeaveCode(where) == pc' = where /\ cb' = None /\ UNCHANGED <<phase, back, nowait>>
Return ==
    /\ pc = "code" /\ LeaveCode(back)
    /\ ev' = Released
    /\ UNCHANGED <<lists, uvstop, ioVars, stopped, scene, calls>>
Fail(why) ==
    /\ pc = "code" /\ scene.faults /\ (cb = "op" => why = "exit")
    /\ LeaveCode(IF back = "ticks" THEN "run" ELSE back)
    /\ Stop(why, Released)
    /\ UNCHANGED <<ioVars, scene, calls>>
-------------------------------------------------------------------------------
CallOn(e) ==
    \/ Create(e) \/ StartTick(e) \/ StopTick(e) \/ StartPoll(e) \/ StopHandle(e)
    \/ \E zero, periodic \in BOOLEAN : StartTimer(e, zero, periodic)
    \/ Close(e) \/ Ref(e) \/ Unref(e) \/ Drop(e)
Program == Begin \/ \E e \in Events : CallOn(e)
MainStep == Wait \/ Finish \/ Dispose \/ RunAgain \/ Exit
LoopStep ==
    \/ Top \/ RunTick \/ UvRun \/ UpdateTime \/ LeaveTimers \/ LeavePoll \/ After \/ Return
    \/ \E e \in Events : TimerCb(e)
Outside ==
    \/ OpCb \/ \E why \in {"error", "exit"} : Fail(why)
    \/ \E e \in Events : Elapse(e) \/ PollCb(e) \/ PollFails(e)

Next == Program \/ MainStep \/ LoopStep \/ Outside
Spec == Init /\ [][Next]_vars

(* The CPU goes on: PHP code returns, the loop takes its steps, and time     *)
(* passes for every timer.  Descriptors and operations need never answer.    *)
FairSpec ==
    /\ Spec
    /\ WF_vars(MainStep) /\ WF_vars(LoopStep)
    /\ \A e \in Of("timer") : SF_vars(Elapse(e))
-------------------------------------------------------------------------------
(* Every reference of an event is one of: the program's variable, the list  *)
(* the tick is in, the flag SCHEDULED, the close callback that is due, or   *)
(* the callback that runs; without one the libuv handle is closed.  The     *)
(* lists, event->list and refticks agree.  No timer or poll is left at the  *)
(* end; a tick may be, when code starts it while the loop runs for the last *)
(* time and it is unreferenced or the scheduler has been stopped.           *)
Count(b) == IF b THEN 1 ELSE 0
References(e) ==
    Count(ev[e].held) + Count(ev[e].list # "none") + Count(ev[e].sched)
        + Count(ev[e].hnd = "closing") + Count(cb = e)
ListsAgree ==
    /\ {e \in Events : ev[e].list = "ticks"} = ToSet(ticks) /\ IsInjective(ticks)
    /\ {e \in Events : ev[e].list = "running"} = ToSet(running) /\ IsInjective(running)
    /\ refticks = Cardinality(Counted)
    /\ pc # "ticks" /\ ~(pc = "code" /\ back = "ticks") => running = <<>>
Sound ==
    /\ \A e \in Events :
         /\ ev[e].refs = References(e)
         /\ ev[e].made /\ ev[e].refs = 0 /\ Kind[e] # "tick" => ev[e].hnd = "closed"
    /\ ListsAgree
    /\ phase = "done" => \A e \in Events : Kind[e] # "tick" => ev[e].refs = 0

(* The loop goes to sleep in the kernel only when no tick is waiting, it    *)
(* returns for good only when none of those that hold it is, and two runs   *)
(* after the shutdown of all events every handle is closed.                 *)
LoopIdle ==
    /\ pc = "sleep" => ticks = <<>>
    /\ pc = "main" /\ phase \in {"ending", "second", "last"} /\ stopped = {} => refticks = 0
    /\ pc = "main" /\ phase = "last" => ~Alive

(* Unless the scheduler is stopped, a tick that holds the loop leaves the    *)
(* list again, and a timer that holds it fires or is stopped, while other    *)
(* ticks start themselves again forever.                                     *)
Progress ==
    /\ \A e \in Of("tick") :
         (ev[e].list # "none" /\ ev[e].refd) ~> (ev[e].list = "none" \/ ~ev[e].refd \/ stopped # {})
    /\ \A e \in Of("timer") :
         (ev[e].hnd = "active" /\ ev[e].refd) ~> (cb = e \/ ev[e].hnd # "active" \/ ~ev[e].refd)
===============================================================================
