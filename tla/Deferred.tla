-------------------------------- MODULE Deferred --------------------------------
(***************************************************************************)
(* Deferreds (src/src/deferred.c): states that PHP code settles, combine    *)
(* and transform on top of them, the cancel handler of a deferred and what  *)
(* the disposal of the scheduler does to them.  Everything runs on one      *)
(* stack: an operation that is settled calls back at once, which runs PHP   *)
(* code (a task until it suspends, or a callback) inside of the loop that   *)
(* settles.  exit() in a callback and the values of results are left out.   *)
(***************************************************************************)
EXTENDS Integers, FiniteSets, SequencesExt

CONSTANTS Tasks,       \* tasks, which may be awaited as well
          MaxStates,   \* bound: number of deferred states
          Results,     \* how PHP code settles deferreds and tasks end
          Features     \* what the PHP code of this instance uses

States == 1 .. MaxStates
Awaitables == Tasks \cup States

ASSUME DeferredNames == Tasks \cap States = {} /\ MaxStates \in Nat
ASSUME DeferredSets ==
    /\ Results \subseteq {"RESOLVED", "FAILED"}
    /\ Features \subseteq {"combine", "transform", "cancel", "drop", "dispose"}

VARIABLES stack,     \* C frames and PHP code, top first
          made,      \* number of states so far
          kind,      \* how a state came to be
          status,    \* state->status, task->status
          ops,       \* state->operations, task->operations
          started,   \* combined->started
          counter,   \* combined->counter
          inputs,    \* history: the awaitables a state combines or transforms
          freed,     \* combined structures that are freed
          handed,    \* combined deferreds that callbacks have been given
          oncancel,  \* cancel handlers, in the order of their registration
          cancelled, \* the context is cancelled
          shutdown,  \* scheduler->shutdown
          disposed,  \* the scheduler is being disposed or is
          waits,     \* tasks that wait
          last       \* history: how many calls were told to be the last

combineVars == <<started, counter, inputs, freed, handed, last>>
contextVars == <<oncancel, cancelled>>
vars == <<stack, made, kind, status, ops, combineVars, contextVars, shutdown, disposed, waits>>
-------------------------------------------------------------------------------
Frame(k, x, i) == [k |-> k, x |-> x, i |-> i]
Loop == Frame("loop", 0, 0)                 \* the event loop
Code(t) == Frame("code", t, 0)              \* PHP code of a task
Call(k, d) == Frame(k, d, 0)                \* PHP code of a callback: "combine",
                                            \* "transform" or "cancel"
Trigger(x) == Frame("trigger", x, 0)        \* trigger_ops
Register(d, i) == Frame("register", d, i)   \* the loop of Deferred::combine
Settle(d) == Frame("settle", d, 0)          \* combine_cb, when the call is over
Free(d) == Frame("free", d, 0)              \* the end of combine_cb
Cancelling == Frame("cancelling", 0, 0)     \* the loop over cancel callbacks
Shut == Frame("shut", 0, 0)                 \* the loop over scheduler->shutdown

Top == Head(stack)
Rest == Tail(stack)
InLoop == Top = Loop
InCode == Top.k \in {"code", "combine", "transform", "cancel"}
Settled(x) == status[x] \in {"RESOLVED", "FAILED"}
Op(k, x) == <<k, x>>

Init ==
    /\ stack = <<Loop>> /\ made = 0
    /\ kind = [d \in States |-> "none"]
    /\ status = [x \in Awaitables |-> "PENDING"]
    /\ ops = [x \in Awaitables |-> <<>>]
    /\ started = [d \in States |-> 0] /\ counter = [d \in States |-> 0]
    /\ inputs = [d \in States |-> <<>>] /\ freed = {} /\ handed = {}
    /\ oncancel = <<>> /\ cancelled = FALSE
    /\ shutdown = <<>> /\ disposed = FALSE
    /\ waits = {} /\ last = [d \in States |-> 0]
-------------------------------------------------------------------------------
(* A settled operation calls back: a waiting task goes on, or the function  *)
(* of combine or transform is called.                                       *)
NotCounted(d) == UNCHANGED started
CountedDown(d) == started' = [started EXCEPT ![d] = @ - 1]
CallBack(o, rest) ==
    CASE o[1] = "wait" ->
             /\ stack' = <<Code(o[2])>> \o rest /\ waits' = waits \ {o[2]}
             /\ UNCHANGED <<started, last, handed>>
      [] o[1] = "combine" ->
             /\ stack' = <<Call("combine", o[2])>> \o rest /\ UNCHANGED waits
             /\ CountedDown(o[2])
             /\ last' = [last EXCEPT ![o[2]] = IF started[o[2]] = 1 THEN @ + 1 ELSE @]
             /\ handed' = handed \cup {o[2]}
      [] o[1] = "transform" ->
             /\ stack' = <<Call("transform", o[2])>> \o rest
             /\ UNCHANGED <<waits, started, last, handed>>

(* trigger_ops: first the entry for the shutdown goes, then the operations, *)
(* one after the other; also the loop of release_state.                     *)
TriggerOps ==
    /\ Top.k = "trigger"
    /\ LET x == Top.x
       IN IF ops[x] = <<>>
          THEN stack' = Rest /\ UNCHANGED <<ops, started, last, handed, waits>>
          ELSE ops' = [ops EXCEPT ![x] = Tail(@)] /\ CallBack(Head(ops[x]), stack)
    /\ UNCHANGED <<made, kind, status, counter, inputs, freed, contextVars, shutdown, disposed>>
Triggered(d, rest) ==
    /\ stack' = <<Trigger(d)>> \o rest
    /\ shutdown' = RemoveFirst(shutdown, d)

Listed(d) == Append(shutdown, d)
New(d, k) ==
    /\ d = made + 1 /\ d \in States /\ made' = d
    /\ kind' = [kind EXCEPT ![d] = k]
    /\ shutdown' = Listed(d)

(* new Deferred, with a cancel handler or without.                          *)
Construct(d, handler) ==
    /\ InCode /\ New(d, "plain")
    /\ IF handler /\ cancelled
       THEN stack' = <<Call("cancel", d)>> \o stack /\ UNCHANGED oncancel
       ELSE oncancel' = (IF handler THEN Append(oncancel, d) ELSE oncancel) /\ UNCHANGED stack
    /\ UNCHANGED <<status, ops, combineVars, cancelled, disposed, waits>>

(* Deferred::resolve and fail.  Who has the deferred of a combination got   *)
(* it as an argument of the callback.                                       *)
Open(d) == ~Settled(d)
MaySettle(d) == kind[d] = "plain" \/ d \in handed
SettleDeferred(d, how) ==
    /\ InCode /\ MaySettle(d) /\ Open(d)
    /\ status' = [status EXCEPT ![d] = how]
    /\ oncancel' = RemoveFirst(oncancel, d)
    /\ Triggered(d, stack)
    /\ UNCHANGED <<made, kind, ops, combineVars, cancelled, disposed, waits>>

(* The last reference to a deferred that is pending goes (release_state):   *)
(* its operations fail.  A waiting task, a call of combine and a handler    *)
(* hold a reference, a combination or transformation does not.              *)
Dropped(d) ==
    /\ InCode /\ kind[d] = "plain" /\ Open(d)
    /\ \A o \in ToSet(ops[d]) : o[1] # "wait"
    /\ \A f \in ToSet(stack) :
           f # Call("cancel", d) /\ (f.k = "register" => d \notin ToSet(inputs[f.x]))
    /\ kind' = [kind EXCEPT ![d] = "gone"]
    /\ status' = [status EXCEPT ![d] = "FAILED"]
    /\ oncancel' = RemoveFirst(oncancel, d)
    /\ Triggered(d, stack)
    /\ UNCHANGED <<made, ops, combineVars, cancelled, disposed, waits>>

(* Deferred::combine registers its inputs one by one; one that is settled   *)
(* calls back at once.                                                      *)
Exists(x) == x \in Tasks \cup {d \in States : kind[d] \notin {"none", "gone"}}
Combine(d, x, y) ==
    /\ InCode /\ Exists(x) /\ Exists(y) /\ x # y /\ New(d, "combine")
    /\ inputs' = [inputs EXCEPT ![d] = <<x, y>>]
    /\ started' = [started EXCEPT ![d] = 2] /\ counter' = [counter EXCEPT ![d] = 2]
    /\ stack' = <<Register(d, 1)>> \o stack
    /\ UNCHANGED <<status, ops, freed, handed, last, contextVars, disposed, waits>>
RegisterInput ==
    /\ Top.k = "register"
    /\ LET d == Top.x
           x == inputs[d][Top.i]
           rest == IF Top.i = 2 THEN Rest ELSE <<Register(d, Top.i + 1)>> \o Rest
       IN IF Settled(x)
          THEN CallBack(Op("combine", d), rest) /\ UNCHANGED ops
          ELSE /\ ops' = [ops EXCEPT ![x] = Append(@, Op("combine", d))]
               /\ stack' = rest /\ UNCHANGED <<started, last, handed, waits>>
    /\ UNCHANGED <<made, kind, status, counter, inputs, freed, contextVars, shutdown, disposed>>

(* combine_cb after the call: an error settles the combination, ...         *)
FailAnyway(d) == TRUE
StillPending(d) == status[d] = "PENDING"
CombineReturns(throws) ==
    /\ Top.k = "combine"
    /\ LET d == Top.x
           next == <<Settle(d)>> \o Rest
       IN IF throws /\ StillPending(d)
          THEN status' = [status EXCEPT ![d] = "FAILED"] /\ Triggered(d, next)
          ELSE stack' = next /\ UNCHANGED <<status, shutdown>>
    /\ UNCHANGED <<made, kind, ops, combineVars, contextVars, disposed, waits>>
(* ... and so does the end of the last call.                                *)
CountBefore(d) == started[d] = 0
IsLast(d) == counter[d] = 1
CombineSettle ==
    /\ Top.k = "settle"
    /\ LET d == Top.x
           next == IF IsLast(d) THEN <<Free(d)>> \o Rest ELSE Rest
       IN /\ counter' = [counter EXCEPT ![d] = @ - 1]
          /\ IF IsLast(d) /\ StillPending(d)
             THEN status' = [status EXCEPT ![d] = "FAILED"] /\ Triggered(d, next)
             ELSE stack' = next /\ UNCHANGED <<status, shutdown>>
    /\ UNCHANGED <<made, kind, ops, started, inputs, freed, handed, last, contextVars,
                   disposed, waits>>
CombineFree ==
    /\ Top.k = "free" /\ stack' = Rest
    /\ freed' = freed \cup {Top.x}
    /\ UNCHANGED <<made, kind, status, ops, started, counter, inputs, handed, last,
                   contextVars, shutdown, disposed, waits>>

(* Deferred::transform and transform_cb, which looks at no status.          *)
Transform(d, x) ==
    /\ InCode /\ Exists(x) /\ New(d, "transform")
    /\ inputs' = [inputs EXCEPT ![d] = <<x>>]
    /\ IF Settled(x)
       THEN stack' = <<Call("transform", d)>> \o stack /\ UNCHANGED ops
       ELSE ops' = [ops EXCEPT ![x] = Append(@, Op("transform", d))] /\ UNCHANGED stack
    /\ UNCHANGED <<status, started, counter, freed, handed, last, contextVars, disposed, waits>>
TransformReturns(how) ==
    /\ Top.k = "transform"
    /\ status' = [status EXCEPT ![Top.x] = how]
    /\ Triggered(Top.x, Rest)
    /\ UNCHANGED <<made, kind, ops, combineVars, contextVars, disposed, waits>>

(* Tasks: they start, await, and end.                                       *)
Start(t) ==
    /\ InLoop /\ ~disposed /\ status[t] = "PENDING"
    /\ status' = [status EXCEPT ![t] = "RUNNING"]
    /\ stack' = <<Code(t)>> \o stack
    /\ UNCHANGED <<made, kind, ops, combineVars, contextVars, shutdown, disposed, waits>>
Unsettled(x) == ~Settled(x)
Await(x) ==
    /\ Top.k = "code" /\ Exists(x) /\ x # Top.x /\ Unsettled(x) /\ ~disposed
    /\ ops' = [ops EXCEPT ![x] = Append(@, Op("wait", Top.x))]
    /\ waits' = waits \cup {Top.x} /\ stack' = Rest
    /\ UNCHANGED <<made, kind, status, combineVars, contextVars, shutdown, disposed>>
End(how) ==
    /\ Top.k = "code"
    /\ status' = [status EXCEPT ![Top.x] = how]
    /\ stack' = <<Trigger(Top.x)>> \o Rest
    /\ UNCHANGED <<made, kind, ops, combineVars, contextVars, shutdown, disposed, waits>>

(* The context is cancelled; cancel_defer calls the handler.                *)
Cancel ==
    /\ (InLoop /\ ~disposed) \/ InCode
    /\ ~cancelled /\ cancelled' = TRUE
    /\ stack' = <<Cancelling>> \o stack
    /\ UNCHANGED <<made, kind, status, ops, combineVars, oncancel, shutdown, disposed, waits>>
CancelDefer ==
    /\ Top = Cancelling
    /\ IF oncancel = <<>> THEN stack' = Rest /\ UNCHANGED oncancel
       ELSE stack' = <<Call("cancel", Head(oncancel))>> \o stack /\ oncancel' = Tail(oncancel)
    /\ UNCHANGED <<made, kind, status, ops, combineVars, cancelled, shutdown, disposed, waits>>
CancelReturns ==
    /\ Top.k = "cancel" /\ stack' = Rest
    /\ UNCHANGED <<made, kind, status, ops, combineVars, contextVars, shutdown, disposed, waits>>

(* async_task_scheduler_dispose and shutdown_state.                         *)
Dispose ==
    /\ InLoop /\ ~disposed
    /\ disposed' = TRUE /\ stack' = <<Shut>> \o stack
    /\ UNCHANGED <<made, kind, status, ops, combineVars, contextVars, shutdown, waits>>
ShutdownState ==
    /\ Top = Shut
    /\ IF shutdown = <<>> THEN stack' = Rest /\ UNCHANGED <<status, shutdown>>
       ELSE /\ status' = [status EXCEPT ![Head(shutdown)] = "FAILED"]
            /\ Triggered(Head(shutdown), stack)
    /\ UNCHANGED <<made, kind, ops, combineVars, contextVars, disposed, waits>>
-------------------------------------------------------------------------------
PhpCode ==
    \/ \E d \in States :
         \/ Construct(d, FALSE)
         \/ "cancel" \in Features /\ Construct(d, TRUE)
         \/ \E how \in Results : SettleDeferred(d, how)
         \/ "drop" \in Features /\ Dropped(d)
         \/ \E x \in Awaitables :
              \/ "transform" \in Features /\ Transform(d, x)
              \/ "combine" \in Features /\ \E y \in Awaitables : Combine(d, x, y)
    \/ \E x \in Awaitables : Await(x)
    \/ \E how \in Results : End(how) \/ TransformReturns(how)
    \/ \E throws \in BOOLEAN : CombineReturns(throws)
    \/ CancelReturns
Engine ==
    \/ TriggerOps \/ RegisterInput \/ CombineSettle \/ CombineFree
    \/ CancelDefer \/ ShutdownState
EventLoop ==
    \/ \E t \in Tasks : Start(t)
    \/ "cancel" \in Features /\ Cancel
    \/ "dispose" \in Features /\ Dispose
Next == PhpCode \/ Engine \/ EventLoop
Spec == Init /\ [][Next]_vars
-------------------------------------------------------------------------------
(* Properties.                                                              *)
Frames == [k : {"loop", "code", "combine", "transform", "cancel", "trigger", "register",
                "settle", "free", "cancelling", "shut"},
           x : Awaitables \cup {0}, i : 0 .. 2]

(* Every variable keeps its type.                                           *)
TypeOK ==
    /\ stack \in Seq(Frames) /\ made \in 0 .. MaxStates
    /\ kind \in [States -> {"none", "plain", "combine", "transform", "gone"}]
    /\ status \in [Awaitables -> {"PENDING", "RUNNING", "RESOLVED", "FAILED"}]
    /\ ops \in [Awaitables -> Seq({"wait", "combine", "transform"} \X Awaitables)]
    /\ started \in [States -> 0 .. 2] /\ counter \in [States -> 0 .. 2]
    /\ inputs \in [States -> Seq(Awaitables)]
    /\ freed \subseteq States /\ handed \subseteq States
    /\ oncancel \in Seq(States) /\ cancelled \in BOOLEAN
    /\ shutdown \in Seq(States) /\ disposed \in BOOLEAN
    /\ waits \subseteq Tasks /\ last \in [States -> Nat]

(* What a deferred was settled with never changes, although callbacks,      *)
(* cancel handlers and shutdown settle it in the middle of each other.      *)
(* (Except that of a transformation: its state may be shut down first.)     *)
SettledOnce ==
    [][\A x \in Awaitables : Settled(x) =>
           status'[x] = status[x] \/ (disposed /\ x \in States /\ kind[x] = "transform")]_vars

(* Nobody waits for what is settled, unless the loop that resumes them is   *)
(* under way.                                                               *)
NoLostWakeup ==
    \A x \in Awaitables :
        Settled(x) /\ ops[x] # <<>> => \E i \in DOMAIN stack : stack[i] = Trigger(x)

(* When all inputs are settled and every call has returned, a combination   *)
(* or transformation is settled too, and exactly one call of the callback   *)
(* of a combination was told to be the last.                                *)
DerivedSettles ==
    InLoop => \A d \in States :
        inputs[d] # <<>> /\ (\A x \in ToSet(inputs[d]) : Settled(x)) =>
            Settled(d) /\ (kind[d] = "combine" => last[d] = 1)

(* The structure of a combination is there as long as an operation, a call  *)
(* or the registration refers to it.                                        *)
CombineAlive ==
    \A d \in freed :
        /\ \A x \in Awaitables : Op("combine", d) \notin ToSet(ops[x])
        /\ \A f \in ToSet(stack) : f.x = d => f.k = "trigger"

(* Disposal leaves no operation in a deferred and no task behind one, also  *)
(* not in those that are made while it lasts.                               *)
ShutdownSettles ==
    InLoop /\ disposed => \A d \in 1 .. made : Settled(d) /\ ops[d] = <<>>

(* Nobody is left behind: neither who waits for what is settled, nor who    *)
(* waits when the scheduler is disposed; and no combination is freed early. *)
Sound == TypeOK /\ NoLostWakeup /\ CombineAlive /\ ShutdownSettles
===============================================================================
