-------------------------------- MODULE Contexts --------------------------------
(***************************************************************************)
(* Contexts and their cancellation (src/src/context.c), with the waits that *)
(* async_await_op registers in them (src/src/task.c).  A context that can   *)
(* be cancelled has a cancellation of its own, numbered like the context;   *)
(* others share that of their parent or are shielded from it.  Everything   *)
(* runs on one stack: a callback that fails the operation of a waiting task *)
(* runs the task inside of the loop over the callbacks.  Variables and      *)
(* output buffers of contexts are left out.                                 *)
(***************************************************************************)
EXTENDS Integers, FiniteSets, SequencesExt

CONSTANTS Tasks,
          MaxContexts,  \* bound: number of contexts besides the root
          Careful       \* PHP code avoids freed cancellations (Uses)

None == 0
Root == 0                     \* the foreground context, without a cancellation
Made == 1 .. MaxContexts
ASSUME ContextSets == MaxContexts \in Nat /\ Careful \in BOOLEAN /\ Tasks \cap Nat = {}

VARIABLES stack,      \* C frames and PHP code, top first
          made,       \* number of contexts so far
          parent,     \* context->parent
          cancel,     \* context->cancel
          live,       \* contexts that are not destroyed
          held,       \* contexts PHP code refers to
          handlers,   \* cancellations whose handler PHP code refers to
          refcount,   \* cancel->refcount
          timer,      \* the timer of a timeout
          freed,      \* cancellations whose memory is freed
          triggered,  \* ASYNC_CONTEXT_CANCELLATION_FLAG_TRIGGERED
          error,      \* whose error cancel->error is
          callbacks,  \* cancel->callbacks
          context,    \* where each task waits
          op,         \* status of the operation of each task
          ready,      \* tasks whose wake-up is deferred
          begun,      \* tasks that have begun
          fired,      \* history: cancelled by their handler or timer
          shielded,   \* history: contexts that are shielded
          wild        \* history: freed memory was used

treeVars == <<made, parent, cancel, live, held, handlers, shielded>>
tokenVars == <<refcount, timer, freed>>
firedVars == <<triggered, error, fired>>
waitVars == <<context, op, ready, begun>>
vars == <<stack, treeVars, tokenVars, firedVars, callbacks, waitVars, wild>>
-------------------------------------------------------------------------------
Frame(k, x) == [k |-> k, x |-> x]
Loop == Frame("loop", 0)              \* the event loop
Code(t) == Frame("code", t)           \* PHP code of a task
Back(t) == Frame("back", t)           \* async_await_op goes on
Callbacks(k) == Frame("callbacks", k) \* the loop over cancel->callbacks
TimeIsUp(k) == Frame("timeout", k)    \* the end of timed_out

Top == Head(stack)
Rest == Tail(stack)
InLoop == Top = Loop
InCode == Top.k = "code"

Init ==
    /\ stack = <<Loop>> /\ made = 0
    /\ parent = [c \in Made |-> Root] /\ cancel = [c \in {Root} \cup Made |-> None]
    /\ live = {Root} /\ held = {Root} /\ handlers = {} /\ shielded = {}
    /\ refcount = [k \in Made |-> 0] /\ timer = [k \in Made |-> "none"] /\ freed = {}
    /\ triggered = {} /\ error = [k \in Made |-> None] /\ fired = {}
    /\ callbacks = [k \in Made |-> <<>>]
    /\ context = [t \in Tasks |-> None] /\ op = [t \in Tasks |-> "PENDING"]
    /\ ready = {} /\ begun = {} /\ wild = FALSE
-------------------------------------------------------------------------------
(* release_cancellation, n times: at zero it frees the memory, with a timer *)
(* when that is closed.                                                     *)
Release(n) ==
    /\ refcount' = [k \in Made |-> refcount[k] - n[k]]
    /\ LET gone == {k \in Made : n[k] > 0 /\ refcount[k] = n[k]}
       IN /\ freed' = freed \cup {k \in gone : timer[k] = "none"}
          /\ timer' = [k \in Made |-> IF k \in gone /\ timer[k] # "none" THEN "closing" ELSE timer[k]]
Once(k) == [x \in Made |-> IF x = k THEN 1 ELSE 0]

(* A context lives while PHP code, a waiting task or a child refers to it;  *)
(* with the last reference it and those above it are destroyed.             *)
Ancestors[c \in {Root} \cup Made] ==
    {c} \cup (IF c = Root THEN {} ELSE Ancestors[IF parent[c] < c THEN parent[c] ELSE Root])
Lives(refs) == UNION {Ancestors[c] : c \in refs \cup {Root}}
Waiting(S) == {context[t] : t \in S}
Unheld(refs) ==
    /\ live' = Lives(refs)
    /\ Release([k \in Made |-> Cardinality({c \in live \ Lives(refs) : cancel[c] = k})])
Uses(k) == wild' = (wild \/ k \in freed)

New(c, p, k) ==
    /\ InCode /\ c = made + 1 /\ c \in Made /\ p \in held
    /\ Careful => cancel[p] \notin freed
    /\ made' = c /\ parent' = [parent EXCEPT ![c] = p] /\ cancel' = [cancel EXCEPT ![c] = k]
    /\ live' = live \cup {c} /\ held' = held \cup {c}
    /\ Uses(cancel[p])

(* Context::with, withIsolatedOutput: propagate_cancellation; and shield.   *)
Uncounted(k) == refcount
Counted(k) == IF k = None THEN refcount ELSE [refcount EXCEPT ![k] = @ + 1]
With(c, p) ==
    /\ New(c, p, cancel[p])
    /\ refcount' = Counted(cancel[p])
    /\ UNCHANGED <<stack, handlers, shielded, timer, freed, firedVars, callbacks, waitVars>>
Hidden(p) == None
Shield(c, p) ==
    /\ New(c, p, Hidden(p)) /\ shielded' = shielded \cup {c}
    /\ UNCHANGED <<stack, handlers, tokenVars, firedVars, callbacks, waitVars>>

(* create_cancellable_context chains the cancellation to that of the parent *)
(* or takes over its error.                                                 *)
NeverChained(k) == FALSE
Chained(k) == k # None /\ k \notin triggered
CancelledAbove(k) == k \in triggered
Chain(c, k) ==
    /\ callbacks' = IF Chained(k) THEN [callbacks EXCEPT ![k] = Append(@, <<"chain", c>>)] ELSE callbacks
    /\ IF CancelledAbove(k)
       THEN triggered' = triggered \cup {c} /\ error' = [error EXCEPT ![c] = error[k]]
       ELSE UNCHANGED <<triggered, error>>
WithCancel(c, p) ==
    /\ New(c, p, c) /\ Chain(c, cancel[p])
    /\ refcount' = [refcount EXCEPT ![c] = 2] /\ handlers' = handlers \cup {c}
    /\ UNCHANGED <<stack, shielded, timer, freed, fired, waitVars>>
WithTimeout(c, p) ==
    /\ New(c, p, c) /\ Chain(c, cancel[p])
    /\ refcount' = [refcount EXCEPT ![c] = 1] /\ timer' = [timer EXCEPT ![c] = "armed"]
    /\ UNCHANGED <<stack, handlers, shielded, freed, fired, waitVars>>

(* PHP code lets go of a context or a handler.                              *)
InUse(k) ==
    \/ \E p \in Made : <<"chain", k>> \in ToSet(callbacks[p])
    \/ Callbacks(k) \in ToSet(stack)
Drop(c) ==
    /\ InCode /\ c \in held \ {Root}
    /\ held' = held \ {c}
    /\ Unheld(held' \cup Waiting(Tasks))
    /\ Careful => ~InUse(cancel[c])
    /\ wild' = (wild \/ \E x \in live \ live' : cancel[x] \in freed)
    /\ UNCHANGED <<stack, made, parent, cancel, handlers, shielded, firedVars, callbacks, waitVars>>
DropHandler(k) ==
    /\ InCode /\ k \in handlers /\ handlers' = handlers \ {k}
    /\ Release(Once(k))
    /\ Careful => ~InUse(k)
    /\ UNCHANGED <<stack, made, parent, cancel, live, held, shielded, firedVars, callbacks, waitVars, wild>>

(* CancellationHandler::__invoke.                                           *)
Trigger(k, e) ==
    /\ triggered' = triggered \cup {k} /\ error' = [error EXCEPT ![k] = e]
Invoke(k) ==
    /\ InCode /\ k \in handlers \ triggered
    /\ Trigger(k, k) /\ fired' = fired \cup {k}
    /\ stack' = <<Callbacks(k)>> \o stack
    /\ UNCHANGED <<treeVars, tokenVars, callbacks, waitVars, wild>>
-------------------------------------------------------------------------------
(* The loop over the callbacks: cancel_op for the operation of a task,      *)
(* chain_cancellation for a child.                                          *)
Cancels(t) == op[t] = "RUNNING"
ExtractFirst(k) == callbacks' = [callbacks EXCEPT ![k] = Tail(@)]
CancelOp(t) ==
    /\ IF Cancels(t) THEN op' = [op EXCEPT ![t] = "FAILED"] /\ stack' = <<Back(t)>> \o stack
                     ELSE UNCHANGED <<op, stack>>
    /\ UNCHANGED <<triggered, error>>
ChainCancellation(k, e) ==
    /\ Trigger(k, e)
    /\ stack' = <<Callbacks(k)>> \o stack
    /\ UNCHANGED op
CallBack ==
    /\ Top.k = "callbacks" /\ callbacks[Top.x] # <<>>
    /\ ExtractFirst(Top.x) /\ Uses(Top.x)
    /\ LET cb == Head(callbacks[Top.x])
       IN \/ cb[1] = "op" /\ CancelOp(cb[2])
          \/ cb[1] = "chain" /\ ChainCancellation(cb[2], error[Top.x])
    /\ UNCHANGED <<treeVars, tokenVars, fired, context, ready, begun>>
CallbacksDone ==
    /\ Top.k = "callbacks" /\ callbacks[Top.x] = <<>>
    /\ stack' = Rest /\ Uses(Top.x)
    /\ UNCHANGED <<treeVars, tokenVars, firedVars, callbacks, waitVars>>

(* timed_out gives a reference back that nobody has taken for the timer.    *)
TimedOut(k) ==
    /\ InLoop /\ timer[k] = "armed"
    /\ timer' = [timer EXCEPT ![k] = "over"]
    /\ IF k \in triggered THEN UNCHANGED <<firedVars, stack>>
       ELSE /\ Trigger(k, k) /\ fired' = fired \cup {k}
            /\ stack' = <<Callbacks(k), TimeIsUp(k)>> \o stack
    /\ UNCHANGED <<treeVars, refcount, freed, callbacks, waitVars, wild>>
TimedOutEnds ==
    /\ Top.k = "timeout" /\ Release(Once(Top.x)) /\ stack' = Rest
    /\ UNCHANGED <<treeVars, firedVars, callbacks, waitVars, wild>>
CloseTimeout(k) ==
    /\ InLoop /\ timer[k] = "closing"
    /\ timer' = [timer EXCEPT ![k] = "closed"] /\ freed' = freed \cup {k}
    /\ UNCHANGED <<stack, treeVars, refcount, firedVars, callbacks, waitVars, wild>>
-------------------------------------------------------------------------------
(* async_await_op in context c; in one that is cancelled it fails at once.  *)
Start(t) ==
    /\ InLoop /\ t \notin begun /\ begun' = begun \cup {t}
    /\ stack' = <<Code(t)>> \o stack
    /\ UNCHANGED <<treeVars, tokenVars, firedVars, callbacks, context, op, ready, wild>>
MayWait(k) == k \notin triggered
Await(c) ==
    /\ InCode /\ c \in held /\ MayWait(cancel[c])
    /\ Careful => cancel[c] \notin freed
    /\ Uses(cancel[c])
    /\ op' = [op EXCEPT ![Top.x] = "RUNNING"] /\ context' = [context EXCEPT ![Top.x] = c]
    /\ callbacks' = IF cancel[c] = None THEN callbacks
                    ELSE [callbacks EXCEPT ![cancel[c]] = Append(@, <<"op", Top.x>>)]
    /\ stack' = Rest
    /\ UNCHANGED <<treeVars, tokenVars, firedVars, ready, begun>>
AwaitReturns ==
    /\ Top.k = "back"
    /\ LET t == Top.x
       IN /\ callbacks' = [k \in Made |-> Remove(callbacks[k], <<"op", t>>)]
          /\ op' = [op EXCEPT ![t] = "PENDING"] /\ context' = [context EXCEPT ![t] = None]
          /\ Unheld(held \cup Waiting(Tasks \ {t}))
          /\ stack' = <<Code(t)>> \o Rest
    /\ UNCHANGED <<made, parent, cancel, held, handlers, shielded, firedVars, ready, begun, wild>>
Return ==
    /\ InCode /\ stack' = Rest
    /\ UNCHANGED <<treeVars, tokenVars, firedVars, callbacks, waitVars, wild>>

(* What a task waits for happens: it goes on at once or is enqueued.        *)
Resolve(t, defer) ==
    /\ InLoop \/ InCode
    /\ op[t] = "RUNNING" /\ op' = [op EXCEPT ![t] = "RESOLVED"]
    /\ IF defer THEN ready' = ready \cup {t} /\ UNCHANGED stack
                ELSE stack' = <<Back(t)>> \o stack /\ UNCHANGED ready
    /\ UNCHANGED <<treeVars, tokenVars, firedVars, callbacks, context, begun, wild>>
Dispatch(t) ==
    /\ InLoop /\ t \in ready /\ ready' = ready \ {t}
    /\ stack' = <<Back(t)>> \o stack
    /\ UNCHANGED <<treeVars, tokenVars, firedVars, callbacks, context, op, begun, wild>>
-------------------------------------------------------------------------------
(* Bound: the first context hangs on the root, all others below it; nobody  *)
(* waits in the root, where no cancellation reaches.                        *)
Parents(c) == IF c = 1 THEN {Root} ELSE Made
PhpCode ==
    \/ \E c \in Made : \E p \in Parents(c) :
           With(c, p) \/ Shield(c, p) \/ WithCancel(c, p) \/ WithTimeout(c, p)
    \/ \E c \in Made : Drop(c) \/ Await(c)
    \/ \E k \in Made : DropHandler(k) \/ Invoke(k)
    \/ Return
Engine == CallBack \/ CallbacksDone \/ TimedOutEnds \/ AwaitReturns
EventLoop ==
    \/ \E t \in Tasks : Start(t) \/ Dispatch(t) \/ \E defer \in BOOLEAN : Resolve(t, defer)
    \/ \E k \in Made : TimedOut(k) \/ CloseTimeout(k)
Next == PhpCode \/ Engine \/ EventLoop
Spec == Init /\ [][Next]_vars
-------------------------------------------------------------------------------
(* Properties.                                                              *)
Frames == [k : {"loop", "code", "back", "callbacks", "timeout"}, x : Nat \cup Tasks]
Tokens == Made \cup {None}

(* Every variable keeps its type, and a reference is given back only by who *)
(* has one, or by the timer that fired.                                     *)
TypeOK ==
    /\ stack \in Seq(Frames) /\ made \in 0 .. MaxContexts
    /\ parent \in [Made -> {Root} \cup Made] /\ cancel \in [{Root} \cup Made -> Tokens]
    /\ live \subseteq {Root} \cup Made /\ held \subseteq live /\ handlers \subseteq Made
    /\ refcount \in [Made -> Int]
    /\ timer \in [Made -> {"none", "armed", "over", "closing", "closed"}]
    /\ freed \subseteq Made /\ shielded \subseteq Made /\ triggered \subseteq Made /\ fired \subseteq Made
    /\ error \in [Made -> Tokens]
    /\ callbacks \in [Made -> Seq({"op", "chain"} \X (Made \cup Tasks))]
    /\ \A c \in live \ {Root} : parent[c] \in live
    /\ context \in [Tasks -> {Root} \cup Made]
    /\ op \in [Tasks -> {"PENDING", "RUNNING", "RESOLVED", "FAILED"}]
    /\ ready \subseteq Tasks /\ begun \subseteq Tasks /\ wild \in BOOLEAN

(* When its callbacks have run, a cancellation has reached all it concerns: *)
(* nobody waits in a context that shares it, and those chained to it are    *)
(* cancelled too, however deep, whatever the tasks did that were resumed.   *)
ReachesAll ==
    InLoop => \A k \in triggered :
        /\ callbacks[k] = <<>>
        /\ \A t \in Tasks : op[t] = "RUNNING" => cancel[context[t]] # k
        /\ \A c \in live : cancel[c] = c /\ c # Root /\ cancel[parent[c]] = k => c \in triggered

(* Cancellation comes from the handler or timer of the context itself or of *)
(* one above it with no shield between, and the error says from which; no   *)
(* shielded task fails because of what happens beyond its shield.           *)
Sources[c \in {Root} \cup Made] ==
    (Made \cap {c})
    \cup (IF c \in shielded \cup {Root} \/ parent[c] >= c THEN {} ELSE Sources[parent[c]])
FromAbove ==
    /\ \A k \in triggered : error[k] \in fired \cap Sources[k]
    /\ \A t \in Tasks : op[t] = "FAILED" => error[cancel[context[t]]] \in Sources[context[t]]

(* A cancellation reaches all that it concerns and nobody else.             *)
CancelReaches == ReachesAll /\ FromAbove

(* A wait ends once: by its result or by the cancellation, also when both   *)
(* come while the task is still to be dispatched.                           *)
FramesOf(t) == {i \in DOMAIN stack : stack[i].x = t}
EndsOnce ==
    \A t \in Tasks :
        /\ Cardinality(FramesOf(t)) <= 1
        /\ op[t] \in {"RESOLVED", "FAILED"} =>
               (t \in ready <=> FramesOf(t) = {})

(* refcount counts the contexts that share a cancellation and its handler;  *)
(* the last of them frees its memory, or closes its timer which frees it,   *)
(* and nobody else does.  (Not so when the timer fired: see TimedOut.)       *)
Users(k) == {c \in live : cancel[c] = k}
RefsCounted ==
    \A k \in 1 .. made :
        (k \notin fired \/ timer[k] = "none") /\ cancel[k] = k =>
            /\ refcount[k] = Cardinality(Users(k)) + Cardinality(handlers \cap {k})
            /\ (k \in freed \/ timer[k] = "closing") <=> (Users(k) = {} /\ k \notin handlers)

(* Every wait ends once and every cancellation is freed once.               *)
Sound == TypeOK /\ EndsOnce /\ RefsCounted
===============================================================================
