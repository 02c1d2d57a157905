------------------------------ MODULE MCScheduler ------------------------------
EXTENDS Scheduler
CONSTANTS t1, t2, t3, e1, pend, cond

(* Two programs in one run.  "awaits": three tasks await each other and a   *)
(* deferred, without operations, cancellation and faults.  "operations":    *)
(* two tasks with all of them, which await each other only.                 *)
VARIABLE program
TopAfter == Head(stack'[fiber])
Allowed ==
    \/ /\ program = "awaits"
       /\ issued' = 0 /\ ~triggered'
       /\ InCode => TopAfter # Fin("exit")
       /\ InLoop => stopped' = stopped
    \/ /\ program = "operations"
       /\ status'[t3] = "NONE"
       /\ InCode => TopAfter.x # e1
Step == Next /\ Allowed /\ UNCHANGED program
MCInit == Init /\ program \in {"awaits", "operations"}
MCSpec ==
    /\ MCInit
    /\ [][Step]_<<vars, program>>
    /\ WF_<<vars, program>>(Step)

(* Refinement with its liveness: where nobody calls exit(), which ends waits *)
(* that are pending, all waiters are released (awaits only).                *)
Outcome(x) == IF program = "awaits" THEN OutcomeOf(x) ELSE "pending"
BlockedOn(f) == IF program = "awaits" THEN AwaitedBy(f) ELSE NoFiber

F == INSTANCE Futures WITH
        Waiters <- Owners, Nobody <- NoFiber,
        outcome <- [x \in Awaitables |-> Outcome(x)],
        waiting <- [f \in Owners |-> BlockedOn(f)]

(* The scheduler implements the promise of Task::await.                     *)
FuturesSpec == F!Spec
===============================================================================
