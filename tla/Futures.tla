-------------------------------- MODULE Futures --------------------------------
(***************************************************************************)
(* What Task::await promises, without fibers, queues or an event loop: an   *)
(* awaitable is settled at most once; a waiter blocks only on an awaitable  *)
(* that is pending, is released only after it was settled, and is always    *)
(* released then.                                                           *)
(***************************************************************************)
CONSTANTS Awaitables, Waiters,
          Nobody    \* not one of Awaitables

VARIABLES outcome,   \* of each awaitable: "pending", "ok" or "fail"
          waiting    \* the awaitable each waiter is blocked on, or Nobody

vars == <<outcome, waiting>>

Init == /\ outcome = [x \in Awaitables |-> "pending"]
        /\ waiting = [w \in Waiters |-> Nobody]

Settle(x) == /\ outcome[x] = "pending"
             /\ \E r \in {"ok", "fail"} : outcome' = [outcome EXCEPT ![x] = r]
             /\ UNCHANGED waiting

Block(w, x) == /\ waiting[w] = Nobody /\ outcome[x] = "pending"
               /\ waiting' = [waiting EXCEPT ![w] = x]
               /\ UNCHANGED outcome

Release(w) == /\ waiting[w] # Nobody /\ outcome[waiting[w]] # "pending"
              /\ waiting' = [waiting EXCEPT ![w] = Nobody]
              /\ UNCHANGED outcome

Next == \/ \E x \in Awaitables : Settle(x)
        \/ \E w \in Waiters : Release(w) \/ \E x \in Awaitables : Block(w, x)

Spec == Init /\ [][Next]_vars /\ \A w \in Waiters : WF_vars(Release(w))
===============================================================================
