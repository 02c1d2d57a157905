------------------------------- MODULE MCWatchers -------------------------------
EXTENDS Watchers
CONSTANTS a, b, d, timer, timeout, signal, poll, monitor, cond, x, y, z

KindOf == timer :> "timer" @@ timeout :> "timeout" @@ signal :> "signal"
          @@ poll :> "poll" @@ monitor :> "monitor" @@ cond :> "condition"
KindUsed == [w \in Watchers |-> KindOf[w]]

(* Programs with one to five objects; all tasks share the timer and the     *)
(* condition, or all share the poll, or two of them share one.              *)
All(ws) == a :> ws @@ b :> ws @@ d :> ws
Programs == {All({timer, cond}), All({poll}),
             a :> {signal} @@ b :> {signal, timeout} @@ d :> {monitor},
             a :> {poll, timer} @@ b :> {poll, monitor} @@ d :> {timer}}

Alike == Permutations(Addrs)
===============================================================================
