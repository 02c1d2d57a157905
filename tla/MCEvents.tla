-------------------------------- MODULE MCEvents --------------------------------
EXTENDS Events
CONSTANTS k1, k2, tm, pl

MCKind == (k1 :> "tick") @@ (k2 :> "tick") @@ (tm :> "timer") @@ (pl :> "poll")

(* Two events at a time, with faults for a tick, or one with operations.    *)
Scene(events, ops, faults) == [events |-> events, ops |-> ops, faults |-> faults]
MCScenes ==
    {Scene({k1, k2}, FALSE, TRUE), Scene({k1, tm}, FALSE, FALSE), Scene({k1}, TRUE, TRUE),
     Scene({tm, pl}, FALSE, FALSE), Scene({k1, pl}, FALSE, TRUE), Scene({tm}, TRUE, TRUE)}
===============================================================================
