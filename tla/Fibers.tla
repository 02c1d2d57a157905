-------------------------------- MODULE Fibers --------------------------------
(***************************************************************************)
(* The fiber layer (src/src/fiber/asm.c, src/php_async.h).  One OS thread   *)
(* executes one fiber at a time.  A switch pushes the current fiber on the  *)
(* front of scheduler->fibers and runs the target at once; a suspend pops   *)
(* the front of that list, or falls back to the fiber of the event loop.    *)
(* So the list is a stack: whoever resumes a fiber gets control back, in    *)
(* the middle of its own C loop, when the resumed fiber suspends.           *)
(***************************************************************************)
EXTENDS Naturals, SequencesExt

CONSTANTS Root,     \* fiber that executes the main script
          Runner,   \* scheduler->runner, the fiber that runs the event loop
          NoFiber   \* the NULL pointer

VARIABLES fiber,    \* ASYNC_G(fiber)
          fibers    \* scheduler->fibers, head first

(* ASYNC_LIST_REMOVE: unlink one node; a node that is in no list is left    *)
(* alone.  A node is in a list at most once.                                *)
Unlink(s, e) == RemoveFirst(s, e)

(* async_fiber_switch(next, ASYNC_FIBER_SUSPEND_PREPEND).  The flag          *)
(* ASYNC_FIBER_FLAG_QUEUED says whether the fiber is in the list.           *)
Switch(next) ==
    /\ fiber' = next
    /\ fibers' = IF fiber \in ToSet(fibers) THEN fibers ELSE <<fiber>> \o fibers

(* async_fiber_switch(next, ASYNC_FIBER_SUSPEND_NONE)                       *)
SwitchNone(next) == fiber' = next /\ UNCHANGED fibers

(* async_fiber_suspend                                                      *)
Suspend ==
    IF fibers = <<>> THEN SwitchNone(Runner)
                     ELSE fiber' = Head(fibers) /\ fibers' = Tail(fibers)
===============================================================================
