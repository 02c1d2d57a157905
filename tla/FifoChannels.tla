------------------------------ MODULE FifoChannels ------------------------------
(***************************************************************************)
(* What a set of channels promises, without buffers, fibers or waiting      *)
(* lists: messages leave a channel in the order in which they were offered  *)
(* to it, each at most once, also when a message is offered to several      *)
(* channels at a time, and an accepted message does not vanish.             *)
(***************************************************************************)
EXTENDS Sequences, SequencesExt, FiniteSets

CONSTANTS Chans, Msgs

VARIABLES queue,    \* per channel: the messages on offer, oldest first
          got,      \* per channel: the messages that were received from it
          sent,     \* the messages whose sender was told that it succeeded
          closed    \* the channels that are closed

vars == <<queue, got, sent, closed>>

Init == /\ queue = [c \in Chans |-> <<>>]
        /\ got = [c \in Chans |-> <<>>]
        /\ sent = {} /\ closed = {}

Received == UNION {ToSet(got[c]) : c \in Chans}
Offered == UNION {ToSet(queue[c]) : c \in Chans}

Offer(m, S) ==
    /\ S # {} /\ S \cap closed = {} /\ m \notin Offered \cup Received
    /\ queue' = [c \in Chans |-> IF c \in S THEN Append(queue[c], m) ELSE queue[c]]
    /\ sent' \in {sent, sent \cup {m}}
    /\ UNCHANGED <<got, closed>>

Take(c) ==
    /\ queue[c] # <<>> /\ Head(queue[c]) \notin Received
    /\ queue' = [queue EXCEPT ![c] = Tail(@)]
    /\ got' = [got EXCEPT ![c] = Append(@, Head(queue[c]))]
    /\ UNCHANGED <<sent, closed>>

(* The sender goes on: it succeeded, and what it offered elsewhere goes.    *)
(* A channel that was closed may have dropped the message nevertheless.     *)
Accept(m, S) ==
    /\ queue' = [c \in Chans |-> IF c \in S THEN RemoveFirst(queue[c], m) ELSE queue[c]]
    /\ m \in Offered' \cup Received \/ closed # {}
    /\ sent' = sent \cup {m}
    /\ UNCHANGED <<got, closed>>

(* The sender gives up, or the channel is closed.                           *)
Withdraw(m, S) ==
    /\ m \notin sent
    /\ queue' = [c \in Chans |-> IF c \in S THEN RemoveFirst(queue[c], m) ELSE queue[c]]
    /\ UNCHANGED <<got, sent, closed>>

Close(c) == closed' = closed \cup {c} /\ UNCHANGED <<queue, got, sent>>

Next == \/ \E m \in Msgs, S \in SUBSET Chans : Offer(m, S) \/ Accept(m, S) \/ Withdraw(m, S)
        \/ \E c \in Chans : Take(c) \/ Close(c)

Spec == Init /\ [][Next]_vars
===============================================================================
