-------------------------------- MODULE Channel --------------------------------
(***************************************************************************)
(* Channels, channel iterators and channel groups (src/src/channel.c), used *)
(* by tasks on top of the fiber layer.  As in Scheduler, control is a stack *)
(* of frames per fiber, and the settling of an operation switches to its    *)
(* owner at once, in the middle of the caller's loop.                       *)
(***************************************************************************)
EXTENDS Fibers, Integers, FiniteSets

CONSTANTS Tasks,        \* tasks that use the channels
          Chans, Msgs,
          Iterators,    \* iterators that tasks advance
          Groups,
          Scenes,       \* what is used together: channels and their
                        \* buffer.size, iterators and groups
          Members,      \* the iterators each group is created with
          ChanOf,       \* the channel of each iterator
          Owner,        \* the task that uses a group
          Shuffle,      \* groups with ASYNC_CHANNEL_GROUP_FLAG_SHUFFLE
          Cancellable,  \* tasks whose context may be cancelled
          None

AllIterators == Iterators \cup UNION {ToSet(Members[g]) : g \in Groups}

ASSUME ChannelNames ==
    /\ Runner \notin Tasks /\ None \notin Msgs \cup AllIterators \cup Groups \cup Chans
    /\ Iterators \cap UNION {ToSet(Members[g]) : g \in Groups} = {}
    /\ \A g, h \in Groups : g # h => ToSet(Members[g]) \cap ToSet(Members[h]) = {}
(* Channel::__construct refuses a larger buffer.                            *)
MaxSize == 65535
ASSUME ChannelScenes ==
    \A s \in Scenes : /\ s.chans \subseteq Chans /\ s.size \in [Chans -> 0 .. MaxSize]
                      /\ s.iterators \subseteq Iterators /\ s.groups \subseteq Groups
ASSUME ChannelSets ==
    /\ ChanOf \in [AllIterators -> Chans]
    /\ Owner \in [Groups -> Tasks] /\ Shuffle \subseteq Groups
    /\ Members \in [Groups -> Seq(AllIterators)]
    /\ Cancellable \subseteq Tasks

VARIABLES scene,      \* a member of Scenes
          stack,      \* per fiber: its C frames, top first
          buffer,     \* per channel: data, size, rpos, wpos and len
          receivers,  \* per channel: pending receive operations
          senders,    \* per channel: pending send operations
          state,      \* per channel: "open", "closed", or "error"
          entry, pos, \* per iterator: current value and key
          fetching,   \* iterators with ASYNC_CHANNEL_ITERATOR_FLAG_FETCHING
          group,      \* per group: the entries, as iterators
          check,      \* groups with ..._FLAG_CHECK_CLOSED
          timer,      \* groups whose timer is active
          op,         \* the operation each task is blocked in
          cancelled,  \* tasks whose context has been cancelled
          result,     \* history: what the sender of each message was told
          got         \* history: the messages received from each channel

chanVars == <<buffer, receivers, senders, state>>
iterVars == <<entry, pos, fetching>>
groupVars == <<group, check, timer>>
taskVars == <<op, cancelled>>
history == <<result, got>>
vars == <<scene, fiber, fibers, stack, chanVars, iterVars, groupVars, taskVars, history>>
-------------------------------------------------------------------------------
Frame(k, x, m) == [k |-> k, x |-> x, m |-> m]
Loop         == Frame("loop", None, None)    \* the event loop
Code         == Frame("code", None, None)    \* PHP code
Over         == Frame("over", None, None)    \* the task has ended
InNext(i)    == Frame("next", i, None)       \* blocked in fetch_next_entry
Fetched(i)   == Frame("fetched", i, None)    \* back from fetch_noblock
InSend(c, m) == Frame("send", c, m)          \* blocked in Channel::send
InSelect(g)  == Frame("select", g, None)     \* blocked in ChannelGroup::select
InGroupSend(g, m) == Frame("gsend", g, m)    \* blocked in ChannelGroup::send
Closing(c)   == Frame("close", c, None)      \* dispose_state, receivers
Flushing(c)  == Frame("flush", c, None)      \* dispose_state, senders

Top == Head(stack[fiber])
Rest == Tail(stack[fiber])
Goto(s) == stack' = [stack EXCEPT ![fiber] = s]

Idle == [status |-> "PENDING", value |-> None, entry |-> None, pending |-> 0]
Running == [Idle EXCEPT !.status = "RUNNING"]

Init ==
    /\ fiber = Runner /\ fibers = <<>>
    /\ stack = [f \in Tasks \cup {Runner} |-> IF f = Runner THEN <<Loop>> ELSE <<>>]
    /\ scene \in Scenes
    /\ buffer = [c \in Chans |-> [data |-> [k \in 0..scene.size[c] - 1 |-> None],
                                  size |-> scene.size[c], rpos |-> 0, wpos |-> 0, len |-> 0]]
    /\ receivers = [c \in Chans |-> <<>>] /\ senders = [c \in Chans |-> <<>>]
    /\ state = [c \in Chans |-> "open"]
    /\ entry = [i \in AllIterators |-> None] /\ pos = [i \in AllIterators |-> -1]
    /\ fetching = {}
    /\ group = Members /\ check = {} /\ timer = {}
    /\ op = [t \in Tasks |-> Idle] /\ cancelled = {}
    /\ result = [m \in Msgs |-> "new"] /\ got = [c \in Chans |-> <<>>]
-------------------------------------------------------------------------------
(* The ring buffer.                                                         *)
Put(b, n, m) == [b EXCEPT !.data[b.wpos] = m, !.wpos = (@ + 1) % n, !.len = @ + 1]
Drop(b, n) == [b EXCEPT !.rpos = (@ + 1) % n, !.len = @ - 1]
Contents(c) == [k \in 1..buffer[c].len |->
                   buffer[c].data[(buffer[c].rpos + k - 1) % buffer[c].size]]

(* ASYNC_CHANNEL_READABLE_NONBLOCK and ASYNC_CHANNEL_READABLE: they look at *)
(* the receivers, not at the senders.                                       *)
ReadableNonblock(c) == receivers[c] # <<>> \/ buffer[c].len > 0
Readable(c) == state[c] = "open" \/ ReadableNonblock(c)

(* The callback of the operation task t is blocked in: continue_op_task.    *)
Settle(t, o, s) == op' = [op EXCEPT ![t] = o] /\ Goto(s) /\ Switch(t)

(* Operation r, taken off the receivers of c, ends: with a value, without   *)
(* one, or with an error.  continue_select_cb for an entry of a group.      *)
Uncounted(o) == o
CountDown(o) == [o EXCEPT !.pending = @ - 1]
SettleReceiver(c, r, res, m, s) ==
    LET o == [op[r.t] EXCEPT !.status = res, !.value = m]
    IN IF Head(stack[r.t]).k = "next"
       THEN Settle(r.t, o, s) /\ UNCHANGED <<fetching, check>>
       ELSE /\ fetching' = fetching \ {r.i}
            /\ check' = IF state[c] = "open" THEN check
                        ELSE check \cup {Head(stack[r.t]).x}
            /\ IF res = "FAILED" \/ state[c] = "open"
               THEN Settle(r.t, [CountDown(o) EXCEPT !.entry = r.i], s)
               ELSE IF CountDown(o).pending = 0
               THEN Settle(r.t, CountDown(o), s)
               ELSE /\ op' = [op EXCEPT ![r.t] = CountDown(@)]
                    /\ Goto(s) /\ UNCHANGED <<fiber, fibers>>

(* Operation e, taken off the senders of c, ends.  continue_send_cb for an  *)
(* entry of a group: on a closed channel it always fails.                   *)
SettleSender(c, e, res, s) ==
    LET o == [op[e.t] EXCEPT !.status = res]
    IN IF Head(stack[e.t]).k = "send"
       THEN Settle(e.t, o, s) /\ UNCHANGED check
       ELSE /\ check' = IF state[c] = "open" THEN check
                        ELSE check \cup {Head(stack[e.t]).x}
            /\ Settle(e.t, IF res = "RESOLVED" /\ state[c] # "open"
                           THEN [o EXCEPT !.status = "FAILED"]
                           ELSE [o EXCEPT !.entry = e.i], s)

(* fetch_noblock: from the buffer, refilled by the first sender, or from    *)
(* the first sender.  Then the sender runs, and after it the caller, s.     *)
Buffered(c) == buffer[c].len > 0
Available(c) == buffer[c].len > 0 \/ senders[c] # <<>>
MsgOf(e) == Head(stack[e.t]).m
NextMsg(c) == IF buffer[c].len > 0 THEN buffer[c].data[buffer[c].rpos]
              ELSE MsgOf(Head(senders[c]))
Emptied(c) == IF buffer[c].len = 0 THEN buffer[c] ELSE Drop(buffer[c], buffer[c].size)
Refilled(c) == IF buffer[c].len = 0 THEN buffer[c]
               ELSE IF senders[c] = <<>> THEN Drop(buffer[c], buffer[c].size)
               ELSE Put(Drop(buffer[c], buffer[c].size), buffer[c].size, MsgOf(Head(senders[c])))
FetchNoblock(c, s) ==
    /\ Available(c)
    /\ buffer' = [buffer EXCEPT ![c] = Refilled(c)]
    /\ got' = [got EXCEPT ![c] = Append(@, NextMsg(c))]
    /\ IF senders[c] = <<>>
       THEN Goto(s) /\ UNCHANGED <<fiber, fibers, senders, op, check>>
       ELSE /\ senders' = [senders EXCEPT ![c] = Tail(@)]
            /\ SettleSender(c, Head(senders[c]), "RESOLVED", s)
-------------------------------------------------------------------------------
(* PHP code of a task.                                                      *)
InCode == fiber \in Tasks /\ Top = Code

(* async_await_op refuses: the context has been cancelled already.          *)
Refused == fiber \in cancelled

(* The operation is queued and the task blocks in call frame fr.            *)
Block(fr, o) ==
    /\ op' = [op EXCEPT ![fiber] = o]
    /\ Goto(<<fr>> \o stack[fiber])
    /\ Suspend

(* Channel::send, in the order of its checks.                               *)
NoError(c) == state[c] # "error"
Open(c) == state[c] = "open"
SendClosed(c, m) ==
    /\ ~Open(c)
    /\ result' = [result EXCEPT ![m] = "failed"]
    /\ UNCHANGED <<fiber, fibers, stack, chanVars, iterVars, check, timer, taskVars, got>>
HandOver(c, m) ==
    /\ receivers[c] # <<>>
    /\ receivers' = [receivers EXCEPT ![c] = Tail(@)]
    /\ SettleReceiver(c, Head(receivers[c]), "RESOLVED", m, stack[fiber])
    /\ result' = [result EXCEPT ![m] = "sent"]
    /\ UNCHANGED <<buffer, senders, state, entry, pos, timer, cancelled, got>>
Store(c, m) ==
    /\ receivers[c] = <<>> /\ buffer[c].len < buffer[c].size
    /\ buffer' = [buffer EXCEPT ![c] = Put(@, buffer[c].size, m)]
    /\ result' = [result EXCEPT ![m] = "sent"]
    /\ UNCHANGED <<fiber, fibers, stack, receivers, senders, state, iterVars,
                   check, timer, taskVars, got>>
InFront(q, e) == <<e>> \o q
Enlist(q, e) == Append(q, e)
SendBlock(c, m) ==
    /\ receivers[c] = <<>> /\ buffer[c].len = buffer[c].size
    /\ IF Refused
       THEN /\ result' = [result EXCEPT ![m] = "failed"]
            /\ UNCHANGED <<fiber, fibers, stack, senders, op>>
       ELSE /\ result' = [result EXCEPT ![m] = "waiting"]
            /\ senders' = [senders EXCEPT ![c] = Enlist(@, [t |-> fiber, i |-> None])]
            /\ Block(InSend(c, m), Running)
    /\ UNCHANGED <<buffer, receivers, state, iterVars, check, timer, cancelled, got>>
Send(c, m) ==
    /\ InCode /\ result[m] = "new" /\ UNCHANGED group
    /\ \/ SendClosed(c, m)
       \/ Open(c) /\ (HandOver(c, m) \/ Store(c, m) \/ SendBlock(c, m))

(* ChannelIterator::next drops the current entry and calls fetch_next_entry,*)
(* which throws while the iterator is fetching, and takes what is there or  *)
(* blocks.  rewind, valid, current and key do so too before the first entry.*)
MayFetch(i) == i \notin fetching
FetchNext(i) ==
    LET c == ChanOf[i]
    IN IF ~Readable(c) \/ ~MayFetch(i)
       THEN /\ entry' = [entry EXCEPT ![i] = None]
            /\ UNCHANGED <<fiber, fibers, stack, chanVars, pos, fetching, op, check, got>>
       ELSE IF Available(c)
       THEN /\ entry' = [entry EXCEPT ![i] = NextMsg(c)]
            /\ FetchNoblock(c, <<Fetched(i)>> \o stack[fiber])
            /\ UNCHANGED <<receivers, state, pos, fetching>>
       ELSE /\ entry' = [entry EXCEPT ![i] = None]
            /\ IF Refused
               THEN UNCHANGED <<fiber, fibers, stack, receivers, fetching, op>>
               ELSE /\ fetching' = fetching \cup {i}
                    /\ receivers' = [receivers EXCEPT
                                       ![c] = Append(@, [t |-> fiber, i |-> i])]
                    /\ Block(InNext(i), Running)
            /\ UNCHANGED <<buffer, senders, state, pos, check, got>>
Advance(i) ==
    /\ InCode
    /\ FetchNext(i)
    /\ UNCHANGED <<group, timer, cancelled, result>>
-------------------------------------------------------------------------------
(* ChannelGroup: the entries are an array that select and send shuffle and  *)
(* scan, taking closed entries out.  (An empty group is never shuffled: the *)
(* select that emptied it returned null, and PHP code stops there.)         *)
Orders(g) ==
    IF g \notin Shuffle THEN {group[g]}
    ELSE IF group[g] = <<>> THEN {}
    ELSE {[k \in DOMAIN group[g] |-> group[g][p[k]]] : p \in Permutations(DOMAIN group[g])}

(* compact_group: as entries move down, "selected" stays the address k.     *)
Compact(es, k) ==
    FoldLeft(LAMBDA kept, i :
                 IF \/ state[ChanOf[i]] = "closed"
                    \/ state[ChanOf[i]] = "error" /\ Len(kept) + 1 = k
                 THEN kept ELSE Append(kept, i), <<>>, es)
Position(es, i) == SelectInSeq(es, LAMBDA j : j = i)
Compacted(g) == IF g \in check THEN Compact(group[g], Position(group[g], op[fiber].entry))
                ELSE group[g]

(* ChannelGroup::select, one action per way through it.                     *)
Gone(i) == state[ChanOf[i]] # "open" /\ ~ReadableNonblock(ChanOf[i])
ErrorAt(es) == SelectInSeq(es, LAMBDA i : Gone(i) /\ state[ChanOf[i]] = "error")
Present(es) == SelectSeq(es, LAMBDA i : ~Gone(i))
FirstReadable(es) == SelectInSeq(es, LAMBDA i : ReadableNonblock(ChanOf[i]))
SelectError(g, es) ==
    LET n == ErrorAt(es)
    IN /\ n # 0
       /\ group' = [group EXCEPT ![g] = Present(SubSeq(es, 1, n)) \o SubSeq(es, n + 1, Len(es))]
       /\ UNCHANGED <<fiber, fibers, stack, chanVars, iterVars, check, timer, taskVars, history>>
SelectNow(g, es) ==
    /\ ErrorAt(es) = 0 /\ FirstReadable(es) # 0
    /\ FetchNoblock(ChanOf[es[FirstReadable(es)]], stack[fiber])
    /\ group' = [group EXCEPT ![g] = Present(es)]
    /\ UNCHANGED <<receivers, state, iterVars, timer, cancelled, result>>
SelectWait(g, es, timeout) ==
    /\ ErrorAt(es) = 0
    /\ FirstReadable(es) # 0 => ~Available(ChanOf[es[FirstReadable(es)]])
    /\ group' = [group EXCEPT ![g] = Present(es)]
    /\ IF Present(es) = <<>> \/ timeout = "zero" \/ Refused
       THEN UNCHANGED <<fiber, fibers, stack, receivers, fetching, timer, op>>
       ELSE /\ receivers' = [c \in Chans |-> receivers[c] \o
                 [k \in DOMAIN SelectSeq(Present(es), LAMBDA i : ChanOf[i] = c) |->
                    [t |-> fiber, i |-> SelectSeq(Present(es), LAMBDA i : ChanOf[i] = c)[k]]]]
            /\ fetching' = fetching \cup ToSet(Present(es))
            /\ timer' = IF timeout = "some" THEN timer \cup {g} ELSE timer
            /\ Block(InSelect(g), [Running EXCEPT !.pending = Len(Present(es))])
    /\ UNCHANGED <<buffer, senders, state, entry, pos, check, cancelled, history>>
Select(g, timeout) ==
    /\ InCode /\ Owner[g] = fiber
    /\ \E es \in Orders(g) : SelectError(g, es) \/ SelectNow(g, es) \/ SelectWait(g, es, timeout)

(* ChannelGroup::send.  A closed entry makes it throw.                      *)
ClosedAt(es) == SelectInSeq(es, LAMBDA i : state[ChanOf[i]] # "open")
FirstWritable(es) ==
    SelectInSeq(es, LAMBDA i : \/ receivers[ChanOf[i]] # <<>>
                               \/ buffer[ChanOf[i]].len < buffer[ChanOf[i]].size)
GroupSendError(g, m, es) ==
    /\ ClosedAt(es) # 0
    /\ group' = [group EXCEPT ![g] = RemoveAt(es, ClosedAt(es))]
    /\ result' = [result EXCEPT ![m] = "failed"]
    /\ UNCHANGED <<fiber, fibers, stack, chanVars, iterVars, check, timer, taskVars, got>>
GroupSendNow(g, m, es) ==
    /\ ClosedAt(es) = 0 /\ FirstWritable(es) # 0
    /\ LET c == ChanOf[es[FirstWritable(es)]]
       IN HandOver(c, m) \/ Store(c, m)
    /\ group' = [group EXCEPT ![g] = es]
GroupSendWait(g, m, es, timeout) ==
    /\ ClosedAt(es) = 0 /\ FirstWritable(es) = 0
    /\ IF es = <<>> \/ timeout = "zero" \/ Refused
       THEN /\ result' = [result EXCEPT ![m] = "failed"]
            /\ UNCHANGED <<fiber, fibers, stack, senders, timer, op>>
       ELSE /\ result' = [result EXCEPT ![m] = "waiting"]
            /\ senders' = [c \in Chans |-> senders[c] \o
                 [k \in DOMAIN SelectSeq(es, LAMBDA i : ChanOf[i] = c) |->
                    [t |-> fiber, i |-> SelectSeq(es, LAMBDA i : ChanOf[i] = c)[k]]]]
            /\ timer' = IF timeout = "some" THEN timer \cup {g} ELSE timer
            /\ Block(InGroupSend(g, m), Running)
    /\ group' = [group EXCEPT ![g] = es]
    /\ UNCHANGED <<buffer, receivers, state, iterVars, check, cancelled, got>>
GroupSend(g, m, timeout) ==
    /\ InCode /\ Owner[g] = fiber /\ result[m] = "new"
    /\ \E es \in Orders(g) :
          \/ GroupSendError(g, m, es) \/ GroupSendWait(g, m, es, timeout)
          \/ GroupSendNow(g, m, es)

(* Channel::close, the destructors of channels and of their states, and the *)
(* shutdown of the scheduler: dispose_state, at most once.                  *)
Close(c, how) ==
    /\ InCode /\ state[c] = "open" /\ how \in {"closed", "error"}
    /\ state' = [state EXCEPT ![c] = how]
    /\ Goto(<<Closing(c)>> \o stack[fiber])
    /\ UNCHANGED <<fiber, fibers, buffer, receivers, senders, iterVars, groupVars,
                   taskVars, history>>

(* The code of the task ends; its fiber never runs again.                   *)
Return ==
    /\ InCode
    /\ Goto(<<Over>>) /\ Suspend
    /\ UNCHANGED <<chanVars, iterVars, groupVars, taskVars, history>>
-------------------------------------------------------------------------------
(* What the C code does next.                                               *)

(* The two loops of dispose_state.                                          *)
Outcome(c) == IF state[c] = "error" THEN "FAILED" ELSE "RESOLVED"
FailReceivers ==
    /\ Top.k = "close"
    /\ LET c == Top.x
       IN IF receivers[c] = <<>>
          THEN /\ Goto(<<Flushing(c)>> \o Rest)
               /\ UNCHANGED <<fiber, fibers, receivers, fetching, check, op>>
          ELSE /\ receivers' = [receivers EXCEPT ![c] = Tail(@)]
               /\ SettleReceiver(c, Head(receivers[c]), Outcome(c), None, stack[fiber])
    /\ UNCHANGED <<buffer, senders, state, entry, pos, group, timer, cancelled, history>>
FailSenders ==
    /\ Top.k = "flush"
    /\ LET c == Top.x
       IN IF senders[c] = <<>>
          THEN Goto(Rest) /\ UNCHANGED <<fiber, fibers, senders, check, op>>
          ELSE /\ senders' = [senders EXCEPT ![c] = Tail(@)]
               /\ SettleSender(c, Head(senders[c]), Outcome(c), stack[fiber])
    /\ UNCHANGED <<buffer, receivers, state, iterVars, group, timer, cancelled, history>>

(* fetch_next_entry, after fetch_noblock.                                   *)
ResumeFetched ==
    /\ Top.k = "fetched"
    /\ pos' = [pos EXCEPT ![Top.x] = @ + 1]
    /\ Goto(Rest)
    /\ UNCHANGED <<fiber, fibers, chanVars, entry, fetching, groupVars, taskVars, history>>

(* fetch_next_entry, after the block.                                       *)
ResumeNext ==
    /\ Top.k = "next"
    /\ LET i == Top.x
           c == ChanOf[i]
       IN /\ IF op[fiber].status = "RESOLVED" /\ state[c] = "open"
             THEN /\ entry' = [entry EXCEPT ![i] = op[fiber].value]
                  /\ pos' = [pos EXCEPT ![i] = @ + 1]
                  /\ got' = [got EXCEPT ![c] = Append(@, op[fiber].value)]
             ELSE UNCHANGED <<entry, pos, got>>
          /\ receivers' = [receivers EXCEPT ![c] = Unlink(@, [t |-> fiber, i |-> i])]
          /\ fetching' = fetching \ {i}
    /\ op' = [op EXCEPT ![fiber] = Idle]
    /\ Goto(Rest)
    /\ UNCHANGED <<fiber, fibers, buffer, senders, state, groupVars, cancelled, result>>

(* Channel::send, after the block.                                          *)
ResumeSend ==
    /\ Top.k = "send"
    /\ result' = [result EXCEPT ![Top.m] = IF op[fiber].status = "RESOLVED" THEN "sent"
                                           ELSE "failed"]
    /\ senders' = [senders EXCEPT ![Top.x] = Unlink(@, [t |-> fiber, i |-> None])]
    /\ op' = [op EXCEPT ![fiber] = Idle]
    /\ Goto(Rest)
    /\ UNCHANGED <<fiber, fibers, buffer, receivers, state, iterVars, groupVars, cancelled, got>>

(* ChannelGroup::select, after the block: operations that are still queued  *)
(* are taken off, and the group is compacted when a channel was closed.     *)
Withdrawn(q, es) == SelectSeq(q, LAMBDA e : ~(e.t = fiber /\ e.i \in ToSet(es)))
ResumeSelect ==
    /\ Top.k = "select"
    /\ LET g == Top.x
           o == op[fiber]
       IN /\ IF o.status = "RESOLVED" /\ o.entry # None
             THEN got' = [got EXCEPT ![ChanOf[o.entry]] = Append(@, o.value)]
             ELSE UNCHANGED got
          /\ receivers' = [c \in Chans |-> Withdrawn(receivers[c], group[g])]
          /\ fetching' = fetching \ ToSet(group[g])
          /\ group' = [group EXCEPT ![g] = Compacted(g)]
          /\ check' = check \ {g} /\ timer' = timer \ {g}
    /\ op' = [op EXCEPT ![fiber] = Idle]
    /\ Goto(Rest)
    /\ UNCHANGED <<fiber, fibers, buffer, senders, state, entry, pos, cancelled, result>>

(* ChannelGroup::send, after the block.                                     *)
ResumeGroupSend ==
    /\ Top.k = "gsend"
    /\ LET g == Top.x
           o == op[fiber]
       IN /\ result' = [result EXCEPT ![Top.m] = IF o.entry # None /\ o.status = "RESOLVED"
                                                 THEN "sent" ELSE "failed"]
          /\ senders' = [c \in Chans |-> Withdrawn(senders[c], group[g])]
          /\ group' = [group EXCEPT ![g] = Compacted(g)]
          /\ check' = check \ {g} /\ timer' = timer \ {g}
    /\ op' = [op EXCEPT ![fiber] = Idle]
    /\ Goto(Rest)
    /\ UNCHANGED <<fiber, fibers, buffer, receivers, state, iterVars, cancelled, got>>
-------------------------------------------------------------------------------
(* The event loop.                                                          *)
InLoop == fiber = Runner

(* dispatch_tasks starts a task.                                            *)
Start(t) ==
    /\ InLoop /\ stack[t] = <<>>
    /\ stack' = [stack EXCEPT ![t] = <<Code>>]
    /\ Switch(t)
    /\ UNCHANGED <<chanVars, iterVars, groupVars, taskVars, history>>

(* timeout_select and timeout_send_cb.                                      *)
TimeOut(g) ==
    /\ InLoop /\ g \in timer
    /\ timer' = timer \ {g}
    /\ Settle(Owner[g], [op[Owner[g]] EXCEPT !.status = "RESOLVED"], stack[fiber])
    /\ UNCHANGED <<chanVars, iterVars, group, check, cancelled, history>>

(* The context of task t is cancelled: cancel_op if the task is blocked.    *)
Cancel(t) ==
    /\ InLoop \/ InCode
    /\ t \in Cancellable \ cancelled
    /\ cancelled' = cancelled \cup {t}
    /\ IF op[t].status = "RUNNING"
       THEN Settle(t, [op[t] EXCEPT !.status = "FAILED"], stack[fiber])
       ELSE UNCHANGED <<op, fiber, fibers, stack>>
    /\ UNCHANGED <<chanVars, iterVars, groupVars, history>>
-------------------------------------------------------------------------------
Timeouts == {"none", "zero", "some"}
PhpCode ==
    \/ \E c \in scene.chans : \/ \E m \in Msgs : Send(c, m)
                              \/ \E how \in {"closed", "error"} : Close(c, how)
    \/ \E i \in scene.iterators : Advance(i)
    \/ \E g \in scene.groups, timeout \in Timeouts :
          Select(g, timeout) \/ \E m \in Msgs : GroupSend(g, m, timeout)
    \/ Return
Engine ==
    \/ FailReceivers \/ FailSenders
    \/ ResumeFetched \/ ResumeNext \/ ResumeSend \/ ResumeSelect \/ ResumeGroupSend
EventLoop ==
    \/ \E t \in Tasks : Start(t) \/ Cancel(t)
    \/ \E g \in Groups : TimeOut(g)
Next == (PhpCode \/ Engine \/ EventLoop) /\ UNCHANGED scene
Spec == Init /\ [][Next]_vars
-------------------------------------------------------------------------------
(* Properties.                                                              *)
Blocked(t) == stack[t] # <<>> /\ Head(stack[t]).k \in {"next", "send", "select", "gsend"}
Queued(c) == ToSet(receivers[c]) \cup ToSet(senders[c])
Disposing(c) == \E f \in Tasks : ToSet(stack[f]) \cap {Closing(c), Flushing(c)} # {}

Kinds == {"loop", "code", "over", "next", "fetched", "send", "select", "gsend", "close", "flush"}
Frames == [k : Kinds, x : AllIterators \cup Groups \cup Chans \cup {None}, m : Msgs \cup {None}]
Waiter == [t : Tasks, i : AllIterators \cup {None}]
OpRecord == [status : {"PENDING", "RUNNING", "RESOLVED", "FAILED"},
             value : Msgs \cup {None}, entry : AllIterators \cup {None}, pending : Nat]

(* Every variable keeps its type; no entry is lost or doubled in a group.   *)
TypeOK ==
    /\ fiber \in Tasks \cup {Runner} /\ fibers \in Seq(Tasks \cup {Runner})
    /\ stack \in [Tasks \cup {Runner} -> Seq(Frames)]
    /\ \A c \in Chans :
          buffer[c] \in [data : [0..buffer[c].size - 1 -> Msgs \cup {None}], size : {buffer[c].size},
                         rpos : 0..MaxSize, wpos : 0..MaxSize, len : 0..buffer[c].size]
    /\ receivers \in [Chans -> Seq(Waiter)] /\ senders \in [Chans -> Seq(Waiter)]
    /\ state \in [Chans -> {"open", "closed", "error"}]
    /\ entry \in [AllIterators -> Msgs \cup {None}] /\ pos \in [AllIterators -> Int]
    /\ fetching \subseteq AllIterators
    /\ group \in [Groups -> Seq(AllIterators)] /\ check \subseteq Groups /\ timer \subseteq Groups
    /\ op \in [Tasks -> OpRecord] /\ cancelled \subseteq Tasks
    /\ result \in [Msgs -> {"new", "waiting", "sent", "failed"}]
    /\ got \in [Chans -> Seq(Msgs)]

(* The positions of the ring buffer agree with its length, and a sender     *)
(* waits only while the buffer is full: fetch_noblock may then store the    *)
(* message of the sender at wpos without counting it.                       *)
RingOK ==
    \A c \in Chans :
        /\ buffer[c].size > 0 => buffer[c].wpos = (buffer[c].rpos + buffer[c].len) % buffer[c].size
        /\ senders[c] # <<>> => buffer[c].len = buffer[c].size

(* Nobody waits for a message on a channel that has one.                    *)
NobodyMissed == \A c \in Chans : receivers[c] # <<>> => buffer[c].len = 0 /\ senders[c] = <<>>

(* A channel that is closed keeps nobody waiting.                           *)
ClosedDrained ==
    \A c \in Chans : (state[c] # "open" /\ ~Disposing(c)) => Queued(c) = {}

(* An operation is in a list exactly while its task is blocked in the call  *)
(* that queued it, and a blocked task whose operation is running can still  *)
(* be found: pending counts the channels a select can be woken from.        *)
Entries(t) == UNION {{<<c, k>> : k \in {j \in DOMAIN receivers[c] : receivers[c][j].t = t}} :
                        c \in Chans}
WaitersQueued ==
    /\ \A c \in Chans : \A e \in Queued(c) : Blocked(e.t)
    /\ \A t \in Tasks : (Blocked(t) /\ op[t].status = "RUNNING") =>
          LET fr == Head(stack[t])
          IN CASE fr.k = "next"   -> Entries(t) # {}
               [] fr.k = "send"   -> [t |-> t, i |-> None] \in ToSet(senders[fr.x])
               [] fr.k = "select" -> Cardinality(Entries(t)) = op[t].pending /\ Entries(t) # {}
               [] fr.k = "gsend"  -> \A i \in ToSet(group[fr.x]) :
                                        [t |-> t, i |-> i] \in ToSet(senders[ChanOf[i]])

(* "Cannot advance iterator while already awaiting next channel value": the *)
(* flag FETCHING is set exactly while a receive of the iterator is pending, *)
(* and then there is one.                                                   *)
FetchingFlag ==
    /\ fetching = {e.i : e \in UNION {ToSet(receivers[c]) : c \in Chans}}
                    \cup (IF Top.k = "next" THEN {Top.x} ELSE {})
    /\ \A i \in AllIterators : \A t, u \in Tasks :
          (Blocked(t) /\ Blocked(u) /\ Head(stack[t]) = InNext(i) /\ Head(stack[u]) = InNext(i))
              => t = u

(* A value that was handed to a waiting receiver is not dropped when the    *)
(* receiver goes on.                                                        *)
HandedOver ==
    (fiber \in Tasks /\ Top.k \in {"next", "select"} /\ op[fiber].value # None) =>
        /\ op[fiber].status = "RESOLVED"
        /\ state[ChanOf[IF Top.k = "next" THEN Top.x ELSE op[fiber].entry]] = "open"

(* Nobody is blocked in a select while a channel of the group has a message *)
(* or a sender (channel.c: "Perform a non-blocking select if a channel is   *)
(* ready.").  It holds for buffered channels.                               *)
SelectNonblock ==
    \A t \in Tasks : (Blocked(t) /\ Head(stack[t]).k = "select" /\ op[t].status = "RUNNING") =>
        \A i \in ToSet(group[Head(stack[t]).x]) :
            buffer[ChanOf[i]].len = 0 /\ senders[ChanOf[i]] = <<>>

(* A group serves who waits on it: he is queued on every channel he counts, *)
(* and does not wait while one of them is ready.                            *)
GroupServes == WaitersQueued /\ SelectNonblock

(* A channel in a consistent state: types, the ring buffer, the flag of its *)
(* iterators, nobody left behind by close, no value dropped on the way to   *)
(* the receiver it was handed to.                                           *)
Sound == TypeOK /\ RingOK /\ FetchingFlag /\ ClosedDrained /\ HandedOver

(* What the sender was told is true: the message of a send that succeeded   *)
(* was received, or is in a buffer or on its way to a receiver, unless a    *)
(* channel was closed without an error (it tells blocked senders that they  *)
(* succeeded); a message whose send failed was not received.                *)
InFlight(c) ==
    IF /\ fiber \in Tasks /\ Top.k \in {"next", "select"} /\ op[fiber].value # None
       /\ ChanOf[IF Top.k = "next" THEN Top.x ELSE op[fiber].entry] = c
    THEN <<op[fiber].value>> ELSE <<>>
Held == UNION {ToSet(got[c]) \cup ToSet(Contents(c)) \cup ToSet(InFlight(c)) : c \in Chans}
SenderKnows ==
    (\A c \in Chans : state[c] # "closed") =>
        /\ \A m \in Msgs : result[m] = "sent" => m \in Held
        /\ \A m \in Msgs : result[m] = "failed" => m \notin Held

(* First in, first out, each message once: the channels implement           *)
(* FifoChannels.                                                            *)
Waiting(c) == [k \in DOMAIN senders[c] |-> MsgOf(senders[c][k])]
Queue == [c \in Chans |-> InFlight(c) \o Contents(c) \o Waiting(c)]
Sent == {m \in Msgs : result[m] = "sent"}
Closed == {c \in Chans : state[c] # "open"}
Promise == INSTANCE FifoChannels WITH queue <- Queue, sent <- Sent, closed <- Closed
Fifo == Promise!Spec
===============================================================================
