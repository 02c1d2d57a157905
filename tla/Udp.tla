----------------------------------- MODULE Udp -----------------------------------
(***************************************************************************)
(* UDP sockets (src/src/udp.c) on top of the fiber layer, and what libuv    *)
(* does for one UDP handle (thirdparty/libuv/src/unix/udp.c).  Tasks send,  *)
(* flush, receive and close; callbacks resume them in the middle of the     *)
(* loops of libuv.  Datagrams are numbers, in the order of the calls.       *)
(***************************************************************************)
EXTENDS Fibers, Integers, FiniteSets

CONSTANTS Tasks,
          Cancellable,  \* tasks whose context may be cancelled
          Background,   \* tasks that run in a background context
          MaxSends,     \* bound: number of sends
          MaxReceives,  \* bound: number of calls of receive
          MaxIn,        \* bound: datagrams that arrive
          Scenes,       \* the bounds that apply together: pairs <<sends, receives>>
          Room,         \* datagrams the kernel takes without blocking
          None

Sends == 1 .. MaxSends
Receives == 1 .. MaxReceives
ASSUME UdpNames == Runner \notin Tasks /\ None \notin Tasks
ASSUME UdpSets ==
    /\ Cancellable \subseteq Tasks /\ Background \subseteq Tasks
    /\ Scenes \subseteq (0 .. MaxSends) \X (0 .. MaxReceives)
    /\ MaxSends \in Nat /\ MaxReceives \in Nat /\ MaxIn \in Nat /\ Room \in Nat \ {0}

VARIABLES scene,      \* a member of Scenes
          stack,      \* per fiber: its C frames, top first
          op,         \* status of the operation each task is blocked in
          cancelled,  \* tasks whose context has been cancelled
          error,      \* socket->error is set: close has been called
          handle,     \* open, closing or closed
          refs,       \* socket->ref_count
          senders,    \* socket->senders
          snd,        \* the send operations
          made,       \* number of sends so far
          flush,      \* socket->flush: tasks
          queue,      \* handle->write_queue
          done,       \* handle->write_completed_queue, with error codes
          receivers,  \* socket->receivers: calls of receive
          rcv,        \* per call of receive: its task and what it got
          asked,      \* number of calls of receive so far
          receiving,  \* ASYNC_UDP_FLAG_RECEIVING, recv_cb is set
          room,       \* datagrams the kernel takes now
          inbox,      \* datagrams that arrived and are not read
          arrived,    \* number of datagrams that arrived so far
          wire,       \* history: the sends the kernel took, in order
          skipped     \* history: a cancelled send ended and left flush alone

taskVars == <<fiber, fibers, stack, op, cancelled>>
sendVars == <<senders, snd, made, flush, queue, done, room, wire, skipped>>
recvVars == <<receivers, rcv, asked, receiving, inbox, arrived>>
vars == <<scene, taskVars, error, handle, refs, sendVars, recvVars>>
-------------------------------------------------------------------------------
Frame(k, x, c) == [k |-> k, x |-> x, c |-> c]
Loop == Frame("loop", 0, "")              \* the event loop
Code == Frame("code", 0, "")              \* PHP code
Over == Frame("over", 0, "")              \* the task has ended
Sending(s) == Frame("send", s, "")        \* blocked in send
FlushAll == Frame("flush_all", 0, "")     \* the sender resumes those who flush
Flushing(n) == Frame("flush", n, "")      \* blocked in flush, after n sends
Receiving(r) == Frame("receive", r, "")   \* blocked in receive
SentCb(s, c) == Frame("sent", s, c)       \* socket_sent, socket_sent_async
AsyncSent(s, c) == Frame("async", s, c)   \* its end, after flush was served
RecvMsg == Frame("recvmsg", 0, "")        \* the loop of uv__udp_recvmsg
Received(e) == Frame("received", 0, e)    \* socket_received, after the resume
SendMsg == Frame("sendmsg", 0, "")        \* uv__udp_sendmsg is called
Completed == Frame("completed", 0, "")    \* the loop of uv__udp_run_completed
FailAll == Frame("fail_all", 0, "")       \* the loops of socket_shutdown
Wild == Frame("wild", 0, "")              \* freed memory or a NULL pointer is
                                          \* used: nothing more is modelled
Top == Head(stack[fiber])
Rest == Tail(stack[fiber])
Goto(s) == stack' = [stack EXCEPT ![fiber] = s]
Push(f) == Goto(<<f>> \o stack[fiber])
StepTo(s) == Goto(s) /\ UNCHANGED <<fiber, fibers, op>>

NoSend == [task |-> None, holds |-> 0, freed |-> FALSE, cancelled |-> FALSE, told |-> "no"]
NoReceive == [task |-> None, got |-> 0]
Init ==
    /\ scene \in Scenes
    /\ fiber = Runner /\ fibers = <<>>
    /\ stack = [f \in Tasks \cup {Runner} |-> IF f = Runner THEN <<Loop>> ELSE <<>>]
    /\ op = [t \in Tasks |-> "PENDING"] /\ cancelled = {}
    /\ error = FALSE /\ handle = "open" /\ refs = 0
    /\ senders = <<>> /\ snd = [s \in Sends |-> NoSend] /\ made = 0 /\ flush = <<>>
    /\ queue = <<>> /\ done = <<>> /\ room = Room /\ wire = <<>> /\ skipped = FALSE
    /\ receivers = <<>> /\ rcv = [r \in Receives |-> NoReceive] /\ asked = 0
    /\ receiving = FALSE /\ inbox = <<>> /\ arrived = 0
-------------------------------------------------------------------------------
(* async_await_op: it fails at once in a cancelled context.                 *)
Await(f) ==
    /\ Push(f)
    /\ IF fiber \in cancelled THEN op' = [op EXCEPT ![fiber] = "FAILED"] /\ UNCHANGED <<fiber, fibers>>
                              ELSE op' = [op EXCEPT ![fiber] = "RUNNING"] /\ Suspend
Resume(t, result, r) ==
    /\ op' = [op EXCEPT ![t] = result] /\ Switch(t) /\ Goto(r)

(* ASYNC_UNREF_ENTER and ASYNC_UNREF_EXIT.                                  *)
Holds(t) == IF t \in Background THEN 0 ELSE 1

InCode == fiber \in Tasks /\ Top = Code
InLoop == fiber = Runner /\ Top = Loop

(* UdpSocket::send and its asynchronous form (intercept_send): the datagram *)
(* is tried at once if no operation is listed and libuv holds none.  If the *)
(* kernel takes none (EAGAIN), libuv tries once more and queues it.  A send *)
(* that fails at once leaves no trace and is left out.                      *)
NextSend == made + 1
NeverBusy == FALSE
Busy == Len(queue) + Len(done) > 0
SendNow ==
    /\ senders = <<>> /\ ~Busy /\ room > 0
    /\ wire' = Append(wire, NextSend) /\ room' = room - 1
    /\ UNCHANGED <<fiber, fibers, stack, op, refs, senders, snd, queue, done>>
Uncertain == Busy \/ room = 0
Enqueued(s) ==
    \/ /\ queue' = Append(queue, s) /\ UNCHANGED <<done, wire, room>>
    \/ /\ ~Busy /\ queue' = queue /\ done' = Append(done, <<s, "ok">>)
       /\ wire' = Append(wire, s) /\ room' = Room - 1
SendLater(async) ==
    /\ Uncertain \/ senders # <<>>
    /\ Enqueued(NextSend)
    /\ senders' = Append(senders, NextSend)
    /\ snd' = [snd EXCEPT ![NextSend].task = IF async THEN None ELSE fiber,
                           ![NextSend].holds = Holds(fiber)]
    /\ refs' = refs + Holds(fiber)
    /\ IF async THEN StepTo(stack[fiber]) ELSE Await(Sending(NextSend))
Send(async) ==
    /\ InCode /\ ~error /\ made < scene[1]
    /\ made' = NextSend
    /\ SendNow \/ SendLater(async)
    /\ UNCHANGED <<cancelled, error, handle, flush, skipped, recvVars>>

(* send returns; the operation of a cancelled send stays for socket_sent.   *)
(* The code that socket_sent stored is not looked at.  In the end the       *)
(* sender resumes those who flush if nothing is listed.                     *)
KeepsOp(s) == snd[s].cancelled
SendReturns ==
    /\ Top.k = "send"
    /\ LET s == Top.x
       IN /\ senders' = IF KeepsOp(s) THEN senders ELSE Unlink(senders, s)
          /\ snd' = [snd EXCEPT ![s].freed = ~KeepsOp(s)]
    /\ refs' = refs - Holds(fiber)
    /\ op' = [op EXCEPT ![fiber] = "PENDING"] /\ Goto(<<FlushAll>> \o Rest)
    /\ UNCHANGED <<fiber, fibers, cancelled, error, handle, made, flush, queue, done, room, wire,
                   skipped, recvVars>>
FlushAnyway == flush # <<>>
FlushNext == senders = <<>> /\ flush # <<>>
ServeFlush ==
    /\ Top.k = "flush_all"
    /\ IF FlushNext
       THEN flush' = Tail(flush) /\ Resume(Head(flush), "RESOLVED", stack[fiber])
       ELSE StepTo(Rest) /\ UNCHANGED flush
    /\ UNCHANGED <<cancelled, error, handle, refs, senders, snd, made, queue, done, room, wire,
                   skipped, recvVars>>

(* UdpSocket::flush; in a cancelled context it fails and changes nothing.   *)
Flush ==
    /\ InCode /\ ~error /\ senders # <<>> /\ fiber \notin cancelled
    /\ flush' = Append(flush, fiber) /\ Await(Flushing(made))
    /\ UNCHANGED <<cancelled, error, handle, refs, senders, snd, made, queue, done, room, wire,
                   skipped, recvVars>>
FlushReturns ==
    /\ Top.k = "flush"
    /\ flush' = Unlink(flush, fiber)
    /\ op' = [op EXCEPT ![fiber] = "PENDING"] /\ Goto(Rest)
    /\ UNCHANGED <<fiber, fibers, cancelled, error, handle, refs, senders, snd, made, queue, done,
                   room, wire, skipped, recvVars>>

(* UdpSocket::receive                                                       *)
Receive ==
    /\ InCode /\ ~error /\ asked < scene[2]
    /\ asked' = asked + 1 /\ receiving' = TRUE
    /\ receivers' = Append(receivers, asked')
    /\ rcv' = [rcv EXCEPT ![asked'].task = fiber]
    /\ refs' = refs + Holds(fiber)
    /\ Await(Receiving(asked'))
    /\ UNCHANGED <<cancelled, error, handle, sendVars, inbox, arrived>>
ReceiveReturns ==
    /\ Top.k = "receive"
    /\ receivers' = Unlink(receivers, Top.x) /\ refs' = refs - Holds(fiber)
    /\ op' = [op EXCEPT ![fiber] = "PENDING"] /\ Goto(Rest)
    /\ UNCHANGED <<fiber, fibers, cancelled, error, handle, sendVars, rcv, asked, receiving,
                   inbox, arrived>>

(* UdpSocket::close and socket_shutdown: the handle is closed, then every   *)
(* one who waits is resumed: receivers, senders, flush.                     *)
CallClose ==
    /\ InCode /\ ~error
    /\ error' = TRUE /\ handle' = "closing" /\ Push(FailAll)
    /\ UNCHANGED <<fiber, fibers, op, cancelled, refs, sendVars, recvVars>>
Fails(t) == Resume(t, "FAILED", stack[fiber])
FailEveryone ==
    /\ Top.k = "fail_all"
    /\ IF receivers # <<>>
       THEN /\ receivers' = Tail(receivers) /\ Fails(rcv[Head(receivers)].task)
            /\ UNCHANGED <<senders, flush>>
       ELSE IF senders # <<>>
       THEN /\ senders' = Tail(senders) /\ UNCHANGED <<receivers, flush>>
            /\ LET s == Head(senders)
               IN IF snd[s].task = None \/ snd[s].cancelled THEN StepTo(stack[fiber])
                                                            ELSE Fails(snd[s].task)
       ELSE IF flush # <<>>
       THEN flush' = Tail(flush) /\ Fails(Head(flush)) /\ UNCHANGED <<receivers, senders>>
       ELSE StepTo(Rest) /\ UNCHANGED <<receivers, senders, flush>>
    /\ UNCHANGED <<cancelled, error, handle, refs, snd, made, queue, done, room, wire, skipped,
                   rcv, asked, receiving, inbox, arrived>>

Return ==
    /\ InCode /\ Goto(<<Over>>) /\ Suspend
    /\ UNCHANGED <<op, cancelled, error, handle, refs, sendVars, recvVars>>
-------------------------------------------------------------------------------
(* The event loop.                                                          *)
Run(t) ==
    /\ InLoop /\ stack[t] = <<>>
    /\ stack' = [stack EXCEPT ![t] = <<Code>>] /\ Switch(t)
    /\ UNCHANGED <<op, cancelled, error, handle, refs, sendVars, recvVars>>

(* cancel_op, for an operation that is running.                             *)
Cancel(t) ==
    /\ InLoop \/ InCode
    /\ t \in Cancellable \ cancelled
    /\ cancelled' = cancelled \cup {t}
    /\ IF op[t] = "RUNNING" THEN op' = [op EXCEPT ![t] = "FAILED"] /\ Switch(t)
                            ELSE UNCHANGED <<op, fiber, fibers>>
    /\ snd' = [s \in Sends |-> [snd[s] EXCEPT !.cancelled =
                   @ \/ (op[t] = "RUNNING" /\ Head(stack[t]) = Sending(s))]]
    /\ UNCHANGED <<stack, error, handle, refs, senders, made, flush, queue, done, room, wire,
                   skipped, recvVars>>

(* uv__udp_io: first what arrives, then what can be sent.                   *)
CanRead == receiving /\ inbox # <<>>
Unfed == queue # <<>> /\ room > 0
CanWrite == done # <<>> \/ (queue # <<>> /\ room > 0)
Ready ==
    /\ InLoop /\ handle = "open"
    /\ \E in \in {FALSE, CanRead}, out \in {FALSE, CanWrite} :
           /\ in \/ out
           /\ StepTo((IF in THEN <<RecvMsg>> ELSE <<>>)
                     \o (IF out THEN <<SendMsg, Completed>> ELSE <<>>) \o stack[fiber])
    /\ UNCHANGED <<cancelled, error, handle, refs, sendVars, recvVars>>

(* One pass of the loop of uv__udp_recvmsg.  socket_alloc_buffer uses the   *)
(* first receiver; nothing is left to read in the end (EAGAIN).  An empty   *)
(* datagram is dropped; after an error the loop ends.                       *)
NextWaiter == Head(receivers)
ReceiveOne ==
    /\ Top.k = "recvmsg"
    /\ IF handle # "open" \/ ~receiving
       THEN StepTo(Rest) /\ UNCHANGED <<receivers, rcv, inbox>>
       ELSE IF receivers = <<>>
       THEN StepTo(<<Wild>>) /\ UNCHANGED <<receivers, rcv, inbox>>
       ELSE IF inbox = <<>>
       THEN StepTo(Rest) /\ UNCHANGED <<receivers, rcv, inbox>>
       ELSE IF Head(inbox)[2] = "empty"
       THEN inbox' = Tail(inbox) /\ StepTo(stack[fiber]) /\ UNCHANGED <<receivers, rcv>>
       ELSE LET r == NextWaiter
            IN /\ receivers' = Unlink(receivers, r) /\ inbox' = Tail(inbox)
               /\ rcv' = [rcv EXCEPT ![r].got = Head(inbox)[1]]
               /\ Resume(rcv[r].task, "RESOLVED", <<Received(Head(inbox)[2])>> \o stack[fiber])
    /\ UNCHANGED <<cancelled, error, handle, refs, sendVars, asked, receiving, arrived>>
StopsIf == receivers = <<>>
ReceivedOne ==
    /\ Top.k = "received"
    /\ receiving' = (receiving /\ ~StopsIf)
    /\ StepTo(IF Top.c = "error" THEN Tail(Rest) ELSE Rest)
    /\ UNCHANGED <<cancelled, error, handle, refs, sendVars, receivers, rcv, asked, inbox, arrived>>

(* uv__udp_sendmsg: each request is sent, fails, or waits with all that     *)
(* follow.  After a close the descriptor is gone (EBADF).                   *)
Smaller(m, n) == IF m < n THEN m ELSE n
SendQueued ==
    /\ Top.k = "sendmsg"
    /\ \E fails \in {{}} \cup {{i} : i \in 1 .. Len(queue)} :
          LET gone == handle # "open"
              n == IF gone THEN Len(queue) ELSE Smaller(Len(queue), room + Cardinality(fails))
              ok(i) == ~gone /\ i \notin fails
              out == SelectSeq([i \in 1 .. n |-> i], ok)
          IN /\ queue' = SubSeq(queue, n + 1, Len(queue))
             /\ done' = done \o [i \in 1 .. n |-> <<queue[i], IF ok(i) THEN "ok" ELSE "error">>]
             /\ fails \subseteq 1 .. n /\ Len(out) <= room
             /\ wire' = wire \o [i \in 1 .. Len(out) |-> queue[out[i]]]
             /\ room' = room - Len(out)
    /\ StepTo(Rest)
    /\ UNCHANGED <<cancelled, error, handle, refs, senders, snd, made, flush, skipped, recvVars>>

(* uv__udp_run_completed: one callback after the other.                     *)
Complete ==
    /\ Top.k = "completed"
    /\ IF done = <<>> THEN StepTo(Rest) /\ UNCHANGED done
       ELSE /\ done' = Tail(done)
            /\ StepTo(<<SentCb(Head(done)[1], Head(done)[2])>> \o stack[fiber])
    /\ UNCHANGED <<cancelled, error, handle, refs, senders, snd, made, flush, queue, room, wire,
                   skipped, recvVars>>

(* socket_sent: it frees the operation of a cancelled send, else it ends    *)
(* the operation and so resumes the sender.                                 *)
Sent ==
    /\ Top.k = "sent" /\ snd[Top.x].task # None
    /\ LET s == Top.x
       IN IF snd[s].freed
          THEN StepTo(<<Wild>>) /\ UNCHANGED <<senders, snd, skipped>>
          ELSE IF snd[s].cancelled
          THEN /\ senders' = Unlink(senders, s) /\ snd' = [snd EXCEPT ![s].freed = TRUE]
               /\ skipped' = (skipped \/ (senders' = <<>> /\ flush # <<>>))
               /\ StepTo(Rest)
          ELSE /\ senders' = Unlink(senders, s)
               /\ snd' = [snd EXCEPT ![s].told = "ok"] /\ UNCHANGED skipped
               /\ Resume(snd[s].task, "RESOLVED", Rest)
    /\ UNCHANGED <<cancelled, error, handle, refs, made, flush, queue, done, room, wire, recvVars>>
(* socket_sent_async                                                        *)
SentAsync ==
    /\ Top.k = "sent" /\ snd[Top.x].task = None
    /\ senders' = Unlink(senders, Top.x) /\ refs' = refs - snd[Top.x].holds
    /\ StepTo(<<FlushAll, AsyncSent(Top.x, Top.c)>> \o Rest)
    /\ UNCHANGED <<cancelled, error, handle, snd, made, flush, queue, done, room, wire, skipped, recvVars>>
Verdict(c) == IF c = "ok" THEN "ok" ELSE "error"
TellAsync ==
    /\ Top.k = "async"
    /\ snd' = [snd EXCEPT ![Top.x].told = Verdict(Top.c), ![Top.x].freed = TRUE]
    /\ StepTo(Rest)
    /\ UNCHANGED <<cancelled, error, handle, refs, senders, made, flush, queue, done, room, wire,
                   skipped, recvVars>>

(* uv__udp_finish_close: what is queued ends with ECANCELED.                *)
HandleClosed ==
    /\ InLoop /\ handle = "closing"
    /\ handle' = "closed" /\ queue' = <<>> /\ receiving' = FALSE
    /\ done' = done \o [i \in 1 .. Len(queue) |-> <<queue[i], "cancelled">>]
    /\ StepTo(<<Completed>> \o stack[fiber])
    /\ UNCHANGED <<cancelled, error, refs, senders, snd, made, flush, room, wire, skipped,
                   receivers, rcv, asked, inbox, arrived>>

(* The network.                                                             *)
Kinds == {"data", "empty", "error"}
KernelSends ==
    /\ InLoop /\ room < Room /\ room' = Room
    /\ UNCHANGED <<taskVars, error, handle, refs, senders, snd, made, flush, queue, done, wire,
                   skipped, recvVars>>
Arrive ==
    /\ InLoop /\ arrived < MaxIn /\ scene[2] > 0
    /\ arrived' = arrived + 1
    /\ \E kind \in Kinds : inbox' = Append(inbox, <<arrived', kind>>)
    /\ UNCHANGED <<taskVars, error, handle, refs, sendVars, receivers, rcv, asked, receiving>>
-------------------------------------------------------------------------------
PhpCode == Send(FALSE) \/ Send(TRUE) \/ Flush \/ Receive \/ CallClose \/ Return
Engine ==
    \/ SendReturns \/ ServeFlush \/ FlushReturns \/ ReceiveReturns \/ FailEveryone
    \/ ReceiveOne \/ ReceivedOne \/ SendQueued \/ Complete \/ Sent \/ SentAsync \/ TellAsync
EventLoop == Ready \/ HandleClosed \/ \E t \in Tasks : Run(t)
Environment == KernelSends \/ Arrive \/ \E t \in Tasks : Cancel(t)
Program == (PhpCode \/ Engine \/ EventLoop) /\ UNCHANGED scene
Next == Program \/ (Environment /\ UNCHANGED scene)
Spec == Init /\ [][Next]_vars
(* The program goes on and the kernel sends what it took.  Code that runs   *)
(* returns in the end, since its calls are bounded.                         *)
FairSpec == Spec /\ WF_vars(Program) /\ WF_vars(KernelSends /\ UNCHANGED scene)
-------------------------------------------------------------------------------
(* Properties.                                                              *)
Codes == {"", "ok", "error", "cancelled", "data"}
Frames == [k : {"loop", "code", "over", "send", "flush_all", "flush", "receive", "sent", "async",
                "recvmsg", "received", "sendmsg", "completed", "fail_all", "wild"},
           x : Nat, c : Codes]
Waits(t, k) == \E f \in ToSet(stack[t]) : f.k = k
InFlight == ToSet(queue) \cup {d[1] : d \in ToSet(done)}
Calling == {f.x : f \in {g \in ToSet(stack[Runner]) : g.k = "sent"}}

(* Every variable keeps its type, and the handle keeps the loop alive       *)
(* exactly for those foreground tasks that wait and asynchronous sends.     *)
TypeOK ==
    /\ fiber \in Tasks \cup {Runner} /\ fibers \in Seq(Tasks \cup {Runner})
    /\ stack \in [Tasks \cup {Runner} -> Seq(Frames)]
    /\ op \in [Tasks -> {"PENDING", "RUNNING", "RESOLVED", "FAILED"}]
    /\ cancelled \subseteq Tasks /\ error \in BOOLEAN
    /\ handle \in {"open", "closing", "closed"}
    /\ senders \in Seq(Sends) /\ made \in 0 .. MaxSends /\ flush \in Seq(Tasks)
    /\ snd \in [Sends -> [task : Tasks \cup {None}, holds : {0, 1}, freed : BOOLEAN,
                          cancelled : BOOLEAN, told : {"no", "ok", "error"}]]
    /\ queue \in Seq(Sends) /\ done \in Seq(Sends \X Codes) /\ wire \in Seq(Sends)
    /\ receivers \in Seq(Receives) /\ asked \in 0 .. MaxReceives
    /\ rcv \in [Receives -> [task : Tasks \cup {None}, got : 0 .. MaxIn]]
    /\ receiving \in BOOLEAN /\ skipped \in BOOLEAN
    /\ room \in 0 .. Room /\ arrived \in 0 .. MaxIn /\ inbox \in Seq((1 .. MaxIn) \X Kinds)
    /\ refs = Cardinality({t \in Tasks \ Background : Waits(t, "send") \/ Waits(t, "receive")})
              + Cardinality({s \in InFlight \cup Calling : snd[s].task = None /\ snd[s].holds = 1})

(* Datagrams leave in the order of the calls, each at most once, also when  *)
(* a send overtakes the queue; an asynchronous send is told the truth.      *)
SentInOrder ==
    /\ \A i, j \in 1 .. Len(wire) : i < j => wire[i] < wire[j]
    /\ \A s \in Sends : snd[s].task = None /\ snd[s].told # "no" =>
           (snd[s].told = "ok" <=> s \in ToSet(wire))

(* flush returns after every send that was made before it has ended.        *)
(* (Not when it is resumed by a sender that close has failed.)              *)
FlushWaits ==
    Top.k = "flush" /\ op[fiber] = "RESOLVED" =>
        error \/ \A s \in InFlight : s > Top.x \/ snd[s].freed

(* Who waits for a datagram is served: when the loop goes on, libuv reads;  *)
(* and those who wait are served in the order of their calls.               *)
ReceivedInTurn ==
    /\ InLoop /\ receivers # <<>> => receiving /\ handle = "open"
    /\ \A q, r \in 1 .. asked : q < r /\ rcv[r].got > 0 =>
           q \notin ToSet(receivers) /\ rcv[q].got < rcv[r].got

(* The handle holds the loop for those who need it, nobody overtakes in     *)
(* receive, and flush waits for the sends before it.                        *)
Sound == TypeOK /\ FlushWaits /\ ReceivedInTurn

Astray == Top = Wild
(* Who is blocked in send or flush goes on in the end, when the kernel      *)
(* sends.  (Not who flushes when the last send was cancelled: skipped.)     *)
SendsEnd ==
    \A t \in Tasks : Waits(t, "send") \/ Waits(t, "flush") ~>
        ~(Waits(t, "send") \/ Waits(t, "flush")) \/ skipped \/ Astray
===============================================================================
