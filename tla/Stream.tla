--------------------------------- MODULE Stream ---------------------------------
(***************************************************************************)
(* The stream core under sockets, pipes and consoles (src/src/stream.c), on *)
(* top of the fiber layer, and what libuv does for one stream handle        *)
(* (thirdparty/libuv/src/unix/stream.c).  Tasks read, write, flush, shut    *)
(* down and close; callbacks resume them in the middle of their loops.      *)
(* Bytes are counted in units of 4096; TLS and handle passing are left out. *)
(***************************************************************************)
EXTENDS Fibers, Integers, FiniteSets

CONSTANTS Tasks,
          Scenes,       \* bound: what is done, and the sizes, see below
          MaxWrites,    \* the most writes of a scene
          None

Writes == 1 .. MaxWrites
ASSUME StreamNames == Runner \notin Tasks /\ None \notin Tasks
ASSUME StreamScenes ==
    \A s \in Scenes :
        /\ s.ops \subseteq {"write", "async", "flush", "read", "timeout", "close", "RD", "WR", "RDWR"}
        /\ s.cancels \subseteq Tasks
        /\ s.writes \in 0 .. MaxWrites /\ s.reads \in Nat /\ s.size \in Nat \ {0} /\ s.room \in Nat \ {0}
        /\ s.buffer \in Nat \ {0} /\ s.input \in Nat
        /\ s.endings \subseteq {"eof", "error"}

VARIABLES scene,      \* the scene; it never changes
          stack,      \* per fiber: its C frames, top first
          op,         \* status of the operation each task is blocked in
          cancelled,  \* tasks whose context has been cancelled
          flags,      \* stream->flags
          writes,     \* stream->writes
          flush,      \* stream->flush: tasks
          wr,         \* the write operations
          freed,      \* write operations whose memory is freed
          made,       \* number of writes so far
          reads,      \* number of reads so far
          read,       \* the request of stream->read
          buffer,     \* stream->buffer.len
          shutref,    \* references in stream->shutdown.ref
          queue,      \* handle->write_queue
          done,       \* handle->write_completed_queue, with error codes
          reading,    \* UV_HANDLE_READING
          shutting,   \* UV_HANDLE_SHUTTING, UV_HANDLE_SHUT
          handle,     \* open, closing or closed
          room,       \* units the kernel takes without blocking
          inbox,      \* units that arrived and are not read
          sent,       \* units the peer has sent
          peer,       \* how the peer ended
          wire,       \* history: whose units the kernel took, in order
          orphaned,   \* history: a write is queued that nobody will start
          deaf        \* history: READING is set and libuv has stopped

Ops == scene.ops             \* what the PHP code does
Cancellable == scene.cancels \* tasks whose context may be cancelled
Size == scene.size           \* units of one write
Room == scene.room           \* units the kernel takes until the peer reads
BufSize == scene.buffer      \* stream->buffer.size
MaxIn == scene.input         \* units the peer sends at most
Endings == scene.endings     \* how the peer may end

taskVars == <<fiber, fibers, stack, op, cancelled>>
writeVars == <<writes, flush, wr, freed, made, orphaned>>
readVars == <<reads, read, buffer, deaf>>
uvVars == <<queue, done, reading, shutting, handle>>
netVars == <<room, inbox, sent, peer, wire>>
vars == <<scene, taskVars, flags, writeVars, readVars, shutref, uvVars, netVars>>
-------------------------------------------------------------------------------
Frame(k, x, s) == [k |-> k, x |-> x, s |-> s]
Loop == Frame("loop", 0, {})               \* the event loop
Code == Frame("code", 0, {})               \* PHP code
Over == Frame("over", 0, {})               \* the task has ended
Writing(w) == Frame("write", w, {})        \* blocked in async_stream_write
Flushing(n) == Frame("flush", n, {})       \* blocked, after n writes were made
Reading == Frame("read", 0, {})            \* blocked in async_stream_read
WriteCb(w, c) == Frame("write_cb", w, {c}) \* write_cb is called
Next1(w) == Frame("next", w, {})           \* write_cb: free w, start the next
Flushed == Frame("flushed", 0, {})         \* write_cb: flush and shutdown
Drain == Frame("drain", 0, {})             \* uv__drain
ReadCb == Frame("read_cb", 0, {})          \* read_cb, loop over requests
EndReads == Frame("end_reads", 0, {})      \* read_cb, after EOF or an error
Stopped == Frame("stopped", 0, {})         \* libuv stops after EOF or an error
Close == Frame("close", 0, {})             \* async_stream_close
CloseHandle == Frame("uv_close", 0, {})    \* its second half
ShutCb == Frame("shut_cb", 0, {})          \* shutdown_cb
Wild == Frame("wild", 0, {})               \* a task is resumed that does not wait
                                           \* for this: nothing more is modelled
ShutRest(how) == Frame("shut", 0, how)     \* second half of a shutdown

Top == Head(stack[fiber])
Rest == Tail(stack[fiber])
Goto(s) == stack' = [stack EXCEPT ![fiber] = s]
Push(f) == Goto(<<f>> \o stack[fiber])
NoWrite(n) == [task |-> None, left |-> n, started |-> FALSE, code |-> "ok", acked |-> FALSE]
NoRead == [task |-> None, len |-> 0, timed |-> FALSE]

Init ==
    /\ scene \in Scenes
    /\ fiber = Runner /\ fibers = <<>>
    /\ stack = [f \in Tasks \cup {Runner} |-> IF f = Runner THEN <<Loop>> ELSE <<>>]
    /\ op = [t \in Tasks |-> "PENDING"] /\ cancelled = {} /\ flags = {}
    /\ writes = <<>> /\ flush = <<>> /\ wr = [w \in Writes |-> NoWrite(scene.size)] /\ made = 0 /\ freed = {}
    /\ reads = 0 /\ read = NoRead /\ buffer = 0 /\ shutref = 0
    /\ queue = <<>> /\ done = <<>> /\ reading = FALSE /\ shutting = "no" /\ handle = "open"
    /\ room \in 1 .. scene.room /\ inbox = 0 /\ sent = 0 /\ peer = "open" /\ wire = <<>>
    /\ orphaned = FALSE /\ deaf = FALSE
-------------------------------------------------------------------------------
(* async_await_op, for task t = fiber: it fails at once in a cancelled      *)
(* context.  The frame on top says where the task goes on.                  *)
Await(f) ==
    /\ Push(f)
    /\ IF fiber \in cancelled THEN op' = [op EXCEPT ![fiber] = "FAILED"] /\ UNCHANGED <<fiber, fibers>>
                              ELSE op' = [op EXCEPT ![fiber] = "RUNNING"] /\ Suspend
Resume(t, r) ==
    /\ op' = [op EXCEPT ![t] = "RESOLVED"] /\ Switch(t) /\ Goto(r)
StepTo(r) == Goto(r) /\ UNCHANGED <<fiber, fibers, op>>

ReadRuns == read.task # None /\ op[read.task] = "RUNNING"

(* What the kernel takes of write w at once, and what is left of it.        *)
Taken(w) == IF room < wr[w].left THEN room ELSE wr[w].left
Sends(w) ==
    /\ wire' = wire \o [i \in 1 .. Taken(w) |-> w]
    /\ room' = room - Taken(w)
KernelIdle == UNCHANGED <<wire, room>>

(* uv_write on an empty write queue: it is tried at once (uv__write).  In a *)
(* closed handle it returns an error that the callers ignore.               *)
UvWrite(w) ==
    IF handle # "open"
    THEN KernelIdle /\ UNCHANGED <<queue, done>> /\ wr' = [wr EXCEPT ![w].started = TRUE]
    ELSE IF peer = "error"
    THEN /\ KernelIdle /\ UNCHANGED queue
         /\ done' = Append(done, <<w, "error">>) /\ wr' = [wr EXCEPT ![w].started = TRUE]
    ELSE /\ Sends(w)
         /\ wr' = [wr EXCEPT ![w].started = TRUE, ![w].left = @ - Taken(w)]
         /\ IF Taken(w) = wr[w].left
            THEN done' = Append(done, <<w, "ok">>) /\ UNCHANGED queue
            ELSE queue' = Append(queue, w) /\ UNCHANGED done
-------------------------------------------------------------------------------
(* PHP code.  Calls that change nothing are left out: those that fail at    *)
(* once, also because the task's context is cancelled.                      *)
InCode == fiber \in Tasks /\ Top = Code
InLoop == fiber = Runner /\ Top = Loop

(* async_stream_write.  With nothing listed it tries to write at once (the  *)
(* queue of libuv is empty then, see NoDangling); a write that fails so     *)
(* leaves no trace and is not listed here.                                  *)
NextWrite == made + 1
Tries == writes = <<>> /\ "WRITING" \notin flags
QueuedFirst(w, t, n, start) ==
    /\ writes' = <<w>> \o writes
    /\ wr' = [wr EXCEPT ![w].task = IF t \in cancelled THEN None ELSE t, ![w].left = n, ![w].started = start]
    /\ IF t = None THEN StepTo(stack[fiber]) ELSE Await(Writing(w))
Queued(w, t, n, start) ==
    /\ writes' = Append(writes, w)
    /\ wr' = [wr EXCEPT ![w].task = IF t \in cancelled THEN None ELSE t, ![w].left = n, ![w].started = start]
    /\ IF t = None THEN StepTo(stack[fiber]) ELSE Await(Writing(w))
WriteWhole(w) ==
    /\ Tries /\ queue = <<>> /\ peer # "error" /\ Taken(w) = Size
    /\ Sends(w) /\ wr' = [wr EXCEPT ![w].left = 0, ![w].acked = TRUE]
    /\ freed' = freed \cup {w}
    /\ UNCHANGED <<fiber, fibers, stack, op, writes, queue, orphaned>>
WritePart(w, t) ==
    /\ Tries /\ queue = <<>> /\ peer # "error" /\ Taken(w) < Size
    /\ Sends(w) /\ queue' = <<w>> /\ Queued(w, t, Size - Taken(w), TRUE)
    /\ UNCHANGED <<freed, orphaned>>
WriteLater(w, t) ==
    /\ ~Tries
    /\ KernelIdle /\ Queued(w, t, Size, FALSE)
    /\ orphaned' = (orphaned \/ \E f \in ToSet(stack[Runner]) : f = Flushed)
    /\ UNCHANGED <<queue, freed>>
Write(async) ==
    /\ InCode /\ made < scene.writes /\ "SHUT_WR" \notin flags
    /\ made' = NextWrite
    /\ LET t == IF async THEN None ELSE fiber
       IN WriteWhole(NextWrite) \/ WritePart(NextWrite, t)
          \/ WriteLater(NextWrite, t)
    /\ UNCHANGED <<cancelled, flags, flush, readVars, shutref, done, reading, shutting,
                   handle, inbox, sent, peer>>

(* The write returns.  A started operation that was cancelled goes back to  *)
(* the head of the list, as an asynchronous one, but keeps its callback.    *)
Requeued(w) == wr[w].started
Reports(w) == wr[w].code = "ok"
Written ==
    /\ Top.k = "write"
    /\ LET w == Top.x
       IN \/ /\ op[fiber] = "RESOLVED" /\ wr' = [wr EXCEPT ![w].acked = Reports(w)]
             /\ UNCHANGED <<writes, freed>>
          \/ /\ op[fiber] = "FAILED" /\ Requeued(w)
             /\ writes' = <<w>> \o Unlink(writes, w) /\ UNCHANGED <<wr, freed>>
          \/ /\ op[fiber] = "FAILED" /\ ~Requeued(w)
             /\ writes' = Unlink(writes, w) /\ freed' = freed \cup {w} /\ UNCHANGED wr
    /\ op' = [op EXCEPT ![fiber] = "PENDING"] /\ Goto(Rest)
    /\ UNCHANGED <<fiber, fibers, cancelled, flags, flush, made, orphaned, readVars,
                   shutref, uvVars, netVars>>

(* async_stream_flush.                                                      *)
Flush ==
    /\ InCode /\ writes # <<>> /\ fiber \notin cancelled
    /\ flush' = Append(flush, fiber) /\ Await(Flushing(made))
    /\ UNCHANGED <<cancelled, flags, writes, wr, freed, made, orphaned, readVars, shutref,
                   uvVars, netVars>>
FlushReturns ==
    /\ Top.k = "flush"
    /\ flush' = Unlink(flush, fiber)
    /\ op' = [op EXCEPT ![fiber] = "PENDING"] /\ Goto(Rest)
    /\ UNCHANGED <<fiber, fibers, cancelled, flags, writes, wr, freed, made, orphaned, readVars,
                   shutref, uvVars, netVars>>

(* async_stream_read: from the buffer, or it waits for read_cb.             *)
Smaller(m, n) == IF m < n THEN m ELSE n
MayRead == BufSize - buffer >= 1
ReadBuffered(n) ==
    /\ buffer > 0 /\ buffer' = buffer - Smaller(n, buffer)
    /\ IF flags = {} /\ BufSize - buffer' >= 1
       THEN reading' = TRUE /\ flags' = {"READING"}
       ELSE UNCHANGED <<reading, flags>>
    /\ UNCHANGED <<fiber, fibers, stack, op, read>>
ReadWaits(n, timed) ==
    /\ buffer = 0 /\ "EOF" \notin flags
    /\ fiber \in cancelled => "READING" \notin flags
    /\ reading' = (IF "READING" \in flags THEN reading ELSE TRUE)
    /\ flags' = flags \cup {"READING"}
    /\ read' = [task |-> fiber, len |-> n, timed |-> timed]
    /\ Await(Reading) /\ UNCHANGED buffer
Read(n) ==
    /\ InCode /\ reads < scene.reads /\ "SHUT_RD" \notin flags /\ ~ReadRuns
    /\ reads' = reads + 1
    /\ ReadBuffered(n) \/ \E b \in {FALSE, "timeout" \in Ops} : ReadWaits(n, b)
    /\ UNCHANGED <<cancelled, writeVars, deaf, shutref, queue, done, shutting, handle, netVars>>
ReadReturns ==
    /\ Top.k = "read"
    /\ read' = NoRead /\ op' = [op EXCEPT ![fiber] = "PENDING"] /\ Goto(Rest)
    /\ UNCHANGED <<fiber, fibers, cancelled, flags, writeVars, reads, buffer, deaf, shutref, uvVars, netVars>>

(* trigger_shutdown_wr.                                                     *)
CanShut == handle = "open" /\ shutting = "no"
Trigger(refs) ==
    IF CanShut
    THEN shutting' = "req" /\ flags' = flags \cup {"SHUTDOWN"} /\ shutref' = refs
    ELSE shutref' = refs - 1 /\ UNCHANGED <<shutting, flags>>

(* async_stream_shutdown.  It decides by the flags it found at first, and   *)
(* a reader that it resumes runs in between.                                *)
StopsReading(stop) ==
    reading' = (reading /\ ~(stop /\ "READING" \in flags))
HasEffect(how) ==
    how \ flags # {} \/ ({"SHUT_RD", "SHUT_WR"} \subseteq flags /\ flags \cap {"SHUTDOWN", "CLOSED"} = {})
NewHalves(how) == how \ flags
Shutdown(how) ==
    /\ InCode /\ HasEffect(how)
    /\ LET new == NewHalves(how)
           rd == "SHUT_RD" \in new
           next == <<ShutRest(new)>> \o stack[fiber]
       IN /\ flags' = (flags \cup how \cup (IF "SHUT_RD" \in how THEN {"EOF"} ELSE {}))
                      \ (IF rd THEN {"READING"} ELSE {})
          /\ StopsReading(rd)
          /\ IF rd /\ ReadRuns THEN Resume(read.task, next) ELSE StepTo(next)
    /\ UNCHANGED <<cancelled, writeVars, readVars, shutref, queue, done, shutting, handle, netVars>>
ShutdownRest ==
    /\ Top.k = "shut"
    /\ LET wr_ == "SHUT_WR" \in Top.s
           fails == wr_ /\ writes = <<>> /\ ~CanShut
       IN /\ IF wr_ /\ writes = <<>> THEN Trigger(shutref + 1)
             ELSE /\ flags' = IF wr_ THEN flags \cup {"SHUTDOWN", "DELAY_SHUTDOWN"} ELSE flags
                  /\ shutref' = IF wr_ THEN shutref + 1 ELSE shutref
                  /\ UNCHANGED shutting
          /\ StepTo(IF fails \/ ({"SHUT_RD", "SHUT_WR"} \subseteq flags' /\ "SHUTDOWN" \notin flags')
                    THEN <<Close>> \o Rest ELSE Rest)
    /\ UNCHANGED <<cancelled, writeVars, readVars, queue, done, reading, handle, netVars>>
ShutdownCb ==
    /\ Top.k = "shut_cb"
    /\ flags' = flags \ {"SHUTDOWN", "DELAY_SHUTDOWN"} /\ shutref' = shutref - 1
    /\ StepTo(IF "SHUT_RD" \in flags THEN <<Close>> \o Rest ELSE Rest)
    /\ UNCHANGED <<cancelled, writeVars, readVars, uvVars, netVars>>

(* async_stream_close: the reader is resumed before the handle is closed.   *)
CallClose ==
    /\ InCode /\ "CLOSED" \notin flags /\ Push(Close)
    /\ UNCHANGED <<fiber, fibers, op, cancelled, flags, writeVars, readVars, shutref, uvVars, netVars>>
CloseStream ==
    /\ Top.k = "close"
    /\ IF "CLOSED" \in flags THEN StepTo(Rest) /\ UNCHANGED <<flags, reading>>
       ELSE /\ flags' = (flags \cup {"CLOSED", "EOF", "SHUT_RD", "SHUT_WR"}) \ {"READING"}
            /\ StopsReading(TRUE)
            /\ LET next == <<CloseHandle>> \o Rest
               IN IF ReadRuns THEN Resume(read.task, next) ELSE StepTo(next)
    /\ UNCHANGED <<cancelled, writeVars, readVars, shutref, queue, done, shutting, handle, netVars>>
UvClose ==
    /\ Top.k = "uv_close"
    /\ handle' = "closing" /\ reading' = FALSE /\ StepTo(Rest)
    /\ UNCHANGED <<cancelled, flags, writeVars, readVars, shutref, queue, done, shutting, netVars>>

Return ==
    /\ InCode /\ Goto(<<Over>>) /\ Suspend
    /\ UNCHANGED <<op, cancelled, flags, writeVars, readVars, shutref, uvVars, netVars>>
-------------------------------------------------------------------------------
(* The event loop.                                                          *)
Run(t) ==
    /\ InLoop /\ stack[t] = <<>>
    /\ stack' = [stack EXCEPT ![t] = <<Code>>] /\ Switch(t)
    /\ UNCHANGED <<op, cancelled, flags, writeVars, readVars, shutref, uvVars, netVars>>

(* cancel_op, for an operation that is running.                             *)
Cancel(t) ==
    /\ InLoop \/ InCode
    /\ t \in Cancellable \ cancelled
    /\ cancelled' = cancelled \cup {t}
    /\ IF op[t] = "RUNNING" THEN op' = [op EXCEPT ![t] = "FAILED"] /\ Switch(t)
                            ELSE UNCHANGED <<op, fiber, fibers>>
    /\ UNCHANGED <<stack, flags, writeVars, readVars, shutref, uvVars, netVars>>

(* uv__stream_io for POLLOUT: uv__write, then uv__write_callbacks, then     *)
(* uv__drain.                                                               *)
Callbacks(cs) == [i \in 1 .. Len(cs) |-> WriteCb(cs[i][1], cs[i][2])]
WriteReady ==
    /\ InLoop /\ handle = "open" /\ done' = <<>>
    /\ \/ /\ queue = <<>> /\ (done # <<>> \/ shutting = "req")
          /\ StepTo(Callbacks(done) \o <<Drain>> \o stack[fiber])
          /\ KernelIdle /\ UNCHANGED <<queue, wr>>
       \/ /\ queue # <<>> /\ peer = "error"
          /\ StepTo(Callbacks(Append(done, <<Head(queue), "error">>)) \o <<Drain>> \o stack[fiber])
          /\ queue' = Tail(queue) /\ KernelIdle /\ UNCHANGED wr
       \/ /\ queue # <<>> /\ peer # "error" /\ room > 0
          /\ LET w == Head(queue)
                 all == Taken(w) = wr[w].left
             IN /\ Sends(w) /\ wr' = [wr EXCEPT ![w].left = @ - Taken(w)]
                /\ queue' = IF all THEN Tail(queue) ELSE queue
                /\ StepTo(Callbacks(IF all THEN Append(done, <<w, "ok">>) ELSE done)
                          \o <<Drain>> \o stack[fiber])
    /\ UNCHANGED <<cancelled, flags, writes, flush, freed, made, orphaned, readVars, shutref,
                   reading, shutting, handle, inbox, sent, peer>>
UvDrain ==
    /\ Top.k = "drain"
    /\ IF queue = <<>> /\ shutting = "req" /\ handle = "open"
       THEN shutting' = "shut" /\ StepTo(<<ShutCb>> \o Rest)
       ELSE StepTo(Rest) /\ UNCHANGED shutting
    /\ UNCHANGED <<cancelled, flags, writeVars, readVars, shutref, queue, done, reading, handle, netVars>>

(* write_cb ends the operation: it resumes the task of the callback.        *)
FinishWrite ==
    /\ Top.k = "write_cb"
    /\ LET w == Top.x
           t == wr[w].task
           next == <<Next1(w)>> \o Rest
       IN /\ flags' = flags \cup {"WRITING"}
          /\ writes' = Unlink(writes, w)
          /\ wr' = [wr EXCEPT ![w].code = CHOOSE c \in Top.s : TRUE]
          /\ IF t = None THEN StepTo(next)
             ELSE IF Head(stack[t]) = Writing(w) /\ op[t] = "RUNNING"
             THEN Resume(t, next)
             ELSE StepTo(<<Wild>> \o Rest)
    /\ UNCHANGED <<cancelled, flush, freed, made, orphaned, readVars, shutref, uvVars, netVars>>
(* It frees the operation and starts the next one.                          *)
StartsNone == FALSE
Startable == writes # <<>> /\ ~wr[Head(writes)].started
AllStarted == \A w \in ToSet(writes) : wr'[w].started
NothingLeft == writes = <<>>
StartNext ==
    /\ Top.k = "next"
    /\ freed' = freed \cup {Top.x}
    /\ LET w == Head(writes)
       IN IF Startable
          THEN /\ UvWrite(w) /\ orphaned' = (orphaned \/ handle # "open")
          ELSE KernelIdle /\ UNCHANGED <<queue, done, wr, orphaned>>
    /\ flags' = IF NothingLeft THEN flags ELSE flags \ {"WRITING"}
    /\ StepTo(IF NothingLeft THEN <<Flushed>> \o Rest ELSE Rest)
    /\ UNCHANGED <<cancelled, writes, flush, made, readVars, shutref, reading, shutting,
                   handle, inbox, sent, peer>>
(* With nothing left it resumes those who flush and shuts down.             *)
NoDelay == FALSE
Delayed == "DELAY_SHUTDOWN" \in flags
EndFlush ==
    /\ Top.k = "flushed"
    /\ IF flush # <<>>
       THEN /\ flush' = Tail(flush) /\ Resume(Head(flush), stack[fiber])
            /\ UNCHANGED <<shutting, flags, shutref>>
       ELSE /\ UNCHANGED flush /\ StepTo(Rest)
            /\ IF Delayed
               THEN shutting' = (IF CanShut THEN "req" ELSE shutting)
                    /\ flags' = (flags \cup {"SHUTDOWN"}) \ {"WRITING"}
                    /\ shutref' = (IF CanShut THEN shutref ELSE shutref - 1)
               ELSE flags' = flags \ {"WRITING"} /\ UNCHANGED <<shutting, shutref>>
    /\ UNCHANGED <<cancelled, writes, wr, freed, made, orphaned, readVars, queue, done,
                   reading, handle, netVars>>

(* uv__read and read_cb: some units, the end or an error.  ECONNRESET comes *)
(* as the end of the stream.                                                *)
ReadData ==
    /\ \E n \in 1 .. Smaller(inbox, BufSize - buffer) :
           buffer' = buffer + n /\ inbox' = inbox - n
    /\ StepTo(<<ReadCb>> \o stack[fiber]) /\ UNCHANGED <<flags, reading>>
ReadEof ==
    /\ inbox = 0 /\ peer # "open"
    /\ flags' = flags \cup {"EOF"}
    /\ StepTo(<<ReadCb, Stopped>> \o stack[fiber]) /\ UNCHANGED <<buffer, inbox, reading>>
ReadError ==
    /\ inbox = 0 /\ peer = "error"
    /\ flags' = flags \ {"READING"} /\ reading' = FALSE
    /\ StepTo(<<EndReads, Stopped>> \o stack[fiber]) /\ UNCHANGED <<buffer, inbox>>
ReadReady ==
    /\ InLoop /\ handle = "open" /\ reading
    /\ ReadData \/ ReadEof \/ ReadError
    /\ UNCHANGED <<cancelled, writeVars, reads, read, deaf, shutref, queue, done, shutting, handle,
                   room, sent, peer, wire>>
FlagsKept(stop) == flags
FlagsRead(stop) == IF stop THEN flags \ {"READING"} ELSE flags
ServeReads ==
    /\ Top.k = "read_cb"
    /\ IF ReadRuns /\ buffer > 0
       THEN /\ buffer' = buffer - Smaller(read.len, buffer)
            /\ Resume(read.task, stack[fiber]) /\ UNCHANGED <<flags, reading>>
       ELSE /\ UNCHANGED buffer
            /\ LET stop == "EOF" \in flags \/ ~MayRead
               IN /\ reading' = (reading /\ ~stop)
                  /\ flags' = FlagsRead(stop)
            /\ StepTo(IF "EOF" \in flags THEN <<EndReads>> \o Rest ELSE Rest)
    /\ UNCHANGED <<cancelled, writeVars, reads, read, deaf, shutref, queue, done, shutting, handle, netVars>>
FinishReads ==
    /\ Top.k = "end_reads"
    /\ IF ReadRuns THEN Resume(read.task, stack[fiber]) ELSE StepTo(Rest)
    /\ UNCHANGED <<cancelled, flags, writeVars, readVars, shutref, uvVars, netVars>>
UvStops ==
    /\ Top.k = "stopped" /\ StepTo(Rest)
    /\ reading' = FALSE /\ deaf' = (deaf \/ "READING" \in flags)
    /\ UNCHANGED <<cancelled, flags, writeVars, reads, read, buffer, shutref, queue, done, shutting,
                   handle, netVars>>

(* timeout_read; the timer is closed with the stream.                       *)
TimeoutRead ==
    /\ InLoop /\ ReadRuns /\ read.timed /\ "CLOSED" \notin flags
    /\ Resume(read.task, stack[fiber])
    /\ UNCHANGED <<cancelled, flags, writeVars, readVars, shutref, uvVars, netVars>>

(* uv__finish_close: what is queued ends with ECANCELED.                    *)
Canceled(q) == [i \in 1 .. Len(q) |-> <<q[i], "cancelled">>]
HandleClosed ==
    /\ InLoop /\ handle = "closing"
    /\ handle' = "closed" /\ queue' = <<>> /\ done' = <<>>
    /\ shutting' = IF shutting = "req" THEN "shut" ELSE shutting
    /\ StepTo(Callbacks(done \o Canceled(queue))
              \o (IF shutting = "req" THEN <<ShutCb>> ELSE <<>>) \o stack[fiber])
    /\ UNCHANGED <<cancelled, flags, writeVars, readVars, shutref, reading, netVars>>

(* The peer.                                                                *)
PeerTakes ==
    /\ InLoop /\ room < Room /\ handle # "closed"
    /\ room' = Room
    /\ UNCHANGED <<taskVars, flags, writeVars, readVars, shutref, uvVars, inbox, sent, peer, wire>>
PeerSends ==
    /\ InLoop /\ sent < MaxIn /\ peer = "open"
    /\ sent' = sent + 1 /\ inbox' = inbox + 1
    /\ UNCHANGED <<taskVars, flags, writeVars, readVars, shutref, uvVars, room, peer, wire>>
PeerEnds ==
    /\ InLoop /\ peer = "open" /\ peer' \in Endings
    /\ UNCHANGED <<taskVars, flags, writeVars, readVars, shutref, uvVars, room, inbox, sent, wire>>
-------------------------------------------------------------------------------
PhpCode ==
    \/ "write" \in Ops /\ Write(FALSE)
    \/ "async" \in Ops /\ Write(TRUE)
    \/ "flush" \in Ops /\ Flush
    \/ "read" \in Ops /\ \E n \in 1 .. BufSize : Read(n)
    \/ "close" \in Ops /\ CallClose
    \/ "RD" \in Ops /\ Shutdown({"SHUT_RD"})
    \/ "WR" \in Ops /\ Shutdown({"SHUT_WR"})
    \/ "RDWR" \in Ops /\ Shutdown({"SHUT_RD", "SHUT_WR"})
    \/ Return
Engine ==
    \/ Written \/ FlushReturns \/ ReadReturns \/ ShutdownRest \/ ShutdownCb
    \/ CloseStream \/ UvClose \/ FinishWrite \/ StartNext \/ EndFlush \/ UvDrain
    \/ ServeReads \/ FinishReads \/ UvStops
EventLoop ==
    \/ \E t \in Tasks : Run(t)
    \/ WriteReady \/ ReadReady \/ TimeoutRead \/ HandleClosed
Environment == PeerSends \/ PeerEnds \/ \E t \in Tasks : Cancel(t)
Program == (PhpCode \/ Engine \/ EventLoop) /\ UNCHANGED scene
Peer == PeerTakes /\ UNCHANGED scene
Next == Program \/ Peer \/ (Environment /\ UNCHANGED scene)
Spec == Init /\ [][Next]_vars
(* The process runs, and the peer takes what it is sent.                    *)
FairSpec == Spec /\ WF_vars(Program) /\ WF_vars(Peer)
-------------------------------------------------------------------------------
(* Properties.                                                              *)
Codes == {"ok", "error", "cancelled"}
Frames == [k : {"loop", "code", "over", "write", "flush", "read", "write_cb", "next", "flushed",
                "drain", "read_cb", "end_reads", "stopped", "close", "uv_close", "shut_cb", "shut",
                "wild"},
           x : 0 .. MaxWrites, s : SUBSET (Codes \cup {"SHUT_RD", "SHUT_WR"})]
Ids == Tasks \cup {None}

(* Every variable keeps its type; the reference that a shutdown holds on    *)
(* the stream object is taken once and given back once.                     *)
TypeOK ==
    /\ scene \in Scenes
    /\ fiber \in Tasks \cup {Runner} /\ fibers \in Seq(Tasks \cup {Runner})
    /\ stack \in [Tasks \cup {Runner} -> Seq(Frames)]
    /\ op \in [Tasks -> {"PENDING", "RUNNING", "RESOLVED", "FAILED"}]
    /\ cancelled \subseteq Tasks
    /\ flags \subseteq {"EOF", "CLOSED", "SHUT_RD", "SHUT_WR", "READING", "SHUTDOWN",
                        "DELAY_SHUTDOWN", "WRITING"}
    /\ writes \in Seq(Writes) /\ flush \in Seq(Tasks) /\ made \in 0 .. MaxWrites
    /\ wr \in [Writes -> [task : Ids, left : 0 .. Size, started : BOOLEAN, code : Codes,
                          acked : BOOLEAN]]
    /\ freed \subseteq Writes /\ shutref \in {0, 1}
    /\ reads \in 0 .. scene.reads /\ read \in [task : Ids, len : 0 .. BufSize, timed : BOOLEAN] /\ buffer \in 0 .. BufSize
    /\ queue \in Seq(Writes) /\ done \in Seq(Writes \X Codes) /\ reading \in BOOLEAN
    /\ shutting \in {"no", "req", "shut"} /\ handle \in {"open", "closing", "closed"}
    /\ room \in 0 .. Room /\ inbox \in 0 .. MaxIn /\ sent \in 0 .. MaxIn
    /\ peer \in {"open", "eof", "error"} /\ wire \in Seq(Writes)
    /\ orphaned \in BOOLEAN /\ deaf \in BOOLEAN

(* The units of the writes leave in the order of the calls and without a    *)
(* hole: nothing of a later write leaves before the whole of a write that   *)
(* is queued or has begun to leave, cancelled or not.                       *)
OnWire(w) == Cardinality({i \in 1 .. Len(wire) : wire[i] = w})
InOrder ==
    \A v, w \in Writes : v < w /\ OnWire(w) > 0 =>
        /\ OnWire(v) \in {0, Size} /\ v \notin ToSet(writes)
        /\ \A i, j \in 1 .. Len(wire) : wire[i] = v /\ wire[j] = w => i < j

(* A write that returns without an error has left as a whole.               *)
Acknowledged == \A w \in Writes : wr[w].acked => OnWire(w) = Size

(* flush returns after every write that was made before it has ended.       *)
FlushWaits ==
    Top.k = "flush" /\ op[fiber] = "RESOLVED" =>
        orphaned \/ \A w \in ToSet(writes) : w > Top.x

(* The memory of a write operation is not freed while libuv, the list or    *)
(* the frame of the task that writes refers to it, and libuv holds none     *)
(* that has left the list.                                                  *)
Referred(w) ==
    \/ w \in ToSet(writes) \/ w \in ToSet(queue) \/ \E c \in Codes : <<w, c>> \in ToSet(done)
    \/ \E f \in Tasks \cup {Runner}, c \in Codes : WriteCb(w, c) \in ToSet(stack[f])
    \/ \E t \in Tasks : Writing(w) \in ToSet(stack[t])
NoDangling == ToSet(queue) \subseteq ToSet(writes) /\ \A w \in freed : ~Referred(w)

(* Who waits for input is served: when the loop goes on, libuv watches the  *)
(* handle.  (Not so after a read in answer to an error: deaf.)              *)
ReadWatched == InLoop /\ ReadRuns => deaf \/ (reading /\ handle = "open")

(* What callers are told is true and no write outlives its memory: a write  *)
(* that returned without an error has left, a flush that returned has seen  *)
(* the end of the writes before it.  Who reads is served: ReadWatched.      *)
Sound == TypeOK /\ Acknowledged /\ FlushWaits /\ NoDangling /\ ReadWatched

Astray == Top = Wild
(* Every write ends, also one that was cancelled, when its peer reads: it   *)
(* is written, fails or is cancelled.  (Not behind an orphan.)              *)
WritesEnd == \A w \in Writes : w \in ToSet(writes) ~> (w \notin ToSet(writes) \/ orphaned \/ Astray)

(* A stream whose two halves are shut down is closed in the end, after the  *)
(* writes before the shutdown.                                              *)
ShutCloses ==
    {"SHUT_RD", "SHUT_WR"} \subseteq flags ~> (handle = "closed" \/ orphaned \/ Astray)

(* Writes end, and so does a stream that is shut down.                      *)
StreamEnds == WritesEnd /\ ShutCloses
===============================================================================
