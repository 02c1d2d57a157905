--------------------------------- MODULE Sockets ---------------------------------
(***************************************************************************)
(* TCP and pipe servers and the connect of their clients (src/src/tcp.c,    *)
(* src/src/pipe.c) on top of the fiber layer, with what libuv does for them *)
(* (thirdparty/libuv/src/unix/stream.c, tcp.c, pipe.c).  Tasks accept,      *)
(* connect, close and drop one server.  Connections are numbers, in the     *)
(* order in which the kernel establishes them.                              *)
(***************************************************************************)
EXTENDS Fibers, Integers, FiniteSets

CONSTANTS Tasks,
          Cancellable,  \* tasks whose context may be cancelled
          Background,   \* tasks that run in a background context
          MaxConnects,  \* bound: calls of connect
          MaxConns,     \* bound: connections that are established
          MaxErrors,    \* bound: errors of accept(2)
          Backlog,      \* connections the kernel holds
          Scenes,       \* kind of server and client, bound or listening, and
                        \* bounds: calls of accept and of connect, connections
                        \* of other processes
          None

Connects == 1 .. MaxConnects
Conns == 1 .. MaxConns
ASSUME SocketNames == Runner \notin Tasks /\ None \notin Tasks /\ None \notin Int
ASSUME SocketSets ==
    /\ Cancellable \subseteq Tasks /\ Background \subseteq Tasks
    /\ {MaxConnects, MaxConns, MaxErrors} \subseteq Nat /\ Backlog \in Nat \ {0}
    /\ Scenes \subseteq [kind : {"tcp", "pipe"}, lazy : BOOLEAN, accepts : Nat,
                   connects : 0 .. MaxConnects, others : 0 .. MaxConns]

VARIABLES scene,      \* a member of Scenes
          stack,      \* per fiber: its C frames, top first
          op,         \* status of the operation each task is blocked in
          cancelled,  \* tasks whose context has been cancelled
          disposed,   \* the scheduler shuts down
          variable,   \* PHP code holds the server object
          rc,         \* references to the server object
          freed,      \* the server object is freed
          shut,       \* server->cancel.func is NULL
          error,      \* server->error is set
          lazy,       \* ASYNC_TCP_SERVER_FLAG_LAZY
          refs,       \* server->ref_count
          pending,    \* server->pending
          accepts,    \* server->accepts: tasks
          code,       \* per task: code of its operation
          handle,     \* the handle of the server: open, closing or closed
          watched,    \* its descriptor is polled for input
          accepted,   \* server->handle.accepted_fd: a connection
          sockets,    \* the sockets accept returned that are not yet destroyed
          client,     \* the sockets of the calls of connect
          connects,   \* number of calls of connect so far
          accepting,  \* number of calls of accept so far
          listening,  \* the kernel takes connections
          backlog,    \* connections the kernel holds
          arrived,    \* number of connections so far
          errors,     \* number of errors of accept(2) so far
          given       \* history: the connections accept returned, in order

taskVars == <<fiber, fibers, stack, op, cancelled, code>>
objectVars == <<variable, rc, freed, shut, error>>
serverVars == <<lazy, refs, pending, accepts>>
uvVars == <<handle, watched, accepted>>
clientVars == <<client, connects>>
kernelVars == <<listening, backlog, arrived, errors>>
vars == <<scene, taskVars, disposed, objectVars, serverVars, uvVars, sockets, clientVars,
          accepting, kernelVars, given>>
-------------------------------------------------------------------------------
Frame(k, x) == [k |-> k, x |-> x]
Loop == Frame("loop", 0)             \* the event loop
Code == Frame("code", 0)             \* PHP code
Over == Frame("over", 0)             \* the task has ended
Accepting == Frame("accept", 0)      \* blocked in accept
Connecting(n) == Frame("connect", n) \* blocked in connect
ServerIo == Frame("server_io", 0)    \* the loop of uv__server_io
Offered == Frame("offered", 0)       \* uv__server_io after connection_cb
FailAccepts(n) == Frame("fail_all", n) \* the loop of shutdown_server, under a
                                     \* call that holds n references
DisposeAll == Frame("dispose", 0)    \* the loop over scheduler->shutdown
Wild == Frame("wild", 0)             \* freed memory or a closed handle is used:
                                     \* nothing more is modelled
Top == Head(stack[fiber])
Rest == Tail(stack[fiber])
Goto(s) == stack' = [stack EXCEPT ![fiber] = s]
Push(f) == Goto(<<f>> \o stack[fiber])
Stay == UNCHANGED <<fiber, fibers, op>>

NoClient == [task |-> None, net |-> "none", req |-> FALSE, handle |-> "closed", freed |-> FALSE]
Init ==
    /\ scene \in Scenes
    /\ fiber = Runner /\ fibers = <<>>
    /\ stack = [f \in Tasks \cup {Runner} |-> IF f = Runner THEN <<Loop>> ELSE <<>>]
    /\ op = [t \in Tasks |-> "PENDING"] /\ cancelled = {} /\ code = [t \in Tasks |-> "ok"]
    /\ disposed = FALSE /\ variable = TRUE /\ rc = 1
    /\ freed = FALSE /\ shut = FALSE /\ error = FALSE
    /\ lazy = scene.lazy /\ refs = 0 /\ pending = 0 /\ accepts = <<>>
    /\ handle = "open" /\ watched = ~lazy /\ accepted = None
    /\ sockets = {} /\ client = [n \in Connects |-> NoClient] /\ connects = 0 /\ accepting = 0
    /\ listening = ~lazy /\ backlog = <<>> /\ arrived = 0 /\ errors = 0 /\ given = <<>>
-------------------------------------------------------------------------------
(* async_await_op: it fails at once in a cancelled context.                 *)
Await(f) ==
    /\ Push(f)
    /\ IF fiber \in cancelled THEN op' = [op EXCEPT ![fiber] = "FAILED"] /\ UNCHANGED <<fiber, fibers>>
                              ELSE op' = [op EXCEPT ![fiber] = "RUNNING"] /\ Suspend
Resume(t, result, r) ==
    /\ op' = [op EXCEPT ![t] = result] /\ Switch(t) /\ Goto(r)

InCode == fiber \in Tasks /\ Top = Code
InLoop == fiber = Runner /\ Top = Loop

(* ASYNC_UNREF_ENTER and ASYNC_UNREF_EXIT.                                  *)
Holds(t) == IF t \in Background THEN 0 ELSE 1

(* uv__stream_close for the server: what it has accepted and what the       *)
(* kernel holds is closed.                                                  *)
CloseServer ==
    /\ handle' = "closing" /\ watched' = FALSE /\ accepted' = None
    /\ listening' = FALSE /\ backlog' = <<>> /\ UNCHANGED <<arrived, errors>>

(* n references are given back.  The destructor runs once, before the       *)
(* object is freed: shutdown_server closes the handle, whose callback holds *)
(* a reference (ASYNC_UV_TRY_CLOSE_REF).  Nobody is left to see pending.    *)
Unref(n) ==
    IF rc > n
    THEN rc' = rc - n /\ UNCHANGED <<freed, shut, uvVars, kernelVars>>
    ELSE IF shut
    THEN rc' = 0 /\ freed' = TRUE /\ UNCHANGED <<shut, uvVars, kernelVars>>
    ELSE shut' = TRUE /\ CloseServer /\ rc' = 1 /\ UNCHANGED freed

(* uv_accept; the io watcher goes on.                                       *)
AcceptFdStopped == accepted' = None /\ UNCHANGED watched
AcceptFd == accepted' = None /\ watched' = TRUE
(* The end of accept: a new socket takes the connection and keeps the       *)
(* server; there may be none.  leave: references that end with the call.    *)
TakeConnUncounted(leave) ==
    IF accepted = None
    THEN Unref(leave) /\ UNCHANGED <<sockets, given>>
    ELSE /\ AcceptFd /\ sockets' = sockets \cup {accepted} /\ given' = Append(given, accepted)
         /\ rc' = rc - leave /\ UNCHANGED <<freed, shut, handle, kernelVars>>
TakeConn(leave) ==
    IF accepted = None
    THEN Unref(leave) /\ UNCHANGED <<sockets, given>>
    ELSE /\ AcceptFd /\ sockets' = sockets \cup {accepted} /\ given' = Append(given, accepted)
         /\ rc' = rc + 1 - leave /\ UNCHANGED <<freed, shut, handle, kernelVars>>

(* TcpServer::accept and PipeServer::accept.  On the first call of a server *)
(* that is only bound uv_listen comes first.                                *)
MayAccept == InCode /\ variable /\ accepting < scene.accepts
Listen ==
    /\ MayAccept /\ lazy /\ handle = "open"
    /\ lazy' = FALSE /\ listening' = TRUE /\ watched' = TRUE
    /\ UNCHANGED <<taskVars, disposed, objectVars, refs, pending, accepts, handle, accepted, sockets,
                   clientVars, accepting, backlog, arrived, errors, given>>
TcpListen == scene.kind = "tcp" /\ Listen
PipeListen == scene.kind = "pipe" /\ Listen
(* On a closed handle uv_tcp_listen opens a new socket and polls it;        *)
(* uv_pipe_listen fails.                                                    *)
ListenOnClosed ==
    /\ MayAccept /\ lazy /\ handle # "open" /\ accepting' = accepting + 1
    /\ Goto(IF scene.kind = "tcp" THEN <<Wild>> ELSE stack[fiber]) /\ Stay
    /\ UNCHANGED <<cancelled, code, disposed, objectVars, serverVars, uvVars, sockets, clientVars,
                   kernelVars, given>>
AcceptWaits ==
    /\ MayAccept /\ ~lazy /\ pending = 0 /\ ~error
    /\ accepting' = accepting + 1
    /\ accepts' = Append(accepts, fiber) /\ refs' = refs + Holds(fiber) /\ rc' = rc + 1
    /\ Await(Accepting)
    /\ UNCHANGED <<cancelled, code, disposed, variable, freed, shut, error, lazy, pending, uvVars,
                   sockets, clientVars, kernelVars, given>>
AcceptPending ==
    /\ MayAccept /\ ~lazy /\ pending > 0
    /\ accepting' = accepting + 1
    /\ pending' = pending - 1 /\ TakeConn(0)
    /\ UNCHANGED <<taskVars, disposed, variable, error, lazy, refs, accepts, clientVars>>
AcceptReturns ==
    /\ Top.k = "accept"
    /\ accepts' = Unlink(accepts, fiber) /\ refs' = refs - Holds(fiber)
    /\ IF op[fiber] = "RESOLVED" /\ code[fiber] = "ok" THEN TakeConn(1)
                                                      ELSE Unref(1) /\ UNCHANGED <<sockets, given>>
    /\ op' = [op EXCEPT ![fiber] = "PENDING"] /\ Goto(Rest)
    /\ UNCHANGED <<fiber, fibers, cancelled, code, disposed, variable, error, lazy, pending,
                   clientVars, accepting>>

(* TcpServer::close and PipeServer::close, and shutdown_server: those who   *)
(* wait in accept are resumed first, then the handle is closed.  A pipe     *)
(* server first takes what is pending and closes it.                        *)
TcpShutdown == scene.kind = "tcp" /\ UNCHANGED <<pending, accepted, watched>>
PipeShutdown ==
    /\ scene.kind = "pipe" /\ pending' = 0
    /\ IF pending > 0 /\ accepted # None THEN AcceptFd ELSE UNCHANGED <<accepted, watched>>
Shutdown(n, s) ==
    /\ shut' = TRUE /\ error' = TRUE /\ (TcpShutdown \/ PipeShutdown)
    /\ rc' = rc + n /\ Goto(<<FailAccepts(n)>> \o s) /\ Stay
CallClose ==
    /\ InCode /\ variable /\ ~shut /\ Shutdown(1, stack[fiber])
    /\ UNCHANGED <<cancelled, code, disposed, variable, freed, lazy, refs, accepts, handle, sockets,
                   clientVars, accepting, kernelVars, given>>
FailNext ==
    /\ Top.k = "fail_all" /\ ~freed /\ accepts # <<>>
    /\ accepts' = Tail(accepts) /\ Resume(Head(accepts), "FAILED", stack[fiber])
    /\ UNCHANGED <<cancelled, code, disposed, objectVars, lazy, refs, pending, uvVars, sockets,
                   clientVars, accepting, kernelVars, given>>
FailedAll ==
    /\ Top.k = "fail_all" /\ ~freed /\ accepts = <<>>
    /\ CloseServer /\ rc' = rc + 1 - Top.x
    /\ Goto(Rest) /\ Stay
    /\ UNCHANGED <<cancelled, code, disposed, variable, freed, shut, error, serverVars, sockets,
                   clientVars, accepting, given>>
(* Nobody holds the server while the scheduler shuts it down: a task that   *)
(* has been resumed may free it.                                            *)
FreedMeanwhile ==
    /\ Top.k = "fail_all" /\ freed /\ Goto(<<Wild>>) /\ Stay
    /\ UNCHANGED <<cancelled, code, disposed, objectVars, serverVars, uvVars, sockets, clientVars,
                   accepting, kernelVars, given>>

(* PHP code lets go of the server, or of a socket it got: the destructor    *)
(* closes its handle, whose callback frees it.                              *)
DropServer ==
    /\ InCode /\ variable
    /\ variable' = FALSE /\ Unref(1)
    /\ UNCHANGED <<taskVars, disposed, error, serverVars, sockets, clientVars, accepting, given>>
SocketDestroyed(c) ==
    /\ InLoop /\ c \in sockets
    /\ sockets' = sockets \ {c} /\ Unref(1)
    /\ UNCHANGED <<taskVars, disposed, variable, error, serverVars, clientVars, accepting, given>>
-------------------------------------------------------------------------------
(* TcpSocket::connect: the kernel goes on with it, or refuses it at once    *)
(* (libuv reports that later: delayed_error).                               *)
NextConnect == connects + 1
MayConnect == InCode /\ connects < scene.connects
Connect(net) ==
    /\ connects' = NextConnect
    /\ client' = [client EXCEPT ![NextConnect] = [task |-> fiber, net |-> net, req |-> TRUE,
                                                  handle |-> "open", freed |-> FALSE]]
    /\ Await(Connecting(NextConnect))
    /\ UNCHANGED <<cancelled, code, disposed, objectVars, serverVars, uvVars, sockets, accepting, given>>
TcpConnect ==
    /\ MayConnect /\ scene.kind = "tcp" /\ ~disposed
    /\ \E net \in {"syn"} \cup (IF listening THEN {} ELSE {"refused"}) : Connect(net)
    /\ UNCHANGED kernelVars
(* Pipe::connect: it is established at once, or refused.                    *)
Arrives == arrived' = arrived + 1 /\ backlog' = Append(backlog, arrived') /\ UNCHANGED <<listening, errors>>
HasRoom == listening /\ Len(backlog) < Backlog
PipeConnect ==
    /\ MayConnect /\ scene.kind = "pipe"
    /\ IF HasRoom THEN arrived < MaxConns /\ Connect("up") /\ Arrives
                  ELSE Connect("refused") /\ UNCHANGED kernelVars
(* connect goes on.  When its wait has failed it drops the socket, whose    *)
(* destructor closes the handle, and frees the operation; the request, on   *)
(* its C stack, is still with libuv.                                        *)
ConnectReturns ==
    /\ Top.k = "connect"
    /\ client' = [client EXCEPT ![Top.x].handle =
                     IF @ = "open" /\ (op[fiber] = "FAILED" \/ code[fiber] # "ok") THEN "closing" ELSE @,
                  ![Top.x].freed = TRUE]
    /\ op' = [op EXCEPT ![fiber] = "PENDING"] /\ Goto(Rest)
    /\ UNCHANGED <<fiber, fibers, cancelled, code, disposed, objectVars, serverVars, uvVars, sockets,
                   connects, accepting, kernelVars, given>>

Return ==
    /\ InCode /\ Goto(<<Over>>) /\ Suspend
    /\ UNCHANGED <<op, cancelled, code, disposed, objectVars, serverVars, uvVars, sockets, clientVars,
                   accepting, kernelVars, given>>
-------------------------------------------------------------------------------
(* The event loop.                                                          *)
Run(t) ==
    /\ InLoop /\ stack[t] = <<>>
    /\ stack' = [stack EXCEPT ![t] = <<Code>>] /\ Switch(t)
    /\ UNCHANGED <<op, cancelled, code, disposed, objectVars, serverVars, uvVars, sockets, clientVars,
                   accepting, kernelVars, given>>

(* cancel_op, for an operation that is running.                             *)
Cancel(t) ==
    /\ InLoop \/ InCode
    /\ t \in Cancellable \ cancelled
    /\ cancelled' = cancelled \cup {t}
    /\ IF op[t] = "RUNNING" THEN op' = [op EXCEPT ![t] = "FAILED"] /\ Switch(t) ELSE Stay
    /\ UNCHANGED <<stack, code, disposed, objectVars, serverVars, uvVars, sockets, clientVars, accepting,
                   kernelVars, given>>

(* uv__server_io                                                            *)
ServerReady ==
    /\ InLoop /\ watched /\ backlog # <<>>
    /\ Push(ServerIo) /\ Stay
    /\ UNCHANGED <<cancelled, code, disposed, objectVars, serverVars, uvVars, sockets, clientVars,
                   accepting, kernelVars, given>>
(* server_connected and listen_cb: the first who waits gets it, or it is    *)
(* counted.  s: the frames uv__server_io goes on with.                      *)
Connected(c, s) ==
    IF accepts = <<>>
    THEN pending' = pending + 1 /\ Goto(s) /\ Stay /\ UNCHANGED <<accepts, code>>
    ELSE /\ accepts' = Tail(accepts) /\ code' = [code EXCEPT ![Head(accepts)] = c]
         /\ Resume(Head(accepts), "RESOLVED", s) /\ UNCHANGED pending
TcpConnected(c, s) == scene.kind = "tcp" /\ Connected(c, s)
PipeConnected(c, s) == scene.kind = "pipe" /\ Connected(c, s)
ConnectionCb(c, s) == TcpConnected(c, s) \/ PipeConnected(c, s)
(* One pass of the loop: a connection, none (EAGAIN), one that was aborted, *)
(* an error.                                                                *)
Accepts ==
    /\ Top.k = "server_io" /\ handle = "open" /\ backlog # <<>>
    /\ accepted' = Head(backlog) /\ backlog' = Tail(backlog)
    /\ ConnectionCb("ok", <<Offered>> \o stack[fiber])
    /\ UNCHANGED <<cancelled, disposed, objectVars, lazy, refs, handle, watched, sockets, clientVars,
                   accepting, listening, arrived, errors, given>>
AcceptError ==
    /\ Top.k = "server_io" /\ handle = "open" /\ errors < MaxErrors
    /\ errors' = errors + 1 /\ ConnectionCb("error", stack[fiber])
    /\ UNCHANGED <<cancelled, disposed, objectVars, lazy, refs, uvVars, sockets, clientVars, accepting,
                   listening, backlog, arrived, given>>
Aborted ==
    /\ Top.k = "server_io" /\ handle = "open" /\ backlog # <<>>
    /\ backlog' = Tail(backlog)
    /\ UNCHANGED <<taskVars, disposed, objectVars, serverVars, uvVars, sockets, clientVars, accepting,
                   listening, arrived, errors, given>>
(* uv__emfile_trick: all that wait are accepted and closed.                 *)
EmfileTrick ==
    /\ Top.k = "server_io" /\ handle = "open" /\ errors < MaxErrors
    /\ errors' = errors + 1 /\ backlog' = <<>> /\ Goto(Rest) /\ Stay
    /\ UNCHANGED <<cancelled, code, disposed, objectVars, serverVars, uvVars, sockets, clientVars,
                   accepting, listening, arrived, given>>
NoMore ==
    /\ Top.k = "server_io" /\ (handle # "open" \/ backlog = <<>>) /\ Goto(Rest) /\ Stay
    /\ UNCHANGED <<cancelled, code, disposed, objectVars, serverVars, uvVars, sockets, clientVars,
                   accepting, kernelVars, given>>
(* After the callback: a connection that nobody took stops the watcher.     *)
NeverUntaken == FALSE
Untaken == accepted # None
AfterCb ==
    /\ Top.k = "offered"
    /\ IF Untaken THEN watched' = FALSE /\ Goto(Tail(Rest)) ELSE Goto(Rest) /\ UNCHANGED watched
    /\ Stay
    /\ UNCHANGED <<cancelled, code, disposed, objectVars, serverVars, handle, accepted, sockets,
                   clientVars, accepting, kernelVars, given>>

(* server_disposed                                                          *)
ServerClosed ==
    /\ InLoop /\ handle = "closing"
    /\ handle' = "closed" /\ rc' = rc - 1 /\ freed' = (rc' = 0)
    /\ UNCHANGED <<taskVars, disposed, variable, shut, error, serverVars, watched, accepted, sockets,
                   clientVars, accepting, kernelVars, given>>

(* uv__stream_connect and connect_cb: the task of the request goes on.      *)
ConnectCb(n, c) ==
    /\ code' = [code EXCEPT ![client[n].task] = c]
    /\ Resume(client[n].task, "RESOLVED", stack[fiber])
ClientReady(n) ==
    /\ InLoop /\ client[n].req /\ client[n].handle = "open" /\ client[n].net \in {"up", "refused"}
    /\ client' = [client EXCEPT ![n].req = FALSE]
    /\ ConnectCb(n, IF client[n].net = "up" THEN "ok" ELSE "error")
    /\ UNCHANGED <<cancelled, disposed, objectVars, serverVars, uvVars, sockets, connects, accepting,
                   kernelVars, given>>
(* uv__stream_destroy: a request that is left ends with ECANCELED.          *)
ClientClosed(n) ==
    /\ InLoop /\ client[n].handle = "closing"
    /\ client' = [client EXCEPT ![n].handle = "closed", ![n].req = FALSE]
    /\ IF ~client[n].req THEN Stay /\ UNCHANGED <<code, stack>>
       ELSE IF client[n].freed THEN Goto(<<Wild>>) /\ Stay /\ UNCHANGED code
       ELSE ConnectCb(n, "cancelled")
    /\ UNCHANGED <<cancelled, disposed, objectVars, serverVars, uvVars, sockets, connects, accepting,
                   kernelVars, given>>

(* async_task_scheduler_dispose: the callbacks in scheduler->shutdown close *)
(* the server and the sockets that connect.                                 *)
Dispose ==
    /\ InLoop /\ ~disposed
    /\ disposed' = TRUE /\ Push(DisposeAll) /\ Stay
    /\ UNCHANGED <<cancelled, code, objectVars, serverVars, uvVars, sockets, clientVars, accepting,
                   kernelVars, given>>
OpenClients == {n \in Connects : client[n].handle = "open"}
DisposeServer ==
    /\ Top.k = "dispose" /\ ~shut /\ Shutdown(0, stack[fiber])
    /\ UNCHANGED <<cancelled, code, disposed, variable, freed, lazy, refs, accepts, handle, sockets,
                   clientVars, accepting, kernelVars, given>>
DisposeClients ==
    /\ Top.k = "dispose" /\ shut
    /\ client' = [n \in Connects |-> IF n \in OpenClients THEN [client[n] EXCEPT !.handle = "closing"]
                                                          ELSE client[n]]
    /\ Goto(Rest) /\ Stay
    /\ UNCHANGED <<cancelled, code, disposed, objectVars, serverVars, uvVars, sockets, connects,
                   accepting, kernelVars, given>>

(* The kernel and other processes.                                          *)
Unchanged == UNCHANGED <<taskVars, disposed, objectVars, serverVars, uvVars, sockets, connects,
                         accepting, given>>
Establish(n) ==
    /\ InLoop /\ client[n].net = "syn" /\ client[n].handle = "open" /\ HasRoom /\ arrived < MaxConns
    /\ client' = [client EXCEPT ![n].net = "up"] /\ Arrives /\ Unchanged
Refuse(n) ==
    /\ InLoop /\ client[n].net = "syn" /\ client[n].handle = "open"
    /\ ~listening \/ arrived = MaxConns
    /\ client' = [client EXCEPT ![n].net = "refused"] /\ UNCHANGED kernelVars /\ Unchanged
Arrive ==
    /\ InLoop /\ HasRoom /\ arrived < scene.others
    /\ Arrives /\ UNCHANGED client /\ Unchanged
-------------------------------------------------------------------------------
PhpCode ==
    \/ TcpListen \/ PipeListen \/ ListenOnClosed \/ AcceptWaits \/ AcceptPending \/ CallClose
    \/ DropServer \/ TcpConnect \/ PipeConnect \/ Return
Engine ==
    \/ AcceptReturns \/ FailNext \/ FailedAll \/ FreedMeanwhile \/ ConnectReturns
    \/ Accepts \/ AcceptError \/ Aborted \/ EmfileTrick \/ NoMore \/ AfterCb
    \/ DisposeServer \/ DisposeClients
EventLoop ==
    \/ ServerReady \/ ServerClosed \/ \E t \in Tasks : Run(t)
    \/ \E n \in Connects : ClientReady(n) \/ ClientClosed(n)
Kernel == \E n \in Connects : Establish(n) \/ Refuse(n)
Environment ==
    \/ Arrive \/ Dispose \/ \E t \in Tasks : Cancel(t) \/ \E c \in Conns : SocketDestroyed(c)
Next == (PhpCode \/ Engine \/ EventLoop \/ Kernel \/ Environment) /\ UNCHANGED scene
Spec == Init /\ [][Next]_vars
(* The program goes on.  Every iteration of the loop serves each descriptor *)
(* that is ready and each handle that closes, whatever other callbacks run  *)
(* in between; the kernel gives every connect an answer.                    *)
FairSpec ==
    /\ Spec
    /\ WF_vars((PhpCode \/ Engine) /\ UNCHANGED scene)
    /\ SF_vars(ServerReady /\ UNCHANGED scene)
    /\ \A n \in Connects : /\ SF_vars((Establish(n) \/ Refuse(n)) /\ UNCHANGED scene)
                           /\ SF_vars((ClientReady(n) \/ ClientClosed(n)) /\ UNCHANGED scene)
-------------------------------------------------------------------------------
(* Properties.                                                              *)
Frames == [k : {"loop", "code", "over", "accept", "connect", "server_io", "offered", "fail_all",
                "dispose", "wild"}, x : 0 .. MaxConnects + 1]
Astray == Top = Wild
Blocked(t, k) == \E f \in ToSet(stack[t]) : f.k = k
Calls(k) == {t \in Tasks : Blocked(t, k)}
Closers == {t \in Tasks : FailAccepts(1) \in ToSet(stack[t])}
One(b) == IF b THEN 1 ELSE 0

(* Every variable keeps its type.                                           *)
TypeOK ==
    /\ fiber \in Tasks \cup {Runner} /\ fibers \in Seq(Tasks \cup {Runner})
    /\ stack \in [Tasks \cup {Runner} -> Seq(Frames)]
    /\ op \in [Tasks -> {"PENDING", "RUNNING", "RESOLVED", "FAILED"}]
    /\ code \in [Tasks -> {"ok", "error", "cancelled"}] /\ cancelled \subseteq Tasks
    /\ {disposed, variable, freed, shut, error, lazy, watched, listening} \subseteq BOOLEAN
    /\ handle \in {"open", "closing", "closed"} /\ accepted \in Conns \cup {None}
    /\ {rc, refs, pending} \subseteq Nat /\ accepts \in Seq(Tasks)
    /\ sockets \subseteq Conns /\ backlog \in Seq(Conns) /\ given \in Seq(Conns)
    /\ client \in [Connects -> [task : Tasks \cup {None}, net : {"none", "syn", "up", "refused"},
                                req : BOOLEAN, freed : BOOLEAN,
                                handle : {"open", "closing", "closed"}]]
    /\ connects \in 0 .. MaxConnects /\ accepting \in 0 .. scene.accepts
    /\ arrived \in 0 .. MaxConns /\ errors \in 0 .. MaxErrors

(* The server lives as long as anybody refers to it: the variable, calls,   *)
(* the sockets it accepted, the close callback.  Its handle is closed when  *)
(* it is freed.  (Not when the scheduler's shutdown frees it: Wild.)  It    *)
(* keeps the loop alive exactly for the foreground tasks that accept.       *)
RefsCounted ==
    Astray \/ /\ rc = One(variable) + Cardinality(Calls("accept")) + Cardinality(Closers)
                     + Cardinality(sockets) + One(handle = "closing")
              /\ freed <=> rc = 0
              /\ freed => handle = "closed" \/ FailAccepts(0) \in ToSet(stack[Runner])
              /\ refs = Cardinality(Calls("accept") \ Background)

(* Connections are handed out in the order of their arrival, each once.     *)
InOrder == \A i, j \in 1 .. Len(given) : i < j => given[i] < given[j]

(* When the event loop goes on, nobody waits in accept beside a connection  *)
(* that has been accepted, such a connection is counted, and without one an *)
(* open server listens.  uv__server_io never overwrites a connection (its   *)
(* assertion accepted_fd == -1).                                            *)
AcceptServed ==
    /\ Top = ServerIo /\ handle = "open" => accepted = None
    /\ InLoop => /\ accepts # <<>> => accepted = None /\ pending = 0 /\ handle = "open"
                 /\ accepted # None => pending > 0
                 /\ handle = "open" /\ ~lazy /\ accepted = None => watched

Sound == TypeOK /\ RefsCounted /\ InOrder

(* Every connect ends, and whoever waits in accept gets a connection when   *)
(* there is one, unless accept(2) fails.                                    *)
CallsEnd ==
    /\ \A n \in Connects : client[n].req ~> ~client[n].req \/ Astray
    /\ accepts # <<>> /\ backlog # <<>> ~> accepts = <<>> \/ backlog = <<>> \/ Astray
===============================================================================
