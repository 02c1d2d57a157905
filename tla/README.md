# ext-async in TLA+

A verification development for **ext-async**, a PHP extension (C, on libuv) that
runs tasks as cooperatively scheduled fibers. This directory holds the TLA+
models of its core, the TLC configurations that check them, and the proofs that
TLAPS checks. Line numbers below refer to the sources this was written from;
`PROJECT.json` maps every definition to the lines it models.

The extension ships no tests and no prose documentation, so the references are
the code, its comments, its assertions and its error messages.

## 1. The system

Own code is `php_async.{c,h}`, `include/async/` and `src/` (about 29 000 lines);
`thirdparty/` vendors libuv and the assembly of boost.context.

| Component | Code | State it keeps | Operations | Hard parts |
|---|---|---|---|---|
| Fibers | `src/fiber/*.c`, `ASYNC_G(fiber)` | running fiber, run stack of suspended ones | switch, suspend | a switch happens *inside* C loops; the order in which callers go on |
| Task scheduler | `src/task.c` | tasks, ready list, idle watcher, caller, `busy_count`, flags, lists of pending operations | async, await (inline or blocking), `async_await_op`, dispatch, exit, error, run loop, dispose | re-entrancy, inlining, cancellation at any time, shutdown while PHP code goes on creating work |
| Contexts | `src/context.c` | context tree, cancellation tokens with callbacks, timeouts | with, cancel, timeout, shield, background | order of cancel against wait; chained tokens |
| Deferreds | `src/deferred.c` | status, result, waiting operations | resolve, fail, combine, transform | settled while waiters run; inputs that are settled already |
| Condition | `src/sync.c` | waiting operations, `broadcast` counter | wait, signal, broadcast, close | signal from inside a broadcast |
| Channels | `src/channel.c` | ring buffer, senders, receivers, closed flag | send, receive (iterator), close; group select and send | hand-over between fibers, close in the middle, withdrawal of the losing offers |
| Watchers | `src/watcher/{timer,signal,poll,monitor}.c` | waiting operations, libuv handle, `ref_count` | await, close, trigger | the trigger loop runs tasks that change the list |
| Events and ticks | `src/event.c`, `run_ticks` | tick lists, poll and timer handles, `refticks` | start, stop, ref, unref, close | callbacks that stop or start events; whether the loop may sleep |
| Streams | `src/stream.c`, `include/async/{stream,buffer}.h` | ring buffer, read request, write and flush queues, EOF/shutdown flags | read, write, flush, shutdown, close | partial writes, cancelled writes, EOF with data buffered |
| TCP and pipe servers, clients | `src/{tcp,pipe,socket}.c` | handle, tasks that accept, count of pending connections, references | bind, listen, accept, connect, close | close and drop in the middle of accept; the count against libuv's accepted descriptor |
| UDP sockets | `src/udp.c` | handle, senders, receivers, flushes | send, flush, receive, close | a send that overtakes libuv's queue; cancelled sends |
| Processes | `src/process/*.c` | child handle, pipes, observers, references | start, execute, signal, join | exit against signal, shutdown and destructor |
| Threads | `src/thread.c` | mutex, interrupt pointer, flags, join list | construct, kill, join | true concurrency |
| Filesystem and DNS requests | `src/{dns,filesystem}.c`, libuv's `threadpool.c` | one request each; the pool's queues | submit, cancel, complete | cancellation against the worker threads |
| TLS, stream wrappers, console | `src/ssl`, `src/xp`, `src/console.c` | adapters | | little state of their own |

**How they interact.** Everything that blocks goes through one mechanism: an
`async_op` is appended to the list of whatever will settle it, and the fiber
suspends (`async_await_op`, `await_val`). Settling it takes it off the list and
calls its callback, which *switches to the waiting fiber at once* — in the
middle of the loop that settles — and comes back when that fiber suspends
again. So PHP code is not preempted, but every loop over a list of operations
is re-entered by arbitrary PHP code. This is what the models are about: a fiber
is a stack of frames, one for each C function that can be interrupted this way,
and any PHP call may happen while a frame is open. The loops are not only those
of the extension: libuv calls back from loops of its own (over connections,
datagrams, completed writes, timers), and they go on with whatever the callback
left. Therefore the models of handles contain libuv's loop too. Only worker
threads and the thread pool run in parallel.

## 2. Modules

| Module | Models | Role |
|---|---|---|
| `Fibers` | `async_fiber_switch`, `async_fiber_suspend` | shared layer: which fiber runs, run stack |
| `Scheduler` | `task.c` with the cancel token, deferred and condition it meets | core |
| `Futures` | — | abstract: what `Task::await` promises; implemented by `Scheduler` |
| `Channel` | `channel.c` | channels, iterators, groups |
| `FifoChannels` | — | abstract: order and single delivery of messages; implemented by `Channel` |
| `Watchers` | `watcher/*.c`, `sync.c` | everything that waits for a callback of libuv, and conditions |
| `Deferred` | `deferred.c` | settle, combine, transform, cancel handlers, disposal |
| `Contexts` | `context.c`, the wait of `task.c` | trees of cancellations, shields, timeouts |
| `Events` | `event.c`, ticks and loop of `task.c`, `uv_run` | callbacks without tasks |
| `Stream` | `stream.c`, libuv's `unix/stream.c` | reads and writes of one stream |
| `Sockets` | `tcp.c`, `pipe.c`, libuv's `uv__server_io`, `uv__stream_connect` | servers and connects |
| `Udp` | `udp.c`, libuv's `unix/udp.c` | one UDP socket |
| `Process` | `process/runner.c`, libuv's `unix/process.c` | children, signals, references |
| `Requests` | `filesystem.c`, `dns.c`, libuv's `threadpool.c` | one-shot requests in parallel threads |
| `Thread` | `thread.c`, libuv's `unix/async.c` | worker threads |
| `SequenceLemmas` | — | lemmas about sequences and lists of suspended fibers, for the proofs |
| `SchedulerProofs`, `BookkeepingProofs` | — | invariants and theorems of `Scheduler` |
| `ChannelProofs` | — | of `Channel`, and that it implements `FifoChannels` |
| `DeferredProofs`, `EventsProofs`, `RequestsProofs`, `ThreadProofs` | — | of the modules of these names |
| `MC...` | — | TLC instance of each; `MCScheduler` also the refinement of `Futures` with its liveness |

*Composition.* `Scheduler`, `Channel`, `Watchers`, `Thread`, `Stream`, `Udp`,
`Process`, `Requests` and `Sockets` extend `Fibers`: their actions call `Switch`
and `Suspend` of the fiber layer, and a task that is resumed runs in the middle
of the frame that resumed it. What depends only on *when* a task goes on, not
on which fiber it is, keeps one stack of frames in place of one per fiber:
`Deferred` and `Contexts`. `Events` has no tasks at all: its control is the
place of the scheduler fiber (`pc`), how far the main script is (`phase`) and
the callback that runs (`cb`). All but `Scheduler` reduce the scheduler to what
the component uses of it: tasks that begin, are blocked, are resumed at once or
by a later dispatch, and whose context is cancelled.

### Scheduler: state and actions

`stack[f]` is the C stack of fiber `f` (the main fiber `Root`, the loop's
`Runner`, each task), top frame first. A frame is a C function at a point where
it can be interrupted: `Code` (PHP code), `Body` (`run_task_fiber`), `Inline`
(`async_task_execute_inline`), `Await`, `Wait`, `Trigger` (`trigger_ops`),
`Resched` (`reschedule_task`), `Cancel`, `Dispatch`, `Drain`, `Shut`, ... `Top`
is the frame that executes; every action is enabled by `Top` alone, so an
execution is one thread of control that moves between fibers, as in C.
`ops[l]` is the list of pending operations of awaitable or queue `l`, `op[o]`
the one operation each owner can be blocked in; `status`, `ready`, `idle`,
`caller`, `busy`, `stopped` are the fields of that name in `async_task` and
`async_task_scheduler`.

PHP code (`PhpCode`) may do any call the API allows in any order: create a task
(`Async`), await (`AwaitInline`, `AwaitBlock`, `ReturnSettled`), block in an
operation (`AwaitOp`), settle a deferred or signal (`SettleExt`, `Signal`),
cancel (`CancelCall`), return a value or an awaitable, throw, exit. `Engine`
holds the steps of the C code after a switch comes back, and `zend_bailout` on
its way out of inline executions (`Bail`, `Unwind`); `EventLoop` what libuv
calls: the idle watcher's `dispatch_tasks`, completions, timeouts; then the
disposal of the scheduler at the end of the process.

`Careful` restricts PHP code to programs that stay clear of the inlining
defects of section 6: no await of a task after its inline execution; an inline
execution may return an awaitable that is settled, or a task not yet started,
which is executed inline in turn (unless that leaves a foreground owner waiting
for code of a background task, which `busy_count` does not know), but no pending one.
No task awaits or returns itself.

Abstractions: values are `ok`/`fail`; one cancellable context; PHP code of one
activation is unbounded except for `MaxOps` (waits in operations, in all) and
`MaxRuns` (executions of one callback, so that the double-execution defect does
not make the state infinite). Not modelled: `FLAG_NOWAIT`, the
`stack_size` condition of inlining (the model inlines whenever the rest of the
condition holds); ticks are in `Events`. The second run of the loop at the end of
`async_task_scheduler_dispose` is joined with `uv_walk`.

### Channel: state and actions

Fields as in `async_channel_state`, `async_channel_iterator` and
`async_channel_group`. Here a task blocks in one of four calls (`next`, `send`,
group `select`, group `send`), and `Closing`/`Flushing` are the two loops of
`dispose_state`, which switch to each waiter they settle. `FetchNoblock` takes
from the ring and refills it from the first sender; `SettleReceiver` and
`SettleSender` are the callbacks, `continue_select_cb` and `continue_send_cb`
included; `Compact` is `compact_group` with its comparison of addresses.
`result` and `got` are history: what each sender was told, what was received.

Busy counting, errors and bailout are in `Scheduler` and not repeated here; all
users are tasks. A group has one owner: the code embeds the select operation in
the group and does not guard against two. An iterator of a group is not advanced
directly at the same time (the select would clear its FETCHING flag). A shuffle
of an empty group runs off the array and is left out. In the group's scene
only the group receives from its channels and they are buffered; otherwise
a select can be blind (section 6).

### Watchers: state and actions

`Kind` gives each object one of six kinds: timer, timeout (`Timer::timeout`),
signal, poll, monitor, condition. `list[w][s]` is the list of waiting
operations (a poll has one per side), `armed` the events the libuv handle
reports, `mask` what the poll believes it watches, `ref` and `held` the
`ref_count` and the effect of `uv_ref`/`uv_unref`, `closed` the objects with an
error set, `broadcast` the counter of the condition. `Block` is the part common
to the waiting methods, `Trigger`, `Settled` and `Closing` are the frames of the
loops that wake or fail waiters. A loop stops at the operation it marked when it
began and compares *addresses*: a task that is woken may free the marked
operation and a later one may take its memory, so the model gives each operation
an address that may be used again (`Addrs`, symmetric). `woken`, `due`, `lost`,
`turn` and `errored` are history.

The scheduler is reduced to what these objects use of it: tasks that run, the
list of deferred wake-ups and its dispatch, cancellation of a waiting task.
PHP code does any call in any order, for ever. `Faults` adds two kinds of input
with which waiters are forgotten (timers with a delay of zero, waits on closed
monitors, see section 6); it is FALSE in the runs. Not modelled: the Windows
branches, and the data that `awaitSignal` and `awaitEvent` return. Starting a
handle succeeds: `awaitEvent` ignores what `uv_fs_event_start` returns
(`monitor.c:264`), and who waits although it failed is not played.

### Thread

The parent's fibers and the workers' places in `run_thread` (`pc`) interleave.
They share the mutex (`locked`), the pointer to the interrupt flag of the
worker's VM (`interrupt`, `vmint`), `exit`, and the async handle of libuv:
`pending`, and the eventfd that all handles of a loop share (`wake`). A worker
publishes its flag, starts up, runs or blocks, withdraws the flag under the
mutex, stores the exit code, then `uv_async_send` in two steps (`Claim`,
`Signal`). `Kill` takes the mutex and writes to the flag in a second step. The
parent drains the eventfd first and looks at the handles afterwards
(`PollAsync`, `LookAt`), and `notify_thread_cb` resumes the tasks that join.

### Stream

`writes`, `flush`, `read`, `buffer` and `flags` are the extension's side,
`queue`, `done`, `reading` and `handle` libuv's, `room` and `inbox` the
kernel's; the peer takes, sends, ends or resets. A frame is a function that is
interrupted by the task it resumes: `write_cb`, the loops over flushes and over
completed writes, `read_cb`, the close, the rest of `shutdown`. Bytes count in
units of 4096, a write has one or two, so that it can leave in parts. Where the
code uses memory after free or resumes a task twice, the frame `Wild` ends the
behaviour: no statement is made about what comes after it.

### Deferred and Contexts

`Deferred`: a state is a number; `kind` says how it came to be, `ops[x]` lists
what is called when `x` is settled (a wait, a combination, a transformation).
`Register` is the loop of `Deferred::combine`, which calls back inside itself
for inputs that are settled already; `CombineSettle`, `CombineFree` are the
steps of `combine_cb` after PHP code. The destructor of a deferred that is
pending (506) does what a failed settle does, and is modelled as one (`Dropped`).
exit() in a callback of `combine` or `transform` (823, 1002), after which the
scheduler stops and the result stays pending, is left out: callbacks return or throw. `Shut` is the loop of the scheduler's
disposal, which goes on while callbacks create new deferreds.

`Contexts`: a context has a parent and a cancellation, its own or one that it
shares; `callbacks` of a cancellation hold waits and children (`chain`).
`refcount` counts contexts and handlers, `freed` what has been released.
`shielded` and `fired` are history for the statement about sources.

### Udp, Process, Sockets

Each has the lists and flags of the C structure under their own names, one frame
for each loop that resumes tasks, libuv's handle and its queue, and the kernel's
side in a few variables. In `Udp` a datagram is a number in the order of the
calls (`queue`, `done`, `wire`). In `Process` `child` is the operating system's
process (alive, zombie, reaped), `sigchld` one pending signal for any number of
children, `refs` the PHP reference count. In `Sockets` a connection is a
number in the order of arrival; `backlog` is the kernel's queue, `accepted` the
one descriptor libuv has accepted and nobody has taken, `pending` the
extension's count of it; `client` are the sockets of `connect`, whose request
lies on the C stack of the task. Inputs of the environment: errors of accept(2)
and recvmsg, aborted connections, refusals, children that end, cancellation at
any time, the shutdown of the scheduler.

Calls that fail at once, without a wait, are left out where they change no state
but that of the call: `uv_tcp_connect` (`tcp.c:346`) and `uv_listen` on an open
handle (1342). An error that sendmsg reports at once (libuv's `udp.c:507`) is
no case of its own: `SendQueued` reports it a step later. `pending` of a server
is a `zend_uchar` (`tcp.c:63`, 998) that wraps at 256: the model counts
in the naturals, within `backlog` and `accepted` of a few connections.
`DropPipe` waits until a close under way is over; the second object of a
pipe that was fetched twice may be dropped before that (`runner.c:729`), which
is part of the defect that section 6 names.

### Requests

`wq`, `slowq` and `slow` are the pool's queue, its queue of slow work and the
number of threads that do such work, with the message that stands for the slow
queue inside `wq`. A worker step is one section under the pool's mutex; `GiveUp`
is `uv_cancel`, which the loop thread calls while workers take requests. What a
request does is nothing but the time it takes; a name may take forever. Left
out: a request libuv refuses at once, and the synchronous calls that are made when the
scheduler has been disposed; neither enters the pool.

### Events

`ev[e]` is the object of event `e`: references, the list its tick is in, the
libuv handle, `sched` (SCHEDULED), `refd`. `ticks`, `running` and `refticks` are
the scheduler's. One iteration is `Top` (the decision for `UV_RUN_NOWAIT`),
`RunTick`, then `UvRun`, `UpdateTime`, `TimerCb`, `PollCb` and the sleep
in the kernel, then `After`. PHP code calls any method of any event, from the
script or a callback. `Dispose` joins three parts of the scheduler's disposal (`task.c:1253`):
`dispose_ticks`, failing the operations that are left, and the shutdown of the
events. The PHP code that failing them resumes acts after this step, not between
its parts; an event it started there would be unscheduled by the shutdown.

## 3. Runs

Twelve runs, one per component; each plays several programs ("scenes", chosen in
`Init`) where one that contains everything would be too large. A name such as `Sound` or
`Bookkeeping` is a conjunction of named parts, each with its own comment.

| Run | Properties | What it shows |
|---|---|---|
| `scheduler` | `RunsOnce`, `NoLostWakeup`, `Bookkeeping` (run stack, switch targets, results, busy count, caller, disposal, owners of operations, clean shutdown), `ReadyIsWatched`, `CancelReachesAll`, `NoStartAfterStop`, `Finishes`, `AwaitKeepsPromise` (the steps of `Futures`, until the scheduler is stopped), `FuturesSpec` (with its liveness, where nothing stops it) | awaits work however tasks, inlining, settling, cancellation, exit() and errors interleave; `Task::await` implements `Futures` |
| `channel` | `NobodyMissed`, `Sound` (ring buffer, iterator flag, close, hand-over), `Fifo`, `GroupServes` (queued where counted; no select beside a message), `SenderKnows` | FIFO and single delivery (refines `FifoChannels`), nobody waits with a partner present |
| `watchers` | `NobodyForgotten`, `Sound` (everyone woken, once; no handle held in vain) | who waits is listed, watched for and holds the loop |
| `deferred` | `Sound` (no lost wake-up, life of combinations, disposal), `DerivedSettles`, `SettledOnce` | settling in the middle of settling |
| `contexts` | `CancelReaches` (all below, and nobody beyond a shield), `Sound` (one end per wait, reference counts) | a cancellation reaches all it concerns while the tasks it resumes rebuild the tree |
| `events` | `Sound` (references, lists, `refticks`), `LoopIdle`, `Progress` | the loop sleeps and ends only when it may; no tick or timer starves |
| `stream` | `Sound` (truth of results, flush, memory, watching for input), `InOrder`, `StreamEnds` (writes end; a stream shut down is closed) | bytes leave in order and whole, readers are served, all ends |
| `sockets` | `Sound` (references, order), `AcceptServed`, `CallsEnd` | no task accepts beside a waiting connection; connects end |
| `udp` | `Sound` (hold of the loop, flush, turn of receivers), `SentInOrder`, `SendsEnd` | no send overtakes another |
| `process` | `Sound` (references, hold of the loop), `JoinsEnd` | every joiner goes on when the child has ended, also when signals merge |
| `requests` | `Sound` (executed once, slow work bounded), `RequestsEnd` | files are served although names block for ever |
| `thread` | `Sound` (no use after free across threads, a joined thread is over, the loop outlasts its threads), `JoinReturns` | the handshakes of kill, end and join, in parallel |

`TypeOK` is a property of `scheduler` and a part of `Sound` elsewhere (`Events`
states the agreement of its lists instead). Every configuration sets
`CHECK_DEADLOCK FALSE`: the process ends, and tasks may wait for ever for
something no one does.

### Bounds

- `scheduler`: two programs in one state space. "awaits": three tasks (one in
  the background), a deferred and the main script await each other, without
  operations and faults. "operations": two tasks and the main script with
  cancellable operations, conditions, cancellation, exit and errors, `MaxOps = 2`
  waits (so a wait after a cancelled one), `MaxRuns = 2`. Three actors are enough
  for a waker, a waiter in its list, and one that comes or goes in the loop.
- `channel`: an unbuffered channel and one of size 2, which wraps with three
  messages, two iterators on it; or a shuffled group over two channels of size
  1: a winner and a loser, and an entry before and behind a closed one.
- `watchers`: all three tasks share timer and condition, or the poll; or they
  mix the other kinds. Three addresses for three tasks let memory be used again
  at once (`Addrs`, symmetric: the loops compare addresses). `ref_count` wraps
  at 4 in place of 256 and fewer tasks than that wait.
- `deferred`: two tasks and two states: a combination of the two tasks, or of a
  task and a state, or a transformation of a transformation.
- `contexts`: three contexts under the root, the depth at which a chained
  cancellation passes through one that was cancelled before; two tasks.
- `events`: two ticks, tick and timer, tick and poll, timer and poll, and one
  event together with an operation. `MaxCalls = 3` calls of methods; creating,
  dropping and the restart of a tick by itself are not counted, so ticks can keep the
  loop busy for ever.
- `stream`: four programs of two tasks with at most three writes or three reads,
  writes of one or two units into a kernel that takes one or two until the peer reads.
- `sockets`: servers that listen or are only bound, two connections from outside
  or one of an own client, one error of accept(2), backlog of 2.
- `udp`: three sends, or two sends and a receive, or one send and two receives;
  the kernel takes one datagram at a time.
- `process`: two children and a join each, two joiners of one, a child with a pipe.
- `requests`: two threads (with the limit of one for slow work), three requests.
- `thread`: two tasks and a thread, one task and two threads that share the eventfd.

Every bound is a constant that a guard names (`Max...`) or a field of a scene;
the configurations give the values.

### Fairness

Liveness always assumes that the one thread of control goes on (`WF` of what the
program can do): between PHP calls the C code is deterministic, and PHP code of a
bounded program returns. In addition:

- `stream`, `udp`: the peer takes what it is sent, the kernel sends what it took.
- `thread`: `WF` for the parent and for each worker's C code, none for the
  worker's PHP code; `JoinReturns` asks only for threads that have ended or are flagged.
- `process`: nothing is assumed about children.
- `requests`: `WF` for the loop, for each worker that takes a request and for file
  system calls; that a name is ever resolved is not assumed.
- `sockets`: `SF` for the readiness of each descriptor. One iteration of
  `uv__io_poll` serves every descriptor that is ready, however often others are;
  and the kernel answers every connect.
- `events`: `WF` for the loop's and main script's steps, `SF` that time passes
  for each timer although the loop keeps turning. Descriptors need never answer.

`channel`, `watchers`, `deferred` and `contexts` state safety only; whom nobody
may forget is expressed there by `NobodyMissed`, `NobodyForgotten`,
`ReachesAll` and the like, at the states in which the loop goes on.

## 4. Proofs

The theorems below hold for every value of the constants: any number of tasks,
awaitables, channels, messages, threads and so on. They assume what the `ASSUME`s
of the component's module say: names differ, what is named a subset is one,
switches such as `Careful` and `Faults` are booleans, bounds are naturals, there are
finitely many tasks; two state a limit of the code: the size of a channel is at
most 65535 (`MaxSize`, which the constructor enforces), and the pool has a
thread. No `ASSUME` ties `Faults` to `Careful`: exit() and errors in callbacks are
part of every program.

| Theorem | Statement | About |
|---|---|---|
| `TypeCorrect` | `Spec => []TypeOK` | `Scheduler` |
| `ExecutedOnce` | `Careful => (Spec => []RunsOnce)` | no callback is executed twice |
| `QueueIsWatched` | `Spec => []ReadyIsWatched` | a ready task has an idle watcher that dispatches it |
| `NothingStartsAfterStop` | `Spec => NoStartAfterStop` | no step starts a task after exit() or an error |
| `NobodySleepsOn` | `Spec => []NoLostWakeup` | when the loop goes on, nobody waits for what is settled |
| `CancellationReachesAll` | `Spec => []CancelReachesAll` | after a cancellation nobody is left blocked under it |
| `BooksBalance` | `Careful /\ Foreground(Root) => (Spec => []Bookkeeping)` | control, callers, busy count, operations and disposal are accounted for |
| `AwaitsKeepPromise` | `Careful /\ Foreground(Root) => (Spec => AwaitKeepsPromise)` | `Scheduler` implements the steps of `Futures` until it is stopped |
| `ChannelsServe` | `NoGroups => (Spec => []NobodyMissed)` | nobody waits to receive where a message is buffered or offered |
| `ChannelsConsistent` | `NoGroups => (Spec => []Sound)` | ring buffer and who waits for it, iterator flags, close, hand-over |
| `ChannelsFifo` | `NoGroups => (Spec => Fifo)` | `Channel` implements `FifoChannels` |
| `SendersKnow` | `NoGroups => (Spec => []SenderKnows)` | what a sender was told is true |
| `DeferredsSound` | `Spec => []Sound` | no lost wake-up, life of combinations, disposal |
| `DerivationsSettle` | `Spec => []DerivedSettles` | combinations and transformations settle with their inputs |
| `DeferredsSettleOnce` | `Spec => SettledOnce` | settled for good |
| `EventsCounted` | `Spec => []Sound` | references of events, queues of ticks, the end |
| `LoopSleepsRightly` | `Spec => []LoopIdle` | the loop sleeps and returns only when no tick needs it |
| `RequestsRunOnce` | `Spec => []Sound` | executed once, cancelled never; slow work leaves workers free |
| `ThreadsAgree` | `Spec => []Sound` | no use after free across threads, joined threads are over |

No property of a run is an inductive invariant by itself. Each proof strengthens
it, has one lemma for each action, and one step for each conjunct the action
can disturb. TLC checked the strengthened invariants on the instances of
section 3 before they were proved.

**Scheduler** (`SchedulerProofs`). `TypeOK` is not inductive: `Goto` writes the
tail of the running fiber's stack, so one must know that the stack is not empty
and what can lie below the top: a `Ret` frame only above a `Body` or `Inline`, a
`Body` only at the bottom, and so on (`StacksOK`); switching to a fiber needs
that everything in the run stack and in `caller` has a stack of its own
(`FibersOK`); a task with a frame has a status that is not `NONE` (`StatusOK`);
the ready list holds tasks that may be started or resumed (`ReadyOK`); lists of
operations hold owners that are blocked (`OpsOK`). `Inv` is the conjunction.
`ExecutedOnce` adds `Counted`, which ties `runs[t]` to the status of `t`:
without it nothing forbids a second run of a task that is in the ready list and
was executed inline. `Careful` is a hypothesis here, as the code does execute a
callback twice without it (section 6).

**Wake-ups** (`SchedulerProofs`). Both theorems are about programs that may do
anything, the two inlining defects included. On top of `Inv`, `Wakes` says
which stacks there are (`ShapesOK`): nothing lies above a wait, and PHP code never
above the loop that resumes the operations of a settled awaitable. So while such
a loop is open, whoever it resumes gives control back to it, and `Heard` can say
that who is blocked in the await of something settled is still in its list, and
that the loop over this list is open on a fiber that gets control (back). `Asked` says that who is in a
cancellable wait has a callback registered, `Asking` that the frame which calls
these callbacks holds all that were registered before.

**Bookkeeping** (`BookkeepingProofs`). None of the eight parts of `Bookkeeping`
is inductive alone, and `Book`, on top of `Inv` and `Wakes`, closes the circle.
`FormsOK` says which frame may stand on which: a frame that blocks only at the
top, frames of the event loop under nothing but loops that resume, and what each
frame that returns a result finds below it. From it follows which stack every `Top` leads to,
also for tasks that end and leave their callback (`TasksOK`). `LineOK` is about the order of control: whoever is in the
run stack is not blocked, the loop or the main script lies at its bottom, and
nobody waits there for control from one that gets it later. So a switch reaches a
fiber that has a stack and is not under way already, and `CallerOK` says whom
the loop returns to. `QueuedOK` ties each operation to the frame its owner is blocked in and
the list it is in, `DeferredOK` says whose wake-ups may be in the ready list, `StageOK`
what each stage of the disposal has finished. `BusyBalance` is a sum over stacks: the
proof counts the frames of foreground waits fiber by fiber, and shows that each action changes
this count by what it adds to `busy_count`. The one delicate step is the end of the
loop: as long as the main script is blocked in an operation its own wait is
counted, so the loop cannot end and leave it unsettled. That is what the hypothesis
`Foreground(Root)` is for: in a background context its wait is not counted and
it does come back too early (section 6). `Careful` excludes inline executions
whose waits have no fiber to switch to, or hold no busy section although the
main script depends on them. What remains is in `FormsOK`: where the result of
an inline execution is awaited for a foreground owner (`Uncovered` names the
exception), the code that does so is in the foreground, so going up from the main
script's frame the innermost foreground code is below a frame that counts (`MainCounts`).

**The promise of await** (`BookkeepingProofs`). The refinement mapping
reads the outcome of an awaitable off its status and what a fiber awaits off the top
of its stack. That each step is one of `Futures`, or changes neither, needs
three facts more (`PromiseOK`). `Told`: who is blocked in an await and has been told so
(its operation is no longer `RUNNING`) awaits something settled; with `QueuedOK`, which
says that control comes back to an await only then, it is released after the outcome.
`LoopsOK`: a loop that tells them is about something settled, although it is
left and entered again while the tasks it resumes run. `InlinesOK`: a task that is executed
inline has no outcome and is executed in one place, so the end of an
inline execution, wherever on which stack it is, settles a task that nobody has settled. After
`exit()` or an error waits end without an outcome (`Bail` in `ResumeAwait`), so the
property is about the steps up to there.

**Channels** (`ChannelProofs`). `Control` says which calls a task
can be in, that the lists of a channel hold just those who wait for it and that
an operation off its list is settled, and that a channel with senders in its list is
full: `NobodyMissed` follows from what a sender or receiver finds when it comes, and
must be carried through the states in which `Closing` or `Flushing` is half done.
`Messages` then places each message in one spot: with its sender, in the ring,
in the operation of a receiver that has not gone on yet, or received.
`FifoChannels` sees the queue of a channel as the messages in the first three,
in this order, and each step is one of its steps or a stutter. The
hypothesis `NoGroups` is needed for the truth of `NobodyMissed` on unbuffered
channels, because a select looks at receivers where senders are meant
(section 6). In the scene where TLC checks groups the channels are buffered and have
no other receivers; `Compact` there is a fold, about which one cannot induct.

**Deferreds** (`DeferredProofs`). A callback may resolve, combine and drop
anything while loops of the C code are open below it, so a combination can be in
several loops at once. The invariant counts how often a frame is on the stack
(`N`). An operation is in one list, once (`OpsOK`); what is in the list of a
settled awaitable is about to be called by a loop that is open (`ListsOK`); a
transformation waits, is in its callback, or is settled (`TransformOK`); and
for a combination (`CombineOK`) the counter of inputs that are not done equals
the number of inputs still queued, registrations to come and calls under way, so
it reaches zero once, in the call that settles it. From `Sound` alone it does not
follow that the combination exists when the next input calls back.

**Events** (`EventsProofs`). The objects are independent of each other but for the
lists, so most of the proof is about one object: `Owing(e, v, b, n)` says that
the references of `v` are those it holds (`b`: its callback runs) and `n` more that nobody
has. A lemma for each function of `event.c` that touches references says what it
makes of such an object (`GivenUp` of `ASYNC_DELREF` with its destructor,
`ClosedHandle` of the shutdown), and the actions compose them. `Shape` adds what
ties the handle to the flags: an active handle is scheduled, a timer that is
reachable and not marked as closed has an open handle, which is why
`TimerEvent::start` need not ask. `Sound` does not say this, and without it the
start of a timer could revive a closing handle. `LoopOK` explains `LoopIdle`: when ticks are waiting
while `uv_run` is under way, it was called with `UV_RUN_NOWAIT` or has been stopped since
(`Activate` stops the loop only when `ticks` is empty, the invariant says that is enough).
`EndOK` carries from the shutdown on that no handle is opened again (`Shut`) and, from the end
of the first run after it, that none is closing.

**Requests** (`RequestsProofs`). The place of a request (queued, taken by a
worker, done, cancelled) says what has become of it (`ReqOK`), the queues of the
pool hold only what no worker has taken, each request once (`QueuesOK`), and two
workers never have the same request (`WorkersOK`). The counter of slow work is
the number of workers that do it, a statement about cardinalities of
subsets of `Workers`.

**Threads** (`ThreadProofs`). The invariant relates the place of each worker
(`WorkerOK`) to what it shares with the parent: the pointer to its flag is
published as long as the worker may run, the mutex is held only while it is, libuv's
handle is active until the worker is gone, and its `pending` says how far the
worker has come with `uv_async_send`. So the parent, which closes the handle
after it has been told, can free nothing that a worker still uses.

`SequenceLemmas` holds what these proofs need of `Append`, `Tail`, `Remove`,
`ToSet` and lists without repetitions, and of `Parked`: fibers that have switched
away lie in the run stack once each, and those may go on.

*Model-checked only.* Liveness: `Finishes`, `Progress` and the like, and what
`FuturesSpec` adds to `AwaitKeepsPromise`, that every waiter is released. Fairness
and ENABLED are outside what the prover does. Facts that need
induction over data: folds, selections from a sequence and recursive functions,
hence `GroupServes` of `Channel` with its scenes of groups, and `CancelReaches`
of `Contexts`, whose ancestors are a recursive function. `Watchers`, `Stream`, `Sockets`, `Udp` and `Process`
are not proved yet. No module declares a RECURSIVE operator; the
recursion there is goes through recursive functions, folds and the sequence
operators of the community modules.

## 5. Plan

Proofs to come, in this order:

1. `NobodyForgotten` of `Watchers`;
2. `Sound` of `Process` and `Udp`;
3. `InOrder` of `Stream`, `AcceptServed` of `Sockets`.

### Not modelled

- *TLS* (`src/ssl`): the protocol is OpenSSL's; what is left moves bytes between
  memory BIOs and a stream. `Stream` leaves out its branches.
- *Stream wrappers* (`src/xp`), *console*: adapters from PHP's stream interface to
  sockets and streams, without waiting lists of their own.
- *Passing handles over a pipe* (export and import in `tcp.c`, `pipe.c`,
  `stream.c:713`) and socket pairs.
- *Data*: addresses, options, environment, stdio set-up, DNS answers, results of
  file system calls, messages of errors; the bytes in ring buffers (the ring of
  channels is modelled position by position, the ring of streams as a length).
- *Scheduler*: `FLAG_NOWAIT`, and the `stack_size` condition of inlining (the
  model inlines whenever the rest of the condition holds). The machine context
  and the stack memory of fibers.
- *libuv* is modelled where a callback of it resumes tasks in a loop, and for
  Unix. Its Windows half (`src/win`), other platforms, the file system calls
  themselves and the assembly of boost.context are not. These are the
  larger part of the repository's lines, which is why the mapped definitions
  cover a small share of them.

## 6. Where the code departs from what it intends

Found while the models were written. The models do what the code does; where a
property would fail for one of these reasons, it names the exception (a history
variable, or the frame `Wild` that ends a behaviour), or the run keeps PHP code
away from it (`Careful`, `Faults`).

*Scheduler.* `task.c:149` guards a second inline execution with `task->fiber`,
which inlining leaves NULL, although the comment at 518 restricts inlining to
tasks nobody else awaits: a task awaited twice runs twice (excluded by `Careful`). An
inline execution that returns a pending awaitable waits without a fiber, and
settling it switches to NULL (549; `Careful`). It also leaves its busy section (541)
before it awaits what the callback returned (549): when a background task, executed inline
for the main script, returns a task that has not started and waits in an operation, the
loop ends and the main script goes on with its operation unresolved (against the comment at
666; `Careful`). The main script in a background
context comes back from `async_await_op` with the operation still running (715,
against the comment at 666; the main script is in the foreground in the run).
After exit() or an error `busy_count` stays above zero and shutdown may not end
(1273, against `php_async.c:56`; `Finishes` excepts it).

*Channels.* `ASYNC_CHANNEL_READABLE_NONBLOCK` (`channel.c:183`) tests receivers
where senders are meant, so a select can block beside a message (against the
comment at 882): the group's channels are buffered and only the group receives.
`compact_group` compares with an address in the array it moves (606, against
167). The shuffle of an empty group wraps (584). Two tasks in one group's
`select` share an operation (897): each group has one owner. Close without an
error tells blocked senders that they succeeded (`SenderKnows`).

*Watchers.* After an error libuv stops a poll, but `trigger_poll` ignores the
status: waiters are neither woken nor watched for (`poll.c:65`, against 49;
`errored`). A timer with delay zero is inactive in its callback, and who waits
again then is not served (`timer.c:273`; `Faults`). `Monitor::awaitEvent` does
not look whether the monitor is closed (`monitor.c:264`; `Faults`). A trigger
loop whose marked operation is cancelled goes on to the end of the list (`lost`).

*Deferreds and contexts.* `transform_cb` settles its state without looking
whether it is still pending (`deferred.c:1011`; excepted in `SettledOnce`);
`cancel_defer` gives a reference back that nobody took (328, 638). `timed_out`
releases a reference the timer never had (`context.c:173`), and a released child
stays in the list of its parent's callbacks (113): `Careful` keeps PHP code away
from what is freed, `RefsCounted` excepts fired timers.

*Streams.* A write cancelled after its start returns to the list and resumes its
task once more when it ends (`stream.c:1182`, against `task.c:666`; `Wild`). A
write queued while `write_cb` flushes is started by nobody (991, 1028;
`orphaned`). After a read in answer to an error the flag READING is set and
libuv has stopped (700; `deaf`). `flags && ASYNC_STREAM_EOF` (885) is true for
any flag. The callback of an asynchronous write may be called twice (944).

*Sockets.* The shutdown of the scheduler runs tasks that may free the server in
its loop (`tcp.c:902`). A connect that is cancelled leaves its request on a C
stack that moves on (352, `pipe.c:220`). `accept` on a closed server that never
listened opens a new socket (1339). A failed accept(2) is counted like a
connection, and a later accept throws EAGAIN (998). A connect in the background
holds the loop.

*UDP.* A cancelled last receiver leaves RECEIVING set, and the next datagram
finds nobody (`udp.c:592`). A send operation is freed while libuv holds it
(135, 769). A cancelled last send leaves flush waiting (677; `skipped`).
`op->code` is never read (766), empty datagrams are dropped (549), and
`intercept_send` can return a NULL awaitable (1101).

*Processes.* A signal may go to a child that was reaped; a child that was killed
reports status 0. Joiners share one flag of libuv (`runner.c:681`; `early`). A
join after the handle was closed waits for ever (`late`). A pipe fetched twice
or dropped before it is closed is released once too often (`Wild`).

*Threads.* `thread.c:314` closes a descriptor that was closed already. RUNNING is
set before `uv_thread_create` and stays when that fails (375, 552). A kill
before the worker has published its flag is lost (656).

*Requests.* The callback of a cancelled request uses what cancellation freed
(`filesystem.c:149`, `dns.c:190`), the request itself is on a C stack that has
moved on; when `uv_cancel` fails with EBUSY the operation leaks. `dns.c:230` frees an address
list that an error leaves uninitialised. With a pool of one thread slow work
takes it.

*Events.* An error or exit() in a tick does not stop the `uv_run` that follows
(`task.c:1393` and 1409 test a flag that is clear there), and callbacks that
are due in the same iteration still run. A timer with delay zero that restarts
itself never leaves libuv's loop over timers; a periodic timer with period zero
fires once and stays scheduled, and so does a poll after an error. `shutdown_poll`
does not mark the event as closed (`event.c:56`, unlike 535). A tick that
starts while the loop runs for the last time is left behind.
