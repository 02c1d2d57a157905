---------------------------- MODULE RequestsProofs ----------------------------
(***************************************************************************)
(* Theorems of the requests and the thread pool, for every set of tasks and *)
(* of worker threads and every number of requests.                          *)
(***************************************************************************)
EXTENDS Requests, SequenceLemmas, FiniteSetTheorems

(* The inductive invariant.                                                 *)

(* The stack of a task; that of the event loop: callbacks on top of the     *)
(* loop, for requests that were made.                                       *)
Blocked(s) == \E r \in Reqs : s = <<Waiting(r), Code>>
OfTask(s) == s \in {<<>>, <<Code>>, <<Over>>} \/ Blocked(s)
Frames == [k : {"loop", "code", "over", "wait", "done", "wild"}, r : 0 .. MaxReqs]
OfLoop(s) ==
    /\ s \in Seq(Frames) /\ s # <<>> /\ s[Len(s)] \in {Loop, Wild}
    /\ \A i \in 1 .. Len(s) - 1 : s[i].k = "done" /\ s[i].r \in 1 .. made
StacksOK ==
    /\ stack \in [Tasks \cup {Runner} -> Seq(Frames)]
    /\ \A t \in Tasks : OfTask(stack[t])
    /\ OfLoop(stack[Runner])

(* The fibers that have switched away.                                      *)
Left == {f \in Tasks \cup {Runner} : f = Runner \/ stack[f] = <<Code>>}
FibersOK ==
    /\ Parked(fiber, fibers, Tasks \cup {Runner}, Left)
    /\ stack[fiber] \notin {<<>>, <<Over>>}

OpsOK ==
    /\ op \in [Tasks -> {"PENDING", "RUNNING", "RESOLVED", "FAILED"}]
    /\ code \in [Tasks -> Seq(Kinds)] /\ cancels \subseteq Tasks /\ cancelled \subseteq Tasks
    /\ \A t \in Tasks : op[t] = "RUNNING" => Blocked(stack[t])
    /\ \A t \in Tasks, r \in Reqs :
        stack[t] = <<Waiting(r), Code>> /\ op[t] = "RESOLVED" => req[r].place = "done"

(* Where a request is says what has become of it.                           *)
Untouched(p) == p \in {"none", "queued", "running", "cancelled"}
ReqOK(r) ==
    /\ req[r].place = "none" <=> r > made
    /\ req[r].place # "none" => req[r].task \in Tasks
    /\ req[r].ran = IF Untouched(req[r].place) THEN 0 ELSE 1
    /\ req[r].place \in {"queued", "running"} => req[r].op = "alive"
ReqsOK ==
    /\ made \in 0 .. MaxReqs
    /\ req \in [Reqs -> [task : Tasks \cup {None}, slow : BOOLEAN, op : {"none", "alive", "freed"},
                         place : {"none", "queued", "running", "loop", "cancelled", "done"}, ran : {0, 1}]]
    /\ \A r \in Reqs : ReqOK(r)

(* The queues hold the requests no worker has taken, each once; a worker    *)
(* executes a request of its own.                                           *)
QueuesOK ==
    /\ wq \in Seq(0 .. MaxReqs) /\ Single(wq, 0 .. MaxReqs)
    /\ \A i \in DOMAIN wq : wq[i] # SlowMsg => req[wq[i]].place = "queued" /\ ~req[wq[i]].slow
    /\ slowq \in Seq(Reqs) /\ Single(slowq, Reqs)
    /\ \A i \in DOMAIN slowq : req[slowq[i]].place = "queued" /\ req[slowq[i]].slow
WorkerType == [pc : {"ready", "sleeping", "woken", "run", "after"}, r : 0 .. MaxReqs, slow : BOOLEAN]
WorkersOK ==
    /\ worker \in [Workers -> WorkerType]
    /\ \A w \in Workers : worker[w].pc = "run" =>
        /\ worker[w].r \in Reqs /\ req[worker[w].r].place = "running"
        /\ \A v \in Workers : worker[v].pc = "run" /\ worker[v].r = worker[w].r => v = w
    /\ slow = Cardinality(Running) /\ slow <= Threshold
PoolOK == QueuesOK /\ WorkersOK
LoopOK ==
    /\ loopq \in Seq(Reqs) /\ wake \in BOOLEAN
    /\ \A i \in DOMAIN loopq : loopq[i] <= made

Inv == StacksOK /\ FibersOK /\ OpsOK /\ ReqsOK /\ PoolOK /\ LoopOK

-------------------------------------------------------------------------------
(* Stacks and fibers.                                                       *)
LEMMA FrameKinds ==
    /\ \A r, q : Waiting(r) = Waiting(q) => r = q
    /\ \A r : Waiting(r).k = "wait" /\ Waiting(r).r = r /\ DoneCb(r).k = "done" /\ DoneCb(r).r = r
    /\ Code.k = "code" /\ Loop.k = "loop" /\ Over.k = "over" /\ Wild.k = "wild"
    /\ Code # Over /\ Code # Loop /\ Loop # Over /\ Code # Wild /\ Over # Wild /\ Loop # Wild
    /\ \A r : Waiting(r) # Code /\ Waiting(r) # Over
BY DEF Waiting, DoneCb, Code, Loop, Over, Wild, Frame

(* The frames are of their type.                                            *)
LEMMA FrameTypes ==
    /\ \A r \in Reqs : Waiting(r) \in Frames /\ DoneCb(r) \in Frames
    /\ Code \in Frames /\ Loop \in Frames /\ Over \in Frames /\ Wild \in Frames
<1>1. MaxReqs \in Nat /\ \A r \in Reqs : r \in 0 .. MaxReqs
  BY RequestScenes DEF Reqs
<1> QED BY <1>1 DEF Waiting, DoneCb, Code, Loop, Over, Wild, Frame, Frames

(* The stack of a task is a sequence of frames.                             *)
LEMMA TaskStackType ==
    ASSUME NEW s, OfTask(s)
    PROVE  s \in Seq(Frames)
<1>1. \A x, y \in Frames : <<>> \in Seq(Frames) /\ <<x>> \in Seq(Frames) /\ <<x, y>> \in Seq(Frames)
  OBVIOUS
<1>2. CASE s \in {<<>>, <<Code>>, <<Over>>}
  BY <1>1, <1>2, FrameTypes
<1>3. CASE Blocked(s)
  BY <1>1, <1>3, FrameTypes DEF Blocked
<1> QED BY <1>2, <1>3 DEF OfTask

(* The event loop executes its loop, or a callback over the rest.           *)
LEMMA LoopStack ==
    ASSUME NEW s, OfLoop(s)
    PROVE  \/ s \in {<<Loop>>, <<Wild>>} /\ Head(s) \in {Loop, Wild} /\ (Head(s) = Loop => s = <<Loop>>)
           \/ Head(s).k = "done" /\ Head(s).r \in 1 .. made /\ OfLoop(Tail(s))
<1>1. /\ s \in Seq(Frames) /\ s # <<>> /\ s[Len(s)] \in {Loop, Wild}
      /\ \A i \in 1 .. Len(s) - 1 : s[i].k = "done" /\ s[i].r \in 1 .. made
  BY DEF OfLoop
<1>2. Len(s) \in Nat \ {0} /\ Head(s) = s[1]
  BY <1>1
<1>3. CASE Len(s) = 1
  <2>1. Head(s) \in {Loop, Wild}
    BY <1>1, <1>2, <1>3
  <2>2. ASSUME NEW x \in {Loop, Wild}, Head(s) = x PROVE s = <<x>>
    <3> DEFINE z == <<x>>
    <3>1. z \in Seq(Frames) /\ Len(z) = 1 /\ z[1] = x
      BY FrameTypes
    <3> HIDE DEF z
    <3>2. \A i \in 1 .. Len(s) : i = 1
      BY <1>3
    <3>3. \A i \in 1 .. Len(s) : s[i] = z[i]
      BY <1>2, <2>2, <3>1, <3>2
    <3>4. s = z
      BY <1>1, <1>3, <3>1, <3>3, SeqEqual
    <3> QED BY <3>4 DEF z
  <2> QED BY <2>1, <2>2, FrameKinds
<1>4. CASE Len(s) # 1
  <2>1. 1 \in 1 .. Len(s) - 1
    <3>1. \A n \in Nat \ {0} : n # 1 => 1 \in 1 .. n - 1
      OBVIOUS
    <3> QED BY <1>2, <1>4, <3>1
  <2>2. Head(s).k = "done" /\ Head(s).r \in 1 .. made
    BY <1>1, <1>2, <2>1
  <2> DEFINE q == Tail(s)
  <2>3. q \in Seq(Frames) /\ Len(q) = Len(s) - 1 /\ \A i \in 1 .. Len(q) : q[i] = s[i + 1]
    BY <1>1, HeadTailProperties
  <2>4. Len(q) \in Nat \ {0}
    BY <1>2, <1>4, <2>3
  <2> HIDE DEF q
  <2>5. q # <<>> /\ q[Len(q)] = s[Len(s)]
    BY <1>2, <2>3, <2>4
  <2>6. \A i \in 1 .. Len(q) - 1 : i + 1 \in 1 .. Len(s) - 1 /\ q[i] = s[i + 1]
    BY <1>2, <2>3, <2>4
  <2>7. OfLoop(q)
    BY <1>1, <2>3, <2>5, <2>6 DEF OfLoop
  <2> QED BY <2>2, <2>7 DEF q
<1> QED BY <1>3, <1>4

(* What the running fiber executes says which fiber it is.                  *)
LEMMA Executing ==
    ASSUME Inv
    PROVE  /\ InCode => fiber \in Tasks /\ fiber # Runner /\ stack[fiber] = <<Code>>
           /\ InLoop => fiber = Runner /\ stack[fiber] = <<Loop>>
           /\ Top.k = "wait" => /\ fiber \in Tasks /\ fiber # Runner /\ Top.r \in Reqs
                                /\ stack[fiber] = <<Waiting(Top.r), Code>> /\ Rest = <<Code>>
           /\ Top.k = "done" => /\ fiber = Runner /\ Top.r \in 1 .. made /\ OfLoop(Rest)
<1> DEFINE s == stack[fiber]
<1>0. fiber \in Tasks \cup {Runner} /\ s \notin {<<>>, <<Over>>}
  BY DEF Inv, FibersOK, Parked
<1>1. CASE fiber \in Tasks
  <2>1. fiber # Runner /\ (s = <<Code>> \/ Blocked(s))
    BY <1>0, <1>1, RequestNames DEF Inv, StacksOK, OfTask
  <2>2. CASE s = <<Code>>
    <3>1. Top = Code
      BY <2>2, ShortSequences DEF Top
    <3> QED BY <1>1, <2>1, <2>2, <3>1, FrameKinds DEF InCode, InLoop
  <2>3. CASE Blocked(s)
    <3>1. PICK r \in Reqs : s = <<Waiting(r), Code>>
      BY <2>3 DEF Blocked
    <3>2. Top = Waiting(r) /\ Rest = <<Code>>
      BY <3>1, ShortSequences DEF Top, Rest
    <3> QED BY <1>1, <2>1, <3>1, <3>2, FrameKinds DEF InCode, InLoop
  <2> QED BY <2>1, <2>2, <2>3
<1>2. CASE fiber = Runner
  <2>1. fiber \notin Tasks /\ OfLoop(s)
    BY <1>2, RequestNames DEF Inv, StacksOK
  <2>2. \/ s \in {<<Loop>>, <<Wild>>} /\ Head(s) \in {Loop, Wild} /\ (Head(s) = Loop => s = <<Loop>>)
        \/ Head(s).k = "done" /\ Head(s).r \in 1 .. made /\ OfLoop(Tail(s))
    BY <2>1, LoopStack
  <2> QED BY <1>2, <2>1, <2>2, FrameKinds DEF InCode, InLoop, Top, Rest
<1> QED BY <1>0, <1>1, <1>2

(* The running task goes on with stack s.                                   *)
LEMMA TaskGoes ==
    ASSUME Inv, fiber \in Tasks, NEW s, OfTask(s), Goto(s), made \in Nat, made' \in Nat, made <= made'
    PROVE  /\ StacksOK' /\ stack'[fiber] = s
           /\ \A f \in Tasks \cup {Runner} : f # fiber => stack'[f] = stack[f]
<1>1. stack'[fiber] = s /\ \A f \in Tasks \cup {Runner} : f # fiber => stack'[f] = stack[f]
  BY DEF Goto, Inv, StacksOK
<1>2. stack' \in [Tasks \cup {Runner} -> Seq(Frames)]
  <2>1. s \in Seq(Frames)
    BY TaskStackType
  <2> QED BY <2>1 DEF Goto, Inv, StacksOK
<1>3. \A t \in Tasks : OfTask(stack'[t])
  BY <1>1 DEF Inv, StacksOK
<1>4. OfLoop(stack[Runner])'
  <2>1. fiber # Runner
    BY RequestNames
  <2>2. \A r \in 1 .. made : r \in 1 .. made'
    OBVIOUS
  <2>3. OfLoop(stack[Runner])
    BY DEF Inv, StacksOK
  <2>4. stack'[Runner] = stack[Runner]
    BY <1>1, <2>1
  <2> QED BY <2>2, <2>3, <2>4 DEF OfLoop
<1> QED BY <1>1, <1>2, <1>3, <1>4 DEF StacksOK, OfTask, Blocked

(* The event loop goes on with stack s.                                     *)
LEMMA LoopGoes ==
    ASSUME Inv, fiber = Runner, NEW s, OfLoop(s), Goto(s), UNCHANGED made
    PROVE  StacksOK' /\ stack'[Runner] = s /\ \A t \in Tasks : stack'[t] = stack[t]
<1>1. stack'[Runner] = s /\ \A t \in Tasks : stack'[t] = stack[t]
  BY RequestNames DEF Goto, Inv, StacksOK
<1>2. stack' \in [Tasks \cup {Runner} -> Seq(Frames)]
  BY DEF Goto, Inv, StacksOK, OfLoop
<1> QED BY <1>1, <1>2 DEF Inv, StacksOK, OfTask, OfLoop, Blocked

(* Control stays, is given back, or is passed on.                           *)
LEMMA FiberStays ==
    ASSUME Inv, UNCHANGED <<fiber, fibers>>, stack'[fiber] \notin {<<>>, <<Over>>},
           \A f \in Tasks \cup {Runner} : f # fiber => stack'[f] = stack[f]
    PROVE  FibersOK'
<1>1. \A f \in Tasks \cup {Runner} : f \in Left /\ f # fiber => f \in Left'
  BY DEF Left
<1>2. Parked(fiber, fibers, Tasks \cup {Runner}, Left')
  BY <1>1, ParkedIn DEF Inv, FibersOK
<1> QED BY <1>2 DEF FibersOK

(* A task suspends: control goes to the fiber it came from, or to the event *)
(* loop.                                                                    *)
LEMMA FiberSuspends ==
    ASSUME Inv, fiber \in Tasks, Suspend, OfLoop(stack[Runner]),
           \A f \in Tasks \cup {Runner} : f # fiber => stack'[f] = stack[f]
    PROVE  FibersOK'
<1> DEFINE S == Tasks \cup {Runner}
           L == Left
<1>1. Parked(fiber, fibers, S, L) /\ Runner \in S
  BY DEF Inv, FibersOK
<1> HIDE DEF S, L
<1>2. Parked(fiber', fibers', S, L) /\ (fiber' = Runner \/ (fiber' \in L /\ fiber' # fiber))
      /\ \A i \in DOMAIN fibers' : fibers'[i] # fiber
  <2>1. CASE fibers = <<>>
    <3>1. fiber' = Runner /\ fibers' = fibers
      BY <2>1 DEF Suspend, SwitchNone
    <3>2. Parked(Runner, fibers, S, L) /\ DOMAIN fibers = {}
      BY <1>1, <2>1, ParkedNone, Zenon
    <3> QED BY <3>1, <3>2
  <2>2. CASE fibers # <<>>
    <3>1. fiber' = Head(fibers) /\ fibers' = Tail(fibers)
      BY <2>2 DEF Suspend
    <3>2. /\ Parked(Head(fibers), Tail(fibers), S, L)
          /\ Head(fibers) \in L /\ Head(fibers) # fiber
          /\ \A i \in DOMAIN Tail(fibers) : Tail(fibers)[i] # fiber
      BY <1>1, <2>2, ParkedSuspend
    <3> QED BY <3>1, <3>2
  <2> QED BY <2>1, <2>2
<1> USE DEF S, L
<1>3. \A f \in S : f \in L /\ f # fiber => f \in Left' /\ stack'[f] \notin {<<>>, <<Over>>}
  <2>1. stack[Runner] # <<>> /\ stack[Runner] # <<Over>>
    <3>1. Len(<<Over>>) = 1 /\ <<Over>>[1] = Over
      OBVIOUS
    <3> QED BY <3>1, FrameKinds DEF OfLoop
  <2>2. <<Code>> # <<>> /\ <<Code>> # <<Over>>
    BY FrameKinds
  <2> QED BY <2>1, <2>2 DEF Left
<1>5. \A i \in DOMAIN fibers' : fibers'[i] \in Left'
  BY <1>2, <1>3 DEF Parked
<1>6. Parked(fiber', fibers', S, Left')
  BY <1>2, <1>5 DEF Parked
<1>7. stack'[fiber'] \notin {<<>>, <<Over>>}
  <2>1. Runner \in L /\ Runner # fiber /\ Runner \in S
    BY RequestNames DEF Left
  <2> QED BY <1>2, <1>3, <2>1 DEF Parked
<1> QED BY <1>6, <1>7 DEF FibersOK

(* The event loop or a task in its code passes control to task t, which     *)
(* waits or has not begun.                                                  *)
LEMMA FiberSwitches ==
    ASSUME Inv, fiber \in Left, NEW t \in Tasks, t \notin Left, Switch(t),
           stack'[t] \notin {<<>>, <<Over>>},
           \A f \in Tasks : f # t => stack'[f] = stack[f]
    PROVE  FibersOK' /\ fiber' = t
<1> DEFINE S == Tasks \cup {Runner}
           L == Left
<1>1. Parked(fiber, fibers, S, L) /\ t \in S /\ fiber \in L /\ t \notin L
  BY DEF Inv, FibersOK
<1>2. \A g \in S : g \in L /\ g # t => g \in Left'
  BY RequestNames DEF Left
<1> HIDE DEF S, L
<1>3. Parked(fiber', fibers', S, L) /\ fiber' = t
  BY <1>1, ParkedSwitch DEF Switch
<1>4. Parked(fiber', fibers', S, Left')
  BY <1>2, <1>3, ParkedIn
<1> QED BY <1>3, <1>4 DEF FibersOK, S

(* The stacks of the tasks in a few words.                                  *)
LEMMA StackFacts ==
    /\ \A r : <<Waiting(r), Code>> \notin {<<>>, <<Code>>, <<Over>>, <<Loop>>}
    /\ \A r, q : <<Waiting(r), Code>> = <<Waiting(q), Code>> => r = q
    /\ <<Code>> \notin {<<>>, <<Over>>, <<Loop>>} /\ <<Over>> # <<>>
    /\ OfTask(<<Code>>) /\ OfTask(<<Over>>) /\ \A r \in Reqs : OfTask(<<Waiting(r), Code>>)
<1>1. \A x, y : Len(<<x>>) = 1 /\ Len(<<x, y>>) = 2 /\ Len(<<>>) = 0 /\ <<x>>[1] = x /\ <<x, y>>[1] = x
  OBVIOUS
<1>2. \A r : <<Waiting(r), Code>> \notin {<<>>, <<Code>>, <<Over>>, <<Loop>>}
  <2> TAKE r
  <2>1. Len(<<Waiting(r), Code>>) = 2 /\ Len(<<Code>>) = 1 /\ Len(<<Over>>) = 1 /\ Len(<<Loop>>) = 1
    BY <1>1
  <2> QED BY <1>1, <2>1
<1>3. \A r, q : <<Waiting(r), Code>> = <<Waiting(q), Code>> => r = q
  <2> TAKE r, q
  <2>1. <<Waiting(r), Code>> = <<Waiting(q), Code>> => Waiting(r) = Waiting(q)
    OBVIOUS
  <2> QED BY <2>1, FrameKinds
<1>4. <<Code>> \notin {<<>>, <<Over>>, <<Loop>>} /\ <<Over>> # <<>>
  BY FrameKinds
<1> QED BY <1>2, <1>3, <1>4 DEF OfTask, Blocked

-------------------------------------------------------------------------------
(* The pool.                                                                *)
Busy(p) == p \in {"run", "after"}

(* A signal wakes a sleeping worker and leaves the busy ones alone.         *)
LEMMA SignalWakes ==
    ASSUME NEW ws \in [Workers -> WorkerType], \A v \in Sleeping : ws[v].pc = "sleeping", Signal(ws)
    PROVE  /\ worker' \in [Workers -> WorkerType]
           /\ \A v \in Workers : /\ Busy(worker'[v].pc) <=> Busy(ws[v].pc)
                                 /\ Busy(ws[v].pc) => worker'[v] = ws[v]
<1>1. CASE ~Signals
  BY <1>1 DEF Signal
<1>2. CASE Signals
  <2>1. PICK w \in Sleeping : worker' = [ws EXCEPT ![w].pc = "woken"]
    BY <1>2 DEF Signal
  <2>2. w \in Workers /\ ws[w].pc = "sleeping"
    BY <2>1 DEF Sleeping
  <2>3. worker' \in [Workers -> WorkerType]
    BY <2>1, <2>2 DEF WorkerType
  <2>4. \A v \in Workers : v # w => worker'[v] = ws[v]
    BY <2>1
  <2>5. worker'[w].pc = "woken"
    BY <2>1, <2>2 DEF WorkerType
  <2> QED BY <2>2, <2>3, <2>4, <2>5 DEF Busy
<1> QED BY <1>1, <1>2

(* No busy worker is concerned.                                             *)
LEMMA WorkersKept ==
    ASSUME WorkersOK, worker' \in [Workers -> WorkerType], UNCHANGED slow,
           \A v \in Workers : /\ Busy(worker'[v].pc) <=> Busy(worker[v].pc)
                              /\ Busy(worker[v].pc) => worker'[v] = worker[v],
           \A v \in Workers : worker[v].pc = "run" => req'[worker[v].r].place = "running"
    PROVE  WorkersOK'
<1>1. \A v \in Workers : worker'[v].pc = "run" => worker[v].pc = "run" /\ worker'[v] = worker[v]
  BY DEF Busy
<1>2. Running' = Running
  BY DEF Running, Busy
<1>3. (slow = Cardinality(Running) /\ slow <= Threshold)'
  BY <1>2 DEF WorkersOK, Threshold
<1> QED BY <1>1, <1>3 DEF WorkersOK

(* A request is posted: it was in no queue.                                 *)
LEMMA PostKeeps ==
    ASSUME Inv, NEW m \in Reqs, req[m].place = "none", NEW b \in BOOLEAN, Post(m, b), UNCHANGED slow,
           req'[m].place = "queued", req'[m].slow = b,
           \A r \in Reqs : r # m => req'[r] = req[r]
    PROVE  PoolOK'
<1>1. QueuesOK /\ WorkersOK /\ MaxReqs \in Nat
  BY RequestScenes DEF Inv, PoolOK
<1>2. m \in 0 .. MaxReqs /\ m # SlowMsg /\ SlowMsg \in 0 .. MaxReqs
  BY <1>1 DEF Reqs, SlowMsg
<1>3. \A i \in DOMAIN wq : wq[i] # m /\ wq[i] \in 0 .. MaxReqs /\ (wq[i] # SlowMsg => wq[i] \in Reqs)
  BY <1>1, <1>2 DEF QueuesOK, Reqs, SlowMsg
<1>4. \A i \in DOMAIN slowq : slowq[i] # m /\ slowq[i] \in Reqs
  BY <1>1 DEF QueuesOK
<1>5. \A i \in DOMAIN wq : wq[i] # SlowMsg => req'[wq[i]].place = "queued" /\ ~req'[wq[i]].slow
  BY <1>1, <1>3 DEF QueuesOK
<1>6. \A i \in DOMAIN slowq : req'[slowq[i]].place = "queued" /\ req'[slowq[i]].slow
  BY <1>1, <1>4 DEF QueuesOK
<1>7. ASSUME UNCHANGED worker \/ Signal(worker) PROVE WorkersOK'
  <2>1. /\ worker' \in [Workers -> WorkerType]
        /\ \A v \in Workers : /\ Busy(worker'[v].pc) <=> Busy(worker[v].pc)
                              /\ Busy(worker[v].pc) => worker'[v] = worker[v]
    <3>1. worker \in [Workers -> WorkerType] /\ \A v \in Sleeping : worker[v].pc = "sleeping"
      BY <1>1 DEF WorkersOK, Sleeping
    <3>2. CASE UNCHANGED worker
      BY <3>1, <3>2
    <3>3. CASE Signal(worker)
      BY <3>1, <3>3, SignalWakes
    <3> QED BY <1>7, <3>2, <3>3
  <2>2. \A v \in Workers : worker[v].pc = "run" => req'[worker[v].r].place = "running"
    BY <1>1 DEF WorkersOK
  <2> QED BY <1>1, <2>1, <2>2, WorkersKept
<1>8. CASE b
  <2>1. slowq' = Append(slowq, m)
    BY <1>8 DEF Post
  <2>2. /\ slowq' \in Seq(Reqs) /\ Single(slowq', Reqs)
        /\ \A i \in DOMAIN slowq' : slowq'[i] = m \/ \E j \in DOMAIN slowq : slowq'[i] = slowq[j]
    BY <1>1, <1>4, <2>1, SingleAppend DEF QueuesOK
  <2>3. \A i \in DOMAIN slowq' : req'[slowq'[i]].place = "queued" /\ req'[slowq'[i]].slow
    BY <1>6, <1>8, <2>2
  <2>4. CASE Scheduled
    <3>1. UNCHANGED <<wq, worker>>
      BY <1>8, <2>4 DEF Post
    <3> QED BY <1>1, <1>5, <1>7, <2>2, <2>3, <3>1 DEF PoolOK, QueuesOK
  <2>5. CASE ~Scheduled
    <3>1. wq' = Append(wq, SlowMsg) /\ Signal(worker)
      BY <1>8, <2>5 DEF Post
    <3>2. \A i \in DOMAIN wq : wq[i] # SlowMsg
      BY <2>5 DEF Scheduled, ToSet
    <3>3. /\ wq' \in Seq(0 .. MaxReqs) /\ Single(wq', 0 .. MaxReqs)
          /\ \A i \in DOMAIN wq' : wq'[i] = SlowMsg \/ \E j \in DOMAIN wq : wq'[i] = wq[j]
      <4>1. wq \in Seq(0 .. MaxReqs) /\ Single(wq, 0 .. MaxReqs)
        BY <1>1 DEF QueuesOK
      <4>2. SlowMsg \in 0 .. MaxReqs
        BY <1>2, RequestScenes DEF SlowMsg
      <4> DEFINE N == 0 .. MaxReqs
      <4>3. wq \in Seq(N) /\ Single(wq, N) /\ SlowMsg \in N
        BY <4>1, <4>2
      <4> HIDE DEF N
      <4>4. /\ Append(wq, SlowMsg) \in Seq(N) /\ Single(Append(wq, SlowMsg), N)
            /\ \A i \in DOMAIN Append(wq, SlowMsg) :
                  Append(wq, SlowMsg)[i] = SlowMsg \/ \E j \in DOMAIN wq : Append(wq, SlowMsg)[i] = wq[j]
        BY <3>2, <4>3, SingleAppend
      <4> QED BY <3>1, <4>4 DEF N
    <3>4. \A i \in DOMAIN wq' : wq'[i] # SlowMsg => req'[wq'[i]].place = "queued" /\ ~req'[wq'[i]].slow
      BY <1>5, <3>3
    <3> QED BY <1>7, <2>2, <2>3, <3>1, <3>3, <3>4 DEF PoolOK, QueuesOK
  <2> QED BY <2>4, <2>5
<1>9. CASE ~b
  <2>1. wq' = Append(wq, m) /\ Signal(worker) /\ UNCHANGED slowq
    BY <1>9 DEF Post
  <2>2. /\ wq' \in Seq(0 .. MaxReqs) /\ Single(wq', 0 .. MaxReqs)
        /\ \A i \in DOMAIN wq' : wq'[i] = m \/ \E j \in DOMAIN wq : wq'[i] = wq[j]
    <3>1. wq \in Seq(0 .. MaxReqs) /\ Single(wq, 0 .. MaxReqs) /\ \A i \in DOMAIN wq : wq[i] # m
      BY <1>1, <1>3 DEF QueuesOK
    <3> DEFINE S == 0 .. MaxReqs
    <3>2. wq \in Seq(S) /\ Single(wq, S) /\ m \in S
      BY <1>2, <3>1
    <3> HIDE DEF S
    <3>3. /\ wq' \in Seq(S) /\ Single(wq', S)
          /\ \A i \in DOMAIN wq' : wq'[i] = m \/ \E j \in DOMAIN wq : wq'[i] = wq[j]
      BY <2>1, <3>1, <3>2, SingleAppend
    <3> QED BY <3>3 DEF S
  <2>3. \A i \in DOMAIN wq' : wq'[i] # SlowMsg => req'[wq'[i]].place = "queued" /\ ~req'[wq'[i]].slow
    BY <1>5, <1>9, <2>2
  <2> QED BY <1>1, <1>6, <1>7, <2>1, <2>2, <2>3 DEF PoolOK, QueuesOK
<1> QED BY <1>8, <1>9

(* What a task waits for was made.                                          *)
LEMMA Fresh ==
    ASSUME Inv, made < MaxReqs
    PROVE  /\ made + 1 \in Reqs /\ made \in Nat /\ req[made + 1].place = "none"
           /\ \A r \in Reqs : r # made + 1 => (r > made <=> r > made + 1)
<1>1. MaxReqs \in Nat /\ made \in 0 .. MaxReqs
  BY RequestScenes DEF Inv, ReqsOK
<1>2. made + 1 \in Reqs /\ made \in Nat /\ made + 1 > made /\ \A r \in Reqs : r # made + 1 => (r > made <=> r > made + 1)
  BY <1>1 DEF Reqs
<1> QED BY <1>2 DEF Inv, ReqsOK, ReqOK

(* A task submits a request.                                                *)
LEMMA SubmitStep ==
    ASSUME Inv, Submit
    PROVE  Inv'
<1>0. PICK m \in Reqs : m = made + 1
  BY Fresh DEF Submit
<1>1. /\ fiber \in Tasks /\ fiber # Runner /\ stack[fiber] = <<Code>> /\ fiber \in Left
      /\ made' = m
  BY <1>0, Executing DEF Submit, Left
<1>2. /\ m \in Reqs /\ made \in Nat /\ req[m].place = "none"
      /\ \A r \in Reqs : r # m => (r > made <=> r > m)
  BY <1>0, Fresh DEF Submit
<1>3. made' \in 0 .. MaxReqs /\ made <= made' /\ made' \in Nat /\ ~(m > made')
  BY <1>0, <1>1, <1>2, RequestScenes DEF Reqs
<1>4. IsSlow \in BOOLEAN
  BY DEF IsSlow
<1>5. req' = [req EXCEPT ![m] = [task |-> fiber, slow |-> IsSlow, place |-> "queued", op |-> "alive", ran |-> 0]]
  BY <1>1 DEF Submit
<1>6. Goto(<<Waiting(m), Code>>)
  <2>1. <<Waiting(m)>> \o <<Code>> = <<Waiting(m), Code>>
    BY ShortSequences
  <2>2. Goto(<<Waiting(m)>> \o <<Code>>)
    BY <1>1 DEF Submit
  <2> QED BY <2>1, <2>2
<1>7. StacksOK' /\ stack'[fiber] = <<Waiting(m), Code>>
      /\ \A f \in Tasks \cup {Runner} : f # fiber => stack'[f] = stack[f]
  <2>1. OfTask(<<Waiting(m), Code>>)
    BY <1>2, StackFacts
  <2> QED BY <1>1, <1>2, <1>3, <1>6, <2>1, TaskGoes
<1>8. FibersOK'
  <2>1. CASE fiber \in cancelled
    <3>1. UNCHANGED <<fiber, fibers>>
      BY <2>1 DEF Submit
    <3>2. stack'[fiber] \notin {<<>>, <<Over>>}
      BY <1>7, StackFacts
    <3> QED BY <1>7, <3>1, <3>2, FiberStays
  <2>2. CASE fiber \notin cancelled
    <3>1. Suspend /\ OfLoop(stack[Runner])
      BY <2>2 DEF Submit, Inv, StacksOK
    <3> QED BY <1>1, <1>7, <3>1, FiberSuspends
  <2> QED BY <2>1, <2>2
<1>9. /\ req'[m] = [task |-> fiber, slow |-> IsSlow, place |-> "queued", op |-> "alive", ran |-> 0]
      /\ \A r \in Reqs : r # m => req'[r] = req[r]
  BY <1>2, <1>5 DEF Inv, ReqsOK
<1>10. OpsOK'
  <2>1. /\ op' \in [Tasks -> {"PENDING", "RUNNING", "RESOLVED", "FAILED"}]
        /\ op'[fiber] \in {"RUNNING", "FAILED"}
        /\ \A t \in Tasks : t # fiber => op'[t] = op[t]
    BY <1>1 DEF Submit, Inv, OpsOK
  <2>2. code' \in [Tasks -> Seq(Kinds)]
    BY <1>1 DEF Submit, Inv, OpsOK
  <2>3. cancels' \subseteq Tasks /\ cancelled' \subseteq Tasks
    BY DEF Submit, Inv, OpsOK
  <2>4. \A t \in Tasks : op'[t] = "RUNNING" => Blocked(stack[t])'
    BY <1>2, <1>7, <2>1 DEF Inv, OpsOK, Blocked
  <2>5. ASSUME NEW t \in Tasks, NEW r \in Reqs, stack'[t] = <<Waiting(r), Code>>, op'[t] = "RESOLVED"
        PROVE  req'[r].place = "done"
    <3>1. t # fiber /\ stack[t] = <<Waiting(r), Code>> /\ op[t] = "RESOLVED"
      BY <1>7, <2>1, <2>5
    <3>2. req[r].place = "done"
      BY <3>1 DEF Inv, OpsOK
    <3> QED BY <1>2, <1>9, <3>2
  <2> QED BY <2>1, <2>2, <2>3, <2>4, <2>5 DEF OpsOK
<1>11. ReqsOK'
  <2>1. req' \in [Reqs -> [task : Tasks \cup {None}, slow : BOOLEAN, op : {"none", "alive", "freed"},
                         place : {"none", "queued", "running", "loop", "cancelled", "done"}, ran : {0, 1}]]
    BY <1>1, <1>2, <1>4, <1>5 DEF Inv, ReqsOK
  <2>2. ASSUME NEW r \in Reqs, r # m PROVE ReqOK(r)'
    <3>1. req'[r] = req[r] /\ ReqOK(r) /\ (r > made <=> r > made')
      BY <1>1, <1>2, <1>9, <2>2 DEF Inv, ReqsOK
    <3> QED BY <3>1 DEF ReqOK
  <2>3. ReqOK(m)'
    <3>1. req'[m].place = "queued" /\ req'[m].task = fiber /\ req'[m].ran = 0 /\ req'[m].op = "alive"
      BY <1>9
    <3> QED BY <1>1, <1>3, <3>1 DEF ReqOK, Untouched
  <2>4. \A r \in Reqs : ReqOK(r)'
    BY <2>2, <2>3
  <2> QED BY <1>3, <2>1, <2>4 DEF ReqsOK
<1>12. PoolOK'
  <2>1. Post(m, IsSlow) /\ UNCHANGED slow
    BY <1>1 DEF Submit
  <2> QED BY <1>2, <1>4, <1>9, <2>1, PostKeeps
<1>13. LoopOK'
  <2>1. UNCHANGED <<loopq, wake>>
    BY DEF Submit
  <2>2. \A i \in DOMAIN loopq : loopq[i] \in Reqs /\ loopq[i] <= made
    BY DEF Inv, LoopOK
  <2>3. \A i \in DOMAIN loopq : loopq[i] <= made'
    BY <1>2, <1>3, <2>2 DEF Reqs
  <2> QED BY <2>1, <2>3 DEF Inv, LoopOK
<1> QED BY <1>7, <1>8, <1>10, <1>11, <1>12, <1>13 DEF Inv

-------------------------------------------------------------------------------
(* What a step leaves alone.                                                *)
ReqType == [task : Tasks \cup {None}, slow : BOOLEAN, op : {"none", "alive", "freed"},
            place : {"none", "queued", "running", "loop", "cancelled", "done"}, ran : {0, 1}]

(* The requests that are in the pool stay as they are.                      *)
LEMMA PoolKept ==
    ASSUME PoolOK, UNCHANGED poolVars,
           \A q \in Reqs : req[q].place \in {"queued", "running"} =>
                             req'[q].place = req[q].place /\ req'[q].slow = req[q].slow
    PROVE  PoolOK'
<1>1. QueuesOK /\ WorkersOK /\ UNCHANGED <<wq, slowq, slow, worker>>
  BY DEF PoolOK, poolVars
<1>2. \A i \in DOMAIN wq : wq[i] # SlowMsg => wq[i] \in Reqs
  BY <1>1, RequestScenes DEF QueuesOK, Reqs, SlowMsg
<1>3. \A i \in DOMAIN slowq : slowq[i] \in Reqs
  BY <1>1 DEF QueuesOK
<1>4. QueuesOK'
  BY <1>1, <1>2, <1>3 DEF QueuesOK
<1>5. \A v \in Workers : worker[v].pc = "run" => req'[worker[v].r].place = "running"
  BY <1>1 DEF WorkersOK
<1>6. worker' \in [Workers -> WorkerType] /\ worker' = worker
  BY <1>1 DEF WorkersOK
<1>7. WorkersOK'
  BY <1>1, <1>5, <1>6, WorkersKept
<1> QED BY <1>4, <1>7 DEF PoolOK

(* One request is changed, and keeps what its place says of it.             *)
LEMMA ReqChanges ==
    ASSUME Inv, NEW r \in Reqs, UNCHANGED made, req' \in [Reqs -> ReqType],
           \A q \in Reqs : q # r => req'[q] = req[q],
           req'[r].place # "none", req[r].place # "none", req'[r].task = req[r].task,
           req'[r].ran = IF Untouched(req'[r].place) THEN 0 ELSE 1,
           req'[r].place \in {"queued", "running"} => req'[r].op = "alive"
    PROVE  ReqsOK'
<1>1. ASSUME NEW q \in Reqs PROVE ReqOK(q)'
  <2>1. ReqOK(q)
    BY DEF Inv, ReqsOK
  <2>2. CASE q # r
    BY <2>1, <2>2 DEF ReqOK
  <2>3. CASE q = r
    BY <2>1, <2>3 DEF ReqOK
  <2> QED BY <2>2, <2>3
<1>2. \A q \in Reqs : ReqOK(q)'
  BY <1>1
<1> QED BY <1>2 DEF Inv, ReqsOK, ReqType

(* The running task goes on in its code, its operation is over.             *)
LEMMA OpEnds ==
    ASSUME Inv, fiber \in Tasks, op' = [op EXCEPT ![fiber] = "PENDING"], UNCHANGED Fixed,
           \A f \in Tasks : f # fiber => stack'[f] = stack[f],
           \A q \in Reqs : req[q].place = "done" => req'[q].place = "done"
    PROVE  OpsOK'
<1>1. op \in [Tasks -> {"PENDING", "RUNNING", "RESOLVED", "FAILED"}]
  BY DEF Inv, OpsOK
<1>2. op'[fiber] = "PENDING" /\ \A t \in Tasks : t # fiber => op'[t] = op[t]
  BY <1>1
<1>3. op' \in [Tasks -> {"PENDING", "RUNNING", "RESOLVED", "FAILED"}]
  BY <1>1
<1>4. \A t \in Tasks : op'[t] = "RUNNING" => Blocked(stack[t])'
  BY <1>2 DEF Inv, OpsOK, Blocked
<1>5. \A t \in Tasks, r \in Reqs :
        stack'[t] = <<Waiting(r), Code>> /\ op'[t] = "RESOLVED" => req'[r].place = "done"
  BY <1>2 DEF Inv, OpsOK
<1> QED BY <1>3, <1>4, <1>5 DEF Fixed, Inv, OpsOK

(* The running task, which waited for r, is back in its code.               *)
LEMMA TaskWakes ==
    ASSUME Inv, Top.k = "wait", Goto(Rest), UNCHANGED <<fiber, fibers, made>>
    PROVE  /\ StacksOK' /\ FibersOK'
           /\ fiber \in Tasks /\ Top.r \in Reqs /\ stack[fiber] = <<Waiting(Top.r), Code>>
           /\ \A f \in Tasks \cup {Runner} : f # fiber => stack'[f] = stack[f]
<1>1. fiber \in Tasks /\ fiber # Runner /\ Top.r \in Reqs /\ stack[fiber] = <<Waiting(Top.r), Code>> /\ Rest = <<Code>>
  BY Executing
<1>2. Goto(<<Code>>) /\ OfTask(<<Code>>) /\ made \in Nat
  BY <1>1, StackFacts, RequestScenes DEF Inv, ReqsOK
<1>3. StacksOK' /\ stack'[fiber] = <<Code>>
      /\ \A f \in Tasks \cup {Runner} : f # fiber => stack'[f] = stack[f]
  BY <1>1, <1>2, TaskGoes
<1>4. FibersOK'
  BY <1>3, StackFacts, FiberStays
<1> QED BY <1>1, <1>3, <1>4

(* A task goes on after its request has ended.                              *)
LEMMA FinishedStep ==
    ASSUME Inv, Finished
    PROVE  Inv'
<1>1. PICK r : r = Top.r
  OBVIOUS
<1>2. /\ StacksOK' /\ FibersOK' /\ fiber \in Tasks /\ r \in Reqs /\ stack[fiber] = <<Waiting(r), Code>>
      /\ \A f \in Tasks \cup {Runner} : f # fiber => stack'[f] = stack[f]
  BY <1>1, TaskWakes DEF Finished
<1>3. req[r].place = "done" /\ ReqOK(r) /\ req \in [Reqs -> ReqType]
  BY <1>2 DEF Finished, Inv, OpsOK, ReqsOK, ReqType
<1>4. /\ req' \in [Reqs -> ReqType] /\ \A q \in Reqs : q # r => req'[q] = req[q]
      /\ req'[r].place = "done" /\ req'[r].task = req[r].task /\ req'[r].ran = req[r].ran
  BY <1>1, <1>2, <1>3 DEF Finished, ReqType
<1>5. ReqsOK'
  <2>1. UNCHANGED made
    BY DEF Finished
  <2>2. req'[r].ran = IF Untouched(req'[r].place) THEN 0 ELSE 1
    BY <1>3, <1>4 DEF ReqOK
  <2> QED BY <1>2, <1>3, <1>4, <2>1, <2>2, ReqChanges
<1>6. OpsOK'
  BY <1>2, <1>4, OpEnds DEF Finished
<1>7. PoolOK'
  <2>1. \A q \in Reqs : req[q].place \in {"queued", "running"} =>
                          req'[q].place = req[q].place /\ req'[q].slow = req[q].slow
    BY <1>3, <1>4
  <2> QED BY <2>1, PoolKept DEF Finished, Inv
<1> QED BY <1>2, <1>5, <1>6, <1>7 DEF Inv, Finished, LoopOK

(* A request is taken out of the queue it is in.                            *)
LEMMA UnlinkKeeps ==
    ASSUME QueuesOK, NEW r \in Reqs, wq' = Unlink(wq, r), slowq' = Unlink(slowq, r),
           \A q \in Reqs : q # r => req'[q] = req[q]
    PROVE  QueuesOK'
<1>1. MaxReqs \in Nat /\ r \in 0 .. MaxReqs
  BY RequestScenes DEF Reqs
<1>2. wq \in Seq(0 .. MaxReqs) /\ slowq \in Seq(Reqs) /\ Single(wq, 0 .. MaxReqs) /\ Single(slowq, Reqs)
  BY DEF QueuesOK
<1>3. wq' \in Seq(0 .. MaxReqs) /\ slowq' \in Seq(Reqs)
  BY <1>2, RemoveFirstType DEF Unlink
<1>4. /\ Single(wq', 0 .. MaxReqs)
      /\ \A i \in DOMAIN wq' : wq'[i] # r /\ \E j \in DOMAIN wq : wq'[i] = wq[j]
  BY <1>1, <1>2, RemoveFirstOnce DEF Unlink
<1>5. /\ Single(slowq', Reqs)
      /\ \A i \in DOMAIN slowq' : slowq'[i] # r /\ \E j \in DOMAIN slowq : slowq'[i] = slowq[j]
  BY <1>2, RemoveFirstOnce DEF Unlink
<1>6. \A i \in DOMAIN wq : wq[i] # SlowMsg => wq[i] \in Reqs
  BY <1>1, <1>2 DEF Reqs, SlowMsg
<1>7. \A i \in DOMAIN wq' : wq'[i] # SlowMsg => req'[wq'[i]].place = "queued" /\ ~req'[wq'[i]].slow
  <2> TAKE i \in DOMAIN wq'
  <2> HAVE wq'[i] # SlowMsg
  <2>1. PICK j \in DOMAIN wq : wq'[i] = wq[j] /\ wq[j] # r
    BY <1>4
  <2>2. wq[j] # SlowMsg /\ wq[j] \in Reqs /\ req[wq[j]].place = "queued" /\ ~req[wq[j]].slow
    BY <1>6, <2>1 DEF QueuesOK
  <2>3. req'[wq[j]] = req[wq[j]]
    BY <2>1, <2>2
  <2> QED BY <2>1, <2>2, <2>3
<1>8. \A i \in DOMAIN slowq' : req'[slowq'[i]].place = "queued" /\ req'[slowq'[i]].slow
  <2> TAKE i \in DOMAIN slowq'
  <2>1. PICK j \in DOMAIN slowq : slowq'[i] = slowq[j] /\ slowq[j] # r
    BY <1>5
  <2>2. slowq[j] \in Reqs /\ req[slowq[j]].place = "queued" /\ req[slowq[j]].slow
    BY <1>2, <2>1 DEF QueuesOK
  <2>3. req'[slowq[j]] = req[slowq[j]]
    BY <2>1, <2>2
  <2> QED BY <2>1, <2>2, <2>3
<1> QED BY <1>3, <1>4, <1>5, <1>7, <1>8 DEF QueuesOK

(* A request that was made is handed to the loop.                           *)
LEMMA LoopAppends ==
    ASSUME LoopOK, NEW r \in Reqs, r <= made, loopq' = Append(loopq, r), wake' \in BOOLEAN, UNCHANGED made
    PROVE  LoopOK'
<1>1. loopq \in Seq(Reqs) /\ \A i \in 1 .. Len(loopq) : loopq[i] <= made
  BY DEF LoopOK
<1>2. loopq' \in Seq(Reqs) /\ Len(loopq') = Len(loopq) + 1 /\ Len(loopq) \in Nat
      /\ \A i \in 1 .. Len(loopq') : loopq'[i] = IF i = Len(loopq') THEN r ELSE loopq[i]
  BY <1>1
<1>3. \A i \in 1 .. Len(loopq') : loopq'[i] <= made'
  BY <1>1, <1>2
<1> QED BY <1>2, <1>3 DEF LoopOK

(* A task goes on after its wait has failed: the request is cancelled if no *)
(* worker has taken it.                                                     *)
LEMMA GiveUpStep ==
    ASSUME Inv, GiveUp
    PROVE  Inv'
<1>1. PICK r : r = Top.r
  OBVIOUS
<1>2. /\ StacksOK' /\ FibersOK' /\ fiber \in Tasks /\ r \in Reqs /\ stack[fiber] = <<Waiting(r), Code>>
      /\ \A f \in Tasks \cup {Runner} : f # fiber => stack'[f] = stack[f]
  BY <1>1, TaskWakes DEF GiveUp
<1>3. /\ ReqOK(r) /\ req \in [Reqs -> ReqType] /\ QueuesOK /\ WorkersOK
      /\ UNCHANGED <<made, slow, worker>>
  BY <1>2 DEF GiveUp, Inv, ReqsOK, PoolOK, ReqType
<1>4. CASE ~Untaken(r)
  <2>1. UNCHANGED <<wq, slowq, req, loopq, wake>>
    BY <1>1, <1>4 DEF GiveUp
  <2>2. OpsOK'
    BY <1>2, <2>1, OpEnds DEF GiveUp
  <2>3. ReqsOK' /\ LoopOK'
    BY <1>3, <2>1 DEF Inv, ReqsOK, ReqOK, LoopOK
  <2>4. PoolOK'
    BY <1>3, <2>1, PoolKept DEF poolVars, Inv
  <2> QED BY <1>2, <2>2, <2>3, <2>4 DEF Inv
<1>5. CASE Untaken(r)
  <2>1. /\ wq' = Unlink(wq, r) /\ slowq' = Unlink(slowq, r)
        /\ req' = [req EXCEPT ![r].place = "cancelled", ![r].op = "freed"]
        /\ loopq' = Append(loopq, r) /\ wake' = TRUE
    BY <1>1, <1>5 DEF GiveUp
  <2>2. req[r].place = "queued" /\ r <= made
    BY <1>2, <1>3, <1>5, RequestScenes DEF Untaken, ReqOK, Reqs, Inv, ReqsOK
  <2>3. /\ req' \in [Reqs -> ReqType] /\ \A q \in Reqs : q # r => req'[q] = req[q]
        /\ req'[r].place = "cancelled" /\ req'[r].task = req[r].task /\ req'[r].ran = req[r].ran
    <3>1. r \in Reqs /\ req \in [Reqs -> ReqType]
      BY <1>2, <1>3
    <3>2. req'[r] = [req[r] EXCEPT !.place = "cancelled", !.op = "freed"]
          /\ \A q \in Reqs : q # r => req'[q] = req[q]
      BY <2>1, <3>1
    <3>3. req'[r] \in ReqType
      BY <3>1, <3>2 DEF ReqType
    <3>4. req[r] \in ReqType
      BY <3>1
    <3>5. req'[r].place = "cancelled" /\ req'[r].task = req[r].task /\ req'[r].ran = req[r].ran
      BY <3>2, <3>4 DEF ReqType
    <3> QED BY <2>1, <3>1, <3>2, <3>3, <3>5
  <2>4. ReqsOK'
    <3>1. req'[r].ran = IF Untouched(req'[r].place) THEN 0 ELSE 1
      BY <1>3, <2>2, <2>3 DEF ReqOK, Untouched
    <3> QED BY <1>2, <1>3, <2>2, <2>3, <3>1, ReqChanges
  <2>5. OpsOK'
    <3>1. \A q \in Reqs : req[q].place = "done" => req'[q].place = "done"
      BY <2>2, <2>3
    <3> QED BY <1>2, <3>1, OpEnds DEF GiveUp
  <2>6. QueuesOK'
    BY <1>2, <1>3, <2>1, <2>3, UnlinkKeeps
  <2>7. WorkersOK'
    <3>1. \A v \in Workers : worker[v].pc = "run" => req'[worker[v].r].place = "running"
      BY <1>3, <2>2, <2>3 DEF WorkersOK
    <3>2. worker' \in [Workers -> WorkerType] /\ worker' = worker
      BY <1>3 DEF WorkersOK
    <3> QED BY <1>3, <3>1, <3>2, WorkersKept
  <2>8. LoopOK'
    BY <1>2, <1>3, <2>1, <2>2, LoopAppends DEF Inv
  <2> QED BY <1>2, <2>4, <2>5, <2>6, <2>7, <2>8 DEF Inv, PoolOK
<1> QED BY <1>4, <1>5

-------------------------------------------------------------------------------
(* The requests and the pool are not concerned.                             *)
LEMMA RequestsStay ==
    ASSUME Inv, UNCHANGED <<made, req, poolVars>>
    PROVE  ReqsOK' /\ PoolOK'
<1>1. ReqsOK'
  BY DEF Inv, ReqsOK, ReqOK
<1>2. PoolOK'
  BY PoolKept DEF Inv
<1> QED BY <1>1, <1>2

(* A task ends.                                                             *)
LEMMA ReturnStep ==
    ASSUME Inv, Return
    PROVE  Inv'
<1>1. fiber \in Tasks /\ stack[fiber] = <<Code>> /\ Goto(<<Over>>) /\ Suspend /\ OfTask(<<Over>>)
      /\ UNCHANGED <<made, req, poolVars, op, Fixed, loopq, wake>> /\ made \in Nat
  BY Executing, StackFacts, RequestScenes DEF Return, Inv, ReqsOK
<1>2. StacksOK' /\ stack'[fiber] = <<Over>>
      /\ \A f \in Tasks \cup {Runner} : f # fiber => stack'[f] = stack[f]
  BY <1>1, TaskGoes
<1>3. FibersOK'
  BY <1>1, <1>2, FiberSuspends DEF Inv, StacksOK
<1>4. OpsOK'
  <2>1. ~Blocked(stack[fiber]) /\ op[fiber] # "RUNNING"
    BY <1>1, StackFacts DEF Blocked, Inv, OpsOK
  <2>2. \A t \in Tasks : op'[t] = "RUNNING" => Blocked(stack[t])'
    BY <1>1, <1>2, <2>1 DEF Inv, OpsOK, Blocked
  <2>3. \A r \in Reqs : stack'[fiber] # <<Waiting(r), Code>>
    BY <1>2, StackFacts
  <2> QED BY <1>1, <1>2, <2>2, <2>3 DEF Inv, OpsOK, Fixed
<1>5. ReqsOK' /\ PoolOK'
  BY <1>1, RequestsStay
<1> QED BY <1>1, <1>2, <1>3, <1>4, <1>5 DEF Inv, LoopOK

(* The event loop starts a task.                                            *)
LEMMA RunStep ==
    ASSUME Inv, NEW t \in Tasks, Run(t)
    PROVE  Inv'
<1>1. /\ fiber = Runner /\ stack[t] = <<>> /\ stack' = [stack EXCEPT ![t] = <<Code>>] /\ Switch(t)
      /\ UNCHANGED <<made, req, poolVars, op, Fixed, loopq, wake>> /\ made \in Nat
  BY Executing, RequestScenes DEF Run, Inv, ReqsOK
<1>2. stack'[t] = <<Code>> /\ \A f \in Tasks \cup {Runner} : f # t => stack'[f] = stack[f]
  BY <1>1 DEF Inv, StacksOK
<1>3. StacksOK'
  <2>1. stack' \in [Tasks \cup {Runner} -> Seq(Frames)]
    <3>1. <<Code>> \in Seq(Frames)
      BY StackFacts, TaskStackType
    <3> QED BY <1>1, <3>1 DEF Inv, StacksOK
  <2>2. \A u \in Tasks : OfTask(stack'[u])
    BY <1>2, StackFacts DEF Inv, StacksOK
  <2>3. OfLoop(stack[Runner])'
    BY <1>1, <1>2, RequestNames DEF Inv, StacksOK, OfLoop
  <2> QED BY <2>1, <2>2, <2>3 DEF StacksOK, OfTask, Blocked
<1>4. FibersOK'
  <2>1. fiber \in Left /\ t \notin Left
    BY <1>1, StackFacts, RequestNames DEF Left
  <2>2. stack'[t] \notin {<<>>, <<Over>>}
    BY <1>2, StackFacts
  <2> QED BY <1>1, <1>2, <2>1, <2>2, FiberSwitches
<1>5. OpsOK'
  <2>1. ~Blocked(stack[t]) /\ op[t] # "RUNNING"
    BY <1>1, StackFacts DEF Blocked, Inv, OpsOK
  <2>2. \A u \in Tasks : op'[u] = "RUNNING" => Blocked(stack[u])'
    BY <1>1, <1>2, <2>1 DEF Inv, OpsOK, Blocked
  <2>3. \A r \in Reqs : stack'[t] # <<Waiting(r), Code>>
    BY <1>2, StackFacts
  <2> QED BY <1>1, <1>2, <2>2, <2>3 DEF Inv, OpsOK, Fixed
<1>6. ReqsOK' /\ PoolOK'
  BY <1>1, RequestsStay
<1> QED BY <1>1, <1>3, <1>4, <1>5, <1>6 DEF Inv, LoopOK

(* A context is cancelled: a wait that is running fails.                    *)
LEMMA CancelStep ==
    ASSUME Inv, NEW t \in Tasks, Cancel(t)
    PROVE  Inv'
<1>1. fiber \in Left /\ UNCHANGED <<stack, code, made, req, poolVars, loopq, wake>>
  BY Executing DEF Cancel, Left, Inv, FibersOK, Parked
<1>2. StacksOK'
  BY <1>1 DEF Inv, StacksOK, OfTask, OfLoop, Blocked
<1>3. ReqsOK' /\ PoolOK'
  BY <1>1, RequestsStay
<1>4. cancels' \subseteq Tasks /\ cancelled' \subseteq Tasks
  BY DEF Cancel, Inv, OpsOK
<1>5. CASE op[t] = "RUNNING"
  <2>1. op' = [op EXCEPT ![t] = "FAILED"] /\ Switch(t) /\ Blocked(stack[t])
    BY <1>5 DEF Cancel, Inv, OpsOK
  <2>2. t \notin Left /\ stack'[t] \notin {<<>>, <<Over>>}
    BY <1>1, <2>1, StackFacts, RequestNames DEF Left, Blocked
  <2>3. FibersOK'
    BY <1>1, <2>1, <2>2, FiberSwitches
  <2>4. /\ op' \in [Tasks -> {"PENDING", "RUNNING", "RESOLVED", "FAILED"}]
        /\ op'[t] = "FAILED" /\ \A u \in Tasks : u # t => op'[u] = op[u]
    BY <2>1 DEF Inv, OpsOK
  <2>5. OpsOK'
    BY <1>1, <1>4, <2>4 DEF Inv, OpsOK, Blocked
  <2> QED BY <1>1, <1>2, <1>3, <2>3, <2>5 DEF Inv, LoopOK
<1>6. CASE op[t] # "RUNNING"
  <2>1. UNCHANGED <<op, fiber, fibers>>
    BY <1>6 DEF Cancel
  <2>2. FibersOK'
    BY <1>1, <2>1, ParkedIn DEF Inv, FibersOK, Left
  <2>3. OpsOK'
    BY <1>1, <1>4, <2>1 DEF Inv, OpsOK, Blocked
  <2> QED BY <1>1, <1>2, <1>3, <2>2, <2>3 DEF Inv, LoopOK
<1> QED BY <1>5, <1>6

(* uv__work_done takes the whole queue.                                     *)
LEMMA WorkDoneStep ==
    ASSUME Inv, WorkDone
    PROVE  Inv'
<1> DEFINE c == [i \in 1 .. Len(loopq) |-> DoneCb(loopq[i])]
           l == <<Loop>>
           s == c \o l
<1>1. fiber = Runner /\ stack[fiber] = l
  BY Executing DEF WorkDone
<1>2. Goto(s) /\ UNCHANGED <<fiber, fibers, op, Fixed, made, req, poolVars>> /\ wake' = FALSE /\ loopq' = <<>>
  BY <1>1 DEF WorkDone, StepTo
<1>3. loopq \in Seq(Reqs) /\ Len(loopq) \in Nat /\ \A i \in 1 .. Len(loopq) : loopq[i] \in 1 .. made
  <2>1. loopq \in Seq(Reqs) /\ \A i \in 1 .. Len(loopq) : loopq[i] <= made /\ loopq[i] \in Reqs
    BY DEF Inv, LoopOK
  <2>2. \A r \in Reqs : r <= made => r \in 1 .. made
    BY RequestScenes DEF Reqs, Inv, ReqsOK
  <2> QED BY <2>1, <2>2
<1>4. c \in Seq(Frames) /\ Len(c) = Len(loopq)
      /\ \A i \in 1 .. Len(loopq) : c[i].k = "done" /\ c[i].r \in 1 .. made
  <2>1. \A i \in 1 .. Len(loopq) : DoneCb(loopq[i]) \in Frames
    BY <1>3, FrameTypes
  <2> QED BY <1>3, <2>1, FrameKinds
<1>5. l \in Seq(Frames) /\ Len(l) = 1 /\ l[1] = Loop
  BY FrameTypes
<1> HIDE DEF c, l
<1>6. /\ s \in Seq(Frames) /\ Len(s) = Len(loopq) + 1
      /\ \A i \in 1 .. Len(s) : s[i] = IF i <= Len(loopq) THEN c[i] ELSE l[i - Len(loopq)]
  <2>1. c \o l \in Seq(Frames) /\ Len(c \o l) = Len(c) + Len(l)
        /\ \A i \in 1 .. Len(c) + Len(l) : (c \o l)[i] = IF i <= Len(c) THEN c[i] ELSE l[i - Len(c)]
    BY <1>4, <1>5, ConcatProperties
  <2> QED BY <1>4, <1>5, <2>1
<1> HIDE DEF s
<1>7. OfLoop(s)
  <2>1. s # <<>> /\ s[Len(s)] = Loop
    BY <1>3, <1>5, <1>6
  <2>2. \A i \in 1 .. Len(s) - 1 : s[i].k = "done" /\ s[i].r \in 1 .. made
    BY <1>3, <1>4, <1>6
  <2> QED BY <1>6, <2>1, <2>2 DEF OfLoop
<1>8. StacksOK' /\ stack'[Runner] = s /\ \A t \in Tasks : stack'[t] = stack[t]
  BY <1>1, <1>2, <1>7, LoopGoes
<1>9. FibersOK'
  <2>1. stack'[fiber] \notin {<<>>, <<Over>>}
    <3>1. Over \notin {Loop, Wild} /\ Len(<<Over>>) = 1 /\ <<Over>>[1] = Over
      BY FrameKinds
    <3> QED BY <1>1, <1>7, <1>8, <3>1 DEF OfLoop
  <2> QED BY <1>1, <1>2, <1>8, <2>1, FiberStays
<1>10. ReqsOK' /\ PoolOK'
  BY <1>2, RequestsStay
<1>11. OpsOK'
  BY <1>2, <1>8 DEF Inv, OpsOK, Fixed, Blocked
<1>12. LoopOK'
  <2>1. <<>> \in Seq(Reqs) /\ DOMAIN <<>> = {}
    OBVIOUS
  <2>2. loopq' \in Seq(Reqs) /\ \A i \in DOMAIN loopq' : FALSE
    BY <1>2, <2>1
  <2> QED BY <1>2, <2>2 DEF LoopOK
<1> QED BY <1>8, <1>9, <1>10, <1>11, <1>12 DEF Inv

(* The event loop goes on, nothing but the stack is changed.                *)
LEMMA LoopSteps ==
    ASSUME Inv, fiber = Runner, NEW s, OfLoop(s), StepTo(s), UNCHANGED <<Fixed, made>>,
           \A q \in Reqs : req[q].place = "done" => req'[q].place = "done"
    PROVE  StacksOK' /\ FibersOK' /\ OpsOK'
<1>1. Goto(s) /\ UNCHANGED <<fiber, fibers, op>>
  BY DEF StepTo
<1>2. StacksOK' /\ stack'[Runner] = s /\ \A t \in Tasks : stack'[t] = stack[t]
  BY <1>1, LoopGoes
<1>3. FibersOK'
  <2>1. stack'[fiber] \notin {<<>>, <<Over>>}
    <3>1. Over \notin {Loop, Wild} /\ Len(<<Over>>) = 1 /\ <<Over>>[1] = Over
      BY FrameKinds
    <3> QED BY <1>2, <3>1 DEF OfLoop
  <2> QED BY <1>1, <1>2, <2>1, FiberStays
<1>4. OpsOK'
  BY <1>1, <1>2 DEF Inv, OpsOK, Fixed, Blocked
<1> QED BY <1>2, <1>3, <1>4

(* A callback ends the operation of its task, if it still waits.            *)
LEMMA DoneStep ==
    ASSUME Inv, Done
    PROVE  Inv'
<1>0. PICK r : r = Top.r
  OBVIOUS
<1>1. fiber = Runner /\ r \in 1 .. made /\ OfLoop(Rest) /\ UNCHANGED <<Fixed, made, poolVars, loopq, wake>>
  BY <1>0, Executing DEF Done
<1>2. r \in Reqs
  BY <1>1, RequestScenes DEF Reqs, Inv, ReqsOK
<1>3. LoopOK'
  BY <1>1 DEF Inv, LoopOK
<1>4. CASE StepTo(<<Wild>>) /\ UNCHANGED req
  <2> DEFINE s == <<Wild>>
  <2>1. OfLoop(s)
    BY FrameTypes DEF OfLoop
  <2> HIDE DEF s
  <2>2. StacksOK' /\ FibersOK' /\ OpsOK'
    BY <1>1, <1>4, <2>1, LoopSteps DEF s
  <2> QED BY <1>1, <1>3, <1>4, <2>2, RequestsStay DEF Inv
<1>5. CASE /\ req[r].place = "loop" /\ req' = [req EXCEPT ![r].place = "done"]
           /\ IF Abandoned(r) THEN StepTo(Rest)
              ELSE op' = [op EXCEPT ![req[r].task] = "RESOLVED"] /\ Switch(req[r].task) /\ Goto(Rest)
  <2>1. ReqOK(r) /\ req \in [Reqs -> ReqType] /\ PoolOK
    BY <1>2 DEF Inv, ReqsOK, ReqType
  <2>2. /\ req' \in [Reqs -> ReqType] /\ \A q \in Reqs : q # r => req'[q] = req[q]
        /\ req'[r].place = "done" /\ req'[r].task = req[r].task /\ req'[r].ran = req[r].ran
    BY <1>2, <1>5, <2>1 DEF ReqType
  <2>3. ReqsOK'
    <3>1. req'[r].ran = IF Untouched(req'[r].place) THEN 0 ELSE 1
      BY <1>5, <2>1, <2>2 DEF ReqOK, Untouched
    <3> QED BY <1>1, <1>2, <1>5, <2>2, <3>1, ReqChanges
  <2>4. PoolOK'
    BY <1>1, <1>5, <2>1, <2>2, PoolKept
  <2>5. \A q \in Reqs : req[q].place = "done" => req'[q].place = "done"
    BY <2>2
  <2>6. CASE Abandoned(r)
    <3>1. StepTo(Rest)
      BY <1>5, <2>6
    <3>2. PICK s : s = Rest
      OBVIOUS
    <3>3. StacksOK' /\ FibersOK' /\ OpsOK'
      BY <1>1, <2>5, <3>1, <3>2, LoopSteps
    <3> QED BY <1>3, <2>3, <2>4, <3>3 DEF Inv
  <2>7. CASE ~Abandoned(r)
    <3>1. PICK t : t = req[r].task
      OBVIOUS
    <3>2. t \in Tasks /\ t # Runner /\ op' = [op EXCEPT ![t] = "RESOLVED"] /\ Switch(t) /\ Goto(Rest)
          /\ Waiting(r) \in ToSet(stack[t])
      BY <1>5, <2>1, <2>7, <3>1, RequestNames DEF ReqOK, Abandoned
    <3>3. stack[t] = <<Waiting(r), Code>>
      <4>1. stack[t] \notin {<<>>, <<Code>>, <<Over>>}
        BY <3>2, FrameKinds DEF ToSet
      <4>2. PICK q \in Reqs : stack[t] = <<Waiting(q), Code>>
        BY <3>2, <4>1 DEF Inv, StacksOK, OfTask, Blocked
      <4>3. ToSet(<<Waiting(q), Code>>) = {Waiting(q), Code}
        BY DEF ToSet
      <4> QED BY <3>2, <4>2, <4>3, FrameKinds
    <3>4. PICK s : s = Rest
      OBVIOUS
    <3>5. StacksOK' /\ stack'[Runner] = s /\ \A u \in Tasks : stack'[u] = stack[u]
      BY <1>1, <3>2, <3>4, LoopGoes
    <3>6. FibersOK'
      <4>1. fiber \in Left /\ t \notin Left /\ stack'[t] \notin {<<>>, <<Over>>}
        BY <1>1, <3>2, <3>3, <3>5, StackFacts DEF Left
      <4> QED BY <3>2, <3>5, <4>1, FiberSwitches
    <3>7. /\ op' \in [Tasks -> {"PENDING", "RUNNING", "RESOLVED", "FAILED"}]
          /\ op'[t] = "RESOLVED" /\ \A u \in Tasks : u # t => op'[u] = op[u]
      BY <3>2 DEF Inv, OpsOK
    <3>8. \A u \in Tasks : op'[u] = "RUNNING" => Blocked(stack[u])'
      BY <3>5, <3>7 DEF Inv, OpsOK, Blocked
    <3>9. ASSUME NEW u \in Tasks, NEW q \in Reqs, stack'[u] = <<Waiting(q), Code>>, op'[u] = "RESOLVED"
          PROVE  req'[q].place = "done"
      <4>1. CASE u = t
        <5>1. q = r
          BY <3>3, <3>5, <3>9, <4>1, StackFacts
        <5> QED BY <2>2, <5>1
      <4>2. CASE u # t
        BY <2>5, <3>5, <3>7, <3>9, <4>2 DEF Inv, OpsOK
      <4> QED BY <4>1, <4>2
    <3>10. OpsOK'
      BY <1>1, <3>7, <3>8, <3>9 DEF Inv, OpsOK, Fixed
    <3> QED BY <1>3, <2>3, <2>4, <3>5, <3>6, <3>10 DEF Inv
  <2> QED BY <2>6, <2>7
<1> QED BY <1>0, <1>4, <1>5 DEF Done

-------------------------------------------------------------------------------
(* The workers.                                                             *)

(* The slow requests that are executed, without those of worker w.          *)
Others(w) == Running \ {w}
Slowed(w) == IF worker[w].pc = "after" /\ worker[w].slow THEN 1 ELSE 0

(* slow, less what w returns, is the number of slow requests that others    *)
(* execute.                                                                 *)
LEMMA Counted ==
    ASSUME WorkersOK, NEW w \in Workers, worker[w].pc \in {"ready", "woken", "after"}
    PROVE  /\ IsFiniteSet(Others(w)) /\ Cardinality(Others(w)) = slow - Slowed(w)
           /\ slow - Slowed(w) \in Nat /\ slow - Slowed(w) <= Threshold
           /\ Threshold \in Nat
<1>1. IsFiniteSet(Running) /\ slow = Cardinality(Running) /\ slow <= Threshold
  BY Threads, FS_Subset DEF Running, WorkersOK
<1>2. slow \in Nat /\ Threshold \in Nat
  <2>1. Cardinality(Workers) \in Nat
    BY Threads, FS_CardinalityType
  <2> QED BY <1>1, <2>1, FS_CardinalityType DEF Threshold
<1>3. IsFiniteSet(Others(w))
  BY <1>1, FS_Subset DEF Others
<1>4. w \in Running <=> Slowed(w) = 1
  BY DEF Running, Slowed
<1>5. CASE w \in Running
  <2>1. Cardinality(Others(w)) = Cardinality(Running) - 1
    BY <1>1, <1>5, FS_RemoveElement DEF Others
  <2>2. Cardinality(Others(w)) \in Nat
    BY <1>3, FS_CardinalityType
  <2> QED BY <1>1, <1>2, <1>3, <1>4, <1>5, <2>1, <2>2
<1>6. CASE w \notin Running
  <2>1. Others(w) = Running /\ Slowed(w) = 0
    BY <1>4, <1>6 DEF Others, Slowed
  <2> QED BY <1>1, <1>2, <2>1
<1> QED BY <1>5, <1>6

(* What worker w finds in the queue when n slow requests are executed.      *)
LEMMA AvailableFacts ==
    ASSUME QueuesOK, NEW n
    PROVE  /\ Available(n) \in Seq(0 .. MaxReqs) /\ Single(Available(n), 0 .. MaxReqs)
           /\ \A i \in DOMAIN Available(n) :
                Available(n)[i] = SlowMsg \/ \E j \in DOMAIN wq : Available(n)[i] = wq[j]
           /\ Available(n) # <<>> /\ Head(Available(n)) = SlowMsg /\ ~AtThreshold(n) => slowq # <<>>
<1> DEFINE S == 0 .. MaxReqs
           q == Available(n)
<1>1. wq \in Seq(S) /\ Single(wq, S) /\ SlowMsg \in S
  BY RequestScenes DEF QueuesOK, SlowMsg
<1> HIDE DEF S
<1>2. CASE ~(wq # <<>> /\ Head(wq) = SlowMsg)
  <2>1. q = wq
    BY <1>2 DEF Available
  <2> QED BY <1>1, <1>2, <2>1 DEF S
<1>3. CASE wq # <<>> /\ Head(wq) = SlowMsg
  <2>1. /\ Tail(wq) \in Seq(S) /\ Single(Tail(wq), S)
        /\ \A i \in DOMAIN Tail(wq) : i + 1 \in DOMAIN wq /\ Tail(wq)[i] = wq[i + 1]
        /\ \A i \in DOMAIN Tail(wq) : Tail(wq)[i] # SlowMsg
    BY <1>1, <1>3, SingleTail
  <2>2. CASE AtThreshold(n)
    <3>1. q = Append(Tail(wq), SlowMsg)
      BY <1>3, <2>2 DEF Available
    <3>2. /\ q \in Seq(S) /\ Single(q, S)
          /\ \A i \in DOMAIN q : q[i] = SlowMsg \/ \E j \in DOMAIN Tail(wq) : q[i] = Tail(wq)[j]
      <4> DEFINE z == Tail(wq)
      <4>1. z \in Seq(S) /\ Single(z, S) /\ \A i \in DOMAIN z : z[i] # SlowMsg
        BY <2>1
      <4>2. q = Append(z, SlowMsg)
        BY <3>1
      <4> HIDE DEF z, q
      <4>3. /\ q \in Seq(S) /\ Single(q, S)
            /\ \A i \in DOMAIN q : q[i] = SlowMsg \/ \E j \in DOMAIN z : q[i] = z[j]
        BY <1>1, <4>1, <4>2, SingleAppend
      <4> QED BY <4>3 DEF z
    <3> HIDE DEF q
    <3>3. \A i \in DOMAIN q : q[i] = SlowMsg \/ \E j \in DOMAIN wq : q[i] = wq[j]
      BY <2>1, <3>2
    <3> QED BY <2>2, <3>2, <3>3 DEF q, S
  <2>3. CASE ~AtThreshold(n) /\ slowq = <<>>
    <3>1. q = Tail(wq)
      BY <1>3, <2>3 DEF Available
    <3>2. q # <<>> => Head(q) # SlowMsg
      <4>1. q # <<>> => 1 \in DOMAIN q /\ Head(q) = q[1]
        BY <2>1, <3>1, SingleTail
      <4> QED BY <2>1, <3>1, <4>1
    <3> HIDE DEF q
    <3>3. \A i \in DOMAIN q : q[i] = SlowMsg \/ \E j \in DOMAIN wq : q[i] = wq[j]
      BY <2>1, <3>1
    <3> QED BY <2>1, <3>1, <3>2, <3>3 DEF q, S
  <2>4. CASE ~AtThreshold(n) /\ slowq # <<>>
    <3>1. q = wq
      BY <1>3, <2>4 DEF Available
    <3> QED BY <1>1, <2>4, <3>1 DEF S
  <2> QED BY <2>2, <2>3, <2>4
<1> QED BY <1>2, <1>3

(* Worker w goes to sleep or takes a request, others may be woken.          *)
LEMMA WorkerTakes ==
    ASSUME WorkersOK, NEW w \in Workers, worker[w].pc \in {"ready", "woken", "after"},
           NEW x \in WorkerType, x.pc \in {"sleeping", "run"},
           worker' \in [Workers -> WorkerType],
           \A v \in Workers : LET b == [worker EXCEPT ![w] = x][v]
                              IN /\ Busy(worker'[v].pc) <=> Busy(b.pc)
                                 /\ Busy(b.pc) => worker'[v] = b,
           x.pc = "run" => x.r \in Reqs /\ req[x.r].place # "running" /\ req'[x.r].place = "running",
           \A v \in Workers : v # w /\ worker[v].pc = "run" => req'[worker[v].r].place = "running",
           IF x.pc = "run" /\ x.slow THEN slow' = slow - Slowed(w) + 1 /\ ~AtThreshold(slow - Slowed(w))
                                     ELSE slow' = slow - Slowed(w)
    PROVE  WorkersOK'
<1>1. /\ \A v \in Workers : v # w => /\ Busy(worker'[v].pc) <=> Busy(worker[v].pc)
                                     /\ Busy(worker[v].pc) => worker'[v] = worker[v]
      /\ Busy(worker'[w].pc) <=> x.pc = "run"
      /\ x.pc = "run" => worker'[w] = x
  BY DEF WorkersOK, Busy
<1>2. \A v \in Workers : worker'[v].pc = "run" =>
        \/ v = w /\ x.pc = "run" /\ worker'[v] = x
        \/ v # w /\ worker[v].pc = "run" /\ worker'[v] = worker[v]
  BY <1>1 DEF Busy
<1>3. \A v \in Workers : v # w /\ worker[v].pc = "run" => req[worker[v].r].place = "running" /\ worker[v].r \in Reqs
  BY DEF WorkersOK
<1>4. \A u, v \in Workers : worker'[u].pc = "run" /\ worker'[v].pc = "run" /\ worker'[v].r = worker'[u].r => v = u
  BY <1>2, <1>3 DEF WorkersOK
<1>5. \A v \in Workers : worker'[v].pc = "run" => worker'[v].r \in Reqs /\ req'[worker'[v].r].place = "running"
  BY <1>2, <1>3
<1>6. /\ IsFiniteSet(Others(w)) /\ Cardinality(Others(w)) = slow - Slowed(w)
      /\ slow - Slowed(w) \in Nat /\ slow - Slowed(w) <= Threshold /\ Threshold \in Nat
  BY Counted
<1>7. \A v \in Workers : v # w => (v \in Running' <=> v \in Running)
  BY <1>1 DEF Running, Busy
<1>8. w \in Running' <=> x.pc = "run" /\ x.slow
  BY <1>1 DEF Running, Busy
<1>9. CASE x.pc = "run" /\ x.slow
  <2>1. Running' = Others(w) \cup {w} /\ w \notin Others(w)
    BY <1>7, <1>8, <1>9 DEF Others, Running
  <2>2. Cardinality(Running') = slow'
    <3>1. Cardinality(Running') = Cardinality(Others(w)) + 1
      BY <1>6, <2>1, FS_AddElement
    <3>2. slow' = slow - Slowed(w) + 1
      BY <1>9
    <3> QED BY <1>6, <3>1, <3>2
  <2>3. slow' <= Threshold'
    BY <1>6, <1>9 DEF AtThreshold, Threshold
  <2> QED BY <1>4, <1>5, <2>2, <2>3 DEF WorkersOK
<1>10. CASE ~(x.pc = "run" /\ x.slow)
  <2>1. Running' = Others(w)
    BY <1>7, <1>8, <1>10 DEF Others, Running
  <2>2. Cardinality(Running') = slow' /\ slow' <= Threshold'
    BY <1>6, <1>10, <2>1 DEF Threshold
  <2> QED BY <1>4, <1>5, <2>2 DEF WorkersOK
<1> QED BY <1>9, <1>10

(* A worker does not touch the tasks.                                       *)
LEMMA TasksStay ==
    ASSUME Inv, UNCHANGED <<taskVars, made>>,
           \A q \in Reqs : req[q].place = "done" => req'[q].place = "done"
    PROVE  StacksOK' /\ FibersOK' /\ OpsOK'
<1>1. UNCHANGED <<fiber, fibers, stack, code, cancels, op, cancelled, made>>
  BY DEF taskVars
<1>2. StacksOK'
  BY <1>1 DEF Inv, StacksOK, OfTask, OfLoop, Blocked
<1>3. FibersOK'
  BY <1>1, ParkedIn DEF Inv, FibersOK, Left
<1>4. OpsOK'
  BY <1>1 DEF Inv, OpsOK, Blocked
<1> QED BY <1>2, <1>3, <1>4

(* Request r, which no worker had taken, is now executed by worker w.       *)
LEMMA Taken ==
    ASSUME Inv, NEW r \in Reqs, req[r].place = "queued", req' = [req EXCEPT ![r].place = "running"],
           UNCHANGED made
    PROVE  /\ ReqsOK' /\ \A q \in Reqs : q # r => req'[q] = req[q]
           /\ req'[r].place = "running" /\ req'[r].slow = req[r].slow
           /\ \A q \in Reqs : req[q].place = "done" => req'[q].place = "done"
<1>1. ReqOK(r) /\ req \in [Reqs -> ReqType]
  BY DEF Inv, ReqsOK, ReqType
<1>2. /\ req' \in [Reqs -> ReqType] /\ \A q \in Reqs : q # r => req'[q] = req[q]
      /\ req'[r].place = "running" /\ req'[r].task = req[r].task /\ req'[r].ran = req[r].ran
      /\ req'[r].op = req[r].op /\ req'[r].slow = req[r].slow
  BY <1>1 DEF ReqType
<1>3. req'[r].ran = IF Untouched(req'[r].place) THEN 0 ELSE 1
  BY <1>1, <1>2 DEF ReqOK, Untouched
<1>4. req'[r].op = "alive"
  BY <1>1, <1>2 DEF ReqOK
<1>5. ReqsOK'
  BY <1>2, <1>3, <1>4, ReqChanges
<1> QED BY <1>2, <1>5

(* A worker takes a request, or goes to sleep.                              *)
LEMMA TakeStep ==
    ASSUME Inv, NEW w \in Workers, Take(w)
    PROVE  Inv'
<1>1. PICK n, q : n = slow - Slowed(w) /\ q = Available(n)
  OBVIOUS
<1>2. worker[w].pc \in {"ready", "woken", "after"} /\ UNCHANGED <<taskVars, made, loopq, wake>>
      /\ QueuesOK /\ WorkersOK /\ worker \in [Workers -> WorkerType]
  BY DEF Take, Inv, PoolOK, WorkersOK
<1>3. LoopOK'
  BY <1>2 DEF Inv, LoopOK
<1>4. /\ q \in Seq(0 .. MaxReqs) /\ Single(q, 0 .. MaxReqs)
      /\ \A i \in DOMAIN q : q[i] = SlowMsg \/ \E j \in DOMAIN wq : q[i] = wq[j]
      /\ q # <<>> /\ Head(q) = SlowMsg /\ ~AtThreshold(n) => slowq # <<>>
  BY <1>1, <1>2, AvailableFacts
<1>5. \A i \in DOMAIN q : q[i] # SlowMsg => q[i] \in Reqs /\ req[q[i]].place = "queued" /\ ~req[q[i]].slow
  <2>1. \A i \in DOMAIN q : q[i] # SlowMsg => q[i] \in Reqs
    BY <1>4, RequestScenes DEF Reqs, SlowMsg
  <2> QED BY <1>2, <1>4, <2>1 DEF QueuesOK
<1>6. /\ slowq \in Seq(Reqs) /\ Single(slowq, Reqs)
      /\ \A i \in DOMAIN slowq : slowq[i] \in Reqs /\ req[slowq[i]].place = "queued" /\ req[slowq[i]].slow
  BY <1>2 DEF QueuesOK
<1>7. \A v \in Workers : worker[v].pc = "run" => worker[v].r \in Reqs /\ req[worker[v].r].place = "running"
  BY <1>2 DEF WorkersOK
<1>8. SlowMsg \in 0 .. MaxReqs /\ \A r \in Reqs : r \in 0 .. MaxReqs /\ r # SlowMsg
  BY RequestScenes DEF Reqs, SlowMsg
<1>9. \A x \in WorkerType : worker' = [worker EXCEPT ![w] = x] =>
        /\ worker' \in [Workers -> WorkerType]
        /\ \A v \in Workers : LET b == [worker EXCEPT ![w] = x][v]
                              IN /\ Busy(worker'[v].pc) <=> Busy(b.pc)
                                 /\ Busy(b.pc) => worker'[v] = b
  BY <1>2
<1>10. CASE q = <<>> \/ (Head(q) = SlowMsg /\ AtThreshold(n))
  <2>1. /\ worker' = [worker EXCEPT ![w] = Idle("sleeping")]
        /\ wq' = q /\ slow' = n /\ UNCHANGED <<slowq, req>>
    BY <1>1, <1>10 DEF Take, Slowed
  <2>2. QueuesOK'
    BY <1>4, <1>5, <1>6, <2>1 DEF QueuesOK
  <2>3. PICK x \in WorkerType : x = Idle("sleeping")
    BY <1>8 DEF WorkerType, Idle, SlowMsg
  <2>4. x.pc = "sleeping"
    BY <2>3 DEF Idle
  <2>5. WorkersOK'
    <3>1. worker' = [worker EXCEPT ![w] = x]
      BY <2>1, <2>3
    <3> QED BY <1>1, <1>2, <1>7, <1>9, <2>1, <2>4, <3>1, WorkerTakes
  <2>6. ReqsOK'
    BY <1>2, <2>1 DEF Inv, ReqsOK, ReqOK
  <2> QED BY <1>2, <1>3, <2>1, <2>2, <2>5, <2>6, TasksStay DEF Inv, PoolOK
<1>11. CASE q # <<>> /\ Head(q) = SlowMsg /\ ~AtThreshold(n)
  <2>1. PICK r : r = Head(slowq)
    OBVIOUS
  <2>2. /\ r = slowq[1] /\ 1 \in DOMAIN slowq
        /\ Tail(slowq) \in Seq(Reqs) /\ Single(Tail(slowq), Reqs)
        /\ \A i \in DOMAIN Tail(slowq) : i + 1 \in DOMAIN slowq /\ Tail(slowq)[i] = slowq[i + 1]
        /\ r \in Reqs => \A i \in DOMAIN Tail(slowq) : Tail(slowq)[i] # r
    BY <1>4, <1>6, <1>11, <2>1, SingleTail
  <2>3. r \in Reqs /\ req[r].place = "queued" /\ req[r].slow
    BY <1>6, <2>2
  <2>4. PICK x \in WorkerType : x = [pc |-> "run", r |-> r, slow |-> TRUE]
    BY <1>8, <2>3 DEF WorkerType
  <2>5. PICK ws \in [Workers -> WorkerType] : ws = [worker EXCEPT ![w] = x]
    BY <1>2
  <2>6. /\ slow' = n + 1 /\ slowq' = Tail(slowq)
        /\ req' = [req EXCEPT ![r].place = "running"]
        /\ \/ wq' = Append(Tail(q), SlowMsg) /\ Signal(ws)
           \/ wq' = Tail(q) /\ worker' = ws
    BY <1>1, <1>11, <2>1, <2>4, <2>5 DEF Take, Slowed
  <2>7. /\ ReqsOK' /\ \A p \in Reqs : p # r => req'[p] = req[p]
        /\ req'[r].place = "running" /\ req'[r].slow = req[r].slow
        /\ \A p \in Reqs : req[p].place = "done" => req'[p].place = "done"
    BY <1>2, <2>3, <2>6, Taken
  <2>8. QueuesOK'
    <3> DEFINE S == 0 .. MaxReqs
               z == Tail(q)
    <3>1. /\ z \in Seq(S) /\ Single(z, S)
          /\ \A i \in DOMAIN z : i + 1 \in DOMAIN q /\ z[i] = q[i + 1]
          /\ \A i \in DOMAIN z : z[i] # SlowMsg
      BY <1>4, <1>8, <1>11, SingleTail
    <3>2. wq' = Append(z, SlowMsg) \/ wq' = z
      BY <2>6
    <3>3. SlowMsg \in S
      BY <1>8
    <3> HIDE DEF z, S
    <3>4. /\ wq' \in Seq(S) /\ Single(wq', S)
          /\ \A i \in DOMAIN wq' : wq'[i] = SlowMsg \/ \E j \in DOMAIN z : wq'[i] = z[j]
      <4>1. CASE wq' = Append(z, SlowMsg)
        BY <3>1, <3>3, <4>1, SingleAppend
      <4>2. CASE wq' = z
        BY <3>1, <4>2
      <4> QED BY <3>2, <4>1, <4>2
    <3>5. \A i \in DOMAIN z : z[i] \in Reqs /\ z[i] # r /\ req[z[i]].place = "queued" /\ ~req[z[i]].slow
      BY <1>5, <2>3, <3>1
    <3>6. \A i \in DOMAIN wq' : wq'[i] # SlowMsg => req'[wq'[i]].place = "queued" /\ ~req'[wq'[i]].slow
      BY <2>7, <3>4, <3>5
    <3>7. \A i \in DOMAIN Tail(slowq) : req'[Tail(slowq)[i]].place = "queued" /\ req'[Tail(slowq)[i]].slow
      BY <1>6, <2>2, <2>3, <2>7
    <3> QED BY <2>2, <2>6, <3>4, <3>6, <3>7 DEF S, QueuesOK
  <2>9. WorkersOK'
    <3>1. /\ worker' \in [Workers -> WorkerType]
          /\ \A v \in Workers : /\ Busy(worker'[v].pc) <=> Busy(ws[v].pc)
                                /\ Busy(ws[v].pc) => worker'[v] = ws[v]
      <4>1. \A v \in Sleeping : ws[v].pc = "sleeping"
        BY <1>2, <2>5 DEF Sleeping
      <4>2. CASE Signal(ws)
        BY <4>1, <4>2, SignalWakes
      <4>3. CASE worker' = ws
        BY <4>3
      <4> QED BY <2>6, <4>2, <4>3
    <3>2. x.pc = "run" /\ x.slow /\ x.r = r
      BY <2>4
    <3>3. \A v \in Workers : v # w /\ worker[v].pc = "run" => req'[worker[v].r].place = "running"
      BY <1>7, <2>3, <2>7
    <3>4. \A v \in Workers : LET b == [worker EXCEPT ![w] = x][v]
                             IN /\ Busy(worker'[v].pc) <=> Busy(b.pc)
                                /\ Busy(b.pc) => worker'[v] = b
      BY <2>5, <3>1
    <3>5. x.r \in Reqs /\ req[x.r].place # "running" /\ req'[x.r].place = "running"
      BY <2>3, <2>7, <3>2
    <3>6. slow' = slow - Slowed(w) + 1 /\ ~AtThreshold(slow - Slowed(w))
      BY <1>1, <1>11, <2>6
    <3> QED BY <1>2, <3>1, <3>2, <3>3, <3>4, <3>5, <3>6, WorkerTakes
  <2> QED BY <1>2, <1>3, <2>7, <2>8, <2>9, TasksStay DEF Inv, PoolOK
<1>12. CASE q # <<>> /\ Head(q) # SlowMsg
  <2>1. PICK r : r = Head(q)
    OBVIOUS
  <2> DEFINE S == 0 .. MaxReqs
  <2>2. /\ r = q[1] /\ 1 \in DOMAIN q
        /\ Tail(q) \in Seq(S) /\ Single(Tail(q), S)
        /\ \A i \in DOMAIN Tail(q) : i + 1 \in DOMAIN q /\ Tail(q)[i] = q[i + 1]
        /\ r \in S => \A i \in DOMAIN Tail(q) : Tail(q)[i] # r
    BY <1>4, <1>12, <2>1, SingleTail
  <2>3. r \in Reqs /\ r \in S /\ req[r].place = "queued" /\ ~req[r].slow
    BY <1>5, <1>8, <1>12, <2>1, <2>2
  <2>4. PICK x \in WorkerType : x = [pc |-> "run", r |-> r, slow |-> FALSE]
    BY <2>3 DEF WorkerType
  <2>5. /\ slow' = n /\ UNCHANGED slowq /\ wq' = Tail(q)
        /\ req' = [req EXCEPT ![r].place = "running"]
        /\ worker' = [worker EXCEPT ![w] = x]
    BY <1>1, <1>12, <2>1, <2>4 DEF Take, Slowed
  <2>6. /\ ReqsOK' /\ \A p \in Reqs : p # r => req'[p] = req[p]
        /\ req'[r].place = "running" /\ req'[r].slow = req[r].slow
        /\ \A p \in Reqs : req[p].place = "done" => req'[p].place = "done"
    BY <1>2, <2>3, <2>5, Taken
  <2>7. QueuesOK'
    <3>1. \A i \in DOMAIN Tail(q) : Tail(q)[i] # SlowMsg =>
            req'[Tail(q)[i]].place = "queued" /\ ~req'[Tail(q)[i]].slow
      <4> DEFINE z == Tail(q)
      <4>1. \A i \in DOMAIN z : i + 1 \in DOMAIN q /\ z[i] = q[i + 1] /\ z[i] # r
        BY <2>2, <2>3
      <4> HIDE DEF z
      <4>2. \A i \in DOMAIN z : z[i] # SlowMsg => z[i] \in Reqs /\ req[z[i]].place = "queued" /\ ~req[z[i]].slow
        BY <1>5, <4>1
      <4>3. \A i \in DOMAIN z : z[i] # SlowMsg => req'[z[i]] = req[z[i]]
        BY <2>6, <4>1, <4>2
      <4>4. \A i \in DOMAIN z : z[i] # SlowMsg => req'[z[i]].place = "queued" /\ ~req'[z[i]].slow
        BY <4>2, <4>3
      <4> QED BY <4>4 DEF z
    <3>2. \A i \in DOMAIN slowq : req'[slowq[i]].place = "queued" /\ req'[slowq[i]].slow
      BY <1>6, <2>3, <2>6
    <3> QED BY <1>6, <2>2, <2>5, <3>1, <3>2 DEF QueuesOK
  <2>8. WorkersOK'
    <3>1. x.pc = "run" /\ ~x.slow /\ x.r = r
      BY <2>4
    <3>2. \A v \in Workers : v # w /\ worker[v].pc = "run" => req'[worker[v].r].place = "running"
      BY <1>7, <2>3, <2>6
    <3> QED BY <1>1, <1>2, <1>9, <2>3, <2>5, <2>6, <3>1, <3>2, WorkerTakes
  <2> QED BY <1>2, <1>3, <2>6, <2>7, <2>8, TasksStay DEF Inv, PoolOK
<1> QED BY <1>10, <1>11, <1>12

(* A worker has executed its request.                                       *)
LEMMA WorkStep ==
    ASSUME Inv, NEW w \in Workers, Work(w)
    PROVE  Inv'
<1>1. PICK r : r = worker[w].r
  OBVIOUS
<1>2. /\ worker[w].pc = "run" /\ UNCHANGED <<taskVars, made, wq, slowq, slow>>
      /\ worker' = [worker EXCEPT ![w].pc = "after", ![w].r = 0]
      /\ req' = [req EXCEPT ![r].place = "loop", ![r].ran = @ + 1]
      /\ loopq' = Append(loopq, r) /\ wake' = TRUE
  BY <1>1 DEF Work
<1>3. QueuesOK /\ WorkersOK /\ worker \in [Workers -> WorkerType] /\ req \in [Reqs -> ReqType]
  BY DEF Inv, PoolOK, WorkersOK, ReqsOK, ReqType
<1>4. /\ r \in Reqs /\ req[r].place = "running" /\ ReqOK(r)
      /\ \A v \in Workers : worker[v].pc = "run" /\ worker[v].r = r => v = w
  BY <1>1, <1>2, <1>3 DEF WorkersOK, Inv, ReqsOK
<1>5. req[r].ran = 0 /\ r <= made
  BY <1>4, RequestScenes DEF ReqOK, Untouched, Reqs, Inv, ReqsOK
<1>6. /\ \A q \in Reqs : q # r => req'[q] = req[q]
      /\ req'[r].place = "loop" /\ req'[r].task = req[r].task /\ req'[r].ran = 1
  BY <1>2, <1>3, <1>4, <1>5 DEF ReqType
<1>7. req' \in [Reqs -> ReqType]
  <2>1. [req[r] EXCEPT !.place = "loop", !.ran = 1] \in ReqType
    BY <1>3, <1>4 DEF ReqType
  <2>2. req' = [req EXCEPT ![r] = [req[r] EXCEPT !.place = "loop", !.ran = 1]]
    BY <1>2, <1>3, <1>4, <1>5 DEF ReqType
  <2> QED BY <1>3, <2>1, <2>2
<1>8. ReqsOK'
  <2>1. req'[r].ran = IF Untouched(req'[r].place) THEN 0 ELSE 1
    BY <1>6 DEF Untouched
  <2> QED BY <1>2, <1>4, <1>6, <1>7, <2>1, ReqChanges
<1>9. StacksOK' /\ FibersOK' /\ OpsOK'
  <2>1. \A q \in Reqs : req[q].place = "done" => req'[q].place = "done"
    BY <1>4, <1>6
  <2> QED BY <1>2, <2>1, TasksStay
<1>10. LoopOK'
  BY <1>2, <1>4, <1>5, LoopAppends DEF Inv
<1>11. QueuesOK'
  <2>1. \A i \in DOMAIN wq : wq[i] # SlowMsg => wq[i] \in Reqs /\ wq[i] # r
    BY <1>3, <1>4, RequestScenes DEF QueuesOK, Reqs, SlowMsg
  <2>2. \A i \in DOMAIN slowq : slowq[i] \in Reqs /\ slowq[i] # r
    BY <1>3, <1>4 DEF QueuesOK
  <2> QED BY <1>2, <1>3, <1>6, <2>1, <2>2 DEF QueuesOK
<1>12. /\ worker' \in [Workers -> WorkerType]
       /\ \A v \in Workers : v # w => worker'[v] = worker[v]
       /\ worker'[w].pc = "after" /\ worker'[w].slow = worker[w].slow
  <2>1. 0 \in 0 .. MaxReqs
    BY RequestScenes
  <2> QED BY <1>2, <1>3, <2>1 DEF WorkerType
<1>13. WorkersOK'
  <2>1. Running' = Running
    BY <1>2, <1>12 DEF Running
  <2>2. (slow = Cardinality(Running) /\ slow <= Threshold)'
    BY <1>2, <1>3, <2>1 DEF WorkersOK, Threshold
  <2>3. \A v \in Workers : worker'[v].pc = "run" =>
          worker[v].pc = "run" /\ worker'[v] = worker[v] /\ v # w /\ worker[v].r # r
    BY <1>4, <1>12
  <2>4. \A v \in Workers : worker'[v].pc = "run" => req'[worker'[v].r] = req[worker[v].r]
    BY <1>3, <1>6, <2>3 DEF WorkersOK
  <2> QED BY <1>3, <1>12, <2>2, <2>3, <2>4 DEF WorkersOK
<1> QED BY <1>8, <1>9, <1>10, <1>11, <1>13 DEF Inv, PoolOK

-------------------------------------------------------------------------------
(* The invariant holds in the beginning, and every step keeps it.           *)
LEMMA Initial == Init => Inv
<1> SUFFICES ASSUME Init PROVE Inv
  OBVIOUS
<1>1. MaxReqs \in Nat /\ made = 0 /\ fiber = Runner /\ fibers = <<>>
      /\ stack = [f \in Tasks \cup {Runner} |-> IF f = Runner THEN <<Loop>> ELSE <<>>]
  BY RequestScenes DEF Init
<1>2. stack[Runner] = <<Loop>> /\ \A t \in Tasks : stack[t] = <<>>
  BY <1>1, RequestNames
<1>3. StacksOK
  <2> DEFINE l == <<Loop>>
  <2>1. l \in Seq(Frames) /\ OfLoop(l)
    BY FrameTypes DEF OfLoop
  <2> HIDE DEF l
  <2>2. stack \in [Tasks \cup {Runner} -> Seq(Frames)] /\ OfLoop(stack[Runner])
    BY <1>1, <1>2, <2>1 DEF l
  <2> QED BY <1>2, <2>2 DEF StacksOK, OfTask
<1>4. FibersOK
  BY <1>1, <1>2, FrameKinds DEF FibersOK, Parked, Single
<1>5. OpsOK
  <2>1. PICK s \in Scenes : code = s.code /\ cancels = s.cancels
    BY DEF Init
  <2>2. op = [t \in Tasks |-> "PENDING"] /\ cancelled = {}
    BY DEF Init
  <2> QED BY <2>1, <2>2, RequestScenes DEF OpsOK
<1>6. ReqsOK
  <2>1. req = [r \in Reqs |-> [task |-> None, slow |-> FALSE, place |-> "none", op |-> "none", ran |-> 0]]
    BY DEF Init
  <2>2. \A r \in Reqs : ReqOK(r)
    BY <1>1, <2>1 DEF ReqOK, Untouched, Reqs
  <2> QED BY <1>1, <2>1, <2>2 DEF ReqsOK
<1>7. PoolOK
  <2>1. wq = <<>> /\ slowq = <<>> /\ slow = 0 /\ worker = [w \in Workers |-> Idle("ready")]
    BY DEF Init
  <2>2. QueuesOK
    BY <2>1 DEF QueuesOK, Single
  <2>3. worker \in [Workers -> WorkerType] /\ \A w \in Workers : worker[w].pc = "ready"
    BY <1>1, <2>1 DEF WorkerType, Idle
  <2>4. Running = {} /\ Cardinality({}) = 0
    BY <2>3, FS_EmptySet DEF Running
  <2>5. Threshold \in Nat
    <3>1. Cardinality(Workers) \in Nat
      BY Threads, FS_CardinalityType
    <3> QED BY <3>1 DEF Threshold
  <2>6. WorkersOK
    BY <2>1, <2>3, <2>4, <2>5 DEF WorkersOK
  <2> QED BY <2>2, <2>6 DEF PoolOK
<1>8. LoopOK
  <2>1. <<>> \in Seq(Reqs) /\ DOMAIN <<>> = {}
    OBVIOUS
  <2>2. loopq = <<>> /\ wake = FALSE
    BY DEF Init
  <2>3. loopq \in Seq(Reqs) /\ \A i \in DOMAIN loopq : FALSE
    BY <2>1, <2>2
  <2> QED BY <2>2, <2>3 DEF LoopOK
<1> QED BY <1>3, <1>4, <1>5, <1>6, <1>7, <1>8 DEF Inv

(* Every step keeps the invariant.                                          *)
LEMMA Inductive == Inv /\ [Next]_vars => Inv'
<1> SUFFICES ASSUME Inv, [Next]_vars PROVE Inv'
  OBVIOUS
<1>1. CASE LoopThread
  BY <1>1, SubmitStep, FinishedStep, GiveUpStep, ReturnStep, WorkDoneStep, DoneStep, RunStep DEF LoopThread
<1>2. CASE \E w \in Workers : Take(w) \/ Work(w)
  BY <1>2, TakeStep, WorkStep
<1>3. CASE \E t \in Tasks : Cancel(t)
  BY <1>3, CancelStep
<1>4. CASE UNCHANGED vars
  <2>1. UNCHANGED <<taskVars, made, req, poolVars, loopq, wake>>
    BY <1>4 DEF vars
  <2>2. StacksOK' /\ FibersOK' /\ OpsOK'
    BY <2>1, TasksStay
  <2> QED BY <2>1, <2>2, RequestsStay DEF Inv, LoopOK
<1> QED BY <1>1, <1>2, <1>3, <1>4 DEF Next

(* The invariant implies the property that the runs check.                  *)
LEMMA Enough == Inv => Sound
<1> SUFFICES ASSUME Inv PROVE Sound
  OBVIOUS
<1>1. QueuesOK /\ WorkersOK
  BY DEF Inv, PoolOK
<1>2. Cardinality({i \in 1 .. Len(wq) : wq[i] = SlowMsg}) <= 1
  <2> DEFINE M == {i \in 1 .. Len(wq) : wq[i] = SlowMsg}
  <2>1. \A i, j \in M : i = j
    <3>1. SlowMsg \in 0 .. MaxReqs
      BY RequestScenes DEF SlowMsg
    <3>2. wq \in Seq(0 .. MaxReqs) /\ DOMAIN wq = 1 .. Len(wq)
      BY <1>1 DEF QueuesOK
    <3> QED BY <1>1, <3>1, <3>2 DEF QueuesOK, Single
  <2>2. CASE M = {}
    BY <2>2, FS_EmptySet
  <2>3. CASE M # {}
    <3>1. PICK i : M = {i}
      BY <2>1, <2>3
    <3> HIDE DEF M
    <3>2. Cardinality(M) = 1
      BY <3>1, FS_Singleton
    <3> QED BY <3>2 DEF M
  <2> QED BY <2>2, <2>3
<1>3. slow \in 0 .. Cardinality(Workers)
  <2>1. /\ Cardinality(Running) \in Nat /\ Cardinality(Workers) \in Nat
        /\ Cardinality(Running) <= Cardinality(Workers)
    BY Threads, FS_Subset, FS_CardinalityType DEF Running
  <2> QED BY <1>1, <2>1 DEF WorkersOK
<1>4. TypeOK
  <2>1. fiber \in Tasks \cup {Runner} /\ fibers \in Seq(Tasks \cup {Runner})
    BY DEF Inv, FibersOK, Parked
  <2>2. stack \in [Tasks \cup {Runner} -> Seq(Frames)] /\ loopq \in Seq(Reqs) /\ wake \in BOOLEAN
    BY DEF Inv, StacksOK, LoopOK
  <2> QED BY <1>1, <1>2, <1>3, <2>1, <2>2
        DEF TypeOK, Inv, OpsOK, ReqsOK, QueuesOK, WorkersOK, WorkerType, Frames
<1>5. SlowBounded
  BY <1>1 DEF SlowBounded, WorkersOK
<1>6. RunsOnce
  <2>1. \A r \in Reqs : req[r].ran <= 1 /\ (req[r].place = "cancelled" => req[r].ran = 0)
    BY DEF Inv, ReqsOK, ReqOK, Untouched
  <2>2. ASSUME Top.k = "wait", op[fiber] = "RESOLVED" PROVE req[Top.r].ran = 1
    <3>1. PICK r : r = Top.r
      OBVIOUS
    <3>2. fiber \in Tasks /\ r \in Reqs /\ stack[fiber] = <<Waiting(r), Code>>
      BY <2>2, <3>1, Executing
    <3>3. req[r].place = "done" /\ ReqOK(r)
      BY <2>2, <3>2 DEF Inv, OpsOK, ReqsOK
    <3> QED BY <3>1, <3>3 DEF ReqOK, Untouched
  <2>3. \A w \in Workers : worker[w].pc = "run" => req[worker[w].r].op = "alive"
    BY <1>1 DEF WorkersOK, Inv, ReqsOK, ReqOK
  <2> QED BY <2>1, <2>2, <2>3 DEF RunsOnce
<1> QED BY <1>4, <1>5, <1>6 DEF Sound

(* The pool executes each request once, nothing that was cancelled, and     *)
(* keeps threads free of slow work, for every number of tasks, worker       *)
(* threads and requests.                                                    *)
THEOREM RequestsRunOnce == Spec => []Sound
<1>1. Inv /\ [Next]_vars => Inv'
  BY Inductive
<1> QED BY <1>1, Initial, Enough, PTL DEF Spec
===============================================================================
