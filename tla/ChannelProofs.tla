---------------------------- MODULE ChannelProofs ----------------------------
(***************************************************************************)
(* Theorems of the channels that tasks use through send, iterators and      *)
(* close, for every number of tasks, channels, iterators and messages and   *)
(* every size of the buffers.  They are about programs without groups.      *)
(***************************************************************************)
EXTENDS Channel, SequenceLemmas

NoGroups == \A s \in Scenes : s.groups = {}

-------------------------------------------------------------------------------
(* The inductive invariant.                                                 *)

(* A task is in its code or in one call of it.                              *)
Calls == {InNext(i) : i \in AllIterators} \cup {Fetched(i) : i \in AllIterators}
         \cup {Closing(c) : c \in Chans} \cup {Flushing(c) : c \in Chans}
         \cup {InSend(c, m) : c \in Chans, m \in Msgs}
Within(f) == <<f, Code>>
OfTask(s) == s \in {<<>>, <<Code>>, <<Over>>} \/ \E f \in Calls : s = Within(f)
StacksOK ==
    /\ stack \in [Tasks \cup {Runner} -> Seq(Frames)]
    /\ stack[Runner] = <<Loop>>
    /\ \A t \in Tasks : OfTask(stack[t])

(* The fibers that may have switched away: they do not wait.                *)
Waits(s) == \E f \in Calls : s = Within(f) /\ f.k \in {"next", "send"}
GoesOn(s) == s \notin {<<>>, <<Over>>} /\ ~Waits(s)
Left == {f \in Tasks \cup {Runner} : GoesOn(stack[f])}
FibersOK ==
    /\ Parked(fiber, fibers, Tasks \cup {Runner}, Left)
    /\ stack[fiber] \notin {<<>>, <<Over>>}

Nexts(t, i) == stack[t] = Within(InNext(i))
Sends(t, c, m) == stack[t] = Within(InSend(c, m))

(* Whoever waits has an operation that runs; it is settled when he goes on. *)
Settled(o) == o.status \in {"RESOLVED", "FAILED"}
OpsOK ==
    /\ op \in [Tasks -> OpRecord] /\ cancelled \subseteq Tasks
    /\ \A t \in Tasks : t # fiber =>
        op[t] = IF Waits(stack[t]) THEN Running ELSE Idle
    /\ fiber \in Tasks =>
        IF Waits(stack[fiber]) THEN Settled(op[fiber]) ELSE op[fiber] = Idle
    /\ fiber \in Tasks => \A i \in AllIterators : Nexts(fiber, i) =>
        (op[fiber].value # None <=> op[fiber].status = "RESOLVED" /\ state[ChanOf[i]] = "open")

(* The receivers of a channel are those who wait for it.                    *)
ReceiversOK ==
    /\ receivers \in [Chans -> Seq(Waiter)] /\ fetching \subseteq AllIterators
    /\ \A c \in Chans : Single(receivers[c], Waiter)
    /\ \A c \in Chans : \A e \in ToSet(receivers[c]) :
        e.i \in AllIterators /\ ChanOf[e.i] = c /\ Nexts(e.t, e.i)
    /\ \A t \in Tasks, i \in AllIterators : Nexts(t, i) /\ t # fiber =>
        [t |-> t, i |-> i] \in ToSet(receivers[ChanOf[i]])
    /\ \A i \in AllIterators : i \in fetching <=> \E t \in Tasks : Nexts(t, i)
    /\ \A t, u \in Tasks, i \in AllIterators : Nexts(t, i) /\ Nexts(u, i) => t = u

(* The same of the senders.                                                 *)
SendersOK ==
    /\ senders \in [Chans -> Seq(Waiter)]
    /\ \A c \in Chans : Single(senders[c], Waiter)
    /\ \A c \in Chans : \A e \in ToSet(senders[c]) :
        e.i = None /\ \E m \in Msgs : Sends(e.t, c, m)
    /\ \A t \in Tasks, c \in Chans, m \in Msgs : Sends(t, c, m) =>
        /\ result[m] = "waiting"
        /\ t # fiber => [t |-> t, i |-> None] \in ToSet(senders[c])
    /\ \A t, u \in Tasks, c, d \in Chans, m \in Msgs : Sends(t, c, m) /\ Sends(u, d, m) => t = u

(* A closed channel has waiters only while it is disposed of.               *)
StatesOK ==
    /\ state \in [Chans -> {"open", "closed", "error"}]
    /\ \A c \in Chans : state[c] # "open" /\ receivers[c] # <<>> =>
        \E t \in Tasks : stack[t] = Within(Closing(c))
    /\ \A c \in Chans : state[c] # "open" /\ senders[c] # <<>> =>
        \E t \in Tasks : stack[t] \in {Within(Closing(c)), Within(Flushing(c))}
    /\ \A t \in Tasks, c \in Chans :
        stack[t] \in {Within(Closing(c)), Within(Flushing(c))} => state[c] # "open"

(* The ring buffer.                                                         *)
Ring(b) ==
    /\ b = [data |-> b.data, size |-> b.size, rpos |-> b.rpos, wpos |-> b.wpos, len |-> b.len]
    /\ b.size \in 0 .. MaxSize /\ b.len \in 0 .. b.size
    /\ b.data \in [0 .. b.size - 1 -> Msgs \cup {None}]
    /\ IF b.size = 0 THEN b.rpos = 0 /\ b.wpos = 0
       ELSE b.rpos \in 0 .. b.size - 1 /\ b.wpos = (b.rpos + b.len) % b.size
    /\ \A k \in 1 .. b.len : b.data[(b.rpos + k - 1) % b.size] \in Msgs
RingsOK ==
    /\ DOMAIN buffer = Chans
    /\ \A c \in Chans : Ring(buffer[c]) /\ (senders[c] # <<>> => buffer[c].len = buffer[c].size)
    /\ NobodyMissed

(* The rest: there are no groups.                                           *)
RestOK ==
    /\ scene \in Scenes /\ scene.groups = {}
    /\ group = Members /\ check = {} /\ timer = {}
    /\ entry \in [AllIterators -> Msgs \cup {None}] /\ pos \in [AllIterators -> Int]
    /\ got \in [Chans -> Seq(Msgs)]
    /\ result \in [Msgs -> {"new", "waiting", "sent", "failed"}]

Control == StacksOK /\ FibersOK /\ OpsOK /\ ReceiversOK /\ SendersOK /\ StatesOK /\ RingsOK /\ RestOK

-------------------------------------------------------------------------------
(* Frames, stacks and fibers.                                               *)
LEMMA FrameKinds ==
    /\ Loop.k = "loop" /\ Code.k = "code" /\ Over.k = "over"
    /\ \A x : /\ InNext(x).k = "next" /\ InNext(x).x = x
              /\ Fetched(x).k = "fetched" /\ Fetched(x).x = x
              /\ Closing(x).k = "close" /\ Closing(x).x = x
              /\ Flushing(x).k = "flush" /\ Flushing(x).x = x
    /\ \A x, m : InSend(x, m).k = "send" /\ InSend(x, m).x = x /\ InSend(x, m).m = m
BY DEF Loop, Code, Over, InNext, Fetched, Closing, Flushing, InSend, Frame

(* The frames are of their type.                                            *)
LEMMA FrameTypes ==
    Loop \in Frames /\ Code \in Frames /\ Over \in Frames /\ Calls \subseteq Frames
<1>1. AllIterators \cup Chans \cup {None} \subseteq AllIterators \cup Groups \cup Chans \cup {None}
  OBVIOUS
<1> DEFINE X == AllIterators \cup Groups \cup Chans \cup {None}
<1>2. AllIterators \subseteq X /\ Chans \subseteq X /\ None \in X
  OBVIOUS
<1>3. \A x \in X, m \in Msgs \cup {None}, k \in Kinds : Frame(k, x, m) \in Frames
  BY DEF Frame, Frames
<1> HIDE DEF X
<1>4. Loop \in Frames /\ Code \in Frames /\ Over \in Frames
  BY <1>2, <1>3 DEF Loop, Code, Over, Kinds
<1>5. \A i \in AllIterators : InNext(i) \in Frames /\ Fetched(i) \in Frames
  BY <1>2, <1>3 DEF InNext, Fetched, Kinds
<1>6. \A c \in Chans : Closing(c) \in Frames /\ Flushing(c) \in Frames
  BY <1>2, <1>3 DEF Closing, Flushing, Kinds
<1>7. \A c \in Chans, m \in Msgs : InSend(c, m) \in Frames
  BY <1>2, <1>3 DEF InSend, Kinds
<1> QED BY <1>4, <1>5, <1>6, <1>7 DEF Calls

(* A frame of a call says which call it is.                                 *)
LEMMA CallKinds ==
    ASSUME NEW f \in Calls
    PROVE  /\ f.k = "next" => f.x \in AllIterators /\ f = InNext(f.x)
           /\ f.k = "fetched" => f.x \in AllIterators /\ f = Fetched(f.x)
           /\ f.k = "close" => f.x \in Chans /\ f = Closing(f.x)
           /\ f.k = "flush" => f.x \in Chans /\ f = Flushing(f.x)
           /\ f.k = "send" => f.x \in Chans /\ f.m \in Msgs /\ f = InSend(f.x, f.m)
           /\ f.k \in {"next", "fetched", "close", "flush", "send"}
           /\ f # Code /\ f # Over /\ f # Loop
<1>1. CASE \E i \in AllIterators : f \in {InNext(i), Fetched(i)}
  BY <1>1, FrameKinds
<1>2. CASE \E c \in Chans : f \in {Closing(c), Flushing(c)}
  BY <1>2, FrameKinds
<1>3. CASE \E c \in Chans, m \in Msgs : f = InSend(c, m)
  BY <1>3, FrameKinds
<1> QED BY <1>1, <1>2, <1>3 DEF Calls

(* The stacks of the tasks in a few words.                                  *)
LEMMA StackFacts ==
    /\ \A f : /\ Within(f) \notin {<<>>, <<Code>>, <<Over>>, <<Loop>>}
              /\ Head(Within(f)) = f /\ Tail(Within(f)) = <<Code>>
              /\ <<f>> \o <<Code>> = Within(f)
    /\ \A f, g : Within(f) = Within(g) => f = g
    /\ <<Code>> \notin {<<>>, <<Over>>, <<Loop>>} /\ <<Over>> \notin {<<>>, <<Loop>>} /\ <<Loop>> # <<>>
    /\ Head(<<Code>>) = Code /\ Head(<<Loop>>) = Loop
    /\ OfTask(<<>>) /\ OfTask(<<Code>>) /\ OfTask(<<Over>>) /\ \A f \in Calls : OfTask(Within(f))
    /\ Seq(Frames) # {} /\ \A s : OfTask(s) => s \in Seq(Frames)
<1>1. \A x, y : Len(<<x>>) = 1 /\ Len(<<x, y>>) = 2 /\ Len(<<>>) = 0 /\ <<x>>[1] = x /\ <<x, y>>[1] = x
  OBVIOUS
<1>2. ASSUME NEW f PROVE /\ Within(f) \notin {<<>>, <<Code>>, <<Over>>, <<Loop>>}
                         /\ Head(Within(f)) = f /\ Tail(Within(f)) = <<Code>>
                         /\ <<f>> \o <<Code>> = Within(f)
  <2>1. Len(Within(f)) = 2 /\ Len(<<Code>>) = 1 /\ Len(<<Over>>) = 1 /\ Len(<<Loop>>) = 1
    BY <1>1 DEF Within
  <2>2. Within(f) \notin {<<>>, <<Code>>, <<Over>>, <<Loop>>}
    BY <1>1, <2>1 DEF Within
  <2> QED BY <2>2, ShortSequences DEF Within
<1>3. ASSUME NEW f, NEW g, Within(f) = Within(g) PROVE f = g
  BY <1>1, <1>3 DEF Within
<1>4. <<Code>> \notin {<<>>, <<Over>>, <<Loop>>} /\ <<Over>> \notin {<<>>, <<Loop>>} /\ <<Loop>> # <<>>
  BY FrameKinds
<1>5. \A x, y \in Frames : <<>> \in Seq(Frames) /\ <<x>> \in Seq(Frames) /\ <<x, y>> \in Seq(Frames)
  OBVIOUS
<1>6. \A s : OfTask(s) => s \in Seq(Frames)
  BY <1>5, FrameTypes DEF OfTask, Within
<1>7. OfTask(<<>>) /\ OfTask(<<Code>>) /\ OfTask(<<Over>>) /\ \A f \in Calls : OfTask(Within(f))
  BY DEF OfTask
<1> QED BY <1>2, <1>3, <1>4, <1>6, <1>7, ShortSequences

(* Who waits does not go on; the others that have begun do.                 *)
LEMMA WaitFacts ==
    /\ ~Waits(<<>>) /\ ~Waits(<<Code>>) /\ ~Waits(<<Over>>) /\ ~Waits(<<Loop>>)
    /\ \A f \in Calls : Waits(Within(f)) <=> f.k \in {"next", "send"}
    /\ GoesOn(<<Code>>) /\ GoesOn(<<Loop>>)
    /\ \A f \in Calls : GoesOn(Within(f)) <=> f.k \notin {"next", "send"}
<1>1. ~Waits(<<>>) /\ ~Waits(<<Code>>) /\ ~Waits(<<Over>>) /\ ~Waits(<<Loop>>)
  BY StackFacts DEF Waits
<1>2. \A f \in Calls : Waits(Within(f)) <=> f.k \in {"next", "send"}
  BY StackFacts DEF Waits
<1> QED BY <1>1, <1>2, StackFacts DEF GoesOn

(* The calls, by name.                                                      *)
LEMMA CallsNamed ==
    /\ \A i \in AllIterators : InNext(i) \in Calls /\ Fetched(i) \in Calls
    /\ \A c \in Chans : Closing(c) \in Calls /\ Flushing(c) \in Calls
    /\ \A c \in Chans, m \in Msgs : InSend(c, m) \in Calls
BY DEF Calls

(* What the running fiber executes says which fiber it is.                  *)
LEMMA Executing ==
    ASSUME StacksOK, FibersOK
    PROVE  /\ fiber \in Tasks \cup {Runner} /\ Runner \notin Tasks
           /\ fiber = Runner => stack[fiber] = <<Loop>> /\ Top = Loop
           /\ InLoop => fiber = Runner /\ stack[fiber] = <<Loop>>
           /\ InCode => fiber \in Tasks /\ fiber # Runner /\ stack[fiber] = <<Code>>
           /\ fiber \in Tasks => \/ Top = Code /\ stack[fiber] = <<Code>>
                                 \/ Top \in Calls /\ stack[fiber] = Within(Top) /\ Rest = <<Code>>
           /\ Top.k \notin {"loop", "code", "over"} =>
                fiber \in Tasks /\ Top \in Calls /\ stack[fiber] = Within(Top) /\ Rest = <<Code>>
<1>1. fiber \in Tasks \cup {Runner} /\ stack[fiber] \notin {<<>>, <<Over>>} /\ Runner \notin Tasks
  BY ChannelNames DEF FibersOK, Parked
<1>2. CASE fiber = Runner
  <2>1. stack[fiber] = <<Loop>>
    BY <1>2 DEF StacksOK
  <2>2. Top = Loop
    BY <2>1, StackFacts DEF Top
  <2> QED BY <1>1, <1>2, <2>1, <2>2, FrameKinds DEF InLoop, InCode
<1>3. CASE fiber \in Tasks
  <2>1. OfTask(stack[fiber])
    BY <1>3 DEF StacksOK
  <2>2. CASE stack[fiber] = <<Code>>
    <3>1. Top = Code
      BY <2>2, StackFacts DEF Top
    <3> QED BY <1>1, <1>3, <2>2, <3>1, FrameKinds DEF InLoop, InCode
  <2>3. CASE \E f \in Calls : stack[fiber] = Within(f)
    <3>1. PICK f \in Calls : stack[fiber] = Within(f)
      BY <2>3
    <3>2. Top = f /\ Rest = <<Code>>
      BY <3>1, StackFacts DEF Top, Rest
    <3>3. f # Code
      BY CallKinds
    <3> QED BY <1>1, <1>3, <3>1, <3>2, <3>3 DEF InLoop, InCode
  <2> QED BY <1>1, <2>1, <2>2, <2>3 DEF OfTask
<1> QED BY <1>1, <1>2, <1>3

(* The running fiber goes on with stack s.                                  *)
LEMMA Goes ==
    ASSUME StacksOK, fiber \in Tasks \cup {Runner}, NEW s, Goto(s),
           IF fiber = Runner THEN s = <<Loop>> ELSE OfTask(s)
    PROVE  /\ StacksOK' /\ stack'[fiber] = s
           /\ \A f \in Tasks \cup {Runner} : f # fiber => stack'[f] = stack[f]
<1>1. stack'[fiber] = s /\ \A f \in Tasks \cup {Runner} : f # fiber => stack'[f] = stack[f]
  BY DEF Goto, StacksOK
<1>2. s \in Seq(Frames)
  BY StackFacts DEF StacksOK
<1>3. stack' \in [Tasks \cup {Runner} -> Seq(Frames)]
  BY <1>2 DEF Goto, StacksOK
<1>4. stack'[Runner] = <<Loop>>
  BY <1>1 DEF StacksOK
<1>5. \A t \in Tasks : OfTask(stack'[t])
  BY <1>1, ChannelNames DEF StacksOK
<1> QED BY <1>1, <1>3, <1>4, <1>5 DEF StacksOK

(* Control stays with the running fiber.                                    *)
LEMMA FiberStays ==
    ASSUME FibersOK, UNCHANGED <<fiber, fibers>>, stack'[fiber] \notin {<<>>, <<Over>>},
           \A f \in Tasks \cup {Runner} : f # fiber => stack'[f] = stack[f]
    PROVE  FibersOK'
<1>1. \A f \in Tasks \cup {Runner} : f \in Left /\ f # fiber => f \in Left'
  BY DEF Left
<1>2. Parked(fiber, fibers, Tasks \cup {Runner}, Left')
  BY <1>1, ParkedIn DEF FibersOK
<1> QED BY <1>2 DEF FibersOK

(* The running fiber passes control to task t, which waits or has not begun.*)
LEMMA FiberSwitches ==
    ASSUME FibersOK, GoesOn(stack[fiber]), NEW t \in Tasks, t # fiber, ~GoesOn(stack[t]), Switch(t),
           GoesOn(stack'[fiber]), stack'[t] \notin {<<>>, <<Over>>},
           \A f \in Tasks \cup {Runner} : f \notin {t, fiber} => stack'[f] = stack[f]
    PROVE  FibersOK' /\ fiber' = t
<1> DEFINE S == Tasks \cup {Runner}
           L == Left
<1>1. Parked(fiber, fibers, S, L) /\ t \in S /\ t \notin L /\ fiber \in L
  BY DEF FibersOK, Left, Parked
<1>2. \A g \in S : g \in L /\ g # t => g \in Left'
  BY DEF Left
<1> HIDE DEF S, L
<1>3. Parked(fiber', fibers', S, L) /\ fiber' = t
  BY <1>1, ParkedSwitch DEF Switch
<1>4. Parked(fiber', fibers', S, Left')
  BY <1>2, <1>3, ParkedIn
<1> QED BY <1>3, <1>4 DEF FibersOK, S

(* A task suspends: control goes to the fiber it came from, or to the event *)
(* loop.                                                                    *)
LEMMA FiberSuspends ==
    ASSUME FibersOK, fiber \in Tasks, Suspend, stack[Runner] = <<Loop>>, ~GoesOn(stack'[fiber]),
           \A f \in Tasks \cup {Runner} : f # fiber => stack'[f] = stack[f]
    PROVE  FibersOK' /\ fiber' # fiber /\ GoesOn(stack[fiber'])
<1> DEFINE S == Tasks \cup {Runner}
           L == Left
<1>1. Parked(fiber, fibers, S, L) /\ Runner \in S /\ Runner \in L /\ Runner # fiber
  BY WaitFacts, ChannelNames DEF FibersOK, Left
<1>2. \A f \in S : f \in L /\ f # fiber =>
        f \in Left' /\ GoesOn(stack[f]) /\ stack'[f] \notin {<<>>, <<Over>>}
  BY DEF Left, GoesOn
<1> HIDE DEF S, L
<1>3. Parked(fiber', fibers', S, L) /\ (fiber' = Runner \/ (fiber' \in L /\ fiber' # fiber))
      /\ \A i \in DOMAIN fibers' : fibers'[i] # fiber
  <2>1. CASE fibers = <<>>
    <3>1. fiber' = Runner /\ fibers' = fibers
      BY <2>1 DEF Suspend, SwitchNone
    <3>2. Parked(Runner, fibers, S, L) /\ DOMAIN fibers = {}
      BY <1>1, <2>1, ParkedNone, Zenon
    <3> QED BY <3>1, <3>2
  <2>2. CASE fibers # <<>>
    <3>1. fiber' = Head(fibers) /\ fibers' = Tail(fibers)
      BY <2>2 DEF Suspend
    <3>2. /\ Parked(Head(fibers), Tail(fibers), S, L)
          /\ Head(fibers) \in L /\ Head(fibers) # fiber
          /\ \A i \in DOMAIN Tail(fibers) : Tail(fibers)[i] # fiber
      BY <1>1, <2>2, ParkedSuspend
    <3> QED BY <3>1, <3>2
  <2> QED BY <2>1, <2>2
<1>4. fiber' \in S /\ fiber' \in L /\ fiber' # fiber
  BY <1>1, <1>3 DEF Parked
<1>5. \A i \in DOMAIN fibers' : fibers'[i] \in S
  BY <1>3 DEF Parked
<1>6. \A i \in DOMAIN fibers' : fibers'[i] \in Left'
  BY <1>2, <1>3, <1>5 DEF Parked
<1>7. Parked(fiber', fibers', S, Left')
  BY <1>3, <1>6 DEF Parked
<1> QED BY <1>2, <1>4, <1>7 DEF FibersOK, S

-------------------------------------------------------------------------------
(* What the steps do to stacks, fibers and operations.                      *)
Tasking == StacksOK /\ FibersOK /\ OpsOK

(* Nobody begins or ends to wait.                                           *)
SameNexts == \A t \in Tasks, i \in AllIterators : Nexts(t, i)' <=> Nexts(t, i)
SameSends == \A t \in Tasks, c \in Chans, m \in Msgs : Sends(t, c, m)' <=> Sends(t, c, m)
SameWaits == SameNexts /\ SameSends
StaysAwake == fiber \in Tasks => ~Waits(stack[fiber]) /\ ~Waits(stack'[fiber])

(* The operation of a task that does not wait, and of one that waits.       *)
LEMMA OpTypes == Idle \in OpRecord /\ Running \in OpRecord /\ ~Settled(Idle) /\ ~Settled(Running)
BY DEF Idle, Running, OpRecord, Settled

(* Who does not wait is in no call that waits.                              *)
LEMMA AwakeFacts ==
    ASSUME NEW t, ~Waits(stack[t])
    PROVE  /\ \A i \in AllIterators : ~Nexts(t, i)
           /\ \A c \in Chans, m \in Msgs : ~Sends(t, c, m)
BY WaitFacts, CallsNamed, FrameKinds DEF Nexts, Sends

(* Only stacks of tasks that do not wait change, and they do not wait then. *)
LEMMA WaitsSame ==
    ASSUME \A t \in Tasks : stack'[t] = stack[t] \/ (~Waits(stack[t]) /\ ~Waits(stack'[t]))
    PROVE  SameWaits
<1> SUFFICES ASSUME NEW t \in Tasks
             PROVE  /\ \A i \in AllIterators : Nexts(t, i)' <=> Nexts(t, i)
                    /\ \A c \in Chans, m \in Msgs : Sends(t, c, m)' <=> Sends(t, c, m)
  BY DEF SameWaits, SameNexts, SameSends
<1>1. CASE stack'[t] = stack[t]
  BY <1>1 DEF Nexts, Sends
<1>2. CASE ~Waits(stack[t]) /\ ~Waits(stack'[t])
  BY <1>2, WaitFacts, CallsNamed, FrameKinds DEF Nexts, Sends
<1> QED BY <1>1, <1>2

(* Nothing of it changes.                                                   *)
LEMMA TaskingQuiet ==
    ASSUME Tasking, UNCHANGED <<fiber, fibers, stack, op>>, cancelled' \subseteq Tasks,
           fiber \in Tasks => ~Waits(stack[fiber])
    PROVE  Tasking' /\ SameWaits /\ StaysAwake
<1>1. StacksOK' /\ SameWaits /\ StaysAwake
  BY DEF Tasking, StacksOK, SameWaits, SameNexts, SameSends, StaysAwake, Nexts, Sends
<1>2. FibersOK'
  BY FiberStays DEF Tasking, FibersOK
<1>3. fiber \in Tasks => \A i \in AllIterators : ~Nexts(fiber, i)
  BY AwakeFacts
<1>4. OpsOK'
  BY <1>3 DEF Tasking, OpsOK, Nexts
<1> QED BY <1>1, <1>2, <1>4 DEF Tasking

(* The running task goes on in its code or in a call that does not wait.    *)
LEMMA TaskingGoes ==
    ASSUME Tasking, fiber \in Tasks, NEW s, OfTask(s), GoesOn(s), Goto(s), UNCHANGED <<fiber, fibers, cancelled>>,
           op' = [op EXCEPT ![fiber] = Idle]
    PROVE  /\ Tasking' /\ stack'[fiber] = s /\ ~Waits(stack'[fiber])
           /\ \A f \in Tasks \cup {Runner} : f # fiber => stack'[f] = stack[f]
<1>0. fiber # Runner
  BY ChannelNames
<1>1. /\ StacksOK' /\ stack'[fiber] = s
      /\ \A f \in Tasks \cup {Runner} : f # fiber => stack'[f] = stack[f]
  BY <1>0, Goes DEF Tasking
<1>2. FibersOK'
  BY <1>1, FiberStays DEF Tasking, GoesOn
<1>3. ~Waits(stack'[fiber])
  BY <1>1 DEF GoesOn
<1>4. \A i \in AllIterators : ~Nexts(fiber, i)'
  BY <1>1, <1>3, WaitFacts, CallsNamed, FrameKinds DEF Nexts
<1>5. op' \in [Tasks -> OpRecord]
  BY OpTypes DEF Tasking, OpsOK
<1>6. /\ op'[fiber] = Idle
      /\ \A t \in Tasks : t # fiber => op'[t] = op[t]
  BY DEF Tasking, OpsOK
<1>7. OpsOK'
  BY <1>1, <1>3, <1>4, <1>5, <1>6 DEF Tasking, OpsOK
<1> QED BY <1>1, <1>2, <1>3, <1>7 DEF Tasking

(* A task that waits goes on, in the middle of what the running fiber does. *)
LEMMA TaskingWakes ==
    ASSUME Tasking, GoesOn(stack[fiber]), cancelled' \subseteq Tasks,
           NEW s, GoesOn(s), IF fiber = Runner THEN s = <<Loop>> ELSE OfTask(s),
           NEW t \in Tasks, t # fiber, Waits(stack[t]), NEW o \in OpRecord, Settled(o), Settle(t, o, s),
           \A i \in AllIterators : Nexts(t, i) =>
              (o.value # None <=> o.status = "RESOLVED" /\ state'[ChanOf[i]] = "open")
    PROVE  /\ Tasking' /\ SameWaits /\ StaysAwake /\ fiber' = t /\ op'[t] = o /\ stack'[fiber] = s
           /\ \A f \in Tasks \cup {Runner} : f # fiber => stack'[f] = stack[f]
<1>0. fiber \in Tasks \cup {Runner} /\ op' = [op EXCEPT ![t] = o] /\ Goto(s) /\ Switch(t)
  BY DEF Tasking, FibersOK, Parked, Settle
<1>1. /\ StacksOK' /\ stack'[fiber] = s
      /\ \A f \in Tasks \cup {Runner} : f # fiber => stack'[f] = stack[f]
  BY <1>0, Goes DEF Tasking
<1>2. stack[t] \notin {<<>>, <<Over>>} /\ ~GoesOn(stack[t])
  BY WaitFacts DEF GoesOn
<1>3. FibersOK' /\ fiber' = t
  BY <1>0, <1>1, <1>2, FiberSwitches DEF Tasking
<1>4. \A u \in Tasks : stack'[u] = stack[u] \/ (~Waits(stack[u]) /\ ~Waits(stack'[u]))
  BY <1>1 DEF GoesOn
<1>5. SameWaits /\ StaysAwake
  BY <1>1, <1>4, WaitsSame DEF GoesOn, StaysAwake
<1>6. op' \in [Tasks -> OpRecord] /\ op'[t] = o /\ \A u \in Tasks : u # t => op'[u] = op[u]
  BY <1>0 DEF Tasking, OpsOK
<1>7. \A u \in Tasks : u # t => op[u] = IF Waits(stack'[u]) THEN Running ELSE Idle
  BY <1>1, <1>4 DEF Tasking, OpsOK, GoesOn
<1>8. Waits(stack'[t])
  BY <1>1
<1>9. \A i \in AllIterators : Nexts(t, i)' =>
        (o.value # None <=> o.status = "RESOLVED" /\ state'[ChanOf[i]] = "open")
  BY <1>1 DEF Nexts
<1>10. OpsOK'
  BY <1>3, <1>6, <1>7, <1>8, <1>9 DEF OpsOK
<1> QED BY <1>1, <1>3, <1>5, <1>6, <1>10 DEF Tasking

(* A task begins.                                                           *)
LEMMA TaskingStarts ==
    ASSUME Tasking, InLoop, NEW t \in Tasks, Start(t)
    PROVE  /\ Tasking' /\ SameWaits /\ StaysAwake /\ fiber' = t
           /\ \A f \in Tasks \cup {Runner} : f # t => stack'[f] = stack[f]
<1>0. fiber = Runner /\ Runner \notin Tasks /\ t # fiber /\ stack[Runner] = <<Loop>> /\ stack[t] = <<>>
  BY ChannelNames DEF InLoop, Start, Tasking, StacksOK
<1>1. /\ stack'[t] = <<Code>> /\ stack' \in [Tasks \cup {Runner} -> Seq(Frames)]
      /\ \A f \in Tasks \cup {Runner} : f # t => stack'[f] = stack[f]
  BY StackFacts DEF Start, Tasking, StacksOK
<1>2. StacksOK'
  BY <1>0, <1>1, StackFacts DEF Tasking, StacksOK
<1>3. GoesOn(stack[fiber]) /\ GoesOn(stack'[fiber]) /\ ~GoesOn(stack[t]) /\ stack'[t] \notin {<<>>, <<Over>>}
      /\ Switch(t)
  BY <1>0, <1>1, WaitFacts, StackFacts DEF GoesOn, Start
<1>4. FibersOK' /\ fiber' = t
  BY <1>0, <1>1, <1>3, FiberSwitches DEF Tasking
<1>5. ~Waits(stack[t]) /\ ~Waits(stack'[t])
  BY <1>0, <1>1, WaitFacts
<1>6. \A u \in Tasks : stack'[u] = stack[u] \/ (~Waits(stack[u]) /\ ~Waits(stack'[u]))
  BY <1>1, <1>5
<1>7. SameWaits /\ StaysAwake
  BY <1>0, <1>6, WaitsSame DEF StaysAwake
<1>8. \A i \in AllIterators : ~Nexts(t, i)'
  BY <1>1, WaitFacts, CallsNamed, FrameKinds, StackFacts DEF Nexts
<1>9. OpsOK'
  <2>1. UNCHANGED <<op, cancelled>>
    BY DEF Start, taskVars
  <2>2. \A u \in Tasks : op[u] = IF Waits(stack'[u]) THEN Running ELSE Idle
    BY <1>0, <1>1, <1>5 DEF Tasking, OpsOK
  <2> QED BY <1>4, <1>5, <1>8, <2>1, <2>2 DEF Tasking, OpsOK
<1> QED BY <1>1, <1>2, <1>4, <1>7, <1>9 DEF Tasking

(* The running task blocks in call f.                                       *)
LEMMA TaskingBlocks ==
    ASSUME Tasking, InCode, NEW f \in Calls, f.k \in {"next", "send"}, Block(f, Running),
           UNCHANGED cancelled
    PROVE  /\ Tasking' /\ stack'[fiber] = Within(f) /\ fiber' # fiber /\ GoesOn(stack[fiber'])
           /\ \A g \in Tasks \cup {Runner} : g # fiber => stack'[g] = stack[g]
<1>0. fiber \in Tasks /\ fiber # Runner /\ stack[fiber] = <<Code>> /\ stack[Runner] = <<Loop>>
  BY Executing DEF Tasking, StacksOK
<1>1. Goto(Within(f)) /\ Suspend /\ op' = [op EXCEPT ![fiber] = Running]
  BY <1>0, StackFacts DEF Block
<1>2. /\ StacksOK' /\ stack'[fiber] = Within(f)
      /\ \A g \in Tasks \cup {Runner} : g # fiber => stack'[g] = stack[g]
  BY <1>0, <1>1, Goes, StackFacts DEF Tasking
<1>3. Waits(stack'[fiber]) /\ ~GoesOn(stack'[fiber])
  BY <1>2, WaitFacts
<1>4. FibersOK' /\ fiber' # fiber /\ GoesOn(stack[fiber'])
  BY <1>0, <1>1, <1>2, <1>3, FiberSuspends DEF Tasking
<1>5. op' \in [Tasks -> OpRecord] /\ op'[fiber] = Running
      /\ \A u \in Tasks : u # fiber => op'[u] = op[u]
  BY <1>0, <1>1, OpTypes DEF Tasking, OpsOK
<1>6. \A u \in Tasks : op'[u] = IF Waits(stack'[u]) THEN Running ELSE Idle
  BY <1>0, <1>2, <1>3, <1>5 DEF Tasking, OpsOK
<1>7. fiber' \in Tasks => ~Waits(stack'[fiber'])
  BY <1>2, <1>4 DEF GoesOn
<1>8. fiber' \in Tasks => \A i \in AllIterators : stack'[fiber'] # Within(InNext(i))
  BY <1>7, WaitFacts, CallsNamed, FrameKinds DEF Nexts
<1>9. OpsOK'
  BY <1>5, <1>6, <1>7, <1>8 DEF Tasking, OpsOK, Nexts
<1> QED BY <1>2, <1>4, <1>9 DEF Tasking

(* The code of the running task ends.                                       *)
LEMMA TaskingReturns ==
    ASSUME Tasking, Return
    PROVE  /\ Tasking' /\ SameWaits /\ StaysAwake
           /\ \A c \in Chans : \A t \in Tasks : stack'[t] \in {Within(Closing(c)), Within(Flushing(c))}
                                                 <=> stack[t] \in {Within(Closing(c)), Within(Flushing(c))}
<1>0. /\ fiber \in Tasks /\ fiber # Runner /\ stack[fiber] = <<Code>> /\ stack[Runner] = <<Loop>>
      /\ Goto(<<Over>>) /\ Suspend /\ UNCHANGED <<op, cancelled>>
  BY Executing DEF Tasking, StacksOK, Return, taskVars
<1>2. /\ StacksOK' /\ stack'[fiber] = <<Over>>
      /\ \A g \in Tasks \cup {Runner} : g # fiber => stack'[g] = stack[g]
  BY <1>0, Goes, StackFacts DEF Tasking
<1>3. ~Waits(stack[fiber]) /\ ~Waits(stack'[fiber]) /\ ~GoesOn(stack'[fiber])
  BY <1>0, <1>2, WaitFacts DEF GoesOn
<1>4. FibersOK' /\ fiber' # fiber /\ GoesOn(stack[fiber'])
  BY <1>0, <1>2, <1>3, FiberSuspends DEF Tasking
<1>5. \A u \in Tasks : stack'[u] = stack[u] \/ (~Waits(stack[u]) /\ ~Waits(stack'[u]))
  BY <1>2, <1>3
<1>6. SameWaits /\ StaysAwake
  BY <1>3, <1>5, WaitsSame DEF StaysAwake
<1>7. \A u \in Tasks : op[u] = IF Waits(stack'[u]) THEN Running ELSE Idle
  BY <1>0, <1>2, <1>3 DEF Tasking, OpsOK
<1>8. fiber' \in Tasks => ~Waits(stack'[fiber'])
  BY <1>2, <1>4 DEF GoesOn
<1>9. fiber' \in Tasks => \A i \in AllIterators : stack'[fiber'] # Within(InNext(i))
  BY <1>8, WaitFacts, CallsNamed, FrameKinds DEF Nexts
<1>10. OpsOK'
  BY <1>0, <1>7, <1>8, <1>9 DEF Tasking, OpsOK, Nexts
<1>11. \A c \in Chans : \A t \in Tasks : stack'[t] \in {Within(Closing(c)), Within(Flushing(c))}
                                           <=> stack[t] \in {Within(Closing(c)), Within(Flushing(c))}
  BY <1>0, <1>2, StackFacts
<1> QED BY <1>2, <1>4, <1>6, <1>10, <1>11 DEF Tasking

-------------------------------------------------------------------------------
(* The lists of receivers and of senders.                                   *)

(* Every iterator is of a channel.                                          *)
LEMMA ChanTypes == ChanOf \in [AllIterators -> Chans] /\ \A i \in AllIterators : ChanOf[i] \in Chans
BY ChannelSets

(* The receivers stay, and so do those who wait.                            *)
LEMMA ReceiversStay ==
    ASSUME ReceiversOK, SameNexts, fiber \in Tasks => \A i \in AllIterators : ~Nexts(fiber, i),
           UNCHANGED <<receivers, fetching>>
    PROVE  ReceiversOK'
<1>1. /\ receivers \in [Chans -> Seq(Waiter)] /\ fetching \subseteq AllIterators
      /\ \A c \in Chans : Single(receivers[c], Waiter)
  BY DEF ReceiversOK
<1>2. \A c \in Chans : \A e \in ToSet(receivers[c]) :
        e.t \in Tasks /\ e.i \in AllIterators /\ ChanOf[e.i] = c /\ Nexts(e.t, e.i)
  <2>1. \A c \in Chans : \A e \in ToSet(receivers[c]) : e \in Waiter
    BY <1>1 DEF ToSet
  <2> QED BY <2>1 DEF ReceiversOK, Waiter
<1>3. \A t \in Tasks, i \in AllIterators : Nexts(t, i)' => Nexts(t, i) /\ t # fiber
  BY DEF SameNexts
<1>4. \A c \in Chans : \A e \in ToSet(receivers[c]) : Nexts(e.t, e.i)'
  BY <1>2 DEF SameNexts
<1>5. \A t \in Tasks, i \in AllIterators : Nexts(t, i)' => [t |-> t, i |-> i] \in ToSet(receivers[ChanOf[i]])
  BY <1>3 DEF ReceiversOK
<1>6. \A i \in AllIterators : i \in fetching <=> \E t \in Tasks : Nexts(t, i)'
  BY DEF ReceiversOK, SameNexts
<1>7. \A t, u \in Tasks, i \in AllIterators : Nexts(t, i)' /\ Nexts(u, i)' => t = u
  BY <1>3 DEF ReceiversOK
<1> QED BY <1>1, <1>2, <1>4, <1>5, <1>6, <1>7 DEF ReceiversOK, Nexts

(* The same, when no call that waits begins or ends.                        *)
LEMMA ReceiversKept ==
    ASSUME ReceiversOK, SameWaits, StaysAwake, UNCHANGED <<receivers, fetching>>
    PROVE  ReceiversOK'
BY AwakeFacts, ReceiversStay DEF SameWaits, StaysAwake

(* The first receiver goes on and is taken off.                             *)
LEMMA ReceiverTaken ==
    ASSUME ReceiversOK, SameWaits, StaysAwake, UNCHANGED fetching,
           NEW c \in Chans, receivers[c] # <<>>, receivers' = [receivers EXCEPT ![c] = Tail(@)],
           fiber' = Head(receivers[c]).t
    PROVE  ReceiversOK'
<1> DEFINE s == receivers[c]
<1>1. /\ receivers \in [Chans -> Seq(Waiter)] /\ fetching \subseteq AllIterators
      /\ \A d \in Chans : Single(receivers[d], Waiter)
  BY DEF ReceiversOK
<1>2. /\ Head(s) \in Waiter /\ Head(s) \in ToSet(s)
      /\ Tail(s) \in Seq(Waiter) /\ Single(Tail(s), Waiter) /\ ToSet(Tail(s)) = ToSet(s) \ {Head(s)}
  BY <1>1, OnceTail
<1>3. /\ receivers' \in [Chans -> Seq(Waiter)]
      /\ \A d \in Chans : Single(receivers'[d], Waiter)
      /\ \A d \in Chans : ToSet(receivers'[d]) = IF d = c THEN ToSet(s) \ {Head(s)} ELSE ToSet(receivers[d])
  BY <1>1, <1>2
<1>4. \A d \in Chans : \A e \in ToSet(receivers[d]) :
        e \in Waiter /\ e.t \in Tasks /\ e.i \in AllIterators /\ ChanOf[e.i] = d /\ Nexts(e.t, e.i)
  <2>1. \A d \in Chans : \A e \in ToSet(receivers[d]) : e \in Waiter
    BY <1>1 DEF ToSet
  <2> QED BY <2>1 DEF ReceiversOK, Waiter
<1>5. \A t \in Tasks, i \in AllIterators : Nexts(t, i)' => Nexts(t, i) /\ t # fiber
  BY AwakeFacts DEF SameWaits, SameNexts, SameSends, StaysAwake
<1>6. \A d \in Chans : \A e \in ToSet(receivers'[d]) :
        e.i \in AllIterators /\ ChanOf[e.i] = d /\ Nexts(e.t, e.i)'
  BY <1>3, <1>4 DEF SameWaits, SameNexts
<1>7. ASSUME NEW t \in Tasks, NEW i \in AllIterators, Nexts(t, i)', t # fiber'
      PROVE  [t |-> t, i |-> i] \in ToSet(receivers'[ChanOf[i]])
  <2>1. [t |-> t, i |-> i] \in ToSet(receivers[ChanOf[i]]) /\ ChanOf[i] \in Chans
    BY <1>5, <1>7, ChanTypes DEF ReceiversOK
  <2>2. [t |-> t, i |-> i] # Head(s)
    BY <1>7
  <2> QED BY <1>3, <2>1, <2>2
<1>8. \A i \in AllIterators : i \in fetching <=> \E t \in Tasks : Nexts(t, i)'
  BY DEF ReceiversOK, SameWaits, SameNexts
<1>9. \A t, u \in Tasks, i \in AllIterators : Nexts(t, i)' /\ Nexts(u, i)' => t = u
  BY <1>5 DEF ReceiversOK
<1> QED BY <1>1, <1>3, <1>6, <1>7, <1>8, <1>9 DEF ReceiversOK, Nexts

(* The running task blocks as a receiver.                                   *)
LEMMA ReceiverBlocks ==
    ASSUME ReceiversOK, fiber \in Tasks, ~Waits(stack[fiber]), fiber' # fiber,
           NEW i \in AllIterators, i \notin fetching, fetching' = fetching \cup {i},
           receivers' = [receivers EXCEPT ![ChanOf[i]] = Append(@, [t |-> fiber, i |-> i])],
           stack'[fiber] = Within(InNext(i)),
           \A f \in Tasks \cup {Runner} : f # fiber => stack'[f] = stack[f]
    PROVE  ReceiversOK'
<1>0. PICK p \in Tasks : p = fiber
  OBVIOUS
<1> PICK c \in Chans : c = ChanOf[i]
  BY ChanTypes
<1> PICK e \in Waiter : e = [t |-> p, i |-> i]
  BY DEF Waiter
<1> DEFINE s == receivers[c]
<1>1. /\ receivers \in [Chans -> Seq(Waiter)] /\ fetching \subseteq AllIterators
      /\ \A d \in Chans : Single(receivers[d], Waiter)
  BY DEF ReceiversOK
<1>2. \A d \in Chans : \A x \in ToSet(receivers[d]) :
        x \in Waiter /\ x.t \in Tasks /\ x.i \in AllIterators /\ ChanOf[x.i] = d /\ Nexts(x.t, x.i)
  <2>1. \A d \in Chans : \A x \in ToSet(receivers[d]) : x \in Waiter
    BY <1>1 DEF ToSet
  <2> QED BY <2>1 DEF ReceiversOK, Waiter
<1>3. \A j \in AllIterators : ~Nexts(p, j)
  BY <1>0, AwakeFacts
<1>4. \A d \in Chans : \A x \in ToSet(receivers[d]) : x.t # p
  BY <1>2, <1>3
<1>5. Append(s, e) \in Seq(Waiter) /\ Single(Append(s, e), Waiter) /\ ToSet(Append(s, e)) = ToSet(s) \cup {e}
  <2>1. e \notin ToSet(s)
    BY <1>4
  <2> QED BY <1>1, <2>1, OnceAppend
<1>6. /\ receivers' \in [Chans -> Seq(Waiter)]
      /\ \A d \in Chans : Single(receivers'[d], Waiter)
      /\ \A d \in Chans : ToSet(receivers'[d]) = IF d = c THEN ToSet(s) \cup {e} ELSE ToSet(receivers[d])
  BY <1>0, <1>1, <1>5
<1>7. /\ \A j \in AllIterators : Nexts(p, j)' <=> j = i
      /\ \A t \in Tasks, j \in AllIterators : t # p => (Nexts(t, j)' <=> Nexts(t, j))
  <2>1. \A j \in AllIterators : Within(InNext(i)) = Within(InNext(j)) <=> j = i
    BY StackFacts, FrameKinds
  <2> QED BY <1>0, <2>1 DEF Nexts
<1>8. \A d \in Chans : \A x \in ToSet(receivers'[d]) :
        x.i \in AllIterators /\ ChanOf[x.i] = d /\ Nexts(x.t, x.i)'
  <2>1. e.t = p /\ e.i = i
    BY <1>0
  <2> QED BY <1>2, <1>4, <1>6, <1>7, <2>1
<1>9. ASSUME NEW t \in Tasks, NEW j \in AllIterators, Nexts(t, j)'
      PROVE  [t |-> t, i |-> j] \in ToSet(receivers'[ChanOf[j]])
  <2>1. CASE t = p
    BY <1>6, <1>7, <1>9, <2>1
  <2>2. CASE t # p
    <3>1. [t |-> t, i |-> j] \in ToSet(receivers[ChanOf[j]]) /\ ChanOf[j] \in Chans
      BY <1>0, <1>7, <1>9, <2>2, ChanTypes DEF ReceiversOK
    <3> QED BY <1>6, <3>1
  <2> QED BY <2>1, <2>2
<1>10. \A j \in AllIterators : j \in fetching' <=> \E t \in Tasks : Nexts(t, j)'
  BY <1>3, <1>7 DEF ReceiversOK
<1>11. \A t, u \in Tasks, j \in AllIterators : Nexts(t, j)' /\ Nexts(u, j)' => t = u
  <2>1. \A t \in Tasks : ~Nexts(t, i)
    BY DEF ReceiversOK
  <2> QED BY <1>7, <2>1 DEF ReceiversOK
<1> QED BY <1>1, <1>6, <1>8, <1>9, <1>10, <1>11 DEF ReceiversOK, Nexts

(* The running task goes on as a receiver that may still be in the list.    *)
LEMMA ReceiverResumes ==
    ASSUME ReceiversOK, fiber \in Tasks, fiber' = fiber, NEW i \in AllIterators, Nexts(fiber, i),
           fetching' = fetching \ {i},
           receivers' = [receivers EXCEPT ![ChanOf[i]] = Unlink(@, [t |-> fiber, i |-> i])],
           stack'[fiber] = <<Code>>,
           \A f \in Tasks \cup {Runner} : f # fiber => stack'[f] = stack[f]
    PROVE  ReceiversOK'
<1> PICK c \in Chans : c = ChanOf[i]
  BY ChanTypes
<1> PICK e \in Waiter : e = [t |-> fiber, i |-> i]
  BY DEF Waiter
<1> DEFINE s == receivers[c]
<1>1. /\ receivers \in [Chans -> Seq(Waiter)] /\ fetching \subseteq AllIterators
      /\ \A d \in Chans : Single(receivers[d], Waiter)
  BY DEF ReceiversOK
<1>2. \A d \in Chans : \A x \in ToSet(receivers[d]) :
        x \in Waiter /\ x.t \in Tasks /\ x.i \in AllIterators /\ ChanOf[x.i] = d /\ Nexts(x.t, x.i)
  <2>1. \A d \in Chans : \A x \in ToSet(receivers[d]) : x \in Waiter
    BY <1>1 DEF ToSet
  <2> QED BY <2>1 DEF ReceiversOK, Waiter
<1>3. \A j \in AllIterators : Nexts(fiber, j) <=> j = i
  <2>1. \A j \in AllIterators : Within(InNext(i)) = Within(InNext(j)) <=> j = i
    BY StackFacts, FrameKinds
  <2> QED BY <2>1 DEF Nexts
<1>4. \A d \in Chans : \A x \in ToSet(receivers[d]) : x.t = fiber => x = e /\ d = c
  BY <1>2, <1>3 DEF Waiter
<1>5. /\ RemoveFirst(s, e) \in Seq(Waiter) /\ Single(RemoveFirst(s, e), Waiter)
      /\ ToSet(RemoveFirst(s, e)) = ToSet(s) \ {e}
  BY <1>1, OnceRemove
<1>6. /\ receivers' \in [Chans -> Seq(Waiter)]
      /\ \A d \in Chans : Single(receivers'[d], Waiter)
      /\ \A d \in Chans : ToSet(receivers'[d]) = IF d = c THEN ToSet(s) \ {e} ELSE ToSet(receivers[d])
  BY <1>1, <1>5 DEF Unlink
<1>7. /\ \A j \in AllIterators : ~Nexts(fiber, j)'
      /\ \A t \in Tasks, j \in AllIterators : t # fiber => (Nexts(t, j)' <=> Nexts(t, j))
  BY StackFacts DEF Nexts
<1>8. \A d \in Chans : \A x \in ToSet(receivers'[d]) :
        x.i \in AllIterators /\ ChanOf[x.i] = d /\ Nexts(x.t, x.i)'
  BY <1>2, <1>4, <1>6, <1>7
<1>9. ASSUME NEW t \in Tasks, NEW j \in AllIterators, Nexts(t, j)', t # fiber
      PROVE  [t |-> t, i |-> j] \in ToSet(receivers'[ChanOf[j]])
  <2>1. [t |-> t, i |-> j] \in ToSet(receivers[ChanOf[j]]) /\ ChanOf[j] \in Chans
    BY <1>7, <1>9, ChanTypes DEF ReceiversOK
  <2>2. [t |-> t, i |-> j] # e
    BY <1>9
  <2> QED BY <1>6, <2>1, <2>2
<1>10. \A j \in AllIterators : j \in fetching' <=> \E t \in Tasks : Nexts(t, j)'
  <2>1. \A t \in Tasks : Nexts(t, i) => t = fiber
    BY DEF ReceiversOK
  <2> QED BY <1>3, <1>7, <2>1 DEF ReceiversOK
<1>11. \A t, u \in Tasks, j \in AllIterators : Nexts(t, j)' /\ Nexts(u, j)' => t = u
  BY <1>7 DEF ReceiversOK
<1> QED BY <1>1, <1>6, <1>7, <1>8, <1>9, <1>10, <1>11 DEF ReceiversOK, Nexts

(* A message whose sender waits is not decided.                             *)
StillWaiting == \A m \in Msgs : result[m] = "waiting" => result'[m] = "waiting"

(* The senders stay, and so do those who wait.                              *)
LEMMA SendersStay ==
    ASSUME SendersOK, SameSends, fiber \in Tasks => \A c \in Chans, m \in Msgs : ~Sends(fiber, c, m),
           UNCHANGED senders, StillWaiting
    PROVE  SendersOK'
<1>1. /\ senders \in [Chans -> Seq(Waiter)]
      /\ \A c \in Chans : Single(senders[c], Waiter)
  BY DEF SendersOK
<1>2. \A c \in Chans : \A e \in ToSet(senders[c]) :
        e.t \in Tasks /\ e.i = None /\ \E m \in Msgs : Sends(e.t, c, m)
  <2>1. \A c \in Chans : \A e \in ToSet(senders[c]) : e \in Waiter
    BY <1>1 DEF ToSet
  <2> QED BY <2>1 DEF SendersOK, Waiter
<1>3. \A t \in Tasks, c \in Chans, m \in Msgs : Sends(t, c, m)' => Sends(t, c, m) /\ t # fiber
  BY DEF SameSends
<1>4. \A c \in Chans : \A e \in ToSet(senders[c]) : \E m \in Msgs : Sends(e.t, c, m)'
  BY <1>2 DEF SameSends
<1>5. \A t \in Tasks, c \in Chans, m \in Msgs : Sends(t, c, m)' =>
        [t |-> t, i |-> None] \in ToSet(senders[c]) /\ result'[m] = "waiting"
  BY <1>3 DEF SendersOK, StillWaiting
<1>6. \A t, u \in Tasks, c, d \in Chans, m \in Msgs : Sends(t, c, m)' /\ Sends(u, d, m)' => t = u
  BY <1>3 DEF SendersOK
<1> QED BY <1>1, <1>2, <1>4, <1>5, <1>6 DEF SendersOK, Sends

(* The same, when no call that waits begins or ends.                        *)
LEMMA SendersKept ==
    ASSUME SendersOK, SameWaits, StaysAwake, UNCHANGED senders, StillWaiting
    PROVE  SendersOK'
BY AwakeFacts, SendersStay DEF SameWaits, StaysAwake

(* The first sender goes on and is taken off.                               *)
LEMMA SenderTaken ==
    ASSUME SendersOK, SameWaits, StaysAwake, StillWaiting,
           NEW c \in Chans, senders[c] # <<>>, senders' = [senders EXCEPT ![c] = Tail(@)],
           fiber' = Head(senders[c]).t
    PROVE  SendersOK'
<1> DEFINE s == senders[c]
<1>1. /\ senders \in [Chans -> Seq(Waiter)]
      /\ \A d \in Chans : Single(senders[d], Waiter)
  BY DEF SendersOK
<1>2. /\ Head(s) \in Waiter /\ Head(s) \in ToSet(s)
      /\ Tail(s) \in Seq(Waiter) /\ Single(Tail(s), Waiter) /\ ToSet(Tail(s)) = ToSet(s) \ {Head(s)}
  BY <1>1, OnceTail
<1>3. /\ senders' \in [Chans -> Seq(Waiter)]
      /\ \A d \in Chans : Single(senders'[d], Waiter)
      /\ \A d \in Chans : ToSet(senders'[d]) = IF d = c THEN ToSet(s) \ {Head(s)} ELSE ToSet(senders[d])
  BY <1>1, <1>2
<1>4. \A d \in Chans : \A e \in ToSet(senders[d]) :
        e.t \in Tasks /\ e.i = None /\ \E m \in Msgs : Sends(e.t, d, m)
  <2>1. \A d \in Chans : \A e \in ToSet(senders[d]) : e \in Waiter
    BY <1>1 DEF ToSet
  <2> QED BY <2>1 DEF SendersOK, Waiter
<1>5. \A t \in Tasks, d \in Chans, m \in Msgs : Sends(t, d, m)' => Sends(t, d, m) /\ t # fiber
  BY AwakeFacts DEF SameWaits, SameNexts, SameSends, StaysAwake
<1>6. \A d \in Chans : \A e \in ToSet(senders'[d]) : e.i = None /\ \E m \in Msgs : Sends(e.t, d, m)'
  BY <1>3, <1>4 DEF SameWaits, SameSends
<1>7. ASSUME NEW t \in Tasks, NEW d \in Chans, NEW m \in Msgs, Sends(t, d, m)'
      PROVE  result'[m] = "waiting" /\ (t # fiber' => [t |-> t, i |-> None] \in ToSet(senders'[d]))
  <2>1. [t |-> t, i |-> None] \in ToSet(senders[d]) /\ result'[m] = "waiting"
    BY <1>5, <1>7 DEF SendersOK, StillWaiting
  <2>2. t # fiber' => [t |-> t, i |-> None] # Head(s)
    OBVIOUS
  <2> QED BY <1>3, <2>1, <2>2
<1>8. \A t, u \in Tasks, d, g \in Chans, m \in Msgs : Sends(t, d, m)' /\ Sends(u, g, m)' => t = u
  BY <1>5 DEF SendersOK
<1> QED BY <1>1, <1>3, <1>6, <1>7, <1>8 DEF SendersOK, Sends

(* The running task blocks as a sender.                                     *)
LEMMA SenderBlocks ==
    ASSUME SendersOK, fiber \in Tasks, ~Waits(stack[fiber]), fiber' # fiber,
           NEW c \in Chans, NEW m \in Msgs, result[m] = "new", StillWaiting, result'[m] = "waiting",
           senders' = [senders EXCEPT ![c] = Append(@, [t |-> fiber, i |-> None])],
           stack'[fiber] = Within(InSend(c, m)),
           \A f \in Tasks \cup {Runner} : f # fiber => stack'[f] = stack[f]
    PROVE  SendersOK'
<1>0. PICK p \in Tasks : p = fiber
  OBVIOUS
<1> PICK e \in Waiter : e = [t |-> p, i |-> None]
  BY DEF Waiter
<1> DEFINE s == senders[c]
<1>1. /\ senders \in [Chans -> Seq(Waiter)]
      /\ \A d \in Chans : Single(senders[d], Waiter)
  BY DEF SendersOK
<1>2. \A d \in Chans : \A x \in ToSet(senders[d]) :
        x.t \in Tasks /\ x.i = None /\ \E n \in Msgs : Sends(x.t, d, n)
  <2>1. \A d \in Chans : \A x \in ToSet(senders[d]) : x \in Waiter
    BY <1>1 DEF ToSet
  <2> QED BY <2>1 DEF SendersOK, Waiter
<1>3. \A d \in Chans, n \in Msgs : ~Sends(p, d, n)
  BY <1>0, AwakeFacts
<1>4. \A d \in Chans : \A x \in ToSet(senders[d]) : x.t # p
  BY <1>2, <1>3
<1>5. Append(s, e) \in Seq(Waiter) /\ Single(Append(s, e), Waiter) /\ ToSet(Append(s, e)) = ToSet(s) \cup {e}
  <2>1. e \notin ToSet(s)
    BY <1>4
  <2> QED BY <1>1, <2>1, OnceAppend
<1>6. /\ senders' \in [Chans -> Seq(Waiter)]
      /\ \A d \in Chans : Single(senders'[d], Waiter)
      /\ \A d \in Chans : ToSet(senders'[d]) = IF d = c THEN ToSet(s) \cup {e} ELSE ToSet(senders[d])
  BY <1>0, <1>1, <1>5
<1>7. /\ \A d \in Chans, n \in Msgs : Sends(p, d, n)' <=> d = c /\ n = m
      /\ \A t \in Tasks, d \in Chans, n \in Msgs : t # p => (Sends(t, d, n)' <=> Sends(t, d, n))
  <2>1. \A d \in Chans, n \in Msgs : Within(InSend(c, m)) = Within(InSend(d, n)) <=> d = c /\ n = m
    BY StackFacts, FrameKinds
  <2> QED BY <1>0, <2>1 DEF Sends
<1>8. \A d \in Chans : \A x \in ToSet(senders'[d]) : x.i = None /\ \E n \in Msgs : Sends(x.t, d, n)'
  <2>1. e.t = p /\ e.i = None
    OBVIOUS
  <2>2. \A d \in Chans : \A x \in ToSet(senders[d]) : x.i = None /\ \E n \in Msgs : Sends(x.t, d, n)'
    BY <1>2, <1>4, <1>7
  <2>3. \E n \in Msgs : Sends(e.t, c, n)'
    BY <1>7, <2>1
  <2> QED BY <1>6, <2>1, <2>2, <2>3
<1>9. ASSUME NEW t \in Tasks, NEW d \in Chans, NEW n \in Msgs, Sends(t, d, n)'
      PROVE  [t |-> t, i |-> None] \in ToSet(senders'[d]) /\ result'[n] = "waiting"
  <2>1. CASE t = p
    BY <1>6, <1>7, <1>9, <2>1
  <2>2. CASE t # p
    <3>1. [t |-> t, i |-> None] \in ToSet(senders[d]) /\ result'[n] = "waiting"
      BY <1>0, <1>7, <1>9, <2>2 DEF SendersOK, StillWaiting
    <3> QED BY <1>6, <3>1
  <2> QED BY <2>1, <2>2
<1>10. ASSUME NEW t \in Tasks, NEW u \in Tasks, NEW d \in Chans, NEW g \in Chans, NEW n \in Msgs,
              Sends(t, d, n)', Sends(u, g, n)'
       PROVE  t = u
  <2>1. \A v \in Tasks, b \in Chans : ~Sends(v, b, m)
    BY DEF SendersOK
  <2> QED BY <1>7, <1>10, <2>1 DEF SendersOK
<1> QED BY <1>1, <1>6, <1>8, <1>9, <1>10 DEF SendersOK, Sends

(* The running task goes on as a sender that may still be in the list.      *)
LEMMA SenderResumes ==
    ASSUME SendersOK, fiber \in Tasks, fiber' = fiber, NEW c \in Chans, NEW m \in Msgs, Sends(fiber, c, m),
           \A n \in Msgs : n # m => result'[n] = result[n],
           senders' = [senders EXCEPT ![c] = Unlink(@, [t |-> fiber, i |-> None])],
           stack'[fiber] = <<Code>>,
           \A f \in Tasks \cup {Runner} : f # fiber => stack'[f] = stack[f]
    PROVE  SendersOK'
<1> PICK e \in Waiter : e = [t |-> fiber, i |-> None]
  BY DEF Waiter
<1> DEFINE s == senders[c]
<1>1. /\ senders \in [Chans -> Seq(Waiter)]
      /\ \A d \in Chans : Single(senders[d], Waiter)
  BY DEF SendersOK
<1>2. \A d \in Chans : \A x \in ToSet(senders[d]) :
        x \in Waiter /\ x.t \in Tasks /\ x.i = None /\ \E n \in Msgs : Sends(x.t, d, n)
  <2>1. \A d \in Chans : \A x \in ToSet(senders[d]) : x \in Waiter
    BY <1>1 DEF ToSet
  <2> QED BY <2>1 DEF SendersOK, Waiter
<1>3. \A d \in Chans, n \in Msgs : Sends(fiber, d, n) => d = c /\ n = m
  <2>1. \A d \in Chans, n \in Msgs : Within(InSend(c, m)) = Within(InSend(d, n)) <=> d = c /\ n = m
    BY StackFacts, FrameKinds
  <2> QED BY <2>1 DEF Sends
<1>4. \A d \in Chans : \A x \in ToSet(senders[d]) : x.t = fiber => x = e /\ d = c
  BY <1>2, <1>3 DEF Waiter
<1>5. /\ RemoveFirst(s, e) \in Seq(Waiter) /\ Single(RemoveFirst(s, e), Waiter)
      /\ ToSet(RemoveFirst(s, e)) = ToSet(s) \ {e}
  BY <1>1, OnceRemove
<1>6. /\ senders' \in [Chans -> Seq(Waiter)]
      /\ \A d \in Chans : Single(senders'[d], Waiter)
      /\ \A d \in Chans : ToSet(senders'[d]) = IF d = c THEN ToSet(s) \ {e} ELSE ToSet(senders[d])
  BY <1>1, <1>5 DEF Unlink
<1>7. /\ \A d \in Chans, n \in Msgs : ~Sends(fiber, d, n)'
      /\ \A t \in Tasks, d \in Chans, n \in Msgs : t # fiber => (Sends(t, d, n)' <=> Sends(t, d, n))
  BY StackFacts DEF Sends
<1>8. \A d \in Chans : \A x \in ToSet(senders'[d]) : x.i = None /\ \E n \in Msgs : Sends(x.t, d, n)'
  BY <1>2, <1>4, <1>6, <1>7
<1>9. ASSUME NEW t \in Tasks, NEW d \in Chans, NEW n \in Msgs, Sends(t, d, n)'
      PROVE  [t |-> t, i |-> None] \in ToSet(senders'[d]) /\ result'[n] = "waiting"
  <2>1. t # fiber /\ Sends(t, d, n)
    BY <1>7, <1>9
  <2>2. [t |-> t, i |-> None] \in ToSet(senders[d]) /\ result[n] = "waiting" /\ n # m
    BY <2>1 DEF SendersOK
  <2>3. [t |-> t, i |-> None] # e
    BY <2>1
  <2> QED BY <1>6, <2>2, <2>3
<1>10. \A t, u \in Tasks, d, g \in Chans, n \in Msgs : Sends(t, d, n)' /\ Sends(u, g, n)' => t = u
  BY <1>7 DEF SendersOK
<1> QED BY <1>1, <1>6, <1>8, <1>9, <1>10 DEF SendersOK, Sends

-------------------------------------------------------------------------------
(* The ring buffer.                                                         *)
LEMMA SizeType == MaxSize \in Nat
BY DEF MaxSize

(* A position, taken modulo the size, when it is at most once around.       *)
LEMMA Wrap ==
    ASSUME NEW n \in Nat \ {0}, NEW a \in 0 .. 2 * n - 1
    PROVE  a % n = IF a < n THEN a ELSE a - n
OBVIOUS

(* Where the k-th message of the buffer is.                                 *)
At(b, k) == IF b.rpos + k - 1 < b.size THEN b.rpos + k - 1 ELSE b.rpos + k - 1 - b.size
ContentsOf(b) == [k \in 1 .. b.len |-> b.data[(b.rpos + k - 1) % b.size]]
Mod(a, n) == a % n

(* The positions of the ring are all different, and wpos follows the last.  *)
LEMMA Positions ==
    ASSUME NEW b, Ring(b), b.size # 0
    PROVE  /\ b.size \in Nat \ {0} /\ b.len \in 0 .. b.size /\ b.rpos \in 0 .. b.size - 1
           /\ \A k \in 1 .. b.size : Mod(b.rpos + k - 1, b.size) = At(b, k) /\ At(b, k) \in 0 .. b.size - 1
           /\ \A j, k \in 1 .. b.size : At(b, j) = At(b, k) => j = k
           /\ b.len < b.size => b.wpos = At(b, b.len + 1)
           /\ b.len < b.size => Mod(b.wpos + 1, b.size) = Mod(b.rpos + (b.len + 1), b.size)
           /\ b.len > 0 => b.wpos = Mod(Mod(b.rpos + 1, b.size) + (b.len - 1), b.size)
           /\ Mod(b.rpos + 1, b.size) = IF b.rpos + 1 < b.size THEN b.rpos + 1 ELSE 0
<1>1. /\ b.size \in Nat \ {0} /\ b.len \in 0 .. b.size /\ b.rpos \in 0 .. b.size - 1
      /\ b.wpos = Mod(b.rpos + b.len, b.size)
  BY SizeType DEF Ring, Mod
<1> PICK n \in Nat \ {0} : n = b.size
  BY <1>1
<1> PICK l \in 0 .. n : l = b.len
  BY <1>1
<1> PICK r \in 0 .. n - 1 : r = b.rpos
  BY <1>1
<1>2. \A a \in 0 .. 2 * n - 1 : Mod(a, n) = IF a < n THEN a ELSE a - n
  BY Wrap DEF Mod
<1>3. \A k \in 1 .. n : r + k - 1 \in 0 .. 2 * n - 1
  OBVIOUS
<1>4. \A k \in 1 .. n : Mod(r + k - 1, n) = At(b, k) /\ At(b, k) \in 0 .. n - 1
  BY <1>2, <1>3 DEF At
<1>5. \A j, k \in 1 .. n : At(b, j) = At(b, k) => j = k
  BY DEF At
<1>6. l < n => Mod(r + l, n) = At(b, l + 1)
  <2>1. r + l = r + (l + 1) - 1 /\ (l < n => l + 1 \in 1 .. n)
    OBVIOUS
  <2> QED BY <1>4, <2>1
<1>7. l < n => Mod(Mod(r + l, n) + 1, n) = Mod(r + (l + 1), n)
  <2> SUFFICES ASSUME l < n PROVE Mod(Mod(r + l, n) + 1, n) = Mod(r + (l + 1), n)
    OBVIOUS
  <2>1. r + (l + 1) \in 0 .. 2 * n - 1 /\ r + l \in 0 .. 2 * n - 1
    OBVIOUS
  <2>2. CASE r + l < n
    <3>1. Mod(r + l, n) = r + l
      BY <1>2, <2>1, <2>2
    <3> QED BY <3>1
  <2>3. CASE r + l >= n
    <3>1. Mod(r + l, n) = r + l - n /\ Mod(r + (l + 1), n) = r + l + 1 - n
      BY <1>2, <2>1, <2>3
    <3>2. r + l - n + 1 \in 0 .. n - 1
      BY <2>3
    <3>3. Mod(r + l - n + 1, n) = r + l - n + 1
      BY <1>2, <3>2
    <3> QED BY <3>1, <3>3
  <2> QED BY <2>2, <2>3
<1>8. Mod(r + 1, n) = IF r + 1 < n THEN r + 1 ELSE 0
  <2>1. CASE r + 1 < n
    BY <1>2, <2>1
  <2>2. CASE ~(r + 1 < n)
    <3>1. r + 1 = n
      BY <2>2
    <3>2. Mod(n, n) = 0
      BY <1>2
    <3> QED BY <3>1, <3>2
  <2> QED BY <2>1, <2>2
<1>9. l > 0 => Mod(r + l, n) = Mod(Mod(r + 1, n) + (l - 1), n)
  <2> SUFFICES ASSUME l > 0 PROVE Mod(r + l, n) = Mod(Mod(r + 1, n) + (l - 1), n)
    OBVIOUS
  <2>1. CASE r + 1 < n
    BY <1>8, <2>1
  <2>2. CASE ~(r + 1 < n)
    <3>1. r = n - 1 /\ Mod(r + 1, n) = 0 /\ r + l \in 0 .. 2 * n - 1 /\ l - 1 \in 0 .. n - 1
      BY <1>8, <2>2
    <3>2. Mod(r + l, n) = l - 1 /\ Mod(l - 1, n) = l - 1
      BY <1>2, <3>1
    <3> QED BY <3>1, <3>2
  <2> QED BY <2>1, <2>2
<1> QED BY <1>1, <1>4, <1>5, <1>6, <1>7, <1>8, <1>9

(* The contents are a sequence of messages; the next one is at rpos.        *)
LEMMA ContentsType ==
    ASSUME NEW b, Ring(b)
    PROVE  /\ b.len \in Nat /\ ContentsOf(b) \in Seq(Msgs) /\ Len(ContentsOf(b)) = b.len
           /\ b.len > 0 => ContentsOf(b) # <<>> /\ b.data[b.rpos] = Head(ContentsOf(b))
                           /\ b.data[b.rpos] \in Msgs
<1> DEFINE s == ContentsOf(b)
<1>1. b.len \in Nat /\ \A k \in 1 .. b.len : b.data[(b.rpos + k - 1) % b.size] \in Msgs
  BY SizeType DEF Ring
<1>2. s \in Seq(Msgs) /\ Len(s) = b.len /\ \A k \in 1 .. b.len : s[k] = b.data[(b.rpos + k - 1) % b.size]
  BY <1>1 DEF ContentsOf
<1>3. ASSUME b.len > 0 PROVE s # <<>> /\ b.data[b.rpos] = Head(s) /\ b.data[b.rpos] \in Msgs
  <2>1. b.size # 0 /\ 1 \in 1 .. b.len
    BY <1>1, <1>3, SizeType DEF Ring
  <2>2. b.size \in Nat \ {0} /\ b.rpos \in 0 .. b.size - 1 /\ 1 \in 1 .. b.size
        /\ Mod(b.rpos + 1 - 1, b.size) = At(b, 1)
    BY <2>1, Positions
  <2>3. At(b, 1) = b.rpos
    BY <2>2 DEF At
  <2>4. s[1] = b.data[b.rpos]
    BY <1>2, <2>1, <2>2, <2>3 DEF Mod
  <2> HIDE DEF s
  <2>5. s # <<>> /\ Head(s) = s[1] /\ s[1] \in Msgs
    BY <1>2, <2>1
  <2> QED BY <2>4, <2>5
<1> QED BY <1>1, <1>2, <1>3

(* A message is put into a buffer that is not full.                         *)
LEMMA PutRing ==
    ASSUME NEW b, Ring(b), b.len < b.size, NEW m \in Msgs, NEW d, d = Put(b, b.size, m)
    PROVE  /\ Ring(d) /\ d.size = b.size /\ d.len = b.len + 1
           /\ ContentsOf(d) = Append(ContentsOf(b), m)
<1>0. b.size # 0 /\ b.len \in Nat /\ b.size \in 0 .. MaxSize
  BY SizeType DEF Ring
<1>1. /\ b.size \in Nat \ {0} /\ b.len \in 0 .. b.size /\ b.rpos \in 0 .. b.size - 1
      /\ \A k \in 1 .. b.size : Mod(b.rpos + k - 1, b.size) = At(b, k) /\ At(b, k) \in 0 .. b.size - 1
      /\ \A j, k \in 1 .. b.size : At(b, j) = At(b, k) => j = k
      /\ b.wpos = At(b, b.len + 1)
      /\ Mod(b.wpos + 1, b.size) = Mod(b.rpos + (b.len + 1), b.size)
  BY <1>0, Positions
<1>2. /\ d = [data |-> [b.data EXCEPT ![b.wpos] = m], size |-> b.size, rpos |-> b.rpos,
              wpos |-> (b.wpos + 1) % b.size, len |-> b.len + 1]
  BY DEF Put, Ring
<1>3. /\ d = [data |-> d.data, size |-> d.size, rpos |-> d.rpos, wpos |-> d.wpos, len |-> d.len]
      /\ d.data = [b.data EXCEPT ![b.wpos] = m] /\ d.size = b.size /\ d.rpos = b.rpos
      /\ d.wpos = Mod(b.wpos + 1, b.size) /\ d.len = b.len + 1
  BY <1>2 DEF Mod
<1>4. b.len + 1 \in 1 .. b.size /\ b.len + 1 \in 0 .. b.size /\ b.wpos \in 0 .. b.size - 1
      /\ \A k \in 1 .. b.len + 1 : k \in 1 .. b.size /\ (k # b.len + 1 => k \in 1 .. b.len)
  BY <1>0, <1>1
<1>5. d.data \in [0 .. d.size - 1 -> Msgs \cup {None}]
  BY <1>3, <1>4 DEF Ring
<1>6. \A k \in 1 .. b.len + 1 :
        d.data[At(b, k)] = IF k = b.len + 1 THEN m ELSE b.data[At(b, k)]
  <2>1. b.data \in [0 .. b.size - 1 -> Msgs \cup {None}]
    BY DEF Ring
  <2> QED BY <1>1, <1>3, <1>4, <2>1
<1>7. \A k \in 1 .. b.len : b.data[At(b, k)] \in Msgs
  <2>1. \A k \in 1 .. b.len : k \in 1 .. b.size
    BY <1>1
  <2>2. \A k \in 1 .. b.len : b.data[Mod(b.rpos + k - 1, b.size)] \in Msgs
    BY DEF Ring, Mod
  <2> QED BY <1>1, <2>1, <2>2
<1>8. \A k \in 1 .. b.len + 1 : d.data[Mod(d.rpos + k - 1, d.size)] \in Msgs
  BY <1>1, <1>3, <1>4, <1>6, <1>7
<1>9. Ring(d)
  <2>1. d.wpos = Mod(d.rpos + d.len, d.size) /\ d.size # 0
    BY <1>0, <1>1, <1>3
  <2>2. \A k \in 1 .. d.len : d.data[(d.rpos + k - 1) % d.size] \in Msgs
    BY <1>3, <1>8 DEF Mod
  <2> QED BY <1>0, <1>1, <1>3, <1>4, <1>5, <2>1, <2>2 DEF Ring, Mod
<1>10. ContentsOf(d) = Append(ContentsOf(b), m)
  <2> DEFINE s == ContentsOf(b)
             q == ContentsOf(d)
  <2>1. s \in Seq(Msgs) /\ Len(s) = b.len /\ q \in Seq(Msgs) /\ Len(q) = b.len + 1
    BY <1>3, <1>9, ContentsType
  <2>2. \A k \in 1 .. b.len : s[k] = b.data[At(b, k)]
    <3>1. \A k \in 1 .. b.len : k \in 1 .. b.size
      BY <1>1
    <3> QED BY <1>1, <3>1 DEF ContentsOf, Mod
  <2>3. \A k \in 1 .. b.len + 1 : q[k] = d.data[At(b, k)]
    BY <1>1, <1>3, <1>4 DEF ContentsOf, Mod
  <2> HIDE DEF s, q
  <2>4. /\ Append(s, m) \in Seq(Msgs) /\ Len(Append(s, m)) = b.len + 1
        /\ \A k \in 1 .. b.len : Append(s, m)[k] = s[k]
        /\ Append(s, m)[b.len + 1] = m
    BY <2>1, AppendProperties
  <2>5. \A k \in 1 .. b.len + 1 : q[k] = Append(s, m)[k]
    BY <1>4, <1>6, <2>2, <2>3, <2>4
  <2>6. q = Append(s, m)
    BY <2>1, <2>4, <2>5, SeqEqual
  <2> QED BY <2>6 DEF s, q
<1> QED BY <1>3, <1>9, <1>10

(* The next message is taken out of a buffer that is not empty.             *)
LEMMA DropRing ==
    ASSUME NEW b, Ring(b), b.len > 0, NEW d, d = Drop(b, b.size)
    PROVE  /\ Ring(d) /\ d.size = b.size /\ d.len = b.len - 1 /\ d.len < d.size
           /\ ContentsOf(d) = Tail(ContentsOf(b))
<1>0. b.size # 0 /\ b.len \in Nat /\ b.size \in 0 .. MaxSize
  BY SizeType DEF Ring
<1>1. /\ b.size \in Nat \ {0} /\ b.len \in 0 .. b.size /\ b.rpos \in 0 .. b.size - 1
      /\ \A k \in 1 .. b.size : Mod(b.rpos + k - 1, b.size) = At(b, k) /\ At(b, k) \in 0 .. b.size - 1
      /\ b.wpos = Mod(Mod(b.rpos + 1, b.size) + (b.len - 1), b.size)
      /\ Mod(b.rpos + 1, b.size) = IF b.rpos + 1 < b.size THEN b.rpos + 1 ELSE 0
  BY <1>0, Positions
<1>2. /\ d = [data |-> b.data, size |-> b.size, rpos |-> (b.rpos + 1) % b.size,
              wpos |-> b.wpos, len |-> b.len - 1]
  BY DEF Drop, Ring
<1>3. /\ d = [data |-> d.data, size |-> d.size, rpos |-> d.rpos, wpos |-> d.wpos, len |-> d.len]
      /\ d.data = b.data /\ d.size = b.size /\ d.rpos = Mod(b.rpos + 1, b.size)
      /\ d.wpos = b.wpos /\ d.len = b.len - 1
  BY <1>2 DEF Mod
<1>4. /\ d.rpos = (IF b.rpos + 1 < b.size THEN b.rpos + 1 ELSE 0) /\ d.rpos \in 0 .. b.size - 1
      /\ d.len \in 0 .. b.size /\ d.len < d.size
      /\ \A k \in 1 .. b.len - 1 : k \in 1 .. b.len /\ k + 1 \in 1 .. b.len /\ k + 1 \in 1 .. b.size /\ k \in 1 .. b.size
  BY <1>0, <1>1, <1>3
<1>5. \A k \in 1 .. b.len - 1 : Mod(d.rpos + k - 1, d.size) = At(b, k + 1)
  <2>1. \A a \in 0 .. 2 * b.size - 1 : Mod(a, b.size) = IF a < b.size THEN a ELSE a - b.size
    BY <1>1, Wrap DEF Mod
  <2>2. \A k \in 1 .. b.len - 1 : d.rpos + k - 1 \in 0 .. 2 * b.size - 1
    BY <1>1, <1>4
  <2> TAKE k \in 1 .. b.len - 1
  <2>4. PICK a \in 0 .. 2 * b.size - 1 : a = d.rpos + k - 1
    BY <2>2
  <2>5. Mod(a, b.size) = IF a < b.size THEN a ELSE a - b.size
    BY <2>1
  <2>6. At(b, k + 1) = IF a < b.size THEN a ELSE a - b.size
    BY <1>0, <1>1, <1>4, <2>4 DEF At
  <2>7. Mod(d.rpos + k - 1, d.size) = Mod(a, b.size)
    BY <1>3, <2>4
  <2> QED BY <2>5, <2>6, <2>7
<1>6. \A k \in 1 .. b.len : b.data[At(b, k)] \in Msgs
  <2>1. \A k \in 1 .. b.len : k \in 1 .. b.size
    BY <1>1
  <2>2. \A k \in 1 .. b.len : b.data[Mod(b.rpos + k - 1, b.size)] \in Msgs
    BY DEF Ring, Mod
  <2> QED BY <1>1, <2>1, <2>2
<1>7. \A k \in 1 .. d.len : d.data[Mod(d.rpos + k - 1, d.size)] \in Msgs
  BY <1>3, <1>4, <1>5, <1>6
<1>8. Ring(d)
  <2>1. d.wpos = Mod(d.rpos + d.len, d.size) /\ d.size # 0 /\ d.data \in [0 .. d.size - 1 -> Msgs \cup {None}]
    BY <1>0, <1>1, <1>3 DEF Ring
  <2> QED BY <1>0, <1>3, <1>4, <1>7, <2>1 DEF Ring, Mod
<1>9. ContentsOf(d) = Tail(ContentsOf(b))
  <2> DEFINE s == ContentsOf(b)
             q == ContentsOf(d)
  <2>1. s \in Seq(Msgs) /\ s # <<>> /\ Len(s) = b.len /\ q \in Seq(Msgs) /\ Len(q) = b.len - 1
    BY <1>3, <1>8, ContentsType
  <2>2. \A k \in 1 .. b.len : s[k] = b.data[At(b, k)]
    <3>1. \A k \in 1 .. b.len : k \in 1 .. b.size
      BY <1>1
    <3> QED BY <1>1, <3>1 DEF ContentsOf, Mod
  <2>3. \A k \in 1 .. b.len - 1 : q[k] = b.data[At(b, k + 1)]
    BY <1>3, <1>5 DEF ContentsOf, Mod
  <2> HIDE DEF s, q
  <2>4. Tail(s) \in Seq(Msgs) /\ Len(Tail(s)) = b.len - 1 /\ \A k \in 1 .. b.len - 1 : Tail(s)[k] = s[k + 1]
    BY <2>1, HeadTailProperties
  <2>5. \A k \in 1 .. b.len - 1 : q[k] = Tail(s)[k]
    BY <1>4, <2>2, <2>3, <2>4
  <2>6. q = Tail(s)
    BY <2>1, <2>4, <2>5, SeqEqual
  <2> QED BY <2>6 DEF s, q
<1> QED BY <1>3, <1>4, <1>8, <1>9

-------------------------------------------------------------------------------
(* The first in a list goes on.                                             *)
LEMMA FirstReceiver ==
    ASSUME Tasking, ReceiversOK, fiber \in Tasks => ~Waits(stack[fiber]),
           NEW c \in Chans, receivers[c] # <<>>, NEW r, r = Head(receivers[c])
    PROVE  /\ r.t \in Tasks /\ r.t # fiber /\ r.i \in AllIterators /\ ChanOf[r.i] = c
           /\ Nexts(r.t, r.i) /\ Waits(stack[r.t]) /\ Head(stack[r.t]) = InNext(r.i) /\ op[r.t] = Running
           /\ \A i \in AllIterators : Nexts(r.t, i) => i = r.i
<1>1. r \in Waiter /\ r \in ToSet(receivers[c])
  BY OnceTail DEF ReceiversOK
<1>2. r.t \in Tasks /\ r.i \in AllIterators /\ ChanOf[r.i] = c /\ Nexts(r.t, r.i)
  BY <1>1 DEF ReceiversOK, Waiter
<1>3. Waits(stack[r.t]) /\ Head(stack[r.t]) = InNext(r.i)
  <2>1. InNext(r.i) \in Calls /\ InNext(r.i).k = "next"
    BY <1>2, CallsNamed, FrameKinds
  <2>2. stack[r.t] = Within(InNext(r.i))
    BY <1>2 DEF Nexts
  <2> QED BY <2>1, <2>2, WaitFacts, StackFacts
<1>4. \A i \in AllIterators : Nexts(r.t, i) => i = r.i
  BY <1>2, StackFacts, FrameKinds DEF Nexts
<1> QED BY <1>2, <1>3, <1>4 DEF Tasking, OpsOK

(* The same of the senders.                                                 *)
LEMMA FirstSender ==
    ASSUME Tasking, SendersOK, fiber \in Tasks => ~Waits(stack[fiber]),
           NEW c \in Chans, senders[c] # <<>>, NEW e, e = Head(senders[c])
    PROVE  /\ e.t \in Tasks /\ e.t # fiber /\ MsgOf(e) \in Msgs /\ Sends(e.t, c, MsgOf(e))
           /\ Waits(stack[e.t]) /\ Head(stack[e.t]) = InSend(c, MsgOf(e)) /\ op[e.t] = Running
           /\ \A i \in AllIterators : ~Nexts(e.t, i)
<1>1. e \in Waiter /\ e \in ToSet(senders[c])
  BY OnceTail DEF SendersOK
<1>2. PICK m \in Msgs : e.t \in Tasks /\ Sends(e.t, c, m)
  BY <1>1 DEF SendersOK, Waiter
<1>3. Waits(stack[e.t]) /\ Head(stack[e.t]) = InSend(c, m)
  <2>1. InSend(c, m) \in Calls /\ InSend(c, m).k = "send"
    BY CallsNamed, FrameKinds
  <2>2. stack[e.t] = Within(InSend(c, m))
    BY <1>2 DEF Sends
  <2> QED BY <2>1, <2>2, WaitFacts, StackFacts
<1>4. MsgOf(e) = m
  BY <1>3, FrameKinds DEF MsgOf
<1>5. \A i \in AllIterators : ~Nexts(e.t, i)
  BY <1>2, StackFacts, FrameKinds DEF Nexts, Sends
<1> QED BY <1>2, <1>3, <1>4, <1>5 DEF Tasking, OpsOK

(* The first receiver is taken off and resumed.                             *)
LEMMA ReceiverWakes ==
    ASSUME Tasking, ReceiversOK, GoesOn(stack[fiber]), cancelled' \subseteq Tasks,
           NEW s, GoesOn(s), IF fiber = Runner THEN s = <<Loop>> ELSE OfTask(s),
           NEW c \in Chans, receivers[c] # <<>>, receivers' = [receivers EXCEPT ![c] = Tail(@)],
           NEW r, r = Head(receivers[c]), NEW res, res \in {"RESOLVED", "FAILED"}, NEW m \in Msgs \cup {None},
           m # None <=> res = "RESOLVED" /\ state'[c] = "open", SettleReceiver(c, r, res, m, s)
    PROVE  /\ Tasking' /\ SameWaits /\ StaysAwake /\ ReceiversOK' /\ UNCHANGED <<fetching, check>>
           /\ fiber' = r.t /\ op'[r.t].value = m /\ op'[r.t].status = res /\ stack'[fiber] = s
           /\ \A f \in Tasks \cup {Runner} : f # fiber => stack'[f] = stack[f]
<1>1. fiber \in Tasks => ~Waits(stack[fiber])
  BY DEF GoesOn
<1>2. /\ r.t \in Tasks /\ r.t # fiber /\ r.i \in AllIterators /\ ChanOf[r.i] = c
      /\ Nexts(r.t, r.i) /\ Waits(stack[r.t]) /\ Head(stack[r.t]) = InNext(r.i) /\ op[r.t] = Running
      /\ \A i \in AllIterators : Nexts(r.t, i) => i = r.i
  BY <1>1, FirstReceiver
<1>3. PICK o \in OpRecord : o = [op[r.t] EXCEPT !.status = res, !.value = m]
  <2>1. Running \in OpRecord /\ op[r.t] \in OpRecord
    BY <1>2, OpTypes
  <2> QED BY <2>1 DEF OpRecord
<1>4. o.value = m /\ o.status = res /\ Settled(o)
  BY <1>2, <1>3, OpTypes DEF OpRecord, Settled
<1>5. Settle(r.t, o, s) /\ UNCHANGED <<fetching, check>>
  BY <1>2, <1>3, FrameKinds DEF SettleReceiver
<1>6. \A i \in AllIterators : Nexts(r.t, i) =>
        (o.value # None <=> o.status = "RESOLVED" /\ state'[ChanOf[i]] = "open")
  BY <1>2, <1>4
<1>7. /\ Tasking' /\ SameWaits /\ StaysAwake /\ fiber' = r.t /\ op'[r.t] = o /\ stack'[fiber] = s
      /\ \A f \in Tasks \cup {Runner} : f # fiber => stack'[f] = stack[f]
  BY <1>2, <1>4, <1>5, <1>6, TaskingWakes
<1>8. ReceiversOK'
  BY <1>5, <1>7, ReceiverTaken
<1> QED BY <1>4, <1>5, <1>7, <1>8

(* The first sender is taken off and resumed.                               *)
LEMMA SenderWakes ==
    ASSUME Tasking, SendersOK, GoesOn(stack[fiber]), cancelled' \subseteq Tasks, StillWaiting,
           NEW s, GoesOn(s), IF fiber = Runner THEN s = <<Loop>> ELSE OfTask(s),
           NEW c \in Chans, senders[c] # <<>>, senders' = [senders EXCEPT ![c] = Tail(@)],
           NEW e, e = Head(senders[c]), NEW res, res \in {"RESOLVED", "FAILED"}, SettleSender(c, e, res, s)
    PROVE  /\ Tasking' /\ SameWaits /\ StaysAwake /\ SendersOK' /\ UNCHANGED check
           /\ fiber' = e.t /\ op'[e.t].status = res /\ stack'[fiber] = s
           /\ \A f \in Tasks \cup {Runner} : f # fiber => stack'[f] = stack[f]
<1>1. fiber \in Tasks => ~Waits(stack[fiber])
  BY DEF GoesOn
<1>2. /\ e.t \in Tasks /\ e.t # fiber /\ MsgOf(e) \in Msgs /\ Sends(e.t, c, MsgOf(e))
      /\ Waits(stack[e.t]) /\ Head(stack[e.t]) = InSend(c, MsgOf(e)) /\ op[e.t] = Running
      /\ \A i \in AllIterators : ~Nexts(e.t, i)
  BY <1>1, FirstSender
<1>3. PICK o \in OpRecord : o = [op[e.t] EXCEPT !.status = res]
  <2>1. Running \in OpRecord /\ op[e.t] \in OpRecord
    BY <1>2, OpTypes
  <2> QED BY <2>1 DEF OpRecord
<1>4. o.status = res /\ Settled(o)
  BY <1>2, <1>3, OpTypes DEF OpRecord, Settled
<1>5. Settle(e.t, o, s) /\ UNCHANGED check
  BY <1>2, <1>3, FrameKinds DEF SettleSender
<1>6. \A i \in AllIterators : Nexts(e.t, i) =>
        (o.value # None <=> o.status = "RESOLVED" /\ state'[ChanOf[i]] = "open")
  BY <1>2
<1>7. /\ Tasking' /\ SameWaits /\ StaysAwake /\ fiber' = e.t /\ op'[e.t] = o /\ stack'[fiber] = s
      /\ \A f \in Tasks \cup {Runner} : f # fiber => stack'[f] = stack[f]
  BY <1>2, <1>4, <1>5, <1>6, TaskingWakes
<1>8. SendersOK'
  BY <1>7, SenderTaken
<1> QED BY <1>4, <1>5, <1>7, <1>8

-------------------------------------------------------------------------------
(* Closing, the buffers and the rest.                                       *)
SameClosing ==
    \A t \in Tasks, c \in Chans : /\ stack'[t] = Within(Closing(c)) <=> stack[t] = Within(Closing(c))
                                  /\ stack'[t] = Within(Flushing(c)) <=> stack[t] = Within(Flushing(c))
Disposes(s) == \E c \in Chans : s \in {Within(Closing(c)), Within(Flushing(c))}

(* Calls other than close do not dispose of a channel.                      *)
LEMMA DisposeFacts ==
    /\ ~Disposes(<<>>) /\ ~Disposes(<<Code>>) /\ ~Disposes(<<Loop>>) /\ ~Disposes(<<Over>>)
    /\ \A f \in Calls : f.k \in {"next", "fetched", "send"} => ~Disposes(Within(f))
    /\ \A s : Waits(s) => ~Disposes(s)
<1>1. \A c : Closing(c).k = "close" /\ Flushing(c).k = "flush"
  BY FrameKinds
<1>2. \A f \in Calls : f.k \in {"next", "fetched", "send"} => ~Disposes(Within(f))
  BY <1>1, StackFacts DEF Disposes
<1>3. \A s : Waits(s) => ~Disposes(s)
  BY <1>2 DEF Waits
<1> QED BY <1>2, <1>3, StackFacts DEF Disposes

(* Only stacks that do not dispose of a channel change.                     *)
LEMMA ClosingSame ==
    ASSUME \A t \in Tasks : stack'[t] = stack[t] \/ (~Disposes(stack[t]) /\ ~Disposes(stack'[t]))
    PROVE  SameClosing
<1> SUFFICES ASSUME NEW t \in Tasks, NEW c \in Chans
             PROVE  /\ stack'[t] = Within(Closing(c)) <=> stack[t] = Within(Closing(c))
                    /\ stack'[t] = Within(Flushing(c)) <=> stack[t] = Within(Flushing(c))
  BY DEF SameClosing
<1> QED BY DEF Disposes

(* A closed channel gets no new waiters.                                    *)
LEMMA StatesKept ==
    ASSUME StatesOK, UNCHANGED state, SameClosing,
           \A c \in Chans : state[c] # "open" => /\ receivers'[c] # <<>> => receivers[c] # <<>>
                                                 /\ senders'[c] # <<>> => senders[c] # <<>>
    PROVE  StatesOK'
BY DEF StatesOK, SameClosing

(* The buffers stay, and fewer wait.                                        *)
LEMMA RingsKept ==
    ASSUME RingsOK, UNCHANGED buffer,
           \A c \in Chans : /\ receivers'[c] # <<>> => receivers[c] # <<>>
                            /\ senders'[c] # <<>> => senders[c] # <<>>
    PROVE  RingsOK'
BY DEF RingsOK, NobodyMissed

(* There are still no groups.                                               *)
LEMMA RestKept ==
    ASSUME RestOK, UNCHANGED <<scene, group, check, timer>>,
           entry' \in [AllIterators -> Msgs \cup {None}], pos' \in [AllIterators -> Int],
           got' \in [Chans -> Seq(Msgs)], result' \in [Msgs -> {"new", "waiting", "sent", "failed"}]
    PROVE  RestOK'
BY DEF RestOK

(* A step that no stack, list or state tells of.                            *)
LEMMA QuietControl ==
    ASSUME Control, UNCHANGED <<scene, fiber, fibers, stack, op, receivers, senders, state, fetching, groupVars>>,
           cancelled' \subseteq Tasks, fiber \in Tasks => ~Waits(stack[fiber]), StillWaiting, RingsOK',
           entry' \in [AllIterators -> Msgs \cup {None}], pos' \in [AllIterators -> Int],
           got' \in [Chans -> Seq(Msgs)], result' \in [Msgs -> {"new", "waiting", "sent", "failed"}]
    PROVE  Control'
<1>1. Tasking' /\ SameWaits /\ StaysAwake
  BY TaskingQuiet DEF Control, Tasking
<1>2. ReceiversOK' /\ SendersOK'
  BY <1>1, ReceiversKept, SendersKept DEF Control
<1>3. StatesOK'
  <2>1. SameClosing
    BY DEF SameClosing
  <2> QED BY <2>1, StatesKept DEF Control
<1>4. RestOK'
  BY RestKept DEF Control, groupVars
<1> QED BY <1>1, <1>2, <1>3, <1>4 DEF Control, Tasking

(* The running task is in its code.                                         *)
LEMMA CodeFacts ==
    ASSUME Control, InCode
    PROVE  /\ fiber \in Tasks /\ fiber # Runner /\ stack[fiber] = <<Code>> /\ op[fiber] = Idle
           /\ ~Waits(stack[fiber]) /\ GoesOn(stack[fiber]) /\ ~Disposes(stack[fiber])
           /\ OfTask(<<Code>>) /\ cancelled \subseteq Tasks
BY Executing, WaitFacts, StackFacts, DisposeFacts DEF Control, OpsOK

(* Channel::send.                                                           *)
LEMMA SendClosedControl ==
    ASSUME Control, UNCHANGED scene, NEW c \in Chans, NEW m \in Msgs, Send(c, m), SendClosed(c, m)
    PROVE  Control'
<1>1. /\ InCode /\ result[m] = "new" /\ UNCHANGED group
      /\ result' = [result EXCEPT ![m] = "failed"]
      /\ UNCHANGED <<fiber, fibers, stack, chanVars, iterVars, check, timer, taskVars, got>>
  BY DEF Send, SendClosed
<1>2. ~Waits(stack[fiber]) /\ cancelled \subseteq Tasks
  BY <1>1, CodeFacts
<1>3. StillWaiting /\ result' \in [Msgs -> {"new", "waiting", "sent", "failed"}]
  BY <1>1 DEF Control, RestOK, StillWaiting
<1>4. RingsOK'
  BY <1>1, RingsKept DEF Control, chanVars
<1> QED BY <1>1, <1>2, <1>3, <1>4, QuietControl DEF Control, RestOK, chanVars, iterVars, groupVars, taskVars

(* The message goes to the buffer.                                          *)
LEMMA StoreControl ==
    ASSUME Control, UNCHANGED scene, NEW c \in Chans, NEW m \in Msgs, Send(c, m), Store(c, m)
    PROVE  Control'
<1>1. /\ InCode /\ result[m] = "new" /\ UNCHANGED group
      /\ receivers[c] = <<>> /\ buffer[c].len < buffer[c].size
      /\ buffer' = [buffer EXCEPT ![c] = Put(@, buffer[c].size, m)]
      /\ result' = [result EXCEPT ![m] = "sent"]
      /\ UNCHANGED <<fiber, fibers, stack, receivers, senders, state, iterVars, check, timer, taskVars, got>>
  BY DEF Send, Store
<1>2. ~Waits(stack[fiber]) /\ cancelled \subseteq Tasks
  BY <1>1, CodeFacts
<1>3. StillWaiting /\ result' \in [Msgs -> {"new", "waiting", "sent", "failed"}]
  BY <1>1 DEF Control, RestOK, StillWaiting
<1>4. RingsOK'
  <2>1. DOMAIN buffer = Chans /\ Ring(buffer[c]) /\ senders[c] = <<>>
    <3>1. buffer[c].len \in Nat /\ buffer[c].size \in Nat
      BY SizeType DEF Control, RingsOK, Ring
    <3> QED BY <1>1, <3>1 DEF Control, RingsOK
  <2>2. buffer'[c] = Put(buffer[c], buffer[c].size, m) /\ \A d \in Chans : d # c => buffer'[d] = buffer[d]
    BY <1>1, <2>1
  <2>3. Ring(buffer'[c])
    BY <1>1, <2>1, <2>2, PutRing
  <2>4. DOMAIN buffer' = Chans
    BY <1>1, <2>1
  <2>5. \A d \in Chans : Ring(buffer'[d])
    BY <2>2, <2>3 DEF Control, RingsOK
  <2>6. \A d \in Chans : senders[d] # <<>> => buffer'[d].len = buffer'[d].size
    BY <2>1, <2>2 DEF Control, RingsOK
  <2>7. NobodyMissed'
    BY <1>1, <2>2 DEF Control, RingsOK, NobodyMissed
  <2> QED BY <1>1, <2>4, <2>5, <2>6, <2>7 DEF RingsOK
<1> QED BY <1>1, <1>2, <1>3, <1>4, QuietControl DEF Control, RestOK, iterVars, groupVars, taskVars

(* The message goes to the first receiver, which is resumed.                *)
LEMMA HandOverControl ==
    ASSUME Control, UNCHANGED scene, NEW c \in Chans, NEW m \in Msgs, Send(c, m), state[c] = "open", HandOver(c, m)
    PROVE  /\ Control' /\ fiber' = Head(receivers[c]).t /\ op'[fiber'].value = m /\ op'[fiber'].status = "RESOLVED"
           /\ \A f \in Tasks \cup {Runner} : stack'[f] = stack[f]
<1> PICK r : r = Head(receivers[c])
  OBVIOUS
<1>1. /\ InCode /\ result[m] = "new" /\ UNCHANGED group
      /\ receivers[c] # <<>> /\ receivers' = [receivers EXCEPT ![c] = Tail(@)]
      /\ SettleReceiver(c, r, "RESOLVED", m, stack[fiber])
      /\ result' = [result EXCEPT ![m] = "sent"]
      /\ UNCHANGED <<buffer, senders, state, entry, pos, timer, cancelled, got>>
  BY DEF Send, HandOver
<1>2. /\ fiber \in Tasks /\ fiber # Runner /\ stack[fiber] = <<Code>>
      /\ ~Waits(stack[fiber]) /\ GoesOn(stack[fiber]) /\ OfTask(stack[fiber]) /\ cancelled \subseteq Tasks
  BY <1>1, CodeFacts
<1>3. m # None /\ state'[c] = "open"
  BY <1>1, ChannelNames
<1> PICK s : s = stack[fiber]
  OBVIOUS
<1>4. /\ Tasking' /\ SameWaits /\ StaysAwake /\ ReceiversOK' /\ UNCHANGED <<fetching, check>>
      /\ fiber' = r.t /\ op'[r.t].value = m /\ op'[r.t].status = "RESOLVED" /\ stack'[fiber] = s
      /\ \A f \in Tasks \cup {Runner} : f # fiber => stack'[f] = stack[f]
  <2>1. SettleReceiver(c, r, "RESOLVED", m, s) /\ GoesOn(s) /\ OfTask(s)
    BY <1>1, <1>2
  <2>2. m # None <=> "RESOLVED" = "RESOLVED" /\ state'[c] = "open"
    BY <1>3
  <2>3. Tasking /\ ReceiversOK /\ GoesOn(stack[fiber]) /\ cancelled' \subseteq Tasks
    BY <1>1, <1>2 DEF Control, Tasking
  <2> QED BY <1>1, <1>2, <2>1, <2>2, <2>3, ReceiverWakes
<1>5. StillWaiting /\ result' \in [Msgs -> {"new", "waiting", "sent", "failed"}]
  BY <1>1 DEF Control, RestOK, StillWaiting
<1>6. SendersOK'
  BY <1>1, <1>4, <1>5, SendersKept DEF Control
<1>7. \A f \in Tasks \cup {Runner} : stack'[f] = stack[f]
  BY <1>4
<1>8. SameClosing
  BY <1>7 DEF SameClosing
<1>9. \A d \in Chans : (receivers'[d] # <<>> => receivers[d] # <<>>) /\ senders'[d] = senders[d]
  BY <1>1 DEF Control, ReceiversOK
<1>10. StatesOK' /\ RingsOK'
  BY <1>1, <1>8, <1>9, StatesKept, RingsKept DEF Control
<1>11. RestOK'
  BY <1>1, <1>4, <1>5, RestKept DEF Control, RestOK
<1> QED BY <1>4, <1>6, <1>7, <1>10, <1>11 DEF Control, Tasking

(* The sender blocks, or fails since its context is cancelled.              *)
LEMMA SendBlockControl ==
    ASSUME Control, UNCHANGED scene, NEW c \in Chans, NEW m \in Msgs, Send(c, m), state[c] = "open", SendBlock(c, m)
    PROVE  /\ Control'
           /\ ~Refused => /\ stack'[fiber] = Within(InSend(c, m)) /\ fiber' # fiber /\ GoesOn(stack[fiber'])
                          /\ \A f \in Tasks \cup {Runner} : f # fiber => stack'[f] = stack[f]
<1>1. /\ InCode /\ result[m] = "new" /\ UNCHANGED group
      /\ receivers[c] = <<>> /\ buffer[c].len = buffer[c].size
      /\ UNCHANGED <<buffer, receivers, state, iterVars, check, timer, cancelled, got>>
  BY DEF Send, SendBlock
<1>2. /\ fiber \in Tasks /\ fiber # Runner /\ stack[fiber] = <<Code>> /\ ~Waits(stack[fiber])
      /\ ~Disposes(stack[fiber]) /\ cancelled \subseteq Tasks
  BY <1>1, CodeFacts
<1>3. CASE Refused
  <2>1. result' = [result EXCEPT ![m] = "failed"] /\ UNCHANGED <<fiber, fibers, stack, senders, op>>
    BY <1>3 DEF SendBlock
  <2>2. StillWaiting /\ result' \in [Msgs -> {"new", "waiting", "sent", "failed"}]
    BY <1>1, <2>1 DEF Control, RestOK, StillWaiting
  <2>3. RingsOK'
    BY <1>1, <2>1, RingsKept DEF Control
  <2> QED BY <1>1, <1>2, <1>3, <2>1, <2>2, <2>3, QuietControl DEF Control, RestOK, iterVars, groupVars
<1>4. CASE ~Refused
  <2>1. /\ result' = [result EXCEPT ![m] = "waiting"]
        /\ senders' = [senders EXCEPT ![c] = Append(@, [t |-> fiber, i |-> None])]
        /\ Block(InSend(c, m), Running)
    BY <1>4 DEF SendBlock, Enlist
  <2>2. InSend(c, m) \in Calls /\ InSend(c, m).k = "send"
    BY CallsNamed, FrameKinds
  <2>3. /\ Tasking' /\ stack'[fiber] = Within(InSend(c, m)) /\ fiber' # fiber /\ GoesOn(stack[fiber'])
        /\ \A g \in Tasks \cup {Runner} : g # fiber => stack'[g] = stack[g]
    BY <1>1, <2>1, <2>2, TaskingBlocks DEF Control, Tasking
  <2>4. StillWaiting /\ result'[m] = "waiting" /\ result' \in [Msgs -> {"new", "waiting", "sent", "failed"}]
    BY <1>1, <2>1 DEF Control, RestOK, StillWaiting
  <2>5. SendersOK'
    BY <1>1, <1>2, <2>1, <2>3, <2>4, SenderBlocks DEF Control
  <2>6. ReceiversOK'
    <3>1. PICK p \in Tasks : p = fiber
      BY <1>2
    <3>2. \A t \in Tasks, i \in AllIterators : Nexts(t, i)' <=> Nexts(t, i)
      <4> SUFFICES ASSUME NEW t \in Tasks, NEW i \in AllIterators PROVE Nexts(t, i)' <=> Nexts(t, i)
        OBVIOUS
      <4>1. CASE t # p
        BY <2>3, <3>1, <4>1 DEF Nexts
      <4>2. CASE t = p
        <5>1. Within(InSend(c, m)) # Within(InNext(i)) /\ Within(InNext(i)) # <<Code>>
          BY StackFacts, FrameKinds
        <5>2. stack'[t] = Within(InSend(c, m)) /\ stack[t] = <<Code>>
          BY <1>2, <2>3, <3>1, <4>2
        <5> QED BY <5>1, <5>2 DEF Nexts
      <4> QED BY <4>1, <4>2
    <3>3. \A i \in AllIterators : ~Nexts(fiber, i)
      BY <1>2, AwakeFacts
    <3> QED BY <1>1, <3>2, <3>3, ReceiversStay DEF Control, SameNexts, iterVars
  <2>7. StatesOK'
    <3>1. ~Disposes(stack'[fiber])
      BY <2>2, <2>3, DisposeFacts
    <3>2. \A t \in Tasks : stack'[t] = stack[t] \/ (~Disposes(stack[t]) /\ ~Disposes(stack'[t]))
      BY <1>2, <2>3, <3>1
    <3>3. SameClosing
      BY <3>2, ClosingSame
    <3>4. \A d \in Chans : state[d] # "open" => /\ receivers'[d] # <<>> => receivers[d] # <<>>
                                                /\ senders'[d] # <<>> => senders[d] # <<>>
      BY <1>1, <2>1 DEF Control, SendersOK
    <3> QED BY <1>1, <3>3, <3>4, StatesKept DEF Control
  <2>8. RingsOK'
    <3>1. \A d \in Chans : d # c => senders'[d] = senders[d]
      BY <2>1 DEF Control, SendersOK
    <3> QED BY <1>1, <3>1 DEF Control, RingsOK, NobodyMissed
  <2>9. RestOK'
    BY <1>1, <2>4, RestKept DEF Control, RestOK, iterVars
  <2> QED BY <2>3, <2>5, <2>6, <2>7, <2>8, <2>9 DEF Control, Tasking
<1> QED BY <1>3, <1>4

(* The running task goes on with stack s, and no list changes.              *)
LEMMA RunsOn ==
    ASSUME Control, fiber \in Tasks, ~Waits(stack[fiber]), NEW s, OfTask(s), GoesOn(s), Goto(s),
           UNCHANGED <<fiber, fibers, cancelled, op, receivers, fetching, senders>>, StillWaiting
    PROVE  /\ Tasking' /\ SameWaits /\ StaysAwake /\ ReceiversOK' /\ SendersOK' /\ stack'[fiber] = s
           /\ \A f \in Tasks \cup {Runner} : f # fiber => stack'[f] = stack[f]
<1>1. op' = [op EXCEPT ![fiber] = Idle]
  BY DEF Control, OpsOK
<1>2. /\ Tasking' /\ stack'[fiber] = s /\ ~Waits(stack'[fiber])
      /\ \A f \in Tasks \cup {Runner} : f # fiber => stack'[f] = stack[f]
  BY <1>1, TaskingGoes DEF Control, Tasking
<1>3. \A t \in Tasks : stack'[t] = stack[t] \/ (~Waits(stack[t]) /\ ~Waits(stack'[t]))
  BY <1>2
<1>4. SameWaits /\ StaysAwake
  BY <1>2, <1>3, WaitsSame DEF StaysAwake
<1>5. ReceiversOK' /\ SendersOK'
  BY <1>4, ReceiversKept, SendersKept DEF Control
<1> QED BY <1>2, <1>4, <1>5

(* Channel::close.                                                          *)
LEMMA CloseControl ==
    ASSUME Control, UNCHANGED scene, NEW c \in Chans, NEW how, Close(c, how)
    PROVE  Control'
<1>1. /\ InCode /\ state[c] = "open" /\ how \in {"closed", "error"}
      /\ state' = [state EXCEPT ![c] = how]
      /\ Goto(<<Closing(c)>> \o stack[fiber])
      /\ UNCHANGED <<fiber, fibers, buffer, receivers, senders, iterVars, groupVars, taskVars, history>>
  BY DEF Close
<1>2. fiber \in Tasks /\ fiber # Runner /\ stack[fiber] = <<Code>> /\ ~Waits(stack[fiber]) /\ StillWaiting
  BY <1>1, CodeFacts DEF StillWaiting, history
<1>3. Goto(Within(Closing(c))) /\ OfTask(Within(Closing(c))) /\ GoesOn(Within(Closing(c)))
  <2>1. Closing(c) \in Calls /\ Closing(c).k = "close"
    BY CallsNamed, FrameKinds
  <2>2. <<Closing(c)>> \o stack[fiber] = Within(Closing(c))
    BY <1>2, StackFacts
  <2> QED BY <1>1, <2>1, <2>2, StackFacts, WaitFacts
<1>4. /\ Tasking' /\ ReceiversOK' /\ SendersOK' /\ stack'[fiber] = Within(Closing(c))
      /\ \A f \in Tasks \cup {Runner} : f # fiber => stack'[f] = stack[f]
  BY <1>1, <1>2, <1>3, RunsOn DEF iterVars, taskVars
<1>5. /\ state'[c] # "open" /\ \A d \in Chans : d # c => state'[d] = state[d]
      /\ state' \in [Chans -> {"open", "closed", "error"}]
  BY <1>1 DEF Control, StatesOK
<1>6. \A d \in Chans : /\ Within(Closing(c)) = Within(Closing(d)) => d = c
                       /\ Within(Closing(c)) # Within(Flushing(d))
                       /\ stack[fiber] \notin {Within(Closing(d)), Within(Flushing(d))}
  BY <1>2, StackFacts, FrameKinds
<1>7. StatesOK'
  <2>1. \A d \in Chans : state'[d] # "open" /\ receivers[d] # <<>> => \E t \in Tasks : stack'[t] = Within(Closing(d))
    BY <1>2, <1>4, <1>5, <1>6 DEF Control, StatesOK
  <2>2. \A d \in Chans : state'[d] # "open" /\ senders[d] # <<>> =>
          \E t \in Tasks : stack'[t] \in {Within(Closing(d)), Within(Flushing(d))}
    BY <1>2, <1>4, <1>5, <1>6 DEF Control, StatesOK
  <2>3. \A t \in Tasks, d \in Chans :
          stack'[t] \in {Within(Closing(d)), Within(Flushing(d))} => state'[d] # "open"
    <3> SUFFICES ASSUME NEW t \in Tasks, NEW d \in Chans, stack'[t] \in {Within(Closing(d)), Within(Flushing(d))}
                 PROVE  state'[d] # "open"
      OBVIOUS
    <3>1. CASE t = fiber
      BY <1>4, <1>5, <1>6, <3>1
    <3>2. CASE t # fiber
      BY <1>4, <1>5, <3>2 DEF Control, StatesOK
    <3> QED BY <3>1, <3>2
  <2> QED BY <1>1, <1>5, <2>1, <2>2, <2>3 DEF StatesOK
<1>8. RingsOK'
  BY <1>1, RingsKept DEF Control
<1>9. RestOK'
  BY <1>1, RestKept DEF Control, RestOK, iterVars, groupVars, history
<1> QED BY <1>4, <1>7, <1>8, <1>9 DEF Control, Tasking

(* The code of a task ends.                                                 *)
LEMMA ReturnControl ==
    ASSUME Control, UNCHANGED scene, Return
    PROVE  Control'
<1>1. /\ Tasking' /\ SameWaits /\ StaysAwake
      /\ \A c \in Chans : \A t \in Tasks : stack'[t] \in {Within(Closing(c)), Within(Flushing(c))}
                                            <=> stack[t] \in {Within(Closing(c)), Within(Flushing(c))}
  BY TaskingReturns DEF Control, Tasking
<1>2. UNCHANGED <<chanVars, iterVars, groupVars, taskVars, history>>
  BY DEF Return
<1>3. StillWaiting
  BY <1>2 DEF StillWaiting, history
<1>4. ReceiversOK' /\ SendersOK'
  BY <1>1, <1>2, <1>3, ReceiversKept, SendersKept DEF Control, chanVars, iterVars
<1>5. InCode /\ Goto(<<Over>>)
  BY DEF Return
<1>6. /\ fiber \in Tasks /\ fiber # Runner /\ ~Disposes(stack[fiber])
  BY <1>5, CodeFacts
<1>7. \A t \in Tasks : stack'[t] = stack[t] \/ (~Disposes(stack[t]) /\ ~Disposes(stack'[t]))
  BY <1>5, <1>6, DisposeFacts DEF Goto, Control, StacksOK
<1>8. StatesOK'
  BY <1>2, <1>7, ClosingSame, StatesKept DEF Control, chanVars
<1>9. RingsOK'
  BY <1>2, RingsKept DEF Control, chanVars
<1>10. RestOK'
  BY <1>2, RestKept DEF Control, RestOK, iterVars, groupVars, history
<1> QED BY <1>1, <1>4, <1>8, <1>9, <1>10 DEF Control, Tasking

(* A task begins.                                                           *)
LEMMA StartControl ==
    ASSUME Control, UNCHANGED scene, NEW t \in Tasks, Start(t)
    PROVE  Control'
<1>1. /\ Tasking' /\ SameWaits /\ StaysAwake
      /\ \A f \in Tasks \cup {Runner} : f # t => stack'[f] = stack[f]
  BY TaskingStarts DEF Control, Tasking, Start
<1>2. /\ UNCHANGED <<chanVars, iterVars, groupVars, taskVars, history>> /\ stack[t] = <<>>
      /\ stack' = [stack EXCEPT ![t] = <<Code>>]
  BY DEF Start
<1>3. StillWaiting
  BY <1>2 DEF StillWaiting, history
<1>4. ReceiversOK' /\ SendersOK'
  BY <1>1, <1>2, <1>3, ReceiversKept, SendersKept DEF Control, chanVars, iterVars
<1>7. \A u \in Tasks : stack'[u] = stack[u] \/ (~Disposes(stack[u]) /\ ~Disposes(stack'[u]))
  BY <1>1, <1>2, DisposeFacts DEF Control, StacksOK
<1>8. StatesOK'
  BY <1>2, <1>7, ClosingSame, StatesKept DEF Control, chanVars
<1>9. RingsOK'
  BY <1>2, RingsKept DEF Control, chanVars
<1>10. RestOK'
  BY <1>2, RestKept DEF Control, RestOK, iterVars, groupVars, history
<1> QED BY <1>1, <1>4, <1>8, <1>9, <1>10 DEF Control, Tasking

(* fetch_noblock: what it takes, and what the buffer is then.               *)
LEMMA RefillRing ==
    ASSUME Control, fiber \in Tasks => ~Waits(stack[fiber]), NEW c \in Chans, Available(c)
    PROVE  /\ receivers[c] = <<>> /\ NextMsg(c) \in Msgs
           /\ Ring(Refilled(c)) /\ Refilled(c).size = buffer[c].size
           /\ senders[c] # <<>> => Refilled(c).len = buffer[c].size
           /\ IF buffer[c].len = 0
              THEN senders[c] # <<>> /\ NextMsg(c) = MsgOf(Head(senders[c])) /\ Refilled(c) = buffer[c]
              ELSE /\ ContentsOf(buffer[c]) # <<>> /\ NextMsg(c) = Head(ContentsOf(buffer[c]))
                   /\ ContentsOf(Refilled(c)) =
                        IF senders[c] = <<>> THEN Tail(ContentsOf(buffer[c]))
                        ELSE Append(Tail(ContentsOf(buffer[c])), MsgOf(Head(senders[c])))
<1>1. Ring(buffer[c]) /\ buffer[c].len \in Nat /\ (senders[c] # <<>> => buffer[c].len = buffer[c].size)
  BY ContentsType DEF Control, RingsOK
<1>2. receivers[c] = <<>>
  BY <1>1 DEF Available, Control, RingsOK, NobodyMissed
<1>3. senders[c] # <<>> => MsgOf(Head(senders[c])) \in Msgs
  BY FirstSender DEF Control, Tasking
<1>4. CASE buffer[c].len = 0
  <2>1. senders[c] # <<>>
    BY <1>4 DEF Available
  <2> QED BY <1>1, <1>2, <1>3, <1>4, <2>1 DEF NextMsg, Refilled
<1>5. CASE buffer[c].len > 0
  <2> PICK b : b = buffer[c]
    OBVIOUS
  <2>1. ContentsOf(b) # <<>> /\ b.data[b.rpos] = Head(ContentsOf(b)) /\ b.data[b.rpos] \in Msgs
    BY <1>1, <1>5, ContentsType
  <2>2. NextMsg(c) = Head(ContentsOf(b)) /\ NextMsg(c) \in Msgs
    BY <1>5, <2>1 DEF NextMsg
  <2> PICK d : d = Drop(b, b.size)
    OBVIOUS
  <2>3. /\ Ring(d) /\ d.size = b.size /\ d.len = b.len - 1 /\ d.len < d.size
        /\ ContentsOf(d) = Tail(ContentsOf(b))
    BY <1>1, <1>5, DropRing
  <2>4. CASE senders[c] = <<>>
    <3>1. Refilled(c) = d
      BY <1>5, <2>4 DEF Refilled
    <3> QED BY <1>2, <1>5, <2>1, <2>2, <2>3, <2>4, <3>1
  <2>5. CASE senders[c] # <<>>
    <3> PICK m \in Msgs : m = MsgOf(Head(senders[c]))
      BY <1>3, <2>5
    <3> PICK q : q = Put(d, d.size, m)
      OBVIOUS
    <3>1. Refilled(c) = q
      BY <1>5, <2>3, <2>5 DEF Refilled
    <3>2. /\ Ring(q) /\ q.size = d.size /\ q.len = d.len + 1
          /\ ContentsOf(q) = Append(ContentsOf(d), m)
      <4>1. Ring(d) /\ d.len < d.size /\ q = Put(d, d.size, m)
        BY <2>3
      <4> QED BY <4>1, PutRing
    <3>3. q.len = b.size
      BY <1>1, <2>3, <2>5, <3>2
    <3> QED BY <1>2, <1>5, <2>1, <2>2, <2>3, <2>5, <3>1, <3>2, <3>3
  <2> QED BY <2>4, <2>5
<1> QED BY <1>1, <1>4, <1>5

(* ChannelIterator::next, one lemma per way through it.                     *)
LEMMA NoFetchControl ==
    ASSUME Control, UNCHANGED scene, InCode, NEW i \in AllIterators,
           entry' = [entry EXCEPT ![i] = None],
           UNCHANGED <<fiber, fibers, stack, chanVars, pos, fetching, groupVars, taskVars, history>>
    PROVE  Control'
<1>1. ~Waits(stack[fiber]) /\ cancelled \subseteq Tasks
  BY CodeFacts
<1>2. StillWaiting /\ RingsOK'
  BY RingsKept DEF Control, StillWaiting, chanVars, history
<1>3. entry' \in [AllIterators -> Msgs \cup {None}]
  BY DEF Control, RestOK
<1> QED BY <1>1, <1>2, <1>3, QuietControl DEF Control, RestOK, chanVars, groupVars, taskVars, history

(* A call of fetch_noblock in the middle of next.                           *)
LEMMA FetchedOK ==
    ASSUME Control, NEW i \in AllIterators, InCode
    PROVE  /\ <<Fetched(i)>> \o stack[fiber] = Within(Fetched(i))
           /\ OfTask(Within(Fetched(i))) /\ GoesOn(Within(Fetched(i))) /\ ~Disposes(Within(Fetched(i)))
<1>1. Fetched(i) \in Calls /\ Fetched(i).k = "fetched"
  BY CallsNamed, FrameKinds
<1>2. <<Fetched(i)>> \o stack[fiber] = Within(Fetched(i))
  BY CodeFacts, StackFacts
<1> QED BY <1>1, <1>2, StackFacts, WaitFacts, DisposeFacts

(* The running task, in its code, takes a message.                          *)
LEMMA FetchControl ==
    ASSUME Control, UNCHANGED scene, InCode, NEW i \in AllIterators, NEW c \in Chans, c = ChanOf[i],
           entry' = [entry EXCEPT ![i] = NextMsg(c)], FetchNoblock(c, <<Fetched(i)>> \o stack[fiber]),
           UNCHANGED <<receivers, state, pos, fetching, group, timer, cancelled, result>>
    PROVE  /\ Control' /\ SameWaits /\ StaysAwake /\ stack'[fiber] = Within(Fetched(i))
           /\ \A f \in Tasks \cup {Runner} : f # fiber => stack'[f] = stack[f]
           /\ IF senders[c] = <<>> THEN UNCHANGED <<fiber, op>>
              ELSE fiber' = Head(senders[c]).t /\ op'[fiber'].status = "RESOLVED"
<1>1. /\ Available(c) /\ buffer' = [buffer EXCEPT ![c] = Refilled(c)]
      /\ got' = [got EXCEPT ![c] = Append(@, NextMsg(c))]
  BY DEF FetchNoblock
<1>2. /\ fiber \in Tasks /\ fiber # Runner /\ ~Waits(stack[fiber]) /\ GoesOn(stack[fiber])
      /\ ~Disposes(stack[fiber]) /\ cancelled \subseteq Tasks
  BY CodeFacts
<1> PICK s : s = Within(Fetched(i))
  OBVIOUS
<1>3. s = <<Fetched(i)>> \o stack[fiber] /\ OfTask(s) /\ GoesOn(s) /\ ~Disposes(s)
  BY FetchedOK
<1>4. /\ receivers[c] = <<>> /\ NextMsg(c) \in Msgs
      /\ Ring(Refilled(c)) /\ Refilled(c).size = buffer[c].size
      /\ senders[c] # <<>> => Refilled(c).len = buffer[c].size
  BY <1>1, <1>2, RefillRing
<1>5. StillWaiting
  BY DEF StillWaiting
<1>6. /\ Tasking' /\ SameWaits /\ StaysAwake /\ ReceiversOK' /\ SendersOK' /\ stack'[fiber] = s
      /\ \A f \in Tasks \cup {Runner} : f # fiber => stack'[f] = stack[f]
      /\ UNCHANGED check
      /\ \A d \in Chans : senders'[d] # <<>> => senders[d] # <<>>
      /\ IF senders[c] = <<>> THEN UNCHANGED <<fiber, op>>
         ELSE fiber' = Head(senders[c]).t /\ op'[fiber'].status = "RESOLVED"
  <2>1. CASE senders[c] = <<>>
    <3>1. Goto(s) /\ UNCHANGED <<fiber, fibers, senders, op, check>>
      BY <1>3, <2>1 DEF FetchNoblock
    <3> QED BY <1>2, <1>3, <1>5, <2>1, <3>1, RunsOn
  <2>2. CASE senders[c] # <<>>
    <3> PICK e : e = Head(senders[c])
      OBVIOUS
    <3>1. senders' = [senders EXCEPT ![c] = Tail(@)] /\ SettleSender(c, e, "RESOLVED", s)
      BY <1>3, <2>2 DEF FetchNoblock
    <3>2. Tasking /\ SendersOK /\ cancelled' \subseteq Tasks
      BY <1>2 DEF Control, Tasking
    <3>3. /\ Tasking' /\ SameWaits /\ StaysAwake /\ SendersOK' /\ UNCHANGED check
          /\ fiber' = e.t /\ op'[e.t].status = "RESOLVED" /\ stack'[fiber] = s
          /\ \A f \in Tasks \cup {Runner} : f # fiber => stack'[f] = stack[f]
      BY <1>2, <1>3, <1>5, <2>2, <3>1, <3>2, SenderWakes
    <3>4. ReceiversOK'
      BY <3>3, ReceiversKept DEF Control
    <3>5. \A d \in Chans : senders'[d] # <<>> => senders[d] # <<>>
      BY <2>2, <3>1 DEF Control, SendersOK
    <3> QED BY <2>2, <3>3, <3>4, <3>5
  <2> QED BY <2>1, <2>2
<1>7. StatesOK'
  <2>1. SameClosing
    BY <1>2, <1>3, <1>6, ClosingSame
  <2> QED BY <1>6, <2>1, StatesKept DEF Control
<1>8. RingsOK'
  <2>1. DOMAIN buffer = Chans /\ \A d \in Chans : Ring(buffer[d]) /\ (senders[d] # <<>> => buffer[d].len = buffer[d].size)
    BY DEF Control, RingsOK
  <2>2. DOMAIN buffer' = Chans /\ buffer'[c] = Refilled(c) /\ \A d \in Chans : d # c => buffer'[d] = buffer[d]
    BY <1>1, <2>1
  <2>3. \A d \in Chans : Ring(buffer'[d])
    BY <1>4, <2>1, <2>2
  <2>4. \A d \in Chans : senders'[d] # <<>> => buffer'[d].len = buffer'[d].size
    BY <1>4, <1>6, <2>1, <2>2
  <2>5. \A d \in Chans : receivers[d] # <<>> => buffer'[d].len = 0 /\ senders'[d] = <<>>
    BY <1>4, <1>6, <2>2 DEF Control, RingsOK, NobodyMissed
  <2> QED BY <2>2, <2>3, <2>4, <2>5 DEF RingsOK, NobodyMissed, Ring
<1>9. RestOK'
  <2>1. entry' \in [AllIterators -> Msgs \cup {None}] /\ got' \in [Chans -> Seq(Msgs)]
    BY <1>1, <1>4 DEF Control, RestOK
  <2> QED BY <1>6, <2>1, RestKept DEF Control, RestOK
<1> QED BY <1>6, <1>7, <1>8, <1>9 DEF Control, Tasking

(* The running task blocks for the next message.                            *)
LEMMA FetchBlocks ==
    ASSUME Control, UNCHANGED scene, InCode, NEW i \in AllIterators, NEW c \in Chans, c = ChanOf[i],
           Readable(c), i \notin fetching, ~Available(c), entry' = [entry EXCEPT ![i] = None],
           fetching' = fetching \cup {i},
           receivers' = [receivers EXCEPT ![c] = Append(@, [t |-> fiber, i |-> i])],
           Block(InNext(i), Running),
           UNCHANGED <<buffer, senders, state, pos, groupVars, cancelled, history>>
    PROVE  /\ Control' /\ stack'[fiber] = Within(InNext(i)) /\ fiber' # fiber /\ GoesOn(stack[fiber'])
           /\ \A f \in Tasks \cup {Runner} : f # fiber => stack'[f] = stack[f]
<1>2. /\ fiber \in Tasks /\ fiber # Runner /\ stack[fiber] = <<Code>> /\ ~Waits(stack[fiber])
      /\ ~Disposes(stack[fiber])
  BY CodeFacts
<1>3. InNext(i) \in Calls /\ InNext(i).k = "next"
  BY CallsNamed, FrameKinds
<1>4. /\ Tasking' /\ stack'[fiber] = Within(InNext(i)) /\ fiber' # fiber /\ GoesOn(stack[fiber'])
      /\ \A g \in Tasks \cup {Runner} : g # fiber => stack'[g] = stack[g]
  BY <1>3, TaskingBlocks DEF Control, Tasking
<1>5. ReceiversOK'
  BY <1>2, <1>4, ReceiverBlocks DEF Control
<1>6. SendersOK'
  <2>1. PICK p \in Tasks : p = fiber
    BY <1>2
  <2>2. \A t \in Tasks, d \in Chans, m \in Msgs : Sends(t, d, m)' <=> Sends(t, d, m)
    <3> SUFFICES ASSUME NEW t \in Tasks, NEW d \in Chans, NEW m \in Msgs PROVE Sends(t, d, m)' <=> Sends(t, d, m)
      OBVIOUS
    <3>1. CASE t # p
      BY <1>4, <2>1, <3>1 DEF Sends
    <3>2. CASE t = p
      <4>1. Within(InNext(i)) # Within(InSend(d, m)) /\ Within(InSend(d, m)) # <<Code>>
        BY StackFacts, FrameKinds
      <4>2. stack'[t] = Within(InNext(i)) /\ stack[t] = <<Code>>
        BY <1>2, <1>4, <2>1, <3>2
      <4> QED BY <4>1, <4>2 DEF Sends
    <3> QED BY <3>1, <3>2
  <2>3. \A d \in Chans, m \in Msgs : ~Sends(fiber, d, m)
    BY <1>2, AwakeFacts
  <2>4. StillWaiting
    BY DEF StillWaiting, history
  <2> QED BY <2>2, <2>3, <2>4, SendersStay DEF Control, SameSends
<1>7. buffer[c].len = 0 /\ senders[c] = <<>> /\ (state[c] # "open" => receivers[c] # <<>>)
  <2>1. buffer[c].len \in Nat
    BY ContentsType DEF Control, RingsOK
  <2> QED BY <2>1 DEF Available, Readable, ReadableNonblock
<1>8. \A d \in Chans : d # c => receivers'[d] = receivers[d]
  BY DEF Control, ReceiversOK
<1>9. StatesOK'
  <2>1. ~Disposes(stack'[fiber])
    BY <1>3, <1>4, DisposeFacts
  <2>2. SameClosing
    BY <1>2, <1>4, <2>1, ClosingSame
  <2>3. \A d \in Chans : state[d] # "open" => /\ receivers'[d] # <<>> => receivers[d] # <<>>
                                              /\ senders'[d] # <<>> => senders[d] # <<>>
    BY <1>7, <1>8
  <2> QED BY <2>2, <2>3, StatesKept DEF Control
<1>10. RingsOK'
  BY <1>7, <1>8 DEF Control, RingsOK, NobodyMissed
<1>11. RestOK'
  BY RestKept DEF Control, RestOK, groupVars, history
<1> QED BY <1>4, <1>5, <1>6, <1>9, <1>10, <1>11 DEF Control, Tasking

(* ChannelIterator::next.                                                   *)
LEMMA AdvanceControl ==
    ASSUME Control, UNCHANGED scene, NEW i \in AllIterators, Advance(i)
    PROVE  Control'
<1> PICK c \in Chans : c = ChanOf[i]
  BY ChanTypes
<1>1. InCode /\ FetchNext(i) /\ UNCHANGED <<group, timer, cancelled, result>>
  BY DEF Advance
<1>2. CASE ~Readable(c) \/ ~MayFetch(i)
  BY <1>1, <1>2, NoFetchControl DEF FetchNext, groupVars, taskVars, history
<1>3. CASE ~(~Readable(c) \/ ~MayFetch(i)) /\ Available(c)
  <2>1. /\ entry' = [entry EXCEPT ![i] = NextMsg(c)] /\ FetchNoblock(c, <<Fetched(i)>> \o stack[fiber])
        /\ UNCHANGED <<receivers, state, pos, fetching>>
    BY <1>1, <1>3 DEF FetchNext
  <2> QED BY <1>1, <2>1, FetchControl
<1>4. CASE ~(~Readable(c) \/ ~MayFetch(i)) /\ ~Available(c)
  <2>1. /\ entry' = [entry EXCEPT ![i] = None]
        /\ UNCHANGED <<buffer, senders, state, pos, check, got>>
    BY <1>1, <1>4 DEF FetchNext
  <2>2. CASE Refused
    <3>1. UNCHANGED <<fiber, fibers, stack, receivers, fetching, op>>
      BY <1>1, <1>4, <2>2 DEF FetchNext
    <3> QED BY <1>1, <2>1, <3>1, NoFetchControl DEF chanVars, groupVars, taskVars, history
  <2>3. CASE ~Refused
    <3>1. /\ fetching' = fetching \cup {i} /\ Block(InNext(i), Running)
          /\ receivers' = [receivers EXCEPT ![c] = Append(@, [t |-> fiber, i |-> i])]
      BY <1>1, <1>4, <2>3 DEF FetchNext
    <3> QED BY <1>1, <1>4, <2>1, <3>1, FetchBlocks DEF MayFetch, groupVars, history
  <2> QED BY <2>2, <2>3
<1> QED BY <1>2, <1>3, <1>4

(* The running task is in a call.                                           *)
LEMMA CallFacts ==
    ASSUME Control, Top.k \in {"close", "flush", "fetched", "next", "send", "select", "gsend"}
    PROVE  /\ fiber \in Tasks /\ fiber # Runner /\ stack[fiber] = Within(Top) /\ Rest = <<Code>>
           /\ Top.k \in {"close", "flush"} => Top.x \in Chans
           /\ Top.k = "close" => Top = Closing(Top.x)
           /\ Top.k = "flush" => Top = Flushing(Top.x)
           /\ Top.k \in {"fetched", "next"} => Top.x \in AllIterators
           /\ Top.k = "fetched" => Top = Fetched(Top.x)
           /\ Top.k = "next" => Top = InNext(Top.x)
           /\ Top.k = "send" => Top = InSend(Top.x, Top.m) /\ Top.x \in Chans /\ Top.m \in Msgs
           /\ Top.k \notin {"select", "gsend"}
           /\ Top.k \notin {"next", "send"} => /\ GoesOn(stack[fiber]) /\ ~Waits(stack[fiber])
                                               /\ OfTask(stack[fiber])
           /\ cancelled \subseteq Tasks
<1>1. fiber \in Tasks /\ Top \in Calls /\ stack[fiber] = Within(Top) /\ Rest = <<Code>>
  BY Executing DEF Control
<1>2. fiber # Runner /\ cancelled \subseteq Tasks
  BY <1>1, ChannelNames DEF Control, OpsOK
<1> QED BY <1>1, <1>2, CallKinds, WaitFacts, StackFacts

(* dispose_state: the first receiver goes on, with no message.              *)
LEMMA ReceiverFails ==
    ASSUME Control, UNCHANGED scene, NEW c \in Chans, receivers[c] # <<>>, state[c] # "open",
           fiber \in Tasks, GoesOn(stack[fiber]), OfTask(stack[fiber]),
           receivers' = [receivers EXCEPT ![c] = Tail(@)],
           SettleReceiver(c, Head(receivers[c]), Outcome(c), None, stack[fiber]),
           UNCHANGED <<buffer, senders, state, entry, pos, group, timer, cancelled, history>>
    PROVE  /\ Control' /\ fiber' = Head(receivers[c]).t /\ op'[fiber'].value = None
           /\ \A f \in Tasks \cup {Runner} : stack'[f] = stack[f]
<1>1. PICK r : r = Head(receivers[c])
  OBVIOUS
<1>2. PICK s : s = stack[fiber]
  OBVIOUS
<1>4. PICK v \in Msgs \cup {None} : v = None
  OBVIOUS
<1>5. /\ Tasking' /\ SameWaits /\ StaysAwake /\ ReceiversOK' /\ UNCHANGED <<fetching, check>>
      /\ fiber' = r.t /\ op'[r.t].value = v /\ stack'[fiber] = s
      /\ \A f \in Tasks \cup {Runner} : f # fiber => stack'[f] = stack[f]
  <2>1. Tasking /\ ReceiversOK /\ cancelled' \subseteq Tasks
    BY DEF Control, Tasking, OpsOK
  <2>2. GoesOn(s) /\ fiber # Runner /\ OfTask(s) /\ SettleReceiver(c, r, Outcome(c), v, s)
    BY <1>1, <1>2, <1>4, ChannelNames
  <2>3. CASE Outcome(c) = "RESOLVED"
    <3>1. SettleReceiver(c, r, "RESOLVED", v, s)
      BY <2>2, <2>3
    <3>2. v # None <=> "RESOLVED" = "RESOLVED" /\ state'[c] = "open"
      BY <1>4
    <3> QED BY <1>1, <2>1, <2>2, <3>1, <3>2, ReceiverWakes
  <2>4. CASE Outcome(c) = "FAILED"
    <3>1. SettleReceiver(c, r, "FAILED", v, s)
      BY <2>2, <2>4
    <3>2. v # None <=> "FAILED" = "RESOLVED" /\ state'[c] = "open"
      BY <1>4
    <3> QED BY <1>1, <2>1, <2>2, <3>1, <3>2, ReceiverWakes
  <2> QED BY <2>3, <2>4 DEF Outcome
<1>6. StillWaiting
  BY DEF StillWaiting, history
<1>7. SendersOK'
  BY <1>5, <1>6, SendersKept DEF Control
<1>8. \A d \in Chans : receivers'[d] # <<>> => receivers[d] # <<>>
  BY DEF Control, ReceiversOK
<1>9. \A f \in Tasks \cup {Runner} : stack'[f] = stack[f]
  BY <1>2, <1>5
<1>10. SameClosing
  BY <1>9 DEF SameClosing
<1>11. StatesOK' /\ RingsOK'
  BY <1>8, <1>10, StatesKept, RingsKept DEF Control
<1>12. RestOK'
  BY <1>5, RestKept DEF Control, RestOK, history
<1> QED BY <1>1, <1>4, <1>5, <1>7, <1>9, <1>11, <1>12 DEF Control, Tasking

(* The loop of dispose_state over the receivers.                            *)
LEMMA FailReceiversControl ==
    ASSUME Control, UNCHANGED scene, FailReceivers
    PROVE  Control'
<1> PICK c : c = Top.x
  OBVIOUS
<1>1. /\ Top.k = "close"
      /\ UNCHANGED <<buffer, senders, state, entry, pos, group, timer, cancelled, history>>
  BY DEF FailReceivers
<1>2. /\ fiber \in Tasks /\ fiber # Runner /\ stack[fiber] = Within(Closing(c)) /\ Rest = <<Code>> /\ c \in Chans
      /\ GoesOn(stack[fiber]) /\ ~Waits(stack[fiber]) /\ OfTask(stack[fiber]) /\ cancelled \subseteq Tasks
  BY <1>1, CallFacts
<1>3. StillWaiting
  BY <1>1 DEF StillWaiting, history
<1>4. state[c] # "open"
  BY <1>2 DEF Control, StatesOK
<1>5. \A d \in Chans : /\ Within(Closing(c)) = Within(Closing(d)) => d = c
                       /\ Within(Flushing(c)) = Within(Flushing(d)) => d = c
                       /\ Within(Flushing(c)) # Within(Closing(d))
                       /\ Within(Closing(c)) # Within(Flushing(d))
  BY StackFacts, FrameKinds
<1>6. CASE receivers[c] = <<>>
  <2>1. Goto(<<Flushing(c)>> \o Rest) /\ UNCHANGED <<fiber, fibers, receivers, fetching, check, op>>
    BY <1>6 DEF FailReceivers
  <2>2. Flushing(c) \in Calls /\ Flushing(c).k = "flush"
    BY <1>2, CallsNamed, FrameKinds
  <2>3. /\ <<Flushing(c)>> \o Rest = Within(Flushing(c))
        /\ OfTask(Within(Flushing(c))) /\ GoesOn(Within(Flushing(c)))
    BY <1>2, <2>2, StackFacts, WaitFacts
  <2>4. /\ Tasking' /\ ReceiversOK' /\ SendersOK' /\ stack'[fiber] = Within(Flushing(c))
        /\ \A f \in Tasks \cup {Runner} : f # fiber => stack'[f] = stack[f]
    BY <1>1, <1>2, <1>3, <2>1, <2>3, RunsOn
  <2>5. StatesOK'
    <3>1. \A d \in Chans : state[d] # "open" /\ receivers[d] # <<>> => \E t \in Tasks : stack'[t] = Within(Closing(d))
      BY <1>2, <1>5, <1>6, <2>4 DEF Control, StatesOK
    <3>2. \A d \in Chans : state[d] # "open" /\ senders[d] # <<>> =>
            \E t \in Tasks : stack'[t] \in {Within(Closing(d)), Within(Flushing(d))}
      BY <1>2, <1>5, <2>4 DEF Control, StatesOK
    <3>3. \A t \in Tasks, d \in Chans :
            stack'[t] \in {Within(Closing(d)), Within(Flushing(d))} => state[d] # "open"
      <4> SUFFICES ASSUME NEW t \in Tasks, NEW d \in Chans, stack'[t] \in {Within(Closing(d)), Within(Flushing(d))}
                   PROVE  state[d] # "open"
        OBVIOUS
      <4>1. CASE t = fiber
        BY <1>4, <1>5, <2>4, <4>1
      <4>2. CASE t # fiber
        BY <2>4, <4>2 DEF Control, StatesOK
      <4> QED BY <4>1, <4>2
    <3> QED BY <1>1, <2>1, <3>1, <3>2, <3>3 DEF Control, StatesOK
  <2>6. RingsOK'
    BY <1>1, <2>1, RingsKept DEF Control
  <2>7. RestOK'
    BY <1>1, <2>1, RestKept DEF Control, RestOK, history
  <2> QED BY <2>4, <2>5, <2>6, <2>7 DEF Control, Tasking
<1>7. CASE receivers[c] # <<>>
  BY <1>1, <1>2, <1>4, <1>7, ReceiverFails DEF FailReceivers
<1> QED BY <1>6, <1>7

(* The loop of dispose_state over the senders.                              *)
LEMMA FailSendersControl ==
    ASSUME Control, UNCHANGED scene, FailSenders
    PROVE  Control'
<1> PICK c : c = Top.x
  OBVIOUS
<1>1. /\ Top.k = "flush"
      /\ UNCHANGED <<buffer, receivers, state, iterVars, group, timer, cancelled, history>>
  BY DEF FailSenders
<1>2. /\ fiber \in Tasks /\ fiber # Runner /\ stack[fiber] = Within(Flushing(c)) /\ Rest = <<Code>> /\ c \in Chans
      /\ GoesOn(stack[fiber]) /\ ~Waits(stack[fiber]) /\ OfTask(stack[fiber]) /\ cancelled \subseteq Tasks
  BY <1>1, CallFacts
<1>3. StillWaiting
  BY <1>1 DEF StillWaiting, history
<1>5. \A d \in Chans : /\ Within(Flushing(c)) = Within(Flushing(d)) => d = c
                       /\ Within(Flushing(c)) # Within(Closing(d))
                       /\ <<Code>> \notin {Within(Closing(d)), Within(Flushing(d))}
  <2>1. \A d \in Chans : /\ Within(Flushing(c)) = Within(Flushing(d)) => d = c
                         /\ Within(Flushing(c)) # Within(Closing(d))
    BY StackFacts, FrameKinds
  <2> QED BY <2>1, StackFacts
<1>6. CASE senders[c] = <<>>
  <2>1. Goto(<<Code>>) /\ UNCHANGED <<fiber, fibers, senders, check, op>>
    BY <1>2, <1>6 DEF FailSenders
  <2>2. OfTask(<<Code>>) /\ GoesOn(<<Code>>)
    BY StackFacts, WaitFacts
  <2>4. /\ Tasking' /\ ReceiversOK' /\ SendersOK' /\ stack'[fiber] = <<Code>>
        /\ \A f \in Tasks \cup {Runner} : f # fiber => stack'[f] = stack[f]
    BY <1>1, <1>2, <1>3, <2>1, <2>2, RunsOn DEF iterVars
  <2>5. StatesOK'
    <3>1. \A d \in Chans : state[d] # "open" /\ receivers[d] # <<>> => \E t \in Tasks : stack'[t] = Within(Closing(d))
      BY <1>2, <1>5, <2>4 DEF Control, StatesOK
    <3>2. \A d \in Chans : state[d] # "open" /\ senders[d] # <<>> =>
            \E t \in Tasks : stack'[t] \in {Within(Closing(d)), Within(Flushing(d))}
      BY <1>2, <1>5, <1>6, <2>4 DEF Control, StatesOK
    <3>3. \A t \in Tasks, d \in Chans :
            stack'[t] \in {Within(Closing(d)), Within(Flushing(d))} => state[d] # "open"
      BY <1>2, <1>5, <2>4 DEF Control, StatesOK
    <3> QED BY <1>1, <2>1, <3>1, <3>2, <3>3 DEF Control, StatesOK
  <2>6. RingsOK'
    BY <1>1, <2>1, RingsKept DEF Control
  <2>7. RestOK'
    BY <1>1, <2>1, RestKept DEF Control, RestOK, history, iterVars
  <2> QED BY <2>4, <2>5, <2>6, <2>7 DEF Control, Tasking
<1>7. CASE senders[c] # <<>>
  <2> PICK e : e = Head(senders[c])
    OBVIOUS
  <2> PICK s : s = stack[fiber]
    OBVIOUS
  <2>1. /\ senders' = [senders EXCEPT ![c] = Tail(@)]
        /\ SettleSender(c, e, Outcome(c), s)
    BY <1>7 DEF FailSenders
  <2>2. Outcome(c) \in {"RESOLVED", "FAILED"} /\ GoesOn(s) /\ OfTask(s)
    BY <1>2 DEF Outcome
  <2>4. Tasking /\ SendersOK /\ cancelled' \subseteq Tasks
    BY <1>1, <1>2 DEF Control, Tasking
  <2>5. /\ Tasking' /\ SameWaits /\ StaysAwake /\ SendersOK' /\ UNCHANGED check
        /\ stack'[fiber] = s
        /\ \A f \in Tasks \cup {Runner} : f # fiber => stack'[f] = stack[f]
    BY <1>2, <1>3, <1>7, <2>1, <2>2, <2>4, SenderWakes
  <2>6. ReceiversOK'
    BY <1>1, <2>5, ReceiversKept DEF Control, iterVars
  <2>7. \A d \in Chans : senders'[d] # <<>> => senders[d] # <<>>
    BY <1>7, <2>1 DEF Control, SendersOK
  <2>8. SameClosing
    BY <2>5 DEF SameClosing
  <2>9. StatesOK' /\ RingsOK'
    BY <1>1, <2>7, <2>8, StatesKept, RingsKept DEF Control
  <2>10. RestOK'
    BY <1>1, <2>5, RestKept DEF Control, RestOK, history, iterVars
  <2> QED BY <2>5, <2>6, <2>9, <2>10 DEF Control, Tasking
<1> QED BY <1>6, <1>7

(* The running task leaves a call.                                          *)
LEMMA ResumeFetchedControl ==
    ASSUME Control, UNCHANGED scene, ResumeFetched
    PROVE  Control'
<1> PICK i : i = Top.x
  OBVIOUS
<1>1. /\ Top.k = "fetched" /\ pos' = [pos EXCEPT ![i] = @ + 1] /\ Goto(Rest)
      /\ UNCHANGED <<fiber, fibers, chanVars, entry, fetching, groupVars, taskVars, history>>
  BY DEF ResumeFetched
<1>2. /\ fiber \in Tasks /\ fiber # Runner /\ stack[fiber] = Within(Fetched(i)) /\ Rest = <<Code>> /\ i \in AllIterators
      /\ ~Waits(stack[fiber])
  BY <1>1, CallFacts
<1>3. StillWaiting
  BY <1>1 DEF StillWaiting, history
<1>4. OfTask(<<Code>>) /\ GoesOn(<<Code>>) /\ ~Disposes(<<Code>>) /\ ~Disposes(Within(Fetched(i)))
  BY <1>2, StackFacts, WaitFacts, DisposeFacts, CallsNamed, FrameKinds
<1>5. /\ Tasking' /\ ReceiversOK' /\ SendersOK' /\ stack'[fiber] = <<Code>>
      /\ \A f \in Tasks \cup {Runner} : f # fiber => stack'[f] = stack[f]
  BY <1>1, <1>2, <1>3, <1>4, RunsOn DEF chanVars, taskVars
<1>6. StatesOK'
  <2>1. SameClosing
    BY <1>2, <1>4, <1>5, ClosingSame
  <2> QED BY <1>1, <2>1, StatesKept DEF Control, chanVars
<1>7. RingsOK'
  BY <1>1, RingsKept DEF Control, chanVars
<1>8. RestOK'
  BY <1>1, <1>2, RestKept DEF Control, RestOK, groupVars, history
<1> QED BY <1>5, <1>6, <1>7, <1>8 DEF Control, Tasking

(* fetch_next_entry, after the block.                                       *)
LEMMA ResumeNextControl ==
    ASSUME Control, UNCHANGED scene, ResumeNext
    PROVE  Control'
<1> PICK i : i = Top.x
  OBVIOUS
<1>0. Top.k = "next"
  BY DEF ResumeNext
<1>2. /\ fiber \in Tasks /\ fiber # Runner /\ stack[fiber] = Within(InNext(i)) /\ Rest = <<Code>> /\ i \in AllIterators
  BY <1>0, CallFacts
<1>3. PICK c \in Chans : c = ChanOf[i]
  BY <1>2, ChanTypes
<1>1. /\ receivers' = [receivers EXCEPT ![c] = Unlink(@, [t |-> fiber, i |-> i])]
      /\ fetching' = fetching \ {i} /\ op' = [op EXCEPT ![fiber] = Idle] /\ Goto(<<Code>>)
      /\ IF op[fiber].status = "RESOLVED" /\ state[c] = "open"
         THEN /\ entry' = [entry EXCEPT ![i] = op[fiber].value]
              /\ pos' = [pos EXCEPT ![i] = @ + 1]
              /\ got' = [got EXCEPT ![c] = Append(@, op[fiber].value)]
         ELSE UNCHANGED <<entry, pos, got>>
      /\ UNCHANGED <<fiber, fibers, buffer, senders, state, groupVars, cancelled, result>>
  BY <1>2, <1>3 DEF ResumeNext
<1>4. OfTask(<<Code>>) /\ GoesOn(<<Code>>) /\ ~Disposes(<<Code>>) /\ ~Disposes(Within(InNext(i)))
      /\ \A d \in Chans, m \in Msgs : Within(InNext(i)) # Within(InSend(d, m)) /\ <<Code>> # Within(InSend(d, m))
  BY <1>2, StackFacts, WaitFacts, DisposeFacts, CallsNamed, FrameKinds
<1>5. /\ Tasking' /\ stack'[fiber] = <<Code>>
      /\ \A f \in Tasks \cup {Runner} : f # fiber => stack'[f] = stack[f]
  BY <1>1, <1>2, <1>4, TaskingGoes DEF Control, Tasking
<1>6. ReceiversOK'
  BY <1>1, <1>2, <1>3, <1>5, ReceiverResumes DEF Control, Nexts
<1>7. SendersOK'
  <2>1. \A t \in Tasks, d \in Chans, m \in Msgs : Sends(t, d, m)' <=> Sends(t, d, m)
    BY <1>2, <1>4, <1>5 DEF Sends
  <2>2. \A d \in Chans, m \in Msgs : ~Sends(fiber, d, m)
    BY <1>2, <1>4 DEF Sends
  <2> QED BY <1>1, <2>1, <2>2, SendersStay DEF Control, SameSends, StillWaiting
<1>8. \A d \in Chans : receivers'[d] # <<>> => receivers[d] # <<>>
  <2>1. receivers[c] \in Seq(Waiter) /\ Single(receivers[c], Waiter)
    BY DEF Control, ReceiversOK
  <2>2. PICK q : q = Unlink(receivers[c], [t |-> fiber, i |-> i])
    OBVIOUS
  <2>3. q \in Seq(Waiter) /\ ToSet(q) \subseteq ToSet(receivers[c])
    BY <2>1, <2>2, OnceRemove DEF Unlink
  <2>4. q # <<>> => receivers[c] # <<>>
    BY <2>3, NoElements
  <2>5. receivers'[c] = q /\ \A d \in Chans : d # c => receivers'[d] = receivers[d]
    BY <1>1, <2>2 DEF Control, ReceiversOK
  <2> QED BY <2>4, <2>5
<1>9. StatesOK'
  <2>1. SameClosing
    BY <1>2, <1>4, <1>5, ClosingSame
  <2> QED BY <1>1, <1>8, <2>1, StatesKept DEF Control
<1>10. RingsOK'
  BY <1>1, <1>8, RingsKept DEF Control
<1>11. RestOK'
  <2>1. CASE op[fiber].status = "RESOLVED" /\ state[c] = "open"
    <3>1. op[fiber].value \in Msgs
      <4>1. op[fiber] \in OpRecord
        BY <1>2 DEF Control, OpsOK
      <4>2. op[fiber].value # None
        BY <1>2, <1>3, <2>1 DEF Control, OpsOK, Nexts
      <4> QED BY <4>1, <4>2 DEF OpRecord
    <3>2. /\ entry' = [entry EXCEPT ![i] = op[fiber].value]
          /\ pos' = [pos EXCEPT ![i] = @ + 1]
          /\ got' = [got EXCEPT ![c] = Append(@, op[fiber].value)]
      BY <1>1, <2>1
    <3>3. /\ entry' \in [AllIterators -> Msgs \cup {None}] /\ pos' \in [AllIterators -> Int]
          /\ got' \in [Chans -> Seq(Msgs)]
      BY <1>2, <3>1, <3>2 DEF Control, RestOK
    <3> QED BY <1>1, <3>3, RestKept DEF Control, RestOK, groupVars
  <2>2. CASE ~(op[fiber].status = "RESOLVED" /\ state[c] = "open")
    <3>1. UNCHANGED <<entry, pos, got>>
      BY <1>1, <2>2
    <3> QED BY <1>1, <3>1, RestKept DEF Control, RestOK, groupVars
  <2> QED BY <2>1, <2>2
<1> QED BY <1>5, <1>6, <1>7, <1>9, <1>10, <1>11 DEF Control, Tasking

(* Channel::send, after the block.                                          *)
LEMMA ResumeSendControl ==
    ASSUME Control, UNCHANGED scene, ResumeSend
    PROVE  Control'
<1> PICK c : c = Top.x
  OBVIOUS
<1> PICK m : m = Top.m
  OBVIOUS
<1>0. Top.k = "send"
  BY DEF ResumeSend
<1>2. /\ fiber \in Tasks /\ fiber # Runner /\ stack[fiber] = Within(InSend(c, m)) /\ Rest = <<Code>>
      /\ c \in Chans /\ m \in Msgs
  BY <1>0, CallFacts
<1>1. /\ senders' = [senders EXCEPT ![c] = Unlink(@, [t |-> fiber, i |-> None])]
      /\ result' = [result EXCEPT ![m] = IF op[fiber].status = "RESOLVED" THEN "sent" ELSE "failed"]
      /\ op' = [op EXCEPT ![fiber] = Idle] /\ Goto(<<Code>>)
      /\ UNCHANGED <<fiber, fibers, buffer, receivers, state, iterVars, groupVars, cancelled, got>>
  BY <1>2 DEF ResumeSend
<1>4. OfTask(<<Code>>) /\ GoesOn(<<Code>>) /\ ~Disposes(<<Code>>) /\ ~Disposes(Within(InSend(c, m)))
      /\ \A i \in AllIterators : Within(InSend(c, m)) # Within(InNext(i)) /\ <<Code>> # Within(InNext(i))
  <2>1. InSend(c, m) \in Calls /\ InSend(c, m).k = "send"
    BY <1>2, CallsNamed, FrameKinds
  <2>2. \A i \in AllIterators : Within(InSend(c, m)) # Within(InNext(i)) /\ <<Code>> # Within(InNext(i))
    BY <2>1, StackFacts, FrameKinds
  <2> QED BY <2>1, <2>2, StackFacts, WaitFacts, DisposeFacts
<1>5. /\ Tasking' /\ stack'[fiber] = <<Code>>
      /\ \A f \in Tasks \cup {Runner} : f # fiber => stack'[f] = stack[f]
  BY <1>1, <1>2, <1>4, TaskingGoes DEF Control, Tasking
<1>6. \A n \in Msgs : n # m => result'[n] = result[n]
  BY <1>1 DEF Control, RestOK
<1>7. SendersOK'
  <2>1. Sends(fiber, c, m)
    BY <1>2 DEF Sends
  <2> QED BY <1>1, <1>2, <1>5, <1>6, <2>1, SenderResumes DEF Control
<1>8. ReceiversOK'
  <2>1. \A t \in Tasks, i \in AllIterators : Nexts(t, i)' <=> Nexts(t, i)
    BY <1>2, <1>4, <1>5 DEF Nexts
  <2>2. \A i \in AllIterators : ~Nexts(fiber, i)
    BY <1>2, <1>4 DEF Nexts
  <2> QED BY <1>1, <2>1, <2>2, ReceiversStay DEF Control, SameNexts, iterVars
<1>9. \A d \in Chans : senders'[d] # <<>> => senders[d] # <<>>
  <2>1. senders[c] \in Seq(Waiter) /\ Single(senders[c], Waiter)
    BY <1>2 DEF Control, SendersOK
  <2>2. PICK q : q = Unlink(senders[c], [t |-> fiber, i |-> None])
    OBVIOUS
  <2>3. q \in Seq(Waiter) /\ ToSet(q) \subseteq ToSet(senders[c])
    BY <2>1, <2>2, OnceRemove DEF Unlink
  <2>4. q # <<>> => senders[c] # <<>>
    BY <2>3, NoElements
  <2>5. senders'[c] = q /\ \A d \in Chans : d # c => senders'[d] = senders[d]
    BY <1>1, <1>2, <2>2 DEF Control, SendersOK
  <2> QED BY <2>4, <2>5
<1>10. StatesOK'
  <2>1. SameClosing
    BY <1>2, <1>4, <1>5, ClosingSame
  <2> QED BY <1>1, <1>9, <2>1, StatesKept DEF Control
<1>11. RingsOK'
  BY <1>1, <1>9, RingsKept DEF Control
<1>12. RestOK'
  <2>1. result' \in [Msgs -> {"new", "waiting", "sent", "failed"}]
    BY <1>1 DEF Control, RestOK
  <2> QED BY <1>1, <2>1, RestKept DEF Control, RestOK, groupVars, iterVars
<1> QED BY <1>5, <1>7, <1>8, <1>10, <1>11, <1>12 DEF Control, Tasking

(* The context of a task is cancelled.                                      *)
LEMMA CancelControl ==
    ASSUME Control, UNCHANGED scene, NEW t \in Tasks, Cancel(t)
    PROVE  Control'
<1>1. /\ InLoop \/ InCode
      /\ t \in Cancellable /\ cancelled' = cancelled \cup {t}
      /\ UNCHANGED <<chanVars, iterVars, groupVars, history>>
  BY DEF Cancel
<1>2. /\ fiber \in Tasks \cup {Runner} /\ ~Waits(stack[fiber]) /\ GoesOn(stack[fiber])
      /\ fiber \in Tasks => op[fiber] = Idle
      /\ IF fiber = Runner THEN stack[fiber] = <<Loop>> ELSE OfTask(stack[fiber])
  <2>1. CASE InLoop
    BY <2>1, Executing, WaitFacts DEF Control
  <2>2. CASE InCode
    BY <2>2, CodeFacts, StackFacts
  <2> QED BY <1>1, <2>1, <2>2
<1>3. cancelled' \subseteq Tasks
  BY <1>1 DEF Control, OpsOK
<1>4. StillWaiting
  BY <1>1 DEF StillWaiting, history
<1>5. RingsOK'
  BY <1>1, RingsKept DEF Control, chanVars
<1>6. CASE op[t].status = "RUNNING"
  <2>1. Settle(t, [op[t] EXCEPT !.status = "FAILED"], stack[fiber])
    BY <1>6 DEF Cancel
  <2>2. t # fiber /\ Waits(stack[t]) /\ op[t] = Running
    BY <1>2, <1>6 DEF Control, OpsOK, Idle
  <2>3. PICK o \in OpRecord : o = [op[t] EXCEPT !.status = "FAILED"]
    <3>1. Running \in OpRecord
      BY OpTypes
    <3> QED BY <2>2, <3>1 DEF OpRecord
  <2>4. o.status = "FAILED" /\ o.value = None /\ Settled(o)
    BY <2>2, <2>3 DEF Running, Idle, Settled
  <2>5. PICK s : s = stack[fiber]
    OBVIOUS
  <2>6. GoesOn(s) /\ Settle(t, o, s) /\ IF fiber = Runner THEN s = <<Loop>> ELSE OfTask(s)
    BY <1>2, <2>1, <2>3, <2>5
  <2>7. \A i \in AllIterators : Nexts(t, i) =>
          (o.value # None <=> o.status = "RESOLVED" /\ state'[ChanOf[i]] = "open")
    BY <2>4
  <2>8. /\ Tasking' /\ SameWaits /\ StaysAwake /\ stack'[fiber] = s
        /\ \A f \in Tasks \cup {Runner} : f # fiber => stack'[f] = stack[f]
    BY <1>2, <1>3, <2>2, <2>4, <2>6, <2>7, TaskingWakes DEF Control, Tasking
  <2>9. ReceiversOK' /\ SendersOK'
    BY <1>1, <1>4, <2>8, ReceiversKept, SendersKept DEF Control, chanVars, iterVars
  <2>10. SameClosing
    BY <2>5, <2>8 DEF SameClosing
  <2>11. StatesOK'
    BY <1>1, <2>10, StatesKept DEF Control, chanVars
  <2>12. RestOK'
    BY <1>1, RestKept DEF Control, RestOK, iterVars, groupVars, history
  <2> QED BY <1>5, <2>8, <2>9, <2>11, <2>12 DEF Control, Tasking
<1>7. CASE op[t].status # "RUNNING"
  <2>1. UNCHANGED <<op, fiber, fibers, stack>>
    BY <1>7 DEF Cancel
  <2> QED BY <1>1, <1>2, <1>3, <1>4, <1>5, <2>1, QuietControl
          DEF Control, RestOK, chanVars, iterVars, groupVars, history
<1> QED BY <1>6, <1>7

-------------------------------------------------------------------------------
(* Control holds in every state.                                            *)
LEMMA ControlBegins ==
    ASSUME NoGroups, Init
    PROVE  Control
<1>0. Runner \notin Tasks /\ fiber = Runner /\ fibers = <<>>
  BY ChannelNames DEF Init
<1>1. stack[Runner] = <<Loop>> /\ \A t \in Tasks : stack[t] = <<>>
  BY <1>0 DEF Init
<1>2. StacksOK
  <2>1. <<Loop>> \in Seq(Frames) /\ <<>> \in Seq(Frames)
    BY FrameTypes
  <2>2. stack \in [Tasks \cup {Runner} -> Seq(Frames)]
    BY <2>1 DEF Init
  <2> QED BY <1>1, <2>2, StackFacts DEF StacksOK
<1>3. FibersOK
  <2>1. <<>> \in Seq(Tasks \cup {Runner}) /\ DOMAIN <<>> = {}
    OBVIOUS
  <2>2. Parked(Runner, <<>>, Tasks \cup {Runner}, Left)
    BY <2>1 DEF Parked, Single
  <2> QED BY <1>0, <1>1, <2>2, StackFacts DEF FibersOK
<1>4. OpsOK
  BY <1>0, <1>1, WaitFacts, OpTypes DEF OpsOK, Init
<1>5. /\ \A t \in Tasks, i \in AllIterators : ~Nexts(t, i)
      /\ \A t \in Tasks, c \in Chans, m \in Msgs : ~Sends(t, c, m)
      /\ \A t \in Tasks, c \in Chans : stack[t] \notin {Within(Closing(c)), Within(Flushing(c))}
  BY <1>1, StackFacts DEF Nexts, Sends
<1>6. /\ \A c \in Chans : receivers[c] = <<>> /\ senders[c] = <<>> /\ state[c] = "open"
      /\ state \in [Chans -> {"open", "closed", "error"}] /\ fetching = {}
  BY DEF Init
<1>7. receivers \in [Chans -> Seq(Waiter)] /\ senders \in [Chans -> Seq(Waiter)]
  <2>1. <<>> \in Seq(Waiter)
    OBVIOUS
  <2> QED BY <2>1 DEF Init
<1>8. Single(<<>>, Waiter)
  BY DEF Single
<1>9. ReceiversOK
  BY <1>5, <1>6, <1>7, <1>8, NoElements DEF ReceiversOK
<1>10. SendersOK
  BY <1>5, <1>6, <1>7, <1>8, NoElements DEF SendersOK
<1>11. StatesOK
  BY <1>5, <1>6 DEF StatesOK
<1>12. RingsOK
  <2>1. DOMAIN buffer = Chans
    BY DEF Init
  <2>2. ASSUME NEW c \in Chans PROVE Ring(buffer[c])
    <3> PICK n : n = scene.size[c]
      OBVIOUS
    <3>1. n \in 0 .. MaxSize /\ n \in Nat /\ 0 \in 0 .. n
      BY SizeType, ChannelScenes DEF Init
    <3>2. buffer[c] = [data |-> [k \in 0..n - 1 |-> None], size |-> n, rpos |-> 0, wpos |-> 0, len |-> 0]
      BY DEF Init
    <3>3. n # 0 => 0 \in 0 .. n - 1 /\ (0 + 0) % n = 0
      BY <3>1
    <3>4. 1 .. 0 = {}
      OBVIOUS
    <3> QED BY <3>1, <3>2, <3>3, <3>4 DEF Ring
  <2> QED BY <1>6, <2>1, <2>2 DEF RingsOK, NobodyMissed
<1>13. RestOK
  <2>1. <<>> \in Seq(Msgs)
    OBVIOUS
  <2> QED BY <2>1 DEF RestOK, Init, NoGroups
<1> QED BY <1>2, <1>3, <1>4, <1>9, <1>10, <1>11, <1>12, <1>13 DEF Control

(* A step of the program, by the action it is of: there are no groups.      *)
LEMMA Steps ==
    ASSUME Control, Next
    PROVE  \/ \E c \in Chans, m \in Msgs : Send(c, m)
           \/ \E c \in Chans, how \in {"closed", "error"} : Close(c, how)
           \/ \E i \in AllIterators : Advance(i)
           \/ Return \/ FailReceivers \/ FailSenders \/ ResumeFetched \/ ResumeNext \/ ResumeSend
           \/ \E t \in Tasks : Start(t) \/ Cancel(t)
<1>1. /\ scene.chans \subseteq Chans /\ scene.iterators \subseteq AllIterators /\ scene.groups = {} /\ timer = {}
  BY ChannelScenes DEF Control, RestOK, AllIterators
<1>2. ~ResumeSelect /\ ~ResumeGroupSend
  BY CallFacts DEF ResumeSelect, ResumeGroupSend
<1>3. \A g \in Groups : ~TimeOut(g)
  BY <1>1 DEF TimeOut
<1>4. CASE PhpCode
  BY <1>1, <1>4 DEF PhpCode
<1>5. CASE Engine
  BY <1>2, <1>5 DEF Engine
<1>6. CASE EventLoop
  BY <1>3, <1>6 DEF EventLoop
<1> QED BY <1>4, <1>5, <1>6 DEF Next

(* Channel::send.                                                           *)
LEMMA SendControl ==
    ASSUME Control, UNCHANGED scene, NEW c \in Chans, NEW m \in Msgs, Send(c, m)
    PROVE  Control'
<1>1. SendClosed(c, m) \/ (state[c] = "open" /\ (HandOver(c, m) \/ Store(c, m) \/ SendBlock(c, m)))
  BY DEF Send, Open
<1>2. CASE SendClosed(c, m)
  BY <1>2, SendClosedControl
<1>3. CASE state[c] = "open" /\ HandOver(c, m)
  BY <1>3, HandOverControl
<1>4. CASE state[c] = "open" /\ Store(c, m)
  BY <1>4, StoreControl
<1>5. CASE state[c] = "open" /\ SendBlock(c, m)
  BY <1>5, SendBlockControl
<1> QED BY <1>1, <1>2, <1>3, <1>4, <1>5

(* Every step keeps the invariant.                                          *)
LEMMA ControlStays ==
    ASSUME Control, [Next]_vars
    PROVE  Control'
<1>1. CASE UNCHANGED vars
  BY <1>1 DEF vars, chanVars, iterVars, groupVars, taskVars, history, Control, StacksOK, FibersOK, Left, OpsOK,
     ReceiversOK, SendersOK, StatesOK, RingsOK, NobodyMissed, RestOK, Nexts, Sends
<1>2. CASE Next
  <2>1. UNCHANGED scene
    BY <1>2 DEF Next
  <2>2. CASE \E c \in Chans, m \in Msgs : Send(c, m)
    BY <2>1, <2>2, SendControl
  <2>3. CASE \E c \in Chans, how \in {"closed", "error"} : Close(c, how)
    BY <2>1, <2>3, CloseControl
  <2>4. CASE \E i \in AllIterators : Advance(i)
    BY <2>1, <2>4, AdvanceControl
  <2>5. CASE Return
    BY <2>1, <2>5, ReturnControl
  <2>6. CASE FailReceivers
    BY <2>1, <2>6, FailReceiversControl
  <2>7. CASE FailSenders
    BY <2>1, <2>7, FailSendersControl
  <2>8. CASE ResumeFetched
    BY <2>1, <2>8, ResumeFetchedControl
  <2>9. CASE ResumeNext
    BY <2>1, <2>9, ResumeNextControl
  <2>10. CASE ResumeSend
    BY <2>1, <2>10, ResumeSendControl
  <2>11. CASE \E t \in Tasks : Start(t) \/ Cancel(t)
    BY <2>1, <2>11, StartControl, CancelControl
  <2> QED BY <1>2, <2>2, <2>3, <2>4, <2>5, <2>6, <2>7, <2>8, <2>9, <2>10, <2>11, Steps
<1> QED BY <1>1, <1>2

(* What it says of the channels.                                            *)
LEMMA ControlSound ==
    ASSUME Control
    PROVE  Sound
<1>1. TypeOK
  <2>1. fiber \in Tasks \cup {Runner} /\ fibers \in Seq(Tasks \cup {Runner})
    BY DEF Control, FibersOK, Parked
  <2>2. ASSUME NEW c \in Chans
        PROVE  buffer[c] \in [data : [0..buffer[c].size - 1 -> Msgs \cup {None}], size : {buffer[c].size},
                              rpos : 0..MaxSize, wpos : 0..MaxSize, len : 0..buffer[c].size]
    <3> PICK b : b = buffer[c]
      OBVIOUS
    <3>1. Ring(b)
      BY DEF Control, RingsOK
    <3> PICK n \in 0 .. MaxSize : n = b.size
      BY <3>1 DEF Ring
    <3>2. b.rpos \in 0 .. MaxSize /\ b.wpos \in 0 .. MaxSize
      <4>1. CASE n = 0
        BY <3>1, <4>1, SizeType DEF Ring
      <4>2. CASE n # 0
        <5>1. b.rpos \in 0 .. n - 1 /\ b.wpos = (b.rpos + b.len) % n /\ b.len \in Nat /\ n \in Nat \ {0}
          BY <3>1, <4>2, SizeType DEF Ring
        <5>2. b.wpos \in 0 .. n - 1
          BY <5>1
        <5> QED BY <5>1, <5>2, SizeType
      <4> QED BY <4>1, <4>2
    <3>3. /\ b = [data |-> b.data, size |-> b.size, rpos |-> b.rpos, wpos |-> b.wpos, len |-> b.len]
          /\ b.len \in 0 .. b.size /\ b.data \in [0 .. b.size - 1 -> Msgs \cup {None}]
      BY <3>1 DEF Ring
    <3> QED BY <3>2, <3>3
  <2>3. /\ stack \in [Tasks \cup {Runner} -> Seq(Frames)]
        /\ op \in [Tasks -> OpRecord] /\ cancelled \subseteq Tasks
    BY DEF Control, StacksOK, OpsOK
  <2>4. /\ receivers \in [Chans -> Seq(Waiter)] /\ senders \in [Chans -> Seq(Waiter)]
        /\ fetching \subseteq AllIterators /\ state \in [Chans -> {"open", "closed", "error"}]
    BY DEF Control, ReceiversOK, SendersOK, StatesOK
  <2>5. /\ entry \in [AllIterators -> Msgs \cup {None}] /\ pos \in [AllIterators -> Int]
        /\ result \in [Msgs -> {"new", "waiting", "sent", "failed"}] /\ got \in [Chans -> Seq(Msgs)]
    BY DEF Control, RestOK
  <2>6. group \in [Groups -> Seq(AllIterators)] /\ check \subseteq Groups /\ timer \subseteq Groups
    BY ChannelSets DEF Control, RestOK
  <2> QED BY <2>1, <2>2, <2>3, <2>4, <2>5, <2>6 DEF TypeOK
<1>2. RingOK
  <2>1. ASSUME NEW c \in Chans, buffer[c].size > 0
        PROVE  buffer[c].wpos = (buffer[c].rpos + buffer[c].len) % buffer[c].size
    BY <2>1 DEF Control, RingsOK, Ring
  <2> QED BY <2>1 DEF RingOK, Control, RingsOK
<1>3. \A c \in Chans : \A e \in ToSet(receivers[c]) :
        e.t \in Tasks /\ e.i \in AllIterators /\ ChanOf[e.i] = c /\ Nexts(e.t, e.i)
  <2>1. \A c \in Chans : \A e \in ToSet(receivers[c]) : e \in Waiter
    BY DEF Control, ReceiversOK, ToSet
  <2> QED BY <2>1 DEF Control, ReceiversOK, Waiter
<1>4. FetchingFlag
  <2> DEFINE R == {e.i : e \in UNION {ToSet(receivers[c]) : c \in Chans}}
             T == IF Top.k = "next" THEN {Top.x} ELSE {}
  <2>1. \A i \in fetching : i \in R \cup T
    <3> SUFFICES ASSUME NEW i \in fetching PROVE i \in R \cup T
      OBVIOUS
    <3>1. i \in AllIterators /\ \E t \in Tasks : Nexts(t, i)
      BY DEF Control, ReceiversOK
    <3>2. PICK t \in Tasks : Nexts(t, i)
      BY <3>1
    <3>3. CASE t # fiber
      <4>1. [t |-> t, i |-> i] \in ToSet(receivers[ChanOf[i]]) /\ ChanOf[i] \in Chans
        BY <3>1, <3>2, <3>3, ChanTypes DEF Control, ReceiversOK
      <4>2. [t |-> t, i |-> i].i = i
        OBVIOUS
      <4> QED BY <4>1, <4>2
    <3>4. CASE t = fiber
      <4>1. Top = InNext(i)
        BY <3>2, <3>4, StackFacts DEF Nexts, Top
      <4>2. Top.k = "next" /\ Top.x = i
        BY <4>1, FrameKinds
      <4> QED BY <4>2
    <3> QED BY <3>3, <3>4
  <2>2. \A i \in R : i \in fetching
    BY <1>3 DEF Control, ReceiversOK
  <2>3. \A i \in T : i \in fetching
    <3> SUFFICES ASSUME Top.k = "next" PROVE Top.x \in fetching
      OBVIOUS
    <3>1. fiber \in Tasks /\ Top.x \in AllIterators /\ Nexts(fiber, Top.x)
      BY CallFacts DEF Nexts
    <3> QED BY <3>1 DEF Control, ReceiversOK
  <2>4. ASSUME NEW i \in AllIterators, NEW t \in Tasks, NEW u \in Tasks, Blocked(t), Blocked(u),
               Head(stack[t]) = InNext(i), Head(stack[u]) = InNext(i)
        PROVE  t = u
    <3>1. ASSUME NEW v \in Tasks, Blocked(v), Head(stack[v]) = InNext(i) PROVE Nexts(v, i)
      <4>1. stack[v] # <<>> /\ OfTask(stack[v]) /\ InNext(i).k = "next"
        BY <3>1, FrameKinds DEF Blocked, Control, StacksOK
      <4>2. stack[v] # <<Code>> /\ stack[v] # <<Over>>
        BY <3>1, <4>1, ShortSequences, FrameKinds
      <4> QED BY <3>1, <4>1, <4>2, StackFacts DEF OfTask, Nexts
    <3> QED BY <2>4, <3>1 DEF Control, ReceiversOK
  <2> QED BY <2>1, <2>2, <2>3, <2>4 DEF FetchingFlag
<1>5. ClosedDrained
  <2> SUFFICES ASSUME NEW c \in Chans, state[c] # "open", ~Disposing(c) PROVE Queued(c) = {}
    BY DEF ClosedDrained
  <2>1. \A t \in Tasks : stack[t] \notin {Within(Closing(c)), Within(Flushing(c))}
    <3>1. \A f : f \in ToSet(Within(f))
      <4>1. \A f : Len(Within(f)) = 2 /\ Within(f)[1] = f /\ DOMAIN Within(f) = 1 .. 2
        BY DEF Within
      <4> QED BY <4>1 DEF ToSet
    <3> QED BY <3>1 DEF Disposing
  <2>2. receivers[c] = <<>> /\ senders[c] = <<>>
    BY <2>1 DEF Control, StatesOK
  <2> QED BY <2>2, NoElements DEF Queued
<1>6. HandedOver
  <2> SUFFICES ASSUME fiber \in Tasks, Top.k \in {"next", "select"}, op[fiber].value # None
               PROVE  /\ op[fiber].status = "RESOLVED"
                      /\ state[ChanOf[IF Top.k = "next" THEN Top.x ELSE op[fiber].entry]] = "open"
    BY DEF HandedOver
  <2>1. Top.k = "next" /\ Top.x \in AllIterators /\ Nexts(fiber, Top.x)
    BY CallFacts DEF Nexts
  <2> QED BY <2>1 DEF Control, OpsOK
<1> QED BY <1>1, <1>2, <1>4, <1>5, <1>6 DEF Sound

(* Nobody waits for a message on a channel that has one, in programs        *)
(* without groups.  (A select looks at receivers and buffers: on a channel  *)
(* without a buffer it waits although somebody sends.)                      *)
THEOREM ChannelsServe ==
    ASSUME NoGroups
    PROVE  Spec => []NobodyMissed
<1>1. Control /\ [Next]_vars => Control'
  BY ControlStays
<1>2. Init => Control
  BY ControlBegins
<1>3. Control => NobodyMissed
  BY DEF Control, RingsOK
<1> QED BY <1>1, <1>2, <1>3, PTL DEF Spec

(* A channel is in a consistent state, in programs without groups.          *)
THEOREM ChannelsConsistent ==
    ASSUME NoGroups
    PROVE  Spec => []Sound
<1>1. Control /\ [Next]_vars => Control'
  BY ControlStays
<1>2. Init => Control
  BY ControlBegins
<1>3. Control => Sound
  BY ControlSound
<1> QED BY <1>1, <1>2, <1>3, PTL DEF Spec
-------------------------------------------------------------------------------
(* What was shown of the control of the tasks is carried over to the         *)
(* messages that are on their way: the channels implement FifoChannels, and  *)
(* senders are told the truth.                                               *)

(* The stack of a receiver is not that of a sender.                         *)
LEMMA NextNoSend == \A i, d, m : Within(InNext(i)) # Within(InSend(d, m))
<1> TAKE i, d, m
<1>1. InNext(i).k = "next" /\ InSend(d, m).k = "send"
  BY FrameKinds
<1>2. InNext(i) # InSend(d, m)
  BY <1>1
<1>3. Within(InNext(i)) = Within(InSend(d, m)) => InNext(i) = InSend(d, m)
  BY StackFacts
<1> QED BY <1>2, <1>3

-------------------------------------------------------------------------------
(* Where the messages are: q[c] on their way through channel c, g[c]        *)
(* received from it.  Each is in one place, once.                           *)
Placed(q, g) ==
    /\ q \in [Chans -> Seq(Msgs)] /\ g \in [Chans -> Seq(Msgs)]
    /\ \A c \in Chans : Single(q[c], Msgs)
    /\ \A c, d \in Chans : \A m \in ToSet(q[c]) : m \notin ToSet(g[d]) /\ (m \in ToSet(q[d]) => c = d)
Nowhere(m, q, g) == \A c \in Chans : m \notin ToSet(q[c]) /\ m \notin ToSet(g[c])

(* All messages but m stay where they are, and m is in one place at most.   *)
AllBut(m, r, q) == \A d \in Chans : \A n : n # m => (n \in ToSet(r[d]) <=> n \in ToSet(q[d]))
OnlyIn(m, c, r, h) == \A d \in Chans : m \in ToSet(r[d]) => d = c /\ \A e \in Chans : m \notin ToSet(h[e])
Queues(r) == r \in [Chans -> Seq(Msgs)] /\ \A d \in Chans : Single(r[d], Msgs)
Moves(m, c, q, g, r, h) ==
    /\ c \in Chans /\ Queues(r) /\ h \in [Chans -> Seq(Msgs)]
    /\ AllBut(m, r, q) /\ AllBut(m, h, g) /\ OnlyIn(m, c, r, h)

(* Then all of them are in one place at most.                               *)
LEMMA OthersStay ==
    ASSUME NEW q, NEW g, Placed(q, g), NEW r, NEW h, NEW m, NEW c, Moves(m, c, q, g, r, h)
    PROVE  Placed(r, h) /\ \A n : n # m => (Nowhere(n, r, h) <=> Nowhere(n, q, g))
<1>0. /\ c \in Chans /\ Queues(r) /\ h \in [Chans -> Seq(Msgs)]
      /\ AllBut(m, r, q) /\ AllBut(m, h, g) /\ OnlyIn(m, c, r, h)
  BY DEF Moves
<1>1. ASSUME NEW d \in Chans, NEW e \in Chans, NEW n \in ToSet(r[d])
      PROVE  n \notin ToSet(h[e]) /\ (n \in ToSet(r[e]) => d = e)
  <2>1. CASE n = m
    <3>1. d = c /\ n \notin ToSet(h[e])
      BY <1>0, <2>1 DEF OnlyIn
    <3>2. n \in ToSet(r[e]) => e = c
      BY <1>0, <2>1 DEF OnlyIn
    <3> QED BY <3>1, <3>2
  <2>2. CASE n # m
    <3>1. n \in ToSet(q[d]) /\ (n \in ToSet(r[e]) => n \in ToSet(q[e])) /\ (n \in ToSet(h[e]) => n \in ToSet(g[e]))
      BY <1>0, <2>2 DEF AllBut
    <3> QED BY <3>1 DEF Placed
  <2> QED BY <2>1, <2>2
<1>2. ASSUME NEW n, n # m PROVE Nowhere(n, r, h) <=> Nowhere(n, q, g)
  <2>1. \A d \in Chans : (n \in ToSet(r[d]) <=> n \in ToSet(q[d])) /\ (n \in ToSet(h[d]) <=> n \in ToSet(g[d]))
    BY <1>0, <1>2 DEF AllBut
  <2> QED BY <2>1 DEF Nowhere
<1>3. Placed(r, h)
  <2>1. \A d, e \in Chans : \A n \in ToSet(r[d]) : n \notin ToSet(h[e]) /\ (n \in ToSet(r[e]) => d = e)
    BY <1>1
  <2> QED BY <1>0, <2>1 DEF Placed, Queues
<1> QED BY <1>2, <1>3

Changed(q, c, s) == [q EXCEPT ![c] = s]

(* A new message.                                                           *)
LEMMA OfferPlaces ==
    ASSUME NEW q, NEW g, Placed(q, g), NEW c \in Chans, NEW m \in Msgs, Nowhere(m, q, g),
           NEW r, r = Changed(q, c, Append(q[c], m))
    PROVE  /\ Placed(r, g) /\ ~Nowhere(m, r, g)
           /\ \A n : n # m => (Nowhere(n, r, g) <=> Nowhere(n, q, g))
<1>1. /\ q \in [Chans -> Seq(Msgs)] /\ g \in [Chans -> Seq(Msgs)]
      /\ \A d \in Chans : Single(q[d], Msgs) /\ m \notin ToSet(q[d]) /\ m \notin ToSet(g[d])
  BY DEF Placed, Nowhere
<1>2. Append(q[c], m) \in Seq(Msgs) /\ Single(Append(q[c], m), Msgs) /\ ToSet(Append(q[c], m)) = ToSet(q[c]) \cup {m}
  BY <1>1, OnceAppend
<1>3. /\ r \in [Chans -> Seq(Msgs)] /\ r[c] = Append(q[c], m) /\ \A d \in Chans : d # c => r[d] = q[d]
  BY <1>1, <1>2 DEF Changed
<1>4. \A d \in Chans : \A n : n \in ToSet(r[d]) <=> n \in ToSet(q[d]) \/ (d = c /\ n = m)
  <2>1. ToSet(r[c]) = ToSet(q[c]) \cup {m} /\ \A d \in Chans : d # c => ToSet(r[d]) = ToSet(q[d])
    BY <1>2, <1>3
  <2> QED BY <2>1
<1>5. Queues(r)
  <2>1. \A d \in Chans : Single(r[d], Msgs)
    BY <1>1, <1>2, <1>3
  <2> QED BY <1>3, <2>1 DEF Queues
<1>6. Placed(r, g) /\ \A n : n # m => (Nowhere(n, r, g) <=> Nowhere(n, q, g))
  <2>1. OnlyIn(m, c, r, g)
    BY <1>1, <1>4 DEF OnlyIn
  <2>2. AllBut(m, r, q) /\ AllBut(m, g, g)
    BY <1>4 DEF AllBut
  <2>3. Moves(m, c, q, g, r, g)
    BY <1>1, <1>5, <2>1, <2>2 DEF Moves
  <2> QED BY <2>3, OthersStay
<1>7. ~Nowhere(m, r, g)
  BY <1>4 DEF Nowhere
<1> QED BY <1>6, <1>7

(* A message is received.                                                   *)
LEMMA TakePlaces ==
    ASSUME NEW q, NEW g, Placed(q, g), NEW c \in Chans, q[c] # <<>>,
           NEW r, r = Changed(q, c, Tail(q[c])), NEW h, h = Changed(g, c, Append(g[c], Head(q[c])))
    PROVE  /\ Placed(r, h) /\ Head(q[c]) \in Msgs /\ \A d \in Chans : Head(q[c]) \notin ToSet(g[d])
           /\ \A n : Nowhere(n, r, h) <=> Nowhere(n, q, g)
<1>1. /\ q \in [Chans -> Seq(Msgs)] /\ g \in [Chans -> Seq(Msgs)]
      /\ \A d \in Chans : Single(q[d], Msgs)
  BY DEF Placed
<1>2. PICK m : m = Head(q[c])
  OBVIOUS
<1>3. /\ m \in Msgs /\ m \in ToSet(q[c])
      /\ Tail(q[c]) \in Seq(Msgs) /\ Single(Tail(q[c]), Msgs) /\ ToSet(Tail(q[c])) = ToSet(q[c]) \ {m}
  BY <1>1, <1>2, OnceTail
<1>4. /\ \A d \in Chans : d # c => m \notin ToSet(q[d])
      /\ \A d \in Chans : m \notin ToSet(g[d])
  BY <1>3 DEF Placed
<1>5. Append(g[c], m) \in Seq(Msgs) /\ ToSet(Append(g[c], m)) = ToSet(g[c]) \cup {m}
  <2>1. g[c] \in Seq(Msgs)
    BY <1>1
  <2> QED BY <1>3, <2>1, AppendedSet
<1>6. /\ r \in [Chans -> Seq(Msgs)] /\ \A d \in Chans : Single(r[d], Msgs)
      /\ \A d \in Chans : ToSet(r[d]) = IF d = c THEN ToSet(q[d]) \ {m} ELSE ToSet(q[d])
  <2>1. r[c] = Tail(q[c]) /\ r \in [Chans -> Seq(Msgs)] /\ \A d \in Chans : d # c => r[d] = q[d]
    BY <1>1, <1>3 DEF Changed
  <2> QED BY <1>1, <1>3, <2>1
<1>7. /\ h \in [Chans -> Seq(Msgs)]
      /\ \A d \in Chans : ToSet(h[d]) = IF d = c THEN ToSet(g[d]) \cup {m} ELSE ToSet(g[d])
  <2>1. h[c] = Append(g[c], m) /\ \A d \in Chans : d # c => h[d] = g[d]
    BY <1>1, <1>2 DEF Changed
  <2>2. h \in [Chans -> Seq(Msgs)]
    BY <1>1, <1>2, <1>5 DEF Changed
  <2> QED BY <1>5, <2>1, <2>2
<1>8. Placed(r, h) /\ \A n : n # m => (Nowhere(n, r, h) <=> Nowhere(n, q, g))
  <2>1. OnlyIn(m, c, r, h)
    BY <1>4, <1>6 DEF OnlyIn
  <2>2. AllBut(m, r, q) /\ AllBut(m, h, g)
    BY <1>6, <1>7 DEF AllBut
  <2>3. Queues(r)
    BY <1>6 DEF Queues
  <2>4. Moves(m, c, q, g, r, h)
    BY <1>7, <2>1, <2>2, <2>3 DEF Moves
  <2> QED BY <2>4, OthersStay
<1>9. ~Nowhere(m, r, h) /\ ~Nowhere(m, q, g)
  BY <1>3, <1>7 DEF Nowhere
<1> QED BY <1>2, <1>3, <1>4, <1>8, <1>9

(* A message is taken back.                                                 *)
LEMMA WithdrawPlaces ==
    ASSUME NEW q, NEW g, Placed(q, g), NEW c \in Chans, NEW m, m \in ToSet(q[c]),
           NEW r, r = Changed(q, c, RemoveFirst(q[c], m))
    PROVE  /\ Placed(r, g) /\ Nowhere(m, r, g)
           /\ \A n : n # m => (Nowhere(n, r, g) <=> Nowhere(n, q, g))
<1>1. /\ q \in [Chans -> Seq(Msgs)] /\ g \in [Chans -> Seq(Msgs)]
      /\ \A d \in Chans : Single(q[d], Msgs)
  BY DEF Placed
<1>2. /\ RemoveFirst(q[c], m) \in Seq(Msgs) /\ Single(RemoveFirst(q[c], m), Msgs)
      /\ ToSet(RemoveFirst(q[c], m)) = ToSet(q[c]) \ {m}
  BY <1>1, OnceRemove
<1>3. /\ r \in [Chans -> Seq(Msgs)] /\ r[c] = RemoveFirst(q[c], m) /\ \A d \in Chans : d # c => r[d] = q[d]
  BY <1>1, <1>2 DEF Changed
<1>4. \A d \in Chans : \A n : n \in ToSet(r[d]) <=> n \in ToSet(q[d]) /\ ~(d = c /\ n = m)
  BY <1>2, <1>3
<1>5. Queues(r)
  <2>1. \A d \in Chans : Single(r[d], Msgs)
    BY <1>1, <1>2, <1>3
  <2> QED BY <1>3, <2>1 DEF Queues
<1>6. \A d \in Chans : m \notin ToSet(r[d]) /\ m \notin ToSet(g[d])
  BY <1>4 DEF Placed
<1>7. Placed(r, g) /\ \A n : n # m => (Nowhere(n, r, g) <=> Nowhere(n, q, g))
  <2>1. OnlyIn(m, c, r, g)
    BY <1>6 DEF OnlyIn
  <2>2. AllBut(m, r, q) /\ AllBut(m, g, g)
    BY <1>4 DEF AllBut
  <2>3. Moves(m, c, q, g, r, g)
    BY <1>1, <1>5, <2>1, <2>2 DEF Moves
  <2> QED BY <2>3, OthersStay
<1>8. Nowhere(m, r, g)
  BY <1>6 DEF Nowhere
<1> QED BY <1>7, <1>8

-------------------------------------------------------------------------------
(* The inductive invariant.  A sender that goes on was told the truth: if   *)
(* it succeeded its message is somewhere, unless a channel was closed; if   *)
(* not the message is still in the queue of the senders, where it takes it  *)
(* back, or nowhere.                                                        *)
NoneClosed == \A c \in Chans : state[c] # "closed"
SenderEntry(t) == [t |-> t, i |-> None]
Told ==
    /\ \A m \in Msgs : result[m] \in {"new", "failed"} => Nowhere(m, Queue, got)
    /\ NoneClosed => \A m \in Msgs : result[m] = "sent" => ~Nowhere(m, Queue, got)
Tells ==
    fiber \in Tasks => \A c \in Chans, m \in Msgs : Sends(fiber, c, m) =>
        IF op[fiber].status = "RESOLVED"
        THEN SenderEntry(fiber) \notin ToSet(senders[c]) /\ (NoneClosed => ~Nowhere(m, Queue, got))
        ELSE SenderEntry(fiber) \in ToSet(senders[c]) \/ Nowhere(m, Queue, got)
Messages == Placed(Queue, got) /\ Told /\ Tells

-------------------------------------------------------------------------------
(* What is on its way through a channel: in flight, in the buffer, or with  *)
(* a sender that waits.                                                     *)
FlightOf(f, s, o, c) ==
    IF /\ f \in Tasks /\ Head(s).k \in {"next", "select"} /\ o.value # None
       /\ ChanOf[IF Head(s).k = "next" THEN Head(s).x ELSE o.entry] = c
    THEN <<o.value>> ELSE <<>>
(* It is what is in flight now, and after a step.                           *)
LEMMA FlightIs ==
    ASSUME NEW c
    PROVE  /\ InFlight(c) = FlightOf(fiber, stack[fiber], op[fiber], c)
           /\ InFlight(c)' = FlightOf(fiber', stack'[fiber'], op'[fiber'], c)
BY DEF InFlight, FlightOf, Top

(* Nothing is in flight but to a task that goes on in next, with a value.   *)
LEMMA NoFlight ==
    ASSUME NEW f, NEW s, NEW o,
           \/ f \notin Tasks \/ o.value = None \/ (OfTask(s) /\ GoesOn(s))
           \/ \E d \in Chans, m \in Msgs : s = Within(InSend(d, m))
    PROVE  \A c : FlightOf(f, s, o, c) = <<>>
<1>1. CASE f \notin Tasks \/ o.value = None
  BY <1>1 DEF FlightOf
<1>2. CASE OfTask(s) /\ GoesOn(s)
  <2>1. CASE s = <<Code>>
    <3>1. Head(s).k = "code"
      BY <2>1, StackFacts, FrameKinds
    <3> QED BY <3>1 DEF FlightOf
  <2>2. CASE \E g \in Calls : s = Within(g)
    <3>1. PICK g \in Calls : s = Within(g)
      BY <2>2
    <3>2. Head(s) = g /\ g.k \notin {"next", "send"} /\ g.k \in {"next", "fetched", "close", "flush", "send"}
      BY <1>2, <3>1, StackFacts, WaitFacts, CallKinds
    <3> QED BY <3>2 DEF FlightOf
  <2> QED BY <1>2, <2>1, <2>2 DEF OfTask, GoesOn
<1>3. CASE \E d \in Chans, m \in Msgs : s = Within(InSend(d, m))
  <2>1. Head(s).k = "send"
    BY <1>3, StackFacts, FrameKinds
  <2> QED BY <2>1 DEF FlightOf
<1> QED BY <1>1, <1>2, <1>3

(* What a task in next is handed.                                           *)
LEMMA NextFlight ==
    ASSUME NEW f \in Tasks, NEW i \in AllIterators, NEW o
    PROVE  \A c : FlightOf(f, Within(InNext(i)), o, c) =
                    IF o.value # None /\ ChanOf[i] = c THEN <<o.value>> ELSE <<>>
<1>1. Head(Within(InNext(i))).k = "next" /\ Head(Within(InNext(i))).x = i
  BY StackFacts, FrameKinds
<1> QED BY <1>1 DEF FlightOf

(* The messages of the senders, in their order.                             *)
Message == [e \in Waiter |-> MsgOf(e)]
(* They are the images of the entries in the list of senders.               *)
LEMMA WaitingIs ==
    SendersOK => \A c \in Chans : /\ Waiting(c) = Mapped(senders[c], Message)
                                  /\ Into(Message, senders[c], Msgs) /\ Apart(Message, senders[c])
                                  /\ \A e \in ToSet(senders[c]) : e \in Waiter /\ Message[e] = MsgOf(e) /\ Sends(e.t, c, MsgOf(e))
<1> SUFFICES ASSUME SendersOK, NEW c \in Chans
             PROVE  /\ Waiting(c) = Mapped(senders[c], Message)
                    /\ Into(Message, senders[c], Msgs) /\ Apart(Message, senders[c])
                    /\ \A e \in ToSet(senders[c]) : e \in Waiter /\ Message[e] = MsgOf(e) /\ Sends(e.t, c, MsgOf(e))
  OBVIOUS
<1>1. \A e \in ToSet(senders[c]) : e \in Waiter
  BY DEF SendersOK, ToSet
<1>2. \A j \in DOMAIN senders[c] : senders[c][j] \in ToSet(senders[c])
  BY DEF ToSet
<1>3. Waiting(c) = Mapped(senders[c], Message)
  BY <1>1, <1>2 DEF Waiting, Mapped, Message
<1>4. \A e \in ToSet(senders[c]) : e.t \in Tasks /\ e.i = None /\ MsgOf(e) \in Msgs /\ Sends(e.t, c, MsgOf(e))
  <2> SUFFICES ASSUME NEW e \in ToSet(senders[c])
               PROVE  e.t \in Tasks /\ e.i = None /\ MsgOf(e) \in Msgs /\ Sends(e.t, c, MsgOf(e))
    OBVIOUS
  <2>1. PICK m \in Msgs : e.t \in Tasks /\ e.i = None /\ Sends(e.t, c, m)
    BY <1>1 DEF SendersOK, Waiter
  <2>2. MsgOf(e) = m
    BY <2>1, StackFacts, FrameKinds DEF MsgOf, Sends
  <2> QED BY <2>1, <2>2
<1>5. Into(Message, senders[c], Msgs)
  BY <1>1, <1>4 DEF Into, Message
<1>6. Apart(Message, senders[c])
  <2> SUFFICES ASSUME NEW e \in ToSet(senders[c]), NEW g \in ToSet(senders[c]), Message[e] = Message[g]
               PROVE  e = g
    BY DEF Apart
  <2>1. e.t \in Tasks /\ g.t \in Tasks /\ e.i = None /\ g.i = None /\ MsgOf(e) \in Msgs
        /\ Sends(e.t, c, MsgOf(e)) /\ Sends(g.t, c, MsgOf(e))
    BY <1>1, <1>4 DEF Message
  <2>2. e.t = g.t
    BY <2>1 DEF SendersOK
  <2> QED BY <1>1, <2>1, <2>2 DEF Waiter
<1> QED BY <1>1, <1>3, <1>4, <1>5, <1>6 DEF Message

(* The parts of a queue.                                                    *)
LEMMA QueueIs ==
    Control => \A c \in Chans :
        /\ Queue[c] = (InFlight(c) \o ContentsOf(buffer[c])) \o Waiting(c)
        /\ InFlight(c) \in Seq(Msgs) /\ ContentsOf(buffer[c]) \in Seq(Msgs) /\ Waiting(c) \in Seq(Msgs)
        /\ Len(ContentsOf(buffer[c])) = buffer[c].len /\ Len(Waiting(c)) = Len(senders[c])
<1> SUFFICES ASSUME Control, NEW c \in Chans
             PROVE  /\ Queue[c] = (InFlight(c) \o ContentsOf(buffer[c])) \o Waiting(c)
                    /\ InFlight(c) \in Seq(Msgs) /\ ContentsOf(buffer[c]) \in Seq(Msgs) /\ Waiting(c) \in Seq(Msgs)
                    /\ Len(ContentsOf(buffer[c])) = buffer[c].len /\ Len(Waiting(c)) = Len(senders[c])
  OBVIOUS
<1>1. Queue[c] = (InFlight(c) \o ContentsOf(buffer[c])) \o Waiting(c)
  BY DEF Queue, Contents, ContentsOf
<1>2. ContentsOf(buffer[c]) \in Seq(Msgs) /\ Len(ContentsOf(buffer[c])) = buffer[c].len
  BY ContentsType DEF Control, RingsOK
<1>3. InFlight(c) \in Seq(Msgs)
  <2>1. fiber \in Tasks => op[fiber].value \in Msgs \cup {None}
    BY DEF Control, OpsOK, OpRecord
  <2>2. \A m \in Msgs : <<m>> \in Seq(Msgs)
    OBVIOUS
  <2>3. <<>> \in Seq(Msgs)
    OBVIOUS
  <2> QED BY <2>1, <2>2, <2>3 DEF InFlight
<1>4. Waiting(c) \in Seq(Msgs) /\ Len(Waiting(c)) = Len(senders[c])
  <2>1. /\ Waiting(c) = Mapped(senders[c], Message) /\ Into(Message, senders[c], Msgs)
        /\ senders[c] \in Seq(Waiter)
    BY WaitingIs DEF Control, SendersOK
  <2> QED BY <2>1, MappedType
<1> QED BY <1>1, <1>2, <1>3, <1>4

(* A task whose stack changes takes no message from those who send.         *)
LEMMA MessagesSame ==
    ASSUME SendersOK, NEW t, \A c \in Chans, m \in Msgs : ~Sends(t, c, m),
           \A f \in Tasks : f # t => stack'[f] = stack[f]
    PROVE  \A c \in Chans : \A e \in ToSet(senders[c]) : Message'[e] = Message[e]
<1> SUFFICES ASSUME NEW c \in Chans, NEW e \in ToSet(senders[c])
             PROVE  Message'[e] = Message[e]
  OBVIOUS
<1>1. e \in Waiter /\ e.t \in Tasks /\ MsgOf(e) \in Msgs /\ Sends(e.t, c, MsgOf(e))
  <2>1. e \in Waiter /\ Message[e] = MsgOf(e) /\ Sends(e.t, c, MsgOf(e)) /\ Into(Message, senders[c], Msgs)
    BY WaitingIs
  <2> QED BY <2>1 DEF Into, Waiter
<1>2. stack'[e.t] = stack[e.t]
  BY <1>1
<1>3. MsgOf(e)' = MsgOf(e)
  BY <1>2 DEF MsgOf
<1> QED BY <1>1, <1>3 DEF Message

AllMapped == \A c \in Chans : Waiting(c) = Mapped(senders[c], Message)
(* The same in a form that holds after a step too.                          *)
LEMMA WaitingMapped == SendersOK => AllMapped
BY WaitingIs DEF AllMapped

(* The senders of a channel stay.                                           *)
LEMMA WaitingStays ==
    ASSUME SendersOK, SendersOK', NEW c \in Chans, senders'[c] = senders[c],
           \A e \in ToSet(senders[c]) : Message'[e] = Message[e]
    PROVE  Waiting(c)' = Waiting(c)
<1>1. Waiting(c) = Mapped(senders[c], Message)
  BY WaitingIs
<1>2. SendersOK' => AllMapped'
  BY WaitingMapped, PTL
<1>3. Waiting(c)' = Mapped(senders'[c], Message')
  BY <1>2 DEF AllMapped
<1>4. Mapped(senders[c], Message') = Mapped(senders[c], Message)
  BY MappedSame
<1> QED BY <1>1, <1>3, <1>4

(* A running fiber that does not wait has been handed nothing.              *)
Awake == ~Waits(stack[fiber])
NoneInFlight == \A c \in Chans : InFlight(c) = <<>>
(* Nothing is in flight then.                                               *)
LEMMA AwakeFlight == Control /\ Awake => NoneInFlight
<1> SUFFICES ASSUME Control, ~Waits(stack[fiber]) PROVE \A c \in Chans : InFlight(c) = <<>>
  BY DEF Awake, NoneInFlight
<1>1. fiber \in Tasks => OfTask(stack[fiber]) /\ GoesOn(stack[fiber])
  BY DEF Control, StacksOK, FibersOK, GoesOn
<1>2. \A c : FlightOf(fiber, stack[fiber], op[fiber], c) = <<>>
  BY <1>1, NoFlight
<1> QED BY <1>2, FlightIs

(* The queues stay, or that of one channel changes.                         *)
LEMMA QueuesSame ==
    ASSUME Control, Control', NoneInFlight, NoneInFlight', UNCHANGED <<buffer, senders>>,
           \A c \in Chans : \A e \in ToSet(senders[c]) : Message'[e] = Message[e]
    PROVE  Queue' = Queue
<1>1. \A c \in Chans : Waiting(c)' = Waiting(c)
  BY WaitingStays DEF Control
<1>2. \A c \in Chans : Contents(c)' = Contents(c) /\ InFlight(c)' = InFlight(c)
  BY DEF Contents, NoneInFlight
<1>3. \A c \in Chans : (InFlight(c) \o Contents(c) \o Waiting(c))' = InFlight(c) \o Contents(c) \o Waiting(c)
  BY <1>1, <1>2
<1> QED BY <1>3 DEF Queue

(* The queues stay when only a task that does not send changes its stack.   *)
LEMMA QueuesStay ==
    ASSUME Control, Control', NoneInFlight, NoneInFlight',
           UNCHANGED <<buffer, senders>>, NEW t, \A c \in Chans, m \in Msgs : ~Sends(t, c, m),
           \A f \in Tasks : f # t => stack'[f] = stack[f]
    PROVE  Queue' = Queue
<1>1. \A c \in Chans : \A e \in ToSet(senders[c]) : Message'[e] = Message[e]
  BY MessagesSame DEF Control
<1> QED BY <1>1, QueuesSame

(* The queue of one channel changes.                                        *)
LEMMA QueueChanges ==
    ASSUME NEW c \in Chans, NEW s, s = (InFlight(c)' \o ContentsOf(buffer'[c])) \o Waiting(c)',
           \A d \in Chans : d # c => /\ InFlight(d)' = InFlight(d) /\ Waiting(d)' = Waiting(d)
                                     /\ buffer'[d] = buffer[d]
    PROVE  Queue' = Changed(Queue, c, s)
<1>1. \A d \in Chans : d # c => (InFlight(d) \o Contents(d) \o Waiting(d))' = InFlight(d) \o Contents(d) \o Waiting(d)
  BY DEF Contents
<1>2. (InFlight(c) \o Contents(c) \o Waiting(c))' = s
  BY DEF Contents, ContentsOf
<1> QED BY <1>1, <1>2 DEF Queue, Changed

-------------------------------------------------------------------------------
(* A message is offered to one channel.                                     *)
LEMMA OfferStep ==
    ASSUME Placed(Queue, got), NEW c \in Chans, NEW m \in Msgs, Nowhere(m, Queue, got), state[c] = "open",
           Queue' = Changed(Queue, c, Append(Queue[c], m)), UNCHANGED <<got, state>>,
           Sent' = Sent \/ Sent' = Sent \cup {m}
    PROVE  Promise!Next
<1>1. {c} \in SUBSET Chans /\ {c} # {}
  OBVIOUS
<1>2. Closed' = Closed /\ {c} \cap Closed = {}
  BY DEF Closed
<1>3. m \notin (UNION {ToSet(Queue[d]) : d \in Chans}) \cup (UNION {ToSet(got[d]) : d \in Chans})
  BY DEF Nowhere
<1>4. Queue' = [d \in Chans |-> IF d \in {c} THEN Append(Queue[d], m) ELSE Queue[d]]
  BY DEF Changed, Placed
<1>5. Promise!Offer(m, {c})
  BY <1>1, <1>2, <1>3, <1>4 DEF Promise!Offer, Promise!Offered, Promise!Received, Promise!ToSet, ToSet
<1> QED BY <1>1, <1>5 DEF Promise!Next

(* The first message of a channel is received.                              *)
LEMMA TakeStep ==
    ASSUME Placed(Queue, got), NEW c \in Chans, Queue[c] # <<>>,
           Queue' = Changed(Queue, c, Tail(Queue[c])), got' = Changed(got, c, Append(got[c], Head(Queue[c]))),
           UNCHANGED <<state, Sent>>
    PROVE  Promise!Next
<1>1. Closed' = Closed
  BY DEF Closed
<1>2. Head(Queue[c]) \in ToSet(Queue[c])
  BY OnceTail DEF Placed
<1>3. Head(Queue[c]) \notin UNION {ToSet(got[d]) : d \in Chans}
  BY <1>2 DEF Placed
<1>4. /\ Queue' = [Queue EXCEPT ![c] = Tail(@)]
      /\ got' = [got EXCEPT ![c] = Append(@, Head(Queue[c]))]
  BY DEF Changed, Placed
<1>5. Promise!Take(c)
  BY <1>1, <1>3, <1>4 DEF Promise!Take, Promise!Received, Promise!ToSet, ToSet
<1> QED BY <1>5 DEF Promise!Next

(* A message is taken back from one channel.                                *)
LEMMA WithdrawStep ==
    ASSUME Placed(Queue, got), NEW c \in Chans, NEW m \in Msgs, result[m] # "sent",
           Queue' = Changed(Queue, c, RemoveFirst(Queue[c], m)), UNCHANGED <<got, state, Sent>>
    PROVE  Promise!Next
<1>1. {c} \in SUBSET Chans
  OBVIOUS
<1>2. Closed' = Closed /\ m \notin Sent
  BY DEF Closed, Sent
<1>3. \A s : Promise!RemoveFirst(s, m) = RemoveFirst(s, m)
  BY DEF Promise!RemoveFirst, RemoveFirst, Promise!RemoveAt, RemoveAt, Promise!SelectInSeq, SelectInSeq, Promise!Min, Min
<1>4. Queue' = [d \in Chans |-> IF d \in {c} THEN Promise!RemoveFirst(Queue[d], m) ELSE Queue[d]]
  BY <1>3 DEF Changed, Placed
<1>5. Promise!Withdraw(m, {c})
  BY <1>2, <1>4 DEF Promise!Withdraw
<1> QED BY <1>1, <1>5 DEF Promise!Next

(* A sender is told that it succeeded.                                      *)
LEMMA AcceptStep ==
    ASSUME Placed(Queue, got), NEW m \in Msgs, UNCHANGED <<Queue, got, state>>, Sent' = Sent \cup {m},
           NoneClosed => ~Nowhere(m, Queue, got)
    PROVE  Promise!Next
<1>1. {} \in SUBSET Chans
  OBVIOUS
<1>2. Closed' = Closed
  BY DEF Closed
<1>3. Queue' = [d \in Chans |-> IF d \in {} THEN RemoveFirst(Queue[d], m) ELSE Queue[d]]
  BY DEF Placed
<1>4. m \in (UNION {ToSet(Queue'[d]) : d \in Chans}) \cup (UNION {ToSet(got[d]) : d \in Chans}) \/ Closed # {}
  <2>1. CASE NoneClosed
    BY <2>1 DEF Nowhere
  <2>2. CASE ~NoneClosed
    BY <2>2 DEF NoneClosed, Closed
  <2> QED BY <2>1, <2>2
<1>5. Promise!Accept(m, {})
  BY <1>2, <1>3, <1>4 DEF Promise!Accept, Promise!Offered, Promise!Received, Promise!RemoveFirst, Promise!ToSet, RemoveFirst, ToSet
<1> QED BY <1>1, <1>5 DEF Promise!Next

(* A channel is closed.                                                     *)
LEMMA CloseStep ==
    ASSUME NEW c \in Chans, UNCHANGED <<Queue, got, Sent>>, Closed' = Closed \cup {c}
    PROVE  Promise!Next
<1>1. Promise!Close(c)
  BY DEF Promise!Close
<1> QED BY <1>1 DEF Promise!Next

(* Nothing happens to the abstract channels.                                *)
LEMMA StandStep ==
    ASSUME UNCHANGED <<Queue, got, Sent, state>>
    PROVE  UNCHANGED Promise!vars
BY DEF Promise!vars, Closed

-------------------------------------------------------------------------------
(* Steps of the channels.                                                   *)
Carries == Messages' /\ [Promise!Next]_(Promise!vars)

(* What the sender of message m has been told, after a step.                *)
ToldOf(m) ==
    \/ result'[m] = result[m] /\ (Nowhere(m, Queue', got') <=> Nowhere(m, Queue, got))
    \/ result'[m] # "sent" /\ Nowhere(m, Queue', got')
    \/ result'[m] = "waiting"
    \/ result'[m] = "sent" /\ (NoneClosed' => ~Nowhere(m, Queue', got'))
(* The senders have been told the truth then.                               *)
LEMMA ToldAgain ==
    ASSUME Told, NoneClosed' => NoneClosed, \A m \in Msgs : ToldOf(m)
    PROVE  Told'
<1> SUFFICES ASSUME NEW m \in Msgs
             PROVE  /\ result'[m] \in {"new", "failed"} => Nowhere(m, Queue', got')
                    /\ NoneClosed' => (result'[m] = "sent" => ~Nowhere(m, Queue', got'))
  BY DEF Told
<1>1. ToldOf(m)
  OBVIOUS
<1> QED BY <1>1 DEF Told, ToldOf

(* A running fiber that does not wait is told nothing.                      *)
LEMMA AwakeTells == Awake => Tells
BY AwakeFacts DEF Awake, Tells

(* The messages stay where they are.                                        *)
LEMMA QuietCarries ==
    ASSUME Messages, Tells', UNCHANGED <<Queue, got, state>>,
           \A m \in Msgs : \/ result'[m] = result[m]
                           \/ result'[m] # "sent" /\ result[m] # "sent" /\ Nowhere(m, Queue, got)
    PROVE  Carries
<1>1. NoneClosed' = NoneClosed
  BY DEF NoneClosed
<1>2. \A m \in Msgs : ToldOf(m)
  BY DEF ToldOf
<1>3. Told'
  BY <1>1, <1>2, ToldAgain DEF Messages
<1>4. Sent' = Sent
  BY DEF Sent
<1>5. UNCHANGED Promise!vars
  BY <1>4, StandStep
<1> QED BY <1>3, <1>5 DEF Carries, Messages

(* Neither before nor after the step is anybody running who waited.         *)
LEMMA AwakeCarries ==
    ASSUME Control, Control', Messages, Awake, Awake', UNCHANGED <<buffer, senders, state, got>>,
           NEW t, ~Waits(stack[t]), \A f \in Tasks : f # t => stack'[f] = stack[f],
           \A m \in Msgs : result'[m] = result[m] \/ (result'[m] = "failed" /\ result[m] = "new")
    PROVE  Carries
<1>1. NoneInFlight
  BY AwakeFlight
<1>2. Control' /\ Awake' => NoneInFlight'
  BY AwakeFlight, PTL
<1>3. Awake' => Tells'
  BY AwakeTells, PTL
<1>4. \A c \in Chans, m \in Msgs : ~Sends(t, c, m)
  BY AwakeFacts
<1>5. Queue' = Queue
  BY <1>1, <1>2, <1>4, QueuesStay
<1>6. \A m \in Msgs : result[m] = "new" => Nowhere(m, Queue, got)
  BY DEF Messages, Told
<1> QED BY <1>3, <1>5, <1>6, QuietCarries

(* Somebody else is resumed, who has been handed nothing.                   *)
LEMMA WakeCarries ==
    ASSUME Control, Control', Messages, Awake, NoneInFlight', Tells',
           UNCHANGED <<buffer, senders, state, got, result>>,
           \A f \in Tasks : stack'[f] = stack[f]
    PROVE  Carries
<1>1. NoneInFlight
  BY AwakeFlight
<1>2. \A c \in Chans, m \in Msgs : ~Sends(fiber, c, m)
  BY AwakeFacts DEF Awake
<1>3. Queue' = Queue
  BY <1>1, <1>2, QueuesStay
<1> QED BY <1>3, QuietCarries

(* Channel::send on a closed channel.                                       *)
LEMMA SendClosedCarries ==
    ASSUME Control, Control', Messages, NEW c \in Chans, NEW m \in Msgs, Send(c, m), SendClosed(c, m)
    PROVE  Carries
<1>1. /\ InCode /\ result[m] = "new" /\ result' = [result EXCEPT ![m] = "failed"]
      /\ UNCHANGED <<fiber, stack, chanVars, got>>
  BY DEF Send, SendClosed
<1>2. Awake /\ Awake'
  BY <1>1, CodeFacts DEF Awake
<1>3. \A n \in Msgs : result'[n] = result[n] \/ (result'[n] = "failed" /\ result[n] = "new")
  BY <1>1 DEF Control, RestOK
<1> QED BY <1>1, <1>2, <1>3, AwakeCarries DEF Awake, chanVars

(* A task returns.                                                          *)
LEMMA ReturnCarries ==
    ASSUME Control, Control', Messages, Return
    PROVE  Carries
<1>1. /\ InCode /\ Goto(<<Over>>) /\ Suspend /\ UNCHANGED <<chanVars, history>>
  BY DEF Return
<1>2. Awake /\ fiber \in Tasks
  BY <1>1, CodeFacts DEF Awake
<1>3. \A f \in Tasks \cup {Runner} : f # fiber => stack'[f] = stack[f]
  BY <1>1 DEF Goto, Control, StacksOK
<1>4. stack'[fiber] = <<Over>>
  BY <1>1, <1>2 DEF Goto, Control, StacksOK
<1>5. ~GoesOn(stack'[fiber]) /\ stack[Runner] = <<Loop>>
  BY <1>4 DEF GoesOn, Control, StacksOK
<1>6. fiber' # fiber /\ GoesOn(stack[fiber']) /\ FibersOK'
  BY <1>1, <1>2, <1>3, <1>5, FiberSuspends DEF Control
<1>7. Awake'
  BY <1>3, <1>6 DEF Awake, FibersOK, Parked, GoesOn
<1> QED BY <1>1, <1>2, <1>3, <1>7, AwakeCarries DEF Awake, chanVars, history

(* A task begins.                                                           *)
LEMMA StartCarries ==
    ASSUME Control, Control', Messages, NEW t \in Tasks, Start(t)
    PROVE  Carries
<1>1. /\ InLoop /\ stack[t] = <<>> /\ stack' = [stack EXCEPT ![t] = <<Code>>] /\ Switch(t)
      /\ UNCHANGED <<chanVars, history>>
  BY DEF Start
<1>2. Awake /\ ~Waits(stack[t])
  BY <1>1, Executing, WaitFacts DEF Awake, Control
<1>3. stack'[t] = <<Code>> /\ \A f \in Tasks : f # t => stack'[f] = stack[f]
  BY <1>1 DEF Control, StacksOK
<1>4. Awake'
  BY <1>1, <1>3, WaitFacts DEF Awake, Switch
<1> QED BY <1>1, <1>2, <1>3, <1>4, AwakeCarries DEF chanVars, history

(* The running task goes on in its code or with another call.               *)
LEMMA GoesCarries ==
    ASSUME Control, Control', Messages, fiber \in Tasks, Awake, NEW s, Goto(s), GoesOn(s),
           UNCHANGED <<fiber, buffer, senders, state, history>>
    PROVE  Carries
<1>1. stack'[fiber] = s /\ \A f \in Tasks : f # fiber => stack'[f] = stack[f]
  BY DEF Goto, Control, StacksOK
<1>2. Awake'
  BY <1>1 DEF Awake, GoesOn
<1> QED BY <1>1, <1>2, AwakeCarries DEF Awake, history

(* fetch_next_entry, after fetch_noblock.                                   *)
LEMMA ResumeFetchedCarries ==
    ASSUME Control, Control', Messages, ResumeFetched
    PROVE  Carries
<1>1. Top.k = "fetched" /\ Goto(Rest) /\ UNCHANGED <<fiber, chanVars, history>>
  BY DEF ResumeFetched
<1>2. fiber \in Tasks /\ Awake /\ Rest = <<Code>>
  BY <1>1, CallFacts DEF Awake
<1> QED BY <1>1, <1>2, WaitFacts, GoesCarries DEF chanVars

(* The loop of dispose_state over the receivers.                            *)
LEMMA FailReceiversCarries ==
    ASSUME Control, UNCHANGED scene, Control', Messages, FailReceivers
    PROVE  Carries
<1> PICK c : c = Top.x
  OBVIOUS
<1>1. /\ Top.k = "close"
      /\ UNCHANGED <<buffer, senders, state, entry, pos, group, timer, cancelled, history>>
  BY DEF FailReceivers
<1>2. /\ fiber \in Tasks /\ stack[fiber] = Within(Closing(c)) /\ Rest = <<Code>> /\ c \in Chans
      /\ GoesOn(stack[fiber]) /\ ~Waits(stack[fiber]) /\ OfTask(stack[fiber])
  BY <1>1, CallFacts
<1>3. CASE receivers[c] = <<>>
  <2>1. Goto(<<Flushing(c)>> \o Rest) /\ UNCHANGED fiber
    BY <1>3 DEF FailReceivers
  <2>2. Flushing(c) \in Calls /\ Flushing(c).k = "flush"
    BY <1>2, CallsNamed, FrameKinds
  <2>3. GoesOn(<<Flushing(c)>> \o Rest)
    BY <1>2, <2>2, StackFacts, WaitFacts
  <2> QED BY <1>1, <1>2, <2>1, <2>3, GoesCarries DEF Awake
<1>4. CASE receivers[c] # <<>>
  <2>1. state[c] # "open"
    BY <1>2 DEF Control, StatesOK
  <2>2. /\ receivers' = [receivers EXCEPT ![c] = Tail(@)]
        /\ SettleReceiver(c, Head(receivers[c]), Outcome(c), None, stack[fiber])
    BY <1>4 DEF FailReceivers
  <2>3. /\ fiber' = Head(receivers[c]).t /\ op'[fiber'].value = None
        /\ \A f \in Tasks \cup {Runner} : stack'[f] = stack[f]
    BY <1>1, <1>2, <1>4, <2>1, <2>2, ReceiverFails
  <2>4. NoneInFlight'
    <3>1. \A d : FlightOf(fiber', stack'[fiber'], op'[fiber'], d) = <<>>
      BY <2>3, NoFlight
    <3> QED BY <3>1, FlightIs DEF NoneInFlight
  <2>5. Tells'
    <3> PICK r : r = Head(receivers[c])
      OBVIOUS
    <3>1. r.t \in Tasks /\ r.i \in AllIterators /\ stack[r.t] = Within(InNext(r.i))
      BY <1>2, <1>4, FirstReceiver DEF Control, Tasking, Nexts
    <3>2. stack'[fiber'] = Within(InNext(r.i))
      BY <2>3, <3>1
    <3>3. \A d, m : Within(InNext(r.i)) # Within(InSend(d, m))
      BY NextNoSend
    <3> QED BY <3>2, <3>3 DEF Tells, Sends
  <2> QED BY <1>1, <1>2, <2>3, <2>4, <2>5, WakeCarries DEF Awake, history
<1> QED BY <1>3, <1>4

(* Channel::close.                                                          *)
LEMMA CloseCarries ==
    ASSUME Control, Control', Messages, NEW c \in Chans, NEW how, Close(c, how)
    PROVE  Carries
<1>1. /\ InCode /\ state[c] = "open" /\ how \in {"closed", "error"} /\ state' = [state EXCEPT ![c] = how]
      /\ Goto(<<Closing(c)>> \o stack[fiber]) /\ UNCHANGED <<fiber, buffer, senders, history>>
  BY DEF Close
<1>2. fiber \in Tasks /\ Awake /\ stack[fiber] = <<Code>>
  BY <1>1, CodeFacts DEF Awake
<1>3. stack'[fiber] = Within(Closing(c)) /\ \A f \in Tasks : f # fiber => stack'[f] = stack[f]
  BY <1>1, <1>2, StackFacts DEF Goto, Control, StacksOK
<1>4. Awake'
  <2>1. Closing(c) \in Calls /\ Closing(c).k = "close"
    BY CallsNamed, FrameKinds
  <2> QED BY <1>1, <1>3, <2>1, WaitFacts DEF Awake
<1>5. NoneInFlight
  BY <1>2, AwakeFlight
<1>6. Control' /\ Awake' => NoneInFlight'
  BY AwakeFlight, PTL
<1>7. Awake' => Tells'
  BY AwakeTells, PTL
<1>8. Queue' = Queue
  <2>1. \A d \in Chans, m \in Msgs : ~Sends(fiber, d, m)
    BY <1>2, AwakeFacts DEF Awake
  <2> QED BY <1>1, <1>3, <1>4, <1>5, <1>6, <2>1, QueuesStay
<1>9. /\ \A d \in Chans : d # c => state'[d] = state[d]
      /\ state'[c] = how
  BY <1>1 DEF Control, StatesOK
<1>10. NoneClosed' => NoneClosed
  BY <1>1, <1>9 DEF NoneClosed
<1>11. \A m \in Msgs : ToldOf(m)
  BY <1>1, <1>8 DEF ToldOf, history
<1>12. Told'
  BY <1>10, <1>11, ToldAgain DEF Messages
<1>13. Closed' = Closed \cup {c} /\ Sent' = Sent
  BY <1>1, <1>9 DEF Closed, Sent, history
<1>14. Promise!Next
  BY <1>1, <1>8, <1>13, CloseStep DEF history
<1> QED BY <1>1, <1>4, <1>7, <1>8, <1>12, <1>14 DEF Carries, Messages, history

(* The context of a task is cancelled.                                      *)
LEMMA CancelCarries ==
    ASSUME Control, Control', Messages, NEW t \in Tasks, Cancel(t)
    PROVE  Carries
<1>1. (InLoop \/ InCode) /\ UNCHANGED <<chanVars, history>>
  BY DEF Cancel
<1>2. Awake /\ (fiber \in Tasks => op[fiber] = Idle)
  <2>1. CASE InLoop
    BY <2>1, Executing, WaitFacts DEF Control, Awake
  <2>2. CASE InCode
    BY <2>2, CodeFacts DEF Awake
  <2> QED BY <1>1, <2>1, <2>2
<1>3. CASE op[t].status # "RUNNING"
  <2>1. UNCHANGED <<fiber, stack>>
    BY <1>3 DEF Cancel
  <2> QED BY <1>1, <1>2, <2>1, AwakeCarries DEF Awake, chanVars, history
<1>4. CASE op[t].status = "RUNNING"
  <2>1. op' = [op EXCEPT ![t] = [op[t] EXCEPT !.status = "FAILED"]] /\ Goto(stack[fiber]) /\ Switch(t)
    BY <1>4 DEF Cancel, Settle
  <2>2. t # fiber /\ op[t] = Running
    BY <1>2, <1>4 DEF Control, OpsOK, Idle
  <2>3. fiber' = t /\ op'[fiber'].status = "FAILED" /\ op'[fiber'].value = None
    BY <2>1, <2>2 DEF Switch, Control, OpsOK, Running, Idle
  <2>4. \A f \in Tasks : stack'[f] = stack[f]
    BY <2>1 DEF Goto, Control, StacksOK
  <2>5. NoneInFlight'
    <3>1. \A d : FlightOf(fiber', stack'[fiber'], op'[fiber'], d) = <<>>
      BY <2>3, NoFlight
    <3> QED BY <3>1, FlightIs DEF NoneInFlight
  <2>6. Tells'
    <3>1. \A c \in Chans, m \in Msgs : Sends(t, c, m) => SenderEntry(t) \in ToSet(senders[c])
      BY <2>2 DEF Control, SendersOK, SenderEntry
    <3>2. \A c \in Chans, m \in Msgs : stack'[fiber'] = Within(InSend(c, m)) => SenderEntry(fiber') \in ToSet(senders'[c])
      BY <1>1, <2>3, <2>4, <3>1 DEF Sends, chanVars
    <3> QED BY <2>3, <3>2 DEF Tells, Sends, SenderEntry
  <2> QED BY <1>1, <1>2, <2>4, <2>5, <2>6, WakeCarries DEF chanVars, history
<1> QED BY <1>3, <1>4

(* One of the senders of a channel leaves with its message.                 *)
LEMMA QueueLeft ==
    ASSUME Control, Control', Placed(Queue, got), NoneInFlight, NoneInFlight', NEW c \in Chans,
           NEW e \in ToSet(senders[c]), senders' = [senders EXCEPT ![c] = RemoveFirst(@, e)], buffer' = buffer,
           \A d \in Chans : \A x \in ToSet(senders'[d]) : Message'[x] = Message[x]
    PROVE  /\ MsgOf(e) \in Msgs /\ MsgOf(e) \in ToSet(Queue[c]) /\ result[MsgOf(e)] = "waiting"
           /\ Queue' = Changed(Queue, c, RemoveFirst(Queue[c], MsgOf(e)))
<1> PICK s : s = senders[c]
  OBVIOUS
<1>1. /\ s \in Seq(Waiter) /\ Single(s, Waiter) /\ e \in Waiter /\ e \in ToSet(s)
      /\ Into(Message, s, Msgs) /\ Apart(Message, s) /\ Message[e] = MsgOf(e) /\ Sends(e.t, c, MsgOf(e))
      /\ Waiting(c) = Mapped(s, Message)
  BY WaitingIs DEF Control, SendersOK
<1> PICK m : m = MsgOf(e)
  OBVIOUS
<1>2. m \in Msgs /\ e.t \in Tasks /\ Sends(e.t, c, m)
  BY <1>1 DEF Into, Waiter
<1>3. result[m] = "waiting"
  BY <1>2 DEF Control, SendersOK
<1>4. \A d \in Chans : senders'[d] = IF d = c THEN RemoveFirst(s, e) ELSE senders[d]
  BY DEF Control, SendersOK
<1>5. SendersOK' => AllMapped'
  BY WaitingMapped, PTL
<1>6. \A d \in Chans : Waiting(d)' = Mapped(senders'[d], Message)
  <2> SUFFICES ASSUME NEW d \in Chans PROVE Waiting(d)' = Mapped(senders'[d], Message)
    OBVIOUS
  <2>1. Waiting(d)' = Mapped(senders'[d], Message')
    BY <1>5 DEF AllMapped, Control
  <2>2. Mapped(senders'[d], Message') = Mapped(senders'[d], Message)
    BY MappedSame
  <2> QED BY <2>1, <2>2
<1> PICK w : w = Waiting(c)
  OBVIOUS
<1>7. Waiting(c)' = RemoveFirst(w, m)
  BY <1>1, <1>4, <1>6, MappedRemove
<1>8. \A d \in Chans : d # c => Waiting(d)' = Waiting(d)
  BY <1>4, <1>6, WaitingIs DEF Control
<1> PICK a : a = InFlight(c) \o ContentsOf(buffer[c])
  OBVIOUS
<1>9. Queue[c] = a \o w /\ a \in Seq(Msgs) /\ w \in Seq(Msgs) /\ Single(Queue[c], Msgs)
  <2>1. Queue[c] = a \o w /\ InFlight(c) \in Seq(Msgs) /\ ContentsOf(buffer[c]) \in Seq(Msgs) /\ w \in Seq(Msgs)
    BY QueueIs
  <2>2. a \in Seq(Msgs)
    BY <2>1, ConcatProperties
  <2> QED BY <2>1, <2>2 DEF Placed
<1>10. Single(w, Msgs) /\ m \in ToSet(w)
  <2>1. Single(w, Msgs)
    BY <1>1, MappedSingle
  <2>2. m \in ToSet(w)
    BY <1>1, MappedElements
  <2> QED BY <2>1, <2>2
<1>11. PICK n \in 1 .. Len(w) : w[n] = m
  BY <1>9, <1>10 DEF ToSet
<1>12. RemoveFirst(a \o w, m) = a \o RemoveFirst(w, m)
  <2>1. Single(a \o w, Msgs)
    BY <1>9
  <2>2. RemoveFirst(a \o w, w[n]) = a \o RemoveFirst(w, w[n])
    <3>1. \A x, y \in Seq(Msgs) : Single(x \o y, Msgs) /\ Single(y, Msgs) =>
            \A k \in 1 .. Len(y) : RemoveFirst(x \o y, y[k]) = x \o RemoveFirst(y, y[k])
      BY RemoveLater
    <3>2. a \in Seq(Msgs) /\ w \in Seq(Msgs) /\ Single(w, Msgs) /\ n \in 1 .. Len(w)
      BY <1>9, <1>10, <1>11
    <3> QED BY <2>1, <3>1, <3>2
  <2> QED BY <1>11, <2>2
<1>13. Queue' = Changed(Queue, c, RemoveFirst(Queue[c], m))
  <2>1. RemoveFirst(Queue[c], m) = (InFlight(c)' \o ContentsOf(buffer'[c])) \o Waiting(c)'
    BY <1>7, <1>9, <1>12 DEF NoneInFlight
  <2>2. \A d \in Chans : d # c => /\ InFlight(d)' = InFlight(d) /\ Waiting(d)' = Waiting(d)
                                  /\ buffer'[d] = buffer[d]
    BY <1>8 DEF NoneInFlight
  <2> QED BY <2>1, <2>2, QueueChanges
<1>14. m \in ToSet(Queue[c])
  <2>1. a \in Seq(Msgs) /\ w \in Seq(Msgs)
    BY <1>9
  <2>2. ToSet(a \o w) = ToSet(a) \cup ToSet(w)
    <3>1. \A x, y \in Seq(Msgs) : ToSet(x \o y) = ToSet(x) \cup ToSet(y)
      BY ConcatElements
    <3> QED BY <2>1, <3>1
  <2> QED BY <1>9, <1>10, <2>2
<1> QED BY <1>2, <1>3, <1>13, <1>14

(* Its message is nowhere then.                                             *)
LEMMA LeftCarries ==
    ASSUME Messages, UNCHANGED <<got, state>>, NEW c \in Chans, NEW m \in Msgs, m \in ToSet(Queue[c]),
           Queue' = Changed(Queue, c, RemoveFirst(Queue[c], m)), result[m] = "waiting", result'[m] \in {"waiting", "failed"},
           \A n \in Msgs : n # m => result'[n] = result[n],
           Nowhere(m, Queue', got) => Tells'
    PROVE  Carries
<1>1. /\ Placed(Queue', got) /\ Nowhere(m, Queue', got)
      /\ \A n : n # m => (Nowhere(n, Queue', got) <=> Nowhere(n, Queue, got))
  BY WithdrawPlaces DEF Messages
<1>2. NoneClosed' = NoneClosed
  BY DEF NoneClosed
<1>3. \A n \in Msgs : ToldOf(n)
  BY <1>1 DEF ToldOf
<1>4. Told'
  BY <1>2, <1>3, ToldAgain DEF Messages
<1>5. Sent' = Sent
  BY DEF Sent
<1>6. Promise!Next
  BY <1>5, WithdrawStep DEF Messages
<1> QED BY <1>1, <1>4, <1>6 DEF Carries, Messages

(* The loop of dispose_state over the senders.                              *)
LEMMA FailSendersCarries ==
    ASSUME Control, Control', Messages, FailSenders
    PROVE  Carries
<1> PICK c : c = Top.x
  OBVIOUS
<1>1. Top.k = "flush" /\ UNCHANGED <<buffer, receivers, state, cancelled, history>>
  BY DEF FailSenders
<1>2. /\ fiber \in Tasks /\ fiber # Runner /\ stack[fiber] = Within(Flushing(c)) /\ Rest = <<Code>> /\ c \in Chans
      /\ GoesOn(stack[fiber]) /\ Awake /\ ~Waits(stack[fiber]) /\ OfTask(stack[fiber]) /\ cancelled \subseteq Tasks
  BY <1>1, CallFacts DEF Awake
<1>3. CASE senders[c] = <<>>
  <2>1. Goto(<<Code>>) /\ UNCHANGED <<fiber, senders>>
    BY <1>2, <1>3 DEF FailSenders
  <2> QED BY <1>1, <1>2, <2>1, WaitFacts, GoesCarries
<1>4. CASE senders[c] # <<>>
  <2> PICK e : e = Head(senders[c])
    OBVIOUS
  <2> PICK s : s = stack[fiber]
    OBVIOUS
  <2> PICK m : m = MsgOf(e)
    OBVIOUS
  <2>1. senders' = [senders EXCEPT ![c] = Tail(@)] /\ SettleSender(c, e, Outcome(c), s)
    BY <1>4 DEF FailSenders
  <2>2. Outcome(c) \in {"RESOLVED", "FAILED"} /\ GoesOn(s) /\ OfTask(s) /\ StillWaiting
    BY <1>1, <1>2 DEF Outcome, StillWaiting, history
  <2>3. Tasking /\ SendersOK /\ cancelled' \subseteq Tasks
    BY <1>1, <1>2 DEF Control, Tasking
  <2>4. /\ fiber' = e.t /\ op'[e.t].status = Outcome(c)
        /\ stack'[fiber] = s /\ \A f \in Tasks \cup {Runner} : f # fiber => stack'[f] = stack[f]
    <3>1. CASE Outcome(c) = "RESOLVED"
      <4>1. SettleSender(c, e, "RESOLVED", s)
        BY <2>1, <3>1
      <4> QED BY <1>2, <1>4, <2>1, <2>2, <2>3, <3>1, <4>1, SenderWakes
    <3>2. CASE Outcome(c) = "FAILED"
      <4>1. SettleSender(c, e, "FAILED", s)
        BY <2>1, <3>2
      <4> QED BY <1>2, <1>4, <2>1, <2>2, <2>3, <3>2, <4>1, SenderWakes
    <3> QED BY <2>2, <3>1, <3>2
  <2>5. \A f \in Tasks : stack'[f] = stack[f]
    BY <2>4
  <2>6. e.t \in Tasks /\ m \in Msgs /\ Sends(e.t, c, m)
    BY <1>2, <1>4, <2>3, FirstSender
  <2>7. stack'[fiber'] = Within(InSend(c, m))
    BY <2>4, <2>5, <2>6 DEF Sends
  <2>8. /\ senders[c] \in Seq(Waiter) /\ Single(senders[c], Waiter)
        /\ e \in ToSet(senders[c]) /\ e \in Waiter /\ ToSet(Tail(senders[c])) = ToSet(senders[c]) \ {e}
        /\ RemoveFirst(senders[c], e) = Tail(senders[c])
    BY <1>2, <1>4, OnceTail, RemoveHead DEF Control, SendersOK
  <2>9. NoneInFlight
    BY <1>2, AwakeFlight
  <2>10. NoneInFlight'
    <3>1. \A d : FlightOf(fiber', stack'[fiber'], op'[fiber'], d) = <<>>
      BY <1>2, <2>6, <2>7, NoFlight
    <3> QED BY <3>1, FlightIs DEF NoneInFlight
  <2>11. \A d \in Chans : \A x \in ToSet(senders'[d]) : Message'[x] = Message[x]
    <3>1. \A d \in Chans, n \in Msgs : ~Sends(fiber, d, n)
      BY <1>2, AwakeFacts
    <3>2. \A d \in Chans : \A x \in ToSet(senders[d]) : Message'[x] = Message[x]
      BY <2>5, <3>1, MessagesSame DEF Control
    <3>3. \A d \in Chans : senders'[d] = IF d = c THEN Tail(senders[c]) ELSE senders[d]
      BY <2>1 DEF Control, SendersOK
    <3> QED BY <2>8, <3>2, <3>3
  <2>12. senders' = [senders EXCEPT ![c] = RemoveFirst(@, e)]
    BY <2>1, <2>8
  <2>13. /\ m \in ToSet(Queue[c]) /\ result[m] = "waiting"
         /\ Queue' = Changed(Queue, c, RemoveFirst(Queue[c], m))
    BY <1>1, <1>2, <2>8, <2>9, <2>10, <2>11, <2>12, QueueLeft DEF Messages
  <2>14. ASSUME Nowhere(m, Queue', got) PROVE Tells'
    <3>1. SUFFICES ASSUME NEW d \in Chans, NEW n \in Msgs, stack'[fiber'] = Within(InSend(d, n))
                   PROVE  IF op'[fiber'].status = "RESOLVED"
                          THEN SenderEntry(fiber)' \notin ToSet(senders'[d]) /\ ~NoneClosed'
                          ELSE Nowhere(n, Queue', got')
      BY DEF Tells, Sends
    <3>2. d = c /\ n = m
      BY <2>7, <3>1, StackFacts, FrameKinds
    <3>3. CASE Outcome(c) = "RESOLVED"
      <4>1. state[c] = "closed"
        BY <1>2, <3>3 DEF Outcome, Control, StatesOK
      <4>2. ~NoneClosed'
        BY <1>1, <1>2, <4>1 DEF NoneClosed
      <4>3. e.i = None
        BY <1>2, <2>8 DEF Control, SendersOK
      <4>4. SenderEntry(fiber)' = e
        BY <2>4, <2>8, <4>3 DEF SenderEntry, Waiter
      <4>5. senders'[c] = Tail(senders[c])
        BY <1>2, <2>1 DEF Control, SendersOK
      <4>6. op'[fiber'].status = "RESOLVED"
        BY <2>4, <3>3
      <4> QED BY <2>8, <3>2, <4>2, <4>4, <4>5, <4>6
    <3>4. CASE Outcome(c) = "FAILED"
      <4>1. op'[fiber'].status # "RESOLVED"
        BY <2>4, <3>4
      <4> QED BY <1>1, <2>14, <3>2, <4>1 DEF history
    <3> QED BY <2>2, <3>3, <3>4
  <2> QED BY <1>1, <1>2, <2>6, <2>13, <2>14, LeftCarries DEF history
<1> QED BY <1>3, <1>4

(* Channel::send, after the block.                                          *)
LEMMA ResumeSendCarries ==
    ASSUME Control, Control', Messages, ResumeSend
    PROVE  Carries
<1> PICK c : c = Top.x
  OBVIOUS
<1> PICK m : m = Top.m
  OBVIOUS
<1>0. Top.k = "send"
  BY DEF ResumeSend
<1>1. /\ fiber \in Tasks /\ fiber # Runner /\ stack[fiber] = Within(InSend(c, m)) /\ Rest = <<Code>>
      /\ c \in Chans /\ m \in Msgs
  BY <1>0, CallFacts
<1>2. /\ senders' = [senders EXCEPT ![c] = RemoveFirst(@, SenderEntry(fiber))]
      /\ result' = [result EXCEPT ![m] = IF op[fiber].status = "RESOLVED" THEN "sent" ELSE "failed"]
      /\ Goto(<<Code>>) /\ UNCHANGED <<fiber, buffer, state, got>>
  BY <1>1 DEF ResumeSend, Unlink, SenderEntry
<1> PICK p \in Tasks : p = fiber
  BY <1>1
<1> PICK e : e = SenderEntry(p)
  OBVIOUS
<1>3. Sends(p, c, m) /\ result[m] = "waiting"
  BY <1>1 DEF Sends, Control, SendersOK
<1>4. \A n \in Msgs : n # m => result'[n] = result[n]
  BY <1>2 DEF Control, RestOK
<1>5. result'[m] = IF op[fiber].status = "RESOLVED" THEN "sent" ELSE "failed"
  BY <1>1, <1>2 DEF Control, RestOK
<1>6. stack'[p] = <<Code>> /\ \A f \in Tasks : f # p => stack'[f] = stack[f]
  BY <1>2 DEF Goto, Control, StacksOK
<1>7. NoneInFlight
  <2>1. \A d : FlightOf(fiber, stack[fiber], op[fiber], d) = <<>>
    BY <1>1, NoFlight
  <2> QED BY <2>1, FlightIs DEF NoneInFlight
<1>8. Awake'
  BY <1>2, <1>6, WaitFacts DEF Awake
<1>9. NoneInFlight' /\ Tells'
  <2>1. Control' /\ Awake' => NoneInFlight'
    BY AwakeFlight, PTL
  <2>2. Awake' => Tells'
    BY AwakeTells, PTL
  <2> QED BY <1>8, <2>1, <2>2
<1>10. \A d \in Chans : \A x \in ToSet(senders[d]) : x.t = p => d = c /\ x = e
  <2> SUFFICES ASSUME NEW d \in Chans, NEW x \in ToSet(senders[d]), x.t = p PROVE d = c /\ x = e
    OBVIOUS
  <2>1. x \in Waiter /\ x.i = None /\ \E n \in Msgs : Sends(x.t, d, n)
    BY WaitingIs DEF Control, SendersOK
  <2>2. d = c
    BY <1>3, <2>1, StackFacts, FrameKinds DEF Sends
  <2> QED BY <2>1, <2>2 DEF SenderEntry, Waiter
<1>11. \A d \in Chans : \A x \in ToSet(senders[d]) : x # e => Message'[x] = Message[x]
  <2> SUFFICES ASSUME NEW d \in Chans, NEW x \in ToSet(senders[d]), x # e PROVE Message'[x] = Message[x]
    OBVIOUS
  <2>1. x \in Waiter /\ x.t \in Tasks /\ x.t # p
    BY <1>10, WaitingIs DEF Control, Waiter
  <2>2. MsgOf(x)' = MsgOf(x)
    BY <1>6, <2>1 DEF MsgOf
  <2> QED BY <2>1, <2>2 DEF Message
<1>12. senders[c] \in Seq(Waiter) /\ Single(senders[c], Waiter) /\ e \in Waiter
  BY <1>1 DEF Control, SendersOK, SenderEntry, Waiter
<1>13. CASE e \in ToSet(senders[c])
  <2>1. op[fiber].status # "RESOLVED"
    BY <1>1, <1>3, <1>13 DEF Messages, Tells
  <2>2. \A d \in Chans : \A x \in ToSet(senders'[d]) : Message'[x] = Message[x]
    <3>1. \A d \in Chans : senders'[d] = IF d = c THEN RemoveFirst(senders[c], e) ELSE senders[d]
      BY <1>2 DEF Control, SendersOK
    <3>2. ToSet(RemoveFirst(senders[c], e)) = ToSet(senders[c]) \ {e}
      BY <1>12, OnceRemove
    <3> QED BY <1>10, <1>11, <3>1, <3>2 DEF SenderEntry
  <2>3. MsgOf(e) = m
    BY <1>3, StackFacts, FrameKinds DEF MsgOf, Sends, SenderEntry
  <2>4. /\ m \in ToSet(Queue[c])
        /\ Queue' = Changed(Queue, c, RemoveFirst(Queue[c], m))
    BY <1>1, <1>2, <1>7, <1>9, <1>13, <2>2, <2>3, QueueLeft DEF Messages
  <2> QED BY <1>1, <1>2, <1>3, <1>4, <1>5, <1>9, <2>1, <2>4, LeftCarries
<1>14. CASE e \notin ToSet(senders[c])
  <2>1. senders' = senders
    <3>1. RemoveFirst(senders[c], e) = senders[c]
      BY <1>12, <1>14, RemoveNothing
    <3> QED BY <1>1, <1>2, <3>1 DEF Control, SendersOK
  <2>2. Queue' = Queue
    <3>1. \A d \in Chans : \A x \in ToSet(senders[d]) : x # e
      BY <1>10, <1>14 DEF SenderEntry
    <3>2. \A d \in Chans : \A x \in ToSet(senders[d]) : Message'[x] = Message[x]
      BY <1>11, <3>1
    <3> QED BY <1>2, <1>7, <1>9, <2>1, <3>2, QueuesSame
  <2>3. CASE op[fiber].status = "RESOLVED"
    <3>1. NoneClosed => ~Nowhere(m, Queue, got)
      BY <1>1, <1>3, <2>3 DEF Messages, Tells
    <3>2. NoneClosed' = NoneClosed
      BY <1>2 DEF NoneClosed
    <3>3. \A n \in Msgs : ToldOf(n)
      BY <1>2, <1>4, <1>5, <2>2, <2>3, <3>1, <3>2 DEF ToldOf
    <3>4. Told'
      BY <3>2, <3>3, ToldAgain DEF Messages
    <3>5. Sent' = Sent \cup {m}
      BY <1>1, <1>4, <1>5, <2>3 DEF Sent
    <3>6. Promise!Next
      BY <1>1, <1>2, <2>2, <3>1, <3>5, AcceptStep DEF Messages
    <3> QED BY <1>2, <1>9, <2>2, <3>4, <3>6 DEF Carries, Messages
  <2>4. CASE op[fiber].status # "RESOLVED"
    <3>1. Nowhere(m, Queue, got)
      BY <1>1, <1>3, <1>14, <2>4 DEF Messages, Tells
    <3>2. \A n \in Msgs : \/ result'[n] = result[n]
                          \/ result'[n] # "sent" /\ result[n] # "sent" /\ Nowhere(n, Queue, got)
      BY <1>3, <1>4, <1>5, <2>4, <3>1
    <3> QED BY <1>2, <1>9, <2>2, <3>2, QuietCarries
  <2> QED BY <2>3, <2>4
<1> QED BY <1>13, <1>14

(* A message is offered to a channel.                                       *)
LEMMA OfferCarries ==
    ASSUME Control, Messages, Tells', NEW c \in Chans, NEW m \in Msgs, result[m] = "new", state[c] = "open",
           Queue' = Changed(Queue, c, Append(Queue[c], m)), UNCHANGED <<got, state>>,
           \/ result' = [result EXCEPT ![m] = "sent"]
           \/ result' = [result EXCEPT ![m] = "waiting"]
    PROVE  Carries
<1>1. Nowhere(m, Queue, got)
  BY DEF Messages, Told
<1>2. /\ Placed(Queue', got) /\ ~Nowhere(m, Queue', got)
      /\ \A n : n # m => (Nowhere(n, Queue', got) <=> Nowhere(n, Queue, got))
  BY <1>1, OfferPlaces DEF Messages
<1>3. NoneClosed' = NoneClosed
  BY DEF NoneClosed
<1>4. result'[m] \in {"sent", "waiting"} /\ \A n \in Msgs : n # m => result'[n] = result[n]
  BY DEF Control, RestOK
<1>5. \A n \in Msgs : ToldOf(n)
  BY <1>2, <1>4 DEF ToldOf
<1>6. Told'
  BY <1>3, <1>5, ToldAgain DEF Messages
<1>7. Sent' = Sent \/ Sent' = Sent \cup {m}
  BY <1>4 DEF Sent
<1>8. Promise!Next
  BY <1>1, <1>7, OfferStep DEF Messages
<1> QED BY <1>2, <1>6, <1>8 DEF Carries, Messages

(* The message goes to the buffer.                                          *)
LEMMA StoreCarries ==
    ASSUME Control, Control', Messages, NEW c \in Chans, NEW m \in Msgs, Send(c, m), state[c] = "open", Store(c, m)
    PROVE  Carries
<1>1. /\ InCode /\ result[m] = "new" /\ buffer[c].len < buffer[c].size
      /\ buffer' = [buffer EXCEPT ![c] = Put(@, buffer[c].size, m)]
      /\ result' = [result EXCEPT ![m] = "sent"] /\ UNCHANGED <<fiber, stack, senders, state, got>>
  BY DEF Send, Store
<1>2. Awake /\ Awake'
  BY <1>1, CodeFacts DEF Awake
<1>3. NoneInFlight /\ NoneInFlight' /\ Tells'
  <2>1. Control' /\ Awake' => NoneInFlight'
    BY AwakeFlight, PTL
  <2>2. Awake' => Tells'
    BY AwakeTells, PTL
  <2> QED BY <1>2, <2>1, <2>2, AwakeFlight
<1>4. DOMAIN buffer = Chans /\ Ring(buffer[c]) /\ senders[c] = <<>>
  <2>1. buffer[c].len \in Nat /\ buffer[c].size \in Nat
    BY SizeType DEF Control, RingsOK, Ring
  <2> QED BY <1>1, <2>1 DEF Control, RingsOK
<1>5. buffer'[c] = Put(buffer[c], buffer[c].size, m) /\ \A d \in Chans : d # c => buffer'[d] = buffer[d]
  BY <1>1, <1>4
<1>6. ContentsOf(buffer'[c]) = Append(ContentsOf(buffer[c]), m)
  BY <1>1, <1>4, <1>5, PutRing
<1>7. \A d \in Chans : Waiting(d)' = Waiting(d)
  <2>1. \A d \in Chans, n \in Msgs : ~Sends(fiber, d, n)
    BY <1>2, AwakeFacts DEF Awake
  <2>2. \A d \in Chans : \A x \in ToSet(senders[d]) : Message'[x] = Message[x]
    BY <1>1, <2>1, MessagesSame DEF Control
  <2> QED BY <1>1, <2>2, WaitingStays DEF Control
<1> PICK b \in Seq(Msgs) : b = ContentsOf(buffer[c])
  BY QueueIs
<1>8. Queue[c] = (<<>> \o b) \o Waiting(c) /\ Waiting(c) = <<>> /\ b \in Seq(Msgs)
  <2>1. Waiting(c) = <<>>
    BY <1>4 DEF Waiting
  <2>2. Queue[c] = (InFlight(c) \o ContentsOf(buffer[c])) \o Waiting(c)
    BY QueueIs
  <2>3. InFlight(c) = <<>>
    BY <1>3 DEF NoneInFlight
  <2> QED BY <2>1, <2>2, <2>3
<1>9. Queue[c] = b
  <2>1. (<<>> \o b) \o <<>> = b
    BY <1>8
  <2> QED BY <1>8, <2>1
<1>10. Append(Queue[c], m) = (InFlight(c)' \o ContentsOf(buffer'[c])) \o Waiting(c)'
  <2>1. Append(b, m) \in Seq(Msgs)
    BY <1>8
  <2>2. (<<>> \o Append(b, m)) \o <<>> = Append(b, m)
    BY <2>1
  <2> QED BY <1>3, <1>6, <1>7, <1>8, <1>9, <2>2 DEF NoneInFlight
<1>11. Queue' = Changed(Queue, c, Append(Queue[c], m))
  <2>1. \A d \in Chans : d # c => /\ InFlight(d)' = InFlight(d) /\ Waiting(d)' = Waiting(d)
                                  /\ buffer'[d] = buffer[d]
    BY <1>3, <1>5, <1>7 DEF NoneInFlight
  <2> QED BY <1>10, <2>1, QueueChanges
<1> QED BY <1>1, <1>3, <1>11, OfferCarries

(* The message goes to the first receiver.                                  *)
LEMMA HandOverCarries ==
    ASSUME Control, Control', UNCHANGED scene, Messages,
           NEW c \in Chans, NEW m \in Msgs, Send(c, m), state[c] = "open", HandOver(c, m)
    PROVE  Carries
<1>1. /\ InCode /\ result[m] = "new" /\ receivers[c] # <<>>
      /\ result' = [result EXCEPT ![m] = "sent"] /\ UNCHANGED <<buffer, senders, state, got>>
  BY DEF Send, HandOver
<1>2. /\ fiber' = Head(receivers[c]).t /\ op'[fiber'].value = m
      /\ \A f \in Tasks \cup {Runner} : stack'[f] = stack[f]
  BY HandOverControl
<1>3. Awake
  BY <1>1, CodeFacts DEF Awake
<1> PICK r : r = Head(receivers[c])
  OBVIOUS
<1>4. r.t \in Tasks /\ r.i \in AllIterators /\ ChanOf[r.i] = c /\ stack[r.t] = Within(InNext(r.i))
  BY <1>1, <1>3, FirstReceiver DEF Control, Tasking, Nexts, Awake
<1>5. stack'[fiber'] = Within(InNext(r.i)) /\ fiber' \in Tasks
  BY <1>2, <1>4
<1>6. \A d : InFlight(d)' = IF d = c THEN <<m>> ELSE <<>>
  <2>1. m # None
    BY ChannelNames
  <2> SUFFICES ASSUME NEW d PROVE InFlight(d)' = IF d = c THEN <<m>> ELSE <<>>
    OBVIOUS
  <2>2. InFlight(d)' = FlightOf(fiber', Within(InNext(r.i)), op'[fiber'], d)
    BY <1>5, FlightIs
  <2>3. InFlight(d)' = IF op'[fiber'].value # None /\ ChanOf[r.i] = d THEN <<op'[fiber'].value>> ELSE <<>>
    BY <1>4, <1>5, <2>2, NextFlight
  <2> QED BY <1>2, <1>4, <2>1, <2>3
<1>7. Tells'
  <2>1. \A d, n : Within(InNext(r.i)) # Within(InSend(d, n))
    BY NextNoSend
  <2> QED BY <1>5, <2>1 DEF Tells, Sends
<1>8. NoneInFlight
  BY <1>3, AwakeFlight
<1>9. \A d \in Chans : Waiting(d)' = Waiting(d)
  <2>1. \A d \in Chans, n \in Msgs : ~Sends(fiber, d, n)
    BY <1>3, AwakeFacts DEF Awake
  <2>2. \A d \in Chans : \A x \in ToSet(senders[d]) : Message'[x] = Message[x]
    BY <1>2, <2>1, MessagesSame DEF Control
  <2> QED BY <1>1, <2>2, WaitingStays DEF Control
<1>10. buffer[c].len = 0 /\ senders[c] = <<>>
  BY <1>1 DEF Control, RingsOK, NobodyMissed
<1>11. ContentsOf(buffer[c]) = <<>> /\ Waiting(c) = <<>>
  <2>1. ContentsOf(buffer[c]) \in Seq(Msgs) /\ Len(ContentsOf(buffer[c])) = 0
    BY <1>10, QueueIs
  <2>2. Waiting(c) = <<>>
    BY <1>10 DEF Waiting
  <2> QED BY <2>1, <2>2
<1>12. Queue[c] = (<<>> \o <<>>) \o <<>>
  BY <1>8, <1>11, QueueIs DEF NoneInFlight
<1>13. (<<>> \o <<>>) \o <<>> = <<>> /\ (<<m>> \o <<>>) \o <<>> = <<m>> /\ Append(<<>>, m) = <<m>>
  OBVIOUS
<1>14. Append(Queue[c], m) = (InFlight(c)' \o ContentsOf(buffer'[c])) \o Waiting(c)'
  BY <1>1, <1>6, <1>9, <1>11, <1>12, <1>13
<1>15. Queue' = Changed(Queue, c, Append(Queue[c], m))
  <2>1. \A d \in Chans : d # c => /\ InFlight(d)' = InFlight(d) /\ Waiting(d)' = Waiting(d)
                                  /\ buffer'[d] = buffer[d]
    BY <1>1, <1>6, <1>8, <1>9 DEF NoneInFlight
  <2> QED BY <1>14, <2>1, QueueChanges
<1> QED BY <1>1, <1>7, <1>15, OfferCarries

(* The sender blocks, or fails since its context is cancelled.              *)
LEMMA SendBlockCarries ==
    ASSUME Control, Control', UNCHANGED scene, Messages,
           NEW c \in Chans, NEW m \in Msgs, Send(c, m), state[c] = "open", SendBlock(c, m)
    PROVE  Carries
<1>1. InCode /\ result[m] = "new" /\ UNCHANGED <<buffer, state, got>>
  BY DEF Send, SendBlock
<1>2. fiber \in Tasks /\ Awake
  BY <1>1, CodeFacts DEF Awake
<1>3. CASE Refused
  <2>1. result' = [result EXCEPT ![m] = "failed"] /\ UNCHANGED <<fiber, stack, senders>>
    BY <1>3 DEF SendBlock
  <2>2. \A n \in Msgs : result'[n] = result[n] \/ (result'[n] = "failed" /\ result[n] = "new")
    BY <1>1, <2>1 DEF Control, RestOK
  <2> QED BY <1>1, <1>2, <2>1, <2>2, AwakeCarries DEF Awake
<1>4. CASE ~Refused
  <2> PICK p \in Tasks : p = fiber
    BY <1>2
  <2> PICK e \in Waiter : e = [t |-> p, i |-> None]
    BY DEF Waiter
  <2>1. /\ result' = [result EXCEPT ![m] = "waiting"]
        /\ senders' = [senders EXCEPT ![c] = Append(@, e)]
    BY <1>4 DEF SendBlock, Enlist
  <2>2. /\ stack'[p] = Within(InSend(c, m)) /\ fiber' # p /\ GoesOn(stack[fiber'])
        /\ \A f \in Tasks \cup {Runner} : f # p => stack'[f] = stack[f]
    BY <1>4, SendBlockControl
  <2>3. Awake'
    BY <2>2 DEF Awake, Control, FibersOK, Parked, GoesOn
  <2>4. NoneInFlight /\ NoneInFlight' /\ Tells'
    <3>1. Control' /\ Awake' => NoneInFlight'
      BY AwakeFlight, PTL
    <3>2. Awake' => Tells'
      BY AwakeTells, PTL
    <3> QED BY <1>2, <2>3, <3>1, <3>2, AwakeFlight
  <2>5. \A d \in Chans : \A x \in ToSet(senders[d]) : Message'[x] = Message[x]
    <3>1. \A d \in Chans, n \in Msgs : ~Sends(p, d, n)
      BY <1>2, AwakeFacts DEF Awake
    <3> QED BY <2>2, <3>1, MessagesSame DEF Control
  <2>6. \A d \in Chans : senders'[d] = IF d = c THEN Append(senders[c], e) ELSE senders[d]
    BY <2>1 DEF Control, SendersOK
  <2>7. \A d \in Chans : d # c => Waiting(d)' = Waiting(d)
    BY <2>5, <2>6, WaitingStays DEF Control
  <2>8. Message'[e] = m
    BY <2>2, StackFacts, FrameKinds DEF Message, MsgOf
  <2> PICK w : w = Waiting(c)
    OBVIOUS
  <2>9. Waiting(c)' = Append(w, m)
    <3>1. SendersOK' => AllMapped'
      BY WaitingMapped, PTL
    <3>2. Waiting(c)' = Mapped(Append(senders[c], e), Message')
      BY <2>6, <3>1 DEF AllMapped, Control
    <3>3. w = Mapped(senders[c], Message) /\ senders[c] \in Seq(Waiter) /\ Into(Message, senders[c], Msgs)
      BY WaitingIs DEF Control, SendersOK
    <3>4. w = Mapped(senders[c], Message')
      BY <2>5, <3>3, MappedSame
    <3>5. Into(Message', senders[c], Msgs)
      BY <2>5, <3>3 DEF Into
    <3>6. Mapped(Append(senders[c], e), Message') = Append(Mapped(senders[c], Message'), Message'[e])
      BY <2>8, <3>3, <3>5, MappedAppend
    <3> QED BY <2>8, <3>2, <3>4, <3>6
  <2>10. Queue[c] = (<<>> \o ContentsOf(buffer[c])) \o w /\ w \in Seq(Msgs) /\ ContentsOf(buffer[c]) \in Seq(Msgs)
    BY <2>4, QueueIs DEF NoneInFlight
  <2>11. Append(Queue[c], m) = (InFlight(c)' \o ContentsOf(buffer'[c])) \o Waiting(c)'
    <3>1. \A x, y \in Seq(Msgs) : (<<>> \o x) \o Append(y, m) = Append((<<>> \o x) \o y, m)
      <4>1. \A x, y \in Seq(Msgs) : <<>> \o x = x /\ x \o Append(y, m) = Append(x \o y, m)
        BY ConcatAppend
      <4> QED BY <4>1
    <3>2. buffer'[c] = buffer[c] /\ InFlight(c)' = <<>>
      BY <1>1, <2>4 DEF NoneInFlight
    <3>3. (<<>> \o ContentsOf(buffer[c])) \o Append(w, m) = Append((<<>> \o ContentsOf(buffer[c])) \o w, m)
      BY <2>10, <3>1
    <3> QED BY <2>9, <2>10, <3>2, <3>3
  <2>12. Queue' = Changed(Queue, c, Append(Queue[c], m))
    <3>1. \A d \in Chans : d # c => /\ InFlight(d)' = InFlight(d) /\ Waiting(d)' = Waiting(d)
                                    /\ buffer'[d] = buffer[d]
      BY <1>1, <2>4, <2>7 DEF NoneInFlight
    <3> QED BY <2>11, <3>1, QueueChanges
  <2> QED BY <1>1, <2>1, <2>4, <2>12, OfferCarries
<1> QED BY <1>3, <1>4

(* Channel::send.                                                           *)
LEMMA SendCarries ==
    ASSUME Control, Control', UNCHANGED scene, Messages, NEW c \in Chans, NEW m \in Msgs, Send(c, m)
    PROVE  Carries
<1>1. SendClosed(c, m) \/ (state[c] = "open" /\ (HandOver(c, m) \/ Store(c, m) \/ SendBlock(c, m)))
  BY DEF Send, Open
<1>2. CASE SendClosed(c, m)
  BY <1>2, SendClosedCarries
<1>3. CASE state[c] = "open" /\ HandOver(c, m)
  BY <1>3, HandOverCarries
<1>4. CASE state[c] = "open" /\ Store(c, m)
  BY <1>4, StoreCarries
<1>5. CASE state[c] = "open" /\ SendBlock(c, m)
  BY <1>5, SendBlockCarries
<1> QED BY <1>1, <1>2, <1>3, <1>4, <1>5

(* The first of the messages on their way is received.                      *)
LEMMA TakeCarries ==
    ASSUME Messages, NEW c \in Chans, Queue[c] # <<>>, UNCHANGED <<state, result>>,
           Queue' = Changed(Queue, c, Tail(Queue[c])), got' = Changed(got, c, Append(got[c], Head(Queue[c]))),
           (\A n : Nowhere(n, Queue', got') <=> Nowhere(n, Queue, got)) => Tells'
    PROVE  Carries
<1>1. Placed(Queue', got') /\ \A n : Nowhere(n, Queue', got') <=> Nowhere(n, Queue, got)
  BY TakePlaces DEF Messages
<1>2. NoneClosed' = NoneClosed
  BY DEF NoneClosed
<1>3. \A n \in Msgs : ToldOf(n)
  BY <1>1 DEF ToldOf
<1>4. Told'
  BY <1>2, <1>3, ToldAgain DEF Messages
<1>5. Sent' = Sent
  BY DEF Sent
<1>6. Promise!Next
  BY <1>5, TakeStep DEF Messages
<1> QED BY <1>1, <1>4, <1>6 DEF Carries, Messages

(* A task that does not wait takes a message from the buffer or a sender.   *)
LEMMA FetchCarries ==
    ASSUME Control, Control', Messages, UNCHANGED scene, InCode, NEW i \in AllIterators, NEW c \in Chans, c = ChanOf[i],
           entry' = [entry EXCEPT ![i] = NextMsg(c)], FetchNoblock(c, <<Fetched(i)>> \o stack[fiber]),
           UNCHANGED <<receivers, state, pos, fetching, group, timer, cancelled, result>>
    PROVE  Carries
<1>1. /\ Available(c) /\ buffer' = [buffer EXCEPT ![c] = Refilled(c)]
      /\ got' = [got EXCEPT ![c] = Append(@, NextMsg(c))]
      /\ senders' = IF senders[c] = <<>> THEN senders ELSE [senders EXCEPT ![c] = Tail(@)]
  BY DEF FetchNoblock
<1>2. /\ fiber \in Tasks /\ Awake /\ NoneInFlight /\ ~Waits(stack[fiber])
  BY CodeFacts, AwakeFlight DEF Awake
<1>3. /\ stack'[fiber] = Within(Fetched(i))
      /\ \A f \in Tasks \cup {Runner} : f # fiber => stack'[f] = stack[f]
      /\ IF senders[c] = <<>> THEN UNCHANGED <<fiber, op>>
         ELSE fiber' = Head(senders[c]).t /\ op'[fiber'].status = "RESOLVED"
  BY FetchControl
<1>4. \A d \in Chans : \A x \in ToSet(senders[d]) : Message'[x] = Message[x]
  <2>1. \A d \in Chans, n \in Msgs : ~Sends(fiber, d, n)
    BY <1>2, AwakeFacts
  <2> QED BY <1>3, <2>1, MessagesSame DEF Control
<1>5. /\ \A d \in Chans : d # c => senders'[d] = senders[d] /\ buffer'[d] = buffer[d]
      /\ senders'[c] = IF senders[c] = <<>> THEN <<>> ELSE Tail(senders[c])
      /\ buffer'[c] = Refilled(c)
  BY <1>1 DEF Control, SendersOK, RingsOK
<1> PICK w \in Seq(Msgs) : w = Waiting(c)
  BY QueueIs
<1> PICK b \in Seq(Msgs) : b = ContentsOf(buffer[c])
  BY QueueIs
<1>6. /\ senders[c] = <<>> => w = <<>> /\ Waiting(c)' = <<>>
      /\ senders[c] # <<>> => w # <<>> /\ Head(w) = MsgOf(Head(senders[c])) /\ Waiting(c)' = Tail(w)
  <2>1. SendersOK' => AllMapped'
    BY WaitingMapped, PTL
  <2>2. Waiting(c)' = Mapped(senders'[c], Message')
    BY <2>1 DEF AllMapped, Control
  <2>3. w = Mapped(senders[c], Message) /\ Into(Message, senders[c], Msgs)
        /\ senders[c] \in Seq(Waiter) /\ Single(senders[c], Waiter)
        /\ \A e \in ToSet(senders[c]) : Message[e] = MsgOf(e)
    BY WaitingIs DEF Control, SendersOK
  <2>4. CASE senders[c] = <<>>
    BY <1>5, <2>2, <2>3, <2>4 DEF Mapped
  <2>5. CASE senders[c] # <<>>
    <3>1. w # <<>> /\ Head(w) = Message[Head(senders[c])] /\ Tail(w) = Mapped(Tail(senders[c]), Message)
      BY <2>3, <2>5, MappedTail
    <3>2. Head(senders[c]) \in ToSet(senders[c]) /\ ToSet(Tail(senders[c])) \subseteq ToSet(senders[c])
      BY <2>3, <2>5, OnceTail
    <3>3. Mapped(Tail(senders[c]), Message') = Mapped(Tail(senders[c]), Message)
      BY <1>4, <3>2, MappedSame
    <3> QED BY <1>5, <2>2, <2>3, <2>5, <3>1, <3>2, <3>3
  <2> QED BY <2>4, <2>5
<1>7. \A d \in Chans : d # c => Waiting(d)' = Waiting(d)
  BY <1>4, <1>5, WaitingStays DEF Control
<1>8. /\ IF buffer[c].len = 0
         THEN senders[c] # <<>> /\ NextMsg(c) = MsgOf(Head(senders[c])) /\ b = <<>> /\ ContentsOf(buffer'[c]) = b
         ELSE /\ b # <<>> /\ NextMsg(c) = Head(b)
              /\ ContentsOf(buffer'[c]) = IF senders[c] = <<>> THEN Tail(b)
                                          ELSE Append(Tail(b), MsgOf(Head(senders[c])))
  <2>1. IF buffer[c].len = 0
        THEN senders[c] # <<>> /\ NextMsg(c) = MsgOf(Head(senders[c])) /\ Refilled(c) = buffer[c]
        ELSE /\ ContentsOf(buffer[c]) # <<>> /\ NextMsg(c) = Head(ContentsOf(buffer[c]))
             /\ ContentsOf(Refilled(c)) =
                  IF senders[c] = <<>> THEN Tail(ContentsOf(buffer[c]))
                  ELSE Append(Tail(ContentsOf(buffer[c])), MsgOf(Head(senders[c])))
    BY <1>1, <1>2, RefillRing
  <2>2. buffer[c].len = 0 => b = <<>>
    <3>1. Len(ContentsOf(buffer[c])) = buffer[c].len
      BY QueueIs
    <3> QED BY <3>1
  <2> QED BY <1>5, <2>1, <2>2
<1>9. Queue[c] = b \o w
  <2>1. Queue[c] = (<<>> \o b) \o w
    <3>1. Queue[c] = (InFlight(c) \o ContentsOf(buffer[c])) \o Waiting(c)
      BY QueueIs
    <3>2. InFlight(c) = <<>>
      BY <1>2 DEF NoneInFlight
    <3> QED BY <3>1, <3>2
  <2>2. <<>> \o b = b
    OBVIOUS
  <2> QED BY <2>1, <2>2
<1>10. Queue[c] # <<>> /\ NextMsg(c) = Head(Queue[c]) /\ ContentsOf(buffer'[c]) \o Waiting(c)' = Tail(Queue[c])
       /\ ContentsOf(buffer'[c]) \in Seq(Msgs)
  <2>1. /\ b = <<>> /\ w # <<>> => /\ b \o w # <<>> /\ Head(b \o w) = Head(w)
                                   /\ b \o Tail(w) = Tail(b \o w)
        /\ b # <<>> => /\ b \o w # <<>> /\ Head(b \o w) = Head(b) /\ Tail(b) \in Seq(Msgs)
                       /\ w = <<>> => Tail(b) = Tail(b \o w)
                       /\ w # <<>> => Append(Tail(b), Head(w)) \o Tail(w) = Tail(b \o w)
    <3>1. \A x, y \in Seq(Msgs) :
            /\ x = <<>> /\ y # <<>> => x \o y # <<>> /\ Head(x \o y) = Head(y) /\ x \o Tail(y) = Tail(x \o y)
            /\ x # <<>> => /\ x \o y # <<>> /\ Head(x \o y) = Head(x) /\ Tail(x) \in Seq(Msgs)
                           /\ y = <<>> => Tail(x) = Tail(x \o y)
                           /\ y # <<>> => Append(Tail(x), Head(y)) \o Tail(y) = Tail(x \o y)
      BY FirstOf
    <3> QED BY <3>1
  <2>2. CASE buffer[c].len = 0
    BY <1>6, <1>8, <1>9, <2>1, <2>2
  <2>3. CASE buffer[c].len # 0 /\ senders[c] = <<>>
    <3>1. Tail(b) \o <<>> = Tail(b)
      BY <1>8, <2>1, <2>3
    <3> QED BY <1>6, <1>8, <1>9, <2>1, <2>3, <3>1
  <2>4. CASE buffer[c].len # 0 /\ senders[c] # <<>>
    <3>1. ContentsOf(buffer'[c]) = Append(Tail(b), Head(w)) /\ Waiting(c)' = Tail(w) /\ b # <<>> /\ w # <<>>
      BY <1>6, <1>8, <2>4
    <3>2. Append(Tail(b), Head(w)) \in Seq(Msgs)
      <4>1. \A x, y \in Seq(Msgs) : y # <<>> /\ Tail(x) \in Seq(Msgs) => Append(Tail(x), Head(y)) \in Seq(Msgs)
        OBVIOUS
      <4> QED BY <2>1, <3>1, <4>1
    <3>3. NextMsg(c) = Head(b)
      BY <1>8, <2>4
    <3> QED BY <1>9, <2>1, <3>1, <3>2, <3>3
  <2> QED BY <2>2, <2>3, <2>4
<1>11. NoneInFlight'
  <2>1. CASE senders[c] = <<>>
    <3>1. Awake'
      <4>1. Fetched(i) \in Calls /\ Fetched(i).k = "fetched"
        BY CallsNamed, FrameKinds
      <4> QED BY <1>3, <2>1, <4>1, WaitFacts DEF Awake
    <3>2. Control' /\ Awake' => NoneInFlight'
      BY AwakeFlight, PTL
    <3> QED BY <3>1, <3>2
  <2>2. CASE senders[c] # <<>>
    <3> PICK e : e = Head(senders[c])
      OBVIOUS
    <3>1. e.t \in Tasks /\ e.t # fiber /\ MsgOf(e) \in Msgs /\ Sends(e.t, c, MsgOf(e))
      BY <1>2, <2>2, FirstSender DEF Control, Tasking
    <3>2. stack'[fiber'] = Within(InSend(c, MsgOf(e)))
      BY <1>3, <2>2, <3>1 DEF Sends
    <3>3. \A d : FlightOf(fiber', stack'[fiber'], op'[fiber'], d) = <<>>
      BY <3>1, <3>2, NoFlight
    <3> QED BY <3>3, FlightIs DEF NoneInFlight
  <2> QED BY <2>1, <2>2
<1>12. Queue' = Changed(Queue, c, Tail(Queue[c]))
  <2>1. (<<>> \o ContentsOf(buffer'[c])) \o Waiting(c)' = Tail(Queue[c])
    <3>1. \A x \in Seq(Msgs) : <<>> \o x = x
      OBVIOUS
    <3> QED BY <1>10, <3>1
  <2>2. Tail(Queue[c]) = (InFlight(c)' \o ContentsOf(buffer'[c])) \o Waiting(c)'
    BY <1>11, <2>1 DEF NoneInFlight
  <2>3. \A d \in Chans : d # c => /\ InFlight(d)' = InFlight(d) /\ Waiting(d)' = Waiting(d)
                                  /\ buffer'[d] = buffer[d]
    BY <1>2, <1>5, <1>7, <1>11 DEF NoneInFlight
  <2> QED BY <2>2, <2>3, QueueChanges
<1>13. got' = Changed(got, c, Append(got[c], Head(Queue[c])))
  BY <1>1, <1>10 DEF Changed
<1>14. ASSUME \A n : Nowhere(n, Queue', got') <=> Nowhere(n, Queue, got) PROVE Tells'
  <2>1. CASE senders[c] = <<>>
    <3>1. Awake'
      <4>1. Fetched(i) \in Calls /\ Fetched(i).k = "fetched"
        BY CallsNamed, FrameKinds
      <4> QED BY <1>3, <2>1, <4>1, WaitFacts DEF Awake
    <3>2. Awake' => Tells'
      BY AwakeTells, PTL
    <3> QED BY <3>1, <3>2
  <2>2. CASE senders[c] # <<>>
    <3> PICK e : e = Head(senders[c])
      OBVIOUS
    <3> PICK m : m = MsgOf(e)
      OBVIOUS
    <3>1. e.t \in Tasks /\ e.t # fiber /\ m \in Msgs /\ Sends(e.t, c, m)
      BY <1>2, <2>2, FirstSender DEF Control, Tasking
    <3>2. stack'[fiber'] = Within(InSend(c, m)) /\ op'[fiber'].status = "RESOLVED"
      BY <1>3, <2>2, <3>1 DEF Sends
    <3>3. e \in Waiter /\ e.i = None /\ e \notin ToSet(Tail(senders[c]))
      <4>1. e \in ToSet(senders[c]) /\ ToSet(Tail(senders[c])) = ToSet(senders[c]) \ {e}
        BY <2>2, OnceTail DEF Control, SendersOK
      <4> QED BY <4>1, WaitingIs DEF Control, SendersOK
    <3>4. SenderEntry(fiber)' = e
      BY <1>3, <2>2, <3>3 DEF SenderEntry, Waiter
    <3>5. ~Nowhere(m, Queue', got')
      <4>1. m \in ToSet(w)
        <5>1. w # <<>> /\ Head(w) = m
          BY <1>6, <2>2
        <5> QED BY <5>1 DEF ToSet
      <4>2. m \in ToSet(Queue[c])
        <5>1. ToSet(b \o w) = ToSet(b) \cup ToSet(w)
          BY ConcatElements
        <5> QED BY <1>9, <4>1, <5>1
      <4> QED BY <1>14, <4>2 DEF Nowhere
    <3>6. SUFFICES ASSUME NEW d \in Chans, NEW n \in Msgs, stack'[fiber'] = Within(InSend(d, n))
                   PROVE  SenderEntry(fiber)' \notin ToSet(senders'[d]) /\ ~Nowhere(n, Queue', got')
      BY <3>2 DEF Tells, Sends
    <3>7. d = c /\ n = m
      BY <3>2, <3>6, StackFacts, FrameKinds
    <3> QED BY <1>5, <2>2, <3>3, <3>4, <3>5, <3>7
  <2> QED BY <2>1, <2>2
<1> QED BY <1>10, <1>12, <1>13, <1>14, TakeCarries

(* ChannelIterator::next.                                                   *)
LEMMA AdvanceCarries ==
    ASSUME Control, Control', Messages, UNCHANGED scene, NEW i \in AllIterators, Advance(i)
    PROVE  Carries
<1> PICK c \in Chans : c = ChanOf[i]
  BY ChanTypes
<1>1. InCode /\ FetchNext(i) /\ UNCHANGED <<group, timer, cancelled, result>>
  BY DEF Advance
<1>2. fiber \in Tasks /\ Awake /\ ~Waits(stack[fiber])
  BY <1>1, CodeFacts DEF Awake
<1>3. ASSUME UNCHANGED <<fiber, stack, buffer, senders, state, got>> PROVE Carries
  <2>1. Awake'
    BY <1>2, <1>3 DEF Awake
  <2> QED BY <1>1, <1>2, <1>3, <2>1, AwakeCarries
<1>4. CASE ~Readable(c) \/ ~MayFetch(i)
  BY <1>1, <1>3, <1>4 DEF FetchNext, chanVars
<1>5. CASE ~(~Readable(c) \/ ~MayFetch(i)) /\ Available(c)
  <2>1. /\ entry' = [entry EXCEPT ![i] = NextMsg(c)] /\ FetchNoblock(c, <<Fetched(i)>> \o stack[fiber])
        /\ UNCHANGED <<receivers, state, pos, fetching>>
    BY <1>1, <1>5 DEF FetchNext
  <2> QED BY <1>1, <2>1, FetchCarries
<1>6. CASE ~(~Readable(c) \/ ~MayFetch(i)) /\ ~Available(c)
  <2>1. /\ entry' = [entry EXCEPT ![i] = None]
        /\ UNCHANGED <<buffer, senders, state, pos, check, got>>
    BY <1>1, <1>6 DEF FetchNext
  <2>2. CASE Refused
    <3>1. UNCHANGED <<fiber, stack>>
      BY <1>1, <1>6, <2>2 DEF FetchNext
    <3> QED BY <1>3, <2>1, <3>1
  <2>3. CASE ~Refused
    <3>1. /\ fetching' = fetching \cup {i} /\ Block(InNext(i), Running)
          /\ receivers' = [receivers EXCEPT ![c] = Append(@, [t |-> fiber, i |-> i])]
      BY <1>1, <1>6, <2>3 DEF FetchNext
    <3>2. /\ stack'[fiber] = Within(InNext(i)) /\ fiber' # fiber /\ GoesOn(stack[fiber'])
          /\ \A f \in Tasks \cup {Runner} : f # fiber => stack'[f] = stack[f]
      BY <1>1, <1>6, <2>1, <3>1, FetchBlocks DEF MayFetch, groupVars, history
    <3>3. Awake'
      BY <3>2 DEF Awake, Control, FibersOK, Parked, GoesOn
    <3> QED BY <1>1, <1>2, <2>1, <3>2, <3>3, AwakeCarries
  <2> QED BY <2>2, <2>3
<1> QED BY <1>4, <1>5, <1>6

(* fetch_next_entry, after the block.                                       *)
LEMMA ResumeNextCarries ==
    ASSUME Control, Control', Messages, ResumeNext
    PROVE  Carries
<1> PICK i : i = Top.x
  OBVIOUS
<1>0. Top.k = "next"
  BY DEF ResumeNext
<1>1. /\ fiber \in Tasks /\ fiber # Runner /\ stack[fiber] = Within(InNext(i)) /\ Rest = <<Code>> /\ i \in AllIterators
  BY <1>0, CallFacts
<1>2. PICK c \in Chans : c = ChanOf[i]
  BY <1>1, ChanTypes
<1>3. /\ Goto(<<Code>>) /\ UNCHANGED <<fiber, buffer, senders, state, result>>
      /\ IF op[fiber].status = "RESOLVED" /\ state[c] = "open"
         THEN got' = [got EXCEPT ![c] = Append(@, op[fiber].value)]
         ELSE UNCHANGED got
  BY <1>1, <1>2 DEF ResumeNext
<1> PICK p \in Tasks : p = fiber
  BY <1>1
<1>4. stack'[p] = <<Code>> /\ \A f \in Tasks : f # p => stack'[f] = stack[f]
  BY <1>3 DEF Goto, Control, StacksOK
<1>5. Awake'
  BY <1>3, <1>4, WaitFacts DEF Awake
<1>6. NoneInFlight' /\ Tells'
  <2>1. Control' /\ Awake' => NoneInFlight'
    BY AwakeFlight, PTL
  <2>2. Awake' => Tells'
    BY AwakeTells, PTL
  <2> QED BY <1>5, <2>1, <2>2
<1>7. \A d \in Chans : \A x \in ToSet(senders[d]) : Message'[x] = Message[x]
  <2>1. \A d, n : Within(InNext(i)) # Within(InSend(d, n))
    BY NextNoSend
  <2>2. \A d \in Chans, n \in Msgs : ~Sends(p, d, n)
    BY <1>1, <2>1 DEF Sends
  <2> QED BY <1>4, <2>2, MessagesSame DEF Control
<1>8. \A d : InFlight(d) = IF op[fiber].value # None /\ ChanOf[i] = d THEN <<op[fiber].value>> ELSE <<>>
  <2> SUFFICES ASSUME NEW d
               PROVE  InFlight(d) = IF op[fiber].value # None /\ ChanOf[i] = d THEN <<op[fiber].value>> ELSE <<>>
    OBVIOUS
  <2>1. InFlight(d) = FlightOf(fiber, Within(InNext(i)), op[fiber], d)
    BY <1>1, FlightIs
  <2> QED BY <1>1, <2>1, NextFlight
<1>9. op[fiber].value # None <=> op[fiber].status = "RESOLVED" /\ state[c] = "open"
  BY <1>1, <1>2 DEF Control, OpsOK, Nexts
<1>10. CASE op[fiber].value = None
  <2>1. NoneInFlight
    BY <1>8, <1>10 DEF NoneInFlight
  <2>2. Queue' = Queue
    BY <1>3, <1>6, <1>7, <2>1, QueuesSame
  <2> QED BY <1>3, <1>6, <1>9, <1>10, <2>2, QuietCarries
<1>11. CASE op[fiber].value # None
  <2> PICK v \in Msgs : v = op[fiber].value
    BY <1>1, <1>11 DEF Control, OpsOK, OpRecord
  <2>1. /\ \A d \in Chans : InFlight(d) = IF d = c THEN <<v>> ELSE <<>>
        /\ got' = [got EXCEPT ![c] = Append(@, v)]
    BY <1>2, <1>3, <1>8, <1>9, <1>11
  <2>2. \A d \in Chans : Waiting(d)' = Waiting(d)
    BY <1>3, <1>7, WaitingStays DEF Control
  <2> PICK b \in Seq(Msgs) : b = ContentsOf(buffer[c])
    BY QueueIs
  <2> PICK w \in Seq(Msgs) : w = Waiting(c)
    BY QueueIs
  <2>3. Queue[c] = (<<v>> \o b) \o w
    <3>1. Queue[c] = (InFlight(c) \o ContentsOf(buffer[c])) \o Waiting(c)
      BY QueueIs
    <3> QED BY <2>1, <3>1
  <2> DEFINE Popping(x, y) == /\ (<<v>> \o x) \o y # <<>> /\ Head((<<v>> \o x) \o y) = v
                             /\ Tail((<<v>> \o x) \o y) = (<<>> \o x) \o y
  <2>4. Queue[c] # <<>> /\ Head(Queue[c]) = v /\ Tail(Queue[c]) = (<<>> \o b) \o w
    <3>1. \A x, y \in Seq(Msgs) : Popping(x, y)
      <4> SUFFICES ASSUME NEW x \in Seq(Msgs), NEW y \in Seq(Msgs)
                   PROVE  /\ (<<v>> \o x) \o y # <<>> /\ Head((<<v>> \o x) \o y) = v
                          /\ Tail((<<v>> \o x) \o y) = (<<>> \o x) \o y
        OBVIOUS
      <4>1. <<v>> \in Seq(Msgs) /\ <<v>> # <<>> /\ Head(<<v>>) = v /\ Tail(<<v>>) = <<>>
        OBVIOUS
      <4>2. \A a \in Seq(Msgs) : a # <<>> => a \o x # <<>> /\ Head(a \o x) = Head(a) /\ Tail(a \o x) = Tail(a) \o x
        BY ConcatTail
      <4>3. \A a \in Seq(Msgs) : a # <<>> => a \o y # <<>> /\ Head(a \o y) = Head(a) /\ Tail(a \o y) = Tail(a) \o y
        BY ConcatTail
      <4>4. <<v>> \o x \in Seq(Msgs)
        BY <4>1, ConcatProperties
      <4>5. <<v>> \o x # <<>> /\ Head(<<v>> \o x) = v /\ Tail(<<v>> \o x) = <<>> \o x
        BY <4>1, <4>2
      <4> QED BY <4>3, <4>4, <4>5
    <3>2. Popping(b, w)
      <4> HIDE DEF Popping
      <4> QED BY <3>1
    <3> QED BY <2>3, <3>2
  <2>5. Queue' = Changed(Queue, c, Tail(Queue[c]))
    <3>1. Tail(Queue[c]) = (InFlight(c)' \o ContentsOf(buffer'[c])) \o Waiting(c)'
      BY <1>3, <1>6, <2>2, <2>4 DEF NoneInFlight
    <3>2. \A d \in Chans : d # c => /\ InFlight(d)' = InFlight(d) /\ Waiting(d)' = Waiting(d)
                                    /\ buffer'[d] = buffer[d]
      BY <1>3, <1>6, <2>1, <2>2 DEF NoneInFlight
    <3> QED BY <3>1, <3>2, QueueChanges
  <2>6. got' = Changed(got, c, Append(got[c], Head(Queue[c])))
    BY <2>1, <2>4 DEF Changed
  <2> QED BY <1>3, <1>6, <2>4, <2>5, <2>6, TakeCarries
<1> QED BY <1>10, <1>11

-------------------------------------------------------------------------------
(* The messages are where they should be in every state.                    *)
LEMMA MessagesBegin ==
    ASSUME NoGroups, Init
    PROVE  Messages /\ Promise!Init
<1>1. fiber = Runner /\ Runner \notin Tasks
  BY ChannelNames DEF Init
<1>2. \A c \in Chans : InFlight(c) = <<>> /\ Contents(c) = <<>> /\ Waiting(c) = <<>>
  <2> SUFFICES ASSUME NEW c \in Chans PROVE InFlight(c) = <<>> /\ Contents(c) = <<>> /\ Waiting(c) = <<>>
    OBVIOUS
  <2>1. buffer[c].len = 0 /\ senders[c] = <<>>
    BY DEF Init
  <2>2. 1 .. 0 = {} /\ DOMAIN <<>> = {}
    OBVIOUS
  <2> QED BY <1>1, <2>1, <2>2 DEF InFlight, Contents, Waiting
<1>3. Queue = [c \in Chans |-> <<>>]
  <2>1. (<<>> \o <<>>) \o <<>> = <<>>
    OBVIOUS
  <2> QED BY <1>2, <2>1 DEF Queue
<1>4. got = [c \in Chans |-> <<>>] /\ \A m \in Msgs : result[m] = "new"
  BY DEF Init
<1>5. <<>> \in Seq(Msgs) /\ ToSet(<<>>) = {} /\ Single(<<>>, Msgs)
  <2>1. <<>> \in Seq(Msgs) /\ DOMAIN <<>> = {}
    OBVIOUS
  <2> QED BY <2>1, NoElements DEF Single
<1>6. Placed(Queue, got)
  BY <1>3, <1>4, <1>5 DEF Placed
<1>7. \A m : Nowhere(m, Queue, got)
  BY <1>3, <1>4, <1>5 DEF Nowhere
<1>8. Told /\ Tells
  BY <1>1, <1>4, <1>7 DEF Told, Tells
<1>9. Sent = {} /\ Closed = {}
  BY DEF Init, Sent, Closed
<1> QED BY <1>3, <1>4, <1>6, <1>8, <1>9 DEF Messages, Promise!Init

(* Nothing happens.                                                         *)
LEMMA MessagesStand ==
    ASSUME Messages, UNCHANGED vars
    PROVE  Carries
<1>1. UNCHANGED <<fiber, stack, buffer, senders, state, op, result, got>>
  BY DEF vars, chanVars, taskVars, history
<1>2. \A c \in Chans : InFlight(c)' = InFlight(c) /\ Contents(c)' = Contents(c) /\ Waiting(c)' = Waiting(c)
  BY <1>1 DEF InFlight, Top, Contents, Waiting, MsgOf
<1>3. Queue' = Queue
  BY <1>2 DEF Queue
<1>4. Tells'
  BY <1>1, <1>3 DEF Messages, Tells, Sends, NoneClosed, SenderEntry
<1> QED BY <1>1, <1>3, <1>4, QuietCarries

(* A step of the channels is one of FifoChannels, or changes nothing there. *)
LEMMA StepsCarry ==
    ASSUME Control, Control', Messages, [Next]_vars
    PROVE  Carries
<1>1. CASE UNCHANGED vars
  BY <1>1, MessagesStand
<1>2. CASE Next
  <2>1. UNCHANGED scene
    BY <1>2 DEF Next
  <2>2. CASE \E c \in Chans, m \in Msgs : Send(c, m)
    BY <2>1, <2>2, SendCarries
  <2>3. CASE \E c \in Chans, how \in {"closed", "error"} : Close(c, how)
    BY <2>3, CloseCarries
  <2>4. CASE \E i \in AllIterators : Advance(i)
    BY <2>1, <2>4, AdvanceCarries
  <2>5. CASE Return
    BY <2>5, ReturnCarries
  <2>6. CASE FailReceivers
    BY <2>1, <2>6, FailReceiversCarries
  <2>7. CASE FailSenders
    BY <2>7, FailSendersCarries
  <2>8. CASE ResumeFetched
    BY <2>8, ResumeFetchedCarries
  <2>9. CASE ResumeNext
    BY <2>9, ResumeNextCarries
  <2>10. CASE ResumeSend
    BY <2>10, ResumeSendCarries
  <2>11. CASE \E t \in Tasks : Start(t) \/ Cancel(t)
    BY <2>11, StartCarries, CancelCarries
  <2> QED BY <1>2, <2>2, <2>3, <2>4, <2>5, <2>6, <2>7, <2>8, <2>9, <2>10, <2>11, Steps
<1> QED BY <1>1, <1>2

(* Where the message of a sender is, who has been told.                     *)
LEMMA MessagesTell ==
    ASSUME Control, Messages
    PROVE  SenderKnows
<1> SUFFICES ASSUME NoneClosed, NEW m \in Msgs
             PROVE  (result[m] = "sent" => m \in Held) /\ (result[m] = "failed" => m \notin Held)
  BY DEF SenderKnows, NoneClosed
<1>1. \A c \in Chans : ToSet(Queue[c]) = (ToSet(InFlight(c)) \cup ToSet(Contents(c))) \cup ToSet(Waiting(c))
  <2> SUFFICES ASSUME NEW c \in Chans
               PROVE  ToSet(Queue[c]) = (ToSet(InFlight(c)) \cup ToSet(Contents(c))) \cup ToSet(Waiting(c))
    OBVIOUS
  <2>1. \A x, y \in Seq(Msgs) : x \o y \in Seq(Msgs) /\ ToSet(x \o y) = ToSet(x) \cup ToSet(y)
    BY ConcatElements
  <2>2. Queue[c] = (InFlight(c) \o Contents(c)) \o Waiting(c)
        /\ InFlight(c) \in Seq(Msgs) /\ Contents(c) \in Seq(Msgs) /\ Waiting(c) \in Seq(Msgs)
    BY QueueIs DEF ContentsOf, Contents
  <2>3. \A x, y, z \in Seq(Msgs) : ToSet((x \o y) \o z) = (ToSet(x) \cup ToSet(y)) \cup ToSet(z)
    <3> SUFFICES ASSUME NEW x \in Seq(Msgs), NEW y \in Seq(Msgs), NEW z \in Seq(Msgs)
                 PROVE  ToSet((x \o y) \o z) = (ToSet(x) \cup ToSet(y)) \cup ToSet(z)
      OBVIOUS
    <3>1. x \o y \in Seq(Msgs) /\ ToSet(x \o y) = ToSet(x) \cup ToSet(y)
      BY ConcatElements
    <3>2. \A a \in Seq(Msgs) : ToSet(a \o z) = ToSet(a) \cup ToSet(z)
      BY ConcatElements
    <3>3. ToSet((x \o y) \o z) = ToSet(x \o y) \cup ToSet(z)
      BY <3>1, <3>2
    <3> QED BY <3>1, <3>3
  <2>4. ToSet((InFlight(c) \o Contents(c)) \o Waiting(c)) = (ToSet(InFlight(c)) \cup ToSet(Contents(c))) \cup ToSet(Waiting(c))
    BY <2>2, <2>3
  <2> QED BY <2>2, <2>4
<1>2. \A c \in Chans : \A n \in ToSet(Waiting(c)) : result[n] = "waiting"
  <2> SUFFICES ASSUME NEW c \in Chans, NEW n \in ToSet(Waiting(c)) PROVE result[n] = "waiting"
    OBVIOUS
  <2>1. ToSet(Waiting(c)) = {Message[x] : x \in ToSet(senders[c])}
    BY WaitingIs, MappedElements DEF Control
  <2>2. PICK e \in ToSet(senders[c]) : n = Message[e]
    BY <2>1
  <2>3. e \in Waiter /\ Message[e] = MsgOf(e) /\ Sends(e.t, c, MsgOf(e)) /\ MsgOf(e) \in Msgs
    BY WaitingIs DEF Control, Into
  <2> QED BY <2>2, <2>3 DEF Control, SendersOK, Waiter
<1>3. m \in Held <=> \E c \in Chans : m \in ToSet(got[c]) \/ m \in ToSet(Contents(c)) \/ m \in ToSet(InFlight(c))
  BY DEF Held
<1>4. ASSUME result[m] = "sent" PROVE m \in Held
  <2>1. PICK c \in Chans : m \in ToSet(Queue[c]) \/ m \in ToSet(got[c])
    BY <1>4 DEF Messages, Told, Nowhere
  <2>2. m \notin ToSet(Waiting(c))
    BY <1>2, <1>4
  <2> QED BY <1>1, <1>3, <2>1, <2>2
<1>5. ASSUME result[m] = "failed" PROVE m \notin Held
  <2>1. \A c \in Chans : m \notin ToSet(Queue[c]) /\ m \notin ToSet(got[c])
    BY <1>5 DEF Messages, Told, Nowhere
  <2> QED BY <1>1, <1>3, <2>1
<1> QED BY <1>4, <1>5

(* The channels implement FifoChannels, in programs without groups: every   *)
(* message leaves a channel in the order of the sends, at most once, from   *)
(* the ring buffer, a waiting sender or the hand of a sender alike.         *)
THEOREM ChannelsFifo ==
    ASSUME NoGroups
    PROVE  Spec => Fifo
<1>1. Init => Control /\ Messages /\ Promise!Init
  BY ControlBegins, MessagesBegin
<1>2. Control /\ Messages /\ [Next]_vars => Control' /\ Messages' /\ [Promise!Next]_(Promise!vars)
  BY ControlStays, StepsCarry DEF Carries
<1> QED BY <1>1, <1>2, PTL DEF Spec, Fifo, Promise!Spec

(* What a sender was told is true, in programs without groups: a message    *)
(* whose send succeeded was received or is on its way, unless a channel was *)
(* closed; one whose send failed was not received and is not on its way.    *)
THEOREM SendersKnow ==
    ASSUME NoGroups
    PROVE  Spec => []SenderKnows
<1>1. Init => Control /\ Messages
  BY ControlBegins, MessagesBegin
<1>2. Control /\ Messages /\ [Next]_vars => Control' /\ Messages'
  BY ControlStays, StepsCarry DEF Carries
<1>3. Control /\ Messages => SenderKnows
  BY MessagesTell
<1> QED BY <1>1, <1>2, <1>3, PTL DEF Spec
===============================================================================
