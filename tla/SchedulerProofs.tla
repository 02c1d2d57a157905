---------------------------- MODULE SchedulerProofs ----------------------------
(***************************************************************************)
(* Theorems of the scheduler, for every set of tasks, awaitables, queues    *)
(* and contexts: order of tasks and futures, then waking up.                *)
(***************************************************************************)
EXTENDS Scheduler, SequenceLemmas

(* The inductive invariant.                                                 *)

Begun == {t \in Tasks : status[t] \notin {"NONE", "INIT"}}   \* executed so far
Fresh == {t \in Tasks : status[t] = "INIT"}                  \* scheduled only
Live  == spawned \cup {Root, Runner}                         \* fibers that exist

(* What a frame is about, when B is the set of tasks that have begun.       *)
Subject(fr, B) ==
    /\ fr.k \in {"body", "inline"} => fr.x \in B
    /\ fr.k \in {"resched", "inlined"} => fr.x \in Tasks
    /\ fr.k \in {"ret", "await", "trigger"} => fr.x \in Awaitables
    /\ fr.k = "wait" => fr.x \in Queues
    /\ fr.k = "ret" => fr.o \in Tasks

(* Where a frame may stand: at the bottom of a stack; above a call of PHP   *)
(* code; on the stack of the main fiber; on that of a task or the main fiber.*)
Bottom   == {"body", "main", "loop", "end"}
Calls    == {"await", "wait", "inlined", "inline", "bail"}
Callers  == {"code", "ret"}
MainOnly == {"main", "drain", "shut", "rerun", "done"}

WellFormed(s, B, f) ==
    /\ s \in Seq(Frames) /\ s # <<>>
    /\ \A i \in DOMAIN s :
        /\ Subject(s[i], B)
        /\ s[i].k \in Bottom <=> i = Len(s)
        /\ s[i].k \in Calls => i + 1 \in DOMAIN s /\ s[i + 1].k \in Callers
        /\ s[i].k \in MainOnly => f = Root
        /\ s[i].k \in Callers => f \in Owners

StacksOK ==
    /\ stack \in [Fiber \cup {NoFiber} -> Seq(Frames)]
    /\ \A f \in Fiber \cup {NoFiber} : WellFormed(stack[f], Begun, f)
    /\ stack[NoFiber] = <<End>>
FibersOK == fiber \in Live \cup {NoFiber} /\ fibers \in Seq(Live)
StatusOK ==
    /\ status \in [Awaitables -> TaskStatus \cup {"PENDING"}]
    /\ spawned \subseteq Begun
    /\ \A t \in Tasks : status[t] = "SUSPENDED" => t \in spawned
ReadyOK ==
    /\ ready \in Seq(spawned \cup Fresh \cup {Root})
    /\ Single(ready, Fresh)
    /\ idle \in BOOLEAN
OpsOK ==
    /\ op \in [Owners -> OpRecord]
    /\ ops \in [Lists -> Seq(Begun \cup {Root})]
    /\ callbacks \in Seq(Begun \cup {Root})
    /\ issued \in Nat
RestOK ==
    /\ disposed \subseteq Tasks
    /\ triggered \in BOOLEAN /\ uvstop \in BOOLEAN /\ closed \in BOOLEAN
    /\ stopped \subseteq {"error", "exit"}
    /\ caller \in {Root, NoFiber} /\ busy \in Int
    /\ runs \in [Tasks -> Nat]
Inv == StacksOK /\ FibersOK /\ StatusOK /\ ReadyOK /\ OpsOK /\ RestOK

(* With it, a task whose callback was executed has begun for good.          *)
Counted == \A t \in Tasks : runs[t] <= 1 /\ (runs[t] = 1 => t \in Begun)
-------------------------------------------------------------------------------
(* Stacks of frames.                                                        *)

(* A frame put on top of a well-formed stack.                               *)
LEMMA Push ==
    ASSUME NEW B, NEW f, NEW s, WellFormed(s, B, f),
           NEW fr \in Frames, Subject(fr, B), fr.k \notin Bottom,
           fr.k \in Calls => Head(s).k \in Callers,
           fr.k \in MainOnly => f = Root, fr.k \in Callers => f \in Owners
    PROVE  WellFormed(<<fr>> \o s, B, f)
<1> DEFINE r == <<fr>> \o s
<1>1. s \in Seq(Frames) /\ s # <<>> /\ Len(s) \in Nat \ {0} /\ Head(s) = s[1]
  BY DEF WellFormed
<1>2. /\ r \in Seq(Frames) /\ r # <<>> /\ Len(r) = Len(s) + 1
      /\ r[1] = fr /\ \A i \in 2..Len(s) + 1 : r[i] = s[i - 1]
  BY <1>1
<1>3. DOMAIN r = 1..Len(s) + 1 /\ DOMAIN s = 1..Len(s)
  BY <1>1, <1>2
<1> HIDE DEF r
<1>4. ASSUME NEW i \in DOMAIN r
      PROVE  /\ Subject(r[i], B)
             /\ r[i].k \in Bottom <=> i = Len(r)
             /\ r[i].k \in Calls => i + 1 \in DOMAIN r /\ r[i + 1].k \in Callers
             /\ r[i].k \in MainOnly => f = Root
             /\ r[i].k \in Callers => f \in Owners
  <2>1. CASE i = 1
    <3>1. r[i] = fr /\ r[i + 1] = s[1] /\ i # Len(r) /\ i + 1 \in DOMAIN r
      BY <2>1, <1>1, <1>2, <1>3
    <3> QED BY <3>1, <1>1
  <2>2. CASE i # 1
    <3>1. /\ i - 1 \in DOMAIN s /\ r[i] = s[i - 1]
          /\ i = Len(r) <=> i - 1 = Len(s)
          /\ (i - 1) + 1 \in DOMAIN s => i + 1 \in DOMAIN r /\ r[i + 1] = s[(i - 1) + 1]
      BY <2>2, <1>1, <1>2, <1>3
    <3> QED BY <3>1 DEF WellFormed
  <2> QED BY <2>1, <2>2
<1> QED BY <1>2, <1>4 DEF WellFormed, r

(* What is known of the top of a well-formed stack, and of the rest of it.  *)
LEMMA Pop ==
    ASSUME NEW B, NEW f, NEW s, WellFormed(s, B, f)
    PROVE  /\ Head(s) \in Frames /\ Subject(Head(s), B)
           /\ Head(s).k \in MainOnly => f = Root
           /\ Head(s).k \in Callers => f \in Owners
           /\ Head(s).k \notin Bottom => WellFormed(Tail(s), B, f)
           /\ Head(s).k \in Calls => Head(Tail(s)).k \in Callers
<1>1. s \in Seq(Frames) /\ Len(s) \in Nat \ {0} /\ Head(s) = s[1] /\ DOMAIN s = 1..Len(s)
  BY DEF WellFormed
<1>2. 1 \in DOMAIN s /\ s[1] \in Frames
  BY <1>1
<1>3. /\ Subject(s[1], B) /\ (s[1].k \in MainOnly => f = Root)
      /\ s[1].k \in Callers => f \in Owners
      /\ s[1].k \in Bottom <=> Len(s) = 1
      /\ s[1].k \in Calls => 2 \in DOMAIN s /\ s[2].k \in Callers
  BY <1>1, <1>2 DEF WellFormed
<1>4. ASSUME Len(s) # 1
      PROVE  WellFormed(Tail(s), B, f) /\ Head(Tail(s)) = s[2]
  <2> DEFINE r == Tail(s)
  <2>1. /\ r \in Seq(Frames) /\ r # <<>> /\ Len(r) = Len(s) - 1 /\ DOMAIN r = 1..Len(s) - 1
        /\ \A i \in 1..Len(s) - 1 : r[i] = s[i + 1]
    <3>1. /\ r \in Seq(Frames) /\ Len(r) = Len(s) - 1
          /\ \A i \in 1..Len(r) : r[i] = s[i + 1]
      BY <1>1, HeadTailProperties
    <3> HIDE DEF r
    <3>2. r # <<>> /\ DOMAIN r = 1..Len(r)
      BY <3>1, <1>1, <1>4
    <3> QED BY <3>1, <3>2, <1>1
  <2> HIDE DEF r
  <2>2. ASSUME NEW i \in DOMAIN r
        PROVE  /\ Subject(r[i], B)
               /\ r[i].k \in Bottom <=> i = Len(r)
               /\ r[i].k \in Calls => i + 1 \in DOMAIN r /\ r[i + 1].k \in Callers
               /\ r[i].k \in MainOnly => f = Root
               /\ r[i].k \in Callers => f \in Owners
    <3>1. /\ i + 1 \in DOMAIN s /\ r[i] = s[i + 1]
          /\ i + 1 = Len(s) <=> i = Len(r)
          /\ (i + 1) + 1 \in DOMAIN s => i + 1 \in DOMAIN r /\ r[i + 1] = s[(i + 1) + 1]
      BY <1>1, <1>4, <2>1
    <3> QED BY <3>1 DEF WellFormed
  <2>3. Head(r) = s[2]
    BY <1>1, <1>4, <2>1
  <2> QED BY <2>1, <2>2, <2>3 DEF WellFormed, r
<1>5. s[1].k \in Calls => Len(s) # 1
  BY <1>1, <1>3
<1> QED BY <1>1, <1>2, <1>3, <1>4, <1>5

(* Tasks that begin do not spoil a stack.                                   *)
LEMMA Grow ==
    ASSUME NEW B, NEW C, B \subseteq C, NEW f, NEW s, WellFormed(s, B, f)
    PROVE  WellFormed(s, C, f)
<1>1. \A fr : Subject(fr, B) => Subject(fr, C)
  BY DEF Subject
<1> QED BY <1>1 DEF WellFormed

(* One frame at the bottom.                                                 *)
LEMMA Ground ==
    ASSUME NEW B, NEW f, NEW fr \in Frames, Subject(fr, B),
           fr.k \in Bottom, fr.k \in MainOnly => f = Root
    PROVE  WellFormed(<<fr>>, B, f)
<1>1. fr.k \notin Calls \cup Callers
  BY DEF Bottom, Calls, Callers
<1>2. <<fr>> \in Seq(Frames) /\ <<fr>> # <<>> /\ Len(<<fr>>) = 1 /\ DOMAIN <<fr>> = {1} /\ <<fr>>[1] = fr
  OBVIOUS
<1> QED BY <1>1, <1>2 DEF WellFormed

(* The fiber that executes something is a fiber, with a well-formed stack.  *)
LEMMA Running ==
    ASSUME Inv, Top.k # "end"
    PROVE  fiber \in Fiber /\ WellFormed(stack[fiber], Begun, fiber)
<1>1. fiber \in Fiber \cup {NoFiber}
  BY DEF Inv, FibersOK, StatusOK, Live, Fiber, Owners, Begun
<1>2. fiber # NoFiber
  BY DEF Inv, StacksOK, Top, End, Frame
<1> QED BY <1>1, <1>2 DEF Inv, StacksOK

(* The running fiber goes on with stack s.                                  *)
LEMMA PutStack ==
    ASSUME Inv, fiber \in Fiber, Begun \subseteq Begun',
           NEW s, WellFormed(s, Begun', fiber), Goto(s)
    PROVE  StacksOK'
<1>1. fiber # NoFiber
  BY NamesAssumption
<1>2. s \in Seq(Frames)
  BY DEF WellFormed
<1>3. ASSUME NEW f \in Fiber \cup {NoFiber}
      PROVE  WellFormed(stack'[f], Begun', f)
  <2>1. CASE f = fiber
    BY <2>1 DEF Goto, Inv, StacksOK
  <2>2. CASE f # fiber
    <3>1. stack'[f] = stack[f] /\ WellFormed(stack[f], Begun, f)
      BY <2>2 DEF Goto, Inv, StacksOK
    <3> QED BY <3>1, Grow
  <2> QED BY <2>1, <2>2
<1> QED BY <1>1, <1>2, <1>3 DEF Goto, Inv, StacksOK

(* Control goes to a fiber that exists, or nowhere.                         *)
LEMMA SwitchOK ==
    ASSUME Inv, fiber \in Fiber, spawned \subseteq spawned',
           NEW next \in Live' \cup {NoFiber}, Switch(next)
    PROVE  FibersOK'
<1>1. Live \subseteq Live' /\ fiber \in Live
  BY NamesAssumption DEF Inv, FibersOK, Live
<1>2. fibers \in Seq(Live')
  BY <1>1, SeqMonotonic DEF Inv, FibersOK
<1>3. <<fiber>> \o fibers \in Seq(Live')
  BY <1>1, <1>2
<1> QED BY <1>2, <1>3 DEF Switch, FibersOK

(* Control goes back to whoever was suspended last, or to the event loop.  *)
LEMMA SuspendOK ==
    ASSUME Inv, UNCHANGED spawned, Suspend
    PROVE  FibersOK'
<1>1. Live' = Live /\ Runner \in Live
  BY DEF Live
<1>2. CASE fibers = <<>>
  BY <1>1, <1>2 DEF Suspend, SwitchNone, Inv, FibersOK
<1>3. CASE fibers # <<>>
  <2>1. Head(fibers) \in Live /\ Tail(fibers) \in Seq(Live)
    BY <1>3 DEF Inv, FibersOK
  <2> QED BY <1>1, <1>3, <2>1 DEF Suspend, FibersOK
<1> QED BY <1>2, <1>3

(* Nothing but the place in the ready queue changes when a task is enqueued *)
(* again.                                                                   *)
LEMMA EnqueueOK ==
    ASSUME Inv, NEW o \in Begun \cup {Root}, Enqueue(o), UNCHANGED <<status, spawned>>
    PROVE  ReadyOK'
<1> DEFINE R == spawned \cup Fresh \cup {Root}
<1>1. /\ ready \in Seq(R) /\ Single(ready, Fresh) /\ idle \in BOOLEAN
      /\ Fresh' = Fresh /\ R' = R
  BY DEF Inv, ReadyOK, Fresh
<1>2. CASE UNCHANGED readyVars
  BY <1>1, <1>2 DEF ReadyOK, readyVars, Single
<1>3. CASE ready' = Append(ready, o) /\ idle' = (ready = <<>> \/ idle) /\ o \in spawned \cup {Root}
  <2>1. o \notin Fresh
    BY <1>3, NamesAssumption DEF Inv, StatusOK, Fresh, Begun
  <2>2. ready' \in Seq(R)
    BY <1>1, <1>3
  <2>3. Single(ready', Fresh)
    BY <1>1, <1>3, <2>1 DEF Single
  <2> QED BY <1>1, <1>3, <2>2, <2>3 DEF ReadyOK
<1>4. o # Root => (status[o] \in {"NONE", "SUSPENDED"} => o \in spawned)
  BY DEF Inv, StatusOK, Begun
<1> QED BY <1>2, <1>3, <1>4 DEF Enqueue

(* The owner of an operation is woken up.                                   *)
LEMMA WakeOK ==
    ASSUME Inv, fiber \in Fiber, NEW o \in Begun \cup {Root}, NEW defer \in BOOLEAN,
           NEW s, WellFormed(s, Begun, fiber), Wake(o, defer, s), UNCHANGED spawned
    PROVE  StacksOK' /\ FibersOK' /\ StatusOK' /\ ReadyOK' /\ Begun' = Begun
<1>1. CASE o = Root
  <2>1. Goto(s) /\ UNCHANGED status
    BY <1>1 DEF Wake, WakeRoot
  <2>2. Begun' = Begun /\ Fresh' = Fresh
    BY <2>1 DEF Begun, Fresh
  <2>3. StacksOK'
    BY <2>1, <2>2, PutStack
  <2>4. StatusOK'
    BY <2>1, <2>2 DEF Inv, StatusOK
  <2>5. CASE Suspend /\ UNCHANGED readyVars
    <3>1. ReadyOK'
      BY <2>2, <2>5 DEF Inv, ReadyOK, readyVars, Single
    <3> QED BY <2>2, <2>3, <2>4, <2>5, <3>1, SuspendOK
  <2>6. CASE Enqueue(Root) /\ UNCHANGED <<fiber, fibers>>
    <3>1. FibersOK'
      BY <2>6 DEF Inv, FibersOK, Live
    <3> QED BY <2>1, <2>2, <2>3, <2>4, <2>6, <3>1, EnqueueOK
  <2>7. CASE Switch(caller) /\ UNCHANGED readyVars
    <3>1. ReadyOK'
      BY <2>2, <2>7 DEF Inv, ReadyOK, readyVars, Single
    <3>2. caller \in Live' \cup {NoFiber}
      BY DEF Inv, RestOK, Live
    <3> QED BY <2>2, <2>3, <2>4, <2>7, <3>1, <3>2, SwitchOK
  <2> QED BY <1>1, <2>5, <2>6, <2>7 DEF Wake, WakeRoot
<1>2. CASE o # Root /\ defer
  <2>1. Goto(s) /\ UNCHANGED <<fiber, fibers, status>> /\ Enqueue(o)
    BY <1>2 DEF Wake, WakeTask
  <2>2. Begun' = Begun
    BY <2>1 DEF Begun
  <2>3. StacksOK'
    BY <2>1, <2>2, PutStack
  <2>4. StatusOK' /\ FibersOK'
    BY <2>1, <2>2 DEF Inv, StatusOK, FibersOK, Live
  <2> QED BY <2>1, <2>2, <2>3, <2>4, EnqueueOK
<1>3. CASE o # Root /\ ~defer
  <2>1. /\ o \in Begun /\ o \in Tasks /\ o \in Awaitables
        /\ status' = [status EXCEPT ![o] = "RUNNING"]
        /\ Goto(<<Resched(o)>> \o s)
        /\ Switch(IF o \in spawned THEN o ELSE NoFiber)
        /\ UNCHANGED readyVars
    BY <1>3 DEF Wake, WakeTask, Begun, Awaitables
  <2>2. Begun' = Begun /\ Fresh' = Fresh
    BY <2>1 DEF Inv, StatusOK, Begun, Fresh, Awaitables
  <2>3. WellFormed(<<Resched(o)>> \o s, Begun, fiber)
    <3>1. /\ Resched(o) \in Frames /\ Subject(Resched(o), Begun)
          /\ Resched(o).k \notin Bottom /\ Resched(o).k \notin Calls \cup MainOnly \cup Callers
      BY <2>1 DEF Resched, Frame, Frames, Kinds, Owners, Subject, Bottom, Calls, MainOnly,
                  Callers
    <3> QED BY <3>1, Push
  <2>4. StacksOK'
    BY <2>1, <2>2, <2>3, PutStack
  <2>5. StatusOK'
    BY <2>1, <2>2 DEF Inv, StatusOK, TaskStatus, Awaitables
  <2>6. ReadyOK'
    BY <2>1, <2>2 DEF Inv, ReadyOK, readyVars, Single
  <2>7. FibersOK'
    <3>1. (IF o \in spawned THEN o ELSE NoFiber) \in Live' \cup {NoFiber}
      BY DEF Live
    <3> QED BY <2>1, <3>1, SwitchOK
  <2> QED BY <2>2, <2>4, <2>5, <2>6, <2>7
<1> QED BY <1>1, <1>2, <1>3

(* An operation is taken off its list, settled, and its owner woken up.     *)
LEMMA SettleOK ==
    ASSUME Inv, fiber \in Fiber, NEW l \in Lists, NEW o \in Begun \cup {Root},
           NEW res \in {"RESOLVED", "FAILED"}, NEW defer \in BOOLEAN,
           NEW s, WellFormed(s, Begun, fiber), SettleOp(l, o, res, defer, s),
           UNCHANGED <<spawned, callbacks, issued>>
    PROVE  StacksOK' /\ FibersOK' /\ StatusOK' /\ ReadyOK' /\ OpsOK' /\ Begun' = Begun
<1>1. o \in Owners
  BY DEF Begun, Owners
<1>2. StacksOK' /\ FibersOK' /\ StatusOK' /\ ReadyOK' /\ Begun' = Begun
  <2>1. CASE Wake(o, defer, s)
    BY <2>1, WakeOK
  <2>2. CASE Goto(s) /\ UNCHANGED <<fiber, fibers, status, ready, idle>>
    <3>1. Begun' = Begun /\ Fresh' = Fresh
      BY <2>2 DEF Begun, Fresh
    <3>2. StacksOK'
      BY <2>2, <3>1, PutStack
    <3> QED BY <2>2, <3>1, <3>2 DEF Inv, FibersOK, Live, StatusOK, ReadyOK, Single
  <2> QED BY <2>1, <2>2 DEF SettleOp
<1>3. Unlink(ops[l], o) \in Seq(Begun \cup {Root})
  BY RemoveFirstType DEF Unlink, Inv, OpsOK
<1>4. OpsOK'
  BY <1>1, <1>2, <1>3 DEF SettleOp, Inv, OpsOK, OpRecord
<1> QED BY <1>2, <1>4
-------------------------------------------------------------------------------
(* Steps.                                                                   *)

(* The running fiber goes on with stack s and nothing else changes for the  *)
(* scheduler.                                                               *)
LEMMA GoOn ==
    ASSUME Inv, fiber \in Fiber, NEW s, WellFormed(s, Begun, fiber), Goto(s),
           UNCHANGED <<fiber, fibers, status, spawned, readyVars>>
    PROVE  StacksOK' /\ FibersOK' /\ StatusOK' /\ ReadyOK' /\ Begun' = Begun
<1>1. Begun' = Begun /\ Fresh' = Fresh /\ Live' = Live
  BY DEF Begun, Fresh, Live
<1>2. StacksOK'
  BY <1>1, PutStack
<1> QED BY <1>1, <1>2 DEF Inv, FibersOK, StatusOK, ReadyOK, readyVars, Single

(* The running fiber will go on with stack s, and suspends.                 *)
LEMMA Yield ==
    ASSUME Inv, fiber \in Fiber, NEW s, WellFormed(s, Begun, fiber), Goto(s), Suspend,
           UNCHANGED <<status, spawned, readyVars>>
    PROVE  StacksOK' /\ FibersOK' /\ StatusOK' /\ ReadyOK' /\ Begun' = Begun
<1>1. Begun' = Begun /\ Fresh' = Fresh
  BY DEF Begun, Fresh
<1>2. StacksOK'
  BY <1>1, PutStack
<1> QED BY <1>1, <1>2, SuspendOK DEF Inv, StatusOK, ReadyOK, readyVars, Single

(* Nothing but the stacks and the status of an awaitable that is no task.   *)
LEMMA SettleExtOK ==
    ASSUME Inv, fiber \in Fiber, NEW e \in Exts, NEW res \in {"FINISHED", "FAILED"},
           status' = [status EXCEPT ![e] = res], Goto(<<Trigger(e)>> \o stack[fiber]),
           WellFormed(stack[fiber], Begun, fiber),
           UNCHANGED <<fiber, fibers, spawned, readyVars>>
    PROVE  StacksOK' /\ FibersOK' /\ StatusOK' /\ ReadyOK' /\ Begun' = Begun
<1>1. /\ Begun' = Begun /\ Fresh' = Fresh /\ Live' = Live
      /\ \A t \in Tasks : status'[t] = status[t]
  BY NamesAssumption DEF Begun, Fresh, Live, Inv, StatusOK, Awaitables
<1>2. WellFormed(<<Trigger(e)>> \o stack[fiber], Begun, fiber)
  <2>1. /\ Trigger(e) \in Frames /\ Subject(Trigger(e), Begun)
        /\ Trigger(e).k \notin Bottom \cup Calls \cup MainOnly \cup Callers
    BY DEF Trigger, Frame, Frames, Kinds, Owners, Lists, Awaitables, Subject, Bottom,
           Calls, MainOnly, Callers
  <2> QED BY <2>1, Push
<1>3. StacksOK'
  BY <1>1, <1>2, PutStack
<1>4. StatusOK'
  BY <1>1 DEF Inv, StatusOK, TaskStatus
<1> QED BY <1>1, <1>3, <1>4 DEF Inv, FibersOK, ReadyOK, readyVars, Single

(* Frames that may be put on any stack.                                     *)
LEMMA PushAny ==
    ASSUME NEW B, NEW f, NEW s, WellFormed(s, B, f),
           NEW fr \in Frames, Subject(fr, B),
           fr.k \notin Bottom \cup Calls \cup MainOnly \cup Callers
    PROVE  WellFormed(<<fr>> \o s, B, f)
BY Push

(* The outcome of PHP code may be put on any stack.                        *)
LEMMA FinFrame ==
    ASSUME NEW how \in Outcomes, NEW B
    PROVE  /\ Fin(how) \in Frames /\ Subject(Fin(how), B)
           /\ Fin(how).k \notin Bottom \cup Calls \cup MainOnly \cup Callers
BY DEF Outcomes, Fin, Frame, Frames, Kinds, Owners, Subject, Bottom, Calls, MainOnly, Callers

(* So may a loop over the operations of an awaitable.                      *)
LEMMA TriggerFrame ==
    ASSUME NEW x \in Awaitables, NEW B
    PROVE  /\ Trigger(x) \in Frames /\ Subject(Trigger(x), B)
           /\ Trigger(x).k \notin Bottom \cup Calls \cup MainOnly \cup Callers
BY DEF Trigger, Frame, Frames, Kinds, Owners, Lists, Awaitables, Subject, Bottom, Calls,
       MainOnly, Callers

(* A bailout that leaves an inline execution is above a call of PHP code.   *)
LEMMA BailingFrame ==
    ASSUME NEW B
    PROVE  /\ Bailing \in Frames /\ Subject(Bailing, B) /\ Bailing.k = "bail"
           /\ Bailing.k \in Calls /\ Bailing.k \notin Bottom \cup MainOnly \cup Callers
BY DEF Bailing, Frame, Frames, Kinds, Owners, Subject, Bottom, Calls, MainOnly, Callers

(* The two frames that are left with an inline execution whose result is    *)
(* awaited, and what is below them.                                         *)
LEMMA LeaveInline ==
    ASSUME NEW B, NEW f, NEW s, WellFormed(s, B, f), Head(s).k = "ret", s[2].k = "inline"
    PROVE  /\ WellFormed(Tail(s), B, f) /\ Head(Tail(s)) = s[2]
           /\ WellFormed(Tail(Tail(s)), B, f) /\ Head(Tail(Tail(s))).k \in Callers
<1>1. WellFormed(Tail(s), B, f)
  BY Pop DEF Bottom
<1>2. s \in Seq(Frames) /\ s # <<>> /\ Tail(s) \in Seq(Frames) /\ Tail(s) # <<>>
  BY <1>1 DEF WellFormed
<1>3. Head(Tail(s)) = s[2]
  BY <1>2
<1> QED BY <1>1, <1>3, Pop DEF Bottom, Calls

(* What a C call returns to, and a bailout.                                 *)
LEMMA DeliverOK ==
    ASSUME NEW B, NEW f, NEW s, WellFormed(s, B, f), NEW how \in Outcomes
    PROVE  /\ WellFormed(Deliver(how, s), B, f)
           /\ Head(s).k \in Callers => WellFormed(Bail(s), B, f)
<1>1. Head(s).k \in Callers => Head(s).k \notin Bottom
  BY DEF Callers, Bottom
<1>2. Head(s).k \in Callers => WellFormed(Tail(s), B, f)
  BY <1>1, Pop
<1>3. Head(s).k \in Callers => WellFormed(<<Fin(how)>> \o Tail(s), B, f)
  BY <1>2, FinFrame, PushAny
<1>4. Head(s).k \in Callers => WellFormed(Bail(s), B, f)
  <2>1. "exit" \in Outcomes
    BY DEF Outcomes
  <2>2. CASE Head(s).k = "ret" /\ s[2].k = "inline"
    <3>1. WellFormed(Tail(Tail(s)), B, f) /\ Head(Tail(Tail(s))).k \in Callers
      BY <2>2, LeaveInline
    <3> QED BY <2>2, <3>1, BailingFrame, Push DEF Bail
  <2>3. CASE ~(Head(s).k = "ret" /\ s[2].k = "inline")
    BY <1>2, <2>1, <2>3, FinFrame, PushAny DEF Bail
  <2> QED BY <2>2, <2>3
<1> QED BY <1>3, <1>4 DEF Deliver, Callers

(* The code on top of the running fiber ends.                               *)
LEMMA EndCodeOK ==
    ASSUME Inv, InCode, NEW fr \in Frames, Subject(fr, Begun),
           fr.k \notin Bottom \cup Calls \cup MainOnly, EndCode(fr),
           UNCHANGED <<fiber, fibers, status, spawned, readyVars>>
    PROVE  StacksOK' /\ FibersOK' /\ StatusOK' /\ ReadyOK' /\ Begun' = Begun /\ busy' \in Int
<1>1. /\ fiber \in Fiber /\ WellFormed(stack[fiber], Begun, fiber)
      /\ Head(stack[fiber]).k = "code"
  BY Running DEF InCode, Top
<1>2. "code" \in Callers /\ "code" \notin Bottom
  BY DEF Callers, Bottom
<1>3. WellFormed(Tail(stack[fiber]), Begun, fiber) /\ fiber \in Owners
  BY <1>1, <1>2, Pop
<1>4. WellFormed(<<fr>> \o Rest, Begun, fiber)
  BY <1>3, Push DEF Rest
<1>5. busy' \in Int
  BY DEF EndCode, Section, Weight, Inv, RestOK
<1> QED BY <1>1, <1>4, <1>5, GoOn DEF EndCode

(* What leaving a busy section takes from busy_count is a number.          *)
LEMMA SectionInt == \A s : Section(s) \in Int
BY DEF Section, Weight

(* The action Async keeps the invariant.                                   *)
LEMMA StepAsync ==
    ASSUME Inv, NEW t \in Tasks, Async(t)
    PROVE  Inv'
<1>1. /\ status[t] = "NONE" /\ status' = [status EXCEPT ![t] = "INIT"] /\ Enqueue(t)
      /\ UNCHANGED <<fiberVars, spawned, disposed, runs, opVars, loopVars, stopVars>>
  BY DEF Async
<1>2. t \in Awaitables /\ t # Root /\ t \notin spawned
  BY <1>1, NamesAssumption DEF Awaitables, Inv, StatusOK, Begun
<1>3. /\ Begun' = Begun /\ Fresh' = Fresh \cup {t} /\ t \notin Fresh
      /\ \A u \in Tasks : status'[u] = "SUSPENDED" => status[u] = "SUSPENDED"
  BY <1>1, <1>2 DEF Begun, Fresh, Inv, StatusOK, Awaitables
<1>4. ready' = Append(ready, t) /\ idle' = (ready = <<>> \/ idle)
  BY <1>1 DEF Enqueue
<1>5. ReadyOK'
  <2> DEFINE R == spawned \cup Fresh \cup {Root}
  <2>1. ready \in Seq(R) /\ R \subseteq R' /\ t \in R' /\ t \notin R
    BY <1>1, <1>2, <1>3 DEF Inv, ReadyOK
  <2>2. \A i \in DOMAIN ready : ready[i] \in R
    BY <2>1
  <2>3. ready \in Seq(R')
    BY <2>1, SeqMonotonic
  <2>4. ready' \in Seq(R')
    BY <1>4, <2>1, <2>3
  <2> HIDE DEF R
  <2>5. Single(ready', Fresh')
    BY <1>3, <1>4, <2>1, <2>2, <2>3 DEF Inv, ReadyOK, Single
  <2> QED BY <1>4, <2>4, <2>5 DEF ReadyOK, Inv, R
<1>6. StatusOK'
  BY <1>1, <1>3 DEF Inv, StatusOK, TaskStatus
<1>7. StacksOK' /\ FibersOK' /\ OpsOK' /\ RestOK'
  BY <1>1, <1>3 DEF Inv, StacksOK, FibersOK, Live, OpsOK, RestOK, fiberVars, opVars,
     loopVars, stopVars
<1> QED BY <1>5, <1>6, <1>7 DEF Inv

(* The task an await is made for.                                           *)
LEMMA AwaiterOK ==
    ASSUME Inv, NEW x \in Awaitables, MayAwait(x)
    PROVE  /\ fiber \in Fiber /\ WellFormed(stack[fiber], Begun, fiber)
           /\ Top.k \in Callers /\ fiber \in Owners /\ Top \in Frames
           /\ Awaiter \in Begun \cup {Root} /\ Awaiter \in Owners
           /\ Awaiter = Root => fiber = Root
           /\ Awaiter \in Tasks => status[Awaiter] = "RUNNING"
<1>1. Top.k \in Callers /\ Top.k # "end" /\ Top.k \in {"code", "ret"}
  BY DEF MayAwait, InCode, Callers
<1>2. fiber \in Fiber /\ WellFormed(stack[fiber], Begun, fiber)
  BY <1>1, Running
<1>3. Top \in Frames /\ Subject(Top, Begun) /\ fiber \in Owners
  BY <1>1, <1>2, Pop DEF Top
<1>4. Awaiter \in Owners /\ (Awaiter = Root => fiber = Root)
  BY <1>1, <1>3, NamesAssumption DEF Awaiter, InCode, Subject, Owners
<1>5. Awaiter # Root => status[Awaiter] = "RUNNING"
  BY DEF MayAwait, CanAwait
<1>6. Awaiter \in Begun \cup {Root}
  BY <1>4, <1>5 DEF Begun, Owners
<1> QED BY <1>1, <1>2, <1>3, <1>4, <1>5, <1>6, NamesAssumption DEF Owners

(* The action AwaitInline keeps the invariant.                             *)
LEMMA StepAwaitInline ==
    ASSUME Inv, NEW x \in Awaitables, AwaitInline(x)
    PROVE  Inv'
<1>1. /\ MayAwait(x) /\ x \in Tasks /\ x \notin spawned
      /\ ready' = Unlink(ready, x)
      /\ status' = [status EXCEPT ![x] = "RUNNING"]
      /\ runs' = [runs EXCEPT ![x] = @ + 1]
      /\ busy' = busy + Weight(Top.o)
      /\ Goto(<<Code(x), Inline(x, Top.o)>> \o stack[fiber])
      /\ UNCHANGED <<fiber, fibers, spawned, disposed, idle, opVars, caller, stopVars>>
  BY DEF AwaitInline, Inlinable, ReadyWithout, Enter
<1>2. /\ fiber \in Fiber /\ WellFormed(stack[fiber], Begun, fiber)
      /\ Top.k \in Callers /\ Top \in Frames /\ fiber \in Owners
  BY <1>1, AwaiterOK
<1>3. Begun' = Begun \cup {x} /\ Fresh' = Fresh \ {x} /\ x \notin Fresh'
  BY <1>1 DEF Begun, Fresh, Inv, StatusOK
<1>4. StacksOK'
  <2>1. WellFormed(stack[fiber], Begun', fiber)
    BY <1>2, <1>3, Grow
  <2>2. /\ Inline(x, Top.o) \in Frames /\ Subject(Inline(x, Top.o), Begun')
        /\ Inline(x, Top.o).k \notin Bottom \cup MainOnly \cup Callers
        /\ Code(x) \in Frames /\ Subject(Code(x), Begun') /\ Code(x).k = "code"
    BY <1>1, <1>2, <1>3 DEF Inline, Code, Frame, Frames, Kinds, Owners, Subject, Bottom,
       MainOnly, Callers
  <2>3. WellFormed(<<Inline(x, Top.o)>> \o stack[fiber], Begun', fiber)
    BY <1>2, <2>1, <2>2, Push DEF Top
  <2>4. WellFormed(<<Code(x)>> \o (<<Inline(x, Top.o)>> \o stack[fiber]), Begun', fiber)
    BY <1>2, <2>2, <2>3, Push DEF Bottom, MainOnly, Calls
  <2>5. <<Code(x)>> \o (<<Inline(x, Top.o)>> \o stack[fiber])
          = <<Code(x), Inline(x, Top.o)>> \o stack[fiber]
    <3>1. stack[fiber] \in Seq(Frames)
      BY <1>2 DEF WellFormed
    <3>2. \A a, b \in Frames : \A u \in Seq(Frames) : <<a, b>> \o u = <<a>> \o (<<b>> \o u)
      BY TwoInFront
    <3> QED BY <2>2, <3>1, <3>2, Zenon
  <2> QED BY <1>1, <1>2, <1>3, <2>4, <2>5, PutStack
<1>5. ReadyOK'
  <2> DEFINE R == spawned \cup Fresh \cup {Root}
  <2>1. ready \in Seq(R) /\ Single(ready, Fresh)
    BY DEF Inv, ReadyOK
  <2>2. ready' \in Seq(R) /\ Single(ready', Fresh)
    BY <1>1, <2>1, RemoveFirstType, RemoveFirstOnce DEF Unlink
  <2>3. \A i \in DOMAIN ready' : ready'[i] # x
    <3>1. x # Root
      BY <1>1, NamesAssumption
    <3>2. CASE x \in Fresh
      BY <1>1, <2>1, <3>2, RemoveFirstOnce DEF Unlink
    <3>3. CASE x \notin Fresh
      BY <1>1, <2>2, <3>1, <3>3
    <3> QED BY <3>2, <3>3
  <2>4. ready' \in Seq(R')
    <3>1. \A i \in 1..Len(ready') : ready'[i] \in R'
      BY <1>1, <1>3, <2>2, <2>3
    <3> QED BY <2>2, <3>1
  <2>5. Single(ready', Fresh')
    BY <1>3, <2>2 DEF Single
  <2> QED BY <1>1, <2>4, <2>5 DEF Inv, ReadyOK
<1>6. StatusOK'
  BY <1>1, <1>3 DEF Inv, StatusOK, TaskStatus
<1>7. FibersOK'
  BY <1>1 DEF Inv, FibersOK, Live
<1>8. OpsOK'
  <2>1. Seq(Begun \cup {Root}) \subseteq Seq(Begun' \cup {Root})
    BY <1>3, SeqMonotonic
  <2> QED BY <1>1, <2>1 DEF Inv, OpsOK, opVars
<1>9. RestOK'
  BY <1>1 DEF Inv, RestOK, Weight, stopVars
<1> QED BY <1>4, <1>5, <1>6, <1>7, <1>8, <1>9 DEF Inv

(* The action AwaitBlock keeps the invariant.                              *)
LEMMA StepAwaitBlock ==
    ASSUME Inv, NEW x \in Awaitables, AwaitBlock(x)
    PROVE  Inv'
<1> DEFINE s == <<Await(x, Awaiter)>> \o stack[fiber]
<1>1. /\ MayAwait(x)
      /\ op' = [op EXCEPT ![Awaiter] = [NoOp EXCEPT !.status = "RUNNING"]]
      /\ ops' = [ops EXCEPT ![x] = Append(@, Awaiter)]
      /\ busy' = busy + Weight(Top.o)
      /\ Goto(s) /\ Suspend
      /\ caller' = IF Awaiter = Root THEN fiber ELSE caller
      /\ UNCHANGED <<taskVars, readyVars, callbacks, issued, stopVars>>
  BY DEF AwaitBlock, Enter, RunLoop
<1>2. /\ fiber \in Fiber /\ WellFormed(stack[fiber], Begun, fiber)
      /\ Top.k \in Callers /\ Awaiter \in Begun \cup {Root} /\ Awaiter \in Owners
      /\ Awaiter = Root => fiber = Root
  BY <1>1, AwaiterOK
<1>3. WellFormed(s, Begun, fiber)
  <2>1. /\ Await(x, Awaiter) \in Frames /\ Subject(Await(x, Awaiter), Begun)
        /\ Await(x, Awaiter).k \notin Bottom \cup MainOnly \cup Callers
    BY <1>2 DEF Await, Frame, Frames, Kinds, Lists, Subject, Bottom, MainOnly, Callers
  <2> QED BY <1>2, <2>1, Push DEF Top
<1>4. StacksOK' /\ FibersOK' /\ StatusOK' /\ ReadyOK' /\ Begun' = Begun
  BY <1>1, <1>2, <1>3, Yield DEF taskVars
<1>5. OpsOK'
  <2>1. [NoOp EXCEPT !.status = "RUNNING"] \in OpRecord
    BY DEF NoOp, OpRecord
  <2>2. Append(ops[x], Awaiter) \in Seq(Begun \cup {Root})
    BY <1>2 DEF Inv, OpsOK, Lists
  <2> QED BY <1>1, <1>2, <1>4, <2>1, <2>2 DEF Inv, OpsOK
<1>6. RestOK'
  BY <1>1, <1>2 DEF Inv, RestOK, Weight, taskVars, stopVars
<1> QED BY <1>4, <1>5, <1>6 DEF Inv

(* The action AwaitOp keeps the invariant.                                 *)
LEMMA StepAwaitOp ==
    ASSUME Inv, NEW q \in Queues, AwaitOp(q)
    PROVE  Inv'
<1> DEFINE s == <<Wait(q, Top.o)>> \o stack[fiber]
<1>1. /\ Top.k = "code" /\ CanAwait(fiber)
      /\ op' = [op EXCEPT ![fiber] = [NoOp EXCEPT !.status = "RUNNING"]]
      /\ ops' = [ops EXCEPT ![q] = Append(@, fiber)]
      /\ callbacks' \in {callbacks, Append(callbacks, fiber)}
      /\ busy' \in {busy, busy + Weight(Top.o)}
      /\ issued' = issued + 1
      /\ Goto(s) /\ Suspend
      /\ caller' = IF fiber = Root THEN fiber ELSE caller
      /\ status' = IF fiber = Root THEN status ELSE [status EXCEPT ![fiber] = "SUSPENDED"]
      /\ UNCHANGED <<spawned, disposed, runs, readyVars, stopVars>>
  BY DEF AwaitOp, Enter, RunLoop, InCode
<1>2. /\ fiber \in Fiber /\ WellFormed(stack[fiber], Begun, fiber) /\ Top \in Frames
      /\ Top.k \in Callers /\ fiber \in Owners
  <2>1. fiber \in Fiber /\ WellFormed(stack[fiber], Begun, fiber)
    BY <1>1, Running
  <2>2. "code" \in Callers
    BY DEF Callers
  <2> QED BY <1>1, <2>1, <2>2, Pop DEF Top
<1>3. fiber # Root => fiber \in Begun /\ fiber \in spawned /\ fiber \in Tasks
  BY <1>2, NamesAssumption DEF Inv, FibersOK, StatusOK, Live, Owners
<1>4. /\ Begun' = Begun /\ Fresh' = Fresh
      /\ \A t \in Tasks : status'[t] = "SUSPENDED" => t \in spawned
  BY <1>1, <1>3 DEF Begun, Fresh, Inv, StatusOK
<1>5. WellFormed(s, Begun, fiber)
  <2>1. /\ Wait(q, Top.o) \in Frames /\ Subject(Wait(q, Top.o), Begun)
        /\ Wait(q, Top.o).k \notin Bottom \cup MainOnly \cup Callers
    BY <1>2 DEF Wait, Frame, Frames, Kinds, Lists, Subject, Bottom, MainOnly, Callers
  <2> QED BY <1>2, <2>1, Push DEF Top
<1>6. StacksOK' /\ FibersOK'
  BY <1>1, <1>2, <1>4, <1>5, PutStack, SuspendOK
<1>7. StatusOK'
  BY <1>1, <1>4 DEF Inv, StatusOK, TaskStatus
<1>8. ReadyOK'
  BY <1>1, <1>4 DEF Inv, ReadyOK, readyVars, Single
<1>9. OpsOK'
  <2>1. [NoOp EXCEPT !.status = "RUNNING"] \in OpRecord
    BY DEF NoOp, OpRecord
  <2>2. fiber \in Begun \cup {Root}
    BY <1>3
  <2>3. Append(ops[q], fiber) \in Seq(Begun \cup {Root})
    BY <2>2 DEF Inv, OpsOK, Lists
  <2>4. callbacks' \in Seq(Begun \cup {Root})
    <3>1. callbacks \in Seq(Begun \cup {Root})
      BY DEF Inv, OpsOK
    <3>2. Append(callbacks, fiber) \in Seq(Begun \cup {Root})
      BY <2>2, <3>1
    <3>3. callbacks' = callbacks \/ callbacks' = Append(callbacks, fiber)
      BY <1>1
    <3> QED BY <3>1, <3>2, <3>3
  <2>5. op' \in [Owners -> OpRecord] /\ issued' \in Nat
    BY <1>1, <1>2, <2>1 DEF Inv, OpsOK
  <2>6. ops' \in [Lists -> Seq(Begun \cup {Root})]
    BY <1>1, <2>3 DEF Inv, OpsOK
  <2> QED BY <1>4, <2>4, <2>5, <2>6 DEF OpsOK
<1>10. RestOK'
  BY <1>1 DEF Inv, RestOK, Weight, stopVars
<1> QED BY <1>6, <1>7, <1>8, <1>9, <1>10 DEF Inv

(* The action SettleExt keeps the invariant.                               *)
LEMMA StepSettleExt ==
    ASSUME Inv, NEW e \in Exts, NEW res \in {"FINISHED", "FAILED"}, SettleExt(e, res)
    PROVE  Inv'
<1>1. /\ Top.k = "code" /\ status' = [status EXCEPT ![e] = res]
      /\ Goto(<<Trigger(e)>> \o stack[fiber])
      /\ UNCHANGED <<fiber, fibers, spawned, disposed, runs, readyVars, opVars, loopVars,
                     stopVars>>
  BY DEF SettleExt, InCode
<1>2. fiber \in Fiber /\ WellFormed(stack[fiber], Begun, fiber)
  BY <1>1, Running
<1>3. StacksOK' /\ FibersOK' /\ StatusOK' /\ ReadyOK' /\ Begun' = Begun
  BY <1>1, <1>2, SettleExtOK
<1>4. OpsOK' /\ RestOK'
  BY <1>1, <1>3 DEF Inv, OpsOK, RestOK, opVars, loopVars, stopVars
<1> QED BY <1>3, <1>4 DEF Inv

(* The first operation of a list belongs to somebody who has begun.         *)
LEMMA FirstOwner ==
    ASSUME Inv, NEW l \in Lists, ops[l] # <<>>
    PROVE  Head(ops[l]) \in Begun \cup {Root}
<1>1. ops[l] \in Seq(Begun \cup {Root})
  BY DEF Inv, OpsOK
<1> QED BY <1>1

(* The action Signal keeps the invariant.                                  *)
LEMMA StepSignal ==
    ASSUME Inv, NEW q \in Queues, NEW defer \in BOOLEAN, Signal(q, defer)
    PROVE  Inv'
<1>1. /\ Top.k = "code" /\ ops[q] # <<>>
      /\ SettleOp(q, Head(ops[q]), "RESOLVED", defer, stack[fiber])
      /\ UNCHANGED <<spawned, disposed, runs, callbacks, issued, loopVars, stopVars>>
  BY DEF Signal, InCode
<1>2. fiber \in Fiber /\ WellFormed(stack[fiber], Begun, fiber) /\ q \in Lists
  BY <1>1, Running DEF Lists
<1>3. StacksOK' /\ FibersOK' /\ StatusOK' /\ ReadyOK' /\ OpsOK'
  BY <1>1, <1>2, FirstOwner, SettleOK
<1>4. RestOK'
  BY <1>1 DEF Inv, RestOK, loopVars, stopVars
<1> QED BY <1>3, <1>4 DEF Inv

(* The action CancelCall keeps the invariant.                              *)
LEMMA StepCancelCall ==
    ASSUME Inv, CancelCall
    PROVE  Inv'
<1>1. /\ Top.k = "code" /\ triggered' = TRUE /\ Goto(<<Cancel>> \o stack[fiber])
      /\ UNCHANGED <<fiber, fibers, taskVars, readyVars, opVars, loopVars, stopped, uvstop,
                     closed>>
  BY DEF CancelCall, InCode
<1>2. fiber \in Fiber /\ WellFormed(stack[fiber], Begun, fiber)
  BY <1>1, Running
<1>3. WellFormed(<<Cancel>> \o stack[fiber], Begun, fiber)
  BY <1>2, PushAny DEF Cancel, Frame, Frames, Kinds, Owners, Subject, Bottom, Calls,
     MainOnly, Callers
<1>4. StacksOK' /\ FibersOK' /\ StatusOK' /\ ReadyOK' /\ Begun' = Begun
  BY <1>1, <1>2, <1>3, GoOn DEF taskVars
<1>5. OpsOK' /\ RestOK'
  BY <1>1, <1>4 DEF Inv, OpsOK, RestOK, taskVars, opVars, loopVars
<1> QED BY <1>4, <1>5 DEF Inv

(* The ways PHP code ends keep the invariant.                              *)
LEMMA StepEndCode ==
    ASSUME Inv, InCode, NEW fr \in Frames, Subject(fr, Begun),
           fr.k \notin Bottom \cup Calls \cup MainOnly, EndCode(fr),
           UNCHANGED <<fiber, fibers, taskVars, readyVars, opVars, caller, stopVars>>
    PROVE  Inv'
<1>1. StacksOK' /\ FibersOK' /\ StatusOK' /\ ReadyOK' /\ Begun' = Begun /\ busy' \in Int
  BY EndCodeOK DEF taskVars
<1>2. OpsOK' /\ RestOK'
  BY <1>1 DEF Inv, OpsOK, RestOK, taskVars, opVars, stopVars
<1> QED BY <1>1, <1>2 DEF Inv

(* The action Return keeps the invariant.                                  *)
LEMMA StepReturn ==
    ASSUME Inv, NEW how \in {"ok", "fail"}, Return(how)
    PROVE  Inv'
<1>1. how \in Outcomes
  BY DEF Outcomes
<1> QED BY <1>1, FinFrame, StepEndCode DEF Return

(* The action ReturnAwaitable keeps the invariant.                         *)
LEMMA StepReturnAwaitable ==
    ASSUME Inv, NEW x \in Awaitables, ReturnAwaitable(x)
    PROVE  Inv'
<1>1. Top.k = "code" /\ Top.o # Root
  BY DEF ReturnAwaitable, InCode
<1>2. Top.o \in Tasks
  <2>1. fiber \in Fiber /\ WellFormed(stack[fiber], Begun, fiber)
    BY <1>1, Running
  <2>2. Top \in Frames
    BY <2>1, Pop DEF Top
  <2>3. Top.o \in Owners
    BY <2>2 DEF Frames
  <2> QED BY <1>1, <2>3 DEF Owners
<1>3. /\ Ret(x, Top.o) \in Frames /\ Subject(Ret(x, Top.o), Begun)
      /\ Ret(x, Top.o).k \notin Bottom \cup Calls \cup MainOnly
  BY <1>2 DEF Ret, Frame, Frames, Kinds, Owners, Lists, Subject, Bottom, Calls, MainOnly
<1> QED BY <1>3, StepEndCode DEF ReturnAwaitable

(* The action Exit keeps the invariant.                                    *)
LEMMA StepExit ==
    ASSUME Inv, Exit
    PROVE  Inv'
<1>1. "exit" \in Outcomes
  BY DEF Outcomes
<1> QED BY <1>1, FinFrame, StepEndCode DEF Exit

(* PHP code keeps the invariant.                                            *)
LEMMA StepPhpCode ==
    ASSUME Inv, PhpCode
    PROVE  Inv'
BY StepAsync, StepAwaitInline, StepAwaitBlock, StepReturnAwaitable, StepAwaitOp, StepSignal,
   StepSettleExt, StepCancelCall, StepExit, StepReturn DEF PhpCode
-------------------------------------------------------------------------------
(* The action ReturnSettled keeps the invariant.                           *)
LEMMA StepReturnSettled ==
    ASSUME Inv, ReturnSettled
    PROVE  Inv'
<1>1. /\ Top.k = "ret"
      /\ \E how \in Outcomes : Goto(Deliver(how, stack[fiber]))
      /\ UNCHANGED <<fiber, fibers, taskVars, readyVars, opVars, loopVars, stopVars>>
  BY DEF ReturnSettled, HowOf, Outcomes
<1>2. fiber \in Fiber /\ WellFormed(stack[fiber], Begun, fiber)
  BY <1>1, Running
<1>3. PICK how \in Outcomes : Goto(Deliver(how, stack[fiber]))
  BY <1>1
<1>4. StacksOK' /\ FibersOK' /\ StatusOK' /\ ReadyOK' /\ Begun' = Begun
  BY <1>1, <1>2, <1>3, DeliverOK, GoOn DEF taskVars
<1>5. OpsOK' /\ RestOK'
  BY <1>1, <1>4 DEF Inv, OpsOK, RestOK, taskVars, opVars, loopVars, stopVars
<1> QED BY <1>4, <1>5 DEF Inv

(* The actions ReturnInlined and Unwind keep the invariant.                *)
LEMMA StepReturnInlined ==
    ASSUME Inv, ReturnInlined \/ Unwind
    PROVE  Inv'
<1>1. /\ Top.k \in {"inlined", "bail"}
      /\ \/ Goto(Bail(Rest)) /\ busy' = busy - Section(Rest)
         \/ (\E how \in Outcomes : Goto(Deliver(how, Rest))) /\ UNCHANGED busy
      /\ UNCHANGED <<fiber, fibers, taskVars, readyVars, opVars, caller, stopVars>>
  BY DEF ReturnInlined, Unwind, HowOf, Outcomes
<1>2. fiber \in Fiber /\ WellFormed(stack[fiber], Begun, fiber)
  BY <1>1, Running
<1>3. WellFormed(Rest, Begun, fiber) /\ Head(Rest).k \in Callers
  BY <1>1, <1>2, Pop DEF Top, Rest, Calls, Bottom
<1>4. "ok" \in Outcomes
  BY DEF Outcomes
<1>5. \E s : WellFormed(s, Begun, fiber) /\ Goto(s)
  BY <1>1, <1>3, <1>4, DeliverOK
<1>6. StacksOK' /\ FibersOK' /\ StatusOK' /\ ReadyOK' /\ Begun' = Begun
  BY <1>1, <1>2, <1>5, GoOn DEF taskVars
<1>7. OpsOK' /\ RestOK'
  BY <1>1, <1>6, SectionInt DEF Inv, OpsOK, RestOK, taskVars, opVars, stopVars
<1> QED BY <1>6, <1>7 DEF Inv

(* The action TriggerOps keeps the invariant.                              *)
LEMMA StepTriggerOps ==
    ASSUME Inv, TriggerOps
    PROVE  Inv'
<1>1. Top.k = "trigger" /\ UNCHANGED <<spawned, disposed, runs, callbacks, issued, loopVars,
                                       stopVars>>
  BY DEF TriggerOps
<1>2. /\ fiber \in Fiber /\ WellFormed(stack[fiber], Begun, fiber)
      /\ Top.x \in Awaitables /\ Top.x \in Lists
      /\ WellFormed(Rest, Begun, fiber)
  BY <1>1, Running, Pop DEF Top, Rest, Bottom, Subject, Lists
<1>3. CASE /\ Goto(Rest) /\ UNCHANGED <<fiber, fibers, status, readyVars, op, ops>>
  <2>1. StacksOK' /\ FibersOK' /\ StatusOK' /\ ReadyOK' /\ Begun' = Begun
    BY <1>1, <1>2, <1>3, GoOn
  <2> QED BY <1>1, <1>3, <2>1 DEF Inv, OpsOK, RestOK, loopVars, stopVars
<1>4. CASE ops[Top.x] # <<>> /\ SettleOp(Top.x, Head(ops[Top.x]), Verdict(Top.x), FALSE, Again)
  <2>1. Verdict(Top.x) \in {"RESOLVED", "FAILED"} /\ Again = stack[fiber]
    BY DEF Verdict, Again
  <2>2. StacksOK' /\ FibersOK' /\ StatusOK' /\ ReadyOK' /\ OpsOK'
    BY <1>1, <1>2, <1>4, <2>1, FirstOwner, SettleOK
  <2> QED BY <1>1, <2>2 DEF Inv, RestOK, loopVars, stopVars
<1> QED BY <1>3, <1>4 DEF TriggerOps

(* The action AfterSwitch keeps the invariant.                             *)
LEMMA StepAfterSwitch ==
    ASSUME Inv, AfterSwitch
    PROVE  Inv'
<1>1. /\ Top.k = "resched"
      /\ UNCHANGED <<fiber, fibers, status, spawned, runs, readyVars, opVars, loopVars, stopVars>>
      /\ \/ disposed' = disposed \cup {Top.x} /\ Goto(<<Trigger(Top.x)>> \o Rest)
         \/ Goto(Rest) /\ UNCHANGED disposed
  BY DEF AfterSwitch
<1>2. /\ fiber \in Fiber /\ WellFormed(stack[fiber], Begun, fiber)
      /\ Top.x \in Tasks /\ Top.x \in Awaitables
      /\ WellFormed(Rest, Begun, fiber)
  BY <1>1, Running, Pop DEF Top, Rest, Bottom, Subject, Awaitables
<1>3. WellFormed(<<Trigger(Top.x)>> \o Rest, Begun, fiber)
  BY <1>2, TriggerFrame, PushAny
<1>4. StacksOK' /\ FibersOK' /\ StatusOK' /\ ReadyOK' /\ Begun' = Begun
  BY <1>1, <1>2, <1>3, GoOn
<1>5. OpsOK' /\ RestOK'
  BY <1>1, <1>2, <1>4 DEF Inv, OpsOK, RestOK, opVars, loopVars, stopVars
<1> QED BY <1>4, <1>5 DEF Inv

(* The action SuspendForGood keeps the invariant.                          *)
LEMMA StepSuspendForGood ==
    ASSUME Inv, SuspendForGood
    PROVE  Inv'
<1>1. Suspend /\ UNCHANGED <<stack, taskVars, readyVars, opVars, loopVars, stopVars>>
  BY DEF SuspendForGood
<1>2. FibersOK'
  BY <1>1, SuspendOK DEF taskVars
<1>3. Begun' = Begun /\ Fresh' = Fresh
  BY <1>1 DEF Begun, Fresh, taskVars
<1> QED BY <1>1, <1>2, <1>3 DEF Inv, StacksOK, StatusOK, ReadyOK, Single, OpsOK, RestOK,
     taskVars, readyVars, opVars, loopVars, stopVars

(* The action ResumeAwait keeps the invariant.                             *)
LEMMA StepResumeAwait ==
    ASSUME Inv, ResumeAwait
    PROVE  Inv'
<1>1. /\ Top.k = "await"
      /\ \/ Goto(Bail(Rest)) \/ \E how \in Outcomes : Goto(Deliver(how, Rest))
      /\ ops' \in {ops, [ops EXCEPT ![Top.x] = DropOp(Top.x, Top.o)]}
      /\ op' \in {op, [op EXCEPT ![Top.o] = NoOp]}
      /\ \E w, v \in Int : busy' = busy - w - v
      /\ caller' \in {caller, NoFiber}
      /\ UNCHANGED <<fiber, fibers, taskVars, readyVars, callbacks, issued, stopVars>>
  <2>1. Weight(Head(Rest).o) \in Int /\ Section(Rest) \in Int
    BY SectionInt DEF Weight
  <2>2. HowOf(op[Top.o].status) \in Outcomes
    BY DEF HowOf, Outcomes
  <2>3. Top.k = "await" /\ caller' \in {caller, NoFiber}
        /\ UNCHANGED <<fiber, fibers, taskVars, readyVars, callbacks, issued, stopVars>>
    BY DEF ResumeAwait, LeaveLoop
  <2>4. CASE stopped # {}
    BY <2>1, <2>3, <2>4 DEF ResumeAwait
  <2>5. CASE stopped = {}
    <3>1. busy' = busy - Weight(Head(Rest).o) - 0
      BY <2>1, <2>5 DEF ResumeAwait, Inv, RestOK
    <3>2. op' \in {op, [op EXCEPT ![Top.o] = NoOp]}
      BY <2>5 DEF ResumeAwait, Inv, OpsOK
    <3> QED BY <2>1, <2>2, <2>3, <2>5, <3>1, <3>2 DEF ResumeAwait
  <2> QED BY <2>4, <2>5
<1>2. fiber \in Fiber /\ WellFormed(stack[fiber], Begun, fiber)
  BY <1>1, Running
<1>3. /\ WellFormed(Rest, Begun, fiber) /\ Head(Rest).k \in Callers
      /\ Top \in Frames /\ Top.x \in Awaitables
  BY <1>1, <1>2, Pop DEF Top, Rest, Calls, Bottom, Subject
<1>4. "ok" \in Outcomes
  BY DEF Outcomes
<1>5. \E s : WellFormed(s, Begun, fiber) /\ Goto(s)
  BY <1>1, <1>3, <1>4, DeliverOK
<1>6. StacksOK' /\ FibersOK' /\ StatusOK' /\ ReadyOK' /\ Begun' = Begun
  BY <1>1, <1>2, <1>5, GoOn DEF taskVars
<1>7. OpsOK'
  <2>1. Top.x \in Lists /\ Top.o \in Owners
    BY <1>3 DEF Frames, Lists
  <2>2. DropOp(Top.x, Top.o) \in Seq(Begun \cup {Root})
    <3>1. ops[Top.x] \in Seq(Begun \cup {Root})
      BY <2>1 DEF Inv, OpsOK
    <3> QED BY <3>1, RemoveFirstType DEF DropOp, Unlink
  <2>3. NoOp \in OpRecord
    BY DEF NoOp, OpRecord
  <2>4. op' \in [Owners -> OpRecord]
    BY <1>1, <2>1, <2>3 DEF Inv, OpsOK
  <2>5. ops' \in [Lists -> Seq(Begun \cup {Root})]
    BY <1>1, <2>1, <2>2 DEF Inv, OpsOK
  <2> QED BY <1>1, <1>6, <2>4, <2>5 DEF Inv, OpsOK
<1>8. RestOK'
  BY <1>1 DEF Inv, RestOK, taskVars, stopVars
<1> QED BY <1>6, <1>7, <1>8 DEF Inv

(* The action ResumeOp keeps the invariant.                                *)
LEMMA StepResumeOp ==
    ASSUME Inv, ResumeOp
    PROVE  Inv'
<1>1. /\ Top.k = "wait"
      /\ callbacks' = Unlink(callbacks, fiber)
      /\ ops' = [ops EXCEPT ![Top.x] = DropOp(Top.x, fiber)]
      /\ op' = [op EXCEPT ![fiber] = NoOp]
      /\ Goto(Bail(Rest)) \/ Goto(Rest)
      /\ busy' \in {busy, busy - Weight(Top.o), busy - Section(Rest)}
      /\ caller' \in {caller, NoFiber}
      /\ UNCHANGED <<fiber, fibers, taskVars, readyVars, issued, stopVars>>
  BY DEF ResumeOp, Leave, LeaveLoop
<1>2. fiber \in Fiber /\ WellFormed(stack[fiber], Begun, fiber)
  BY <1>1, Running
<1>3. /\ WellFormed(Rest, Begun, fiber) /\ Head(Rest).k \in Callers
      /\ Top \in Frames /\ Top.x \in Queues
  BY <1>1, <1>2, Pop DEF Top, Rest, Calls, Bottom, Subject
<1>4. "ok" \in Outcomes
  BY DEF Outcomes
<1>5. \E s : WellFormed(s, Begun, fiber) /\ Goto(s)
  BY <1>1, <1>3, <1>4, DeliverOK
<1>6. StacksOK' /\ FibersOK' /\ StatusOK' /\ ReadyOK' /\ Begun' = Begun
  BY <1>1, <1>2, <1>5, GoOn DEF taskVars
<1>7. OpsOK'
  <2>1. Top.x \in Lists
    BY <1>3 DEF Lists
  <2>2. DropOp(Top.x, fiber) \in Seq(Begun \cup {Root})
    <3>1. ops[Top.x] \in Seq(Begun \cup {Root})
      BY <2>1 DEF Inv, OpsOK
    <3> QED BY <3>1, RemoveFirstType DEF DropOp, Unlink
  <2>3. callbacks' \in Seq(Begun \cup {Root})
    BY <1>1, RemoveFirstType DEF Inv, OpsOK, Unlink
  <2>4. op' \in [Owners -> OpRecord]
    BY <1>1 DEF NoOp, OpRecord, Inv, OpsOK
  <2>5. ops' \in [Lists -> Seq(Begun \cup {Root})]
    BY <1>1, <2>1, <2>2 DEF Inv, OpsOK
  <2> QED BY <1>1, <1>6, <2>3, <2>4, <2>5 DEF Inv, OpsOK
<1>8. RestOK'
  BY <1>1, SectionInt DEF Inv, RestOK, Weight, taskVars, stopVars
<1> QED BY <1>6, <1>7, <1>8 DEF Inv

(* The action CancelOps keeps the invariant.                               *)
LEMMA StepCancelOps ==
    ASSUME Inv, CancelOps
    PROVE  Inv'
<1>1. Top.k = "cancel" /\ UNCHANGED <<spawned, disposed, runs, ops, issued, loopVars, stopVars>>
  BY DEF CancelOps
<1>2. /\ fiber \in Fiber /\ WellFormed(stack[fiber], Begun, fiber)
      /\ WellFormed(Rest, Begun, fiber)
  BY <1>1, Running, Pop DEF Top, Rest, Bottom
<1>3. CASE Goto(Rest) /\ UNCHANGED <<fiber, fibers, status, readyVars, op, callbacks>>
  <2>1. StacksOK' /\ FibersOK' /\ StatusOK' /\ ReadyOK' /\ Begun' = Begun
    BY <1>1, <1>2, <1>3, GoOn
  <2> QED BY <1>1, <1>3, <2>1 DEF Inv, OpsOK, RestOK, loopVars, stopVars
<1>4. CASE callbacks # <<>>
  <2> DEFINE o == Head(callbacks)
  <2>1. o \in Begun \cup {Root} /\ callbacks' \in Seq(Begun \cup {Root}) /\ o \in Owners
    <3>1. callbacks \in Seq(Begun \cup {Root}) /\ callbacks' = Tail(callbacks)
      BY <1>4 DEF CancelOps, Inv, OpsOK
    <3>2. o \in Begun \cup {Root} /\ callbacks' \in Seq(Begun \cup {Root})
      BY <1>4, <3>1
    <3> QED BY <3>2 DEF Begun, Owners
  <2>2. /\ op' \in [Owners -> OpRecord]
        /\ \/ Wake(o, op[o].defer, Again) /\ op[o].defer \in BOOLEAN
           \/ UNCHANGED <<fiber, fibers, stack, status, readyVars>>
    <3>1. op \in [Owners -> OpRecord] /\ op[o] \in OpRecord
      BY <2>1 DEF Inv, OpsOK
    <3>2. /\ op[o].defer \in BOOLEAN
          /\ [op EXCEPT ![o].status = "FAILED", ![o].cancelled = TRUE] \in [Owners -> OpRecord]
      BY <3>1, <2>1 DEF OpRecord
    <3> QED BY <1>4, <3>1, <3>2 DEF CancelOps
  <2>3. StacksOK' /\ FibersOK' /\ StatusOK' /\ ReadyOK' /\ Begun' = Begun
    <3>1. CASE Wake(o, op[o].defer, Again) /\ op[o].defer \in BOOLEAN
      BY <1>1, <1>2, <2>1, <3>1, WakeOK DEF Again
    <3>2. CASE UNCHANGED <<fiber, fibers, stack, status, readyVars>>
      BY <1>1, <3>2 DEF Inv, StacksOK, FibersOK, StatusOK, ReadyOK, Single, Begun, Fresh,
         Live, readyVars
    <3> QED BY <2>2, <3>1, <3>2
  <2>4. OpsOK' /\ RestOK'
    BY <1>1, <2>1, <2>2, <2>3 DEF Inv, OpsOK, RestOK, loopVars, stopVars
  <2> QED BY <2>3, <2>4 DEF Inv
<1> QED BY <1>3, <1>4 DEF CancelOps

(* A task that has begun is over.                                           *)
LEMMA SettleTaskOK ==
    ASSUME Inv, fiber \in Fiber, NEW t \in Begun, NEW res \in {"FINISHED", "FAILED"},
           status' = [status EXCEPT ![t] = res],
           NEW s, WellFormed(s, Begun, fiber), Goto(s),
           UNCHANGED <<fiber, fibers, spawned, readyVars>>
    PROVE  StacksOK' /\ FibersOK' /\ StatusOK' /\ ReadyOK' /\ Begun' = Begun
<1>1. t \in Tasks /\ t \in Awaitables /\ t \notin Fresh
  BY DEF Begun, Awaitables, Fresh
<1>2. /\ Begun' = Begun /\ Fresh' = Fresh /\ Live' = Live
      /\ \A u \in Tasks : status'[u] = "SUSPENDED" => status[u] = "SUSPENDED"
  BY <1>1 DEF Begun, Fresh, Live, Inv, StatusOK, Awaitables
<1>3. StacksOK'
  BY <1>2, PutStack
<1>4. StatusOK'
  BY <1>1, <1>2 DEF Inv, StatusOK, TaskStatus
<1> QED BY <1>2, <1>3, <1>4 DEF Inv, FibersOK, ReadyOK, readyVars, Single

(* handle_exit and handle_error keep their flags in type.                  *)
LEMMA StopOK ==
    ASSUME Inv, NEW why \in {"error", "exit"}, Stop(why)
    PROVE  stopped' \subseteq {"error", "exit"} /\ uvstop' \in BOOLEAN
BY DEF Stop, Active, Inv, RestOK

(* The frame below an outcome is that of the code that has ended.           *)
LEMMA Below ==
    ASSUME Inv, NEW how \in Outcomes, Top = Fin(how)
    PROVE  /\ fiber \in Fiber /\ WellFormed(stack[fiber], Begun, fiber)
           /\ WellFormed(Rest, Begun, fiber)
<1>1. Top.k # "end" /\ Top.k \notin Bottom
  BY DEF Fin, Frame, Outcomes, Bottom
<1> QED BY <1>1, Running, Pop DEF Top, Rest

(* The action FinishBody keeps the invariant.                              *)
LEMMA StepFinishBody ==
    ASSUME Inv, NEW how \in Outcomes, FinishBody(how)
    PROVE  Inv'
<1> DEFINE t == Head(Rest).x
<1>1. /\ Top = Fin(how) /\ Head(Rest).k = "body"
      /\ UNCHANGED <<fiber, fibers, spawned, disposed, runs, readyVars, opVars, loopVars,
                     triggered, closed>>
  BY DEF FinishBody
<1>2. /\ fiber \in Fiber /\ WellFormed(stack[fiber], Begun, fiber)
      /\ t \in Begun /\ t \in Awaitables
  <2>1. /\ fiber \in Fiber /\ WellFormed(stack[fiber], Begun, fiber)
        /\ WellFormed(Rest, Begun, fiber)
    BY <1>1, Below
  <2>2. Subject(Head(Rest), Begun)
    BY <2>1, Pop
  <2> QED BY <1>1, <2>1, <2>2 DEF Subject, Begun, Awaitables
<1>3. WellFormed(<<End>>, Begun, fiber)
  BY Ground DEF End, Frame, Frames, Kinds, Owners, Subject, Bottom, MainOnly
<1>4. WellFormed(<<Trigger(t), End>>, Begun, fiber)
  <2>1. WellFormed(<<Trigger(t)>> \o <<End>>, Begun, fiber)
    BY <1>2, <1>3, TriggerFrame, PushAny
  <2>2. Trigger(t) \in Frames /\ End \in Frames
    BY <1>2, TriggerFrame DEF End, Frame, Frames, Kinds, Owners
  <2> QED BY <2>1, <2>2, PairIsConcat
<1>5. CASE Stop("exit") /\ Goto(<<End>>) /\ UNCHANGED status
  <2>1. StacksOK' /\ FibersOK' /\ StatusOK' /\ ReadyOK' /\ Begun' = Begun
    BY <1>1, <1>2, <1>3, <1>5, GoOn
  <2>2. RestOK'
    BY <1>1, <1>5, StopOK DEF Inv, RestOK, loopVars
  <2> QED BY <1>1, <2>1, <2>2 DEF Inv, OpsOK, opVars
<1>6. CASE /\ status' = [status EXCEPT ![t] = IF how = "ok" THEN "FINISHED" ELSE "FAILED"]
           /\ Goto(<<Trigger(t), End>>) /\ UNCHANGED <<stopped, uvstop>>
  <2>1. StacksOK' /\ FibersOK' /\ StatusOK' /\ ReadyOK' /\ Begun' = Begun
    BY <1>1, <1>2, <1>4, <1>6, SettleTaskOK
  <2>2. RestOK'
    BY <1>1, <1>6 DEF Inv, RestOK, loopVars
  <2> QED BY <1>1, <2>1, <2>2 DEF Inv, OpsOK, opVars
<1> QED BY <1>5, <1>6 DEF FinishBody

(* The action FinishInline keeps the invariant.                            *)
LEMMA StepFinishInline ==
    ASSUME Inv, NEW how \in Outcomes, FinishInline(how)
    PROVE  Inv'
<1> DEFINE t == Head(Rest).x
           s == <<Inlined(t)>> \o Tail(Rest)
<1>1. /\ Top = Fin(how) /\ Head(Rest).k = "inline"
      /\ status' = [status EXCEPT ![t] = IF how = "fail" THEN "FAILED" ELSE "FINISHED"]
      /\ disposed' = disposed \cup {t}
      /\ Goto(s) \/ Goto(<<Trigger(t)>> \o s)
      /\ Stop("exit") \/ UNCHANGED <<stopped, uvstop>>
      /\ UNCHANGED <<fiber, fibers, spawned, runs, readyVars, opVars, loopVars, triggered, closed>>
  BY DEF FinishInline
<1>2. /\ fiber \in Fiber /\ WellFormed(stack[fiber], Begun, fiber)
      /\ WellFormed(Rest, Begun, fiber)
  BY <1>1, Below
<1>3. /\ t \in Begun /\ t \in Tasks /\ t \in Awaitables
      /\ WellFormed(Tail(Rest), Begun, fiber) /\ Head(Tail(Rest)).k \in Callers
  <2>1. Head(Rest).k \in Calls /\ Head(Rest).k \notin Bottom
    BY <1>1 DEF Bottom, Calls
  <2>2. /\ Subject(Head(Rest), Begun)
        /\ WellFormed(Tail(Rest), Begun, fiber) /\ Head(Tail(Rest)).k \in Callers
    BY <1>2, <2>1, Pop
  <2> QED BY <1>1, <2>2 DEF Subject, Begun, Awaitables
<1>4. WellFormed(s, Begun, fiber)
  <2>1. /\ Inlined(t) \in Frames /\ Subject(Inlined(t), Begun)
        /\ Inlined(t).k \notin Bottom \cup MainOnly \cup Callers
    BY <1>3 DEF Inlined, Frame, Frames, Kinds, Owners, Subject, Bottom, MainOnly, Callers
  <2> QED BY <1>3, <2>1, Push
<1>5. WellFormed(<<Trigger(t)>> \o s, Begun, fiber)
  BY <1>3, <1>4, TriggerFrame, PushAny
<1>6. StacksOK' /\ FibersOK' /\ StatusOK' /\ ReadyOK' /\ Begun' = Begun
  <2> HIDE DEF s, t
  <2> QED BY <1>1, <1>2, <1>3, <1>4, <1>5, SettleTaskOK
<1>7. RestOK'
  BY <1>1, <1>3, StopOK DEF Inv, RestOK, loopVars
<1> QED BY <1>1, <1>6, <1>7 DEF Inv, OpsOK, opVars

(* Frames of the main fiber on top of execute_root.                         *)
LEMMA MainStack ==
    ASSUME fiber = Root, NEW fr \in {Drain, Shut, Rerun, Done}, NEW B
    PROVE  WellFormed(<<fr, Main>>, B, fiber)
<1>1. WellFormed(<<Main>>, B, fiber)
  BY Ground DEF Main, Frame, Frames, Kinds, Owners, Subject, Bottom, MainOnly
<1>2. /\ fr \in Frames /\ Main \in Frames /\ Subject(fr, B)
      /\ fr.k \notin Bottom \cup Calls \cup Callers
  BY DEF Drain, Shut, Rerun, Done, Main, Frame, Frames, Kinds, Owners, Subject, Bottom,
         Calls, Callers
<1>3. WellFormed(<<fr>> \o <<Main>>, B, fiber)
  BY <1>1, <1>2, Push
<1> QED BY <1>2, <1>3, PairIsConcat

(* The action FinishMain keeps the invariant.                              *)
LEMMA StepFinishMain ==
    ASSUME Inv, NEW how \in Outcomes, FinishMain(how)
    PROVE  Inv'
<1>1. /\ Top = Fin(how) /\ Head(Rest).k = "main"
      /\ stopped' \subseteq {"error", "exit"} /\ uvstop' \in BOOLEAN /\ closed' \in BOOLEAN
      /\ \/ Goto(<<Shut, Main>>) /\ UNCHANGED <<fiber, fibers, caller>>
         \/ RunLoop(<<Drain, Main>>)
      /\ UNCHANGED <<taskVars, readyVars, opVars, busy, triggered>>
  BY StopOK DEF FinishMain, Inv, RestOK
<1>2. /\ fiber \in Fiber /\ WellFormed(stack[fiber], Begun, fiber)
      /\ WellFormed(Rest, Begun, fiber)
  BY <1>1, Below
<1>3. fiber = Root
  BY <1>1, <1>2, Pop DEF MainOnly
<1>4. StacksOK' /\ FibersOK' /\ StatusOK' /\ ReadyOK' /\ Begun' = Begun /\ caller' \in {Root, NoFiber}
  <2>1. CASE Goto(<<Shut, Main>>) /\ UNCHANGED <<fiber, fibers, caller>>
    BY <1>1, <1>2, <1>3, <2>1, MainStack, GoOn DEF taskVars, Inv, RestOK
  <2>2. CASE RunLoop(<<Drain, Main>>)
    BY <1>1, <1>2, <1>3, <2>2, MainStack, Yield DEF taskVars, RunLoop
  <2> QED BY <1>1, <2>1, <2>2
<1>5. OpsOK' /\ RestOK'
  BY <1>1, <1>4 DEF Inv, OpsOK, RestOK, taskVars, opVars
<1> QED BY <1>4, <1>5 DEF Inv

(* The main fiber is in dispose.                                            *)
LEMMA InDispose ==
    ASSUME Inv, Top.k \in {"drain", "shut", "rerun"}
    PROVE  fiber \in Fiber /\ WellFormed(stack[fiber], Begun, fiber) /\ fiber = Root
<1>1. fiber \in Fiber /\ WellFormed(stack[fiber], Begun, fiber)
  BY Running
<1>2. Head(stack[fiber]).k \in MainOnly
  BY DEF Top, MainOnly
<1>3. fiber = Root
  BY <1>1, <1>2 DEF WellFormed
<1> QED BY <1>1, <1>3

(* The action ResumeDrain keeps the invariant.                             *)
LEMMA StepResumeDrain ==
    ASSUME Inv, ResumeDrain
    PROVE  Inv'
<1>1. /\ Top.k = "drain" /\ caller' \in {caller, NoFiber} /\ closed' = TRUE
      /\ Goto(<<Shut, Main>>)
      /\ UNCHANGED <<fiber, fibers, taskVars, readyVars, opVars, busy, triggered, stopped, uvstop>>
  BY DEF ResumeDrain, LeaveLoop
<1>2. StacksOK' /\ FibersOK' /\ StatusOK' /\ ReadyOK' /\ Begun' = Begun
  BY <1>1, InDispose, MainStack, GoOn DEF taskVars
<1>3. OpsOK' /\ RestOK'
  BY <1>1, <1>2 DEF Inv, OpsOK, RestOK, taskVars, opVars
<1> QED BY <1>2, <1>3 DEF Inv

(* The action FailLeftover keeps the invariant.                            *)
LEMMA StepFailLeftover ==
    ASSUME Inv, NEW q \in Queues, FailLeftover(q)
    PROVE  Inv'
<1>1. /\ Top.k = "shut" /\ ops[q] # <<>>
      /\ SettleOp(q, Head(ops[q]), "FAILED", FALSE, stack[fiber])
      /\ UNCHANGED <<spawned, disposed, runs, callbacks, issued, loopVars, stopVars>>
  BY DEF FailLeftover, Leftover
<1>2. StacksOK' /\ FibersOK' /\ StatusOK' /\ ReadyOK' /\ OpsOK'
  BY <1>1, InDispose, FirstOwner, SettleOK DEF Lists
<1>3. RestOK'
  BY <1>1 DEF Inv, RestOK, loopVars, stopVars
<1> QED BY <1>2, <1>3 DEF Inv

(* The action FailUnsettled keeps the invariant.                           *)
LEMMA StepFailUnsettled ==
    ASSUME Inv, NEW e \in Exts, FailUnsettled(e)
    PROVE  Inv'
<1>1. /\ Top.k = "shut" /\ status' = [status EXCEPT ![e] = "FAILED"]
      /\ Goto(<<Trigger(e)>> \o stack[fiber])
      /\ UNCHANGED <<fiber, fibers, spawned, disposed, runs, readyVars, opVars, loopVars, stopVars>>
  BY DEF FailUnsettled
<1>2. StacksOK' /\ FibersOK' /\ StatusOK' /\ ReadyOK' /\ Begun' = Begun
  BY <1>1, InDispose, SettleExtOK
<1>3. OpsOK' /\ RestOK'
  BY <1>1, <1>2 DEF Inv, OpsOK, RestOK, opVars, loopVars, stopVars
<1> QED BY <1>2, <1>3 DEF Inv

(* The action ShutDown keeps the invariant.                                *)
LEMMA StepShutDown ==
    ASSUME Inv, ShutDown
    PROVE  Inv'
<1>1. /\ Top.k = "shut" /\ caller' = fiber /\ Goto(<<Rerun, Main>>) /\ Suspend
      /\ UNCHANGED <<taskVars, readyVars, opVars, busy, stopVars>>
  BY DEF ShutDown, RunLoop
<1>2. StacksOK' /\ FibersOK' /\ StatusOK' /\ ReadyOK' /\ Begun' = Begun
  BY <1>1, InDispose, MainStack, Yield DEF taskVars
<1>3. OpsOK' /\ RestOK'
  BY <1>1, <1>2, InDispose DEF Inv, OpsOK, RestOK, taskVars, opVars, stopVars
<1> QED BY <1>2, <1>3 DEF Inv

(* The action ResumeRerun keeps the invariant.                             *)
LEMMA StepResumeRerun ==
    ASSUME Inv, ResumeRerun
    PROVE  Inv'
<1>1. /\ Top.k = "rerun" /\ caller' \in {caller, NoFiber}
      /\ \E fr \in {Shut, Done} : Goto(<<fr, Main>>)
      /\ UNCHANGED <<fiber, fibers, taskVars, readyVars, opVars, busy, stopVars>>
  BY DEF ResumeRerun, LeaveLoop
<1>2. StacksOK' /\ FibersOK' /\ StatusOK' /\ ReadyOK' /\ Begun' = Begun
  BY <1>1, InDispose, MainStack, GoOn DEF taskVars
<1>3. OpsOK' /\ RestOK'
  BY <1>1, <1>2 DEF Inv, OpsOK, RestOK, taskVars, opVars, stopVars
<1> QED BY <1>2, <1>3 DEF Inv

(* The C code keeps the invariant.                                          *)
LEMMA StepEngine ==
    ASSUME Inv, Engine
    PROVE  Inv'
BY StepFinishBody, StepFinishInline, StepFinishMain, StepReturnSettled, StepReturnInlined,
   StepTriggerOps, StepAfterSwitch, StepSuspendForGood, StepResumeAwait, StepResumeOp,
   StepCancelOps, StepResumeDrain, StepShutDown, StepResumeRerun, StepFailLeftover,
   StepFailUnsettled DEF Engine
-------------------------------------------------------------------------------
(* The event loop.                                                          *)

(* A frame of dispatch_tasks or of a cancellation is put on any stack.      *)
LEMMA LoopFrame ==
    ASSUME NEW fr \in {Dispatch, Cancel}, NEW B
    PROVE  /\ fr \in Frames /\ Subject(fr, B)
           /\ fr.k \notin Bottom \cup Calls \cup MainOnly \cup Callers
BY DEF Dispatch, Cancel, Frame, Frames, Kinds, Owners, Subject, Bottom, Calls, MainOnly, Callers

(* A step of the event loop is taken by a fiber with a well-formed stack.   *)
LEMMA InLoopOK ==
    ASSUME Inv, InLoop
    PROVE  fiber \in Fiber /\ WellFormed(stack[fiber], Begun, fiber)
BY Running DEF InLoop

(* The idle watcher fires.                                                  *)
LEMMA StepStartDispatch ==
    ASSUME Inv, StartDispatch
    PROVE  Inv'
<1>1. /\ InLoop /\ Goto(<<Dispatch>> \o stack[fiber])
      /\ UNCHANGED <<fiber, fibers, taskVars, readyVars, opVars, loopVars, stopVars>>
  BY DEF StartDispatch
<1>2. fiber \in Fiber /\ WellFormed(<<Dispatch>> \o stack[fiber], Begun, fiber)
  BY <1>1, InLoopOK, LoopFrame, PushAny
<1>3. StacksOK' /\ FibersOK' /\ StatusOK' /\ ReadyOK' /\ Begun' = Begun
  BY <1>1, <1>2, GoOn DEF taskVars
<1> QED BY <1>1, <1>3 DEF Inv, OpsOK, RestOK, taskVars, opVars, loopVars, stopVars

(* dispatch_tasks has emptied the ready queue.                              *)
LEMMA StepStopDispatch ==
    ASSUME Inv, StopDispatch
    PROVE  Inv'
<1>1. /\ Top.k = "dispatch" /\ idle' = FALSE /\ Goto(Rest)
      /\ UNCHANGED <<fiber, fibers, taskVars, ready, opVars, loopVars, stopVars>>
  BY DEF StopDispatch, StopIdle
<1>2. fiber \in Fiber /\ WellFormed(stack[fiber], Begun, fiber)
  BY <1>1, Running
<1>3. WellFormed(Rest, Begun, fiber)
  BY <1>1, <1>2, Pop DEF Top, Rest, Bottom
<1>4. Begun' = Begun /\ Fresh' = Fresh
  BY <1>1 DEF Begun, Fresh, taskVars
<1>5. StacksOK'
  BY <1>1, <1>2, <1>3, <1>4, PutStack
<1> QED BY <1>1, <1>4, <1>5 DEF Inv, FibersOK, Live, StatusOK, ReadyOK, Single, OpsOK, RestOK,
     taskVars, opVars, loopVars, stopVars

(* A libuv request completes.                                               *)
LEMMA StepRequestDone ==
    ASSUME Inv, NEW o \in Owners, NEW res \in {"RESOLVED", "FAILED"}, RequestDone(o, res)
    PROVE  Inv'
<1>1. /\ InLoop /\ o \in ToSet(ops[Pending])
      /\ SettleOp(Pending, o, res, FALSE, stack[fiber])
      /\ UNCHANGED <<spawned, disposed, runs, callbacks, issued, loopVars, stopVars>>
  BY DEF RequestDone
<1>2. Pending \in Lists
  BY NamesAssumption DEF Lists
<1>3. ops[Pending] \in Seq(Begun \cup {Root})
  BY <1>2 DEF Inv, OpsOK
<1>4. o \in Begun \cup {Root}
  BY <1>1, <1>3 DEF ToSet
<1>5. StacksOK' /\ FibersOK' /\ StatusOK' /\ ReadyOK' /\ OpsOK'
  BY <1>1, <1>2, <1>4, InLoopOK, SettleOK
<1> QED BY <1>1, <1>5 DEF Inv, RestOK, loopVars, stopVars

(* The timer of a context fires.                                            *)
LEMMA StepTimeOut ==
    ASSUME Inv, TimeOut
    PROVE  Inv'
<1>1. /\ InLoop /\ triggered' = TRUE /\ Goto(<<Cancel>> \o stack[fiber])
      /\ UNCHANGED <<fiber, fibers, taskVars, readyVars, opVars, loopVars, stopped, uvstop, closed>>
  BY DEF TimeOut
<1>2. fiber \in Fiber /\ WellFormed(<<Cancel>> \o stack[fiber], Begun, fiber)
  BY <1>1, InLoopOK, LoopFrame, PushAny
<1>3. StacksOK' /\ FibersOK' /\ StatusOK' /\ ReadyOK' /\ Begun' = Begun
  BY <1>1, <1>2, GoOn DEF taskVars
<1> QED BY <1>1, <1>3 DEF Inv, OpsOK, RestOK, taskVars, opVars, loopVars

(* A callback of libuv throws, or uv_run returns.                           *)
LEMMA StepCallbackError ==
    ASSUME Inv, CallbackError
    PROVE  Inv'
<1>1. /\ Stop("error")
      /\ UNCHANGED <<fiberVars, taskVars, readyVars, opVars, loopVars, triggered, closed>>
  BY DEF CallbackError
<1>2. Begun' = Begun /\ Fresh' = Fresh
  BY <1>1 DEF Begun, Fresh, taskVars
<1>3. stopped' \subseteq {"error", "exit"} /\ uvstop' \in BOOLEAN
  BY <1>1, StopOK
<1> QED BY <1>1, <1>2, <1>3 DEF Inv, StacksOK, FibersOK, Live, StatusOK, ReadyOK, Single, OpsOK,
     RestOK, fiberVars, taskVars, readyVars, opVars, loopVars

(* The action LeaveUvRun keeps the invariant.                              *)
LEMMA StepLeaveUvRun ==
    ASSUME Inv, LeaveUvRun
    PROVE  Inv'
<1>1. /\ uvstop' = FALSE /\ fiber' = caller /\ UNCHANGED fibers
      /\ UNCHANGED <<stack, taskVars, readyVars, opVars, loopVars, triggered, stopped, closed>>
  BY DEF LeaveUvRun, SwitchNone
<1>2. Begun' = Begun /\ Fresh' = Fresh /\ Live' = Live
  BY <1>1 DEF Begun, Fresh, Live, taskVars
<1>3. FibersOK'
  BY <1>1, <1>2 DEF Inv, FibersOK, RestOK, Live
<1> QED BY <1>1, <1>2, <1>3 DEF Inv, StacksOK, StatusOK, ReadyOK, Single, OpsOK,
     RestOK, taskVars, readyVars, opVars, loopVars
-------------------------------------------------------------------------------
(* dispatch_tasks takes the head of the ready queue.                        *)

(* What is left of the ready queue, and what was taken.                     *)
LEMMA TakeReady ==
    ASSUME Inv, ready # <<>>
    PROVE  /\ Head(ready) \in spawned \cup Fresh \cup {Root}
           /\ Tail(ready) \in Seq(spawned \cup Fresh \cup {Root})
           /\ Single(Tail(ready), Fresh)
           /\ Head(ready) \in Fresh =>
                \A i \in DOMAIN Tail(ready) : Tail(ready)[i] # Head(ready)
<1> DEFINE R == spawned \cup Fresh \cup {Root}
           r == Tail(ready)
<1>1. ready \in Seq(R) /\ Single(ready, Fresh)
  BY DEF Inv, ReadyOK
<1> HIDE DEF R
<1>2. /\ Head(ready) \in R /\ Head(ready) = ready[1] /\ Len(ready) \in Nat \ {0}
      /\ DOMAIN ready = 1..Len(ready)
  BY <1>1
<1>3. /\ r \in Seq(R) /\ Len(r) = Len(ready) - 1
      /\ \A i \in 1..Len(r) : r[i] = ready[i + 1]
  BY <1>1, HeadTailProperties
<1> HIDE DEF r
<1>4. \A i \in DOMAIN r : i + 1 \in DOMAIN ready /\ r[i] = ready[i + 1] /\ i \in Nat \ {0}
  BY <1>2, <1>3
<1>5. Single(r, Fresh)
  BY <1>1, <1>4 DEF Single
<1>6. Head(ready) \in Fresh => \A i \in DOMAIN r : r[i] # Head(ready)
  BY <1>1, <1>2, <1>4 DEF Single
<1> QED BY <1>2, <1>3, <1>5, <1>6 DEF R, r

(* The main script is resumed.                                              *)
LEMMA DispatchRoot ==
    ASSUME Inv, Top.k = "dispatch", ready # <<>>, ready' = Tail(ready), Switch(caller),
           UNCHANGED <<stack, taskVars, idle, opVars, loopVars, stopVars>>
    PROVE  Inv'
<1>1. fiber \in Fiber
  BY Running
<1>2. Begun' = Begun /\ Fresh' = Fresh /\ Live' = Live /\ spawned' = spawned
  BY DEF Begun, Fresh, Live, taskVars
<1>3. caller \in Live' \cup {NoFiber}
  BY DEF Inv, RestOK, Live
<1>4. FibersOK'
  BY <1>1, <1>2, <1>3, SwitchOK
<1>5. ReadyOK'
  BY <1>2, TakeReady DEF Inv, ReadyOK
<1> QED BY <1>2, <1>4, <1>5 DEF Inv, StacksOK, StatusOK, OpsOK, RestOK,
     taskVars, opVars, loopVars, stopVars

(* A task that was not started is disposed after an error.                  *)
LEMMA DispatchDispose ==
    ASSUME Inv, Top.k = "dispatch", ready # <<>>, ready' = Tail(ready),
           NEW t \in Tasks, disposed' = disposed \cup {t},
           Goto(stack[fiber]) \/ Goto(<<Trigger(t)>> \o stack[fiber]),
           UNCHANGED <<fiber, fibers, status, spawned, runs, idle, opVars, loopVars, stopVars>>
    PROVE  Inv'
<1>1. fiber \in Fiber /\ WellFormed(stack[fiber], Begun, fiber) /\ t \in Awaitables
  BY Running DEF Awaitables
<1>2. WellFormed(<<Trigger(t)>> \o stack[fiber], Begun, fiber)
  BY <1>1, TriggerFrame, PushAny
<1>3. Begun' = Begun /\ Fresh' = Fresh /\ Live' = Live
  BY DEF Begun, Fresh, Live
<1>4. StacksOK'
  BY <1>1, <1>2, <1>3, PutStack
<1>5. ReadyOK'
  BY <1>3, TakeReady DEF Inv, ReadyOK
<1> QED BY <1>3, <1>4, <1>5 DEF Inv, FibersOK, StatusOK, OpsOK, RestOK, opVars, loopVars, stopVars

(* A task is started: it gets a fiber of its own.                           *)
LEMMA DispatchStart ==
    ASSUME Inv, Top.k = "dispatch", ready # <<>>, ready' = Tail(ready),
           NEW t \in Tasks, t = Head(ready), t \notin spawned,
           spawned' = spawned \cup {t},
           status' = [status EXCEPT ![t] = "RUNNING"],
           runs' = [runs EXCEPT ![t] = @ + 1],
           stack' = [stack EXCEPT ![fiber] = <<Resched(t)>> \o @, ![t] = <<Code(t), Body(t)>>],
           Switch(t),
           UNCHANGED <<disposed, idle, opVars, loopVars, stopVars>>
    PROVE  Inv'
<1>1. /\ fiber \in Fiber /\ WellFormed(stack[fiber], Begun, fiber)
      /\ t \in Awaitables /\ t \in Fiber /\ t \in Owners
  BY Running DEF Awaitables, Fiber, Owners
<1>2. /\ t # Root /\ t \in Fresh /\ t # NoFiber /\ fiber # NoFiber
  BY <1>1, TakeReady, NamesAssumption
<1>3. /\ Begun' = Begun \cup {t} /\ Fresh' = Fresh \ {t} /\ Live' = Live \cup {t}
      /\ spawned' \subseteq Begun'
  BY <1>1, <1>2 DEF Begun, Fresh, Live, Inv, StatusOK
<1>4. WellFormed(<<Code(t), Body(t)>>, Begun', t)
  <2>1. WellFormed(<<Body(t)>>, Begun', t)
    BY <1>1, <1>3, Ground DEF Body, Frame, Frames, Kinds, Lists, Owners, Subject, Bottom, MainOnly
  <2>2. /\ Code(t) \in Frames /\ Body(t) \in Frames /\ Subject(Code(t), Begun')
        /\ Code(t).k \notin Bottom \cup Calls \cup MainOnly
    BY <1>1 DEF Code, Body, Frame, Frames, Kinds, Lists, Subject, Bottom, Calls, MainOnly
  <2>3. WellFormed(<<Code(t)>> \o <<Body(t)>>, Begun', t)
    BY <1>1, <2>1, <2>2, Push
  <2> QED BY <2>2, <2>3, PairIsConcat
<1>5. WellFormed(<<Resched(t)>> \o stack[fiber], Begun', fiber)
  <2>1. WellFormed(stack[fiber], Begun', fiber)
    BY <1>1, <1>3, Grow
  <2>2. /\ Resched(t) \in Frames /\ Subject(Resched(t), Begun')
        /\ Resched(t).k \notin Bottom \cup Calls \cup MainOnly \cup Callers
    BY DEF Resched, Frame, Frames, Kinds, Owners, Subject, Bottom, Calls, MainOnly, Callers
  <2> QED BY <2>1, <2>2, PushAny
<1>6. StacksOK'
  <2>1. \A f \in Fiber \cup {NoFiber} :
            stack'[f] = IF f = t THEN <<Code(t), Body(t)>>
                        ELSE IF f = fiber THEN <<Resched(t)>> \o stack[fiber] ELSE stack[f]
    BY <1>1 DEF Inv, StacksOK
  <2>2. \A f \in Fiber \cup {NoFiber} : WellFormed(stack'[f], Begun', f)
    <3>1. \A f \in Fiber \cup {NoFiber} : WellFormed(stack[f], Begun', f)
      BY <1>3, Grow DEF Inv, StacksOK
    <3> QED BY <1>4, <1>5, <2>1, <3>1
  <2>3. DOMAIN stack' = Fiber \cup {NoFiber} /\ stack' = [f \in Fiber \cup {NoFiber} |-> stack'[f]]
    BY DEF Inv, StacksOK
  <2>4. \A f \in Fiber \cup {NoFiber} : stack'[f] \in Seq(Frames)
    BY <2>2 DEF WellFormed
  <2> QED BY <1>2, <2>1, <2>2, <2>3, <2>4 DEF Inv, StacksOK
<1>7. FibersOK'
  BY <1>1, <1>3, SwitchOK
<1>8. StatusOK'
  BY <1>1, <1>3 DEF Inv, StatusOK, TaskStatus
<1>9. ReadyOK'
  <2> DEFINE R == spawned \cup Fresh \cup {Root}
  <2>1. R' = R /\ Tail(ready) \in Seq(R) /\ Single(Tail(ready), Fresh)
    BY <1>2, <1>3, TakeReady
  <2> HIDE DEF R
  <2>2. ready' \in Seq(R') /\ Single(ready', Fresh')
    BY <1>3, <2>1 DEF Single
  <2> QED BY <2>2 DEF Inv, ReadyOK, R
<1>10. OpsOK'
  <2>1. Seq(Begun \cup {Root}) \subseteq Seq(Begun' \cup {Root})
    BY <1>3, SeqMonotonic
  <2> QED BY <2>1 DEF Inv, OpsOK, opVars
<1>11. RestOK'
  BY DEF Inv, RestOK, loopVars, stopVars
<1> QED BY <1>6, <1>7, <1>8, <1>9, <1>10, <1>11 DEF Inv

(* A task that has a fiber is resumed.                                      *)
LEMMA DispatchResume ==
    ASSUME Inv, Top.k = "dispatch", ready # <<>>, ready' = Tail(ready), NEW t \in spawned,
           status' = [status EXCEPT ![t] = "RUNNING"],
           Goto(<<Resched(t)>> \o stack[fiber]), Switch(t),
           UNCHANGED <<spawned, disposed, runs, idle, opVars, loopVars, stopVars>>
    PROVE  Inv'
<1>1. /\ fiber \in Fiber /\ WellFormed(stack[fiber], Begun, fiber)
      /\ t \in Begun /\ t \in Tasks /\ t \in Awaitables
  BY Running DEF Inv, StatusOK, Begun, Awaitables
<1>2. Begun' = Begun /\ Fresh' = Fresh
  BY <1>1 DEF Inv, StatusOK, Begun, Fresh
<1>3. WellFormed(<<Resched(t)>> \o stack[fiber], Begun, fiber)
  <2>1. /\ Resched(t) \in Frames /\ Subject(Resched(t), Begun)
        /\ Resched(t).k \notin Bottom \cup Calls \cup MainOnly \cup Callers
    BY <1>1 DEF Resched, Frame, Frames, Kinds, Owners, Subject, Bottom, Calls, MainOnly, Callers
  <2> QED BY <1>1, <2>1, PushAny
<1>4. StacksOK'
  BY <1>1, <1>2, <1>3, PutStack
<1>5. FibersOK'
  <2>1. t \in Live'
    BY DEF Live
  <2> QED BY <1>1, <2>1, SwitchOK
<1>6. StatusOK'
  BY <1>1, <1>2 DEF Inv, StatusOK, TaskStatus
<1>7. ReadyOK'
  BY <1>2, TakeReady DEF Inv, ReadyOK
<1> QED BY <1>2, <1>4, <1>5, <1>6, <1>7 DEF Inv, OpsOK, RestOK, opVars, loopVars, stopVars

(* The action DispatchTask keeps the invariant.                            *)
LEMMA StepDispatchTask ==
    ASSUME Inv, DispatchTask
    PROVE  Inv'
<1> DEFINE t == Head(ready)
<1>1. /\ Top.k = "dispatch" /\ ready # <<>> /\ ready' = Tail(ready)
      /\ UNCHANGED <<idle, opVars, loopVars, stopVars>>
  BY DEF DispatchTask
<1>2. CASE Switch(caller) /\ UNCHANGED <<stack, taskVars>>
  BY <1>1, <1>2, DispatchRoot
<1>3. CASE /\ t \in Tasks \ spawned /\ disposed' = disposed \cup {t}
           /\ Goto(IF t \in disposed THEN stack[fiber] ELSE <<Trigger(t)>> \o stack[fiber])
           /\ UNCHANGED <<fiber, fibers, status, spawned, runs>>
  <2>1. Goto(stack[fiber]) \/ Goto(<<Trigger(t)>> \o stack[fiber])
    BY <1>3
  <2> HIDE DEF t
  <2> QED BY <1>1, <1>3, <2>1, DispatchDispose
<1>4. CASE /\ t \in Tasks \ spawned /\ spawned' = spawned \cup {t}
           /\ status' = [status EXCEPT ![t] = "RUNNING"]
           /\ runs' = [runs EXCEPT ![t] = @ + 1]
           /\ stack' = [stack EXCEPT ![fiber] = <<Resched(t)>> \o @, ![t] = <<Code(t), Body(t)>>]
           /\ Switch(t) /\ UNCHANGED disposed
  BY <1>1, <1>4, DispatchStart
<1>5. CASE /\ t \in spawned /\ status' = [status EXCEPT ![t] = "RUNNING"]
           /\ Goto(<<Resched(t)>> \o stack[fiber]) /\ Switch(t)
           /\ UNCHANGED <<spawned, disposed, runs>>
  BY <1>1, <1>5, DispatchResume
<1> QED BY <1>2, <1>3, <1>4, <1>5 DEF DispatchTask

(* The event loop keeps the invariant.                                      *)
LEMMA StepEventLoop ==
    ASSUME Inv, EventLoop
    PROVE  Inv'
BY StepStartDispatch, StepDispatchTask, StepStopDispatch, StepRequestDone, StepTimeOut,
   StepCallbackError, StepLeaveUvRun DEF EventLoop
-------------------------------------------------------------------------------
(* The invariant holds initially, and every step keeps it.                  *)

(* Init establishes the invariant.                                         *)
LEMMA InitInv == Init => Inv
<1> SUFFICES ASSUME Init PROVE Inv
  OBVIOUS
<1>1. Begun = {} /\ Fresh = {} /\ spawned = {}
  BY DEF Init, Begun, Fresh, Awaitables
<1>2. StacksOK
  <2>1. WellFormed(<<Code(Root), Main>>, Begun, Root)
    <3>1. WellFormed(<<Main>>, Begun, Root)
      BY Ground DEF Main, Frame, Frames, Kinds, Owners, Subject, Bottom, MainOnly
    <3>2. /\ Code(Root) \in Frames /\ Main \in Frames /\ Subject(Code(Root), Begun)
          /\ Code(Root).k \notin Bottom \cup Calls \cup MainOnly /\ Root \in Owners
      BY DEF Code, Main, Frame, Frames, Kinds, Owners, Subject, Bottom, Calls, MainOnly
    <3>3. WellFormed(<<Code(Root)>> \o <<Main>>, Begun, Root)
      BY <3>1, <3>2, Push
    <3> QED BY <3>2, <3>3, PairIsConcat
  <2>2. WellFormed(<<Loop>>, Begun, Runner)
    BY Ground DEF Loop, Frame, Frames, Kinds, Owners, Subject, Bottom, MainOnly
  <2>3. \A f : WellFormed(<<End>>, Begun, f)
    BY Ground DEF End, Frame, Frames, Kinds, Owners, Subject, Bottom, MainOnly
  <2>4. /\ Root \in Fiber /\ Runner # Root /\ NoFiber # Root /\ NoFiber # Runner
    BY NamesAssumption DEF Fiber, Owners
  <2>5. \A f \in Fiber \cup {NoFiber} : WellFormed(stack[f], Begun, f) /\ stack[f] \in Seq(Frames)
    <3>1. \A f \in Fiber \cup {NoFiber} : stack[f] \in {<<Code(Root), Main>>, <<Loop>>, <<End>>}
      BY <2>4 DEF Init
    <3>2. \A f \in Fiber \cup {NoFiber} : WellFormed(stack[f], Begun, f)
      BY <2>1, <2>2, <2>3, <2>4 DEF Init
    <3> QED BY <3>2 DEF WellFormed
  <2> QED BY <2>4, <2>5 DEF Init, StacksOK
<1>3. FibersOK
  BY DEF Init, FibersOK, Live
<1>4. StatusOK
  BY <1>1 DEF Init, StatusOK, TaskStatus, Awaitables
<1>5. ReadyOK
  <2>1. ready = <<>> /\ idle = FALSE
    BY DEF Init
  <2>2. DOMAIN ready = {} /\ ready \in Seq(spawned \cup Fresh \cup {Root})
    BY <2>1
  <2> QED BY <2>1, <2>2 DEF ReadyOK, Single
<1>6. OpsOK
  BY DEF Init, OpsOK, NoOp, OpRecord
<1>7. RestOK
  <2>1. runs = [t \in Tasks |-> 0] /\ caller = NoFiber /\ busy = 0
    BY DEF Init
  <2>2. /\ disposed = {} /\ triggered = FALSE /\ uvstop = FALSE /\ closed = FALSE /\ stopped = {}
    BY DEF Init
  <2>3. runs \in [Tasks -> Nat] /\ busy \in Int
    BY <2>1
  <2>4. caller \in {Root, NoFiber}
    BY <2>1
  <2>5. disposed \subseteq Tasks /\ stopped \subseteq {"error", "exit"}
    BY <2>2
  <2> QED BY <2>2, <2>3, <2>4, <2>5 DEF RestOK
<1> QED BY <1>2, <1>3, <1>4, <1>5, <1>6, <1>7 DEF Inv

(* Every step keeps the invariant.                                         *)
LEMMA StepNext ==
    ASSUME Inv, [Next]_vars
    PROVE  Inv'
<1>1. CASE UNCHANGED vars
  <2>1. Begun' = Begun /\ Fresh' = Fresh /\ Live' = Live
    BY <1>1 DEF vars, taskVars, Begun, Fresh, Live
  <2> QED BY <1>1, <2>1 DEF vars, fiberVars, taskVars, readyVars, opVars, loopVars, stopVars,
       Inv, StacksOK, FibersOK, StatusOK, ReadyOK, Single, OpsOK, RestOK
<1> QED BY <1>1, StepPhpCode, StepEngine, StepEventLoop DEF Next

(* The invariant is stronger than the type invariant.                      *)
LEMMA InvImpliesTypeOK == Inv => TypeOK
<1> SUFFICES ASSUME Inv PROVE TypeOK
  OBVIOUS
<1>1. /\ Begun \subseteq Tasks /\ spawned \subseteq Begun /\ Fresh \subseteq Tasks
  BY DEF Inv, StatusOK, Begun, Fresh
<1>2. Live \cup {NoFiber} \subseteq Fiber \cup {NoFiber} /\ Live \subseteq Fiber
  BY <1>1 DEF Live, Fiber, Owners
<1>3. fibers \in Seq(Fiber)
  BY <1>2, SeqMonotonic DEF Inv, FibersOK
<1>4. ready \in Seq(Owners)
  <2>1. spawned \cup Fresh \cup {Root} \subseteq Owners
    BY <1>1 DEF Owners
  <2> QED BY <2>1, SeqMonotonic DEF Inv, ReadyOK
<1>5. Seq(Begun \cup {Root}) \subseteq Seq(Owners)
  <2>1. Begun \cup {Root} \subseteq Owners
    BY <1>1 DEF Owners
  <2> QED BY <2>1, SeqMonotonic
<1> QED BY <1>1, <1>2, <1>3, <1>4, <1>5
     DEF TypeOK, Inv, StacksOK, FibersOK, StatusOK, ReadyOK, OpsOK, RestOK

(* Every variable keeps its type in every behaviour of the scheduler, for   *)
(* every set of tasks, awaitables, queues and contexts.                     *)
THEOREM TypeCorrect == Spec => []TypeOK
<1>1. Spec => []Inv
  BY InitInv, StepNext, PTL DEF Spec
<1> QED BY <1>1, InvImpliesTypeOK, PTL
-------------------------------------------------------------------------------
(* A task callback is executed at most once.                                *)

(* The status of something moves on, but not to one of a task to be started.*)
MovesOn == \/ UNCHANGED status
           \/ \E x, v : /\ v \notin {"NONE", "INIT"}
                        /\ status' = [status EXCEPT ![x] = v]

(* A task that has begun stays begun.                                      *)
LEMMA BegunForGood ==
    ASSUME Inv, MovesOn
    PROVE  Begun \subseteq Begun'
<1>1. CASE UNCHANGED status
  BY <1>1 DEF Begun
<1>2. CASE \E x, v : v \notin {"NONE", "INIT"} /\ status' = [status EXCEPT ![x] = v]
  <2>1. PICK x, v : v \notin {"NONE", "INIT"} /\ status' = [status EXCEPT ![x] = v]
    BY <1>2
  <2>2. \A t \in Tasks : status'[t] \in {status[t], v}
    BY <2>1 DEF Inv, StatusOK, Awaitables
  <2> QED BY <2>1, <2>2 DEF Begun
<1> QED BY <1>1, <1>2 DEF MovesOn

(* Waking up or settling an operation.                                      *)
LEMMA WakeMoves ==
    ASSUME NEW l, NEW o, NEW res, NEW defer, NEW s,
           Wake(o, defer, s) \/ SettleOp(l, o, res, defer, s)
    PROVE  MovesOn
<1>1. CASE Wake(o, defer, s)
  BY <1>1 DEF Wake, WakeRoot, WakeTask, MovesOn
<1>2. CASE SettleOp(l, o, res, defer, s)
  BY <1>2 DEF SettleOp, Wake, WakeRoot, WakeTask, MovesOn
<1> QED BY <1>1, <1>2

(* The steps of PHP code that start no callback.                            *)
LEMMA PhpMoves ==
    ASSUME PhpCode, \A x \in Awaitables : ~AwaitInline(x), \A t \in Tasks : ~Async(t)
    PROVE  MovesOn /\ UNCHANGED runs
<1>1. CASE \E x \in Awaitables : AwaitBlock(x) \/ ReturnAwaitable(x)
  BY <1>1 DEF AwaitBlock, ReturnAwaitable, MovesOn, taskVars
<1>2. CASE \E q \in Queues : AwaitOp(q)
  <2>1. PICK q \in Queues : AwaitOp(q)
    BY <1>2
  <2>2. /\ UNCHANGED runs
        /\ UNCHANGED status \/ status' = [status EXCEPT ![fiber] = "SUSPENDED"]
    BY <2>1 DEF AwaitOp
  <2> QED BY <2>2 DEF MovesOn
<1>3. CASE \E q \in Queues, defer \in BOOLEAN : Signal(q, defer)
  BY <1>3, WakeMoves DEF Signal
<1>4. CASE \E e \in Exts, res \in {"FINISHED", "FAILED"} : SettleExt(e, res)
  BY <1>4 DEF SettleExt, MovesOn
<1>5. CASE CancelCall \/ Exit \/ \E how \in {"ok", "fail"} : Return(how)
  BY <1>5 DEF CancelCall, Exit, Return, MovesOn, taskVars
<1> QED BY <1>1, <1>2, <1>3, <1>4, <1>5 DEF PhpCode

(* The C code starts no callback.                                           *)
LEMMA EngineMoves ==
    ASSUME Engine
    PROVE  MovesOn /\ UNCHANGED runs
<1>1. CASE \E how \in Outcomes : FinishBody(how)
  <2>1. PICK how \in Outcomes : FinishBody(how)
    BY <1>1
  <2> DEFINE v == IF how = "ok" THEN "FINISHED" ELSE "FAILED"
  <2>2. UNCHANGED runs /\ (UNCHANGED status \/ status' = [status EXCEPT ![Head(Rest).x] = v])
    BY <2>1 DEF FinishBody
  <2>3. v \notin {"NONE", "INIT"}
    OBVIOUS
  <2> QED BY <2>2, <2>3 DEF MovesOn
<1>2. CASE \E how \in Outcomes : FinishInline(how)
  <2>1. PICK how \in Outcomes : FinishInline(how)
    BY <1>2
  <2> DEFINE v == IF how = "fail" THEN "FAILED" ELSE "FINISHED"
  <2>2. UNCHANGED runs /\ status' = [status EXCEPT ![Head(Rest).x] = v]
    BY <2>1 DEF FinishInline
  <2>3. v \notin {"NONE", "INIT"}
    OBVIOUS
  <2> QED BY <2>2, <2>3 DEF MovesOn
<1>3. CASE \E how \in Outcomes : FinishMain(how)
  BY <1>3 DEF FinishMain, MovesOn, taskVars
<1>4. CASE ReturnSettled \/ ReturnInlined \/ Unwind \/ AfterSwitch \/ SuspendForGood
           \/ ResumeAwait \/ ResumeOp \/ ResumeDrain \/ ShutDown \/ ResumeRerun
  BY <1>4 DEF ReturnSettled, ReturnInlined, Unwind, AfterSwitch, SuspendForGood, ResumeAwait,
     ResumeOp, ResumeDrain, ShutDown, ResumeRerun, MovesOn, taskVars
<1>5. CASE TriggerOps
  <2>1. UNCHANGED runs
    BY <1>5 DEF TriggerOps
  <2>2. CASE UNCHANGED status
    BY <2>1, <2>2 DEF MovesOn
  <2>3. CASE SettleOp(Top.x, Head(ops[Top.x]), Verdict(Top.x), FALSE, Again)
    BY <2>1, <2>3, WakeMoves
  <2> QED BY <1>5, <2>2, <2>3 DEF TriggerOps
<1>6. CASE CancelOps
  <2>1. UNCHANGED runs
    BY <1>6 DEF CancelOps
  <2>2. CASE UNCHANGED status
    BY <2>1, <2>2 DEF MovesOn
  <2>3. CASE Wake(Head(callbacks), op[Head(callbacks)].defer, Again)
    BY <2>1, <2>3, WakeMoves
  <2> QED BY <1>6, <2>2, <2>3 DEF CancelOps
<1>7. CASE \E q \in Queues : FailLeftover(q)
  BY <1>7, WakeMoves DEF FailLeftover
<1>8. CASE \E e \in Exts : FailUnsettled(e)
  BY <1>8 DEF FailUnsettled, MovesOn
<1> QED BY <1>1, <1>2, <1>3, <1>4, <1>5, <1>6, <1>7, <1>8 DEF Engine

(* Of the event loop only dispatch_tasks does.                              *)
LEMMA LoopMoves ==
    ASSUME EventLoop, ~DispatchTask
    PROVE  MovesOn /\ UNCHANGED runs
<1>1. CASE StartDispatch \/ StopDispatch \/ TimeOut \/ CallbackError \/ LeaveUvRun
  BY <1>1 DEF StartDispatch, StopDispatch, TimeOut, CallbackError, LeaveUvRun, MovesOn, taskVars
<1>2. CASE \E o \in Owners, res \in {"RESOLVED", "FAILED"} : RequestDone(o, res)
  BY <1>2, WakeMoves DEF RequestDone
<1> QED BY <1>1, <1>2 DEF EventLoop

(* Who starts a callback finds a task that has not begun, and marks it.     *)
LEMMA StartOnce ==
    ASSUME Inv, Counted, NEW t \in Tasks, status[t] = "INIT",
           status' = [status EXCEPT ![t] = "RUNNING"],
           runs' = [runs EXCEPT ![t] = @ + 1]
    PROVE  Counted'
<1>1. t \in Awaitables /\ t \notin Begun
  BY DEF Begun, Awaitables
<1>2. runs \in [Tasks -> Nat] /\ runs[t] = 0
  BY <1>1 DEF Inv, RestOK, Counted
<1>3. Begun' = Begun \cup {t}
  BY <1>1 DEF Begun, Inv, StatusOK
<1> QED BY <1>2, <1>3 DEF Counted

(* No step makes the execution count of a task exceed one.                 *)
LEMMA CountedStep ==
    ASSUME Careful, Inv, Counted, [Next]_vars
    PROVE  Counted'
<1>1. CASE MovesOn /\ UNCHANGED runs
  BY <1>1, BegunForGood DEF Counted
<1>2. CASE UNCHANGED vars
  BY <1>1, <1>2 DEF vars, taskVars, MovesOn
<1>3. CASE \E t \in Tasks : Async(t)
  <2>1. PICK t \in Tasks : Async(t)
    BY <1>3
  <2>2. status[t] = "NONE" /\ status' = [status EXCEPT ![t] = "INIT"] /\ UNCHANGED runs
    BY <2>1 DEF Async
  <2>3. Begun' = Begun
    BY <2>2 DEF Begun, Inv, StatusOK, Awaitables
  <2> QED BY <2>2, <2>3 DEF Counted
<1>4. CASE \E x \in Awaitables : AwaitInline(x)
  BY <1>4, StartOnce DEF AwaitInline, Inlinable
<1>5. CASE DispatchTask
  <2> DEFINE t == Head(ready)
  <2>1. CASE UNCHANGED <<status, runs>>
    BY <1>1, <2>1 DEF MovesOn
  <2>2. CASE status' = [status EXCEPT ![t] = "RUNNING"] /\ UNCHANGED runs
    BY <1>1, <2>2 DEF MovesOn
  <2>3. CASE /\ t \in Tasks \ spawned
             /\ status' = [status EXCEPT ![t] = "RUNNING"] /\ runs' = [runs EXCEPT ![t] = @ + 1]
    <3>1. t \in Fresh
      BY <1>5, <2>3, TakeReady, NamesAssumption DEF DispatchTask
    <3> QED BY <2>3, <3>1, StartOnce DEF Fresh
  <2> QED BY <1>5, <2>1, <2>2, <2>3 DEF DispatchTask, taskVars
<1> QED BY <1>1, <1>2, <1>3, <1>4, <1>5, PhpMoves, EngineMoves, LoopMoves DEF Next

(* Where PHP code stays clear of the two inlining defects, a task callback  *)
(* is executed at most once, whatever way it is started: by an await of it  *)
(* (async_task_execute_inline) or by the scheduler (dispatch_tasks).        *)
THEOREM ExecutedOnce == ASSUME Careful PROVE Spec => []RunsOnce
<1>1. Init => Inv /\ Counted
  BY InitInv DEF Init, Counted
<1>2. Inv /\ Counted /\ [Next]_vars => Inv' /\ Counted'
  BY StepNext, CountedStep
<1>3. Counted => RunsOnce
  BY DEF Counted, RunsOnce
<1> QED BY <1>1, <1>2, <1>3, PTL DEF Spec
-------------------------------------------------------------------------------
(* The ready queue is watched.                                              *)

(* Enqueueing keeps a non-empty ready queue under an active idle watcher.   *)
LEMMA EnqueueWatched ==
    ASSUME ReadyOK, ReadyIsWatched, NEW t, Enqueue(t) \/ UNCHANGED readyVars
    PROVE  ReadyIsWatched'
BY DEF Enqueue, ReadyIsWatched, readyVars, ReadyOK

(* So does waking up or settling an operation.                              *)
LEMMA WakeWatched ==
    ASSUME ReadyOK, ReadyIsWatched, NEW l, NEW o, NEW res, NEW defer, NEW s,
           Wake(o, defer, s) \/ SettleOp(l, o, res, defer, s)
    PROVE  ReadyIsWatched'
<1>1. Wake(o, defer, s) => Enqueue(o) \/ UNCHANGED readyVars
  BY DEF Wake, WakeRoot, WakeTask
<1>2. SettleOp(l, o, res, defer, s) => Wake(o, defer, s) \/ UNCHANGED readyVars
  BY DEF SettleOp, readyVars
<1> QED BY <1>1, <1>2, EnqueueWatched

(* No step leaves a task in a ready queue nobody watches.                   *)
LEMMA WatchedStep ==
    ASSUME Inv, ReadyIsWatched, [Next]_vars
    PROVE  ReadyIsWatched'
<1>1. ReadyOK
  BY DEF Inv
<1>2. CASE UNCHANGED readyVars
  BY <1>2 DEF readyVars, ReadyIsWatched
<1>3. CASE UNCHANGED vars
  BY <1>2, <1>3 DEF vars
<1>4. CASE \E x \in Awaitables : AwaitInline(x)
  <2>1. PICK x \in Awaitables : AwaitInline(x)
    BY <1>4
  <2>2. ready' = RemoveFirst(ready, x) /\ UNCHANGED idle
    BY <2>1 DEF AwaitInline, ReadyWithout, Unlink
  <2>3. ready = <<>> => RemoveFirst(ready, x) = <<>>
    BY DEF RemoveFirst
  <2> QED BY <2>2, <2>3 DEF ReadyIsWatched
<1>5. CASE \E t \in Tasks : Async(t)
  BY <1>1, <1>5, EnqueueWatched DEF Async
<1>6. CASE \E q \in Queues, defer \in BOOLEAN : Signal(q, defer)
  BY <1>1, <1>6, WakeWatched DEF Signal
<1>7. CASE TriggerOps
  BY <1>1, <1>2, <1>7, WakeWatched DEF TriggerOps
<1>8. CASE CancelOps
  BY <1>1, <1>2, <1>8, WakeWatched DEF CancelOps
<1>9. CASE DispatchTask
  <2>1. ready # <<>> /\ UNCHANGED idle
    BY <1>9 DEF DispatchTask
  <2> QED BY <2>1 DEF ReadyIsWatched
<1>10. CASE StopDispatch
  <2>1. ready' = <<>>
    BY <1>10 DEF StopDispatch
  <2> QED BY <2>1 DEF ReadyIsWatched
<1>11. CASE \E o \in Owners, res \in {"RESOLVED", "FAILED"} : RequestDone(o, res)
  BY <1>1, <1>11, WakeWatched DEF RequestDone
<1>12. CASE \E q \in Queues : FailLeftover(q)
  BY <1>1, <1>12, WakeWatched DEF FailLeftover
<1>13. PhpCode => \/ UNCHANGED readyVars \/ \E x \in Awaitables : AwaitInline(x)
                  \/ \E t \in Tasks : Async(t)
                  \/ \E q \in Queues, defer \in BOOLEAN : Signal(q, defer)
  BY DEF PhpCode, AwaitBlock, ReturnAwaitable, AwaitOp, SettleExt, CancelCall, Exit, Return
<1>14. Engine => \/ UNCHANGED readyVars \/ TriggerOps \/ CancelOps
                 \/ \E q \in Queues : FailLeftover(q)
  BY DEF Engine, FinishBody, FinishInline, FinishMain, ReturnSettled, ReturnInlined,
     Unwind, AfterSwitch, SuspendForGood, ResumeAwait, ResumeOp, ResumeDrain, ShutDown, ResumeRerun,
     FailUnsettled
<1>15. EventLoop => \/ UNCHANGED readyVars \/ DispatchTask \/ StopDispatch
                    \/ \E o \in Owners, res \in {"RESOLVED", "FAILED"} : RequestDone(o, res)
  BY DEF EventLoop, StartDispatch, TimeOut, CallbackError, LeaveUvRun
<1> QED BY <1>2, <1>3, <1>4, <1>5, <1>6, <1>7, <1>8, <1>9, <1>10, <1>11, <1>12, <1>13, <1>14,
           <1>15 DEF Next

(* async_task_scheduler_enqueue and dispatch_tasks: a task in the ready     *)
(* queue is always covered by an active idle watcher, so the event loop     *)
(* neither sleeps nor ends while a task can run.                            *)
THEOREM QueueIsWatched == Spec => []ReadyIsWatched
<1>1. Init => Inv /\ ReadyIsWatched
  BY InitInv DEF Init, ReadyIsWatched
<1>2. Inv /\ ReadyIsWatched /\ [Next]_vars => Inv' /\ ReadyIsWatched'
  BY StepNext, WatchedStep
<1> QED BY <1>1, <1>2, PTL DEF Spec
-------------------------------------------------------------------------------
(* Once FLAG_ERROR is set no task callback is started any more, neither by  *)
(* an await (the checks of await_val come first) nor by dispatch_tasks.     *)
THEOREM NothingStartsAfterStop == Spec => NoStartAfterStop
<1>1. [Next]_vars => [stopped # {} => runs' = runs]_vars
  <2> SUFFICES ASSUME [Next]_vars, stopped # {} PROVE runs' = runs
    OBVIOUS
  <2>1. CASE UNCHANGED vars
    BY <2>1 DEF vars, taskVars
  <2>2. CASE PhpCode
    <3>1. \A x \in Awaitables : ~AwaitInline(x)
      BY DEF AwaitInline, MayAwait, CanAwait
    <3>2. CASE \E t \in Tasks : Async(t)
      BY <3>2 DEF Async
    <3> QED BY <2>2, <3>1, <3>2, PhpMoves
  <2>3. CASE Engine
    BY <2>3, EngineMoves
  <2>4. CASE EventLoop
    <3>1. CASE DispatchTask
      BY <3>1 DEF DispatchTask, MayStart, taskVars
    <3> QED BY <2>4, <3>1, LoopMoves
  <2> QED BY <2>1, <2>2, <2>3, <2>4 DEF Next
<1> QED BY <1>1, PTL DEF Spec, NoStartAfterStop
-------------------------------------------------------------------------------
(* Waking up: nobody stays behind in the await of something that is settled,*)
(* or in a wait that was cancelled.  The inductive invariant, on top of Inv.*)

Waits    == {"await", "wait"}                       \* blocked
Stages   == {"drain", "shut", "rerun", "done"}      \* of dispose, above main
Resumers == {"trigger", "resched"}                  \* resuming others
Guests   == Begun \ spawned                         \* tasks executed inline
Gets     == {fiber} \cup ToSet(fibers)              \* fibers that get control (back)

(* Nobody is being resumed from stack s.                                    *)
Still(s) == \A i \in DOMAIN s : s[i].k # "trigger"

(* A stack of fiber f, when G has been executed inline and P has fibers.    *)
(* Nothing stands above a wait, and PHP code never above a loop over        *)
(* operations: who runs such a loop does not block before it ends.          *)
Shape(s, f, G, P) ==
    \A i \in DOMAIN s :
        /\ s[i].k \in Waits => i = 1
        /\ s[i].k \in Stages => i + 1 = Len(s)
        /\ s[i].k \in Callers => s[i].o \in G \cup {f}
        /\ s[i].k = "inline" => s[i].x \in G
        /\ s[i].k = "await" => s[i].x \in Exts \cup P
        /\ s[i].k = "trigger" => \A j \in 1 .. i : s[j].k \in Resumers

ShapesOK ==
    /\ \A f \in Fiber \cup {NoFiber} : Shape(stack[f], f, Guests, spawned)
    /\ \A t \in Tasks \ spawned : stack[t] = <<End>>

(* Who is in a cancellable wait has a callback registered.                  *)
Asked ==
    \A f \in Owners :
        (Head(stack[f]).k = "wait" /\ Head(stack[f]).o \in Cancellable /\ op[f].status = "RUNNING")
            => f \in ToSet(callbacks)

(* Callbacks that are left after the cancellation are still to be called.   *)
Asking == (triggered /\ callbacks # <<>>) => \E f \in Fiber : Cancel \in ToSet(stack[f])

(* NoLostWakeup.                                                            *)
Hears(f, x) ==
    (Head(stack[f]) = Await(x, f) /\ op[f].status = "RUNNING") =>
        /\ f \in ToSet(ops[x])
        /\ Settled(x) => \E g \in Gets : Trigger(x) \in ToSet(stack[g])
Heard == stopped = {} => \A f \in Owners : \A x \in Awaitables : Hears(f, x)

Wakes == ShapesOK /\ Asked /\ Asking /\ Heard
-------------------------------------------------------------------------------
(* Stacks of frames.                                                        *)

(* A frame fr that may be put on a stack s of fiber f.                      *)
Fits(fr, s, f, G, P) ==
    /\ fr.k \notin Stages
    /\ fr.k \in Callers => fr.o \in G \cup {f}
    /\ fr.k = "inline" => fr.x \in G
    /\ fr.k = "await" => fr.x \in Exts \cup P
    /\ fr.k \in Resumers \/ Still(s)

(* The frames of a stack, from the top.                                     *)
LEMMA Pushed ==
    ASSUME NEW s \in Seq(Frames), NEW fr \in Frames
    PROVE  /\ <<fr>> \o s \in Seq(Frames) /\ <<fr>> \o s # <<>> /\ Head(<<fr>> \o s) = fr
           /\ Len(<<fr>> \o s) = Len(s) + 1 /\ DOMAIN (<<fr>> \o s) = 1 .. Len(s) + 1
           /\ \A i \in 1 .. Len(s) + 1 : (<<fr>> \o s)[i] = IF i = 1 THEN fr ELSE s[i - 1]
           /\ ToSet(<<fr>> \o s) = {fr} \cup ToSet(s)
<1> DEFINE r == <<fr>> \o s
<1>1. /\ r \in Seq(Frames) /\ Len(r) = Len(s) + 1 /\ DOMAIN r = 1 .. Len(s) + 1
      /\ \A i \in 1 .. Len(s) + 1 : r[i] = IF i = 1 THEN fr ELSE s[i - 1]
      /\ DOMAIN s = 1 .. Len(s) /\ Len(s) \in Nat
  OBVIOUS
<1> HIDE DEF r
<1>2. r # <<>> /\ Head(r) = fr
  BY <1>1
<1>3. ToSet(r) \subseteq {fr} \cup ToSet(s)
  <2> SUFFICES ASSUME NEW i \in DOMAIN r PROVE r[i] \in {fr} \cup ToSet(s)
    BY DEF ToSet
  <2>1. CASE i = 1
    BY <1>1, <2>1
  <2>2. CASE i # 1
    BY <1>1, <2>2 DEF ToSet
  <2> QED BY <2>1, <2>2
<1>4. {fr} \cup ToSet(s) \subseteq ToSet(r)
  <2>1. fr \in ToSet(r)
    BY <1>1 DEF ToSet
  <2>2. ASSUME NEW i \in DOMAIN s PROVE s[i] \in ToSet(r)
    <3>1. i + 1 \in DOMAIN r /\ r[i + 1] = s[i]
      BY <1>1
    <3> QED BY <3>1 DEF ToSet
  <2> QED BY <2>1, <2>2 DEF ToSet
<1> QED BY <1>1, <1>2, <1>3, <1>4 DEF r

(* A stack without its top.                                                 *)
LEMMA Popped ==
    ASSUME NEW s \in Seq(Frames), s # <<>>
    PROVE  /\ Tail(s) \in Seq(Frames) /\ Len(Tail(s)) = Len(s) - 1
           /\ Head(s) = s[1] /\ Head(s) \in Frames /\ 1 \in DOMAIN s /\ Len(s) \in Nat \ {0}
           /\ DOMAIN s = 1 .. Len(s) /\ DOMAIN Tail(s) = 1 .. Len(s) - 1
           /\ \A i \in 1 .. Len(s) - 1 : Tail(s)[i] = s[i + 1]
           /\ ToSet(s) = {Head(s)} \cup ToSet(Tail(s))
<1> DEFINE r == Tail(s)
<1>1. /\ r \in Seq(Frames) /\ Len(r) = Len(s) - 1
      /\ \A i \in 1 .. Len(r) : r[i] = s[i + 1]
  BY HeadTailProperties
<1>2. Head(s) = s[1] /\ Head(s) \in Frames /\ 1 \in DOMAIN s /\ Len(s) \in Nat \ {0} /\ DOMAIN s = 1 .. Len(s)
  OBVIOUS
<1> HIDE DEF r
<1>3. DOMAIN r = 1 .. Len(s) - 1
  BY <1>1, <1>2
<1>4. ASSUME NEW i \in DOMAIN s PROVE s[i] \in {Head(s)} \cup ToSet(r)
  <2>1. CASE i = 1
    BY <1>2, <2>1
  <2>2. CASE i # 1
    <3>1. i - 1 \in DOMAIN r /\ r[i - 1] = s[i]
      BY <1>1, <1>2, <1>3, <2>2
    <3> QED BY <3>1 DEF ToSet
  <2> QED BY <2>1, <2>2
<1>5. ASSUME NEW i \in DOMAIN r PROVE r[i] \in ToSet(s)
  <2>1. i + 1 \in DOMAIN s /\ r[i] = s[i + 1]
    BY <1>1, <1>2, <1>3
  <2> QED BY <2>1 DEF ToSet
<1>6. ToSet(s) = {Head(s)} \cup ToSet(r)
  BY <1>2, <1>4, <1>5 DEF ToSet
<1> QED BY <1>1, <1>2, <1>3, <1>6 DEF r

(* A frame put on top of a stack.                                           *)
LEMMA ShapePush ==
    ASSUME NEW f, NEW G, NEW P, NEW s \in Seq(Frames), s # <<>>, Shape(s, f, G, P),
           Head(s).k \notin Waits, NEW fr \in Frames, Fits(fr, s, f, G, P)
    PROVE  Shape(<<fr>> \o s, f, G, P)
<1> DEFINE r == <<fr>> \o s
<1>1. /\ Len(r) = Len(s) + 1 /\ DOMAIN r = 1 .. Len(s) + 1
      /\ \A i \in 1 .. Len(s) + 1 : r[i] = IF i = 1 THEN fr ELSE s[i - 1]
  BY Pushed
<1>2. Head(s) = s[1] /\ DOMAIN s = 1 .. Len(s) /\ Len(s) \in Nat \ {0}
  BY Popped
<1> HIDE DEF r
<1>3. ASSUME NEW i \in DOMAIN r
      PROVE  /\ r[i].k \in Waits => i = 1
             /\ r[i].k \in Stages => i + 1 = Len(r)
             /\ r[i].k \in Callers => r[i].o \in G \cup {f}
             /\ r[i].k = "inline" => r[i].x \in G
             /\ r[i].k = "await" => r[i].x \in Exts \cup P
             /\ r[i].k = "trigger" => \A j \in 1 .. i : r[j].k \in Resumers
  <2>1. CASE i = 1
    <3>1. r[i] = fr
      BY <1>1, <2>1
    <3>2. r[i].k = "trigger" => \A j \in 1 .. i : r[j].k \in Resumers
      BY <2>1, <3>1 DEF Resumers
    <3> QED BY <2>1, <3>1, <3>2 DEF Fits
  <2>2. CASE i # 1
    <3> DEFINE m == i - 1
    <3>1. m \in DOMAIN s /\ r[i] = s[m] /\ (m + 1 = Len(s) => i + 1 = Len(r))
      BY <1>1, <1>2, <2>2
    <3>2. s[m].k \notin Waits
      <4>1. m = 1 => s[m].k \notin Waits
        BY <1>2
      <4> QED BY <4>1, <3>1 DEF Shape
    <3>3. ASSUME s[m].k = "trigger", NEW j \in 1 .. i PROVE r[j].k \in Resumers
      <4>1. CASE j = 1
        <5>1. fr.k \in Resumers
          BY <3>1, <3>3 DEF Fits, Still
        <5> QED BY <1>1, <4>1, <5>1
      <4>2. CASE j # 1
        <5>1. j - 1 \in 1 .. m /\ r[j] = s[j - 1]
          BY <1>1, <1>2, <2>2, <4>2
        <5> QED BY <3>1, <3>3, <5>1 DEF Shape
      <4> QED BY <4>1, <4>2
    <3> HIDE DEF m
    <3> QED BY <3>1, <3>2, <3>3 DEF Shape
  <2> QED BY <2>1, <2>2
<1>4. Shape(r, f, G, P)
  BY <1>3 DEF Shape
<1> QED BY <1>4 DEF r

(* A stack without its top.                                                 *)
LEMMA ShapePop ==
    ASSUME NEW f, NEW G, NEW P, NEW s \in Seq(Frames), s # <<>>, Shape(s, f, G, P)
    PROVE  /\ Shape(Tail(s), f, G, P)
           /\ Tail(s) # <<>> => Head(Tail(s)).k \notin Waits
           /\ Head(s).k \notin Resumers => Still(s) /\ Still(Tail(s))
<1> DEFINE r == Tail(s)
<1>1. /\ r \in Seq(Frames) /\ Len(r) = Len(s) - 1 /\ DOMAIN r = 1 .. Len(s) - 1
      /\ \A i \in 1 .. Len(s) - 1 : r[i] = s[i + 1]
      /\ Head(s) = s[1] /\ DOMAIN s = 1 .. Len(s) /\ Len(s) \in Nat \ {0}
  BY Popped
<1> HIDE DEF r
<1>2. ASSUME NEW i \in DOMAIN r
      PROVE  /\ r[i].k \notin Waits
             /\ r[i].k \in Stages => i + 1 = Len(r)
             /\ r[i].k \in Callers => r[i].o \in G \cup {f}
             /\ r[i].k = "inline" => r[i].x \in G
             /\ r[i].k = "await" => r[i].x \in Exts \cup P
             /\ r[i].k = "trigger" => \A j \in 1 .. i : r[j].k \in Resumers
  <2>1. i + 1 \in DOMAIN s /\ r[i] = s[i + 1] /\ i + 1 # 1 /\ ((i + 1) + 1 = Len(s) => i + 1 = Len(r))
    BY <1>1
  <2>2. ASSUME r[i].k = "trigger", NEW j \in 1 .. i PROVE r[j].k \in Resumers
    <3>1. j + 1 \in 1 .. i + 1 /\ r[j] = s[j + 1]
      BY <1>1
    <3> QED BY <2>1, <2>2, <3>1 DEF Shape
  <2> QED BY <2>1, <2>2 DEF Shape
<1>3. Shape(r, f, G, P)
  BY <1>2 DEF Shape, Waits
<1>4. r # <<>> => Head(r).k \notin Waits
  BY <1>1, <1>2
<1>5. ASSUME Head(s).k \notin Resumers PROVE Still(s) /\ Still(r)
  <2>1. Still(s)
    BY <1>1, <1>5 DEF Still, Shape
  <2> QED BY <1>1, <2>1 DEF Still
<1> QED BY <1>3, <1>4, <1>5 DEF r

(* More tasks begin.                                                        *)
LEMMA ShapeGrow ==
    ASSUME NEW f, NEW G, NEW P, NEW H, NEW Q, G \subseteq H, P \subseteq Q,
           NEW s, Shape(s, f, G, P)
    PROVE  Shape(s, f, H, Q)
BY DEF Shape

(* What stands above the bottom of a stack, and below a wait.               *)
LEMMA Above ==
    ASSUME NEW B, NEW f, NEW s, WellFormed(s, B, f), Head(s).k \notin Bottom
    PROVE  /\ Tail(s) \in Seq(Frames) /\ Tail(s) # <<>> /\ WellFormed(Tail(s), B, f)
           /\ Head(Tail(s)) \in Frames
<1>1. WellFormed(Tail(s), B, f)
  BY Pop
<1> QED BY <1>1, Pop DEF WellFormed

(* A stack that PHP code, or the C code it called, goes on with.            *)
LEMMA ShapeReplace ==
    ASSUME NEW B, NEW f, NEW G, NEW P, NEW s, WellFormed(s, B, f), Shape(s, f, G, P),
           Head(s).k \notin Bottom, Head(s).k \notin Resumers,
           NEW fr \in Frames, fr.k \notin Stages, fr.k # "inline", fr.k # "await",
           fr.k \in Callers => fr.o \in G \cup {f}
    PROVE  Shape(<<fr>> \o Tail(s), f, G, P)
<1>1. Tail(s) \in Seq(Frames) /\ Tail(s) # <<>> /\ s \in Seq(Frames) /\ s # <<>>
  BY Above DEF WellFormed
<1>2. Shape(Tail(s), f, G, P) /\ Head(Tail(s)).k \notin Waits /\ Still(Tail(s))
  BY <1>1, ShapePop
<1> QED BY <1>1, <1>2, ShapePush DEF Fits
-------------------------------------------------------------------------------
(* Steps.  The running fiber goes on with stack r.                          *)

(* The loops that are under way stay so, but for one that has come to its end.*)
Loops(s) == {fr \in ToSet(s) : fr.k \in {"trigger", "cancel"}}
Ends(fr) ==
    \/ fr.k = "trigger" /\ fr.x \in Lists /\ ops[fr.x] = <<>> /\ UNCHANGED ops
    \/ fr.k = "cancel" /\ callbacks = <<>> /\ UNCHANGED callbacks
Keeps(r) == \A fr \in Loops(stack[fiber]) : fr \in ToSet(r) \/ Ends(fr)

(* Others who are blocked stay where they are, unless they are woken up.    *)
Others(r) ==
    /\ stopped \subseteq stopped'
    /\ \A f \in Owners \ {fiber} : (Head(stack[f]).k \in Waits /\ op'[f].status = "RUNNING") =>
          /\ op[f].status = "RUNNING"
          /\ \A l \in Lists : f \in ToSet(ops[l]) => f \in ToSet(ops'[l])
          /\ f \in ToSet(callbacks) => f \in ToSet(callbacks')

(* The callbacks are called when the cancellation is triggered; none is     *)
(* added after that.                                                        *)
Calling(r) ==
    (triggered' /\ callbacks' # <<>>) => (triggered /\ callbacks # <<>>) \/ Cancel \in ToSet(r)

(* Who blocks has queued an operation.                                      *)
Queueing(r) ==
    (Head(r).k \in Waits /\ op'[fiber].status = "RUNNING") =>
        /\ \A x : Head(r) = Await(x, fiber) => fiber \in ToSet(ops'[x]) /\ ~Settled(x)'
        /\ Head(r).k = "wait" /\ Head(r).o \in Cancellable => fiber \in ToSet(callbacks')

(* What is settled wakes up those who await it.                             *)
Telling(r) ==
    \A x \in Awaitables : (Settled(x)' /\ ~Settled(x)) => Trigger(x) \in ToSet(r) \/ x \in Guests'

(* Who resumes others gets control back.                                    *)
Returning(r) ==
    /\ Gets \ {fiber} \subseteq Gets'
    /\ fiber \in Gets' \/ Still(r) \/ stopped' # {}

Orderly(r) ==
    /\ Goto(r) /\ Shape(r, fiber, Guests', spawned')
    /\ Guests \subseteq Guests' /\ spawned \subseteq spawned'
    /\ Keeps(r) /\ Others(r) /\ Calling(r) /\ Queueing(r) /\ Telling(r) /\ Returning(r)

(* Such a step keeps the invariant.                                         *)
LEMMA OrderlyStep ==
    ASSUME Inv, Inv', Wakes, fiber \in Fiber, NEW r \in Seq(Frames), Orderly(r)
    PROVE  Wakes'
<1>1. fiber \in Live /\ fiber # NoFiber /\ (fiber \in Tasks => fiber \in spawned)
  BY NamesAssumption DEF Inv, FibersOK, Live
<1>2. stack'[fiber] = r /\ \A f \in Fiber \cup {NoFiber} : f # fiber => stack'[f] = stack[f]
  BY <1>1 DEF Orderly, Goto, Inv, StacksOK
<1>3. ShapesOK'
  <2>1. ASSUME NEW f \in Fiber \cup {NoFiber} PROVE Shape(stack'[f], f, Guests', spawned')
    <3>1. CASE f = fiber
      BY <1>2, <3>1 DEF Orderly
    <3>2. CASE f # fiber
      <4>1. stack'[f] = stack[f] /\ Shape(stack[f], f, Guests, spawned)
        BY <1>2, <3>2 DEF Wakes, ShapesOK
      <4> QED BY <4>1, ShapeGrow DEF Orderly
    <3> QED BY <3>1, <3>2
  <2>2. ASSUME NEW t \in Tasks \ spawned' PROVE stack'[t] = <<End>>
    <3>1. t \in Tasks \ spawned /\ t # fiber /\ t \in Fiber
      BY <1>1, <2>2 DEF Orderly, Fiber, Owners
    <3> QED BY <1>2, <3>1 DEF Wakes, ShapesOK
  <2> QED BY <2>1, <2>2 DEF ShapesOK
<1>4. Asked'
  <2> SUFFICES ASSUME NEW f \in Owners, Head(stack'[f]).k = "wait", Head(stack'[f]).o \in Cancellable,
                      op'[f].status = "RUNNING"
               PROVE  f \in ToSet(callbacks')
    BY DEF Asked
  <2>1. CASE f = fiber
    BY <1>2, <2>1 DEF Orderly, Queueing, Waits
  <2>2. CASE f # fiber
    <3>1. stack'[f] = stack[f]
      BY <1>2, <2>2 DEF Fiber
    <3>2. op[f].status = "RUNNING" /\ (f \in ToSet(callbacks) => f \in ToSet(callbacks'))
      BY <2>2, <3>1 DEF Orderly, Others, Waits
    <3> QED BY <3>1, <3>2 DEF Wakes, Asked
  <2> QED BY <2>1, <2>2
<1>5. Asking'
  <2> SUFFICES ASSUME triggered', callbacks' # <<>>
               PROVE  \E f \in Fiber : Cancel \in ToSet(stack'[f])
    BY DEF Asking
  <2>1. CASE Cancel \in ToSet(r)
    BY <1>2, <2>1
  <2>2. CASE triggered /\ callbacks # <<>>
    <3>1. PICK f \in Fiber : Cancel \in ToSet(stack[f])
      BY <2>2 DEF Wakes, Asking
    <3>2. CASE f = fiber
      <4>1. Cancel \in Loops(stack[fiber]) /\ Cancel.k = "cancel"
        BY <3>1, <3>2 DEF Loops, Cancel, Frame
      <4>2. ~Ends(Cancel)
        BY <2>2, <4>1 DEF Ends
      <4>3. Cancel \in ToSet(r)
        BY <4>1, <4>2 DEF Orderly, Keeps
      <4> QED BY <1>2, <4>3
    <3>3. CASE f # fiber
      BY <1>2, <3>1, <3>3
    <3> QED BY <3>2, <3>3
  <2> QED BY <2>1, <2>2 DEF Orderly, Calling
<1>6. Heard'
  <2> SUFFICES ASSUME stopped' = {}, NEW f \in Owners, NEW x \in Awaitables,
                      Head(stack'[f]) = Await(x, f), op'[f].status = "RUNNING"
               PROVE  /\ f \in ToSet(ops'[x])
                      /\ Settled(x)' => \E g \in Gets' : Trigger(x) \in ToSet(stack'[g])
    BY DEF Heard, Hears
  <2>0. Await(x, f).k = "await" /\ Await(x, f).x = x
    BY DEF Await, Frame
  <2>1. CASE f = fiber
    BY <1>2, <2>0, <2>1 DEF Orderly, Queueing, Waits
  <2>2. CASE f # fiber
    <3>1. stack'[f] = stack[f] /\ f \in Fiber /\ x \in Lists
      BY <1>2, <2>2 DEF Fiber, Lists
    <3>2. op[f].status = "RUNNING" /\ (f \in ToSet(ops[x]) => f \in ToSet(ops'[x])) /\ stopped = {}
      BY <2>0, <2>2, <3>1 DEF Orderly, Others, Waits
    <3>3. f \in ToSet(ops[x]) /\ (Settled(x) => \E g \in Gets : Trigger(x) \in ToSet(stack[g]))
      BY <3>1, <3>2 DEF Wakes, Heard, Hears
    <3>4. ASSUME Trigger(x) \in ToSet(r) PROVE \E g \in Gets' : Trigger(x) \in ToSet(stack'[g])
      <4>1. ~Still(r)
        BY <3>4 DEF Still, ToSet, Trigger, Frame
      <4>2. fiber \in Gets'
        BY <4>1 DEF Orderly, Returning
      <4> QED BY <1>2, <3>4, <4>2
    <3>5. ASSUME Settled(x)' PROVE \E g \in Gets' : Trigger(x) \in ToSet(stack'[g])
      <4>1. CASE Settled(x)
        <5>1. PICK g \in Gets : Trigger(x) \in ToSet(stack[g])
          BY <3>3, <4>1
        <5>2. CASE g = fiber
          <6>1. Trigger(x) \in Loops(stack[fiber]) /\ Trigger(x).k = "trigger" /\ Trigger(x).x = x
            BY <5>1, <5>2 DEF Loops, Trigger, Frame
          <6>2. ~Ends(Trigger(x))
            BY <3>3, <6>1 DEF Ends, ToSet
          <6>3. Trigger(x) \in ToSet(r)
            BY <6>1, <6>2 DEF Orderly, Keeps
          <6> QED BY <3>4, <6>3
        <5>3. CASE g # fiber
          <6>1. g \in Gets' /\ g \in ToSet(fibers)
            BY <5>3 DEF Orderly, Returning, Gets
          <6>2. g \in Fiber
            BY <6>1 DEF ToSet, Inv, FibersOK, StatusOK, Live, Fiber, Owners, Begun
          <6> QED BY <1>2, <5>1, <5>3, <6>1, <6>2
        <5> QED BY <5>2, <5>3
      <4>2. CASE ~Settled(x)
        <5>1. CASE x \in Guests'
          <6>1. /\ WellFormed(stack[f], Begun, f) /\ Shape(stack[f], f, Guests, spawned)
            BY <3>1 DEF Inv, StacksOK, Wakes, ShapesOK
          <6>2. 1 \in DOMAIN stack[f] /\ Head(stack[f]) = stack[f][1]
            BY <6>1, Popped DEF WellFormed
          <6>3. x \in Exts \cup spawned
            BY <2>0, <3>1, <6>1, <6>2 DEF Shape
          <6> QED BY <5>1, <6>3, NamesAssumption DEF Guests, Begun, Orderly
        <5> QED BY <3>4, <3>5, <4>2, <5>1 DEF Orderly, Telling
      <4> QED BY <4>1, <4>2
    <3> QED BY <3>2, <3>3, <3>5
  <2> QED BY <2>1, <2>2
<1> QED BY <1>3, <1>4, <1>5, <1>6 DEF Wakes

-------------------------------------------------------------------------------
(* What makes a step such a step.                                           *)

(* The running fiber and its stack.                                         *)
LEMMA RunningShape ==
    ASSUME Inv, Wakes, Top.k # "end"
    PROVE  /\ fiber \in Fiber /\ WellFormed(stack[fiber], Begun, fiber)
           /\ stack[fiber] \in Seq(Frames) /\ stack[fiber] # <<>> /\ Top \in Frames
           /\ Shape(stack[fiber], fiber, Guests, spawned)
<1>1. fiber \in Fiber /\ WellFormed(stack[fiber], Begun, fiber)
  BY Running
<1> QED BY <1>1, Pop DEF WellFormed, Wakes, ShapesOK, Top

(* What the running fiber goes on with: r keeps the shape of a stack and    *)
(* the loops that are under way.                                            *)
Continues(r) ==
    r \in Seq(Frames) /\ Shape(r, fiber, Guests, spawned) /\ Loops(stack[fiber]) \subseteq ToSet(r)

(* The stack as it is.                                                      *)
LEMMA Stay ==
    ASSUME Inv, Wakes, Top.k # "end"
    PROVE  Continues(stack[fiber])
BY RunningShape DEF Continues, Loops

(* A frame put on top of it.                                                *)
LEMMA PushOn ==
    ASSUME Inv, Wakes, Top.k \notin {"end"} \cup Waits, NEW fr \in Frames,
           Fits(fr, stack[fiber], fiber, Guests, spawned)
    PROVE  Continues(<<fr>> \o stack[fiber]) /\ Head(<<fr>> \o stack[fiber]) = fr
<1>1. /\ stack[fiber] \in Seq(Frames) /\ stack[fiber] # <<>> /\ Head(stack[fiber]).k \notin Waits
      /\ Shape(stack[fiber], fiber, Guests, spawned)
  BY RunningShape DEF Top
<1>2. Shape(<<fr>> \o stack[fiber], fiber, Guests, spawned)
  BY <1>1, ShapePush
<1> QED BY <1>1, <1>2, Pushed DEF Continues, Loops

(* Nothing is lost with a top frame that is not a loop itself.              *)
LEMMA PopOff ==
    ASSUME Inv, Wakes, Top.k \notin Bottom
    PROVE  /\ Rest \in Seq(Frames) /\ Rest # <<>> /\ WellFormed(Rest, Begun, fiber)
           /\ Shape(Rest, fiber, Guests, spawned) /\ Head(Rest).k \notin Waits /\ Head(Rest) \in Frames
           /\ \A fr \in Loops(stack[fiber]) : fr = Top \/ fr \in ToSet(Rest)
           /\ Top.k \notin {"trigger", "cancel"} => Continues(Rest)
           /\ Top.k \notin Resumers => Still(Rest)
<1>1. /\ stack[fiber] \in Seq(Frames) /\ stack[fiber] # <<>> /\ WellFormed(stack[fiber], Begun, fiber)
      /\ Shape(stack[fiber], fiber, Guests, spawned) /\ "end" \in Bottom
  BY RunningShape DEF Bottom
<1>2. /\ Rest \in Seq(Frames) /\ Rest # <<>> /\ WellFormed(Rest, Begun, fiber) /\ Head(Rest) \in Frames
  BY <1>1, Above DEF Rest, Top
<1>3. Shape(Rest, fiber, Guests, spawned) /\ Head(Rest).k \notin Waits /\ (Top.k \notin Resumers => Still(Rest))
  BY <1>1, <1>2, ShapePop DEF Rest, Top
<1>4. \A fr \in Loops(stack[fiber]) : fr = Top \/ fr \in ToSet(Rest)
  BY <1>1, Popped DEF Loops, Rest, Top
<1>5. Top.k \notin {"trigger", "cancel"} => Continues(Rest)
  BY <1>2, <1>3, <1>4 DEF Continues, Loops
<1> QED BY <1>2, <1>3, <1>4, <1>5

(* Another frame on top instead.                                            *)
LEMMA Replace ==
    ASSUME Inv, Wakes, Top.k \notin Bottom, Top.k \notin {"trigger", "cancel"},
           NEW fr \in Frames, fr.k \notin Stages, fr.k # "inline", fr.k # "await",
           fr.k \in Callers => fr.o \in Guests \cup {fiber},
           fr.k \in Resumers \/ Still(Rest)
    PROVE  Continues(<<fr>> \o Rest) /\ Head(<<fr>> \o Rest) = fr
<1>1. /\ Rest \in Seq(Frames) /\ Rest # <<>> /\ Shape(Rest, fiber, Guests, spawned)
      /\ Head(Rest).k \notin Waits /\ Continues(Rest)
  BY PopOff
<1>2. Shape(<<fr>> \o Rest, fiber, Guests, spawned)
  BY <1>1, ShapePush DEF Fits
<1> QED BY <1>1, <1>2, Pushed DEF Continues

(* A call returns to the PHP code below, or ends it.                        *)
LEMMA ReturnTo ==
    ASSUME Inv, Wakes, Top.k \notin Bottom, Top.k \notin {"trigger", "cancel"},
           Head(Rest).k \in Callers, NEW how \in Outcomes
    PROVE  /\ Continues(Deliver(how, Rest)) /\ Continues(Bail(Rest))
           /\ Head(Deliver(how, Rest)).k \notin Waits /\ Head(Bail(Rest)).k \notin Waits
<1> DEFINE s == Rest
           fin(h) == <<Fin(h)>> \o Tail(s)
<1>1. /\ s \in Seq(Frames) /\ s # <<>> /\ WellFormed(s, Begun, fiber)
      /\ Shape(s, fiber, Guests, spawned) /\ Head(s).k \notin Waits /\ Continues(s)
  BY PopOff
<1>2. Head(s).k \notin Bottom /\ Head(s).k \notin Resumers /\ Head(s).k \notin {"trigger", "cancel"}
  BY DEF Callers, Bottom, Resumers
<1>3. Tail(s) \in Seq(Frames)
  BY <1>1, <1>2, Above
<1>4. ASSUME NEW h \in Outcomes PROVE Continues(fin(h)) /\ Head(fin(h)).k \notin Waits
  <2>1. /\ Fin(h) \in Frames /\ Fin(h).k \in Outcomes /\ Fin(h).k # "inline" /\ Fin(h).k # "await"
        /\ Fin(h).k \notin Callers /\ Fin(h).k \notin Stages /\ Fin(h).k \notin Waits
    BY FinFrame DEF Fin, Frame, Outcomes, Callers, Stages, Waits
  <2>2. Shape(fin(h), fiber, Guests, spawned)
    BY <1>1, <1>2, <2>1, ShapeReplace
  <2>3. /\ fin(h) \in Seq(Frames) /\ Head(fin(h)) = Fin(h) /\ ToSet(fin(h)) = {Fin(h)} \cup ToSet(Tail(s))
    BY <1>3, <2>1, Pushed
  <2>4. ToSet(s) = {Head(s)} \cup ToSet(Tail(s))
    BY <1>1, Popped
  <2>5. \A fr \in Loops(stack[fiber]) : fr \in ToSet(fin(h))
    BY <1>1, <1>2, <2>3, <2>4 DEF Continues, Loops
  <2> HIDE DEF fin, s
  <2> QED BY <2>1, <2>2, <2>3, <2>5 DEF Continues
<1>5. "exit" \in Outcomes /\ Deliver(how, s) \in {s, fin(how)}
  BY DEF Outcomes, Deliver
<1>6. Continues(Bail(s)) /\ Head(Bail(s)).k \notin Waits
  <2>1. CASE s[2].k = "inline" /\ Head(s).k = "ret"
    <3> DEFINE t == Tail(s)
               b == <<Bailing>> \o Tail(t)
    <3>0. WellFormed(t, Begun, fiber) /\ Head(t) = s[2] /\ WellFormed(Tail(t), Begun, fiber)
      BY <1>1, <2>1, LeaveInline
    <3>1. /\ WellFormed(t, Begun, fiber) /\ Head(t).k = "inline"
          /\ Tail(t) \in Seq(Frames) /\ t \in Seq(Frames) /\ t # <<>>
      <4> HIDE DEF t, s
      <4> QED BY <2>1, <3>0 DEF WellFormed
    <3>2. Shape(t, fiber, Guests, spawned)
      BY <1>1, ShapePop
    <3>3. Bailing \in Frames /\ Bailing.k = "bail"
      BY BailingFrame
    <3>4. Shape(b, fiber, Guests, spawned)
      BY <3>1, <3>2, <3>3, ShapeReplace DEF Bottom, Resumers, Stages, Callers
    <3>5. /\ b \in Seq(Frames) /\ Head(b) = Bailing /\ ToSet(b) = {Bailing} \cup ToSet(Tail(t))
      BY <3>1, <3>3, Pushed
    <3>6. ToSet(s) = {Head(s)} \cup ToSet(t) /\ ToSet(t) = {Head(t)} \cup ToSet(Tail(t))
      BY <1>1, <3>1, Popped
    <3>7. \A fr \in Loops(stack[fiber]) : fr \in ToSet(b)
      BY <1>1, <2>1, <3>1, <3>5, <3>6 DEF Continues, Loops
    <3>8. Bail(s) = b
      BY <2>1 DEF Bail
    <3> HIDE DEF b, t, s
    <3> QED BY <3>3, <3>4, <3>5, <3>7, <3>8 DEF Continues, Waits
  <2>2. CASE ~(s[2].k = "inline" /\ Head(s).k = "ret")
    BY <1>4, <1>5, <2>2 DEF Bail
  <2> QED BY <2>1, <2>2
<1> QED BY <1>1, <1>4, <1>5, <1>6

(* Nothing becomes of those who are blocked.                                *)
LEMMA NothingTold ==
    ASSUME NEW r
    PROVE  /\ UNCHANGED <<op, ops, callbacks>> /\ stopped \subseteq stopped' => Others(r)
           /\ UNCHANGED <<callbacks, triggered>> => Calling(r)
           /\ UNCHANGED status => Telling(r)
           /\ Head(r).k \notin Waits => Queueing(r)
BY DEF Others, Calling, Telling, Queueing, Settled

(* A status that is not a result.                                           *)
LEMMA NoResult ==
    ASSUME NEW r, NEW t, NEW v, v \notin {"FINISHED", "FAILED"}, status' = [status EXCEPT ![t] = v], Inv
    PROVE  Telling(r)
<1>1. \A x \in Awaitables : status'[x] \in {status[x], v}
  BY DEF Inv, StatusOK
<1> QED BY <1>1 DEF Telling, Settled

(* Control.                                                                 *)
LEMMA ControlReturns ==
    ASSUME Inv, NEW r, NEW next
    PROVE  /\ UNCHANGED <<fiber, fibers>> => Returning(r)
           /\ fiber \in Live /\ Switch(next) => Returning(r)
           /\ (Suspend \/ SwitchNone(next)) /\ (Still(r) \/ stopped' # {}) => Returning(r)
<1>1. UNCHANGED <<fiber, fibers>> => Returning(r)
  BY DEF Returning, Gets
<1>2. fibers \in Seq(Live)
  BY DEF Inv, FibersOK
<1>3. ASSUME fiber \in Live, Switch(next) PROVE Returning(r)
  <2>1. CASE fiber \in ToSet(fibers)
    BY <1>3, <2>1 DEF Switch, Returning, Gets
  <2>2. CASE fiber \notin ToSet(fibers)
    <3>1. ToSet(<<fiber>> \o fibers) = {fiber} \cup ToSet(fibers)
      BY <1>2, <1>3, PrependedSet
    <3> QED BY <1>3, <2>2, <3>1 DEF Switch, Returning, Gets
  <2> QED BY <2>1, <2>2
<1>4. SwitchNone(next) => Gets \ {fiber} \subseteq Gets'
  BY DEF SwitchNone, Gets
<1>5. ASSUME Suspend PROVE Gets \ {fiber} \subseteq Gets'
  <2>1. CASE fibers = <<>>
    BY <1>5, <2>1, NoElements DEF Suspend, SwitchNone, Gets
  <2>2. CASE fibers # <<>>
    <3>1. \A x \in ToSet(fibers) : x = Head(fibers) \/ x \in ToSet(Tail(fibers))
      <4> SUFFICES ASSUME NEW i \in DOMAIN fibers PROVE fibers[i] = Head(fibers) \/ fibers[i] \in ToSet(Tail(fibers))
        BY DEF ToSet
      <4>1. CASE i = 1
        BY <1>2, <2>2, <4>1
      <4>2. CASE i # 1
        <5>1. i - 1 \in DOMAIN Tail(fibers) /\ Tail(fibers)[i - 1] = fibers[i]
          BY <1>2, <2>2, <4>2
        <5> QED BY <5>1 DEF ToSet
      <4> QED BY <4>1, <4>2
    <3> QED BY <1>5, <2>2, <3>1 DEF Suspend, Gets
  <2> QED BY <2>1, <2>2
<1> QED BY <1>1, <1>3, <1>4, <1>5 DEF Returning

(* Who was executed inline is a guest for good.                             *)
LEMMA GuestsStay ==
    ASSUME Begun \subseteq Begun', UNCHANGED spawned
    PROVE  Guests \subseteq Guests' /\ spawned \subseteq spawned'
BY DEF Guests

(* A step that leaves those who are blocked alone.                          *)
LEMMA QuietStep ==
    ASSUME Inv, Inv', Wakes, fiber \in Fiber, NEW r, Continues(r), Goto(r),
           Head(r).k \notin Waits, UNCHANGED <<op, ops, callbacks, spawned>>,
           stopped \subseteq stopped', Begun \subseteq Begun', Telling(r), Returning(r),
           UNCHANGED triggered \/ Cancel \in ToSet(r)
    PROVE  Wakes'
<1>1. r \in Seq(Frames) /\ Shape(r, fiber, Guests', spawned')
  BY GuestsStay, ShapeGrow DEF Continues
<1>2. Others(r) /\ Queueing(r)
  BY NothingTold
<1>3. Calling(r)
  BY NothingTold DEF Calling
<1>4. Keeps(r)
  BY DEF Keeps, Continues
<1>5. Orderly(r)
  BY <1>1, <1>2, <1>3, <1>4, GuestsStay DEF Orderly
<1> QED BY <1>1, <1>5, OrderlyStep

-------------------------------------------------------------------------------
(* The steps of PHP code.                                                   *)

(* A step that leaves all stacks alone.                                     *)
LEMMA GotoSame == Inv /\ UNCHANGED stack => Goto(stack[fiber])
BY DEF Inv, StacksOK, Goto, FibersOK, StatusOK, Live, Fiber, Owners, Begun

(* PHP code.                                                                *)
LEMMA CodeTop ==
    ASSUME Inv, Wakes, InCode
    PROVE  /\ Top.k = "code" /\ Top.k \notin {"end"} \cup Waits /\ Top.k \notin Bottom
           /\ Top.k \notin {"trigger", "cancel"} /\ Top.k \notin Resumers
           /\ fiber \in Fiber /\ Top \in Frames
           /\ Still(stack[fiber]) /\ Still(Rest)
<1>1. /\ Top.k = "code" /\ Top.k \notin {"end"} \cup Waits /\ Top.k \notin Bottom
      /\ Top.k \notin {"trigger", "cancel"} /\ Top.k \notin Resumers
  BY DEF InCode, Waits, Bottom, Resumers
<1> QED BY <1>1, RunningShape, ShapePop DEF Top, Rest

(* Tasks are created.                                                       *)
LEMMA WakesAsync ==
    ASSUME Inv, Inv', Wakes, NEW t \in Tasks, Async(t)
    PROVE  Wakes'
<1> DEFINE r == stack[fiber]
<1>1. /\ InCode /\ status[t] = "NONE" /\ status' = [status EXCEPT ![t] = "INIT"]
      /\ UNCHANGED <<fiberVars, spawned, disposed, runs, opVars, loopVars, stopVars>>
  BY DEF Async
<1>2. Continues(r) /\ Head(r).k \notin Waits /\ fiber \in Fiber
  BY <1>1, CodeTop, Stay DEF Top
<1>3. Goto(r)
  BY <1>1, GotoSame DEF fiberVars
<1>4. Begun \subseteq Begun'
  BY <1>1 DEF Begun, Inv, StatusOK, Awaitables
<1>5. Telling(r)
  <2>1. "INIT" \notin {"FINISHED", "FAILED"}
    OBVIOUS
  <2> QED BY <1>1, <2>1, NoResult
<1>6. Returning(r)
  BY <1>1, ControlReturns DEF fiberVars
<1> HIDE DEF r
<1> QED BY <1>1, <1>2, <1>3, <1>4, <1>5, <1>6, QuietStep DEF opVars, stopVars

(* Code is executed inline.                                                 *)
LEMMA WakesAwaitInline ==
    ASSUME Inv, Inv', Wakes, NEW x \in Awaitables, AwaitInline(x)
    PROVE  Wakes'
<1> DEFINE s == stack[fiber]
           r == <<Code(x), Inline(x, Top.o)>> \o s
<1>1. /\ MayAwait(x) /\ x \in Tasks /\ x \notin spawned
      /\ status' = [status EXCEPT ![x] = "RUNNING"]
      /\ Goto(r)
      /\ UNCHANGED <<fiber, fibers, spawned, opVars, stopVars>>
  BY DEF AwaitInline, Inlinable
<1>2. /\ fiber \in Fiber /\ Top.k \in Callers /\ Top \in Frames
  BY <1>1, AwaiterOK
<1>3. Top.k \notin {"end"} \cup Waits /\ Top.k \notin Resumers
  BY <1>2 DEF Callers, Waits, Resumers
<1>4. /\ s \in Seq(Frames) /\ s # <<>> /\ Shape(s, fiber, Guests, spawned) /\ Still(s) /\ Head(s).k \notin Waits
  BY <1>3, RunningShape, ShapePop DEF Top
<1>5. Begun' = Begun \cup {x} /\ Begun \subseteq Begun' /\ Guests \subseteq Guests' /\ x \in Guests' /\ spawned' = spawned
  BY <1>1 DEF Begun, Guests, Inv, StatusOK
<1>6. /\ Inline(x, Top.o) \in Frames /\ Inline(x, Top.o).k = "inline" /\ Inline(x, Top.o).x = x
      /\ Code(x) \in Frames /\ Code(x).k = "code" /\ Code(x).o = x
  BY <1>1, <1>2 DEF Inline, Code, Frame, Frames, Kinds, Owners
<1> DEFINE u == <<Inline(x, Top.o)>> \o s
<1>7. /\ u \in Seq(Frames) /\ u # <<>> /\ Head(u) = Inline(x, Top.o) /\ ToSet(u) = {Inline(x, Top.o)} \cup ToSet(s)
      /\ \A i \in 1 .. Len(s) + 1 : u[i] = IF i = 1 THEN Inline(x, Top.o) ELSE s[i - 1]
      /\ DOMAIN u = 1 .. Len(s) + 1
  BY <1>4, <1>6, Pushed
<1>8. Shape(u, fiber, Guests', spawned')
  <2>1. Shape(s, fiber, Guests', spawned')
    BY <1>4, <1>5, ShapeGrow
  <2>2. Fits(Inline(x, Top.o), s, fiber, Guests', spawned')
    BY <1>4, <1>5, <1>6 DEF Fits, Stages, Callers
  <2> QED BY <1>4, <1>6, <2>1, <2>2, ShapePush
<1>9. Still(u)
  <2>1. DOMAIN s = 1 .. Len(s) /\ Len(s) \in Nat
    BY <1>4
  <2> SUFFICES ASSUME NEW i \in DOMAIN u PROVE u[i].k # "trigger"
    BY DEF Still
  <2>2. CASE i = 1
    <3>1. u[i] = Inline(x, Top.o)
      BY <1>7, <2>1, <2>2
    <3> QED BY <1>6, <3>1
  <2>3. CASE i # 1
    <3>1. u[i] = s[i - 1] /\ i - 1 \in DOMAIN s
      BY <1>7, <2>1, <2>3
    <3> QED BY <1>4, <3>1 DEF Still
  <2> QED BY <2>2, <2>3
<1> DEFINE w == <<Code(x)>> \o u
<1> HIDE DEF u
<1>10. w = r
  <2>1. \A a, b \in Frames : \A v \in Seq(Frames) : <<a, b>> \o v = <<a>> \o (<<b>> \o v)
    BY TwoInFront
  <2> QED BY <1>4, <1>6, <2>1, Zenon DEF u
<1>11. /\ w \in Seq(Frames) /\ Head(w) = Code(x) /\ ToSet(w) = {Code(x)} \cup ToSet(u)
  BY <1>6, <1>7, Pushed
<1>12. Shape(w, fiber, Guests', spawned')
  <2>1. Fits(Code(x), u, fiber, Guests', spawned') /\ Head(u).k \notin Waits
    BY <1>5, <1>6, <1>7, <1>9 DEF Fits, Stages, Callers, Waits
  <2> QED BY <1>6, <1>7, <1>8, <2>1, ShapePush
<1> HIDE DEF w
<1>13. Others(r) /\ Calling(r)
  BY <1>1, NothingTold DEF opVars, stopVars
<1>14. Queueing(r)
  <2>1. Head(r).k \notin Waits
    BY <1>6, <1>10, <1>11 DEF Waits
  <2> HIDE DEF r
  <2> QED BY <2>1, NothingTold
<1>15. Telling(r)
  <2>1. "RUNNING" \notin {"FINISHED", "FAILED"}
    OBVIOUS
  <2> QED BY <1>1, <2>1, NoResult
<1>16. Returning(r) /\ Keeps(r)
  <2>1. Returning(r)
    BY <1>1, ControlReturns
  <2>2. Keeps(r)
    BY <1>7, <1>10, <1>11 DEF Keeps, Loops
  <2> QED BY <2>1, <2>2
<1>17. r \in Seq(Frames) /\ Orderly(r)
  <2> HIDE DEF r
  <2> QED BY <1>1, <1>5, <1>10, <1>11, <1>12, <1>13, <1>14, <1>15, <1>16 DEF Orderly
<1> HIDE DEF r
<1> QED BY <1>2, <1>17, OrderlyStep

(* A task blocks in await.                                                  *)
LEMMA WakesAwaitBlock ==
    ASSUME Inv, Inv', Wakes, NEW x \in Awaitables, AwaitBlock(x)
    PROVE  Wakes'
<1> DEFINE r == <<Await(x, Awaiter)>> \o stack[fiber]
<1>1. /\ MayAwait(x) /\ ~Inlinable(x) /\ ~Settled(x)
      /\ op' = [op EXCEPT ![Awaiter] = [NoOp EXCEPT !.status = "RUNNING"]]
      /\ ops' = [ops EXCEPT ![x] = Append(@, Awaiter)]
      /\ Goto(r) /\ Suspend
      /\ UNCHANGED <<taskVars, readyVars, callbacks, issued, stopVars>>
  BY DEF AwaitBlock, RunLoop
<1>2. /\ fiber \in Fiber /\ Top.k \in Callers /\ Top \in Frames /\ fiber \in Owners
      /\ Awaiter \in Begun \cup {Root} /\ Awaiter \in Owners
  BY <1>1, AwaiterOK
<1>3. Top.k \notin {"end"} \cup Waits /\ Top.k \notin Resumers
  BY <1>2 DEF Callers, Waits, Resumers
<1>4. /\ stack[fiber] \in Seq(Frames) /\ stack[fiber] # <<>> /\ Shape(stack[fiber], fiber, Guests, spawned)
      /\ Still(stack[fiber]) /\ Head(stack[fiber]) = stack[fiber][1] /\ 1 \in DOMAIN stack[fiber]
  BY <1>3, RunningShape, ShapePop, Popped DEF Top
<1>5. Awaiter \in Guests \cup {fiber}
  BY <1>2, <1>4 DEF Shape, Awaiter, Top
<1>6. /\ Await(x, Awaiter) \in Frames /\ Await(x, Awaiter).k = "await" /\ Await(x, Awaiter).x = x
      /\ Await(x, Awaiter).o = Awaiter
  BY <1>2 DEF Await, Frame, Frames, Kinds, Lists
<1>7. Fits(Await(x, Awaiter), stack[fiber], fiber, Guests, spawned)
  BY <1>1, <1>4, <1>6 DEF Fits, Stages, Callers, Inlinable, Awaitables
<1>8. Continues(r) /\ Head(r) = Await(x, Awaiter)
  BY <1>3, <1>6, <1>7, PushOn
<1>9. Still(r)
  <2>1. ToSet(r) = {Await(x, Awaiter)} \cup ToSet(stack[fiber])
    BY <1>4, <1>6, Pushed
  <2>2. \A fr \in ToSet(stack[fiber]) : fr.k # "trigger"
    BY <1>4 DEF Still, ToSet
  <2>3. \A i \in DOMAIN r : r[i] \in ToSet(r)
    BY DEF ToSet
  <2> HIDE DEF r
  <2> QED BY <1>6, <2>1, <2>2, <2>3 DEF Still
<1> HIDE DEF r
<1>10. /\ Guests \subseteq Guests' /\ spawned \subseteq spawned' /\ Guests' = Guests /\ spawned' = spawned
       /\ stopped' = stopped /\ triggered' = triggered
  BY <1>1 DEF taskVars, Guests, Begun, stopVars
<1>11. \A l \in Lists : \A f \in ToSet(ops[l]) : f \in ToSet(ops'[l])
  <2> TAKE l \in Lists
  <2>1. ops[l] \in Seq(Begun \cup {Root}) /\ ops'[l] = (IF l = x THEN Append(ops[l], Awaiter) ELSE ops[l])
    BY <1>1 DEF Inv, OpsOK
  <2>2. ToSet(Append(ops[l], Awaiter)) = ToSet(ops[l]) \cup {Awaiter}
    BY <1>2, <2>1, AppendedSet
  <2> QED BY <2>1, <2>2
<1>12. Awaiter \in ToSet(ops'[x])
  <2>1. x \in Lists /\ ops[x] \in Seq(Begun \cup {Root}) /\ ops'[x] = Append(ops[x], Awaiter)
    BY <1>1 DEF Inv, OpsOK, Lists
  <2> QED BY <1>2, <2>1, AppendedSet
<1>13. Others(r)
  <2> SUFFICES ASSUME NEW f \in Owners \ {fiber}, Head(stack[f]).k \in Waits, op'[f].status = "RUNNING"
               PROVE  /\ op[f].status = "RUNNING"
                      /\ \A l \in Lists : f \in ToSet(ops[l]) => f \in ToSet(ops'[l])
                      /\ f \in ToSet(callbacks) => f \in ToSet(callbacks')
    BY <1>10 DEF Others
  <2>1. CASE f = Awaiter
    <3>1. f \in Tasks \ spawned
      BY <1>5, <2>1 DEF Guests, Begun
    <3>2. stack[f] = <<End>>
      BY <3>1 DEF Wakes, ShapesOK
    <3>3. Head(stack[f]).k = "end"
      BY <3>2 DEF End, Frame
    <3> QED BY <3>3 DEF Waits
  <2>2. CASE f # Awaiter
    BY <1>1, <1>11, <2>2 DEF Inv, OpsOK
  <2> QED BY <2>1, <2>2
<1>14. Queueing(r)
  <2>1. \A y : Head(r) = Await(y, fiber) => y = x /\ fiber = Awaiter
    BY <1>6, <1>8 DEF Await, Frame
  <2>2. ~Settled(x)'
    BY <1>1 DEF Settled, taskVars
  <2> QED BY <1>6, <1>8, <1>12, <2>1, <2>2 DEF Queueing
<1>15. Calling(r) /\ Telling(r)
  BY <1>1, NothingTold DEF taskVars, stopVars
<1>16. Returning(r) /\ Keeps(r)
  BY <1>1, <1>8, <1>9, ControlReturns DEF Keeps, Continues
<1>17. Orderly(r) /\ r \in Seq(Frames)
  BY <1>1, <1>8, <1>10, <1>13, <1>14, <1>15, <1>16 DEF Orderly, Continues
<1> QED BY <1>2, <1>17, OrderlyStep

(* A task blocks in async_await_op.                                         *)
LEMMA WakesAwaitOp ==
    ASSUME Inv, Inv', Wakes, NEW q \in Queues, AwaitOp(q)
    PROVE  Wakes'
<1> DEFINE r == <<Wait(q, Top.o)>> \o stack[fiber]
<1>1. /\ InCode /\ ~AlreadyCancelled(Top.o)
      /\ op' = [op EXCEPT ![fiber] = [NoOp EXCEPT !.status = "RUNNING"]]
      /\ ops' = [ops EXCEPT ![q] = Append(@, fiber)]
      /\ callbacks' = IF Top.o \in Cancellable THEN Append(callbacks, fiber) ELSE callbacks
      /\ Goto(r) /\ Suspend
      /\ UNCHANGED status \/ status' = [status EXCEPT ![fiber] = "SUSPENDED"]
      /\ UNCHANGED <<spawned, disposed, runs, readyVars, stopVars>>
  BY DEF AwaitOp, RunLoop
<1>2. /\ Top.k = "code" /\ Top.k \notin {"end"} \cup Waits /\ fiber \in Fiber /\ Top \in Frames
      /\ Still(stack[fiber]) /\ stack[fiber] \in Seq(Frames)
  BY <1>1, CodeTop, RunningShape
<1>3. /\ Wait(q, Top.o) \in Frames /\ Wait(q, Top.o).k = "wait" /\ Wait(q, Top.o).o = Top.o
  BY <1>2 DEF Wait, Frame, Frames, Kinds, Lists
<1>4. Continues(r) /\ Head(r) = Wait(q, Top.o)
  <2>1. Fits(Wait(q, Top.o), stack[fiber], fiber, Guests, spawned)
    BY <1>2, <1>3 DEF Fits, Stages, Callers
  <2> QED BY <1>2, <1>3, <2>1, PushOn
<1>5. Still(r)
  <2>1. ToSet(r) = {Wait(q, Top.o)} \cup ToSet(stack[fiber])
    BY <1>2, <1>3, Pushed
  <2>2. \A fr \in ToSet(stack[fiber]) : fr.k # "trigger"
    BY <1>2 DEF Still, ToSet
  <2>3. \A i \in DOMAIN r : r[i] \in ToSet(r)
    BY DEF ToSet
  <2> HIDE DEF r
  <2> QED BY <1>3, <2>1, <2>2, <2>3 DEF Still
<1> HIDE DEF r
<1>6. MovesOn /\ Telling(r)
  <2>1. "SUSPENDED" \notin {"FINISHED", "FAILED"} /\ "SUSPENDED" \notin {"NONE", "INIT"}
    OBVIOUS
  <2>2. MovesOn
    BY <1>1, <2>1 DEF MovesOn
  <2>3. Telling(r)
    BY <1>1, <2>1, NoResult, NothingTold
  <2> QED BY <2>2, <2>3
<1>7. Guests \subseteq Guests' /\ spawned \subseteq spawned' /\ stopped' = stopped /\ triggered' = triggered
  BY <1>1, <1>6, GuestsStay, BegunForGood DEF stopVars
<1>8. Shape(r, fiber, Guests', spawned')
  BY <1>4, <1>7, ShapeGrow DEF Continues
<1>9. fiber \in Begun \cup {Root}
  <2>1. WellFormed(stack[fiber], Begun, fiber)
    BY <1>2, RunningShape
  <2>2. fiber \in Owners
    BY <1>2, <2>1, Pop DEF Top, Callers
  <2>3. fiber # Root => fiber \in spawned
    BY <2>2, NamesAssumption DEF Owners, Inv, FibersOK, Live
  <2> QED BY <2>3 DEF Inv, StatusOK
<1>10. ToSet(callbacks) \subseteq ToSet(callbacks') /\ (Top.o \in Cancellable => fiber \in ToSet(callbacks'))
  <2>1. callbacks \in Seq(Begun \cup {Root})
    BY DEF Inv, OpsOK
  <2>2. ToSet(Append(callbacks, fiber)) = ToSet(callbacks) \cup {fiber}
    BY <1>9, <2>1, AppendedSet
  <2> QED BY <1>1, <2>2
<1>11. \A l \in Lists : \A f \in ToSet(ops[l]) : f \in ToSet(ops'[l])
  <2> TAKE l \in Lists
  <2>1. ops[l] \in Seq(Begun \cup {Root}) /\ ops'[l] = (IF l = q THEN Append(ops[l], fiber) ELSE ops[l])
    BY <1>1 DEF Inv, OpsOK
  <2>2. ToSet(Append(ops[l], fiber)) = ToSet(ops[l]) \cup {fiber}
    BY <1>9, <2>1, AppendedSet
  <2> QED BY <2>1, <2>2
<1>12. Others(r)
  <2>1. \A f \in Owners \ {fiber} : op'[f] = op[f]
    BY <1>1 DEF Inv, OpsOK
  <2> QED BY <1>7, <1>10, <1>11, <2>1 DEF Others
<1>13. Queueing(r)
  <2>1. \A y : Head(r) # Await(y, fiber)
    BY <1>3, <1>4 DEF Await, Frame
  <2> QED BY <1>3, <1>4, <1>10, <2>1 DEF Queueing
<1>14. Calling(r)
  BY <1>1, <1>7 DEF Calling, AlreadyCancelled
<1>15. Returning(r) /\ Keeps(r)
  BY <1>1, <1>4, <1>5, ControlReturns DEF Keeps, Continues
<1>16. Orderly(r) /\ r \in Seq(Frames)
  BY <1>1, <1>4, <1>6, <1>7, <1>8, <1>12, <1>13, <1>14, <1>15 DEF Orderly, Continues
<1> QED BY <1>2, <1>16, OrderlyStep

(* An awaitable is settled, and a loop over its operations is begun.        *)
LEMMA WakesSettleExt ==
    ASSUME Inv, Inv', Wakes, Top.k \notin {"end"} \cup Waits, NEW e \in Exts,
           NEW res \in {"FINISHED", "FAILED"},
           status' = [status EXCEPT ![e] = res], Goto(<<Trigger(e)>> \o stack[fiber]),
           UNCHANGED <<fiber, fibers, spawned, opVars, stopVars>>
    PROVE  Wakes'
<1> DEFINE r == <<Trigger(e)>> \o stack[fiber]
<1>1. fiber \in Fiber /\ stack[fiber] \in Seq(Frames)
  BY RunningShape
<1>2. Trigger(e) \in Frames /\ Trigger(e).k = "trigger"
  BY TriggerFrame DEF Awaitables, Trigger, Frame
<1>3. Continues(r) /\ Head(r) = Trigger(e)
  <2>1. Fits(Trigger(e), stack[fiber], fiber, Guests, spawned)
    BY <1>2 DEF Fits, Stages, Callers, Resumers
  <2> QED BY <1>2, <2>1, PushOn
<1>4. Telling(r)
  <2>1. Trigger(e) \in ToSet(r)
    BY <1>1, <1>2, Pushed
  <2>2. \A x \in Awaitables : x # e => status'[x] = status[x]
    BY DEF Inv, StatusOK
  <2> HIDE DEF r
  <2> QED BY <2>1, <2>2 DEF Telling, Settled
<1>5. Begun \subseteq Begun'
  BY NamesAssumption DEF Begun, Inv, StatusOK, Awaitables
<1>6. Returning(r)
  BY ControlReturns
<1>7. Goto(r)
  OBVIOUS
<1> HIDE DEF r
<1> QED BY <1>1, <1>2, <1>3, <1>4, <1>5, <1>6, <1>7, QuietStep DEF Waits, opVars, stopVars

(* Somebody is woken up: the running fiber goes on with a stack r.          *)
Rouses(r) ==
    /\ Goto(r) /\ Continues(r) /\ Head(r).k \notin Waits
    /\ Begun \subseteq Begun' /\ Telling(r) /\ Returning(r)

(* The owner of an operation is woken up.                                   *)
LEMMA WakeRouses ==
    ASSUME Inv, Wakes, Top.k \notin {"end"} \cup Waits, UNCHANGED stopped,
           NEW o \in Begun \cup {Root}, NEW defer, Wake(o, defer, stack[fiber])
    PROVE  \E r : Rouses(r)
<1> DEFINE s == stack[fiber]
<1>1. /\ fiber \in Fiber /\ s \in Seq(Frames) /\ Continues(s) /\ Head(s).k \notin Waits
      /\ fiber \in Live
  BY RunningShape, Stay, NamesAssumption DEF Top, Inv, FibersOK
<1>2. CASE o = Root
  <2>1. Goto(s) /\ UNCHANGED status
    BY <1>2 DEF Wake, WakeRoot
  <2>2. Telling(s) /\ Begun \subseteq Begun'
    BY <2>1, NothingTold DEF Begun
  <2>3. Returning(s)
    <3>1. CASE stopped # {} /\ Suspend
      BY <3>1, ControlReturns
    <3>2. CASE UNCHANGED <<fiber, fibers>> \/ Switch(caller)
      BY <1>1, <3>2, ControlReturns
    <3> QED BY <1>2, <3>1, <3>2 DEF Wake, WakeRoot
  <2> HIDE DEF s
  <2> QED BY <1>1, <2>1, <2>2, <2>3 DEF Rouses
<1>3. CASE o # Root /\ defer
  <2>1. Goto(s) /\ UNCHANGED <<fiber, fibers, status>>
    BY <1>3 DEF Wake, WakeTask
  <2>2. Telling(s) /\ Begun \subseteq Begun' /\ Returning(s)
    BY <2>1, NothingTold, ControlReturns DEF Begun
  <2> HIDE DEF s
  <2> QED BY <1>1, <2>1, <2>2 DEF Rouses
<1>4. CASE o # Root /\ ~defer
  <2> DEFINE r == <<Resched(o)>> \o s
             next == IF o \in spawned THEN o ELSE NoFiber
  <2>1. /\ o \in Tasks /\ status' = [status EXCEPT ![o] = "RUNNING"] /\ Goto(r) /\ Switch(next)
    BY <1>4 DEF Wake, WakeTask, Begun
  <2>2. Resched(o) \in Frames /\ Resched(o).k = "resched"
    BY <2>1 DEF Resched, Frame, Frames, Kinds, Owners
  <2>3. Continues(r) /\ Head(r) = Resched(o)
    <3>1. Fits(Resched(o), s, fiber, Guests, spawned)
      BY <2>2 DEF Fits, Stages, Callers, Resumers
    <3> QED BY <2>2, <3>1, PushOn
  <2>4. Telling(r) /\ Begun \subseteq Begun'
    <3>1. "RUNNING" \notin {"FINISHED", "FAILED"} /\ "RUNNING" \notin {"NONE", "INIT"}
      OBVIOUS
    <3>2. MovesOn
      BY <2>1, <3>1 DEF MovesOn
    <3>3. Telling(r)
      BY <2>1, <3>1, NoResult
    <3> QED BY <3>2, <3>3, BegunForGood
  <2>5. Returning(r)
    BY <1>1, <2>1, ControlReturns
  <2> HIDE DEF r
  <2> QED BY <2>1, <2>2, <2>3, <2>4, <2>5 DEF Rouses, Waits
<1> QED BY <1>2, <1>3, <1>4

(* An operation ends, and nobody else's is touched.                         *)
LEMMA EndsWait ==
    ASSUME Inv, Inv', Wakes, fiber \in Fiber, NEW r, Rouses(r), Others(r),
           UNCHANGED <<spawned, triggered>>, callbacks' # <<>> => callbacks # <<>>
    PROVE  Wakes'
<1>1. r \in Seq(Frames) /\ Shape(r, fiber, Guests', spawned')
  BY GuestsStay, ShapeGrow DEF Continues, Rouses
<1>2. Queueing(r) /\ Calling(r)
  BY NothingTold DEF Calling, Rouses
<1>3. Keeps(r)
  BY DEF Keeps, Continues, Rouses
<1>4. Orderly(r)
  BY <1>1, <1>2, <1>3, GuestsStay DEF Orderly, Rouses
<1> QED BY <1>1, <1>4, OrderlyStep

(* SettleOp.                                                                *)
LEMMA WakesSettleOp ==
    ASSUME Inv, Inv', Wakes, Top.k \notin {"end"} \cup Waits,
           NEW l \in Lists, NEW o \in Begun \cup {Root}, NEW res \in {"RESOLVED", "FAILED"}, NEW defer,
           SettleOp(l, o, res, defer, stack[fiber]), UNCHANGED <<spawned, callbacks, issued, stopVars>>
    PROVE  Wakes'
<1>1. /\ ops' = [ops EXCEPT ![l] = Unlink(@, o)]
      /\ op' = [op EXCEPT ![o] = [status |-> res, cancelled |-> @.cancelled, defer |-> defer]]
  BY DEF SettleOp
<1>2. PICK r : Rouses(r)
  <2>1. CASE Wake(o, defer, stack[fiber])
    BY <2>1, WakeRouses DEF stopVars
  <2>2. CASE Goto(stack[fiber]) /\ UNCHANGED <<fiber, fibers, status, ready, idle>>
    <3>1. Continues(stack[fiber]) /\ Head(stack[fiber]).k \notin Waits
      BY Stay DEF Top
    <3>2. Telling(stack[fiber]) /\ Begun \subseteq Begun' /\ Returning(stack[fiber])
      BY <2>2, NothingTold, ControlReturns DEF Begun
    <3> QED BY <2>2, <3>1, <3>2 DEF Rouses
  <2> QED BY <2>1, <2>2 DEF SettleOp
<1>3. o \in Owners /\ op'[o].status # "RUNNING" /\ \A f \in Owners : f # o => op'[f] = op[f]
  BY <1>1 DEF Begun, Owners, Inv, OpsOK
<1>4. ASSUME NEW k \in Lists, NEW f \in ToSet(ops[k]), f # o PROVE f \in ToSet(ops'[k])
  <2>1. ops[k] \in Seq(Begun \cup {Root}) /\ ops'[k] = (IF k = l THEN RemoveFirst(ops[k], o) ELSE ops[k])
    BY <1>1 DEF Inv, OpsOK, Unlink
  <2>2. f \in ToSet(RemoveFirst(ops[k], o))
    BY <1>4, <2>1, RemoveFirstOthers
  <2> QED BY <1>4, <2>1, <2>2
<1>5. Others(r)
  BY <1>3, <1>4 DEF Others, stopVars
<1>6. fiber \in Fiber
  BY RunningShape
<1> QED BY <1>2, <1>5, <1>6, EndsWait DEF stopVars

(* The first operation of a list is somebody's.                             *)
LEMMA FirstOp ==
    ASSUME Inv, NEW l \in Lists, ops[l] # <<>>
    PROVE  Head(ops[l]) \in Begun \cup {Root}
BY DEF Inv, OpsOK

(* PHP code completes an operation.                                         *)
LEMMA WakesSignal ==
    ASSUME Inv, Inv', Wakes, NEW q \in Queues, NEW defer \in BOOLEAN, Signal(q, defer)
    PROVE  Wakes'
<1>1. /\ InCode /\ ops[q] # <<>> /\ SettleOp(q, Head(ops[q]), "RESOLVED", defer, stack[fiber])
      /\ UNCHANGED <<spawned, callbacks, issued, stopVars>>
  BY DEF Signal
<1>2. q \in Lists /\ Top.k \notin {"end"} \cup Waits
  BY <1>1, CodeTop DEF Lists
<1> QED BY <1>1, <1>2, FirstOp, WakesSettleOp

(* A request completes.                                                     *)
LEMMA WakesRequestDone ==
    ASSUME Inv, Inv', Wakes, NEW o, NEW res, RequestDone(o, res)
    PROVE  Wakes'
<1>1. /\ InLoop /\ o \in ToSet(ops[Pending]) /\ res \in {"RESOLVED", "FAILED"}
      /\ SettleOp(Pending, o, res, FALSE, stack[fiber])
      /\ UNCHANGED <<spawned, callbacks, issued, stopVars>>
  BY DEF RequestDone
<1>2. Pending \in Lists /\ Top.k \notin {"end"} \cup Waits
  BY <1>1, NamesAssumption DEF Lists, InLoop, Waits
<1>3. o \in Begun \cup {Root}
  BY <1>1, <1>2 DEF Inv, OpsOK, ToSet
<1> QED BY <1>1, <1>2, <1>3, WakesSettleOp

(* A pending operation is failed by the shutdown.                           *)
LEMMA WakesFailLeftover ==
    ASSUME Inv, Inv', Wakes, NEW q \in Queues, FailLeftover(q)
    PROVE  Wakes'
<1>1. /\ Top.k = "shut" /\ ops[q] # <<>> /\ SettleOp(q, Head(ops[q]), "FAILED", FALSE, stack[fiber])
      /\ UNCHANGED <<spawned, callbacks, issued, stopVars>>
  BY DEF FailLeftover, Leftover
<1>2. q \in Lists /\ Top.k \notin {"end"} \cup Waits
  BY <1>1 DEF Lists, Waits
<1> QED BY <1>1, <1>2, FirstOp, WakesSettleOp

(* A step of the running fiber alone.                                       *)
LEMMA Alone ==
    ASSUME Inv, NEW r, Continues(r), Goto(r), Head(r).k \notin Waits, UNCHANGED <<fiber, fibers, status>>
    PROVE  Rouses(r)
<1>1. Telling(r) /\ Returning(r) /\ Begun' = Begun
  BY NothingTold, ControlReturns DEF Begun
<1> QED BY <1>1 DEF Rouses

(* A loop over operations comes to its end.                                 *)
LEMMA LoopEnds ==
    ASSUME Inv, Inv', Wakes, Top.k \in {"trigger", "cancel"}, Ends(Top), Goto(Rest),
           UNCHANGED <<fiber, fibers, status, spawned, op, ops, callbacks, stopVars>>
    PROVE  Wakes'
<1>1. /\ Rest \in Seq(Frames) /\ Shape(Rest, fiber, Guests, spawned) /\ Head(Rest).k \notin Waits
      /\ \A fr \in Loops(stack[fiber]) : fr = Top \/ fr \in ToSet(Rest)
  BY PopOff DEF Bottom
<1>2. fiber \in Fiber
  BY RunningShape
<1>3. Guests' = Guests /\ spawned' = spawned
  BY DEF Guests, Begun
<1>4. Others(Rest) /\ Calling(Rest) /\ Telling(Rest) /\ Queueing(Rest) /\ Returning(Rest)
  BY <1>1, NothingTold, ControlReturns DEF stopVars
<1>5. Keeps(Rest)
  BY <1>1 DEF Keeps
<1>6. Orderly(Rest)
  BY <1>1, <1>3, <1>4, <1>5 DEF Orderly
<1> QED BY <1>1, <1>2, <1>6, OrderlyStep

(* One round of the loop over the operations of an awaitable.               *)
LEMMA WakesTriggerOps ==
    ASSUME Inv, Inv', Wakes, TriggerOps
    PROVE  Wakes'
<1>1. Top.k = "trigger" /\ UNCHANGED <<spawned, callbacks, issued, stopVars>>
  BY DEF TriggerOps
<1>2. Top.x \in Lists /\ Top.k \notin {"end"} \cup Waits
  <2>1. Top.k \notin {"end"} \cup Waits
    BY <1>1 DEF Waits
  <2>2. Subject(Top, Begun)
    BY <2>1, RunningShape, Pop DEF Top
  <2> QED BY <1>1, <2>1, <2>2 DEF Subject, Lists
<1>3. CASE ops[Top.x] = <<>>
  <2>1. Goto(Rest) /\ UNCHANGED <<fiber, fibers, status, op, ops>>
    BY <1>3 DEF TriggerOps
  <2>2. Ends(Top)
    BY <1>1, <1>2, <1>3, <2>1 DEF Ends
  <2> QED BY <1>1, <2>1, <2>2, LoopEnds
<1>4. CASE ops[Top.x] # <<>>
  <2>1. SettleOp(Top.x, Head(ops[Top.x]), Verdict(Top.x), FALSE, stack[fiber])
    BY <1>4 DEF TriggerOps, Again
  <2>2. Verdict(Top.x) \in {"RESOLVED", "FAILED"}
    BY DEF Verdict
  <2> QED BY <1>1, <1>2, <1>4, <2>1, <2>2, FirstOp, WakesSettleOp
<1> QED BY <1>3, <1>4

(* One round of the loop over the callbacks of the cancellation.            *)
LEMMA WakesCancelOps ==
    ASSUME Inv, Inv', Wakes, CancelOps
    PROVE  Wakes'
<1>1. Top.k = "cancel" /\ Top.k \notin {"end"} \cup Waits /\ UNCHANGED <<spawned, ops, stopVars>>
  BY DEF CancelOps, Waits
<1>2. fiber \in Fiber
  BY <1>1, RunningShape
<1>3. CASE callbacks = <<>>
  <2>1. Goto(Rest) /\ UNCHANGED <<fiber, fibers, status, op, callbacks>>
    BY <1>3 DEF CancelOps
  <2>2. Ends(Top)
    BY <1>1, <1>3, <2>1 DEF Ends
  <2> QED BY <1>1, <2>1, <2>2, LoopEnds
<1>4. CASE callbacks # <<>>
  <2> DEFINE o == Head(callbacks)
  <2>1. /\ callbacks' = Tail(callbacks) /\ o \in Begun \cup {Root} /\ o \in Owners
        /\ \A f \in ToSet(callbacks) : f # o => f \in ToSet(callbacks')
    <3>1. callbacks \in Seq(Begun \cup {Root}) /\ callbacks' = Tail(callbacks)
      BY <1>4 DEF CancelOps, Inv, OpsOK
    <3>2. \A f \in ToSet(callbacks) : f # o => f \in ToSet(Tail(callbacks))
      <4> SUFFICES ASSUME NEW i \in DOMAIN callbacks, callbacks[i] # o
                   PROVE  callbacks[i] \in ToSet(Tail(callbacks))
        BY DEF ToSet
      <4>1. i # 1
        BY <1>4, <3>1
      <4>2. i - 1 \in DOMAIN Tail(callbacks) /\ Tail(callbacks)[i - 1] = callbacks[i]
        BY <1>4, <3>1, <4>1
      <4> QED BY <4>2 DEF ToSet
    <3> QED BY <1>4, <3>1, <3>2 DEF Begun, Owners
  <2>2. /\ op'[o].status = "RUNNING" => op'[o] = op[o]
        /\ \A f \in Owners : f # o => op'[f] = op[f]
        /\ op'[o].status # "RUNNING"
    <3>1. CASE op[o].status = "RUNNING"
      <4>1. op' = [op EXCEPT ![o].status = "FAILED", ![o].cancelled = TRUE]
        BY <1>4, <3>1 DEF CancelOps
      <4>2. op'[o].status = "FAILED" /\ \A f \in Owners : f # o => op'[f] = op[f]
        BY <2>1, <4>1 DEF Inv, OpsOK, OpRecord
      <4> QED BY <4>2
    <3>2. CASE op[o].status # "RUNNING"
      BY <1>4, <3>2 DEF CancelOps
    <3> QED BY <3>1, <3>2
  <2>3. PICK r : Rouses(r)
    <3>1. CASE op[o].status = "RUNNING"
      <4>1. Wake(o, op[o].defer, stack[fiber]) /\ UNCHANGED stopped
        BY <1>1, <1>4, <3>1 DEF CancelOps, Again, stopVars
      <4> QED BY <1>1, <2>1, <4>1, WakeRouses
    <3>2. CASE op[o].status # "RUNNING"
      <4>1. UNCHANGED <<fiber, fibers, stack, status>>
        BY <1>4, <3>2 DEF CancelOps
      <4>2. Goto(stack[fiber]) /\ Continues(stack[fiber]) /\ Head(stack[fiber]).k \notin Waits
        BY <1>1, <4>1, GotoSame, Stay DEF Top
      <4> QED BY <4>1, <4>2, Alone
    <3> QED BY <3>1, <3>2
  <2>4. Others(r)
    BY <1>1, <2>1, <2>2 DEF Others, stopVars
  <2> QED BY <1>1, <1>2, <1>4, <2>3, <2>4, EndsWait DEF stopVars
<1> QED BY <1>3, <1>4

-------------------------------------------------------------------------------
(* The steps of the C code.                                                 *)

(* A step that leaves those who are blocked alone, and the cancellation.    *)
LEMMA QuietRouse ==
    ASSUME Inv, Inv', Wakes, fiber \in Fiber, NEW r, Rouses(r),
           UNCHANGED <<op, ops, callbacks, spawned, triggered>>, stopped \subseteq stopped'
    PROVE  Wakes'
BY QuietStep DEF Rouses

(* The cancellation is triggered.                                           *)
LEMMA WakesCancelled ==
    ASSUME Inv, Inv', Wakes, CancelCall \/ TimeOut
    PROVE  Wakes'
<1> DEFINE r == <<Cancel>> \o stack[fiber]
<1>1. /\ Top.k \in {"code", "loop"} /\ Goto(r)
      /\ UNCHANGED <<fiber, fibers, taskVars, opVars, stopped>>
  BY DEF CancelCall, TimeOut, InCode, InLoop
<1>2. /\ Top.k \notin {"end"} \cup Waits /\ Top.k \notin Resumers
  BY <1>1 DEF Waits, Resumers
<1>3. /\ fiber \in Fiber /\ stack[fiber] \in Seq(Frames) /\ Still(stack[fiber])
  BY <1>2, RunningShape, ShapePop DEF Top
<1>4. Cancel \in Frames /\ Cancel.k = "cancel"
  BY LoopFrame DEF Cancel, Frame
<1>5. Continues(r) /\ Head(r) = Cancel
  <2>1. Fits(Cancel, stack[fiber], fiber, Guests, spawned)
    BY <1>3, <1>4 DEF Fits, Stages, Callers
  <2> QED BY <1>2, <1>4, <2>1, PushOn
<1>6. Cancel \in ToSet(r)
  BY <1>3, <1>4, Pushed
<1> HIDE DEF r
<1>7. Rouses(r)
  BY <1>1, <1>4, <1>5, Alone DEF Waits, taskVars
<1> QED BY <1>1, <1>3, <1>6, <1>7, QuietStep DEF Rouses, taskVars, opVars

(* PHP code ends.                                                           *)
LEMMA WakesEndCode ==
    ASSUME Inv, Inv', Wakes, InCode, NEW fr \in Frames, fr.k \in {"ret", "ok", "fail", "exit"},
           fr.k = "ret" => fr.o = Top.o, EndCode(fr),
           UNCHANGED <<fiber, fibers, taskVars, opVars, stopVars>>
    PROVE  Wakes'
<1> DEFINE r == <<fr>> \o Rest
<1>1. /\ Top.k = "code" /\ Top.k \notin Bottom /\ Top.k \notin {"trigger", "cancel"}
      /\ fiber \in Fiber /\ Still(Rest) /\ Top.k \notin {"end"} \cup Waits
  BY CodeTop
<1>2. Top.o \in Guests \cup {fiber}
  <2>1. Shape(stack[fiber], fiber, Guests, spawned) /\ 1 \in DOMAIN stack[fiber] /\ Top = stack[fiber][1]
    BY <1>1, RunningShape, Popped DEF Top
  <2> QED BY <1>1, <2>1 DEF Shape, Callers
<1>3. Continues(r) /\ Head(r) = fr
  BY <1>1, <1>2, Replace DEF Stages, Callers
<1>4. Goto(r)
  BY DEF EndCode
<1> HIDE DEF r
<1>5. Rouses(r)
  BY <1>3, <1>4, Alone DEF Waits, taskVars
<1> QED BY <1>1, <1>5, QuietRouse DEF taskVars, opVars, stopVars

(* The PHP code returns, throws or calls exit().                            *)
LEMMA WakesReturn ==
    ASSUME Inv, Inv', Wakes,
           (\E how \in {"ok", "fail"} : Return(how)) \/ Exit \/ \E x \in Awaitables : ReturnAwaitable(x)
    PROVE  Wakes'
<1>1. ASSUME NEW how \in Outcomes, InCode, EndCode(Fin(how)),
             UNCHANGED <<fiber, fibers, taskVars, opVars, stopVars>>
      PROVE  Wakes'
  <2>1. Fin(how) \in Frames /\ Fin(how).k \in {"ret", "ok", "fail", "exit"} /\ Fin(how).k # "ret"
    BY FinFrame DEF Fin, Frame, Outcomes
  <2> QED BY <1>1, <2>1, WakesEndCode
<1>2. CASE \E how \in {"ok", "fail"} : Return(how)
  BY <1>1, <1>2 DEF Return, Outcomes
<1>3. CASE Exit
  BY <1>1, <1>3 DEF Exit, Outcomes
<1>4. ASSUME NEW x \in Awaitables, ReturnAwaitable(x) PROVE Wakes'
  <2>1. /\ InCode /\ EndCode(Ret(x, Top.o))
        /\ UNCHANGED <<fiber, fibers, taskVars, opVars, stopVars>>
    BY <1>4 DEF ReturnAwaitable
  <2>2. Ret(x, Top.o) \in Frames /\ Ret(x, Top.o).k = "ret" /\ Ret(x, Top.o).o = Top.o
    BY <2>1, CodeTop DEF Ret, Frame, Frames, Kinds, Lists
  <2> QED BY <2>1, <2>2, WakesEndCode
<1> QED BY <1>2, <1>3, <1>4

(* The frame at the bottom is the only one.                                 *)
LEMMA AtBottom ==
    ASSUME NEW B, NEW f, NEW s, WellFormed(s, B, f), Head(s).k \in Bottom
    PROVE  Len(s) = 1 /\ ToSet(s) = {Head(s)} /\ Tail(s) = <<>>
<1>1. s \in Seq(Frames) /\ s # <<>> /\ Head(s) = s[1] /\ 1 \in DOMAIN s /\ ToSet(s) = {Head(s)} \cup ToSet(Tail(s))
      /\ Tail(s) \in Seq(Frames) /\ Len(Tail(s)) = Len(s) - 1
  BY Popped DEF WellFormed
<1>2. Len(s) = 1
  BY <1>1 DEF WellFormed
<1>3. Tail(s) = <<>>
  <2> DEFINE r == Tail(s)
  <2>1. r \in Seq(Frames) /\ Len(r) = 0
    BY <1>1, <1>2
  <2> HIDE DEF r
  <2>2. r = <<>>
    BY <2>1
  <2> QED BY <2>2 DEF r
<1> QED BY <1>1, <1>2, <1>3, NoElements

(* A stack of one frame.                                                    *)
LEMMA OneFrame ==
    ASSUME NEW fr \in Frames, fr.k \in Bottom, NEW f, NEW G, NEW P
    PROVE  /\ <<fr>> \in Seq(Frames) /\ <<fr>> # <<>> /\ Head(<<fr>>) = fr
           /\ Shape(<<fr>>, f, G, P) /\ Still(<<fr>>)
<1>1. /\ fr.k \notin Waits /\ fr.k \notin Stages /\ fr.k \notin Callers
      /\ fr.k # "inline" /\ fr.k # "await" /\ fr.k # "trigger"
  BY DEF Bottom, Waits, Stages, Callers
<1>2. <<fr>> \in Seq(Frames) /\ <<fr>> # <<>> /\ Head(<<fr>>) = fr /\ \A i \in DOMAIN <<fr>> : <<fr>>[i] = fr
  OBVIOUS
<1> QED BY <1>1, <1>2 DEF Shape, Still

(* A stack of two frames.                                                   *)
LEMMA TwoFrames ==
    ASSUME NEW fr \in Frames, fr.k \in Stages \cup {"trigger"}, NEW b \in Frames, b.k \in Bottom,
           NEW f, NEW G, NEW P
    PROVE  /\ <<fr, b>> \in Seq(Frames) /\ Head(<<fr, b>>) = fr /\ ToSet(<<fr, b>>) = {fr, b}
           /\ Shape(<<fr, b>>, f, G, P) /\ (fr.k # "trigger" => Still(<<fr, b>>))
<1> DEFINE s == <<fr, b>>
<1>1. /\ b.k \notin Waits /\ b.k \notin Stages /\ b.k \notin Callers
      /\ b.k # "inline" /\ b.k # "await" /\ b.k # "trigger"
  BY DEF Bottom, Waits, Stages, Callers
<1>2. /\ fr.k \notin Waits /\ fr.k \notin Callers /\ fr.k # "inline" /\ fr.k # "await"
  BY DEF Stages, Waits, Callers
<1>3. s \in Seq(Frames) /\ Head(s) = fr /\ DOMAIN s = {1, 2} /\ s[1] = fr /\ s[2] = b /\ Len(s) = 2
  OBVIOUS
<1>4. ToSet(s) = {fr, b}
  BY <1>3 DEF ToSet
<1> HIDE DEF s
<1>5. Shape(s, f, G, P)
  <2>1. ASSUME NEW i \in DOMAIN s, s[i].k = "trigger" PROVE \A j \in 1 .. i : s[j].k \in Resumers
    BY <1>1, <1>3, <2>1 DEF Resumers
  <2> QED BY <1>1, <1>2, <1>3, <2>1 DEF Shape
<1>6. fr.k # "trigger" => Still(s)
  BY <1>1, <1>3 DEF Still
<1> QED BY <1>3, <1>4, <1>5, <1>6 DEF s

(* No loop is under way where a stack is begun again.                       *)
LEMMA NoLoops ==
    ASSUME Inv, Wakes, Top.k \notin {"trigger", "cancel"}, Top.k # "end",
           Top.k \in Stages \/ (Top.k \notin Bottom /\ Head(Rest).k \in Bottom)
    PROVE  fiber \in Fiber /\ Loops(stack[fiber]) = {}
<1>1. /\ fiber \in Fiber /\ stack[fiber] \in Seq(Frames) /\ stack[fiber] # <<>>
      /\ WellFormed(stack[fiber], Begun, fiber) /\ Shape(stack[fiber], fiber, Guests, spawned)
  BY RunningShape
<1>2. Top.k \notin Bottom
  BY DEF Stages, Bottom
<1>3. /\ WellFormed(Rest, Begun, fiber) /\ Rest \in Seq(Frames) /\ Rest # <<>>
  BY <1>2, PopOff
<1>4. /\ 1 \in DOMAIN stack[fiber] /\ Top = stack[fiber][1] /\ Len(Rest) = Len(stack[fiber]) - 1
      /\ ToSet(stack[fiber]) = {Top} \cup ToSet(Rest) /\ Len(stack[fiber]) \in Nat
  BY <1>1, Popped DEF Top, Rest
<1>5. Head(Rest).k \in Bottom
  <2>1. CASE Top.k \in Stages
    <3>1. 1 + 1 = Len(stack[fiber])
      BY <1>1, <1>4, <2>1 DEF Shape
    <3>2. Len(Rest) = 1
      BY <1>4, <3>1
    <3>3. Head(Rest) = Rest[1] /\ 1 \in DOMAIN Rest
      BY <1>3, Popped
    <3> QED BY <1>3, <3>2, <3>3 DEF WellFormed
  <2> QED BY <2>1
<1>6. ToSet(Rest) = {Head(Rest)}
  BY <1>3, <1>5, AtBottom
<1>7. Head(Rest).k \notin {"trigger", "cancel"}
  BY <1>5 DEF Bottom
<1> QED BY <1>1, <1>4, <1>6, <1>7 DEF Loops

(* The callback of a task has ended, in a fiber of its own.                 *)
LEMMA WakesFinishBody ==
    ASSUME Inv, Inv', Wakes, NEW how \in Outcomes, FinishBody(how)
    PROVE  Wakes'
<1> DEFINE t == Head(Rest).x
<1>1. /\ Top = Fin(how) /\ Head(Rest).k = "body"
      /\ UNCHANGED <<fiber, fibers, spawned, opVars, triggered>>
  BY DEF FinishBody
<1>2. /\ Top.k \notin {"end"} \cup Waits /\ Top.k \notin Bottom /\ Top.k \notin {"trigger", "cancel"}
  BY <1>1 DEF Fin, Frame, Outcomes, Bottom, Waits
<1>3. Head(Rest).k \in Bottom
  BY <1>1 DEF Bottom
<1>4. fiber \in Fiber /\ Loops(stack[fiber]) = {}
  BY <1>2, <1>3, NoLoops
<1>5. t \in Begun /\ t \in Tasks /\ t \in Awaitables
  <2>1. Subject(Head(Rest), Begun)
    BY <1>1, Below, Pop
  <2> QED BY <1>1, <2>1 DEF Subject, Begun, Awaitables
<1>6. End \in Frames /\ End.k = "end" /\ End.k \in Bottom
  BY DEF End, Frame, Frames, Kinds, Owners, Bottom
<1> HIDE DEF t
<1>7. Begun \subseteq Begun' /\ stopped \subseteq stopped'
  <2>1. stopped \subseteq stopped'
    BY DEF FinishBody, Stop
  <2>2. MovesOn
    <3> DEFINE v == IF how = "ok" THEN "FINISHED" ELSE "FAILED"
    <3>1. v \notin {"NONE", "INIT"} /\ (UNCHANGED status \/ status' = [status EXCEPT ![t] = v])
      BY DEF FinishBody, t
    <3> HIDE DEF v
    <3> QED BY <3>1 DEF MovesOn
  <2> QED BY <2>1, <2>2, BegunForGood
<1>8. CASE how = "exit"
  <2> DEFINE r == <<End>>
  <2>1. Goto(r) /\ UNCHANGED status
    BY <1>8 DEF FinishBody
  <2>2. r \in Seq(Frames) /\ Head(r) = End /\ Shape(r, fiber, Guests, spawned)
    BY <1>6, OneFrame
  <2> HIDE DEF r
  <2>3. Rouses(r)
    BY <1>1, <1>4, <1>6, <2>1, <2>2, Alone DEF Continues, Waits
  <2> QED BY <1>1, <1>4, <1>7, <2>3, QuietRouse DEF opVars
<1>9. CASE how # "exit"
  <2> DEFINE r == <<Trigger(t), End>>
  <2>1. /\ Goto(r) /\ status' = [status EXCEPT ![t] = IF how = "ok" THEN "FINISHED" ELSE "FAILED"]
    BY <1>9 DEF FinishBody, t
  <2>2. Trigger(t) \in Frames /\ Trigger(t).k = "trigger"
    BY <1>5, TriggerFrame DEF Trigger, Frame
  <2>3. /\ r \in Seq(Frames) /\ Head(r) = Trigger(t) /\ Shape(r, fiber, Guests, spawned)
        /\ Trigger(t) \in ToSet(r)
    BY <1>6, <2>2, TwoFrames
  <2> HIDE DEF r
  <2>4. Telling(r)
    <3>1. \A x \in Awaitables : x # t => status'[x] = status[x]
      BY <2>1 DEF Inv, StatusOK
    <3> QED BY <2>3, <3>1 DEF Telling, Settled
  <2>5. Returning(r)
    BY <1>1, ControlReturns
  <2>6. Rouses(r)
    BY <1>4, <1>7, <2>1, <2>2, <2>3, <2>4, <2>5 DEF Rouses, Continues, Waits
  <2> QED BY <1>1, <1>4, <1>7, <2>6, QuietRouse DEF opVars
<1> QED BY <1>8, <1>9

(* The frame below the top is replaced.                                     *)
LEMMA ReplaceBelow ==
    ASSUME Inv, Wakes, Top.k \notin Bottom, Top.k \notin {"trigger", "cancel"},
           Head(Rest).k \notin Bottom, Head(Rest).k \notin Resumers, Head(Rest).k # "cancel",
           NEW fr \in Frames, fr.k \notin Stages, fr.k \notin Callers, fr.k # "inline", fr.k # "await"
    PROVE  Continues(<<fr>> \o Tail(Rest)) /\ Head(<<fr>> \o Tail(Rest)) = fr
<1> DEFINE s == Rest
           r == <<fr>> \o Tail(s)
<1>1. /\ s \in Seq(Frames) /\ s # <<>> /\ WellFormed(s, Begun, fiber)
      /\ Shape(s, fiber, Guests, spawned) /\ Continues(s)
  BY PopOff
<1>2. Tail(s) \in Seq(Frames)
  BY <1>1, Above
<1>3. Shape(r, fiber, Guests, spawned)
  BY <1>1, ShapeReplace
<1>4. /\ r \in Seq(Frames) /\ Head(r) = fr /\ ToSet(r) = {fr} \cup ToSet(Tail(s))
  BY <1>2, Pushed
<1>5. ToSet(s) = {Head(s)} \cup ToSet(Tail(s))
  BY <1>1, Popped
<1>6. \A g \in Loops(stack[fiber]) : g \in ToSet(r)
  BY <1>1, <1>4, <1>5 DEF Continues, Loops, Resumers
<1> HIDE DEF r, s
<1>7. Continues(r)
  BY <1>3, <1>4, <1>6 DEF Continues
<1> QED BY <1>4, <1>7 DEF r, s

(* The callback of a task has ended that was executed inline.               *)
LEMMA WakesFinishInline ==
    ASSUME Inv, Inv', Wakes, NEW how \in Outcomes, FinishInline(how)
    PROVE  Wakes'
<1> DEFINE t == Head(Rest).x
           s == <<Inlined(t)>> \o Tail(Rest)
           r == IF t \in disposed THEN s ELSE <<Trigger(t)>> \o s
<1>1. /\ Top = Fin(how) /\ Head(Rest).k = "inline" /\ Goto(r)
      /\ status' = [status EXCEPT ![t] = IF how = "fail" THEN "FAILED" ELSE "FINISHED"]
      /\ UNCHANGED <<fiber, fibers, spawned, opVars, triggered>> /\ stopped \subseteq stopped'
  BY DEF FinishInline, Stop
<1>2. /\ Top.k \notin {"end"} \cup Waits /\ Top.k \notin Bottom /\ Top.k \notin {"trigger", "cancel"}
      /\ Top.k \notin Resumers
  BY <1>1 DEF Fin, Frame, Outcomes, Bottom, Waits, Resumers
<1>3. /\ fiber \in Fiber /\ Rest \in Seq(Frames) /\ Rest # <<>> /\ Shape(Rest, fiber, Guests, spawned)
      /\ 1 \in DOMAIN Rest /\ Head(Rest) = Rest[1]
  BY <1>2, RunningShape, PopOff, Popped
<1>4. t \in Guests /\ t \in Tasks /\ t \in Awaitables
  BY <1>1, <1>3 DEF Shape, Guests, Begun, Awaitables
<1> HIDE DEF t
<1>5. /\ Inlined(t) \in Frames /\ Inlined(t).k = "inlined" /\ Trigger(t) \in Frames /\ Trigger(t).k = "trigger"
  BY <1>4, TriggerFrame DEF Inlined, Trigger, Frame, Frames, Kinds, Owners
<1>6. Continues(s) /\ Head(s) = Inlined(t)
  BY <1>1, <1>2, <1>5, ReplaceBelow DEF Bottom, Resumers, Stages, Callers
<1> HIDE DEF s
<1>7. Continues(r) /\ Head(r).k \notin Waits
  <2>1. s \in Seq(Frames) /\ Shape(s, fiber, Guests, spawned) /\ s # <<>> /\ Head(s).k \notin Waits
    <3>1. s \in Seq(Frames) /\ Shape(s, fiber, Guests, spawned) /\ Head(s).k \notin Waits
      BY <1>5, <1>6 DEF Continues, Waits
    <3>2. Rest \in Seq(Frames) /\ Tail(Rest) \in Seq(Frames)
      BY <1>3
    <3>3. s # <<>>
      BY <1>5, <3>2, Pushed DEF s
    <3> QED BY <3>1, <3>3
  <2>2. Fits(Trigger(t), s, fiber, Guests, spawned)
    BY <1>5 DEF Fits, Stages, Callers, Resumers
  <2>3. Shape(<<Trigger(t)>> \o s, fiber, Guests, spawned)
    BY <1>5, <2>1, <2>2, ShapePush
  <2>4. /\ <<Trigger(t)>> \o s \in Seq(Frames) /\ Head(<<Trigger(t)>> \o s) = Trigger(t)
        /\ ToSet(<<Trigger(t)>> \o s) = {Trigger(t)} \cup ToSet(s)
    BY <1>5, <2>1, Pushed
  <2>5. Continues(<<Trigger(t)>> \o s)
    BY <1>6, <2>3, <2>4 DEF Continues
  <2> QED BY <1>5, <1>6, <2>1, <2>4, <2>5 DEF Waits
<1> HIDE DEF r
<1>8. Begun \subseteq Begun'
  <2> DEFINE v == IF how = "fail" THEN "FAILED" ELSE "FINISHED"
  <2>1. v \notin {"NONE", "INIT"} /\ status' = [status EXCEPT ![t] = v]
    BY <1>1
  <2> HIDE DEF v
  <2>2. MovesOn
    BY <2>1 DEF MovesOn
  <2> QED BY <2>2, BegunForGood
<1>9. Telling(r)
  <2>1. \A x \in Awaitables : x # t => status'[x] = status[x]
    BY <1>1 DEF Inv, StatusOK
  <2>2. t \in Guests'
    BY <1>1, <1>4, <1>8, GuestsStay
  <2> QED BY <2>1, <2>2 DEF Telling, Settled
<1>10. Returning(r)
  BY <1>1, ControlReturns
<1>11. Rouses(r)
  BY <1>1, <1>7, <1>8, <1>9, <1>10 DEF Rouses
<1> QED BY <1>1, <1>3, <1>11, QuietRouse DEF opVars

(* The main fiber goes on in dispose.                                       *)
LEMMA WakesDispose ==
    ASSUME Inv, Inv', Wakes, Top.k \notin {"trigger", "cancel"}, Top.k # "end",
           Top.k \in Stages \/ (Top.k \notin Bottom /\ Head(Rest).k \in Bottom),
           NEW fr \in Frames, fr.k \in Stages, Goto(<<fr, Main>>),
           UNCHANGED <<fiber, fibers>> \/ Suspend,
           UNCHANGED <<status, spawned, opVars, triggered>>, stopped \subseteq stopped'
    PROVE  Wakes'
<1> DEFINE r == <<fr, Main>>
<1>1. fiber \in Fiber /\ Loops(stack[fiber]) = {}
  BY NoLoops
<1>2. /\ fr \in Frames /\ fr.k \in Stages \cup {"trigger"} /\ fr.k # "trigger"
      /\ Main \in Frames /\ Main.k \in Bottom
  BY DEF Main, Frame, Frames, Kinds, Owners, Stages, Bottom
<1>3. r \in Seq(Frames) /\ Head(r) = fr /\ Shape(r, fiber, Guests, spawned) /\ Still(r)
  BY <1>2, TwoFrames
<1>4. Goto(r) /\ fr.k \notin Waits
  BY DEF Stages, Waits
<1> HIDE DEF r
<1>5. Continues(r)
  BY <1>1, <1>3 DEF Continues
<1>6. Telling(r) /\ Returning(r) /\ Begun' = Begun
  BY <1>3, NothingTold, ControlReturns DEF Begun
<1>7. Rouses(r)
  BY <1>3, <1>4, <1>5, <1>6 DEF Rouses
<1> QED BY <1>1, <1>7, QuietRouse DEF opVars

(* The frames of dispose.                                                   *)
LEMMA StageFrame ==
    ASSUME NEW fr \in {Drain, Shut, Rerun, Done}
    PROVE  fr \in Frames /\ fr.k \in Stages
BY DEF Drain, Shut, Rerun, Done, Frame, Frames, Kinds, Owners, Stages

(* The main script has ended.                                               *)
LEMMA WakesFinishMain ==
    ASSUME Inv, Inv', Wakes, NEW how \in Outcomes, FinishMain(how)
    PROVE  Wakes'
<1>1. /\ Top = Fin(how) /\ Head(Rest).k = "main"
      /\ UNCHANGED <<taskVars, readyVars, opVars, busy, triggered>>
      /\ stopped \subseteq stopped'
  BY DEF FinishMain, Stop
<1>2. Top.k \notin {"trigger", "cancel"} /\ Top.k # "end" /\ Top.k \notin Bottom /\ Head(Rest).k \in Bottom
  BY <1>1 DEF Fin, Frame, Outcomes, Bottom
<1>3. PICK fr \in {Drain, Shut, Rerun, Done} : Goto(<<fr, Main>>) /\ (UNCHANGED <<fiber, fibers>> \/ Suspend)
  BY DEF FinishMain, RunLoop
<1>4. fr \in Frames /\ fr.k \in Stages
  BY StageFrame
<1>5. Goto(<<fr, Main>>) /\ (UNCHANGED <<fiber, fibers>> \/ Suspend)
  BY <1>3
<1> QED BY <1>1, <1>2, <1>4, <1>5, WakesDispose DEF taskVars

(* Dispose goes on.                                                         *)
LEMMA WakesStages ==
    ASSUME Inv, Inv', Wakes, ResumeDrain \/ ShutDown \/ ResumeRerun
    PROVE  Wakes'
<1>1. /\ Top.k \notin {"trigger", "cancel"} /\ Top.k # "end" /\ Top.k \in Stages
  BY DEF ResumeDrain, ShutDown, ResumeRerun, Stages
<1>2. /\ \/ Goto(<<Shut, Main>>) /\ UNCHANGED <<fiber, fibers>>
         \/ Goto(<<Rerun, Main>>) /\ Suspend
         \/ Goto(<<IF Alive THEN Shut ELSE Done, Main>>) /\ UNCHANGED <<fiber, fibers>>
      /\ UNCHANGED <<status, spawned, opVars, triggered, stopped>>
  BY DEF ResumeDrain, ShutDown, ResumeRerun, RunLoop, taskVars, stopVars
<1>3. PICK fr \in {Drain, Shut, Rerun, Done} : Goto(<<fr, Main>>) /\ (UNCHANGED <<fiber, fibers>> \/ Suspend)
  <2>1. (IF Alive THEN Shut ELSE Done) \in {Drain, Shut, Rerun, Done}
    OBVIOUS
  <2> QED BY <1>2, <2>1
<1>4. UNCHANGED <<status, spawned, opVars, triggered>> /\ stopped \subseteq stopped'
  BY <1>2
<1>5. Goto(<<fr, Main>>) /\ (UNCHANGED <<fiber, fibers>> \/ Suspend)
  BY <1>3
<1>6. fr \in Frames /\ fr.k \in Stages
  BY StageFrame
<1> QED BY <1>1, <1>4, <1>5, <1>6, WakesDispose

(* What is still pending is failed by the shutdown; PHP code settles.       *)
LEMMA WakesSettled ==
    ASSUME Inv, Inv', Wakes, NEW e \in Exts, FailUnsettled(e) \/ \E res \in {"FINISHED", "FAILED"} : SettleExt(e, res)
    PROVE  Wakes'
<1>1. CASE FailUnsettled(e)
  <2>1. /\ Top.k \notin {"end"} \cup Waits /\ status' = [status EXCEPT ![e] = "FAILED"]
        /\ Goto(<<Trigger(e)>> \o stack[fiber])
        /\ UNCHANGED <<fiber, fibers, spawned, opVars, stopVars>>
    BY <1>1 DEF FailUnsettled, Waits
  <2> QED BY <2>1, WakesSettleExt
<1>2. ASSUME NEW res \in {"FINISHED", "FAILED"}, SettleExt(e, res) PROVE Wakes'
  <2>1. /\ Top.k \notin {"end"} \cup Waits /\ status' = [status EXCEPT ![e] = res]
        /\ Goto(<<Trigger(e)>> \o stack[fiber])
        /\ UNCHANGED <<fiber, fibers, spawned, opVars, stopVars>>
    BY <1>2 DEF SettleExt, InCode, Waits
  <2> QED BY <2>1, WakesSettleExt
<1> QED BY <1>1, <1>2

(* The running fiber goes on, and nothing else happens.                     *)
LEMMA WakesGoOn ==
    ASSUME Inv, Inv', Wakes, fiber \in Fiber, NEW r, Continues(r), Goto(r), Head(r).k \notin Waits,
           UNCHANGED <<fiber, fibers, status, spawned, opVars, stopVars>>
    PROVE  Wakes'
<1>1. Rouses(r)
  BY Alone
<1> QED BY <1>1, QuietRouse DEF opVars, stopVars

(* A task that returned an awaitable ends with its result.                  *)
LEMMA WakesReturnSettled ==
    ASSUME Inv, Inv', Wakes, ReturnSettled
    PROVE  Wakes'
<1>1. /\ Top.k = "ret" /\ UNCHANGED <<fiber, fibers, taskVars, readyVars, opVars, loopVars, stopVars>>
  BY DEF ReturnSettled
<1>2. PICK how \in Outcomes : Goto(Deliver(how, stack[fiber]))
  BY DEF ReturnSettled, HowOf, Outcomes
<1> DEFINE r == <<Fin(how)>> \o Rest
<1>3. Goto(r)
  BY <1>1, <1>2 DEF Deliver, Top, Rest
<1>4. /\ Top.k \notin Bottom /\ Top.k \notin {"trigger", "cancel"} /\ Top.k # "end" /\ Top.k \notin Resumers
  BY <1>1 DEF Bottom, Resumers
<1>5. /\ Fin(how) \in Frames /\ Fin(how).k \in {"ok", "fail", "exit"} /\ Still(Rest) /\ fiber \in Fiber
  BY <1>4, FinFrame, PopOff, RunningShape DEF Fin, Frame, Outcomes
<1>6. Continues(r) /\ Head(r) = Fin(how)
  BY <1>4, <1>5, Replace DEF Stages, Callers
<1> HIDE DEF r
<1> QED BY <1>1, <1>3, <1>5, <1>6, WakesGoOn DEF Waits, taskVars

(* Back in task_await_delegate, or bailed out of it.                        *)
LEMMA WakesReturnInlined ==
    ASSUME Inv, Inv', Wakes, ReturnInlined \/ Unwind
    PROVE  Wakes'
<1>1. /\ Top.k \in {"inlined", "bail"}
      /\ UNCHANGED <<fiber, fibers, taskVars, readyVars, opVars, caller, stopVars>>
  BY DEF ReturnInlined, Unwind
<1>2. PICK how \in Outcomes : Goto(Bail(Rest)) \/ Goto(Deliver(how, Rest))
  BY DEF ReturnInlined, Unwind, HowOf, Outcomes
<1>3. /\ Top.k \notin Bottom /\ Top.k \notin {"trigger", "cancel"} /\ Top.k # "end"
  BY <1>1 DEF Bottom
<1>4. fiber \in Fiber /\ Head(Rest).k \in Callers
  BY <1>1, <1>3, RunningShape, Pop DEF Top, Rest, Calls
<1>5. /\ Continues(Deliver(how, Rest)) /\ Continues(Bail(Rest))
      /\ Head(Deliver(how, Rest)).k \notin Waits /\ Head(Bail(Rest)).k \notin Waits
  BY <1>3, <1>4, ReturnTo
<1> QED BY <1>1, <1>2, <1>4, <1>5, WakesGoOn DEF taskVars

(* A fiber that was resumed has come back.                                  *)
LEMMA WakesAfterSwitch ==
    ASSUME Inv, Inv', Wakes, AfterSwitch
    PROVE  Wakes'
<1> DEFINE t == Top.x
<1>1. /\ Top.k = "resched" /\ UNCHANGED <<fiber, fibers, status, spawned, opVars, stopVars>>
  BY DEF AfterSwitch
<1>2. /\ Top.k \notin Bottom /\ Top.k \notin {"trigger", "cancel"} /\ Top.k # "end"
  BY <1>1 DEF Bottom
<1>3. fiber \in Fiber /\ t \in Awaitables
  BY <1>1, <1>2, RunningShape, Pop DEF Top, Subject, Awaitables
<1> HIDE DEF t
<1>4. /\ Trigger(t) \in Frames /\ Trigger(t).k = "trigger"
  BY <1>3, TriggerFrame DEF Trigger, Frame
<1>5. Continues(<<Trigger(t)>> \o Rest) /\ Head(<<Trigger(t)>> \o Rest) = Trigger(t)
  BY <1>2, <1>4, Replace DEF Resumers, Stages, Callers
<1>6. Continues(Rest) /\ Head(Rest).k \notin Waits
  BY <1>2, PopOff
<1>7. Goto(<<Trigger(t)>> \o Rest) \/ Goto(Rest)
  BY DEF AfterSwitch, t
<1> QED BY <1>1, <1>3, <1>4, <1>5, <1>6, <1>7, WakesGoOn DEF Waits

(* A fiber suspends for good.                                               *)
LEMMA WakesSuspendForGood ==
    ASSUME Inv, Inv', Wakes, SuspendForGood
    PROVE  Wakes'
<1> DEFINE r == stack[fiber]
<1>1. /\ Top.k = "end" /\ fiber # NoFiber /\ Suspend
      /\ UNCHANGED <<stack, taskVars, readyVars, opVars, loopVars, stopVars>>
  BY DEF SuspendForGood
<1>2. fiber \in Fiber
  BY <1>1 DEF Inv, FibersOK, StatusOK, Live, Fiber, Owners, Begun
<1>3. /\ WellFormed(r, Begun, fiber) /\ r \in Seq(Frames) /\ r # <<>> /\ Shape(r, fiber, Guests, spawned)
  BY <1>2 DEF Inv, StacksOK, WellFormed, Wakes, ShapesOK
<1>4. Top.k \notin Resumers /\ Top.k \notin Waits
  BY <1>1 DEF Resumers, Waits
<1>5. Goto(r) /\ Still(r) /\ Head(r).k \notin Waits /\ Continues(r)
  BY <1>1, <1>3, <1>4, GotoSame, ShapePop DEF Top, Continues, Loops
<1> HIDE DEF r
<1>6. Telling(r) /\ Returning(r) /\ Begun' = Begun
  BY <1>1, <1>5, NothingTold, ControlReturns DEF taskVars, Begun
<1>7. Rouses(r)
  BY <1>5, <1>6 DEF Rouses
<1> QED BY <1>1, <1>2, <1>7, QuietRouse DEF taskVars, opVars, stopVars

(* Who was blocked in await goes on.                                        *)
LEMMA WakesResumeAwait ==
    ASSUME Inv, Inv', Wakes, ResumeAwait
    PROVE  Wakes'
<1> DEFINE o == Top.o
<1>1. /\ Top.k = "await" /\ UNCHANGED <<fiber, fibers, taskVars, readyVars, callbacks, issued, stopVars>>
  BY DEF ResumeAwait
<1>2. PICK how \in Outcomes : Goto(Bail(Rest)) \/ Goto(Deliver(how, Rest))
  BY DEF ResumeAwait, HowOf, Outcomes
<1>3. /\ Top.k \notin Bottom /\ Top.k \notin {"trigger", "cancel"} /\ Top.k # "end"
  BY <1>1 DEF Bottom
<1>4. fiber \in Fiber /\ Head(Rest).k \in Callers /\ Top \in Frames /\ Subject(Top, Begun)
  BY <1>1, <1>3, RunningShape, Pop DEF Top, Rest, Calls
<1>5. /\ Continues(Deliver(how, Rest)) /\ Continues(Bail(Rest))
      /\ Head(Deliver(how, Rest)).k \notin Waits /\ Head(Bail(Rest)).k \notin Waits
  BY <1>3, <1>4, ReturnTo
<1>6. PICK r : Rouses(r)
  BY <1>1, <1>2, <1>5, Alone DEF taskVars
<1>7. o \in Owners /\ Top.x \in Lists
  BY <1>1, <1>4 DEF Frames, Subject, Lists
<1>8. /\ \A f \in Owners : op'[f].status = "RUNNING" => op[f].status = "RUNNING"
      /\ \A f \in Owners : op'[f].status = "RUNNING" =>
            \A k \in Lists : f \in ToSet(ops[k]) => f \in ToSet(ops'[k])
  <2>1. CASE stopped # {}
    <3>1. /\ ops' = [ops EXCEPT ![Top.x] = Unlink(ops[Top.x], o)] /\ op' = [op EXCEPT ![o] = NoOp]
      BY <2>1 DEF ResumeAwait, DropOp
    <3>2. ASSUME NEW f \in Owners, op'[f].status = "RUNNING", NEW k \in Lists, f \in ToSet(ops[k])
          PROVE  op[f].status = "RUNNING" /\ f \in ToSet(ops'[k])
      <4>1. f # o /\ op'[f] = op[f]
        BY <3>1, <3>2, <1>7 DEF Inv, OpsOK, NoOp
      <4>2. ops[k] \in Seq(Begun \cup {Root}) /\ ops'[k] = IF k = Top.x THEN RemoveFirst(ops[k], o) ELSE ops[k]
        BY <3>1 DEF Inv, OpsOK, Unlink
      <4>3. f \in ToSet(RemoveFirst(ops[k], o))
        BY <3>2, <4>1, <4>2, RemoveFirstOthers
      <4> QED BY <3>2, <4>1, <4>2, <4>3
    <3>3. \A f \in Owners : op'[f].status = "RUNNING" => op[f].status = "RUNNING"
      BY <3>1, <1>7 DEF Inv, OpsOK, NoOp
    <3> QED BY <3>2, <3>3
  <2>2. CASE stopped = {}
    <3>1. op' = [op EXCEPT ![o] = IF @.status = "RUNNING" THEN @ ELSE NoOp] /\ UNCHANGED ops
      BY <2>2 DEF ResumeAwait
    <3>2. \A f \in Owners : op'[f] = op[f] \/ op'[f] = NoOp
      BY <3>1 DEF Inv, OpsOK
    <3> QED BY <3>1, <3>2 DEF NoOp
  <2> QED BY <2>1, <2>2
<1>9. Others(r)
  BY <1>1, <1>8 DEF Others, stopVars
<1> QED BY <1>1, <1>4, <1>6, <1>9, EndsWait DEF taskVars, stopVars

(* Who was blocked in an operation goes on.                                 *)
LEMMA WakesResumeOp ==
    ASSUME Inv, Inv', Wakes, ResumeOp
    PROVE  Wakes'
<1>1. /\ Top.k = "wait" /\ UNCHANGED <<fiber, fibers, taskVars, readyVars, issued, stopVars>>
      /\ callbacks' = RemoveFirst(callbacks, fiber)
      /\ ops' = [ops EXCEPT ![Top.x] = RemoveFirst(ops[Top.x], fiber)]
      /\ op' = [op EXCEPT ![fiber] = NoOp]
      /\ Goto(Bail(Rest)) \/ Goto(Rest)
  BY DEF ResumeOp, Unlink, DropOp
<1>2. /\ Top.k \notin Bottom /\ Top.k \notin {"trigger", "cancel"} /\ Top.k # "end"
  BY <1>1 DEF Bottom
<1>3. fiber \in Fiber /\ Head(Rest).k \in Callers /\ "ok" \in Outcomes
  BY <1>1, <1>2, RunningShape, Pop DEF Top, Rest, Calls, Outcomes
<1>4. /\ Continues(Rest) /\ Continues(Bail(Rest))
      /\ Head(Rest).k \notin Waits /\ Head(Bail(Rest)).k \notin Waits
  BY <1>2, <1>3, ReturnTo, PopOff
<1>5. PICK r : Rouses(r)
  BY <1>1, <1>4, Alone DEF taskVars
<1>6. ASSUME NEW f \in Owners \ {fiber}
      PROVE  /\ op'[f] = op[f]
             /\ \A k \in Lists : f \in ToSet(ops[k]) => f \in ToSet(ops'[k])
             /\ f \in ToSet(callbacks) => f \in ToSet(callbacks')
  <2>1. op'[f] = op[f]
    BY <1>1 DEF Inv, OpsOK
  <2>2. ASSUME NEW k \in Lists, f \in ToSet(ops[k]) PROVE f \in ToSet(ops'[k])
    <3>1. ops[k] \in Seq(Begun \cup {Root}) /\ ops'[k] = IF k = Top.x THEN RemoveFirst(ops[k], fiber) ELSE ops[k]
      BY <1>1 DEF Inv, OpsOK
    <3>2. f \in ToSet(RemoveFirst(ops[k], fiber))
      BY <2>2, <3>1, RemoveFirstOthers
    <3> QED BY <2>2, <3>1, <3>2
  <2>3. ASSUME f \in ToSet(callbacks) PROVE f \in ToSet(callbacks')
    <3>1. callbacks \in Seq(Begun \cup {Root})
      BY DEF Inv, OpsOK
    <3> QED BY <1>1, <2>3, <3>1, RemoveFirstOthers
  <2> QED BY <2>1, <2>2, <2>3
<1>7. Others(r)
  BY <1>1, <1>6 DEF Others, stopVars
<1>8. callbacks' # <<>> => callbacks # <<>>
  BY <1>1 DEF RemoveFirst
<1> QED BY <1>1, <1>3, <1>5, <1>7, <1>8, EndsWait DEF taskVars, stopVars

-------------------------------------------------------------------------------
(* The steps of the event loop.                                             *)

(* The fiber of the event loop.                                             *)
LEMMA InLoopShape ==
    ASSUME Inv, Wakes, Top.k \in {"loop", "dispatch"}
    PROVE  /\ fiber \in Fiber /\ fiber \in Live /\ stack[fiber] \in Seq(Frames)
           /\ Top.k \notin {"end"} \cup Waits /\ Head(stack[fiber]).k \notin Waits
           /\ Continues(stack[fiber]) /\ Still(stack[fiber])
<1>1. Top.k \notin {"end"} \cup Waits /\ Top.k \notin Resumers
  BY DEF Waits, Resumers
<1>2. fiber \in Fiber /\ fiber \in Live
  BY <1>1, RunningShape, NamesAssumption DEF Inv, FibersOK
<1> QED BY <1>1, <1>2, RunningShape, Stay, ShapePop DEF Top

(* The idle watcher calls dispatch_tasks, until no task is ready.           *)
LEMMA WakesIdle ==
    ASSUME Inv, Inv', Wakes, StartDispatch \/ StopDispatch
    PROVE  Wakes'
<1>1. CASE StartDispatch
  <2> DEFINE r == <<Dispatch>> \o stack[fiber]
  <2>1. /\ Top.k = "loop" /\ Goto(r) /\ UNCHANGED <<fiber, fibers, status, spawned, opVars, stopVars>>
    BY <1>1 DEF StartDispatch, InLoop, taskVars
  <2>2. Dispatch \in Frames /\ Dispatch.k = "dispatch"
    BY LoopFrame DEF Dispatch, Frame
  <2>3. Fits(Dispatch, stack[fiber], fiber, Guests, spawned)
    BY <2>1, <2>2, InLoopShape DEF Fits, Stages, Callers
  <2>4. Continues(r) /\ Head(r) = Dispatch
    BY <2>1, <2>2, <2>3, InLoopShape, PushOn
  <2> HIDE DEF r
  <2> QED BY <2>1, <2>2, <2>4, InLoopShape, WakesGoOn DEF Waits
<1>2. CASE StopDispatch
  <2>1. /\ Top.k = "dispatch" /\ Goto(Rest) /\ UNCHANGED <<fiber, fibers, status, spawned, opVars, stopVars>>
    BY <1>2 DEF StopDispatch, taskVars
  <2>2. Top.k \notin Bottom /\ Top.k \notin {"trigger", "cancel"}
    BY <2>1 DEF Bottom
  <2> QED BY <2>1, <2>2, InLoopShape, PopOff, WakesGoOn
<1> QED BY <1>1, <1>2

(* An event callback fails; the event loop ends.                            *)
LEMMA WakesLoopEnds ==
    ASSUME Inv, Inv', Wakes, CallbackError \/ LeaveUvRun
    PROVE  Wakes'
<1> DEFINE r == stack[fiber]
<1>1. /\ Top.k = "loop" /\ UNCHANGED <<stack, status, spawned, opVars, triggered>> /\ stopped \subseteq stopped'
      /\ UNCHANGED <<fiber, fibers>> \/ SwitchNone(caller)
  BY DEF CallbackError, LeaveUvRun, InLoop, taskVars, fiberVars, Stop
<1>2. fiber \in Fiber /\ Continues(r) /\ Head(r).k \notin Waits /\ Still(r) /\ Goto(r)
  BY <1>1, InLoopShape, GotoSame
<1> HIDE DEF r
<1>3. Telling(r) /\ Returning(r) /\ Begun' = Begun
  BY <1>1, <1>2, NothingTold, ControlReturns DEF Begun
<1>4. Rouses(r)
  BY <1>2, <1>3 DEF Rouses
<1> QED BY <1>1, <1>2, <1>4, QuietRouse DEF opVars

(* A task is started: no fiber can have waited for it, or it for a fiber.   *)
LEMMA WakesStart ==
    ASSUME Inv, Inv', Wakes, Top.k = "dispatch", NEW t \in Tasks \ spawned, status[t] = "INIT",
           spawned' = spawned \cup {t},
           status' = [status EXCEPT ![t] = "RUNNING"],
           stack' = [stack EXCEPT ![fiber] = <<Resched(t)>> \o @, ![t] = <<Code(t), Body(t)>>],
           Switch(t), UNCHANGED <<opVars, stopVars>>
    PROVE  Wakes'
<1> DEFINE r == <<Resched(t)>> \o stack[fiber]
           b == <<Code(t), Body(t)>>
<1>1. /\ fiber \in Fiber /\ fiber \in Live /\ fiber # t /\ t \in Fiber /\ t \in Awaitables /\ t \notin Begun
      /\ stack[fiber] \in Seq(Frames)
  BY InLoopShape, NamesAssumption DEF Live, Fiber, Owners, Awaitables, Begun
<1>2. /\ stack'[fiber] = r /\ stack'[t] = b
      /\ \A f \in Fiber \cup {NoFiber} : f \notin {fiber, t} => stack'[f] = stack[f]
  BY <1>1 DEF Inv, StacksOK
<1>3. /\ Begun' = Begun \cup {t} /\ Guests' = Guests /\ spawned \subseteq spawned'
      /\ \A x \in Awaitables : x # t => status'[x] = status[x]
      /\ status'[t] = "RUNNING"
  BY <1>1 DEF Begun, Guests, Inv, StatusOK
<1>4. /\ Resched(t) \in Frames /\ Resched(t).k = "resched" /\ Code(t) \in Frames /\ Body(t) \in Frames
      /\ Code(t).k = "code" /\ Code(t).o = t /\ Body(t).k = "body"
  BY DEF Resched, Code, Body, Frame, Frames, Kinds, Owners
<1>5. Continues(r) /\ Head(r) = Resched(t) /\ ToSet(r) = {Resched(t)} \cup ToSet(stack[fiber])
  <2>1. Fits(Resched(t), stack[fiber], fiber, Guests, spawned)
    BY <1>4 DEF Fits, Stages, Callers, Resumers
  <2> QED BY <1>1, <1>4, <2>1, InLoopShape, PushOn, Pushed
<1>6. b \in Seq(Frames) /\ Head(b) = Code(t) /\ Shape(b, t, Guests, spawned')
  <2>1. b \in Seq(Frames) /\ Head(b) = Code(t) /\ DOMAIN b = {1, 2} /\ b[1] = Code(t) /\ b[2] = Body(t)
    BY <1>4
  <2> HIDE DEF b
  <2> QED BY <1>4, <2>1 DEF Shape, Waits, Stages, Callers
<1>7. stack[t] = <<End>> /\ ToSet(stack[t]) = {End}
  <2>1. stack[t] = <<End>>
    BY DEF Wakes, ShapesOK
  <2>2. ToSet(<<End>>) = {End}
    BY DEF ToSet
  <2> QED BY <2>1, <2>2
<1> HIDE DEF r, b
<1>8. ShapesOK'
  <2>1. ASSUME NEW f \in Fiber \cup {NoFiber} PROVE Shape(stack'[f], f, Guests', spawned')
    <3>1. CASE f = fiber
      <4>1. Shape(r, fiber, Guests, spawned)
        BY <1>5 DEF Continues
      <4>2. Shape(r, f, Guests', spawned')
        BY <1>3, <3>1, <4>1, ShapeGrow
      <4>3. stack'[f] = r
        BY <1>2, <3>1
      <4> QED BY <4>2, <4>3
    <3>2. CASE f = t
      <4>1. stack'[f] = b
        BY <1>2, <3>2
      <4>2. Shape(b, f, Guests', spawned')
        BY <1>3, <1>6, <3>2, Zenon
      <4> QED BY <4>1, <4>2
    <3>3. CASE f \notin {fiber, t}
      <4>1. stack'[f] = stack[f] /\ Shape(stack[f], f, Guests, spawned)
        BY <1>2, <3>3 DEF Wakes, ShapesOK
      <4> QED BY <1>3, <4>1, ShapeGrow
    <3> QED BY <3>1, <3>2, <3>3
  <2>2. ASSUME NEW u \in Tasks \ spawned' PROVE stack'[u] = <<End>>
    <3>1. u \in Tasks \ spawned /\ u # t /\ u # fiber /\ u \in Fiber
      BY <1>1, <2>2, NamesAssumption DEF Live, Fiber, Owners
    <3> QED BY <1>2, <3>1 DEF Wakes, ShapesOK
  <2> QED BY <2>1, <2>2 DEF ShapesOK
<1>9. \A f \in Owners : Head(stack'[f]).k \in Waits => stack'[f] = stack[f]
  BY <1>2, <1>4, <1>5, <1>6 DEF Fiber, Waits
<1>10. Asked'
  BY <1>9 DEF Asked, Wakes, opVars, Waits
<1>11. Asking'
  <2> SUFFICES ASSUME triggered, callbacks # <<>>
               PROVE  \E f \in Fiber : Cancel \in ToSet(stack'[f])
    BY DEF Asking, opVars, stopVars
  <2>1. PICK f \in Fiber : Cancel \in ToSet(stack[f])
    BY DEF Wakes, Asking
  <2>2. f # t
    BY <1>7, <2>1 DEF Cancel, End, Frame
  <2> QED BY <1>2, <1>5, <2>1, <2>2
<1>12. Heard'
  <2> SUFFICES ASSUME stopped' = {}, NEW f \in Owners, NEW x \in Awaitables
               PROVE  Hears(f, x)'
    BY Zenon DEF Heard
  <2> SUFFICES ASSUME Head(stack'[f]) = Await(x, f), op'[f].status = "RUNNING"
               PROVE  /\ f \in ToSet(ops'[x])
                      /\ Settled(x)' => \E g \in Gets' : Trigger(x) \in ToSet(stack'[g])
    BY Zenon DEF Hears
  <2>0. Head(stack'[f]).k \in Waits
    BY DEF Waits, Await, Frame
  <2>1. stack'[f] = stack[f] /\ stopped = {} /\ op[f].status = "RUNNING"
    BY <1>9, <2>0 DEF opVars, stopVars
  <2>2. /\ f \in ToSet(ops[x])
        /\ Settled(x) => \E g \in Gets : Trigger(x) \in ToSet(stack[g])
    BY <2>1 DEF Wakes, Heard, Hears
  <2>3. ASSUME Settled(x)' PROVE \E g \in Gets' : Trigger(x) \in ToSet(stack'[g])
    <3>1. x # t /\ Settled(x)
      BY <1>3, <2>3 DEF Settled
    <3>2. PICK g \in Gets : Trigger(x) \in ToSet(stack[g])
      BY <2>2, <3>1
    <3>3. g # t
      BY <1>7, <3>2 DEF Trigger, End, Frame
    <3>4. g \in Fiber
      BY <1>1, <3>2 DEF Gets, ToSet, Inv, FibersOK, StatusOK, Live, Fiber, Owners, Begun
    <3>5. g \in Gets'
      <4>1. Returning(r)
        BY <1>1, ControlReturns
      <4>2. fiber \in Gets'
        <5>1. Switch(t)
          OBVIOUS
        <5>2. fiber \in ToSet(fibers')
          <6>1. CASE fiber \in ToSet(fibers)
            BY <5>1, <6>1 DEF Switch
          <6>2. CASE fiber \notin ToSet(fibers)
            <7>1. fibers' = <<fiber>> \o fibers /\ fibers \in Seq(Live)
              BY <1>1, <5>1, <6>2 DEF Switch, Inv, FibersOK
            <7>2. ToSet(<<fiber>> \o fibers) = {fiber} \cup ToSet(fibers)
              BY <1>1, <7>1, PrependedSet
            <7> QED BY <7>1, <7>2
          <6> QED BY <6>1, <6>2
        <5> QED BY <5>2 DEF Gets
      <4> QED BY <3>2, <4>1, <4>2 DEF Returning
    <3> QED BY <1>2, <1>5, <3>2, <3>3, <3>4, <3>5
  <2> QED BY <2>2, <2>3 DEF opVars
<1> QED BY <1>8, <1>10, <1>11, <1>12 DEF Wakes

(* One round of dispatch_tasks.                                             *)
LEMMA WakesDispatchTask ==
    ASSUME Inv, Inv', Wakes, DispatchTask
    PROVE  Wakes'
<1> DEFINE t == Head(ready)
<1>1. /\ Top.k = "dispatch" /\ ready # <<>> /\ UNCHANGED <<idle, opVars, loopVars, stopVars>>
  BY DEF DispatchTask
<1>2. t \in spawned \cup Fresh \cup {Root}
  BY <1>1, TakeReady
<1>3. /\ fiber \in Fiber /\ fiber \in Live /\ stack[fiber] \in Seq(Frames)
      /\ Top.k \notin {"end"} \cup Waits /\ Head(stack[fiber]).k \notin Waits /\ Continues(stack[fiber])
  BY <1>1, InLoopShape
<1> HIDE DEF t
<1>4. CASE Switch(caller) /\ UNCHANGED <<stack, taskVars>>
  <2>1. Goto(stack[fiber])
    BY <1>4, GotoSame
  <2>2. Telling(stack[fiber]) /\ Begun' = Begun
    BY <1>4, NothingTold DEF taskVars, Begun
  <2>3. Returning(stack[fiber])
    BY <1>3, <1>4, ControlReturns
  <2>4. Rouses(stack[fiber])
    BY <1>3, <2>1, <2>2, <2>3 DEF Rouses
  <2> QED BY <1>1, <1>3, <1>4, <2>4, QuietRouse DEF taskVars, opVars, stopVars
<1>5. CASE /\ t \in Tasks \ spawned
           /\ Goto(IF t \in disposed THEN stack[fiber] ELSE <<Trigger(t)>> \o stack[fiber])
           /\ UNCHANGED <<fiber, fibers, status, spawned, runs>>
  <2>1. Trigger(t) \in Frames /\ Trigger(t).k = "trigger"
    BY <1>5, TriggerFrame DEF Trigger, Frame, Awaitables
  <2>2. Fits(Trigger(t), stack[fiber], fiber, Guests, spawned)
    BY <2>1 DEF Fits, Stages, Callers, Resumers
  <2>3. Continues(<<Trigger(t)>> \o stack[fiber]) /\ Head(<<Trigger(t)>> \o stack[fiber]).k \notin Waits
    BY <1>3, <2>1, <2>2, PushOn DEF Waits
  <2>4. PICK r : Continues(r) /\ Goto(r) /\ Head(r).k \notin Waits
    BY <1>3, <1>5, <2>3
  <2> QED BY <1>1, <1>3, <1>5, <2>4, WakesGoOn
<1>6. CASE /\ t \in Tasks \ spawned /\ spawned' = spawned \cup {t}
           /\ status' = [status EXCEPT ![t] = "RUNNING"]
           /\ stack' = [stack EXCEPT ![fiber] = <<Resched(t)>> \o @, ![t] = <<Code(t), Body(t)>>]
           /\ Switch(t)
  <2>1. t \in Fresh
    BY <1>2, <1>6, NamesAssumption
  <2> QED BY <1>1, <1>6, <2>1, WakesStart DEF Fresh
<1>7. CASE /\ t \in spawned /\ status' = [status EXCEPT ![t] = "RUNNING"]
           /\ Goto(<<Resched(t)>> \o stack[fiber]) /\ Switch(t) /\ UNCHANGED <<spawned, disposed, runs>>
  <2> DEFINE r == <<Resched(t)>> \o stack[fiber]
  <2>1. Resched(t) \in Frames /\ Resched(t).k = "resched"
    BY <1>7 DEF Resched, Frame, Frames, Kinds, Owners, Inv, StatusOK, Begun
  <2>2. Fits(Resched(t), stack[fiber], fiber, Guests, spawned)
    BY <2>1 DEF Fits, Stages, Callers, Resumers
  <2>3. Continues(r) /\ Head(r) = Resched(t) /\ Goto(r)
    BY <1>3, <1>7, <2>1, <2>2, PushOn
  <2> HIDE DEF r
  <2>4. Telling(r) /\ Begun \subseteq Begun'
    <3>1. "RUNNING" \notin {"FINISHED", "FAILED"} /\ "RUNNING" \notin {"NONE", "INIT"}
      OBVIOUS
    <3>2. MovesOn
      BY <1>7, <3>1 DEF MovesOn
    <3>3. Telling(r)
      BY <1>7, <3>1, NoResult
    <3> QED BY <3>2, <3>3, BegunForGood
  <2>5. Returning(r)
    BY <1>3, <1>7, ControlReturns
  <2>6. Rouses(r)
    BY <2>1, <2>3, <2>4, <2>5 DEF Rouses, Waits
  <2> QED BY <1>1, <1>3, <1>7, <2>6, QuietRouse DEF opVars, stopVars
<1> QED BY <1>1, <1>4, <1>5, <1>6, <1>7 DEF DispatchTask, t

-------------------------------------------------------------------------------
(* The main script is about to run.                                         *)
LEMMA WakesInit == Init => Wakes
<1> SUFFICES ASSUME Init PROVE Wakes
  OBVIOUS
<1>1. \A f \in Fiber \cup {NoFiber} : stack[f] \in {<<Code(Root), Main>>, <<Loop>>, <<End>>}
  BY DEF Init
<1>2. /\ Root \notin Tasks /\ stack[Root] = <<Code(Root), Main>>
      /\ \A f \in Fiber \cup {NoFiber} : f # Root => stack[f] \in {<<Loop>>, <<End>>}
      /\ \A t \in Tasks : stack[t] = <<End>>
  BY NamesAssumption DEF Init, Fiber, Owners
<1>3. /\ Loop \in Frames /\ End \in Frames /\ Loop.k = "loop" /\ End.k = "end"
      /\ Code(Root) \in Frames /\ Code(Root).k = "code" /\ Code(Root).o = Root
      /\ Main \in Frames /\ Main.k = "main"
  BY DEF Loop, End, Code, Main, Frame, Frames, Kinds, Owners
<1>4. ShapesOK
  <2>1. ASSUME NEW f \in Fiber \cup {NoFiber} PROVE Shape(stack[f], f, Guests, spawned)
    <3>1. CASE f = Root
      <4> DEFINE s == <<Code(Root), Main>>
      <4>1. DOMAIN s = {1, 2} /\ s[1] = Code(Root) /\ s[2] = Main
        OBVIOUS
      <4>2. stack[f] = s
        BY <1>2, <3>1
      <4> HIDE DEF s
      <4>3. Shape(s, f, Guests, spawned)
        BY <1>3, <3>1, <4>1 DEF Shape, Waits, Stages, Callers
      <4> QED BY <4>2, <4>3
    <3>2. CASE f # Root
      <4>1. Loop.k \in Bottom /\ End.k \in Bottom
        BY <1>3 DEF Bottom
      <4>2. Shape(<<Loop>>, f, Guests, spawned) /\ Shape(<<End>>, f, Guests, spawned)
        BY <1>3, <4>1, OneFrame
      <4>3. stack[f] = <<Loop>> \/ stack[f] = <<End>>
        BY <1>2, <3>2
      <4> QED BY <4>2, <4>3
    <3> QED BY <3>1, <3>2
  <2> QED BY <1>2, <2>1 DEF ShapesOK
<1>5. \A f \in Owners : Head(stack[f]).k \notin Waits
  <2> SUFFICES ASSUME NEW f \in Owners PROVE Head(stack[f]).k \notin Waits
    OBVIOUS
  <2>1. stack[f] \in {<<Code(Root), Main>>, <<Loop>>, <<End>>}
    BY <1>1 DEF Fiber
  <2>2. Head(<<Code(Root), Main>>) = Code(Root) /\ Head(<<Loop>>) = Loop /\ Head(<<End>>) = End
    OBVIOUS
  <2>3. Head(stack[f]).k \in {"code", "loop", "end"}
    BY <1>3, <2>1, <2>2
  <2> QED BY <2>3 DEF Waits
<1>6. Asked /\ Asking /\ Heard
  <2>1. \A f \in Owners : \A x : Head(stack[f]) # Await(x, f)
    BY <1>5 DEF Await, Frame, Waits
  <2> QED BY <1>5, <2>1 DEF Asked, Asking, Heard, Hears, Init, Waits
<1> QED BY <1>4, <1>6 DEF Wakes

(* The steps of PHP code keep the invariant.                                *)
LEMMA WakesPhpCode ==
    ASSUME Inv, Inv', Wakes, PhpCode
    PROVE  Wakes'
BY WakesAsync, WakesAwaitInline, WakesAwaitBlock, WakesReturn, WakesAwaitOp, WakesSignal,
   WakesSettled, WakesCancelled DEF PhpCode

(* So do the steps of the C code.                                           *)
LEMMA WakesEngine ==
    ASSUME Inv, Inv', Wakes, Engine
    PROVE  Wakes'
BY WakesFinishBody, WakesFinishInline, WakesFinishMain, WakesReturnSettled, WakesReturnInlined,
   WakesTriggerOps, WakesAfterSwitch, WakesSuspendForGood, WakesResumeAwait, WakesResumeOp,
   WakesCancelOps, WakesStages, WakesFailLeftover, WakesSettled DEF Engine

(* So do those of the event loop.                                           *)
LEMMA WakesEventLoop ==
    ASSUME Inv, Inv', Wakes, EventLoop
    PROVE  Wakes'
BY WakesIdle, WakesDispatchTask, WakesRequestDone, WakesCancelled, WakesLoopEnds DEF EventLoop

(* No step breaks the invariant.                                            *)
LEMMA WakesNext == Inv /\ Wakes /\ [Next]_vars => Wakes'
<1> SUFFICES ASSUME Inv, Wakes, [Next]_vars PROVE Wakes'
  OBVIOUS
<1>1. Inv'
  BY StepNext
<1>2. CASE UNCHANGED vars
  BY <1>2 DEF vars, fiberVars, taskVars, readyVars, opVars, loopVars, stopVars, Wakes, ShapesOK,
     Guests, Begun, Asked, Asking, Heard, Hears, Gets, Settled
<1> QED BY <1>1, <1>2, WakesPhpCode, WakesEngine, WakesEventLoop DEF Next

(* It says that no wakeup is lost, and that a cancellation reaches everybody.*)
LEMMA WakesMeans == Wakes => NoLostWakeup /\ CancelReachesAll
<1> SUFFICES ASSUME Wakes PROVE NoLostWakeup /\ CancelReachesAll
  OBVIOUS
<1>1. NoLostWakeup
  BY DEF Wakes, Heard, Hears, NoLostWakeup, Gets, ToSet
<1>2. CancelReachesAll
  <2> SUFFICES ASSUME triggered, \A f \in Fiber : Cancel \notin ToSet(stack[f]),
                      NEW f \in Owners, Head(stack[f]).k = "wait", Head(stack[f]).o \in Cancellable,
                      op[f].status = "RUNNING"
               PROVE  FALSE
    BY DEF CancelReachesAll
  <2>1. f \in ToSet(callbacks)
    BY DEF Wakes, Asked
  <2>2. callbacks # <<>>
    BY <2>1 DEF ToSet
  <2> QED BY <2>2 DEF Wakes, Asking
<1> QED BY <1>1, <1>2

(* The invariant holds in every state.                                      *)
LEMMA WakesHolds == Spec => []Wakes
<1>1. Init => Inv /\ Wakes
  BY InitInv, WakesInit
<1>2. Inv /\ Wakes /\ [Next]_vars => (Inv /\ Wakes)'
  BY StepNext, WakesNext
<1> QED BY <1>1, <1>2, PTL DEF Spec

(* Whoever is blocked on an awaitable is queued on it, and when it is       *)
(* settled a loop over that queue is under way on the running fiber or on   *)
(* one that gets control back: await_val, trigger_ops, async_awaitable_*    *)
(* and the order in which async_fiber_switch resumes fibers lose no wakeup. *)
THEOREM NobodySleepsOn == Spec => []NoLostWakeup
BY WakesHolds, WakesMeans, PTL

(* When the callbacks of a cancellation have been called, by the timer or   *)
(* by the cancel handler, nobody is left blocked in async_await_op under    *)
(* that cancellation: cancel_op and cancel_op_root reach every operation.   *)
THEOREM CancellationReachesAll == Spec => []CancelReachesAll
BY WakesHolds, WakesMeans, PTL
===============================================================================
