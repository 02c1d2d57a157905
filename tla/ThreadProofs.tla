----------------------------- MODULE ThreadProofs -----------------------------
(***************************************************************************)
(* Theorems of the worker threads, for every set of tasks and every number  *)
(* of thread objects.                                                       *)
(***************************************************************************)
EXTENDS Thread, SequenceLemmas

(* The inductive invariant.                                                 *)

(* The stacks a task and the event loop may have.                           *)
InCall(s) == \E h \in Threads : s = <<Killing(h), Code>> \/ s = <<Destroy(h), Code>>
Blocked(s) == \E h \in Threads : s = <<Joining(h), Code>>
OfTask(s) == s \in {<<>>, <<Code>>, <<Over>>} \/ InCall(s) \/ Blocked(s)
Notifies(s) == \E h \in Threads, n \in SUBSET Threads : s = <<Notify(h), AsyncIo(n), Loop>>
OfLoop(s) ==
    \/ s = <<Loop>> \/ Notifies(s)
    \/ \E h \in Threads : s = <<Destroy(h), Loop>>
    \/ \E n \in SUBSET Threads : s = <<AsyncIo(n), Loop>>

(* A fiber that has switched away is in PHP code, or it is the event loop,  *)
(* between two handles or inside notify_thread_cb.                          *)
Left(s) == s \in {<<Code>>, <<Loop>>} \/ Notifies(s)

StacksOK ==
    /\ stack \in [Tasks \cup {Runner} -> Seq(Frames)]
    /\ \A t \in Tasks : OfTask(stack[t])
    /\ OfLoop(stack[Runner])
    /\ \A h \in Threads : stack[Runner] # <<>> /\ Head(stack[Runner]) = Notify(h) => Terminated(h)
FibersOK ==
    /\ fiber \in Tasks \cup {Runner} /\ fibers \in Seq(Tasks \cup {Runner})
    /\ stack[fiber] \notin {<<>>, <<Over>>}
    /\ \A t \in Tasks : t # fiber => ~InCall(stack[t])
    /\ fiber # Runner => Left(stack[Runner])
    /\ Single(fibers, Tasks \cup {Runner})
    /\ \A i \in DOMAIN fibers : fibers[i] # fiber /\ Left(stack[fibers[i]])

(* The tasks that wait for the end of a thread are blocked in join.         *)
JoinsOK ==
    /\ op \in [Tasks -> {"PENDING", "RUNNING", "RESOLVED", "FAILED"}]
    /\ cancelled \subseteq Tasks /\ join \in [Threads -> Seq(Tasks)]
    /\ \A t \in Tasks : op[t] = "RUNNING" => Blocked(stack[t])
    /\ \A t \in Tasks, h \in Threads :
        stack[t] = <<Joining(h), Code>> /\ op[t] = "RESOLVED" => Terminated(h)
    /\ \A h \in Threads :
        /\ Single(join[h], Tasks)
        /\ \A i \in DOMAIN join[h] : stack[join[h][i]] = <<Joining(h), Code>>

(* What the place of a worker says of the object it shares with the parent. *)
Flagged(p) == p \in {"published", "run", "blocked", "over"}
Sends(p) == p \in {"shut", "claimed", "signalled", "gone"}
Away(p) == p \in {"none", "gone"}
Destroys(s, h) == s = <<Destroy(h), Code>> \/ s = <<Destroy(h), Loop>>
WorkerOK(h) ==
    /\ h \in interrupt <=> Flagged(pc[h])
    /\ Sends(pc[h]) => exit[h] = h
    /\ pending[h] = 1 <=> pc[h] \in {"claimed", "signalled"}
    /\ pending[h] = 2 => pc[h] = "gone"
    /\ Terminated(h) => pc[h] = "gone"
    /\ ~Away(pc[h]) => handle[h] = "active" /\ "RUNNING" \in flags[h]
    /\ handle[h] = "none" => pc[h] = "none" /\ h \notin freed
    /\ \A f \in Tasks \cup {Runner} : Destroys(stack[f], h) => handle[h] # "none"
    /\ h \in freed => Away(pc[h])
    /\ h \in locked => h \in interrupt
    /\ \A t \in Tasks : stack[t] = <<Killing(h), Code>> => h \in locked
WorkersOK ==
    /\ flags \in [Threads -> SUBSET {"RUNNING", "TERMINATED", "KILLED"}]
    /\ handle \in [Threads -> {"none", "active", "closing", "closed"}]
    /\ dropped \subseteq Threads /\ freed \subseteq Threads /\ locked \subseteq Threads
    /\ interrupt \subseteq Threads /\ vmint \subseteq Threads
    /\ exit \in [Threads -> Threads \cup {None}] /\ pc \in [Threads -> Places]
    /\ pending \in [Threads -> 0..2] /\ wake \in BOOLEAN /\ scene \in Scenes
    /\ \A h \in Threads : WorkerOK(h)

Inv == StacksOK /\ FibersOK /\ JoinsOK /\ WorkersOK
-------------------------------------------------------------------------------
(* Stacks of frames.                                                        *)

(* The kinds of frames differ.                                              *)
LEMMA Kinds ==
    /\ \A h, g : Killing(h) # Joining(g) /\ Killing(h) # Destroy(g) /\ Joining(h) # Destroy(g)
    /\ \A h, g : Killing(h) = Killing(g) \/ Joining(h) = Joining(g) \/ Destroy(h) = Destroy(g)
                     \/ Notify(h) = Notify(g) => h = g
    /\ \A h : /\ Killing(h).k = "kill" /\ Killing(h).x = h /\ Joining(h).k = "join" /\ Joining(h).x = h
              /\ Destroy(h).k = "destroy" /\ Destroy(h).x = h /\ Notify(h).k = "notify" /\ Notify(h).x = h
              /\ AsyncIo(h).k = "io" /\ AsyncIo(h).s = h
    /\ Code.k = "code" /\ Over.k = "over" /\ Loop.k = "loop"
BY DEF Killing, Joining, Destroy, Notify, AsyncIo, Code, Over, Loop, Frame

(* A stack of either form is a sequence of frames.                          *)
LEMMA StackType ==
    ASSUME NEW s, OfTask(s) \/ OfLoop(s)
    PROVE  s \in Seq(Frames)
<1>1. \A h \in Threads, n \in SUBSET Threads :
          /\ Killing(h) \in Frames /\ Joining(h) \in Frames /\ Destroy(h) \in Frames /\ Notify(h) \in Frames
          /\ AsyncIo(n) \in Frames
  BY DEF Killing, Joining, Destroy, Notify, AsyncIo, Frame, Frames
<1>2. Code \in Frames /\ Over \in Frames /\ Loop \in Frames
  BY DEF Code, Over, Loop, Frame, Frames
<1>3. \A a, b, c \in Frames : /\ <<>> \in Seq(Frames) /\ <<a>> \in Seq(Frames)
                              /\ <<a, b>> \in Seq(Frames) /\ <<a, b, c>> \in Seq(Frames)
  OBVIOUS
<1>4. CASE s \in {<<>>, <<Code>>, <<Over>>, <<Loop>>}
  BY <1>2, <1>3, <1>4
<1>5. CASE InCall(s) \/ Blocked(s)
  BY <1>1, <1>2, <1>3, <1>5 DEF InCall, Blocked
<1>6. CASE Notifies(s)
  BY <1>1, <1>2, <1>3, <1>6 DEF Notifies
<1>7. CASE \E h \in Threads : s = <<Destroy(h), Loop>>
  BY <1>1, <1>2, <1>3, <1>7
<1>8. CASE \E n \in SUBSET Threads : s = <<AsyncIo(n), Loop>>
  <2>1. PICK n \in SUBSET Threads : s = <<AsyncIo(n), Loop>>
    BY <1>8
  <2>2. AsyncIo(n) \in Frames
    BY DEF AsyncIo, Frame, Frames
  <2> QED BY <1>2, <1>3, <2>1, <2>2
<1> QED BY <1>4, <1>5, <1>6, <1>7, <1>8 DEF OfTask, OfLoop

(* A fiber that has switched away has a frame, and is not in a call.        *)
LEMMA AboutLeft ==
    ASSUME NEW s, Left(s)
    PROVE  s \notin {<<>>, <<Over>>} /\ ~InCall(s) /\ ~Blocked(s)
<1>1. CASE s = <<Code>> \/ s = <<Loop>>
  <2>1. Code # Over /\ Loop # Over
    BY DEF Code, Loop, Over, Frame
  <2> QED BY <1>1, <2>1 DEF InCall, Blocked
<1>2. CASE Notifies(s)
  <2>1. PICK a, b, c : s = <<a, b, c>>
    BY <1>2 DEF Notifies
  <2>2. \A d, e : s # <<d, e>> /\ s # <<d>> /\ s # <<>>
    BY <2>1
  <2> QED BY <2>2 DEF InCall, Blocked
<1> QED BY <1>1, <1>2 DEF Left

(* What the running fiber executes says which fiber it is and what lies     *)
(* below.                                                                   *)
LEMMA Running ==
    ASSUME Inv
    PROVE  /\ InCode => fiber \in Tasks /\ stack[fiber] = <<Code>>
           /\ InLoop => fiber = Runner /\ stack[fiber] = <<Loop>>
           /\ Top.k = "kill" => /\ fiber \in Tasks /\ Top.x \in Threads /\ Rest = <<Code>>
                                /\ stack[fiber] = <<Killing(Top.x), Code>>
           /\ Top.k = "join" => /\ fiber \in Tasks /\ Top.x \in Threads /\ Rest = <<Code>>
                                /\ stack[fiber] = <<Joining(Top.x), Code>>
           /\ Top.k = "destroy" => /\ Top.x \in Threads
                                   /\ \/ fiber \in Tasks /\ Rest = <<Code>>
                                      \/ fiber = Runner /\ Rest = <<Loop>>
           /\ Top.k = "io" => /\ fiber = Runner /\ Top.s \in SUBSET Threads /\ Rest = <<Loop>>
           /\ Top.k = "notify" =>
                /\ fiber = Runner /\ Top.x \in Threads /\ Terminated(Top.x) /\ Notifies(stack[fiber])
                /\ \E n \in SUBSET Threads : Rest = <<AsyncIo(n), Loop>>
<1> DEFINE s == stack[fiber]
<1>1. CASE fiber \in Tasks
  <2>1. fiber # Runner /\ (s = <<Code>> \/ InCall(s) \/ Blocked(s))
    BY <1>1, ThreadNames DEF Inv, StacksOK, FibersOK, OfTask
  <2>2. CASE s = <<Code>>
    BY <2>1, <2>2, <1>1, Kinds, ShortSequences DEF Top, Rest, InCode, InLoop
  <2>3. CASE InCall(s)
    <3>1. PICK h \in Threads : s = <<Killing(h), Code>> \/ s = <<Destroy(h), Code>>
      BY <2>3 DEF InCall
    <3>2. CASE s = <<Killing(h), Code>>
      <4>1. Top = Killing(h) /\ Rest = <<Code>>
        BY <3>2, ShortSequences DEF Top, Rest
      <4> QED BY <2>1, <3>2, <4>1, <1>1, Kinds DEF InCode, InLoop
    <3>3. CASE s = <<Destroy(h), Code>>
      <4>1. Top = Destroy(h) /\ Rest = <<Code>>
        BY <3>3, ShortSequences DEF Top, Rest
      <4> QED BY <2>1, <3>3, <4>1, <1>1, Kinds DEF InCode, InLoop
    <3> QED BY <3>1, <3>2, <3>3
  <2>4. CASE Blocked(s)
    <3>1. PICK h \in Threads : s = <<Joining(h), Code>>
      BY <2>4 DEF Blocked
    <3>2. Top = Joining(h) /\ Rest = <<Code>>
      BY <3>1, ShortSequences DEF Top, Rest
    <3> QED BY <2>1, <3>1, <3>2, <1>1, Kinds DEF InCode, InLoop
  <2> QED BY <2>1, <2>2, <2>3, <2>4
<1>2. CASE fiber = Runner
  <2>1. fiber \notin Tasks /\ OfLoop(s)
    BY <1>2, ThreadNames DEF Inv, StacksOK
  <2>2. CASE s = <<Loop>>
    BY <2>1, <2>2, <1>2, Kinds, ShortSequences DEF Top, Rest, InCode, InLoop
  <2>3. CASE Notifies(s)
    <3>1. PICK h \in Threads, n \in SUBSET Threads : s = <<Notify(h), AsyncIo(n), Loop>>
      BY <2>3 DEF Notifies
    <3>2. Top = Notify(h) /\ Rest = <<AsyncIo(n), Loop>>
      BY <3>1, ShortSequences DEF Top, Rest
    <3>3. Terminated(h)
      BY <3>1, <3>2, <1>2 DEF Inv, StacksOK, Top
    <3> QED BY <2>1, <2>3, <3>1, <3>2, <3>3, <1>2, Kinds DEF InCode, InLoop
  <2>4. CASE \E h \in Threads : s = <<Destroy(h), Loop>>
    <3>1. PICK h \in Threads : s = <<Destroy(h), Loop>>
      BY <2>4
    <3>2. Top = Destroy(h) /\ Rest = <<Loop>>
      BY <3>1, ShortSequences DEF Top, Rest
    <3> QED BY <2>1, <3>2, <1>2, Kinds DEF InCode, InLoop
  <2>5. CASE \E n \in SUBSET Threads : s = <<AsyncIo(n), Loop>>
    <3>1. PICK n \in SUBSET Threads : s = <<AsyncIo(n), Loop>>
      BY <2>5
    <3>2. Top = AsyncIo(n) /\ Rest = <<Loop>>
      BY <3>1, ShortSequences DEF Top, Rest
    <3> QED BY <2>1, <3>2, <1>2, Kinds DEF InCode, InLoop
  <2> QED BY <2>1, <2>2, <2>3, <2>4, <2>5 DEF OfLoop
<1>3. fiber \in Tasks \cup {Runner}
  BY DEF Inv, FibersOK
<1> QED BY <1>1, <1>2, <1>3

(* What is known of a thread stays known of it.                             *)
Lasting == \A h \in Threads : Terminated(h) => Terminated(h)'

(* The running fiber goes on with stack s.                                  *)
LEMMA GotoStacks ==
    ASSUME Inv, Lasting, NEW s, Goto(s),
           (fiber \in Tasks /\ OfTask(s)) \/ (fiber = Runner /\ OfLoop(s)),
           \A h \in Threads : fiber = Runner /\ Head(s) = Notify(h) => Terminated(h)'
    PROVE  StacksOK'
<1>1. DOMAIN stack = Tasks \cup {Runner} /\ fiber \in Tasks \cup {Runner}
  BY DEF Inv, StacksOK, FibersOK
<1>2. DOMAIN stack' = Tasks \cup {Runner} /\ stack'[fiber] = s
      /\ \A f \in Tasks \cup {Runner} : f # fiber => stack'[f] = stack[f]
  BY <1>1 DEF Goto
<1>3. \A t \in Tasks : OfTask(stack'[t])
  BY <1>2, ThreadNames DEF Inv, StacksOK
<1>4. OfLoop(stack'[Runner])
  BY <1>2, ThreadNames DEF Inv, StacksOK
<1>5. ASSUME NEW h \in Threads, stack'[Runner] # <<>>, Head(stack'[Runner]) = Notify(h)
      PROVE  Terminated(h)'
  BY <1>2, <1>5 DEF Inv, StacksOK, Lasting
<1>6. stack' \in [Tasks \cup {Runner} -> Seq(Frames)]
  <2>1. s \in Seq(Frames)
    BY StackType
  <2> QED BY <2>1 DEF Goto, Inv, StacksOK
<1> QED BY <1>2, <1>3, <1>4, <1>5, <1>6 DEF StacksOK, OfTask, OfLoop, InCall, Blocked, Notifies

(* The running fiber goes on with stack s: the list of those that have left *)
(* is not concerned.                                                        *)
LEMMA GotoFibers ==
    ASSUME Inv, NEW s, Goto(s), s \notin {<<>>, <<Over>>}, UNCHANGED <<fiber, fibers>>
    PROVE  FibersOK'
<1>1. DOMAIN stack = Tasks \cup {Runner} /\ fiber \in Tasks \cup {Runner}
  BY DEF Inv, StacksOK, FibersOK
<1>2. stack'[fiber] = s /\ \A f \in Tasks \cup {Runner} : f # fiber => stack'[f] = stack[f]
  BY <1>1 DEF Goto
<1>3. \A f \in Tasks \cup {Runner} : f # fiber /\ Left(stack[f]) => Left(stack'[f])
  BY <1>2
<1>4. \A i \in DOMAIN fibers : fibers[i] \in Tasks \cup {Runner}
  BY DEF Inv, FibersOK
<1>5. \A t \in Tasks : t # fiber => ~InCall(stack'[t])
  BY <1>2 DEF Inv, FibersOK
<1> QED BY <1>2, <1>3, <1>4, <1>5 DEF Inv, FibersOK, InCall

(* The running fiber goes on, and no join begins or ends.                   *)
LEMMA GotoJoins ==
    ASSUME Inv, Lasting, NEW s, Goto(s), UNCHANGED <<op, cancelled, join>>,
           ~Blocked(stack[fiber]), ~Blocked(s)
    PROVE  JoinsOK'
<1>1. DOMAIN stack = Tasks \cup {Runner} /\ fiber \in Tasks \cup {Runner}
  BY DEF Inv, StacksOK, FibersOK
<1>2. stack'[fiber] = s /\ \A f \in Tasks \cup {Runner} : f # fiber => stack'[f] = stack[f]
  BY <1>1 DEF Goto
<1>3. \A t \in Tasks, h \in Threads : stack'[t] = <<Joining(h), Code>> <=> stack[t] = <<Joining(h), Code>>
  BY <1>2 DEF Blocked
<1>4. \A t \in Tasks : Blocked(stack[t]) => Blocked(stack'[t])
  BY <1>3 DEF Blocked
<1>5. \A h \in Threads : \A i \in DOMAIN join[h] : join[h][i] \in Tasks
  BY DEF Inv, JoinsOK
<1> QED BY <1>3, <1>4, <1>5 DEF Inv, JoinsOK, Lasting, Blocked

(* The stack of a task in PHP code, or of the loop, is not that of a join.  *)
LEMMA NotBlocked ==
    /\ ~Blocked(<<Code>>) /\ ~Blocked(<<Loop>>) /\ ~Blocked(<<Over>>) /\ ~Blocked(<<>>)
    /\ \A a, b : ~Blocked(<<a, b, Loop>>) /\ ~Blocked(<<a, Loop>>)
    /\ \A h : ~Blocked(<<Killing(h), Code>>) /\ ~Blocked(<<Destroy(h), Code>>)
<1>1. Code # Loop
  BY DEF Code, Loop, Frame
<1>2. \A h, g : Killing(h) # Joining(g) /\ Joining(h) # Destroy(g)
  BY Kinds
<1> QED BY <1>1, <1>2 DEF Blocked

(* The running fiber goes on, and is in no kill: nobody enters one.         *)
LEMMA GotoKills ==
    ASSUME Inv, NEW s, Goto(s), \A h : s # <<Killing(h), Code>>
    PROVE  \A t \in Tasks, h \in Threads :
               stack'[t] = <<Killing(h), Code>> => stack[t] = <<Killing(h), Code>> /\ t # fiber
<1>1. DOMAIN stack = Tasks \cup {Runner} /\ fiber \in Tasks \cup {Runner}
  BY DEF Inv, StacksOK, FibersOK
<1>2. stack'[fiber] = s /\ \A f \in Tasks \cup {Runner} : f # fiber => stack'[f] = stack[f]
  BY <1>1 DEF Goto
<1> QED BY <1>2

(* The running fiber goes on: a destructor that runs was running, or is its *)
(* own.                                                                     *)
LEMMA GotoDestroys ==
    ASSUME Inv, NEW s, Goto(s)
    PROVE  \A f \in Tasks \cup {Runner}, h \in Threads :
               Destroys(stack'[f], h) => Destroys(stack[f], h) \/ Destroys(s, h)
<1>1. DOMAIN stack = Tasks \cup {Runner} /\ fiber \in Tasks \cup {Runner}
  BY DEF Inv, StacksOK, FibersOK
<1>2. stack'[fiber] = s /\ \A f \in Tasks \cup {Runner} : f # fiber => stack'[f] = stack[f]
  BY <1>1 DEF Goto
<1> QED BY <1>2 DEF Destroys

(* Nor are they those of a kill, or of a destructor.                        *)
LEMMA NotKilling ==
    /\ \A h : <<Code>> # <<Killing(h), Code>> /\ <<Over>> # <<Killing(h), Code>>
    /\ \A h : <<Loop>> # <<Killing(h), Code>>
    /\ \A a, b, h : <<a, b, Loop>> # <<Killing(h), Code>> /\ <<a, Loop>> # <<Killing(h), Code>>
    /\ \A g, h : <<Joining(g), Code>> # <<Killing(h), Code>> /\ <<Destroy(g), Code>> # <<Killing(h), Code>>
<1>1. Code # Loop
  BY DEF Code, Loop, Frame
<1>2. \A h, g : Killing(h) # Joining(g) /\ Killing(h) # Destroy(g)
  BY Kinds
<1> QED BY <1>1, <1>2

(* Nor are they those of a destructor, but for the one that is named.       *)
LEMMA NotDestroying ==
    /\ \A h : ~Destroys(<<Code>>, h) /\ ~Destroys(<<Loop>>, h) /\ ~Destroys(<<Over>>, h)
    /\ \A g, h : ~Destroys(<<Joining(g), Code>>, h) /\ ~Destroys(<<Killing(g), Code>>, h)
    /\ \A a, b, h : ~Destroys(<<a, b, Loop>>, h)
    /\ \A n, h : ~Destroys(<<AsyncIo(n), Loop>>, h)
    /\ \A g, h : Destroys(<<Destroy(g), Code>>, h) \/ Destroys(<<Destroy(g), Loop>>, h) => g = h
<1>1. \A h, g : Killing(h) # Destroy(g) /\ Joining(h) # Destroy(g) /\ (Destroy(h) = Destroy(g) => h = g)
  BY Kinds
<1>2. \A h, n : Destroy(h) # AsyncIo(n)
  BY DEF Destroy, AsyncIo, Frame
<1> QED BY <1>1, <1>2 DEF Destroys
(* A step of the running fiber that neither switches nor waits.             *)
LEMMA GotoAll ==
    ASSUME Inv, Lasting, NEW s, Goto(s), UNCHANGED <<fiber, fibers, op, cancelled, join>>,
           (fiber \in Tasks /\ OfTask(s)) \/ (fiber = Runner /\ OfLoop(s)),
           \A h \in Threads : fiber = Runner /\ Head(s) = Notify(h) => Terminated(h)',
           s \notin {<<>>, <<Over>>}, ~Blocked(stack[fiber]), ~Blocked(s)
    PROVE  StacksOK' /\ FibersOK' /\ JoinsOK'
BY GotoStacks, GotoFibers, GotoJoins

(* The running task gives control back.                                     *)
LEMMA SuspendFibers ==
    ASSUME Inv, fiber \in Tasks, NEW s, Goto(s), OfTask(s), ~InCall(s), Suspend
    PROVE  FibersOK'
<1>1. /\ DOMAIN stack = Tasks \cup {Runner} /\ fiber # Runner /\ Left(stack[Runner])
      /\ fibers \in Seq(Tasks \cup {Runner}) /\ Single(fibers, Tasks \cup {Runner})
      /\ \A i \in DOMAIN fibers : fibers[i] # fiber /\ Left(stack[fibers[i]])
  BY ThreadNames DEF Inv, StacksOK, FibersOK
<1>2. stack'[fiber] = s /\ \A f \in Tasks \cup {Runner} : f # fiber => stack'[f] = stack[f]
  BY <1>1 DEF Goto
<1>3. \A f \in Tasks \cup {Runner} : f # fiber /\ Left(stack[f]) => Left(stack'[f]) /\ stack'[f] \notin {<<>>, <<Over>>}
  BY <1>2, AboutLeft
<1>4. \A t \in Tasks : ~InCall(stack'[t])
  BY <1>2 DEF Inv, FibersOK
<1>5. \A i \in DOMAIN fibers : fibers[i] \in Tasks \cup {Runner}
  BY <1>1
<1>6. CASE fibers = <<>>
  <2>1. fiber' = Runner /\ fibers' = <<>>
    BY <1>6 DEF Suspend, SwitchNone
  <2> QED BY <1>1, <1>3, <1>4, <1>6, <2>1 DEF FibersOK, InCall
<1>7. CASE fibers # <<>>
  <2>1. fiber' = Head(fibers) /\ fibers' = Tail(fibers)
    BY <1>7 DEF Suspend
  <2> DEFINE S == Tasks \cup {Runner}
  <2>2. /\ fiber' = fibers[1] /\ fiber' \in S /\ 1 \in DOMAIN fibers
        /\ fibers' \in Seq(S) /\ Single(fibers', S)
        /\ \A i \in DOMAIN fibers' : i + 1 \in DOMAIN fibers /\ fibers'[i] = fibers[i + 1]
        /\ \A i \in DOMAIN fibers' : fibers'[i] # fiber'
    <3>1. fibers \in Seq(S) /\ Single(fibers, S)
      BY <1>1
    <3> HIDE DEF S
    <3> QED BY <1>7, <2>1, <3>1, SingleTail
  <2>3. \A i \in DOMAIN fibers' : Left(stack'[fibers'[i]])
    BY <1>1, <1>3, <1>5, <2>2
  <2> QED BY <1>1, <1>3, <1>4, <1>5, <2>2, <2>3 DEF FibersOK, InCall
<1> QED BY <1>6, <1>7

(* The running fiber hands control to a task that does not run.             *)
LEMMA SwitchFibers ==
    ASSUME Inv, NEW next \in Tasks, next # fiber, ~Left(stack[next]), Left(stack[fiber]), Switch(next),
           \A f \in Tasks \cup {Runner} : f # next => stack'[f] = stack[f],
           stack'[next] \notin {<<>>, <<Over>>}
    PROVE  FibersOK'
<1> DEFINE S == Tasks \cup {Runner}
<1>1. /\ fiber \in S /\ fibers \in Seq(S) /\ Single(fibers, S)
      /\ \A i \in DOMAIN fibers : fibers[i] # fiber /\ Left(stack[fibers[i]]) /\ fibers[i] \in S
  BY DEF Inv, FibersOK
<1>2. \A f \in S : f # next /\ Left(stack[f]) => Left(stack'[f])
  OBVIOUS
<1>3. fiber' = next /\ fibers' = <<fiber>> \o fibers
  BY <1>1 DEF Switch, ToSet
<1>4. /\ fibers' \in Seq(S) /\ Single(fibers', S)
      /\ \A i \in DOMAIN fibers' : fibers'[i] = fiber \/ \E j \in DOMAIN fibers : fibers'[i] = fibers[j]
  <2> HIDE DEF S
  <2> QED BY <1>1, <1>3, SinglePush
<1>5. \A i \in DOMAIN fibers' : fibers'[i] # next /\ Left(stack'[fibers'[i]])
  BY <1>1, <1>2, <1>4
<1>6. Left(stack'[Runner])
  <2>1. Left(stack[Runner])
    BY DEF Inv, FibersOK
  <2> QED BY <1>2, <2>1, ThreadNames
<1>7. \A t \in Tasks : t # next => ~InCall(stack'[t])
  <2>1. ~InCall(stack[fiber])
    BY AboutLeft
  <2> QED BY <2>1 DEF Inv, FibersOK
<1> QED BY <1>3, <1>4, <1>5, <1>6, <1>7 DEF FibersOK, InCall
-------------------------------------------------------------------------------
(* Each step of PHP code preserves the invariant.                           *)
LEMMA NewStep ==
    ASSUME Inv, UNCHANGED scene, NEW h \in Threads, New(h) \/ NewFails(h)
    PROVE  Inv'
<1>1. handle[h] = "none" /\ pc[h] = "none" /\ ~Terminated(h)
  <2>1. handle[h] = "none"
    BY DEF New, NewFails, NextObject
  <2>2. WorkerOK(h)
    BY DEF Inv, WorkersOK
  <2> QED BY <2>1, <2>2 DEF WorkerOK
<1>2. UNCHANGED <<taskVars, join, freed, sharedVars, asyncVars>>
  BY DEF New, NewFails
<1>3. \A g \in Threads : Terminated(g) => Terminated(g)'
  BY <1>1 DEF New, NewFails, Terminated, Inv, WorkersOK
<1>4. StacksOK' /\ FibersOK' /\ JoinsOK'
  <2>1. StacksOK'
    BY <1>2, <1>3 DEF Inv, StacksOK, taskVars
  <2>2. FibersOK'
    BY <1>2, <1>3 DEF Inv, FibersOK, taskVars
  <2>3. JoinsOK'
    BY <1>2, <1>3 DEF Inv, JoinsOK, taskVars
  <2> QED BY <2>1, <2>2, <2>3
<1>5. WorkersOK'
  <2>1. \A g \in Threads : WorkerOK(g)'
    <3>1. \A g \in Threads : WorkerOK(g)
      BY DEF Inv, WorkersOK
    <3>2. CASE New(h)
      BY <1>1, <1>2, <3>1, <3>2 DEF New, WorkerOK, Inv, WorkersOK, Terminated, sharedVars, asyncVars,
        taskVars, Flagged, Sends, Away
    <3>3. CASE NewFails(h)
      BY <1>1, <1>2, <3>1, <3>3 DEF NewFails, WorkerOK, Inv, WorkersOK, Terminated, sharedVars, asyncVars,
        taskVars, Flagged, Sends, Away
    <3> QED BY <3>2, <3>3
  <2> QED BY <1>2, <2>1 DEF New, NewFails, Inv, WorkersOK, sharedVars, asyncVars, Places
<1> QED BY <1>4, <1>5 DEF Inv

(* Thread::kill: the mutex is held by a fiber in the middle of it.          *)
LEMMA KillStep ==
    ASSUME Inv, UNCHANGED scene, NEW h \in Threads, Kill(h)
    PROVE  Inv'
<1>1. fiber \in Tasks /\ stack[fiber] = <<Code>>
  BY Running DEF Kill
<1>2. Lasting /\ \A g \in Threads : Terminated(g) <=> Terminated(g)'
  BY DEF Kill, Terminated, Inv, WorkersOK, Lasting
<1>3. CASE h \in interrupt
  <2>1. Goto(<<Killing(h), Code>>)
    BY <1>1, <1>3, ShortSequences DEF Kill
  <2>2. OfTask(<<Killing(h), Code>>)
    BY DEF OfTask, InCall
  <2>3. StacksOK'
    <3> DEFINE s == <<Killing(h), Code>>
    <3>1. fiber # Runner /\ Goto(s) /\ OfTask(s)
      BY <1>1, <2>1, <2>2, ThreadNames
    <3> HIDE DEF s
    <3> QED BY <1>1, <1>2, <3>1, GotoStacks
  <2>4. FibersOK'
    BY <2>1, GotoFibers DEF Kill
  <2>5. JoinsOK'
    BY <1>1, <1>2, <2>1, GotoJoins, NotBlocked DEF Kill
  <2>6. \A t \in Tasks : stack'[t] = IF t = fiber THEN <<Killing(h), Code>> ELSE stack[t]
    BY <2>1 DEF Goto, Inv, StacksOK
  <2>7. \A g \in Threads : WorkerOK(g)'
    <3>1. \A g \in Threads : WorkerOK(g)
      BY DEF Inv, WorkersOK
    <3>2. \A f \in Tasks \cup {Runner}, g \in Threads : Destroys(stack'[f], g) => Destroys(stack[f], g)
      BY <2>1, GotoDestroys, NotDestroying
    <3> QED BY <1>2, <1>3, <2>6, <3>1, <3>2, Kinds DEF Kill, WorkerOK, Inv, WorkersOK, Terminated, asyncVars, Flagged, Sends, Away
  <2>8. WorkersOK'
    BY <2>7, <1>3 DEF Kill, Inv, WorkersOK, asyncVars
  <2> QED BY <2>3, <2>4, <2>5, <2>8 DEF Inv
<1>4. CASE h \notin interrupt
  <2>1. UNCHANGED <<taskVars, join, locked>>
    BY <1>4 DEF Kill, taskVars
  <2>2. StacksOK'
    BY <1>2, <2>1 DEF Inv, StacksOK, taskVars
  <2>3. FibersOK'
    BY <2>1 DEF Inv, FibersOK, taskVars
  <2>4. JoinsOK'
    BY <1>2, <2>1 DEF Inv, JoinsOK, taskVars
  <2>5. \A g \in Threads : WorkerOK(g)'
    <3>1. \A g \in Threads : WorkerOK(g)
      BY DEF Inv, WorkersOK
    <3> QED BY <1>2, <2>1, <3>1 DEF Kill, WorkerOK, Inv, WorkersOK, Terminated, asyncVars, taskVars, Flagged, Sends, Away
  <2>6. WorkersOK'
    BY <2>5, <1>4 DEF Kill, Inv, WorkersOK, asyncVars
  <2> QED BY <2>2, <2>3, <2>4, <2>6 DEF Inv
<1> QED BY <1>3, <1>4

(* The second half of Thread::kill, with the mutex.                         *)
LEMMA InterruptStep ==
    ASSUME Inv, UNCHANGED scene, Interrupt
    PROVE  Inv'
<1> DEFINE h == Top.x
           s == <<Code>>
<1>1. fiber \in Tasks /\ h \in Threads /\ stack[fiber] = <<Killing(h), Code>> /\ Goto(s)
  BY Running DEF Interrupt
<1>2. UNCHANGED <<fiber, fibers, op, cancelled, objectVars, interrupt, exit, pc, asyncVars>>
      /\ vmint' = vmint \cup {h} /\ locked' = locked \ {h}
  BY DEF Interrupt
<1>3. Lasting /\ \A g \in Threads : Terminated(g)' <=> Terminated(g)
  BY <1>2 DEF Lasting, Terminated, objectVars
<1>4. /\ OfTask(s) /\ s \notin {<<>>, <<Over>>} /\ ~Blocked(s) /\ ~Blocked(stack[fiber])
      /\ (\A g : s # <<Killing(g), Code>>) /\ (\A g : ~Destroys(s, g)) /\ fiber # Runner
  BY <1>1, NotBlocked, NotKilling, NotDestroying, ThreadNames DEF OfTask, Code, Over, Frame
<1> HIDE DEF h, s
<1>5. StacksOK' /\ FibersOK' /\ JoinsOK'
  BY <1>1, <1>2, <1>3, <1>4, GotoAll DEF objectVars
<1>6. /\ \A t \in Tasks, g \in Threads : stack'[t] = <<Killing(g), Code>> => stack[t] = <<Killing(g), Code>> /\ t # fiber
      /\ \A f \in Tasks \cup {Runner}, g \in Threads : Destroys(stack'[f], g) => Destroys(stack[f], g)
  BY <1>1, <1>4, GotoKills, GotoDestroys
<1>7. \A t \in Tasks, g \in Threads : stack'[t] # <<Killing(g), Code>>
  BY <1>6 DEF Inv, FibersOK, InCall
<1>8. \A g \in Threads : WorkerOK(g)'
  <2>1. \A g \in Threads : WorkerOK(g)
    BY DEF Inv, WorkersOK
  <2> QED BY <1>2, <1>3, <1>6, <1>7, <2>1 DEF WorkerOK, objectVars, asyncVars
<1>9. WorkersOK'
  BY <1>1, <1>2, <1>8 DEF Inv, WorkersOK, objectVars, asyncVars
<1> QED BY <1>5, <1>9 DEF Inv

(* Thread::join: the task is put in the list and gives control away.        *)
LEMMA JoinStep ==
    ASSUME Inv, UNCHANGED scene, NEW h \in Threads, Join(h)
    PROVE  Inv'
<1> DEFINE s == <<Joining(h), Code>>
<1>1. fiber \in Tasks /\ stack[fiber] = <<Code>> /\ Goto(s) /\ fiber # Runner
  <2>1. fiber \in Tasks /\ stack[fiber] = <<Code>>
    BY Running DEF Join
  <2>2. Goto(<<Joining(h)>> \o stack[fiber])
    BY DEF Join
  <2>3. <<Joining(h)>> \o <<Code>> = s
    BY ShortSequences
  <2> QED BY <2>1, <2>2, <2>3, ThreadNames
<1>2. /\ UNCHANGED <<cancelled, flags, handle, dropped, freed, sharedVars, pc, asyncVars>>
      /\ op' = [op EXCEPT ![fiber] = "RUNNING"]
      /\ join' = [join EXCEPT ![h] = Append(@, fiber)] /\ Suspend
  BY DEF Join
<1>3. Lasting /\ \A g \in Threads : Terminated(g)' <=> Terminated(g)
  BY <1>2 DEF Lasting, Terminated
<1>4. /\ OfTask(s) /\ Blocked(s) /\ s # <<>> /\ ~InCall(s)
      /\ (\A g : s # <<Killing(g), Code>>) /\ (\A g : ~Destroys(s, g))
  <2>1. (\A g : s # <<Killing(g), Code>>) /\ (\A g : ~Destroys(s, g))
    BY NotKilling, NotDestroying
  <2>2. OfTask(s) /\ Blocked(s) /\ s # <<>>
    BY DEF OfTask, Blocked
  <2>3. \A g : s # <<Destroy(g), Code>>
    BY <2>1 DEF Destroys
  <2> QED BY <2>1, <2>2, <2>3 DEF InCall
<1>5. /\ stack'[fiber] = s /\ \A f \in Tasks \cup {Runner} : f # fiber => stack'[f] = stack[f]
      /\ \A g \in Threads : stack[fiber] # <<Joining(g), Code>>
      /\ \A g \in Threads : s = <<Joining(g), Code>> => g = h
  BY <1>1, NotBlocked, Kinds DEF Goto, Inv, StacksOK, Blocked
<1>6. StacksOK' /\ FibersOK'
  <2> HIDE DEF s
  <2> QED BY <1>1, <1>2, <1>3, <1>4, GotoStacks, SuspendFibers
<1>7. JoinsOK'
  <2>1. /\ op' \in [Tasks -> {"PENDING", "RUNNING", "RESOLVED", "FAILED"}] /\ cancelled' \subseteq Tasks
        /\ \A t \in Tasks : op'[t] = IF t = fiber THEN "RUNNING" ELSE op[t]
    BY <1>1, <1>2 DEF Inv, JoinsOK
  <2>2. \A t \in Tasks : op'[t] = "RUNNING" => Blocked(stack'[t])
    BY <1>4, <1>5, <2>1 DEF Inv, JoinsOK
  <2>3. \A t \in Tasks, g \in Threads :
            stack'[t] = <<Joining(g), Code>> /\ op'[t] = "RESOLVED" => Terminated(g)'
    BY <1>3, <1>5, <2>1 DEF Inv, JoinsOK
  <2>4. \A g \in Threads : join[g] \in Seq(Tasks) /\ Single(join[g], Tasks)
            /\ \A i \in DOMAIN join[g] : /\ join[g][i] \in Tasks /\ join[g][i] # fiber
                                        /\ stack[join[g][i]] = <<Joining(g), Code>>
    BY <1>5 DEF Inv, JoinsOK
  <2>5. /\ join'[h] \in Seq(Tasks) /\ Single(join'[h], Tasks)
        /\ \A i \in DOMAIN join'[h] : join'[h][i] = fiber \/ \E j \in DOMAIN join[h] : join'[h][i] = join[h][j]
    <3>1. join'[h] = Append(join[h], fiber)
      BY <1>2 DEF Inv, JoinsOK
    <3> QED BY <1>1, <2>4, <3>1, SingleAppend
  <2>6. join' \in [Threads -> Seq(Tasks)] /\ \A g \in Threads : g # h => join'[g] = join[g]
    BY <1>2, <2>5 DEF Inv, JoinsOK
  <2>7. ASSUME NEW g \in Threads
        PROVE  Single(join'[g], Tasks) /\ \A i \in DOMAIN join'[g] : stack'[join'[g][i]] = <<Joining(g), Code>>
    <3>1. CASE g = h
      <4>1. ASSUME NEW i \in DOMAIN join'[h]
            PROVE  stack'[join'[h][i]] = <<Joining(h), Code>>
        <5>1. join'[h][i] = fiber \/ \E j \in DOMAIN join[h] : join'[h][i] = join[h][j]
          BY <2>5
        <5> QED BY <5>1, <1>5, <2>4
      <4> QED BY <3>1, <4>1, <2>5
    <3>2. CASE g # h
      <4>1. join'[g] = join[g] /\ Single(join[g], Tasks)
        BY <3>2, <2>4, <2>6
      <4>2. ASSUME NEW i \in DOMAIN join[g]
            PROVE  stack'[join[g][i]] = <<Joining(g), Code>>
        BY <3>2, <1>5, <2>4
      <4> QED BY <4>1, <4>2
    <3> QED BY <3>1, <3>2
  <2> QED BY <2>1, <2>2, <2>3, <2>6, <2>7 DEF JoinsOK
<1>8. /\ \A t \in Tasks, g \in Threads : stack'[t] = <<Killing(g), Code>> => stack[t] = <<Killing(g), Code>>
      /\ \A f \in Tasks \cup {Runner}, g \in Threads : Destroys(stack'[f], g) => Destroys(stack[f], g)
  BY <1>1, <1>4, GotoKills, GotoDestroys
<1>9. \A g \in Threads : WorkerOK(g)'
  <2>1. \A g \in Threads : WorkerOK(g)
    BY DEF Inv, WorkersOK
  <2> QED BY <1>2, <1>3, <1>8, <2>1 DEF WorkerOK, sharedVars, asyncVars
<1>10. WorkersOK'
  BY <1>2, <1>9 DEF Inv, WorkersOK, sharedVars, asyncVars
<1> QED BY <1>6, <1>7, <1>10 DEF Inv

(* The end of Thread::join, resolved or failed: the task is in no list.     *)
LEMMA JoinedStep ==
    ASSUME Inv, UNCHANGED scene, Joined
    PROVE  Inv'
<1> DEFINE h == Top.x
           s == <<Code>>
<1>1. fiber \in Tasks /\ h \in Threads /\ stack[fiber] = <<Joining(h), Code>> /\ Goto(s) /\ fiber # Runner
  BY Running, ThreadNames DEF Joined
<1>2. /\ UNCHANGED <<fiber, fibers, cancelled, flags, handle, dropped, freed, sharedVars, pc, asyncVars>>
      /\ op' = [op EXCEPT ![fiber] = "PENDING"] /\ join' = [join EXCEPT ![h] = RemoveFirst(@, fiber)]
  BY DEF Joined, Unlink
<1>3. Lasting /\ \A g \in Threads : Terminated(g)' <=> Terminated(g)
  BY <1>2 DEF Lasting, Terminated
<1>4. /\ OfTask(s) /\ s \notin {<<>>, <<Over>>} /\ ~Blocked(s)
      /\ (\A g : s # <<Killing(g), Code>>) /\ (\A g : ~Destroys(s, g))
  BY NotBlocked, NotKilling, NotDestroying DEF OfTask, Code, Over, Frame
<1>5. /\ stack'[fiber] = s /\ \A f \in Tasks \cup {Runner} : f # fiber => stack'[f] = stack[f]
      /\ \A g \in Threads : s # <<Joining(g), Code>>
      /\ \A g \in Threads : stack[fiber] = <<Joining(g), Code>> => g = h
  BY <1>1, NotBlocked, Kinds DEF Goto, Inv, StacksOK, Blocked
<1> HIDE DEF h, s
<1>6. StacksOK' /\ FibersOK'
  BY <1>1, <1>2, <1>3, <1>4, GotoStacks, GotoFibers
<1>7. JoinsOK'
  <2>1. /\ op' \in [Tasks -> {"PENDING", "RUNNING", "RESOLVED", "FAILED"}] /\ cancelled' \subseteq Tasks
        /\ \A t \in Tasks : op'[t] = IF t = fiber THEN "PENDING" ELSE op[t]
    BY <1>1, <1>2 DEF Inv, JoinsOK
  <2>2. \A t \in Tasks : op'[t] = "RUNNING" => Blocked(stack'[t])
    BY <1>5, <2>1 DEF Inv, JoinsOK
  <2>3. \A t \in Tasks, g \in Threads :
            stack'[t] = <<Joining(g), Code>> /\ op'[t] = "RESOLVED" => Terminated(g)'
    BY <1>3, <1>5, <2>1 DEF Inv, JoinsOK
  <2>4. \A g \in Threads : join[g] \in Seq(Tasks) /\ Single(join[g], Tasks)
            /\ \A i \in DOMAIN join[g] : /\ join[g][i] \in Tasks /\ (g # h => join[g][i] # fiber)
                                        /\ stack[join[g][i]] = <<Joining(g), Code>>
    BY <1>5 DEF Inv, JoinsOK
  <2>5. /\ join'[h] \in Seq(Tasks) /\ Single(join'[h], Tasks)
        /\ \A i \in DOMAIN join'[h] : join'[h][i] # fiber /\ \E j \in DOMAIN join[h] : join'[h][i] = join[h][j]
    <3>1. join'[h] = RemoveFirst(join[h], fiber)
      BY <1>1, <1>2 DEF Inv, JoinsOK
    <3> QED BY <1>1, <2>4, <3>1, RemoveFirstOnce, RemoveFirstType
  <2>6. join' \in [Threads -> Seq(Tasks)] /\ \A g \in Threads : g # h => join'[g] = join[g]
    BY <1>2, <2>5 DEF Inv, JoinsOK
  <2>7. ASSUME NEW g \in Threads
        PROVE  Single(join'[g], Tasks) /\ \A i \in DOMAIN join'[g] : stack'[join'[g][i]] = <<Joining(g), Code>>
    <3>1. CASE g = h
      <4>1. ASSUME NEW i \in DOMAIN join'[h]
            PROVE  stack'[join'[h][i]] = <<Joining(h), Code>>
        <5>1. join'[h][i] # fiber /\ \E j \in DOMAIN join[h] : join'[h][i] = join[h][j]
          BY <2>5
        <5> QED BY <5>1, <1>1, <1>5, <2>4
      <4> QED BY <3>1, <4>1, <2>5
    <3>2. CASE g # h
      <4>1. join'[g] = join[g] /\ Single(join[g], Tasks)
        BY <3>2, <2>4, <2>6
      <4>2. ASSUME NEW i \in DOMAIN join[g]
            PROVE  stack'[join[g][i]] = <<Joining(g), Code>>
        BY <3>2, <1>5, <2>4
      <4> QED BY <4>1, <4>2
    <3> QED BY <3>1, <3>2
  <2> QED BY <2>1, <2>2, <2>3, <2>6, <2>7 DEF JoinsOK
<1>8. /\ \A t \in Tasks, g \in Threads : stack'[t] = <<Killing(g), Code>> => stack[t] = <<Killing(g), Code>>
      /\ \A f \in Tasks \cup {Runner}, g \in Threads : Destroys(stack'[f], g) => Destroys(stack[f], g)
  BY <1>1, <1>4, GotoKills, GotoDestroys
<1>9. \A g \in Threads : WorkerOK(g)'
  <2>1. \A g \in Threads : WorkerOK(g)
    BY DEF Inv, WorkersOK
  <2> QED BY <1>2, <1>3, <1>8, <2>1 DEF WorkerOK, sharedVars, asyncVars
<1>10. WorkersOK'
  BY <1>2, <1>9 DEF Inv, WorkersOK, sharedVars, asyncVars
<1> QED BY <1>6, <1>7, <1>10 DEF Inv

(* The stack of a destructor, and what is left when it is done.             *)
LEMMA DestroyStack ==
    ASSUME NEW h \in Threads, NEW s, s = <<Destroy(h), Code>> \/ s = <<Destroy(h), Loop>>
    PROVE  /\ s \notin {<<>>, <<Over>>} /\ ~Blocked(s) /\ Head(s) = Destroy(h)
           /\ (\A g : s # <<Killing(g), Code>>) /\ (\A g : Destroys(s, g) => g = h)
           /\ \A g \in Threads : Head(s) # Notify(g)
<1>1. \A g : Destroy(h) # Notify(g)
  BY DEF Destroy, Notify, Frame
<1>2. CASE s = <<Destroy(h), Code>>
  <2>1. Head(s) = Destroy(h) /\ s \notin {<<>>, <<Over>>}
    BY <1>2, ShortSequences
  <2> QED BY <1>1, <1>2, <2>1, NotBlocked, NotKilling, NotDestroying
<1>3. CASE s = <<Destroy(h), Loop>>
  <2>1. Head(s) = Destroy(h) /\ s \notin {<<>>, <<Over>>}
    BY <1>3, ShortSequences
  <2> QED BY <1>1, <1>3, <2>1, NotBlocked, NotKilling, NotDestroying
<1> QED BY <1>2, <1>3

(* PHP code or the event loop alone: no call is in progress.                *)
LEMMA PlainStack ==
    ASSUME NEW s, s = <<Code>> \/ s = <<Loop>>
    PROVE  /\ s \notin {<<>>, <<Over>>} /\ ~Blocked(s)
           /\ (\A g : s # <<Killing(g), Code>>) /\ (\A g : ~Destroys(s, g))
           /\ \A g \in Threads : Head(s) # Notify(g)
<1>1. Code # Over /\ Loop # Over /\ \A g : Code # Notify(g) /\ Loop # Notify(g)
  BY DEF Code, Loop, Over, Notify, Frame
<1>2. Head(s) = Code \/ Head(s) = Loop
  BY ShortSequences
<1>3. <<Code>> \notin {<<>>, <<Over>>} /\ <<Loop>> \notin {<<>>, <<Over>>}
  BY <1>1
<1>4. /\ \A g : <<Code>> # <<Killing(g), Code>> /\ ~Destroys(<<Code>>, g)
      /\ \A g : <<Loop>> # <<Killing(g), Code>> /\ ~Destroys(<<Loop>>, g)
  BY NotKilling, NotDestroying
<1> QED BY <1>1, <1>2, <1>3, <1>4, NotBlocked

(* The destructor is called in PHP code, or by the loop.                    *)
LEMMA DestroyStep ==
    ASSUME Inv, UNCHANGED scene, NEW h \in Threads, Goto(<<Destroy(h)>> \o stack[fiber]),
           InCode \/ InLoop,
           UNCHANGED <<fiber, fibers, op, cancelled, join, flags, freed, sharedVars, pc, asyncVars>>,
           \A g \in Threads : handle'[g] = handle[g] \/ (handle[g] # "active" /\ handle'[g] # "none"),
           handle' \in [Threads -> {"none", "active", "closing", "closed"}],
           handle'[h] # "none", dropped' \subseteq Threads
    PROVE  Inv'
<1> DEFINE s == <<Destroy(h)>> \o stack[fiber]
<1>1. \/ fiber \in Tasks /\ stack[fiber] = <<Code>> /\ fiber # Runner
      \/ fiber = Runner /\ stack[fiber] = <<Loop>>
  BY Running, ThreadNames
<1>2. <<Destroy(h)>> \o <<Code>> = <<Destroy(h), Code>> /\ <<Destroy(h)>> \o <<Loop>> = <<Destroy(h), Loop>>
  BY ShortSequences
<1>3. /\ s = <<Destroy(h), Code>> \/ s = <<Destroy(h), Loop>>
      /\ (fiber \in Tasks /\ OfTask(s)) \/ (fiber = Runner /\ OfLoop(s))
  BY <1>1, <1>2 DEF OfTask, OfLoop, InCall
<1>4. /\ s \notin {<<>>, <<Over>>} /\ ~Blocked(s) /\ ~Blocked(stack[fiber])
      /\ (\A g : s # <<Killing(g), Code>>) /\ (\A g : Destroys(s, g) => g = h)
      /\ \A g \in Threads : Head(s) # Notify(g)
  <2> HIDE DEF s
  <2> QED BY <1>1, <1>3, DestroyStack, PlainStack
<1>5. Goto(s) /\ Lasting /\ \A g \in Threads : Terminated(g)' <=> Terminated(g)
  BY DEF Lasting, Terminated
<1> HIDE DEF s
<1>6. StacksOK' /\ FibersOK' /\ JoinsOK'
  BY <1>3, <1>4, <1>5, GotoAll
<1>7. /\ \A t \in Tasks, g \in Threads : stack'[t] = <<Killing(g), Code>> => stack[t] = <<Killing(g), Code>>
      /\ \A f \in Tasks \cup {Runner}, g \in Threads : Destroys(stack'[f], g) => Destroys(stack[f], g) \/ g = h
  BY <1>4, <1>5, GotoKills, GotoDestroys
<1>8. \A g \in Threads : WorkerOK(g)'
  <2>1. \A g \in Threads : WorkerOK(g)
    BY DEF Inv, WorkersOK
  <2> QED BY <1>5, <1>7, <2>1 DEF WorkerOK, sharedVars, asyncVars
<1>9. WorkersOK'
  BY <1>8 DEF Inv, WorkersOK, sharedVars, asyncVars
<1> QED BY <1>6, <1>9 DEF Inv

(* Objects lose references, handles are closed; the stacks stay.            *)
LEMMA ObjectStep ==
    ASSUME Inv, UNCHANGED scene,
           UNCHANGED <<taskVars, join, flags, freed, sharedVars, pc, asyncVars>>,
           \A g \in Threads : handle'[g] = handle[g] \/ (handle[g] # "active" /\ handle'[g] # "none"),
           handle' \in [Threads -> {"none", "active", "closing", "closed"}],
           dropped' \subseteq Threads
    PROVE  Inv'
<1>1. Lasting /\ \A g \in Threads : Terminated(g)' <=> Terminated(g)
  BY DEF Lasting, Terminated
<1>2. StacksOK'
  BY <1>1 DEF Inv, StacksOK, taskVars
<1>3. FibersOK'
  BY DEF Inv, FibersOK, taskVars
<1>4. JoinsOK'
  BY <1>1 DEF Inv, JoinsOK, taskVars
<1>5. \A g \in Threads : WorkerOK(g)'
  <2>1. \A g \in Threads : WorkerOK(g)
    BY DEF Inv, WorkersOK
  <2> QED BY <1>1, <2>1 DEF WorkerOK, taskVars, sharedVars, asyncVars
<1>6. WorkersOK'
  BY <1>5 DEF Inv, WorkersOK, sharedVars, asyncVars
<1> QED BY <1>2, <1>3, <1>4, <1>6 DEF Inv

(* PHP code drops its last reference.                                       *)
LEMMA DropStep ==
    ASSUME Inv, UNCHANGED scene, NEW h \in Threads, Drop(h)
    PROVE  Inv'
<1>1. /\ handle' = handle /\ handle[h] # "none" /\ InCode
      /\ UNCHANGED <<fiber, fibers, op, cancelled, join, flags, freed, sharedVars, pc, asyncVars>>
      /\ handle' \in [Threads -> {"none", "active", "closing", "closed"}] /\ dropped' \subseteq Threads
  BY DEF Drop, Exists, Inv, WorkersOK
<1>2. CASE handle[h] = "closed"
  BY <1>1, <1>2, DestroyStep DEF Drop
<1>3. CASE handle[h] # "closed"
  BY <1>1, <1>3, ObjectStep DEF Drop, taskVars
<1> QED BY <1>2, <1>3

(* close_async_cb drops the reference of the handle.                        *)
LEMMA HandleClosedStep ==
    ASSUME Inv, UNCHANGED scene, NEW h \in Threads, HandleClosed(h)
    PROVE  Inv'
<1>1. /\ \A g \in Threads : handle'[g] = handle[g] \/ (handle[g] # "active" /\ handle'[g] # "none")
      /\ UNCHANGED <<fiber, fibers, op, cancelled, join, flags, dropped, freed, sharedVars, pc, asyncVars>>
      /\ handle' \in [Threads -> {"none", "active", "closing", "closed"}] /\ dropped' \subseteq Threads
      /\ handle'[h] # "none" /\ InLoop
  BY DEF HandleClosed, Inv, WorkersOK
<1>2. CASE h \in dropped
  BY <1>1, <1>2, DestroyStep DEF HandleClosed
<1>3. CASE h \notin dropped
  BY <1>1, <1>3, ObjectStep DEF HandleClosed, taskVars
<1> QED BY <1>2, <1>3

(* The engine frees an object that is left when the loop has ended.         *)
LEMMA FreeObjectStep ==
    ASSUME Inv, UNCHANGED scene, NEW h \in Threads, FreeObject(h)
    PROVE  Inv'
<1>1. /\ handle' = handle /\ handle[h] # "none" /\ InLoop
      /\ UNCHANGED <<fiber, fibers, op, cancelled, join, flags, freed, sharedVars, pc, asyncVars>>
      /\ handle' \in [Threads -> {"none", "active", "closing", "closed"}] /\ dropped' \subseteq Threads
      /\ Goto(<<Destroy(h)>> \o stack[fiber])
  BY DEF FreeObject, Exists, Inv, WorkersOK
<1> QED BY <1>1, DestroyStep

(* The destructor ends: the worker has ended, and nothing points to the     *)
(* object.                                                                  *)
LEMMA DestroyedStep ==
    ASSUME Inv, UNCHANGED scene, Destroyed
    PROVE  Inv'
<1> DEFINE h == Top.x
           s == Rest
<1>1. /\ h \in Threads /\ Top.k = "destroy"
      /\ \/ fiber \in Tasks /\ s = <<Code>> /\ fiber # Runner
         \/ fiber = Runner /\ s = <<Loop>>
  BY Running, ThreadNames DEF Destroyed
<1>2. /\ Goto(s) /\ HasEnded(h) /\ freed' = freed \cup {h}
      /\ flags' = [flags EXCEPT ![h] = @ \ {"RUNNING"}]
      /\ UNCHANGED <<fiber, fibers, op, cancelled, join, handle, dropped, sharedVars, pc, asyncVars>>
  BY DEF Destroyed
<1>3. Lasting /\ \A g \in Threads : Terminated(g)' <=> Terminated(g)
  BY <1>1, <1>2 DEF Lasting, Terminated, Inv, WorkersOK
<1>4. /\ Destroys(stack[fiber], h)
      /\ (fiber \in Tasks /\ OfTask(s)) \/ (fiber = Runner /\ OfLoop(s))
  <2>1. CASE fiber \in Tasks
    <3>1. fiber # Runner /\ s = <<Code>> /\ OfTask(stack[fiber])
      BY <2>1, <1>1, ThreadNames DEF Inv, StacksOK
    <3>2. stack[fiber] # <<>> /\ stack[fiber] # <<Over>>
      BY DEF Inv, FibersOK
    <3>3. PICK g \in Threads : stack[fiber] = <<Destroy(g), Code>>
      <4>1. Top # Code
        BY <1>1, Kinds
      <4>2. \A g : Top # Killing(g) /\ Top # Joining(g)
        BY <1>1, Kinds
      <4>3. stack[fiber] # <<Code>> /\ \A g : stack[fiber] # <<Killing(g), Code>> /\ stack[fiber] # <<Joining(g), Code>>
        BY <4>1, <4>2, ShortSequences DEF Top
      <4> QED BY <3>1, <3>2, <4>3 DEF OfTask, InCall, Blocked
    <3>4. Top = Destroy(g)
      BY <3>3, ShortSequences DEF Top
    <3> QED BY <2>1, <3>1, <3>3, <3>4, Kinds DEF Destroys, OfTask
  <2>2. CASE fiber = Runner
    <3>1. s = <<Loop>> /\ OfLoop(stack[fiber])
      BY <2>2, <1>1, ThreadNames DEF Inv, StacksOK
    <3>2. PICK g \in Threads : stack[fiber] = <<Destroy(g), Loop>>
      <4>1. Top # Loop
        BY <1>1, Kinds
      <4>2. \A g : Top # Notify(g) /\ Top # AsyncIo(g)
        BY <1>1, Kinds
      <4>3. stack[fiber] # <<Loop>> /\ \A g, n : stack[fiber] # <<Notify(g), AsyncIo(n), Loop>> /\ stack[fiber] # <<AsyncIo(n), Loop>>
        BY <4>1, <4>2, ShortSequences DEF Top
      <4> QED BY <3>1, <4>3 DEF OfLoop, Notifies
    <3>3. Top = Destroy(g)
      BY <3>2, ShortSequences DEF Top
    <3> QED BY <2>2, <3>1, <3>2, <3>3, Kinds DEF Destroys, OfLoop
  <2> QED BY <2>1, <2>2, <1>1
<1>5. /\ s \notin {<<>>, <<Over>>} /\ ~Blocked(s) /\ ~Blocked(stack[fiber])
      /\ (\A g : s # <<Killing(g), Code>>) /\ (\A g : ~Destroys(s, g))
      /\ \A g \in Threads : Head(s) # Notify(g)
  <2>1. s = <<Code>> \/ s = <<Loop>>
    BY <1>1
  <2>2. ~Blocked(stack[fiber])
    BY <1>1, <1>4, DestroyStack DEF Destroys
  <2> HIDE DEF s, h
  <2> QED BY <2>1, <2>2, PlainStack
<1> HIDE DEF h, s
<1>6. StacksOK' /\ FibersOK' /\ JoinsOK'
  BY <1>2, <1>3, <1>4, <1>5, GotoAll
<1>7. /\ \A t \in Tasks, g \in Threads : stack'[t] = <<Killing(g), Code>> => stack[t] = <<Killing(g), Code>>
      /\ \A f \in Tasks \cup {Runner}, g \in Threads : Destroys(stack'[f], g) => Destroys(stack[f], g)
  BY <1>2, <1>5, GotoKills, GotoDestroys
<1>8. \A g \in Threads : WorkerOK(g)'
  <2>1. \A g \in Threads : WorkerOK(g)
    BY DEF Inv, WorkersOK
  <2>2. fiber \in Tasks \cup {Runner}
    BY DEF Inv, FibersOK
  <2>3. handle[h] # "none" /\ (pc[h] = "gone" \/ pc[h] = "none")
    BY <1>1, <1>2, <1>4, <2>1, <2>2 DEF WorkerOK, HasEnded, Away
  <2>4. \A g \in Threads : g # h => flags'[g] = flags[g]
    BY <1>1, <1>2 DEF Inv, WorkersOK
  <2> QED BY <1>1, <1>2, <1>3, <1>7, <2>1, <2>3, <2>4 DEF WorkerOK, sharedVars, asyncVars, Away
<1>9. WorkersOK'
  BY <1>1, <1>2, <1>8 DEF Inv, WorkersOK, sharedVars, asyncVars
<1> QED BY <1>6, <1>9 DEF Inv

(* A task ends.                                                             *)
LEMMA ReturnStep ==
    ASSUME Inv, UNCHANGED scene, Return
    PROVE  Inv'
<1> DEFINE s == <<Over>>
<1>1. fiber \in Tasks /\ stack[fiber] = <<Code>> /\ Goto(s) /\ Suspend
  BY Running DEF Return
<1>2. UNCHANGED <<op, cancelled, objectVars, sharedVars, pc, asyncVars>>
  BY DEF Return
<1>3. Lasting /\ \A g \in Threads : Terminated(g)' <=> Terminated(g)
  BY <1>2 DEF Lasting, Terminated, objectVars
<1>4. /\ OfTask(s) /\ ~InCall(s) /\ ~Blocked(s) /\ ~Blocked(stack[fiber])
      /\ (\A g : s # <<Killing(g), Code>>) /\ (\A g : ~Destroys(s, g)) /\ fiber # Runner
  BY <1>1, NotBlocked, NotKilling, NotDestroying, ThreadNames DEF OfTask, InCall
<1> HIDE DEF s
<1>5. StacksOK' /\ FibersOK' /\ JoinsOK'
  BY <1>1, <1>2, <1>3, <1>4, GotoStacks, SuspendFibers, GotoJoins DEF objectVars
<1>6. /\ \A t \in Tasks, g \in Threads : stack'[t] = <<Killing(g), Code>> => stack[t] = <<Killing(g), Code>>
      /\ \A f \in Tasks \cup {Runner}, g \in Threads : Destroys(stack'[f], g) => Destroys(stack[f], g)
  BY <1>1, <1>4, GotoKills, GotoDestroys
<1>7. \A g \in Threads : WorkerOK(g)'
  <2>1. \A g \in Threads : WorkerOK(g)
    BY DEF Inv, WorkersOK
  <2> QED BY <1>2, <1>3, <1>6, <2>1 DEF WorkerOK, sharedVars, asyncVars, objectVars
<1>8. WorkersOK'
  BY <1>2, <1>7 DEF Inv, WorkersOK, sharedVars, asyncVars, objectVars
<1> QED BY <1>5, <1>8 DEF Inv
-------------------------------------------------------------------------------
(* The event loop: what it does with its own stack.                         *)
LEMMA LoopStep ==
    ASSUME Inv, UNCHANGED scene, fiber = Runner, NEW s, Goto(s), OfLoop(s),
           s \notin {<<>>, <<Over>>}, ~Blocked(s), ~Blocked(stack[fiber]),
           \A h : s # <<Killing(h), Code>>, \A h : ~Destroys(s, h),
           \A h \in Threads : Head(s) = Notify(h) => Terminated(h)',
           UNCHANGED <<fiber, fibers, op, cancelled, join, handle, dropped, freed, sharedVars, pc>>,
           flags' \in [Threads -> SUBSET {"RUNNING", "TERMINATED", "KILLED"}],
           pending' \in [Threads -> 0..2], wake' \in BOOLEAN,
           \A h \in Threads :
              \/ pending'[h] = pending[h] /\ flags'[h] = flags[h]
              \/ pending[h] # 1 /\ pending'[h] = 0 /\ flags'[h] = flags[h]
              \/ pending[h] = 2 /\ pending'[h] = 0 /\ flags'[h] = flags[h] \cup {"TERMINATED"}
    PROVE  Inv'
<1>1. Lasting
  BY DEF Lasting, Terminated
<1>2. StacksOK' /\ FibersOK' /\ JoinsOK'
  BY <1>1, GotoAll
<1>3. /\ \A t \in Tasks, g \in Threads : stack'[t] = <<Killing(g), Code>> => stack[t] = <<Killing(g), Code>>
      /\ \A f \in Tasks \cup {Runner}, g \in Threads : Destroys(stack'[f], g) => Destroys(stack[f], g)
  BY GotoKills, GotoDestroys
<1>4. ASSUME NEW h \in Threads
      PROVE  WorkerOK(h)'
  <2>1. WorkerOK(h)
    BY DEF Inv, WorkersOK
  <2>2. Terminated(h)' => Terminated(h) \/ pending[h] = 2
    BY DEF Terminated
  <2>3. "RUNNING" \in flags[h] => "RUNNING" \in flags'[h]
    OBVIOUS
  <2>4. \/ pending'[h] = pending[h]
        \/ pending[h] # 1 /\ pending'[h] = 0
    OBVIOUS
  <2>5. UNCHANGED <<handle, freed, locked, interrupt, exit, pc>>
    BY DEF sharedVars
  <2> HIDE DEF Terminated
  <2> QED BY <1>3, <2>1, <2>2, <2>3, <2>4, <2>5 DEF WorkerOK
<1>5. WorkersOK'
  BY <1>4 DEF Inv, WorkersOK, sharedVars
<1> QED BY <1>2, <1>5 DEF Inv

(* The stacks of the loop.                                                  *)
LEMMA LoopStacks ==
    ASSUME NEW n \in SUBSET Threads
    PROVE  /\ OfLoop(<<AsyncIo(n), Loop>>) /\ OfLoop(<<Loop>>)
           /\ <<AsyncIo(n), Loop>> \notin {<<>>, <<Over>>}
           /\ \A g : Head(<<AsyncIo(n), Loop>>) # Notify(g) /\ Head(<<Loop>>) # Notify(g)
           /\ \A h \in Threads : /\ OfLoop(<<Notify(h), AsyncIo(n), Loop>>)
                                 /\ <<Notify(h), AsyncIo(n), Loop>> \notin {<<>>, <<Over>>}
                                 /\ \A g : Head(<<Notify(h), AsyncIo(n), Loop>>) = Notify(g) => g = h
<1>1. \A g, h : AsyncIo(n) # Notify(g) /\ Loop # Notify(g) /\ (Notify(h) = Notify(g) => h = g)
  BY DEF AsyncIo, Notify, Loop, Frame
<1>2. /\ Head(<<AsyncIo(n), Loop>>) = AsyncIo(n) /\ Head(<<Loop>>) = Loop
      /\ \A h : Head(<<Notify(h), AsyncIo(n), Loop>>) = Notify(h)
  BY ShortSequences
<1>3. OfLoop(<<AsyncIo(n), Loop>>) /\ OfLoop(<<Loop>>)
  BY DEF OfLoop
<1>4. \A h \in Threads : OfLoop(<<Notify(h), AsyncIo(n), Loop>>)
  BY DEF OfLoop, Notifies
<1>5. <<AsyncIo(n), Loop>> \notin {<<>>, <<Over>>} /\ \A h : <<Notify(h), AsyncIo(n), Loop>> \notin {<<>>, <<Over>>}
  OBVIOUS
<1> QED BY <1>1, <1>2, <1>3, <1>4, <1>5

(* uv__async_io starts to look at the handles.                              *)
LEMMA PollAsyncStep ==
    ASSUME Inv, UNCHANGED scene, PollAsync
    PROVE  Inv'
<1> DEFINE n == {h \in Threads : handle[h] = "active"}
           s == <<AsyncIo(n), Loop>>
<1>1. fiber = Runner /\ stack[fiber] = <<Loop>> /\ wake' = FALSE
      /\ UNCHANGED <<fiber, fibers, op, cancelled, objectVars, sharedVars, pc, pending>>
  BY Running DEF PollAsync
<1>2. n \in SUBSET Threads
  OBVIOUS
<1>3. Goto(<<AsyncIo(n)>> \o stack[fiber])
  BY DEF PollAsync
<1> HIDE DEF n
<1>4. Goto(s)
  BY <1>1, <1>3, ShortSequences
<1>5. /\ OfLoop(s) /\ s \notin {<<>>, <<Over>>} /\ ~Blocked(s) /\ ~Blocked(stack[fiber])
      /\ (\A h : s # <<Killing(h), Code>>) /\ (\A h : ~Destroys(s, h))
      /\ \A h \in Threads : Head(s) # Notify(h)
  BY <1>1, <1>2, LoopStacks, NotBlocked, NotKilling, NotDestroying
<1>6. /\ flags' = flags /\ flags' \in [Threads -> SUBSET {"RUNNING", "TERMINATED", "KILLED"}]
      /\ pending' = pending /\ pending' \in [Threads -> 0..2] /\ wake' \in BOOLEAN
  BY <1>1 DEF Inv, WorkersOK, objectVars
<1> HIDE DEF s
<1> QED BY <1>1, <1>4, <1>5, <1>6, LoopStep DEF objectVars

(* uv__async_io has looked at every handle.                                 *)
LEMMA LookedAtAllStep ==
    ASSUME Inv, UNCHANGED scene, LookedAtAll
    PROVE  Inv'
<1> DEFINE s == <<Loop>>
<1>1. fiber = Runner /\ Goto(s) /\ Top.k = "io"
      /\ UNCHANGED <<fiber, fibers, op, cancelled, objectVars, sharedVars, pc, asyncVars>>
  BY Running DEF LookedAtAll
<1>2. ~Blocked(stack[fiber])
  BY <1>1, Kinds, ShortSequences DEF Blocked, Top
<1>3. /\ OfLoop(s) /\ s \notin {<<>>, <<Over>>} /\ ~Blocked(s)
      /\ (\A h : s # <<Killing(h), Code>>) /\ (\A h : ~Destroys(s, h))
      /\ \A h \in Threads : Head(s) # Notify(h)
  BY PlainStack DEF OfLoop
<1>4. /\ flags' = flags /\ flags' \in [Threads -> SUBSET {"RUNNING", "TERMINATED", "KILLED"}]
      /\ pending' = pending /\ pending' \in [Threads -> 0..2] /\ wake' \in BOOLEAN
  BY <1>1 DEF Inv, WorkersOK, objectVars, asyncVars
<1> HIDE DEF s
<1> QED BY <1>1, <1>2, <1>3, <1>4, LoopStep DEF objectVars, asyncVars

(* uv__async_io looks at one handle: its callback is called if it was       *)
(* signalled.                                                               *)
LEMMA LookAtStep ==
    ASSUME Inv, UNCHANGED scene, NEW h \in Threads, LookAt(h)
    PROVE  Inv'
<1> DEFINE n == Top.s \ {h}
<1>1. fiber = Runner /\ n \in SUBSET Threads /\ Rest = <<Loop>> /\ Top.k = "io" /\ pending[h] # 1
      /\ UNCHANGED <<fiber, fibers, op, cancelled, join, handle, dropped, freed, sharedVars, pc, wake>>
      /\ pending' = [pending EXCEPT ![h] = 0]
  BY Running DEF LookAt, Spins
<1>2. ~Blocked(stack[fiber])
  BY <1>1, Kinds, ShortSequences DEF Blocked, Top
<1>3. /\ pending \in [Threads -> 0..2] /\ flags \in [Threads -> SUBSET {"RUNNING", "TERMINATED", "KILLED"}]
      /\ pending' \in [Threads -> 0..2] /\ wake' \in BOOLEAN
  BY <1>1 DEF Inv, WorkersOK
<1>4. CASE pending[h] = 0
  <2> DEFINE s == <<AsyncIo(n), Loop>>
  <2>1. Goto(<<AsyncIo(n)>> \o Rest) /\ UNCHANGED flags
    BY <1>4 DEF LookAt
  <2> HIDE DEF n
  <2>2. Goto(s)
    BY <1>1, <2>1, ShortSequences
  <2>3. /\ OfLoop(s) /\ s \notin {<<>>, <<Over>>} /\ ~Blocked(s)
        /\ (\A g : s # <<Killing(g), Code>>) /\ (\A g : ~Destroys(s, g))
        /\ \A g \in Threads : Head(s) # Notify(g)
    BY <1>1, LoopStacks, NotBlocked, NotKilling, NotDestroying
  <2>4. \A g \in Threads : pending'[g] = pending[g] /\ flags'[g] = flags[g]
    BY <1>1, <1>3, <1>4, <2>1
  <2> HIDE DEF s
  <2> QED BY <1>1, <1>2, <1>3, <2>1, <2>2, <2>3, <2>4, LoopStep
<1>5. CASE pending[h] # 0
  <2> DEFINE s == <<Notify(h), AsyncIo(n), Loop>>
  <2>1. Goto(<<Notify(h), AsyncIo(n)>> \o Rest) /\ flags' = [flags EXCEPT ![h] = @ \cup {"TERMINATED"}]
    BY <1>5 DEF LookAt
  <2> HIDE DEF n
  <2>2. Goto(s)
    <3>1. <<Notify(h), AsyncIo(n)>> \o <<Loop>> = s
      BY TwoOnOne
    <3> QED BY <1>1, <2>1, <3>1
  <2>3. /\ OfLoop(s) /\ s \notin {<<>>, <<Over>>} /\ ~Blocked(s)
        /\ (\A g : s # <<Killing(g), Code>>) /\ (\A g : ~Destroys(s, g))
        /\ \A g \in Threads : Head(s) = Notify(g) => g = h
    BY <1>1, LoopStacks, NotBlocked, NotKilling, NotDestroying
  <2>4. /\ pending[h] = 2 /\ pending'[h] = 0 /\ flags'[h] = flags[h] \cup {"TERMINATED"}
        /\ \A g \in Threads : g # h => pending'[g] = pending[g] /\ flags'[g] = flags[g]
    BY <1>1, <1>3, <1>5, <2>1
  <2>5. Terminated(h)' /\ flags' \in [Threads -> SUBSET {"RUNNING", "TERMINATED", "KILLED"}]
    BY <1>3, <2>1 DEF Terminated
  <2> HIDE DEF s
  <2>6. \A g \in Threads :
            \/ pending'[g] = pending[g] /\ flags'[g] = flags[g]
            \/ pending[g] = 2 /\ pending'[g] = 0 /\ flags'[g] = flags[g] \cup {"TERMINATED"}
    BY <2>4
  <2> QED BY <1>1, <1>2, <1>3, <2>2, <2>3, <2>5, <2>6, LoopStep
<1> QED BY <1>4, <1>5

(* The event loop starts a task.                                            *)
LEMMA RunStep ==
    ASSUME Inv, UNCHANGED scene, NEW t \in Tasks, Run(t)
    PROVE  Inv'
<1>1. /\ fiber = Runner /\ stack[fiber] = <<Loop>> /\ stack[t] = <<>> /\ t # fiber /\ t # Runner
      /\ stack' = [stack EXCEPT ![t] = <<Code>>] /\ Switch(t)
      /\ UNCHANGED <<op, cancelled, objectVars, sharedVars, pc, asyncVars>>
  BY Running, ThreadNames DEF Run
<1>2. Lasting /\ \A g \in Threads : Terminated(g)' <=> Terminated(g)
  BY <1>1 DEF Lasting, Terminated, objectVars
<1>3. /\ DOMAIN stack' = Tasks \cup {Runner} /\ stack'[t] = <<Code>>
      /\ \A f \in Tasks \cup {Runner} : f # t => stack'[f] = stack[f]
  BY <1>1 DEF Inv, StacksOK
<1>4. StacksOK'
  <2>1. OfTask(stack'[t])
    BY <1>3 DEF OfTask
  <2>2. stack' \in [Tasks \cup {Runner} -> Seq(Frames)]
    BY <1>1, <1>3, <2>1, StackType DEF Inv, StacksOK
  <2> QED BY <1>1, <1>2, <1>3, <2>1, <2>2 DEF Inv, StacksOK
<1>5. FibersOK'
  <2>1. ~Left(stack[t]) /\ Left(stack[fiber])
    BY <1>1, AboutLeft DEF Left
  <2>2. stack'[t] \notin {<<>>, <<Over>>}
    BY <1>3, PlainStack
  <2> QED BY <1>1, <1>3, <2>1, <2>2, SwitchFibers
<1>6. JoinsOK'
  <2>1. ~Blocked(stack[t]) /\ ~Blocked(stack'[t])
    BY <1>1, <1>3, NotBlocked
  <2>2. \A f \in Tasks, h \in Threads : stack'[f] = <<Joining(h), Code>> <=> stack[f] = <<Joining(h), Code>>
    BY <1>3, <2>1 DEF Blocked
  <2>3. \A f \in Tasks : Blocked(stack[f]) => Blocked(stack'[f])
    BY <2>2 DEF Blocked
  <2>4. \A h \in Threads : \A i \in DOMAIN join[h] : join[h][i] \in Tasks
    BY DEF Inv, JoinsOK
  <2>5. \A h \in Threads : \A i \in DOMAIN join[h] : stack'[join[h][i]] = <<Joining(h), Code>>
    BY <2>2, <2>4 DEF Inv, JoinsOK
  <2>6. \A f \in Tasks, h \in Threads :
            stack'[f] = <<Joining(h), Code>> /\ op[f] = "RESOLVED" => Terminated(h)'
    BY <1>2, <2>2 DEF Inv, JoinsOK
  <2>7. UNCHANGED <<op, cancelled, join>>
    BY <1>1 DEF objectVars
  <2> QED BY <2>3, <2>5, <2>6, <2>7 DEF Inv, JoinsOK
<1>7. /\ \A f \in Tasks, g \in Threads : stack'[f] = <<Killing(g), Code>> => stack[f] = <<Killing(g), Code>>
      /\ \A f \in Tasks \cup {Runner}, g \in Threads : Destroys(stack'[f], g) => Destroys(stack[f], g)
  BY <1>3, NotKilling, NotDestroying
<1>8. \A g \in Threads : WorkerOK(g)'
  <2>1. \A g \in Threads : WorkerOK(g)
    BY DEF Inv, WorkersOK
  <2> QED BY <1>1, <1>2, <1>7, <2>1 DEF WorkerOK, sharedVars, asyncVars, objectVars
<1>9. WorkersOK'
  BY <1>1, <1>8 DEF Inv, WorkersOK, sharedVars, asyncVars, objectVars
<1> QED BY <1>4, <1>5, <1>6, <1>9 DEF Inv

(* A blocked task is resumed, with its operation resolved or failed.        *)
LEMMA ResumeStep ==
    ASSUME Inv, UNCHANGED scene, NEW t \in Tasks, t # fiber, Blocked(stack[t]), Left(stack[fiber]),
           Switch(t), UNCHANGED <<stack, flags, handle, dropped, freed, sharedVars, pc, asyncVars>>,
           NEW r \in {"RESOLVED", "FAILED"}, op' = [op EXCEPT ![t] = r], cancelled' \subseteq Tasks,
           r = "RESOLVED" => \A h \in Threads : stack[t] = <<Joining(h), Code>> => Terminated(h),
           join' \in [Threads -> Seq(Tasks)],
           \A h \in Threads : /\ Single(join'[h], Tasks)
                              /\ \A i \in DOMAIN join'[h] : stack[join'[h][i]] = <<Joining(h), Code>>
    PROVE  Inv'
<1>1. Lasting /\ \A g \in Threads : Terminated(g)' <=> Terminated(g)
  BY DEF Lasting, Terminated
<1>2. StacksOK'
  BY <1>1 DEF Inv, StacksOK
<1>3. FibersOK'
  <2>1. ~Left(stack[t])
    BY AboutLeft
  <2>2. stack'[t] \notin {<<>>, <<Over>>}
    <3>1. PICK h : stack[t] = <<Joining(h), Code>>
      BY DEF Blocked
    <3>2. \A a, b : <<a, b>> \notin {<<>>, <<Over>>}
      OBVIOUS
    <3> QED BY <3>1, <3>2
  <2> QED BY <2>1, <2>2, SwitchFibers
<1>4. JoinsOK'
  <2>1. \A u \in Tasks : op'[u] = IF u = t THEN r ELSE op[u]
    BY DEF Inv, JoinsOK
  <2>2. op' \in [Tasks -> {"PENDING", "RUNNING", "RESOLVED", "FAILED"}]
    BY DEF Inv, JoinsOK
  <2>3. \A u \in Tasks : op'[u] = "RUNNING" => Blocked(stack'[u])
    BY <2>1 DEF Inv, JoinsOK
  <2>4. \A u \in Tasks, h \in Threads :
            stack'[u] = <<Joining(h), Code>> /\ op'[u] = "RESOLVED" => Terminated(h)'
    BY <1>1, <2>1 DEF Inv, JoinsOK
  <2> QED BY <2>2, <2>3, <2>4 DEF JoinsOK, Blocked
<1>5. \A g \in Threads : WorkerOK(g)'
  <2>1. \A g \in Threads : WorkerOK(g)
    BY DEF Inv, WorkersOK
  <2> QED BY <1>1, <2>1 DEF WorkerOK, sharedVars, asyncVars
<1>6. WorkersOK'
  BY <1>5 DEF Inv, WorkersOK, sharedVars, asyncVars
<1> QED BY <1>2, <1>3, <1>4, <1>6 DEF Inv

(* A join is cancelled: the operation fails and the task is resumed.        *)
LEMMA CancelStep ==
    ASSUME Inv, UNCHANGED scene, NEW t \in Tasks, Cancel(t)
    PROVE  Inv'
<1>1. /\ op[t] = "RUNNING" /\ Switch(t) /\ op' = [op EXCEPT ![t] = "FAILED"] /\ cancelled' = cancelled \cup {t}
      /\ UNCHANGED <<stack, objectVars, sharedVars, pc, asyncVars>> /\ (InLoop \/ InCode)
  BY DEF Cancel
<1>2. Blocked(stack[t])
  BY <1>1 DEF Inv, JoinsOK
<1>3. Left(stack[fiber]) /\ t # fiber
  <2>1. stack[fiber] = <<Code>> \/ stack[fiber] = <<Loop>>
    BY <1>1, Running
  <2> QED BY <1>2, <2>1, NotBlocked DEF Left
<1>4. cancelled' \subseteq Tasks /\ join' = join /\ join' \in [Threads -> Seq(Tasks)]
      /\ \A h \in Threads : /\ Single(join'[h], Tasks)
                            /\ \A i \in DOMAIN join'[h] : stack[join'[h][i]] = <<Joining(h), Code>>
  BY <1>1 DEF Inv, JoinsOK, objectVars
<1> QED BY <1>1, <1>2, <1>3, <1>4, ResumeStep DEF objectVars

(* notify_thread_cb resumes one task, or closes the handle when none is     *)
(* left.                                                                    *)
LEMMA WakeStep ==
    ASSUME Inv, UNCHANGED scene, Wake
    PROVE  Inv'
<1> DEFINE h == Top.x
           q == join[h]
<1>1. /\ fiber = Runner /\ h \in Threads /\ Terminated(h) /\ Notifies(stack[fiber])
      /\ UNCHANGED <<cancelled, flags, dropped, freed, sharedVars, pc, asyncVars>>
      /\ \E n \in SUBSET Threads : Rest = <<AsyncIo(n), Loop>>
  BY Running DEF Wake
<1>2. CASE q # <<>>
  <2>1. /\ op' = [op EXCEPT ![Head(q)] = "RESOLVED"] /\ join' = [join EXCEPT ![h] = Tail(q)]
        /\ Switch(Head(q)) /\ UNCHANGED <<stack, handle>>
    BY <1>2 DEF Wake
  <2>2. /\ q \in Seq(Tasks) /\ Single(q, Tasks)
        /\ \A i \in DOMAIN q : stack[q[i]] = <<Joining(h), Code>>
    BY <1>1 DEF Inv, JoinsOK
  <2>3. /\ join \in [Threads -> Seq(Tasks)]
        /\ \A g \in Threads : /\ Single(join[g], Tasks)
                              /\ \A i \in DOMAIN join[g] : stack[join[g][i]] = <<Joining(g), Code>>
    BY DEF Inv, JoinsOK
  <2> HIDE DEF q, h
  <2> DEFINE t == Head(q)
  <2>4. /\ t \in Tasks /\ stack[t] = <<Joining(h), Code>> /\ Tail(q) \in Seq(Tasks) /\ Single(Tail(q), Tasks)
        /\ \A i \in DOMAIN Tail(q) : i + 1 \in DOMAIN q /\ Tail(q)[i] = q[i + 1]
    BY <1>2, <2>2, SingleTail
  <2> HIDE DEF t
  <2>5. /\ Blocked(stack[t]) /\ t # fiber /\ Left(stack[fiber])
        /\ \A g \in Threads : stack[t] = <<Joining(g), Code>> => Terminated(g)
    BY <1>1, <2>4, ThreadNames, Kinds DEF Blocked, Left
  <2>6. join' \in [Threads -> Seq(Tasks)] /\ join'[h] = Tail(q)
        /\ \A g \in Threads : g # h => join'[g] = join[g]
    BY <1>1, <2>1, <2>3, <2>4
  <2>7. \A g \in Threads : /\ Single(join'[g], Tasks)
                           /\ \A i \in DOMAIN join'[g] : stack[join'[g][i]] = <<Joining(g), Code>>
    <3>1. ASSUME NEW i \in DOMAIN join'[h]
          PROVE  stack[join'[h][i]] = <<Joining(h), Code>>
      BY <2>2, <2>4, <2>6
    <3>2. \A g \in Threads : g # h => join'[g] = join[g]
      BY <2>6
    <3> QED BY <2>3, <2>4, <2>6, <3>1, <3>2
  <2>8. cancelled' \subseteq Tasks
    BY <1>1 DEF Inv, JoinsOK
  <2> QED BY <1>1, <2>1, <2>4, <2>5, <2>6, <2>7, <2>8, ResumeStep DEF t
<1>3. CASE q = <<>>
  <2>1. handle' = [handle EXCEPT ![h] = "closing"] /\ Goto(Rest) /\ UNCHANGED <<fiber, fibers, op, join>>
    BY <1>3 DEF Wake
  <2>2. PICK n \in SUBSET Threads : Rest = <<AsyncIo(n), Loop>>
    BY <1>1
  <2> DEFINE s == Rest
  <2>3. /\ OfLoop(s) /\ s \notin {<<>>, <<Over>>} /\ ~Blocked(s)
        /\ (\A g : s # <<Killing(g), Code>>) /\ (\A g : ~Destroys(s, g))
        /\ \A g \in Threads : Head(s) # Notify(g)
    BY <2>2, LoopStacks, NotBlocked, NotKilling, NotDestroying
  <2>4. ~Blocked(stack[fiber])
    BY <1>1, AboutLeft DEF Left
  <2>5. Lasting /\ \A g \in Threads : Terminated(g)' <=> Terminated(g)
    BY <1>1 DEF Lasting, Terminated
  <2> HIDE DEF s, h
  <2>6. Goto(s) /\ UNCHANGED <<fiber, fibers, op, cancelled, join>>
    BY <1>1, <2>1 DEF s
  <2>7. StacksOK' /\ FibersOK' /\ JoinsOK'
    BY <1>1, <2>3, <2>4, <2>5, <2>6, GotoAll
  <2>8. /\ \A t \in Tasks, g \in Threads : stack'[t] = <<Killing(g), Code>> => stack[t] = <<Killing(g), Code>>
        /\ \A f \in Tasks \cup {Runner}, g \in Threads : Destroys(stack'[f], g) => Destroys(stack[f], g)
    BY <2>3, <2>6, GotoKills, GotoDestroys
  <2>9. \A g \in Threads : WorkerOK(g)'
    <3>1. \A g \in Threads : WorkerOK(g)
      BY DEF Inv, WorkersOK
    <3>2. pc[h] = "gone" /\ handle'[h] # "none" /\ \A g \in Threads : g # h => handle'[g] = handle[g]
      BY <1>1, <2>1, <3>1 DEF WorkerOK, Inv, WorkersOK
    <3> QED BY <1>1, <2>5, <2>8, <3>1, <3>2 DEF WorkerOK, sharedVars, asyncVars, Away
  <2>10. WorkersOK'
    BY <1>1, <2>1, <2>9 DEF Inv, WorkersOK, sharedVars, asyncVars
  <2> QED BY <2>7, <2>10 DEF Inv
<1> QED BY <1>2, <1>3

-------------------------------------------------------------------------------
(* A step of a worker leaves the tasks and the objects of the parent alone. *)
LEMMA WorkerSide ==
    ASSUME Inv, UNCHANGED Parent
    PROVE  StacksOK' /\ FibersOK' /\ JoinsOK' /\ \A h \in Threads : Terminated(h)' <=> Terminated(h)
<1>1. UNCHANGED <<taskVars, join, flags>>
  BY DEF Parent, objectVars
<1>2. \A h \in Threads : Terminated(h)' <=> Terminated(h)
  BY <1>1 DEF Terminated
<1>3. StacksOK'
  BY <1>1, <1>2 DEF Inv, StacksOK, taskVars
<1>4. FibersOK'
  BY <1>1 DEF Inv, FibersOK, taskVars
<1>5. JoinsOK'
  BY <1>1, <1>2 DEF Inv, JoinsOK, taskVars
<1> QED BY <1>2, <1>3, <1>4, <1>5

(* A step of a worker: it changes what is its own, and the flags and its    *)
(* mutex allow it.                                                          *)
LEMMA WorkerStep ==
    ASSUME Inv, UNCHANGED scene, NEW h \in Threads, RunThread(h) \/ Work(h)
    PROVE  Inv'
<1>1. /\ UNCHANGED Parent
      /\ exit' \in [Threads -> Threads \cup {None}] /\ pc' \in [Threads -> Places]
      /\ pending' \in [Threads -> 0..2] /\ wake' \in BOOLEAN
      /\ interrupt' \subseteq Threads /\ vmint' \subseteq Threads
  <2>1. /\ exit \in [Threads -> Threads \cup {None}] /\ pc \in [Threads -> Places]
        /\ pending \in [Threads -> 0..2] /\ wake \in BOOLEAN
        /\ interrupt \subseteq Threads /\ vmint \subseteq Threads
    BY DEF Inv, WorkersOK
  <2>2. CASE Publish(h)
    BY <2>1, <2>2 DEF Publish, Step, Places, asyncVars
  <2>3. CASE Startup(h)
    BY <2>1, <2>3 DEF Startup, Step, Places, asyncVars
  <2>4. CASE Interrupted(h)
    BY <2>1, <2>4 DEF Interrupted, Step, Places, asyncVars
  <2>5. CASE Withdraw(h)
    BY <2>1, <2>5 DEF Withdraw, Step, Places, asyncVars
  <2>6. CASE StoreExit(h)
    BY <2>1, <2>6 DEF StoreExit, Step, Places, asyncVars
  <2>7. CASE Claim(h)
    BY <2>1, <2>7 DEF Claim, Step, Places
  <2>8. CASE Signal(h)
    BY <2>1, <2>8 DEF Signal, Step, Places
  <2>9. CASE Release(h)
    BY <2>1, <2>9 DEF Release, Step, Places
  <2>10. CASE Work(h)
    BY <2>1, <2>10 DEF Work, Step, Places, asyncVars
  <2> QED BY <2>2, <2>3, <2>4, <2>5, <2>6, <2>7, <2>8, <2>9, <2>10 DEF RunThread
<1>2. StacksOK' /\ FibersOK' /\ JoinsOK' /\ \A g \in Threads : Terminated(g)' <=> Terminated(g)
  BY <1>1, WorkerSide
<1>3. UNCHANGED <<stack, flags, handle, dropped, freed, locked>>
  BY <1>1 DEF Parent, taskVars, objectVars
<1>4. \A g \in Threads : WorkerOK(g)
  BY DEF Inv, WorkersOK
<1>5. /\ exit \in [Threads -> Threads \cup {None}] /\ pc \in [Threads -> Places]
      /\ pending \in [Threads -> 0..2]
  BY DEF Inv, WorkersOK
<1>6. ASSUME NEW g \in Threads, g # h
      PROVE  WorkerOK(g)'
  <2>1. /\ pc'[g] = pc[g] /\ exit'[g] = exit[g] /\ pending'[g] = pending[g]
        /\ g \in interrupt' <=> g \in interrupt
    BY <1>5, <1>6 DEF RunThread, Publish, Startup, Interrupted, Withdraw, StoreExit, Claim, Signal, Release,
      Work, Step, asyncVars
  <2> QED BY <1>2, <1>3, <1>4, <2>1 DEF WorkerOK
<1>7. WorkerOK(h)'
  <2>1. WorkerOK(h)
    BY <1>4
  <2>2. CASE Publish(h)
    BY <1>2, <1>3, <1>5, <2>1, <2>2 DEF Publish, Step, asyncVars, WorkerOK, Flagged, Sends, Away
  <2>3. CASE Startup(h)
    BY <1>2, <1>3, <1>5, <2>1, <2>3 DEF Startup, Step, asyncVars, WorkerOK, Flagged, Sends, Away
  <2>4. CASE Interrupted(h)
    BY <1>2, <1>3, <1>5, <2>1, <2>4 DEF Interrupted, Step, asyncVars, WorkerOK, Flagged, Sends, Away
  <2>5. CASE Withdraw(h)
    BY <1>2, <1>3, <1>5, <2>1, <2>5 DEF Withdraw, Step, asyncVars, WorkerOK, Flagged, Sends, Away
  <2>6. CASE StoreExit(h)
    BY <1>2, <1>3, <1>5, <2>1, <2>6 DEF StoreExit, Step, asyncVars, WorkerOK, Flagged, Sends, Away
  <2>7. CASE Claim(h)
    <3>1. pending[h] = 0
      BY <1>5, <2>1, <2>7 DEF Claim, Step, WorkerOK
    <3> QED BY <1>2, <1>3, <1>5, <2>1, <2>7, <3>1 DEF Claim, Step, WorkerOK, Flagged, Sends, Away
  <2>8. CASE Signal(h)
    BY <1>2, <1>3, <1>5, <2>1, <2>8 DEF Signal, Step, WorkerOK, Flagged, Sends, Away
  <2>9. CASE Release(h)
    BY <1>2, <1>3, <1>5, <2>1, <2>9 DEF Release, Step, WorkerOK, Flagged, Sends, Away
  <2>10. CASE Work(h)
    BY <1>2, <1>3, <1>5, <2>1, <2>10 DEF Work, Step, asyncVars, WorkerOK, Flagged, Sends, Away
  <2> QED BY <2>2, <2>3, <2>4, <2>5, <2>6, <2>7, <2>8, <2>9, <2>10 DEF RunThread
<1>8. WorkersOK'
  BY <1>1, <1>3, <1>6, <1>7 DEF Inv, WorkersOK
<1> QED BY <1>2, <1>8 DEF Inv
-------------------------------------------------------------------------------
(* The invariant holds in the beginning.                                    *)
LEMMA Initial == Init => Inv
<1> SUFFICES ASSUME Init PROVE Inv
  OBVIOUS
<1>1. /\ fiber = Runner /\ fibers = <<>> /\ stack[Runner] = <<Loop>> /\ \A t \in Tasks : stack[t] = <<>>
      /\ DOMAIN stack = Tasks \cup {Runner} /\ stack = [f \in Tasks \cup {Runner} |-> stack[f]]
  BY ThreadNames DEF Init
<1>2. StacksOK
  <2>1. (\A t \in Tasks : OfTask(stack[t])) /\ OfLoop(stack[Runner])
    BY <1>1 DEF OfTask, OfLoop
  <2>2. \A f \in Tasks \cup {Runner} : stack[f] \in Seq(Frames)
    BY <2>1, StackType
  <2>3. stack \in [Tasks \cup {Runner} -> Seq(Frames)]
    BY <1>1, <2>2
  <2>4. \A h \in Threads : Head(stack[Runner]) # Notify(h)
    BY <1>1, PlainStack
  <2> QED BY <2>1, <2>3, <2>4 DEF StacksOK
<1>3. FibersOK
  <2>1. stack[fiber] \notin {<<>>, <<Over>>}
    BY <1>1, PlainStack
  <2>2. \A t \in Tasks : ~InCall(stack[t])
    BY <1>1 DEF InCall
  <2> QED BY <1>1, <2>1, <2>2 DEF FibersOK, Single
<1>4. JoinsOK
  BY DEF Init, JoinsOK, Single
<1>5. ASSUME NEW h \in Threads
      PROVE  WorkerOK(h)
  <2>1. ASSUME NEW f \in Tasks \cup {Runner}
        PROVE  ~Destroys(stack[f], h)
    <3>1. CASE f = Runner
      BY <3>1, <1>1, NotDestroying
    <3>2. CASE f \in Tasks
      BY <3>2, <1>1 DEF Destroys
    <3> QED BY <3>1, <3>2
  <2>2. \A f \in Tasks : stack[f] # <<Killing(h), Code>>
    BY <1>1
  <2>3. /\ h \notin interrupt /\ pc[h] = "none" /\ pending[h] = 0 /\ flags[h] = {}
        /\ h \notin freed /\ h \notin locked
    BY DEF Init
  <2> QED BY <2>1, <2>2, <2>3 DEF WorkerOK, Terminated, Flagged, Sends, Away
<1>6. WorkersOK
  <2>1. /\ flags \in [Threads -> SUBSET {"RUNNING", "TERMINATED", "KILLED"}]
        /\ handle \in [Threads -> {"none", "active", "closing", "closed"}]
        /\ exit \in [Threads -> Threads \cup {None}] /\ pending \in [Threads -> 0..2]
    BY DEF Init
  <2>2. pc \in [Threads -> Places]
    BY DEF Init, Places
  <2>3. /\ dropped \subseteq Threads /\ freed \subseteq Threads /\ locked \subseteq Threads
        /\ interrupt \subseteq Threads /\ vmint \subseteq Threads
        /\ wake \in BOOLEAN /\ scene \in Scenes
    BY DEF Init
  <2> QED BY <1>5, <2>1, <2>2, <2>3 DEF WorkersOK
<1> QED BY <1>2, <1>3, <1>4, <1>6 DEF Inv

(* Every step keeps the invariant.                                          *)
LEMMA Inductive == Inv /\ [Next]_vars => Inv'
<1> SUFFICES ASSUME Inv, [Next]_vars PROVE Inv'
  OBVIOUS
<1>1. CASE UNCHANGED vars
  <2>1. UNCHANGED Parent
    BY <1>1 DEF vars, Parent, sharedVars
  <2>2. StacksOK' /\ FibersOK' /\ JoinsOK' /\ \A g \in Threads : Terminated(g)' <=> Terminated(g)
    BY <2>1, WorkerSide
  <2>3. \A g \in Threads : WorkerOK(g)'
    <3>1. \A g \in Threads : WorkerOK(g)
      BY DEF Inv, WorkersOK
    <3> QED BY <1>1, <2>2, <3>1 DEF vars, taskVars, objectVars, sharedVars, asyncVars, WorkerOK
  <2>4. WorkersOK'
    BY <1>1, <2>3 DEF vars, objectVars, sharedVars, asyncVars, Inv, WorkersOK
  <2> QED BY <2>2, <2>4 DEF Inv
<1>2. CASE Parental
  <2>1. UNCHANGED scene
    BY <1>2 DEF Parental
  <2>2. CASE PhpCode
    BY <2>1, <2>2, NewStep, KillStep, JoinStep, DropStep, ReturnStep DEF PhpCode
  <2>3. CASE Engine
    BY <2>1, <2>3, InterruptStep, JoinedStep, DestroyedStep, WakeStep, LookedAtAllStep, LookAtStep DEF Engine
  <2>4. CASE EventLoop
    BY <2>1, <2>4, RunStep, CancelStep, PollAsyncStep, HandleClosedStep, FreeObjectStep DEF EventLoop
  <2> QED BY <1>2, <2>2, <2>3, <2>4 DEF Parental
<1>3. CASE \E h \in Threads : Worker(h) \/ (Work(h) /\ UNCHANGED scene)
  BY <1>3, WorkerStep DEF Worker
<1> QED BY <1>1, <1>2, <1>3 DEF Next

(* The invariant implies the property that the runs check.                  *)
LEMMA Enough == Inv => Sound
<1> SUFFICES ASSUME Inv PROVE Sound
  OBVIOUS
<1>1. TypeOK
  BY DEF TypeOK, Inv, StacksOK, FibersOK, JoinsOK, WorkersOK
<1>2. NoUseAfterFree
  <2>1. ASSUME Top.k = "kill"
        PROVE  pc[Top.x] \notin {"none", "shut", "claimed", "signalled", "gone"}
    <3>1. Top.x \in Threads /\ fiber \in Tasks /\ stack[fiber] = <<Killing(Top.x), Code>>
      BY <2>1, Running
    <3>2. WorkerOK(Top.x)
      BY <3>1 DEF Inv, WorkersOK
    <3> QED BY <3>1, <3>2 DEF WorkerOK, Flagged
  <2>2. \A h \in freed : pc[h] \in {"none", "gone"}
    BY DEF Inv, WorkersOK, WorkerOK, Away
  <2> QED BY <2>1, <2>2 DEF NoUseAfterFree
<1>3. JoinedIsOver
  <2>1. ASSUME NEW h \in Threads, Terminated(h)
        PROVE  exit[h] # None /\ pc[h] = "gone"
    <3>1. WorkerOK(h)
      BY DEF Inv, WorkersOK
    <3> QED BY <2>1, <3>1, ThreadNames DEF WorkerOK, Sends
  <2>2. ASSUME NEW h \in Threads, Top = Joining(h), op[fiber] = "RESOLVED"
        PROVE  Terminated(h)
    <3>1. fiber \in Tasks /\ stack[fiber] = <<Joining(h), Code>>
      BY <2>2, Running, Kinds
    <3> QED BY <2>2, <3>1 DEF Inv, JoinsOK
  <2> QED BY <2>1, <2>2 DEF JoinedIsOver
<1>4. NoOrphan
  BY DEF Inv, WorkersOK, WorkerOK, Away, NoOrphan
<1> QED BY <1>1, <1>2, <1>3, <1>4 DEF Sound

(* Whatever the tasks do, kill, join and the destructor keep the thread     *)
(* object and the VM of the worker in use apart (thread.c): neither side    *)
(* touches what the other has freed, a join returns the exit code of a      *)
(* worker that is over, and the loop outlasts its workers.                  *)
THEOREM ThreadsAgree == Spec => []Sound
<1>1. Init => Inv
  BY Initial
<1>2. Inv /\ [Next]_vars => Inv'
  BY Inductive
<1>3. Inv => Sound
  BY Enough
<1> QED BY <1>1, <1>2, <1>3, PTL DEF Spec
===============================================================================
