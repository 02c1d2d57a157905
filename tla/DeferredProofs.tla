----------------------------- MODULE DeferredProofs -----------------------------
(***************************************************************************)
(* Proofs about Deferred, for any tasks, any number of states and whatever  *)
(* the PHP code of callbacks, tasks and handlers does: nobody is left       *)
(* behind, combinations and transformations settle, and they settle once.   *)
(***************************************************************************)
EXTENDS Deferred, SequenceLemmas, FiniteSetTheorems

Ops == {"wait", "combine", "transform"} \X Awaitables

(* How often a frame is on the stack.                                       *)
Times(s, f) == Cardinality({i \in DOMAIN s : s[i] = f})
N(f) == Times(stack, f)

(* The frames there can be.                                                 *)
FrameOK(f) ==
    \/ f \in {Loop, Cancelling, Shut}
    \/ \E t \in Tasks : f = Code(t)
    \/ \E x \in Awaitables : f = Trigger(x)
    \/ \E d \in States :
         \/ /\ kind[d] = "combine"
            /\ f \in {Call("combine", d), Settle(d), Free(d), Register(d, 1), Register(d, 2)}
         \/ kind[d] = "transform" /\ f = Call("transform", d)
         \/ kind[d] \in {"plain", "gone"} /\ f = Call("cancel", d)

Legal == {f \in Frames : FrameOK(f)}

(* The event loop is at the bottom of a stack s, the disposal above it, as  *)
(* long as anything is.                                                     *)
Based(s, dis) ==
    /\ s # <<>>
    /\ \A i \in DOMAIN s :
         /\ s[i] = Loop <=> i = Len(s)
         /\ s[i] = Shut <=> dis /\ i + 1 = Len(s)

(* What a state is, from its kind.                                          *)
KindOK(d) ==
    /\ kind[d] = "none" <=> d > made
    /\ kind[d] = "none" => status[d] = "PENDING"
    /\ status[d] # "RUNNING"
    /\ kind[d] = "combine" => Len(inputs[d]) = 2 /\ inputs[d][1] # inputs[d][2]
    /\ kind[d] = "transform" => Len(inputs[d]) = 1
    /\ kind[d] \notin {"combine", "transform"} => inputs[d] = <<>>
    /\ kind[d] # "combine" =>
         started[d] = 0 /\ counter[d] = 0 /\ last[d] = 0 /\ d \notin freed /\ d \notin handed

(* Each operation is in a list once, and in the list of what it is for.     *)
OpOK(x, o) ==
    \/ o[1] = "wait" /\ o[2] \in Tasks
    \/ o[1] \in {"combine", "transform"} /\ o[2] \in States /\ kind[o[2]] = o[1]
       /\ x \in ToSet(inputs[o[2]])
OpsOK == \A x \in Awaitables : Single(ops[x], Ops) /\ \A o \in ToSet(ops[x]) : OpOK(x, o)

(* The disposal and cancellation know the states they are to settle.        *)
ListsOK ==
    /\ Single(shutdown, States) /\ Single(oncancel, States)
    /\ ToSet(shutdown) = {d \in 1 .. made : ~Settled(d)}
    /\ \A d \in ToSet(oncancel) : kind[d] = "plain"
    /\ disposed /\ Len(stack) = 1 => shutdown = <<>>

(* A task runs or waits for one thing, not both.                            *)
Waiting(t, x) == Op("wait", t) \in ToSet(ops[x])
TaskOK(t) ==
    /\ N(Code(t)) <= 1
    /\ N(Code(t)) = 1 => status[t] = "RUNNING"
    /\ \A x \in Awaitables : Waiting(t, x) => status[t] = "RUNNING" /\ N(Code(t)) = 0
    /\ \A x, y \in Awaitables : Waiting(t, x) /\ Waiting(t, y) => x = y

(* A transformation waits for its input, is in its callback, or is settled. *)
Transforming(d) == Op("transform", d) \in ToSet(ops[inputs[d][1]])
TransformOK(d) ==
    kind[d] = "transform" =>
        /\ N(Call("transform", d)) <= 1
        /\ N(Call("transform", d)) = 1 => ~Transforming(d)
        /\ Settled(d) => disposed \/ (N(Call("transform", d)) = 0 /\ ~Transforming(d))
        /\ Settled(d) \/ Transforming(d) \/ N(Call("transform", d)) = 1

(* A combination counts the inputs that are to call back, in started, and   *)
(* with them the calls that have not returned, in counter.                  *)
Queued(d, i) == Op("combine", d) \in ToSet(ops[inputs[d][i]])
Todo1(d) == IF Queued(d, 1) \/ N(Register(d, 1)) = 1 THEN 1 ELSE 0
Todo2(d) == IF Queued(d, 2) \/ N(Register(d, 1)) = 1 \/ N(Register(d, 2)) = 1 THEN 1 ELSE 0
CombineOK(d) ==
    kind[d] = "combine" =>
        /\ N(Register(d, 1)) + N(Register(d, 2)) <= 1
        /\ N(Register(d, 1)) = 1 => ~Queued(d, 1) /\ ~Queued(d, 2)
        /\ N(Register(d, 2)) = 1 => ~Queued(d, 2)
        /\ started[d] = Todo1(d) + Todo2(d)
        /\ counter[d] = started[d] + N(Call("combine", d)) + N(Settle(d))
        /\ counter[d] \in 0 .. 2
        /\ counter[d] = 0 => Settled(d)
        /\ last[d] = IF started[d] = 0 THEN 1 ELSE 0
        /\ N(Free(d)) <= 1
        /\ N(Free(d)) = 1 => counter[d] = 0 /\ d \notin freed
        /\ d \in freed => counter[d] = 0

(* Operations are left in what is settled only while their loop goes on.    *)
Called(x) == Settled(x) /\ ops[x] # <<>> => N(Trigger(x)) > 0

(* Types, without those that follow from the rest.                          *)
Typed ==
    /\ made \in 0 .. MaxStates
    /\ kind \in [States -> {"none", "plain", "combine", "transform", "gone"}]
    /\ status \in [Awaitables -> {"PENDING", "RUNNING", "RESOLVED", "FAILED"}]
    /\ ops \in [Awaitables -> Seq(Ops)]
    /\ started \in [States -> Int] /\ counter \in [States -> Int] /\ last \in [States -> Nat]
    /\ inputs \in [States -> Seq(Awaitables)]
    /\ freed \subseteq States /\ handed \subseteq States
    /\ oncancel \in Seq(States) /\ cancelled \in BOOLEAN
    /\ shutdown \in Seq(States) /\ disposed \in BOOLEAN
    /\ waits \subseteq Tasks

Stacked == stack \in Seq(Legal) /\ Based(stack, disposed)

Inv ==
    /\ Typed /\ Stacked /\ OpsOK /\ ListsOK
    /\ \A d \in States : KindOK(d) /\ TransformOK(d) /\ CombineOK(d)
    /\ \A t \in Tasks : TaskOK(t)
    /\ \A x \in Awaitables : Called(x)

-------------------------------------------------------------------------------
(* Stacks.                                                                  *)

(* A stack has a frame a natural number of times, and not at all at 0.      *)
LEMMA TimesType ==
    ASSUME NEW S, NEW s \in Seq(S), NEW f
    PROVE  /\ IsFiniteSet({i \in DOMAIN s : s[i] = f}) /\ Times(s, f) \in Nat
           /\ Times(s, f) = 0 <=> \A i \in DOMAIN s : s[i] # f
<1> DEFINE I == {i \in DOMAIN s : s[i] = f}
<1>1. DOMAIN s = 1 .. Len(s) /\ Len(s) \in Nat
  OBVIOUS
<1>2. IsFiniteSet(1 .. Len(s))
  BY <1>1, FS_Interval
<1>3. I \in SUBSET (1 .. Len(s))
  BY <1>1
<1>4. I = {} <=> \A i \in DOMAIN s : s[i] # f
  OBVIOUS
<1> HIDE DEF I
<1>5. IsFiniteSet(I)
  BY <1>2, <1>3, FS_Subset
<1>6. Cardinality(I) \in Nat /\ (Cardinality(I) = 0 <=> I = {})
  BY <1>5, FS_CardinalityType, FS_EmptySet
<1> QED BY <1>4, <1>5, <1>6 DEF I, Times

(* A frame on top is one more.                                              *)
LEMMA TimesPush ==
    ASSUME NEW S, NEW s \in Seq(S), NEW g \in S, NEW f
    PROVE  Times(<<g>> \o s, f) = Times(s, f) + (IF g = f THEN 1 ELSE 0)
<1> DEFINE r == <<g>> \o s
           I == {i \in DOMAIN s : s[i] = f}
           J == {i \in DOMAIN r : r[i] = f}
           K == J \ {1}
           m == [i \in I |-> i + 1]
<1>1. /\ DOMAIN s = 1 .. Len(s) /\ DOMAIN r = 1 .. Len(s) + 1 /\ Len(s) \in Nat /\ r \in Seq(S)
      /\ \A i \in 1 .. Len(s) + 1 : r[i] = IF i = 1 THEN g ELSE s[i - 1]
  OBVIOUS
<1> HIDE DEF r
<1>2. \A i \in I : i \in 1 .. Len(s) /\ i + 1 \in K
  BY <1>1
<1>3. \A k \in K : k - 1 \in I /\ (k - 1) + 1 = k
  BY <1>1
<1>4. 1 \in J <=> g = f
  BY <1>1
<1>5. IsFiniteSet(I) /\ Cardinality(I) = Times(s, f) /\ IsFiniteSet(J) /\ Cardinality(J) = Times(r, f)
  <2>1. IsFiniteSet(I)
    BY TimesType, Zenon
  <2>2. IsFiniteSet(J)
    BY <1>1, TimesType, Zenon
  <2> QED BY <2>1, <2>2 DEF Times
<1> HIDE DEF I, J
<1>6. m \in Bijection(I, K)
  <2>1. m \in [I -> K]
    BY <1>2
  <2>2. \A i, j \in I : m[i] = m[j] => i = j
    BY <1>2
  <2>3. \A k \in K : \E i \in I : m[i] = k
    BY <1>3
  <2> HIDE DEF m, K
  <2>4. DOMAIN m = I
    BY <2>1
  <2> QED BY <2>1, <2>2, <2>3, <2>4 DEF Bijection, Injection, Surjection, IsInjective
<1>7. Cardinality(K) = Cardinality(I)
  <2> HIDE DEF m, K
  <2>1. ExistsBijection(I, K)
    BY <1>6 DEF ExistsBijection
  <2> QED BY <1>5, <2>1, FS_Bijection
<1>8. Cardinality(K) = IF 1 \in J THEN Cardinality(J) - 1 ELSE Cardinality(J)
  BY <1>5, FS_RemoveElement
<1>9. Cardinality(J) \in Nat /\ Cardinality(I) \in Nat
  BY <1>5, FS_CardinalityType
<1> HIDE DEF K
<1> QED BY <1>4, <1>5, <1>7, <1>8, <1>9 DEF r

(* The frame on top is one less when it goes.                               *)
LEMMA TimesPop ==
    ASSUME NEW S, NEW s \in Seq(S), s # <<>>, NEW f
    PROVE  /\ Tail(s) \in Seq(S) /\ Head(s) \in S
           /\ Times(s, f) = Times(Tail(s), f) + (IF Head(s) = f THEN 1 ELSE 0)
<1>1. Tail(s) \in Seq(S) /\ Head(s) \in S /\ s = <<Head(s)>> \o Tail(s)
  BY HeadTailProperties
<1>2. PICK h \in S, t \in Seq(S) : h = Head(s) /\ t = Tail(s) /\ s = <<h>> \o t
  BY <1>1
<1>3. \A g \in S : \A r \in Seq(S) : Times(<<g>> \o r, f) = Times(r, f) + (IF g = f THEN 1 ELSE 0)
  <2> SUFFICES ASSUME NEW g \in S, NEW r \in Seq(S)
               PROVE  Times(<<g>> \o r, f) = Times(r, f) + (IF g = f THEN 1 ELSE 0)
    OBVIOUS
  <2> QED BY TimesPush
<1>4. Times(<<h>> \o t, f) = Times(t, f) + (IF h = f THEN 1 ELSE 0)
  BY <1>2, <1>3, Zenon
<1> QED BY <1>1, <1>2, <1>4, Zenon

(* What a stack is after a frame is pushed or popped that is neither the    *)
(* loop nor the disposal.                                                   *)
Held(s, dis) == Based(s, dis) /\ (dis => Len(s) >= 2)

(* ... pushed.                                                              *)
LEMMA StackPush ==
    ASSUME NEW S, NEW s \in Seq(S), NEW dis \in BOOLEAN, Held(s, dis), NEW g \in S, g # Loop, g # Shut
    PROVE  /\ <<g>> \o s \in Seq(S) /\ Held(<<g>> \o s, dis) /\ Len(<<g>> \o s) = Len(s) + 1
           /\ Head(<<g>> \o s) = g
<1> DEFINE r == <<g>> \o s
<1>1. /\ DOMAIN s = 1 .. Len(s) /\ DOMAIN r = 1 .. Len(s) + 1 /\ Len(s) \in Nat /\ r \in Seq(S)
      /\ Len(r) = Len(s) + 1 /\ r # <<>> /\ Head(r) = g
      /\ \A i \in 1 .. Len(s) + 1 : r[i] = IF i = 1 THEN g ELSE s[i - 1]
  OBVIOUS
<1> HIDE DEF r
<1>2. Len(s) >= 1
  BY <1>1 DEF Held, Based
<1>3. ASSUME NEW i \in DOMAIN r
      PROVE  (r[i] = Loop <=> i = Len(r)) /\ (r[i] = Shut <=> dis /\ i + 1 = Len(r))
  <2>1. CASE i = 1
    BY <1>1, <1>2, <2>1 DEF Held
  <2>2. CASE i # 1
    <3>1. i - 1 \in DOMAIN s /\ r[i] = s[i - 1]
      BY <1>1, <2>2
    <3>2. (s[i - 1] = Loop <=> i - 1 = Len(s)) /\ (s[i - 1] = Shut <=> dis /\ (i - 1) + 1 = Len(s))
      BY <3>1 DEF Held, Based
    <3> QED BY <1>1, <3>1, <3>2
  <2> QED BY <2>1, <2>2
<1> QED BY <1>1, <1>2, <1>3 DEF Held, Based, r

(* ... popped.                                                              *)
LEMMA StackPop ==
    ASSUME NEW S, NEW s \in Seq(S), NEW dis \in BOOLEAN, Based(s, dis), Head(s) # Loop, Head(s) # Shut
    PROVE  /\ Held(s, dis) /\ Tail(s) \in Seq(S) /\ Held(Tail(s), dis)
           /\ Len(Tail(s)) = Len(s) - 1 /\ s # <<>>
<1> DEFINE r == Tail(s)
<1>1. s # <<>>
  BY DEF Based
<1>2. /\ DOMAIN s = 1 .. Len(s) /\ DOMAIN r = 1 .. Len(s) - 1 /\ Len(s) \in Nat \ {0} /\ r \in Seq(S)
      /\ Len(r) = Len(s) - 1 /\ s[1] = Head(s) /\ \A i \in 1 .. Len(s) - 1 : r[i] = s[i + 1]
  BY <1>1, HeadTailProperties
<1> HIDE DEF r
<1>3. Len(s) # 1 /\ (dis => Len(s) # 2)
  BY <1>2 DEF Based
<1>4. ASSUME NEW i \in DOMAIN r
      PROVE  (r[i] = Loop <=> i = Len(r)) /\ (r[i] = Shut <=> dis /\ i + 1 = Len(r))
  <2>1. i + 1 \in DOMAIN s /\ r[i] = s[i + 1]
    BY <1>2
  <2>2. (s[i + 1] = Loop <=> i + 1 = Len(s)) /\ (s[i + 1] = Shut <=> dis /\ (i + 1) + 1 = Len(s))
    BY <2>1 DEF Based
  <2> QED BY <1>2, <2>1, <2>2
<1>5. r # <<>>
  BY <1>2, <1>3
<1> QED BY <1>1, <1>2, <1>3, <1>4, <1>5 DEF Held, Based, r

(* Above the disposal there is more than one frame.                         *)
LEMMA HeldIsLong ==
    ASSUME NEW S, NEW s \in Seq(S), NEW dis \in BOOLEAN, Held(s, dis)
    PROVE  dis => Len(s) # 1
<1>1. ASSUME dis, Len(s) = 1 PROVE FALSE
  <2>1. Len(s) \in Nat
    OBVIOUS
  <2> QED BY <1>1, <2>1 DEF Held
<1> QED BY <1>1

(* The loop on top is alone on the stack, the disposal right above it.      *)
LEMMA StackBase ==
    ASSUME NEW S, NEW s \in Seq(S), NEW dis \in BOOLEAN, Based(s, dis)
    PROVE  /\ Head(s) = Loop => s = <<Loop>> /\ Len(s) = 1
           /\ Head(s) = Shut => Tail(s) = <<Loop>> /\ dis /\ Len(s) = 2
<1>1. s # <<>> /\ Head(s) = s[1] /\ DOMAIN s = 1 .. Len(s) /\ Len(s) \in Nat \ {0}
  BY HeadTailProperties DEF Based
<1>2. ASSUME Head(s) = Loop PROVE s = <<Loop>> /\ Len(s) = 1
  <2>1. Len(s) = 1
    BY <1>1, <1>2 DEF Based
  <2> QED BY <1>1, <1>2, <2>1
<1>3. ASSUME Head(s) = Shut PROVE Tail(s) = <<Loop>> /\ dis /\ Len(s) = 2
  <2>1. dis /\ Len(s) = 2
    BY <1>1, <1>3 DEF Based
  <2>2. s[2] = Loop
    BY <1>1, <2>1 DEF Based
  <2>3. Len(Tail(s)) = 1 /\ Tail(s)[1] = s[2] /\ Tail(s) \in Seq(S)
    BY <1>1, <2>1, HeadTailProperties
  <2>4. \A r \in Seq(S) : Len(r) = 1 /\ r[1] = Loop => r = <<Loop>>
    OBVIOUS
  <2> QED BY <2>1, <2>2, <2>3, <2>4
<1> QED BY <1>2, <1>3

-------------------------------------------------------------------------------
(* Names of frames and operations.                                          *)
LEMMA FrameNames ==
    /\ Loop.k = "loop" /\ Shut.k = "shut" /\ Cancelling.k = "cancelling"
    /\ \A x : Code(x).k = "code" /\ Code(x).x = x /\ Trigger(x).k = "trigger" /\ Trigger(x).x = x
    /\ \A k, d : Call(k, d).k = k /\ Call(k, d).x = d
    /\ \A d, i : Register(d, i).k = "register" /\ Register(d, i).x = d /\ Register(d, i).i = i
    /\ \A d : Settle(d).k = "settle" /\ Settle(d).x = d /\ Free(d).k = "free" /\ Free(d).x = d
BY DEF Loop, Shut, Cancelling, Code, Trigger, Call, Register, Settle, Free, Frame

(* The frames of a combination are different ones.                          *)
LEMMA FramesDiffer ==
    \A d :
        /\ Call("combine", d) # Settle(d) /\ Call("combine", d) # Free(d) /\ Settle(d) # Free(d)
        /\ \A i : /\ Register(d, i) # Call("combine", d) /\ Register(d, i) # Settle(d)
                  /\ Register(d, i) # Free(d)
        /\ Register(d, 1) # Register(d, 2)
        /\ \A f : \A x : f \in {Call("combine", d), Settle(d), Free(d), Register(d, 1), Register(d, 2)} =>
                         f # Trigger(x)
BY FrameNames

(* Operations for different awaitables are different.                       *)
LEMMA OpsDiffer == \A k, e, j, d : e # d => Op(k, e) # Op(j, d)
<1>1. \A k, e : Op(k, e)[2] = e
  BY DEF Op
<1> QED BY <1>1

(* The parts of an operation.                                               *)
LEMMA OpNames ==
    /\ \A k, x : Op(k, x)[1] = k /\ Op(k, x)[2] = x
    /\ \A k \in {"wait", "combine", "transform"} : \A x \in Awaitables : Op(k, x) \in Ops
    /\ \A o \in Ops : /\ o = Op(o[1], o[2]) /\ o[2] \in Awaitables
                      /\ o[1] \in {"wait", "combine", "transform"}
BY DEF Op, Ops

(* The frame on top, by its name.                                           *)
LEMMA LegalFrame ==
    ASSUME NEW f \in Legal
    PROVE  /\ f.k = "loop" => f = Loop
           /\ f.k = "shut" => f = Shut
           /\ f.k = "cancelling" => f = Cancelling
           /\ f.k = "code" => f.x \in Tasks /\ f = Code(f.x)
           /\ f.k = "trigger" => f.x \in Awaitables /\ f = Trigger(f.x)
           /\ f.k = "register" => /\ f.x \in States /\ kind[f.x] = "combine" /\ f.i \in {1, 2}
                                  /\ f = Register(f.x, f.i)
           /\ f.k = "combine" => f.x \in States /\ kind[f.x] = "combine" /\ f = Call("combine", f.x)
           /\ f.k = "settle" => f.x \in States /\ kind[f.x] = "combine" /\ f = Settle(f.x)
           /\ f.k = "free" => f.x \in States /\ kind[f.x] = "combine" /\ f = Free(f.x)
           /\ f.k = "transform" => /\ f.x \in States /\ kind[f.x] = "transform"
                                   /\ f = Call("transform", f.x)
           /\ f.k = "cancel" => f.x \in States /\ f = Call("cancel", f.x)
<1>1. f \in Frames /\ FrameOK(f)
  BY DEF Legal
<1>2. CASE f \in {Loop, Cancelling, Shut}
  BY <1>2, FrameNames
<1>3. ASSUME NEW t \in Tasks, f = Code(t) PROVE f.k = "code" /\ f.x = t
  BY <1>3, FrameNames
<1>4. ASSUME NEW x \in Awaitables, f = Trigger(x) PROVE f.k = "trigger" /\ f.x = x
  BY <1>4, FrameNames
<1>5. ASSUME NEW d \in States, kind[d] = "combine",
             f \in {Call("combine", d), Settle(d), Free(d), Register(d, 1), Register(d, 2)}
      PROVE  /\ f.x = d
             /\ \/ f.k = "combine" /\ f = Call("combine", d)
                \/ f.k = "settle" /\ f = Settle(d)
                \/ f.k = "free" /\ f = Free(d)
                \/ f.k = "register" /\ f.i \in {1, 2} /\ f = Register(d, f.i)
  BY <1>5, FrameNames
<1>6. ASSUME NEW d \in States, kind[d] = "transform", f = Call("transform", d)
      PROVE  f.k = "transform" /\ f.x = d
  BY <1>6, FrameNames
<1>7. ASSUME NEW d \in States, f = Call("cancel", d)
      PROVE  f.k = "cancel" /\ f.x = d
  BY <1>7, FrameNames
<1> QED BY <1>1, <1>2, <1>3, <1>4, <1>5, <1>6, <1>7 DEF FrameOK

(* Frames that may be pushed.                                               *)
LEMMA FrameTypes ==
    /\ \A t \in Tasks : Code(t) \in Legal
    /\ \A x \in Awaitables : Trigger(x) \in Legal
    /\ Loop \in Legal /\ Cancelling \in Legal /\ Shut \in Legal
    /\ \A d \in States :
         /\ kind[d] = "combine" => /\ Call("combine", d) \in Legal /\ Settle(d) \in Legal
                                   /\ Free(d) \in Legal /\ Register(d, 1) \in Legal
                                   /\ Register(d, 2) \in Legal
         /\ kind[d] = "transform" => Call("transform", d) \in Legal
         /\ kind[d] \in {"plain", "gone"} => Call("cancel", d) \in Legal
<1>1. /\ \A t \in Tasks : Code(t) \in Frames
      /\ \A x \in Awaitables : Trigger(x) \in Frames
      /\ Loop \in Frames /\ Cancelling \in Frames /\ Shut \in Frames
      /\ \A d \in States : /\ Call("combine", d) \in Frames /\ Settle(d) \in Frames /\ Free(d) \in Frames
                           /\ Register(d, 1) \in Frames /\ Register(d, 2) \in Frames
                           /\ Call("transform", d) \in Frames /\ Call("cancel", d) \in Frames
  BY DEF Frames, Awaitables, Frame, Code, Trigger, Loop, Cancelling, Shut, Call, Settle, Free, Register
<1> QED BY <1>1 DEF Legal, FrameOK

-------------------------------------------------------------------------------
(* What a step does to the stack.                                           *)

(* Kinds are given once, and a plain state may lose its object.             *)
KindsGrow ==
    \A d \in States :
        kind'[d] = kind[d] \/ kind[d] = "none" \/ (kind[d] = "plain" /\ kind'[d] = "gone")

(* A frame that is legal stays so when kinds are given.                     *)
LEMMA LegalGrows ==
    ASSUME KindsGrow
    PROVE  Legal \subseteq Legal'
<1> SUFFICES ASSUME NEW f \in Legal PROVE f \in Legal'
  OBVIOUS
<1>1. f \in Frames /\ FrameOK(f)
  BY DEF Legal
<1>2. FrameOK(f)'
  BY <1>1 DEF FrameOK, KindsGrow
<1>3. Frames' = Frames
  BY DEF Frames
<1> QED BY <1>1, <1>2 DEF Legal

(* Frames are as legal as before when kinds do not change.                  *)
LEMMA LegalSame ==
    ASSUME kind' = kind
    PROVE  KindsGrow /\ Legal' = Legal
BY DEF KindsGrow, Legal, FrameOK, Frames

(* There is a frame on top, and frames are counted in numbers.              *)
LEMMA TopFacts ==
    ASSUME Stacked
    PROVE  Top \in Legal /\ stack # <<>> /\ \A f : N(f) \in Nat
<1>1. stack \in Seq(Legal) /\ stack # <<>>
  BY DEF Stacked, Based
<1>2. \A f : Times(stack, f) \in Nat
  BY <1>1, TimesType
<1> QED BY <1>1, <1>2, HeadTailProperties DEF Top, N

(* There is a frame where it is counted.                                    *)
LEMMA TopCounted ==
    ASSUME Stacked
    PROVE  N(Top) > 0
<1>1. stack \in Seq(Legal) /\ stack # <<>>
  BY DEF Stacked, Based
<1>2. 1 \in DOMAIN stack /\ stack[1] = Head(stack)
  BY <1>1
<1>3. Times(stack, Head(stack)) \in Nat /\ Times(stack, Head(stack)) # 0
  BY <1>1, <1>2, TimesType
<1> QED BY <1>3 DEF N, Top

(* What may be pushed on stack s.                                           *)
LEMMA MovedOn ==
    ASSUME KindsGrow, NEW s \in Seq(Legal), NEW dis \in BOOLEAN, Held(s, dis),
           NEW g \in Legal', g # Loop, g # Shut
    PROVE  /\ <<g>> \o s \in Seq(Legal') /\ Held(<<g>> \o s, dis)
           /\ \A f : Times(<<g>> \o s, f) = Times(s, f) + (IF g = f THEN 1 ELSE 0)
<1>1. s \in Seq(Legal')
  BY LegalGrows, SeqMonotonic
<1> QED BY <1>1, StackPush, TimesPush

(* A frame is pushed, popped, exchanged for another or for two.             *)
LEMMA Pushes ==
    ASSUME Stacked, KindsGrow, Typed, disposed' = disposed, Held(stack, disposed),
           NEW g, g \in Legal', g # Loop, g # Shut, stack' = <<g>> \o stack
    PROVE  /\ Stacked' /\ Held(stack', disposed') /\ (disposed' => Len(stack') # 1)
           /\ \A f : N(f)' = N(f) + (IF g = f THEN 1 ELSE 0)
<1>1. stack \in Seq(Legal) /\ disposed \in BOOLEAN
  BY DEF Stacked, Typed
<1>2. /\ <<g>> \o stack \in Seq(Legal') /\ Held(<<g>> \o stack, disposed)
      /\ \A f : Times(<<g>> \o stack, f) = Times(stack, f) + (IF g = f THEN 1 ELSE 0)
  BY <1>1, MovedOn
<1>3. stack' \in Seq(Legal') /\ Held(stack', disposed')
  BY <1>2
<1>4. disposed' => Len(stack') # 1
  BY <1>3, <1>1, HeldIsLong
<1> QED BY <1>4, <1>2, <1>3 DEF Stacked, Held, N

(* ... popped,                                                              *)
LEMMA Pops ==
    ASSUME Stacked, KindsGrow, Typed, disposed' = disposed, Top # Loop, Top # Shut, stack' = Rest
    PROVE  /\ Stacked' /\ Held(stack', disposed') /\ (disposed' => Len(stack') # 1)
           /\ \A f : N(f)' = N(f) - (IF Top = f THEN 1 ELSE 0)
<1>1. stack \in Seq(Legal) /\ disposed \in BOOLEAN /\ Based(stack, disposed)
  BY DEF Stacked, Typed
<1>2. Tail(stack) \in Seq(Legal) /\ Held(Tail(stack), disposed) /\ stack # <<>>
  BY <1>1, StackPop DEF Top
<1>3. \A f : Times(stack, f) = Times(Tail(stack), f) + (IF Top = f THEN 1 ELSE 0)
  BY <1>1, <1>2, TimesPop DEF Top
<1>4. \A f : Times(stack, f) \in Nat /\ Times(Tail(stack), f) \in Nat
  BY <1>1, <1>2, TimesType
<1>5. \A f : Times(Tail(stack), f) = Times(stack, f) - (IF Top = f THEN 1 ELSE 0)
  BY <1>3, <1>4
<1>6. Tail(stack) \in Seq(Legal')
  BY <1>2, LegalGrows, SeqMonotonic
<1>7. stack' \in Seq(Legal') /\ Held(stack', disposed')
  BY <1>2, <1>6 DEF Rest
<1>8. disposed' => Len(stack') # 1
  BY <1>7, <1>1, HeldIsLong
<1> QED BY <1>8, <1>5, <1>7 DEF Stacked, Held, N, Rest

(* ... exchanged for another,                                               *)
LEMMA Swaps ==
    ASSUME Stacked, KindsGrow, Typed, disposed' = disposed, Top # Loop, Top # Shut,
           NEW g, g \in Legal', g # Loop, g # Shut, stack' = <<g>> \o Rest
    PROVE  /\ Stacked' /\ Held(stack', disposed') /\ (disposed' => Len(stack') # 1)
           /\ \A f : N(f)' = N(f) - (IF Top = f THEN 1 ELSE 0) + (IF g = f THEN 1 ELSE 0)
<1>1. stack \in Seq(Legal) /\ disposed \in BOOLEAN /\ Based(stack, disposed)
  BY DEF Stacked, Typed
<1>2. Rest \in Seq(Legal) /\ Held(Rest, disposed) /\ stack # <<>>
  BY <1>1, StackPop DEF Top, Rest
<1>3. \A f : Times(stack, f) = Times(Rest, f) + (IF Top = f THEN 1 ELSE 0)
  BY <1>1, <1>2, TimesPop DEF Top, Rest
<1>4. \A f : Times(stack, f) \in Nat /\ Times(Rest, f) \in Nat
  BY <1>1, <1>2, TimesType
<1>5. /\ <<g>> \o Rest \in Seq(Legal') /\ Held(<<g>> \o Rest, disposed)
      /\ \A f : Times(<<g>> \o Rest, f) = Times(Rest, f) + (IF g = f THEN 1 ELSE 0)
  BY <1>1, <1>2, MovedOn
<1>6. stack' \in Seq(Legal') /\ Held(stack', disposed')
  BY <1>5
<1>7. \A f : N(f) = Times(stack, f) /\ N(f)' = Times(<<g>> \o Rest, f)
  BY DEF N
<1>8. \A f : N(f)' = N(f) - (IF Top = f THEN 1 ELSE 0) + (IF g = f THEN 1 ELSE 0)
  BY <1>3, <1>4, <1>5, <1>7
<1>9. disposed' => Len(stack') # 1
  BY <1>6, <1>1, HeldIsLong
<1> QED BY <1>9, <1>6, <1>8 DEF Stacked, Held

One(g, f) == IF g = f THEN 1 ELSE 0
(* ... or for two.                                                          *)
LEMMA SwapsTwo ==
    ASSUME Stacked, KindsGrow, Typed, disposed' = disposed, Top # Loop, Top # Shut,
           NEW g, g \in Legal', g # Loop, g # Shut, NEW h, h \in Legal, h # Loop, h # Shut,
           stack' = <<g>> \o (<<h>> \o Rest)
    PROVE  /\ Stacked' /\ Held(stack', disposed') /\ (disposed' => Len(stack') # 1)
           /\ \A f : N(f)' = N(f) - One(Top, f) + One(g, f) + One(h, f)
<1>1. stack \in Seq(Legal) /\ disposed \in BOOLEAN /\ Based(stack, disposed)
  BY DEF Stacked, Typed
<1>2. Rest \in Seq(Legal) /\ Held(Rest, disposed) /\ stack # <<>>
  BY <1>1, StackPop DEF Top, Rest
<1>3. \A f : Times(stack, f) = Times(Rest, f) + (IF Top = f THEN 1 ELSE 0)
  BY <1>1, <1>2, TimesPop DEF Top, Rest
<1>4. \A f : Times(stack, f) \in Nat /\ Times(Rest, f) \in Nat
  BY <1>1, <1>2, TimesType
<1> DEFINE r == <<h>> \o Rest
<1>5. /\ r \in Seq(Legal) /\ Held(r, disposed)
      /\ \A f : Times(r, f) = Times(Rest, f) + (IF h = f THEN 1 ELSE 0)
  BY <1>1, <1>2, StackPush, TimesPush
<1> HIDE DEF r
<1>6. /\ <<g>> \o r \in Seq(Legal') /\ Held(<<g>> \o r, disposed)
      /\ \A f : Times(<<g>> \o r, f) = Times(r, f) + (IF g = f THEN 1 ELSE 0)
  BY <1>1, <1>5, MovedOn
<1>7. stack' \in Seq(Legal') /\ Held(stack', disposed')
  BY <1>6 DEF r
<1>8. \A f : N(f) = Times(stack, f) /\ N(f)' = Times(<<g>> \o r, f)
  BY DEF N, r
<1>9. \A f : N(f)' = N(f) - One(Top, f) + One(g, f) + One(h, f)
  BY <1>3, <1>4, <1>5, <1>6, <1>8 DEF One
<1>10. disposed' => Len(stack') # 1
  BY <1>7, <1>1, HeldIsLong
<1> QED BY <1>10, <1>7, <1>9 DEF Stacked, Held

-------------------------------------------------------------------------------
(* What a step leaves as it is.                                             *)

(* A task nothing happens to.                                               *)
LEMMA TaskSame ==
    ASSUME NEW t \in Tasks, TaskOK(t), N(Code(t))' = N(Code(t)), status'[t] = status[t],
           \A x \in Awaitables : Waiting(t, x)' <=> Waiting(t, x)
    PROVE  TaskOK(t)'
BY DEF TaskOK

(* A transformation nothing happens to.                                     *)
LEMMA TransformSame ==
    ASSUME NEW d \in States, TransformOK(d), kind'[d] = kind[d],
           N(Call("transform", d))' = N(Call("transform", d)),
           kind[d] = "transform" => /\ Transforming(d)' <=> Transforming(d)
                                    /\ Settled(d) => Settled(d)'
                                    /\ Settled(d)' => Settled(d) \/ disposed',
           disposed => disposed'
    PROVE  TransformOK(d)'
BY DEF TransformOK

(* A combination nothing happens to.                                        *)
LEMMA CombineSame ==
    ASSUME NEW d \in States, CombineOK(d), kind'[d] = kind[d], Settled(d) => Settled(d)',
           kind[d] = "combine" => (Queued(d, 1)' <=> Queued(d, 1)) /\ (Queued(d, 2)' <=> Queued(d, 2)),
           started'[d] = started[d], counter'[d] = counter[d], last'[d] = last[d],
           d \in freed' <=> d \in freed,
           N(Register(d, 1))' = N(Register(d, 1)), N(Register(d, 2))' = N(Register(d, 2)),
           N(Call("combine", d))' = N(Call("combine", d)), N(Settle(d))' = N(Settle(d)),
           N(Free(d))' = N(Free(d))
    PROVE  CombineOK(d)'
BY DEF CombineOK, Todo1, Todo2

(* An awaitable that keeps its operations.                                  *)
LEMMA CalledSame ==
    ASSUME NEW x \in Awaitables, Called(x), ops'[x] = ops[x],
           N(Trigger(x)) > 0 => N(Trigger(x))' > 0,
           Settled(x)' => Settled(x) \/ N(Trigger(x))' > 0
    PROVE  Called(x)'
BY DEF Called

(* The lists of operations and what they are for stay as they are.          *)
Derived == {"combine", "transform"}
(* Lists of operations nothing happens to.                                  *)
LEMMA OpsSame ==
    ASSUME OpsOK, ops' = ops,
           \A d \in States : kind[d] \in Derived => kind'[d] = kind[d] /\ inputs'[d] = inputs[d]
    PROVE  OpsOK'
<1>1. ASSUME NEW x \in Awaitables, NEW o \in ToSet(ops[x]) PROVE OpOK(x, o)'
  <2>1. OpOK(x, o)
    BY DEF OpsOK
  <2> QED BY <2>1 DEF OpOK, Derived
<1> QED BY <1>1 DEF OpsOK

(* Who is in a list is so.                                                  *)
LEMMA ListedOps ==
    ASSUME OpsOK, Typed, NEW x \in Awaitables
    PROVE  /\ \A k, d : Op(k, d) \in ToSet(ops[x]) =>
                \/ k = "wait" /\ d \in Tasks
                \/ k \in Derived /\ d \in States /\ kind[d] = k /\ x \in ToSet(inputs[d])
           /\ ops[x] # <<>> => Head(ops[x]) \in ToSet(ops[x]) /\ Head(ops[x]) \in Ops
<1>1. ASSUME NEW k, NEW d, Op(k, d) \in ToSet(ops[x])
      PROVE  \/ k = "wait" /\ d \in Tasks
             \/ k \in Derived /\ d \in States /\ kind[d] = k /\ x \in ToSet(inputs[d])
  <2>1. OpOK(x, Op(k, d))
    BY <1>1 DEF OpsOK
  <2> QED BY <2>1, OpNames DEF OpOK, Derived
<1>2. ops[x] \in Seq(Ops)
  BY DEF Typed
<1> QED BY <1>1, <1>2, NoElements

(* The inputs of a combination or transformation.                           *)
LEMMA InputsOf ==
    ASSUME Typed, NEW d \in States, KindOK(d)
    PROVE  /\ kind[d] = "combine" =>
                /\ inputs[d][1] \in Awaitables /\ inputs[d][2] \in Awaitables
                /\ inputs[d][1] # inputs[d][2]
                /\ ToSet(inputs[d]) = {inputs[d][1], inputs[d][2]}
           /\ kind[d] = "transform" =>
                inputs[d][1] \in Awaitables /\ ToSet(inputs[d]) = {inputs[d][1]}
<1>1. inputs[d] \in Seq(Awaitables)
  BY DEF Typed
<1>2. \A q \in Seq(Awaitables) :
        /\ Len(q) = 2 => q[1] \in Awaitables /\ q[2] \in Awaitables /\ DOMAIN q = {1, 2}
        /\ Len(q) = 1 => q[1] \in Awaitables /\ DOMAIN q = {1}
  OBVIOUS
<1> QED BY <1>1, <1>2 DEF KindOK, ToSet

(* Steps that concern no task, call or registration: what is on the stack   *)
(* for them, the lists of operations and the counts stay.                   *)
Marked == {"code", "transform", "register", "combine", "settle", "free"}
Quiet ==
    /\ \A f : f.k \in Marked => N(f)' = N(f)
    /\ UNCHANGED <<ops, started, counter, last, freed, inputs>>
    /\ \A d \in States : kind'[d] = kind[d] \/ (kind[d] \notin Derived /\ kind'[d] \notin Derived)
    /\ \A t \in Tasks : status'[t] = status[t]
    /\ \A d \in States : /\ Settled(d) => Settled(d)'
                         /\ kind[d] = "transform" /\ Settled(d)' => Settled(d) \/ disposed'
    /\ disposed => disposed'

(* Such a step keeps what is true of tasks, combinations and the like.      *)
LEMMA QuietKeeps ==
    ASSUME Inv, Quiet
    PROVE  /\ OpsOK'
           /\ \A d \in States : TransformOK(d)' /\ CombineOK(d)'
           /\ \A t \in Tasks : TaskOK(t)'
<1>1. OpsOK'
  BY OpsSame DEF Inv, Quiet, Derived
<1>2. ASSUME NEW t \in Tasks PROVE TaskOK(t)'
  <2>1. N(Code(t))' = N(Code(t))
    BY FrameNames DEF Quiet, Marked
  <2>2. \A x \in Awaitables : Waiting(t, x)' <=> Waiting(t, x)
    BY DEF Quiet, Waiting
  <2> QED BY <2>1, <2>2, TaskSame DEF Inv, Quiet
<1>3. ASSUME NEW d \in States, kind'[d] = kind[d]
      PROVE  TransformOK(d)' /\ CombineOK(d)'
  <2>1. /\ N(Call("transform", d))' = N(Call("transform", d))
        /\ N(Register(d, 1))' = N(Register(d, 1)) /\ N(Register(d, 2))' = N(Register(d, 2))
        /\ N(Call("combine", d))' = N(Call("combine", d)) /\ N(Settle(d))' = N(Settle(d))
        /\ N(Free(d))' = N(Free(d))
    BY FrameNames DEF Quiet, Marked
  <2>2. (Queued(d, 1)' <=> Queued(d, 1)) /\ (Queued(d, 2)' <=> Queued(d, 2))
    BY DEF Quiet, Queued
  <2>3. Transforming(d)' <=> Transforming(d)
    BY DEF Quiet, Transforming
  <2>4. TransformOK(d)'
    BY <1>3, <2>1, <2>3, TransformSame DEF Inv, Quiet
  <2>5. CombineOK(d)'
    BY <1>3, <2>1, <2>2, CombineSame DEF Inv, Quiet
  <2> QED BY <2>4, <2>5
<1>4. ASSUME NEW d \in States, kind'[d] # kind[d]
      PROVE  TransformOK(d)' /\ CombineOK(d)'
  BY <1>4 DEF Quiet, Derived, TransformOK, CombineOK
<1> QED BY <1>1, <1>2, <1>3, <1>4

-------------------------------------------------------------------------------
(* The lists of the disposal and the cancellation.                          *)
LEMMA ListsSame ==
    ASSUME ListsOK, Typed, UNCHANGED <<shutdown, oncancel, made>>, KindsGrow,
           \A d \in States : kind[d] = "plain" => kind'[d] = "plain",
           \A d \in States : status'[d] = status[d], disposed' => Len(stack') # 1
    PROVE  ListsOK'
<1>1. 1 .. made \subseteq States
  BY DeferredNames DEF Typed, States
<1>2. \A d \in 1 .. made : Settled(d)' <=> Settled(d)
  BY <1>1 DEF Settled
<1>3. \A d \in ToSet(oncancel) : d \in States
  <2>1. \A i \in DOMAIN oncancel : oncancel[i] \in States
    BY DEF Typed
  <2> QED BY <2>1 DEF ToSet
<1> QED BY <1>2, <1>3 DEF ListsOK

(* A state that is settled leaves the lists.                                *)
LEMMA ListsSettle ==
    ASSUME ListsOK, Typed, NEW d \in States, NEW how \in {"RESOLVED", "FAILED"},
           status' = [status EXCEPT ![d] = how], shutdown' = RemoveFirst(shutdown, d), made' = made,
           \/ oncancel' = oncancel /\ kind' = kind
           \/ /\ oncancel' = RemoveFirst(oncancel, d)
              /\ \A e \in States : e # d => kind'[e] = kind[e],
           disposed' => Len(stack') # 1
    PROVE  ListsOK' /\ shutdown' \in Seq(States) /\ oncancel' \in Seq(States)
<1>1. /\ shutdown' \in Seq(States) /\ Single(shutdown', States)
      /\ ToSet(shutdown') = ToSet(shutdown) \ {d}
  BY OnceRemove DEF ListsOK, Typed
<1>2. /\ oncancel' \in Seq(States) /\ Single(oncancel', States)
      /\ oncancel' = oncancel \/ ToSet(oncancel') = ToSet(oncancel) \ {d}
  <2>1. oncancel \in Seq(States) /\ Single(oncancel, States)
    BY DEF ListsOK, Typed
  <2>2. /\ RemoveFirst(oncancel, d) \in Seq(States) /\ Single(RemoveFirst(oncancel, d), States)
        /\ ToSet(RemoveFirst(oncancel, d)) = ToSet(oncancel) \ {d}
    BY <2>1, OnceRemove
  <2> QED BY <2>1, <2>2
<1>3. 1 .. made \subseteq States
  BY DeferredNames DEF Typed, States
<1>4. \A e \in 1 .. made : Settled(e)' <=> (Settled(e) \/ e = d)
  BY <1>3 DEF Settled, Typed, Awaitables
<1>5. ToSet(shutdown') = {e \in 1 .. made' : ~Settled(e)'}
  BY <1>1, <1>4 DEF ListsOK
<1>6. \A e \in ToSet(oncancel) : e \in States
  <2>1. \A i \in DOMAIN oncancel : oncancel[i] \in States
    BY DEF Typed
  <2> QED BY <2>1 DEF ToSet
<1>7. \A e \in ToSet(oncancel') : kind'[e] = "plain"
  <2>1. CASE oncancel' = oncancel /\ kind' = kind
    BY <2>1 DEF ListsOK
  <2>2. CASE oncancel' = RemoveFirst(oncancel, d) /\ \A e \in States : e # d => kind'[e] = kind[e]
    <3>1. ToSet(oncancel') = ToSet(oncancel) \ {d}
      BY <2>2, OnceRemove DEF ListsOK, Typed
    <3> QED BY <1>6, <2>2, <3>1 DEF ListsOK
  <2> QED BY <2>1, <2>2
<1> QED BY <1>1, <1>2, <1>5, <1>7 DEF ListsOK

(* A settled state calls back: its loop is on the stack.                    *)
LEMMA CalledSettles ==
    ASSUME Typed, \A x \in Awaitables : Called(x), NEW d \in Awaitables, NEW how,
           status' = [status EXCEPT ![d] = how], ops' = ops, N(Trigger(d))' > 0,
           \A x \in Awaitables : N(Trigger(x)) > 0 => N(Trigger(x))' > 0
    PROVE  \A x \in Awaitables : Called(x)'
<1> SUFFICES ASSUME NEW x \in Awaitables PROVE Called(x)'
  OBVIOUS
<1>1. CASE x = d
  BY <1>1 DEF Called
<1>2. CASE x # d
  <2>1. status'[x] = status[x]
    BY <1>2 DEF Typed
  <2> QED BY <2>1, CalledSame DEF Settled
<1> QED BY <1>1, <1>2

(* The parts of Inv.                                                        *)
LEMMA InvParts ==
    ASSUME Inv
    PROVE  /\ Typed /\ Stacked /\ OpsOK /\ ListsOK
           /\ \A d \in States : KindOK(d) /\ TransformOK(d) /\ CombineOK(d)
           /\ \A t \in Tasks : TaskOK(t)
           /\ \A x \in Awaitables : Called(x)
           /\ Top \in Legal /\ stack # <<>>
           /\ \A f : N(f) \in Nat
           /\ \A d \in States : d \in Awaitables /\ d \notin Tasks
           /\ \A t \in Tasks : t \in Awaitables /\ t \notin States
BY TopFacts, DeferredNames DEF Inv, Awaitables

(* PHP code runs above the loop.                                            *)
LEMMA CodeHolds ==
    ASSUME Inv, Top # Loop, Top # Shut
    PROVE  Held(stack, disposed)
<1>1. stack \in Seq(Legal) /\ disposed \in BOOLEAN /\ Based(stack, disposed)
  BY DEF Inv, Stacked, Typed
<1> QED BY <1>1, StackPop DEF Top

-------------------------------------------------------------------------------
(* A state is settled and nothing else happens: by PHP code, because the    *)
(* last reference goes, or by the disposal.                                 *)
LEMMA KeepsSettled ==
    ASSUME Inv, NEW d \in States, NEW how \in {"RESOLVED", "FAILED"},
           status' = [status EXCEPT ![d] = how], shutdown' = RemoveFirst(shutdown, d),
           stack' = <<Trigger(d)>> \o stack, Held(stack, disposed),
           \/ oncancel' = oncancel /\ kind' = kind
           \/ /\ oncancel' = RemoveFirst(oncancel, d)
              /\ kind' = kind \/ (kind[d] = "plain" /\ kind' = [kind EXCEPT ![d] = "gone"]),
           UNCHANGED <<made, ops, started, counter, inputs, freed, handed, last, cancelled,
                       disposed, waits>>,
           kind[d] # "none", ~Settled(d), kind[d] = "transform" => disposed
    PROVE  Inv'
<1>1. /\ kind' \in [States -> {"none", "plain", "combine", "transform", "gone"}]
      /\ \A e \in States : e # d => kind'[e] = kind[e]
      /\ kind'[d] = kind[d] \/ (kind[d] = "plain" /\ kind'[d] = "gone")
  BY InvParts DEF Typed
<1>2. KindsGrow
  BY <1>1 DEF KindsGrow
<1>3. Trigger(d) \in Legal' /\ Trigger(d) # Loop /\ Trigger(d) # Shut
  BY <1>2, InvParts, FrameTypes, FrameNames, LegalGrows
<1>4. /\ Stacked' /\ Held(stack', disposed') /\ (disposed' => Len(stack') # 1)
      /\ \A f : N(f)' = N(f) + (IF Trigger(d) = f THEN 1 ELSE 0)
  BY <1>2, <1>3, InvParts, Pushes
<1>5. ListsOK' /\ shutdown' \in Seq(States) /\ oncancel' \in Seq(States)
  BY <1>1, <1>4, InvParts, ListsSettle
<1>6. Typed'
  BY <1>1, <1>5, InvParts DEF Typed
<1>7. \A e \in States : Settled(e)' <=> (Settled(e) \/ e = d)
  BY InvParts DEF Settled, Typed
<1>8. Quiet
  <2>1. \A f : f.k \in Marked => N(f)' = N(f)
    BY <1>4, FrameNames, InvParts DEF Marked
  <2>2. \A t \in Tasks : status'[t] = status[t]
    BY InvParts DEF Typed
  <2>3. \A e \in States : kind'[e] = kind[e] \/ (kind[e] \notin Derived /\ kind'[e] \notin Derived)
    BY <1>1 DEF Derived
  <2> QED BY <1>7, <2>1, <2>2, <2>3 DEF Quiet
<1>9. ASSUME NEW e \in States PROVE KindOK(e)'
  <2>1. KindOK(e) /\ e \in Awaitables
    BY InvParts
  <2>2. status'[e] = IF e = d THEN how ELSE status[e]
    BY <2>1, InvParts DEF Typed
  <2> QED BY <1>1, <2>1, <2>2 DEF KindOK
<1>10. \A x \in Awaitables : Called(x)'
  <2>1. N(Trigger(d))' > 0 /\ \A x \in Awaitables : N(Trigger(x)) > 0 => N(Trigger(x))' > 0
    BY <1>4, InvParts
  <2> QED BY <2>1, InvParts, CalledSettles
<1> QED BY <1>4, <1>5, <1>6, <1>8, <1>9, <1>10, QuietKeeps DEF Inv

(* PHP code settles a deferred.                                             *)
LEMMA KeepsSettleDeferred ==
    ASSUME Inv, NEW d \in States, NEW how \in Results, SettleDeferred(d, how)
    PROVE  Inv'
<1>1. /\ InCode /\ MaySettle(d) /\ Open(d) /\ status' = [status EXCEPT ![d] = how]
      /\ oncancel' = RemoveFirst(oncancel, d) /\ shutdown' = RemoveFirst(shutdown, d)
      /\ stack' = <<Trigger(d)>> \o stack
      /\ UNCHANGED <<made, kind, ops, started, counter, inputs, freed, handed, last, cancelled,
                     disposed, waits>>
  BY DEF SettleDeferred, Triggered, combineVars
<1>2. how \in {"RESOLVED", "FAILED"}
  BY DeferredSets
<1>3. Held(stack, disposed)
  BY <1>1, FrameNames, CodeHolds DEF InCode
<1>4. kind[d] # "none" /\ kind[d] # "transform" /\ ~Settled(d)
  BY <1>1, InvParts DEF MaySettle, Open, KindOK
<1> QED BY <1>1, <1>2, <1>3, <1>4, KeepsSettled

(* The last reference to a deferred goes.                                   *)
LEMMA KeepsDropped ==
    ASSUME Inv, NEW d \in States, Dropped(d)
    PROVE  Inv'
<1>1. /\ InCode /\ kind[d] = "plain" /\ Open(d) /\ status' = [status EXCEPT ![d] = "FAILED"]
      /\ kind' = [kind EXCEPT ![d] = "gone"]
      /\ oncancel' = RemoveFirst(oncancel, d) /\ shutdown' = RemoveFirst(shutdown, d)
      /\ stack' = <<Trigger(d)>> \o stack
      /\ UNCHANGED <<made, ops, started, counter, inputs, freed, handed, last, cancelled,
                     disposed, waits>>
  BY DEF Dropped, Triggered, combineVars
<1>2. Held(stack, disposed)
  BY <1>1, FrameNames, CodeHolds DEF InCode
<1>3. kind[d] # "none" /\ kind[d] # "transform" /\ ~Settled(d)
  BY <1>1 DEF Open
<1> QED BY <1>1, <1>2, <1>3, KeepsSettled

(* The disposal pops its frame when it has nothing left to settle.          *)
LEMMA KeepsShutdownState ==
    ASSUME Inv, ShutdownState
    PROVE  Inv'
<1>1. /\ Top = Shut
      /\ UNCHANGED <<made, kind, ops, started, counter, inputs, freed, handed, last, oncancel,
                     cancelled, disposed, waits>>
  BY DEF ShutdownState, combineVars, contextVars
<1>2. stack \in Seq(Legal) /\ disposed \in BOOLEAN /\ Based(stack, disposed)
  BY DEF Inv, Stacked, Typed
<1>3. Rest = <<Loop>> /\ disposed /\ Len(stack) = 2
  BY <1>1, <1>2, StackBase DEF Top, Rest
<1>4. CASE shutdown = <<>>
  <2>1. stack' = Rest /\ UNCHANGED <<status, shutdown>>
    BY <1>4 DEF ShutdownState
  <2>2. KindsGrow /\ Legal' = Legal
    BY <1>1, LegalSame
  <2>3. Stacked'
    <3>1. stack' = <<Loop>> /\ Loop \in Legal
      BY <1>3, <2>1, FrameTypes
    <3>2. <<Loop>> \in Seq(Legal) /\ Len(<<Loop>>) = 1 /\ <<Loop>>[1] = Loop /\ <<Loop>> # <<>>
          /\ DOMAIN <<Loop>> = {1}
      BY <3>1
    <3>3. Based(<<Loop>>, disposed)
      BY <3>2, FrameNames DEF Based
    <3> QED BY <1>1, <2>2, <3>1, <3>2, <3>3 DEF Stacked
  <2>4. \A f : f.k # "shut" => N(f)' = N(f)
    <3>1. \A f : Times(stack, f) = Times(Rest, f) + (IF Shut = f THEN 1 ELSE 0)
      BY <1>1, <1>2, TimesPop DEF Top, Rest, Based
    <3>2. \A f : Times(stack, f) \in Nat /\ Times(Rest, f) \in Nat
      BY <1>2, TimesType, TimesPop DEF Based, Rest
    <3> QED BY <2>1, <3>1, <3>2, FrameNames DEF N
  <2>5. Quiet
    <3>1. \A f : f.k \in Marked => N(f)' = N(f)
      BY <2>4 DEF Marked
    <3> QED BY <1>1, <2>1, <3>1 DEF Quiet, Settled
  <2>6. ListsOK'
    BY <1>1, <1>4, <2>1, InvParts DEF ListsOK, Settled
  <2>7. Typed'
    BY <1>1, <2>1, InvParts DEF Typed
  <2>8. \A d \in States : KindOK(d)'
    BY <1>1, <2>1, InvParts DEF KindOK
  <2>9. ASSUME NEW x \in Awaitables PROVE Called(x)'
    <3>1. N(Trigger(x))' = N(Trigger(x))
      BY <2>4, FrameNames
    <3> QED BY <1>1, <2>1, <3>1, InvParts, CalledSame DEF Settled
  <2> QED BY <2>3, <2>5, <2>6, <2>7, <2>8, <2>9, QuietKeeps DEF Inv
<1>5. CASE shutdown # <<>>
  <2>1. PICK d : d = Head(shutdown)
    OBVIOUS
  <2>2. status' = [status EXCEPT ![d] = "FAILED"] /\ shutdown' = RemoveFirst(shutdown, d)
        /\ stack' = <<Trigger(d)>> \o stack
    BY <1>5, <2>1 DEF ShutdownState, Triggered
  <2>3. d \in States /\ d \in ToSet(shutdown)
    BY <1>5, <2>1, NoElements, InvParts DEF Typed
  <2>4. ~Settled(d) /\ kind[d] # "none"
    <3>1. d \in 1 .. made /\ ~Settled(d)
      BY <2>3, InvParts DEF ListsOK
    <3> QED BY <2>3, <3>1, InvParts DEF KindOK, Typed
  <2>5. Held(stack, disposed)
    BY <1>2, <1>3 DEF Held
  <2> QED BY <1>1, <1>3, <2>2, <2>3, <2>4, <2>5, KeepsSettled
<1> QED BY <1>4, <1>5

-------------------------------------------------------------------------------
(* A new state: no frame and no operation is about it yet.                  *)
LEMMA Unborn ==
    ASSUME Inv, NEW d \in States, kind[d] \notin Derived
    PROVE  /\ N(Call("combine", d)) = 0 /\ N(Settle(d)) = 0 /\ N(Free(d)) = 0
           /\ N(Register(d, 1)) = 0 /\ N(Register(d, 2)) = 0 /\ N(Call("transform", d)) = 0
           /\ \A x \in Awaitables : \A k \in Derived : Op(k, d) \notin ToSet(ops[x])
<1>1. stack \in Seq(Legal)
  BY DEF Inv, Stacked
<1>2. ASSUME NEW f, f \notin Legal PROVE N(f) = 0
  <2>1. \A i \in DOMAIN stack : stack[i] \in Legal
    BY <1>1
  <2>2. Times(stack, f) = 0 <=> \A i \in DOMAIN stack : stack[i] # f
    BY <1>1, TimesType
  <2> QED BY <1>2, <2>1, <2>2 DEF N
<1>3. /\ Call("combine", d) \notin Legal /\ Settle(d) \notin Legal /\ Free(d) \notin Legal
      /\ Register(d, 1) \notin Legal /\ Register(d, 2) \notin Legal /\ Call("transform", d) \notin Legal
  BY LegalFrame, FrameNames DEF Derived
<1>4. \A x \in Awaitables : \A k \in Derived : Op(k, d) \notin ToSet(ops[x])
  BY InvParts, ListedOps DEF Derived
<1> QED BY <1>2, <1>3, <1>4

(* What a new state changes.                                                *)
LEMMA NewFacts ==
    ASSUME Inv, NEW d \in States, NEW k \in {"plain", "combine", "transform"}, New(d, k),
           status' = status
    PROVE  /\ kind[d] = "none" /\ ~Settled(d) /\ d = made + 1 /\ made' = d /\ KindsGrow
           /\ kind' \in [States -> {"none", "plain", "combine", "transform", "gone"}]
           /\ kind'[d] = k /\ \A e \in States : e # d => kind'[e] = kind[e]
           /\ made' \in 0 .. MaxStates /\ shutdown' \in Seq(States) /\ Single(shutdown', States)
           /\ ToSet(shutdown') = {e \in 1 .. made' : ~Settled(e)'}
           /\ d \notin ToSet(oncancel)
<1>1. /\ d = made + 1 /\ made' = d /\ kind' = [kind EXCEPT ![d] = k] /\ shutdown' = Append(shutdown, d)
  BY DEF New, Listed
<1>2. made \in 0 .. MaxStates /\ MaxStates \in Nat
  BY DeferredNames, InvParts DEF Typed
<1>3. kind[d] = "none" /\ status[d] = "PENDING"
  BY <1>1, <1>2, InvParts DEF KindOK, States
<1>4. d \notin ToSet(shutdown) /\ d \notin ToSet(oncancel)
  BY <1>1, <1>2, <1>3, InvParts DEF ListsOK
<1>5. /\ shutdown' \in Seq(States) /\ Single(shutdown', States)
      /\ ToSet(shutdown') = ToSet(shutdown) \cup {d}
  BY <1>1, <1>4, OnceAppend, InvParts DEF ListsOK, Typed
<1>6. \A e : Settled(e)' <=> Settled(e)
  BY DEF Settled
<1>7. ToSet(shutdown') = {e \in 1 .. made' : ~Settled(e)'}
  BY <1>1, <1>2, <1>3, <1>5, <1>6, InvParts DEF ListsOK, Settled
<1>8. /\ kind' \in [States -> {"none", "plain", "combine", "transform", "gone"}]
      /\ kind'[d] = k /\ \A e \in States : e # d => kind'[e] = kind[e]
  BY <1>1, InvParts DEF Typed
<1>9. KindsGrow
  BY <1>3, <1>8 DEF KindsGrow
<1>10. made' \in 0 .. MaxStates
  BY <1>1, <1>2 DEF States
<1> QED BY <1>1, <1>3, <1>4, <1>5, <1>7, <1>8, <1>9, <1>10 DEF Settled

(* A new deferred is made, and its handler may be called at once.           *)
LEMMA KeepsConstruct ==
    ASSUME Inv, NEW d \in States, NEW handler \in BOOLEAN, Construct(d, handler)
    PROVE  Inv'
<1>1. /\ InCode /\ New(d, "plain")
      /\ UNCHANGED <<status, ops, started, counter, inputs, freed, handed, last, cancelled,
                     disposed, waits>>
      /\ \/ stack' = <<Call("cancel", d)>> \o stack /\ oncancel' = oncancel
         \/ stack' = stack /\ oncancel' = oncancel
         \/ stack' = stack /\ oncancel' = Append(oncancel, d)
  BY DEF Construct, combineVars
<1>2. /\ kind[d] = "none" /\ ~Settled(d) /\ d = made + 1 /\ made' = d /\ KindsGrow
      /\ kind' \in [States -> {"none", "plain", "combine", "transform", "gone"}]
      /\ kind'[d] = "plain" /\ \A e \in States : e # d => kind'[e] = kind[e]
      /\ made' \in 0 .. MaxStates /\ shutdown' \in Seq(States) /\ Single(shutdown', States)
      /\ ToSet(shutdown') = {e \in 1 .. made' : ~Settled(e)'}
      /\ d \notin ToSet(oncancel)
  BY <1>1, NewFacts
<1>3. Held(stack, disposed)
  BY <1>1, FrameNames, CodeHolds DEF InCode
<1>4. /\ Stacked' /\ (disposed' => Len(stack') # 1)
      /\ \A f : f.k # "cancel" => N(f)' = N(f)
  <2>1. CASE stack' = <<Call("cancel", d)>> \o stack
    <3>1. Call("cancel", d) \in Legal' /\ Call("cancel", d) # Loop /\ Call("cancel", d) # Shut
      <4>1. FrameOK(Call("cancel", d))'
        BY <1>2 DEF FrameOK
      <4>2. Call("cancel", d) \in Frames /\ Frames' = Frames
        BY DEF Frames, Call, Frame, Awaitables
      <4> QED BY <4>1, <4>2, FrameNames DEF Legal
    <3>2. /\ Stacked' /\ (disposed' => Len(stack') # 1)
          /\ \A f : N(f)' = N(f) + (IF Call("cancel", d) = f THEN 1 ELSE 0)
      BY <1>1, <1>2, <1>3, <2>1, <3>1, InvParts, Pushes
    <3> QED BY <3>2, FrameNames, InvParts
  <2>2. CASE stack' = stack
    <3>1. stack \in Seq(Legal) /\ Seq(Legal) \subseteq Seq(Legal') /\ disposed \in BOOLEAN
      BY <1>2, LegalGrows, SeqMonotonic, InvParts DEF Stacked, Typed
    <3>2. disposed => Len(stack) # 1
      BY <1>3, <3>1, HeldIsLong
    <3> QED BY <1>1, <2>2, <3>1, <3>2, InvParts DEF Stacked, N
  <2> QED BY <1>1, <2>1, <2>2
<1>5. /\ oncancel' \in Seq(States) /\ Single(oncancel', States)
      /\ \A e \in ToSet(oncancel') : kind'[e] = "plain"
  <2>1. /\ oncancel \in Seq(States) /\ Single(oncancel, States)
        /\ \A e \in ToSet(oncancel) : kind[e] = "plain" /\ e \in States
    <3>1. \A i \in DOMAIN oncancel : oncancel[i] \in States
      BY InvParts DEF Typed
    <3> QED BY <3>1, InvParts DEF Typed, ListsOK, ToSet
  <2>2. \A e \in ToSet(oncancel) : kind'[e] = "plain"
    BY <1>2, <2>1
  <2>3. CASE oncancel' = oncancel
    BY <2>1, <2>2, <2>3
  <2>4. CASE oncancel' = Append(oncancel, d)
    <3>1. /\ oncancel' \in Seq(States) /\ Single(oncancel', States)
          /\ ToSet(oncancel') = ToSet(oncancel) \cup {d}
      BY <1>2, <2>1, <2>4, OnceAppend
    <3> QED BY <1>2, <2>2, <3>1
  <2> QED BY <1>1, <2>3, <2>4
<1>6. ListsOK'
  BY <1>2, <1>4, <1>5 DEF ListsOK
<1>7. Typed'
  BY <1>1, <1>2, <1>5, InvParts DEF Typed
<1>8. Quiet
  <2>1. \A f : f.k \in Marked => N(f)' = N(f)
    BY <1>4 DEF Marked
  <2>2. \A e \in States : kind'[e] = kind[e] \/ (kind[e] \notin Derived /\ kind'[e] \notin Derived)
    BY <1>2 DEF Derived
  <2> QED BY <1>1, <2>1, <2>2 DEF Quiet, Settled
<1>9. ASSUME NEW e \in States PROVE KindOK(e)'
  <2>1. KindOK(e) /\ made \in Nat
    BY InvParts, DeferredNames DEF Typed
  <2> QED BY <1>1, <1>2, <2>1 DEF KindOK, States
<1>10. ASSUME NEW x \in Awaitables PROVE Called(x)'
  <2>1. N(Trigger(x))' = N(Trigger(x))
    BY <1>4, FrameNames
  <2> QED BY <1>1, <2>1, InvParts, CalledSame DEF Settled
<1> QED BY <1>4, <1>6, <1>7, <1>8, <1>9, <1>10, QuietKeeps DEF Inv

-------------------------------------------------------------------------------
(* Steps that change the stack, the handlers and flags alone.               *)
LEMMA KeepsCalm ==
    ASSUME Inv, Stacked', disposed' => Len(stack') # 1,
           \A f : f.k \in Marked => N(f)' = N(f),
           \A x \in Awaitables : N(Trigger(x)) > 0 /\ ops[x] # <<>> => N(Trigger(x))' > 0,
           UNCHANGED <<made, kind, status, ops, started, counter, inputs, freed, handed, last,
                       shutdown, waits>>,
           cancelled' \in BOOLEAN, disposed' \in BOOLEAN, disposed => disposed',
           oncancel' = oncancel \/ (oncancel # <<>> /\ oncancel' = Tail(oncancel))
    PROVE  Inv'
<1>1. /\ oncancel' \in Seq(States) /\ Single(oncancel', States)
      /\ \A e \in ToSet(oncancel') : kind'[e] = "plain"
  <2>1. /\ oncancel \in Seq(States) /\ Single(oncancel, States)
        /\ \A e \in ToSet(oncancel) : kind'[e] = "plain"
    BY InvParts DEF Typed, ListsOK
  <2>2. CASE oncancel' = oncancel
    BY <2>1, <2>2
  <2>3. CASE oncancel # <<>> /\ oncancel' = Tail(oncancel)
    <3>1. /\ Tail(oncancel) \in Seq(States) /\ Single(Tail(oncancel), States)
          /\ ToSet(Tail(oncancel)) = ToSet(oncancel) \ {Head(oncancel)}
      BY <2>1, <2>3, OnceTail
    <3> QED BY <2>1, <2>3, <3>1
  <2> QED BY <2>2, <2>3
<1>2. ListsOK'
  BY <1>1, InvParts DEF ListsOK, Settled
<1>3. Typed'
  BY <1>1, InvParts DEF Typed
<1>4. Quiet
  BY DEF Quiet, Settled
<1>5. \A e \in States : KindOK(e)'
  BY InvParts DEF KindOK
<1>6. \A x \in Awaitables : Called(x)'
  BY InvParts DEF Called, Settled
<1> QED BY <1>2, <1>3, <1>4, <1>5, <1>6, QuietKeeps DEF Inv

(* The context is cancelled.                                                *)
LEMMA KeepsCancel ==
    ASSUME Inv, Cancel
    PROVE  Inv'
<1>1. /\ (InLoop /\ ~disposed) \/ InCode
      /\ cancelled' = TRUE /\ stack' = <<Cancelling>> \o stack
      /\ UNCHANGED <<made, kind, status, ops, started, counter, inputs, freed, handed, last, oncancel,
                     shutdown, disposed, waits>>
  BY DEF Cancel, combineVars
<1>2. KindsGrow /\ Legal' = Legal
  BY <1>1, LegalSame
<1>3. Held(stack, disposed)
  <2>1. CASE InCode
    BY <2>1, FrameNames, CodeHolds DEF InCode
  <2>2. CASE ~disposed
    BY <2>2, InvParts DEF Held, Stacked
  <2> QED BY <1>1, <2>1, <2>2
<1>4. Cancelling \in Legal /\ Cancelling # Loop /\ Cancelling # Shut
  BY FrameTypes, FrameNames
<1>5. /\ Stacked' /\ (disposed' => Len(stack') # 1)
      /\ \A f : N(f)' = N(f) + (IF Cancelling = f THEN 1 ELSE 0)
  BY <1>1, <1>2, <1>3, <1>4, InvParts, Pushes
<1>6. \A f : f.k # "cancelling" => N(f)' = N(f)
  BY <1>5, FrameNames, InvParts
<1>7. /\ \A f : f.k \in Marked => N(f)' = N(f)
      /\ \A x \in Awaitables : N(Trigger(x))' = N(Trigger(x))
      /\ cancelled \in BOOLEAN /\ disposed \in BOOLEAN
  BY <1>6, FrameNames, InvParts DEF Marked, Typed
<1> QED BY <1>1, <1>5, <1>7, KeepsCalm

(* The next cancel handler is called.                                       *)
LEMMA KeepsCancelDefer ==
    ASSUME Inv, CancelDefer
    PROVE  Inv'
<1>1. /\ Top = Cancelling
      /\ UNCHANGED <<made, kind, status, ops, started, counter, inputs, freed, handed, last,
                     cancelled, shutdown, disposed, waits>>
      /\ \/ stack' = Rest /\ oncancel' = oncancel
         \/ /\ oncancel # <<>> /\ oncancel' = Tail(oncancel)
            /\ stack' = <<Call("cancel", Head(oncancel))>> \o stack
  BY DEF CancelDefer, combineVars
<1>2. KindsGrow /\ Legal' = Legal
  BY <1>1, LegalSame
<1>3. Top # Loop /\ Top # Shut
  BY <1>1, FrameNames
<1>4. CASE stack' = Rest /\ oncancel' = oncancel
  <2>1. /\ Stacked' /\ (disposed' => Len(stack') # 1)
        /\ \A f : N(f)' = N(f) - (IF Top = f THEN 1 ELSE 0)
    BY <1>1, <1>2, <1>3, <1>4, InvParts, Pops
  <2>2. \A f : f.k # "cancelling" => N(f)' = N(f)
    BY <1>1, <2>1, FrameNames, InvParts
  <2>3. /\ \A f : f.k \in Marked => N(f)' = N(f)
        /\ \A x \in Awaitables : N(Trigger(x))' = N(Trigger(x))
        /\ cancelled \in BOOLEAN /\ disposed \in BOOLEAN
    BY <2>2, FrameNames, InvParts DEF Marked, Typed
  <2> QED BY <1>1, <1>4, <2>1, <2>3, KeepsCalm
<1>5. CASE /\ oncancel # <<>> /\ oncancel' = Tail(oncancel)
           /\ stack' = <<Call("cancel", Head(oncancel))>> \o stack
  <2>1. PICK d : d = Head(oncancel)
    OBVIOUS
  <2>2. d \in States /\ kind[d] = "plain"
    <3>1. oncancel \in Seq(States)
      BY InvParts DEF Typed
    <3>2. Head(oncancel) \in States /\ Head(oncancel) \in ToSet(oncancel)
      BY <1>5, <3>1, NoElements
    <3> QED BY <2>1, <3>2, InvParts DEF ListsOK
  <2>3. Call("cancel", d) \in Legal /\ Call("cancel", d) # Loop /\ Call("cancel", d) # Shut
    BY <2>2, FrameTypes, FrameNames
  <2>4. stack' = <<Call("cancel", d)>> \o stack
    BY <1>5, <2>1
  <2>5. /\ Stacked' /\ (disposed' => Len(stack') # 1)
        /\ \A f : N(f)' = N(f) + (IF Call("cancel", d) = f THEN 1 ELSE 0)
    BY <1>1, <1>2, <1>3, <2>3, <2>4, InvParts, Pushes, CodeHolds
  <2>6. \A f : f.k # "cancel" => N(f)' = N(f)
    BY <2>5, FrameNames, InvParts
  <2>7. /\ \A f : f.k \in Marked => N(f)' = N(f)
        /\ \A x \in Awaitables : N(Trigger(x))' = N(Trigger(x))
        /\ cancelled \in BOOLEAN /\ disposed \in BOOLEAN
    BY <2>6, FrameNames, InvParts DEF Marked, Typed
  <2> QED BY <1>1, <1>5, <2>5, <2>7, KeepsCalm
<1> QED BY <1>1, <1>4, <1>5

(* A cancel handler returns.                                                *)
LEMMA KeepsCancelReturns ==
    ASSUME Inv, CancelReturns
    PROVE  Inv'
<1>1. /\ Top.k = "cancel" /\ stack' = Rest
      /\ UNCHANGED <<made, kind, status, ops, started, counter, inputs, freed, handed, last, oncancel,
                     cancelled, shutdown, disposed, waits>>
  BY DEF CancelReturns, combineVars, contextVars
<1>2. KindsGrow /\ Legal' = Legal
  BY <1>1, LegalSame
<1>3. Top # Loop /\ Top # Shut
  BY <1>1, FrameNames
<1>4. /\ Stacked' /\ (disposed' => Len(stack') # 1)
      /\ \A f : N(f)' = N(f) - (IF Top = f THEN 1 ELSE 0)
  BY <1>1, <1>2, <1>3, InvParts, Pops
<1>5. \A f : f.k # "cancel" => N(f)' = N(f)
  BY <1>1, <1>4, FrameNames, InvParts
<1>6. /\ \A f : f.k \in Marked => N(f)' = N(f)
      /\ \A x \in Awaitables : N(Trigger(x))' = N(Trigger(x))
      /\ cancelled \in BOOLEAN /\ disposed \in BOOLEAN
  BY <1>5, FrameNames, InvParts DEF Marked, Typed
<1> QED BY <1>1, <1>4, <1>6, KeepsCalm

(* The loop is alone on the stack when the disposal begins.                 *)
LEMMA KeepsDispose ==
    ASSUME Inv, Dispose
    PROVE  Inv'
<1>1. /\ InLoop /\ ~disposed /\ disposed' = TRUE /\ stack' = <<Shut>> \o stack
      /\ UNCHANGED <<made, kind, status, ops, started, counter, inputs, freed, handed, last, oncancel,
                     cancelled, shutdown, waits>>
  BY DEF Dispose, combineVars, contextVars
<1>2. stack \in Seq(Legal) /\ disposed \in BOOLEAN /\ Based(stack, disposed)
  BY InvParts DEF Stacked, Typed
<1>3. stack = <<Loop>>
  BY <1>1, <1>2, StackBase DEF InLoop, Top
<1>4. Legal' = Legal /\ Shut \in Legal /\ Loop \in Legal
  BY <1>1, LegalSame, FrameTypes
<1>5. stack' = <<Shut, Loop>>
  <2>1. <<Shut>> \o <<Loop>> = <<Shut, Loop>>
    BY <1>4, PairIsConcat, Zenon
  <2> QED BY <1>1, <1>3, <2>1, Zenon
<1>6. /\ <<Shut, Loop>> \in Seq(Legal) /\ DOMAIN <<Shut, Loop>> = {1, 2} /\ Len(<<Shut, Loop>>) = 2
      /\ <<Shut, Loop>>[1] = Shut /\ <<Shut, Loop>>[2] = Loop /\ <<Shut, Loop>> # <<>>
  BY <1>4
<1>7. Stacked' /\ (disposed' => Len(stack') # 1)
  <2>1. Based(<<Shut, Loop>>, TRUE)
    BY <1>6, FrameNames DEF Based
  <2>2. Len(stack') # 1
    BY <1>5
  <2>3. stack' \in Seq(Legal') /\ Based(stack', disposed')
    BY <1>1, <1>4, <1>5, <1>6, <2>1
  <2> QED BY <2>2, <2>3 DEF Stacked
<1>8. \A f : f.k # "shut" => N(f)' = N(f)
  <2>1. \A f : Times(<<Shut>> \o stack, f) = Times(stack, f) + (IF Shut = f THEN 1 ELSE 0)
    BY <1>2, <1>4, TimesPush
  <2>2. \A f : N(f)' = N(f) + (IF Shut = f THEN 1 ELSE 0)
    BY <1>1, <2>1 DEF N
  <2> QED BY <2>2, FrameNames, InvParts
<1>9. /\ \A f : f.k \in Marked => N(f)' = N(f)
      /\ \A x \in Awaitables : N(Trigger(x))' = N(Trigger(x))
      /\ cancelled \in BOOLEAN /\ disposed \in BOOLEAN
  BY <1>8, FrameNames, InvParts DEF Marked, Typed
<1> QED BY <1>1, <1>7, <1>9, KeepsCalm

-------------------------------------------------------------------------------
(* Steps that take an operation from a list, or add one to it.              *)
Kept == \A d \in States : kind[d] \in Derived => kind'[d] = kind[d] /\ inputs'[d] = inputs[d]

(* An operation is taken from the front.                                    *)
LEMMA OpsTail ==
    ASSUME OpsOK, Typed, Kept, NEW x \in Awaitables, ops[x] # <<>>,
           ops' = [ops EXCEPT ![x] = Tail(@)]
    PROVE  /\ OpsOK' /\ ops' \in [Awaitables -> Seq(Ops)]
           /\ \A y \in Awaitables : \A o :
                o \in ToSet(ops'[y]) <=> o \in ToSet(ops[y]) /\ ~(y = x /\ o = Head(ops[x]))
           /\ \A y \in Awaitables : y # x => ops'[y] = ops[y]
<1>1. ops \in [Awaitables -> Seq(Ops)]
  BY DEF Typed
<1>2. /\ Tail(ops[x]) \in Seq(Ops) /\ Single(Tail(ops[x]), Ops)
      /\ ToSet(Tail(ops[x])) = ToSet(ops[x]) \ {Head(ops[x])}
  BY <1>1, OnceTail DEF OpsOK
<1>3. ops'[x] = Tail(ops[x]) /\ \A y \in Awaitables : y # x => ops'[y] = ops[y]
  BY <1>1
<1>4. ops' \in [Awaitables -> Seq(Ops)]
  BY <1>1, <1>2
<1>5. ASSUME NEW y \in Awaitables
      PROVE  /\ Single(ops'[y], Ops)
             /\ \A o : o \in ToSet(ops'[y]) <=> o \in ToSet(ops[y]) /\ ~(y = x /\ o = Head(ops[x]))
  <2>1. CASE y = x
    <3>1. ToSet(ops'[y]) = ToSet(ops[x]) \ {Head(ops[x])} /\ Single(ops'[y], Ops)
      BY <1>2, <1>3, <2>1
    <3> QED BY <2>1, <3>1
  <2>2. CASE y # x
    BY <1>3, <2>2 DEF OpsOK
  <2> QED BY <2>1, <2>2
<1>6. ASSUME NEW y \in Awaitables, NEW o \in ToSet(ops'[y]) PROVE OpOK(y, o)'
  <2>1. OpOK(y, o)
    BY <1>5 DEF OpsOK
  <2> QED BY <2>1 DEF OpOK, Kept, Derived
<1>7. OpsOK'
  BY <1>5, <1>6 DEF OpsOK, Ops
<1> QED BY <1>3, <1>4, <1>5, <1>7

(* An operation is added at the end.                                        *)
LEMMA OpsAppend ==
    ASSUME OpsOK, Typed, Kept, NEW x \in Awaitables, NEW o \in Ops, o \notin ToSet(ops[x]),
           OpOK(x, o)', ops' = [ops EXCEPT ![x] = Append(@, o)]
    PROVE  /\ OpsOK' /\ ops' \in [Awaitables -> Seq(Ops)]
           /\ \A y \in Awaitables : \A p :
                p \in ToSet(ops'[y]) <=> p \in ToSet(ops[y]) \/ (y = x /\ p = o)
           /\ \A y \in Awaitables : y # x => ops'[y] = ops[y]
<1>1. ops \in [Awaitables -> Seq(Ops)]
  BY DEF Typed
<1>2. /\ Append(ops[x], o) \in Seq(Ops) /\ Single(Append(ops[x], o), Ops)
      /\ ToSet(Append(ops[x], o)) = ToSet(ops[x]) \cup {o}
  BY <1>1, OnceAppend DEF OpsOK
<1>3. ops'[x] = Append(ops[x], o) /\ \A y \in Awaitables : y # x => ops'[y] = ops[y]
  BY <1>1
<1>4. ops' \in [Awaitables -> Seq(Ops)]
  BY <1>1, <1>2
<1>5. ASSUME NEW y \in Awaitables
      PROVE  /\ Single(ops'[y], Ops)
             /\ \A p : p \in ToSet(ops'[y]) <=> p \in ToSet(ops[y]) \/ (y = x /\ p = o)
  <2>1. CASE y = x
    <3>1. ToSet(ops'[y]) = ToSet(ops[x]) \cup {o} /\ Single(ops'[y], Ops)
      BY <1>2, <1>3, <2>1
    <3> QED BY <2>1, <3>1
  <2>2. CASE y # x
    BY <1>3, <2>2 DEF OpsOK
  <2> QED BY <2>1, <2>2
<1>6. ASSUME NEW y \in Awaitables, NEW p \in ToSet(ops'[y]) PROVE OpOK(y, p)'
  <2>1. CASE p \in ToSet(ops[y])
    <3>1. OpOK(y, p)
      BY <2>1 DEF OpsOK
    <3> QED BY <3>1 DEF OpOK, Kept, Derived
  <2>2. CASE y = x /\ p = o
    BY <2>2
  <2> QED BY <1>5, <2>1, <2>2
<1>7. OpsOK'
  BY <1>5, <1>6 DEF OpsOK, Ops
<1> QED BY <1>3, <1>4, <1>5, <1>7

(* What a state is stays so while calls go on.                              *)
LEMMA KindSame ==
    ASSUME NEW d \in States, KindOK(d), made' = made, kind'[d] = kind[d], inputs'[d] = inputs[d],
           status'[d] = status[d] \/ (kind[d] # "none" /\ status'[d] # "RUNNING"),
           kind[d] # "combine" =>
               /\ started'[d] = started[d] /\ counter'[d] = counter[d] /\ last'[d] = last[d]
               /\ (d \in freed' <=> d \in freed) /\ (d \in handed' <=> d \in handed)
    PROVE  KindOK(d)'
BY DEF KindOK

(* A step is about one task or state z: nothing changes for the others.     *)
About(z) ==
    /\ \A f : f.k \in Marked /\ f.x # z => N(f)' = N(f)
    /\ \A y \in Awaitables : \A k, e :
           e # z => (Op(k, e) \in ToSet(ops'[y]) <=> Op(k, e) \in ToSet(ops[y]))
    /\ \A e \in Awaitables : e # z => status'[e] = status[e]
    /\ \A d \in States : d # z =>
         /\ kind'[d] = kind[d] /\ inputs'[d] = inputs[d]
         /\ started'[d] = started[d] /\ counter'[d] = counter[d] /\ last'[d] = last[d]
         /\ (d \in freed' <=> d \in freed) /\ (d \in handed' <=> d \in handed)
    /\ disposed' = disposed

(* So what is true of the others stays true.                                *)
LEMMA OthersKeep ==
    ASSUME Inv, NEW z, About(z)
    PROVE  /\ \A t \in Tasks : t # z => TaskOK(t)'
           /\ \A d \in States : d # z => TransformOK(d)' /\ CombineOK(d)'
           /\ \A d \in States : d # z /\ made' = made => KindOK(d)'
<1>1. ASSUME NEW t \in Tasks, t # z PROVE TaskOK(t)'
  <2>1. N(Code(t))' = N(Code(t)) /\ status'[t] = status[t]
    BY <1>1, FrameNames, InvParts DEF About, Marked
  <2>2. \A x \in Awaitables : Waiting(t, x)' <=> Waiting(t, x)
    BY <1>1 DEF About, Waiting
  <2> QED BY <2>1, <2>2, TaskSame, InvParts
<1>2. ASSUME NEW d \in States, d # z PROVE TransformOK(d)' /\ CombineOK(d)'
  <2>1. /\ N(Call("transform", d))' = N(Call("transform", d))
        /\ N(Register(d, 1))' = N(Register(d, 1)) /\ N(Register(d, 2))' = N(Register(d, 2))
        /\ N(Call("combine", d))' = N(Call("combine", d)) /\ N(Settle(d))' = N(Settle(d))
        /\ N(Free(d))' = N(Free(d))
    BY <1>2, FrameNames DEF About, Marked
  <2>2. /\ kind'[d] = kind[d] /\ inputs'[d] = inputs[d] /\ started'[d] = started[d]
        /\ counter'[d] = counter[d] /\ last'[d] = last[d] /\ status'[d] = status[d]
        /\ (d \in freed' <=> d \in freed) /\ disposed' = disposed
    BY <1>2, InvParts DEF About
  <2>3. /\ kind[d] = "combine" => inputs[d][1] \in Awaitables /\ inputs[d][2] \in Awaitables
        /\ kind[d] = "transform" => inputs[d][1] \in Awaitables
    BY InvParts, InputsOf
  <2>4. kind[d] = "combine" => (Queued(d, 1)' <=> Queued(d, 1)) /\ (Queued(d, 2)' <=> Queued(d, 2))
    BY <1>2, <2>2, <2>3 DEF About, Queued
  <2>5. kind[d] = "transform" => (Transforming(d)' <=> Transforming(d))
    BY <1>2, <2>2, <2>3 DEF About, Transforming
  <2>6. TransformOK(d)'
    BY <2>1, <2>2, <2>5, InvParts, TransformSame DEF Settled
  <2>7. CombineOK(d)'
    BY <2>1, <2>2, <2>4, InvParts, CombineSame DEF Settled
  <2> QED BY <2>6, <2>7
<1>3. ASSUME NEW d \in States, d # z, made' = made PROVE KindOK(d)'
  BY <1>3, InvParts, KindSame DEF About
<1> QED BY <1>1, <1>2, <1>3

(* What is not about tasks or about states stays with them.                 *)
LEMMA NotOfKind ==
    ASSUME NEW d \in States
    PROVE  /\ kind[d] # "combine" => CombineOK(d)
           /\ kind[d] # "transform" => TransformOK(d)
BY DEF CombineOK, TransformOK

-------------------------------------------------------------------------------
(* The loop of trigger_ops takes an operation and calls back: frame g.      *)
LEMMA CallsBack ==
    ASSUME Inv, NEW x \in Awaitables, Top = Trigger(x), ops[x] # <<>>,
           ops' = [ops EXCEPT ![x] = Tail(@)],
           NEW g, g \in Legal, g.k \in {"code", "combine", "transform"}, stack' = <<g>> \o stack,
           UNCHANGED <<made, kind, status, counter, inputs, freed, oncancel, cancelled, shutdown,
                       disposed>>,
           waits' \subseteq Tasks, started' \in [States -> Int], last' \in [States -> Nat],
           handed' \subseteq States
    PROVE  /\ Typed' /\ Stacked' /\ OpsOK' /\ ListsOK' /\ \A y \in Awaitables : Called(y)'
           /\ \A f : N(f)' = N(f) + (IF g = f THEN 1 ELSE 0)
           /\ \A y \in Awaitables : \A o :
                o \in ToSet(ops'[y]) <=> o \in ToSet(ops[y]) /\ ~(y = x /\ o = Head(ops[x]))
<1>1. KindsGrow /\ Legal' = Legal /\ Kept
  BY LegalSame DEF Kept
<1>2. g # Loop /\ g # Shut /\ Top # Loop /\ Top # Shut /\ \A y : g # Trigger(y)
  BY FrameNames
<1>3. Held(stack, disposed)
  BY <1>2, CodeHolds
<1>4. /\ Stacked' /\ (disposed' => Len(stack') # 1)
      /\ \A f : N(f)' = N(f) + (IF g = f THEN 1 ELSE 0)
  BY <1>1, <1>2, <1>3, InvParts, Pushes
<1>5. /\ OpsOK' /\ ops' \in [Awaitables -> Seq(Ops)]
      /\ \A y \in Awaitables : \A o :
           o \in ToSet(ops'[y]) <=> o \in ToSet(ops[y]) /\ ~(y = x /\ o = Head(ops[x]))
      /\ \A y \in Awaitables : y # x => ops'[y] = ops[y]
  BY <1>1, InvParts, OpsTail
<1>6. Typed'
  BY <1>5, InvParts DEF Typed
<1>7. ListsOK'
  BY <1>1, <1>4, InvParts, ListsSame
<1>8. \A y : N(Trigger(y))' = N(Trigger(y))
  BY <1>2, <1>4, InvParts
<1>9. N(Trigger(x)) > 0
  BY InvParts, TopCounted
<1>10. ASSUME NEW y \in Awaitables PROVE Called(y)'
  <2>1. CASE y = x
    BY <1>8, <1>9, <2>1 DEF Called
  <2>2. CASE y # x
    BY <1>5, <1>8, <2>2, InvParts, CalledSame DEF Settled
  <2> QED BY <2>1, <2>2
<1> QED BY <1>4, <1>5, <1>6, <1>7, <1>10

(* A waiting task goes on.                                                  *)
LEMMA KeepsResume ==
    ASSUME Inv, NEW x \in Awaitables, Top = Trigger(x), ops[x] # <<>>,
           NEW t, Head(ops[x]) = Op("wait", t),
           ops' = [ops EXCEPT ![x] = Tail(@)], stack' = <<Code(t)>> \o stack,
           waits' = waits \ {t},
           UNCHANGED <<made, kind, status, started, counter, inputs, freed, handed, last, oncancel,
                       cancelled, shutdown, disposed>>
    PROVE  Inv'
<1>1. t \in Tasks /\ Op("wait", t) \in ToSet(ops[x])
  BY InvParts, ListedOps DEF Derived
<1>2. Code(t) \in Legal /\ Code(t).k = "code" /\ Code(t).x = t
  BY <1>1, FrameTypes, FrameNames
<1>3. /\ Typed' /\ Stacked' /\ OpsOK' /\ ListsOK' /\ \A y \in Awaitables : Called(y)'
      /\ \A f : N(f)' = N(f) + (IF Code(t) = f THEN 1 ELSE 0)
      /\ \A y \in Awaitables : \A o :
           o \in ToSet(ops'[y]) <=> o \in ToSet(ops[y]) /\ ~(y = x /\ o = Head(ops[x]))
  <2>1. /\ waits' \subseteq Tasks /\ started' \in [States -> Int] /\ last' \in [States -> Nat]
        /\ handed' \subseteq States
    BY InvParts DEF Typed
  <2>2. \E g : g = Code(t)
    OBVIOUS
  <2> QED BY <1>2, <2>1, <2>2, CallsBack
<1>4. About(t)
  <2>1. \A f : f.k \in Marked /\ f.x # t => N(f)' = N(f)
    BY <1>2, <1>3, InvParts
  <2>2. \A y \in Awaitables : \A k, e :
           e # t => (Op(k, e) \in ToSet(ops'[y]) <=> Op(k, e) \in ToSet(ops[y]))
    BY <1>3, OpNames
  <2> QED BY <2>1, <2>2 DEF About
<1>5. TaskOK(t)'
  <2>1. Waiting(t, x)
    BY <1>1 DEF Waiting
  <2>2. status[t] = "RUNNING" /\ N(Code(t)) = 0 /\ \A y \in Awaitables : Waiting(t, y) => y = x
    BY <1>1, <2>1, InvParts DEF TaskOK
  <2>3. N(Code(t))' = 1
    BY <1>3, <2>2
  <2>4. \A y \in Awaitables : ~Waiting(t, y)'
    BY <1>3, <2>2 DEF Waiting
  <2> QED BY <2>2, <2>3, <2>4 DEF TaskOK
<1>6. /\ \A e \in Tasks : e # t => TaskOK(e)'
      /\ \A d \in States : TransformOK(d)' /\ CombineOK(d)' /\ KindOK(d)'
  BY <1>1, <1>4, OthersKeep, InvParts
<1> QED BY <1>3, <1>5, <1>6 DEF Inv

(* One more call of the callback of a combination, one input less to come.  *)
LEMMA CombineCalls ==
    ASSUME Inv, NEW d \in States, kind[d] = "combine", kind'[d] = kind[d],
           started'[d] = started[d] - 1, counter'[d] = counter[d],
           last'[d] = IF started[d] = 1 THEN last[d] + 1 ELSE last[d],
           d \in freed' <=> d \in freed,
           N(Call("combine", d))' = N(Call("combine", d)) + 1,
           N(Settle(d))' = N(Settle(d)), N(Free(d))' = N(Free(d)),
           Todo1(d)' + Todo2(d)' = Todo1(d) + Todo2(d) - 1,
           N(Register(d, 1))' + N(Register(d, 2))' <= 1,
           N(Register(d, 1))' = 1 => ~Queued(d, 1)' /\ ~Queued(d, 2)',
           N(Register(d, 2))' = 1 => ~Queued(d, 2)'
    PROVE  CombineOK(d)'
<1>1. CombineOK(d) /\ \A f : N(f) \in Nat
  BY InvParts
<1>2. started[d] \in Int /\ last[d] \in Nat /\ counter[d] \in Int
  BY InvParts DEF Typed
<1>3. Todo1(d) \in {0, 1} /\ Todo2(d) \in {0, 1} /\ Todo1(d)' \in {0, 1} /\ Todo2(d)' \in {0, 1}
  BY DEF Todo1, Todo2
<1>4. started[d] = Todo1(d) + Todo2(d)
  BY <1>1 DEF CombineOK
<1>5. started[d] \in {1, 2} /\ started'[d] = Todo1(d)' + Todo2(d)'
  BY <1>3, <1>4
<1>6. counter[d] = started[d] + N(Call("combine", d)) + N(Settle(d)) /\ counter[d] \in 0 .. 2
  BY <1>1 DEF CombineOK
<1>7. N(Call("combine", d)) \in Nat /\ N(Settle(d)) \in Nat
  BY <1>1
<1>8. /\ counter'[d] = started'[d] + N(Call("combine", d))' + N(Settle(d))'
      /\ counter'[d] \in 1 .. 2
  BY <1>5, <1>6, <1>7
<1>9. last'[d] = IF started'[d] = 0 THEN 1 ELSE 0
  <2>1. last[d] = 0
    BY <1>1, <1>5 DEF CombineOK
  <2> QED BY <1>5, <2>1
<1>10. N(Free(d))' <= 1 /\ N(Free(d))' # 1 /\ d \notin freed'
  <2>1. counter[d] # 0
    BY <1>8
  <2>2. N(Free(d)) <= 1 /\ N(Free(d)) # 1 /\ d \notin freed
    BY <1>1, <2>1 DEF CombineOK
  <2> QED BY <2>2
<1> QED BY <1>5, <1>8, <1>9, <1>10 DEF CombineOK

(* The callback of a combination is called for one more input.              *)
LEMMA KeepsCallCombine ==
    ASSUME Inv, NEW x \in Awaitables, Top = Trigger(x), ops[x] # <<>>,
           NEW d, Head(ops[x]) = Op("combine", d),
           ops' = [ops EXCEPT ![x] = Tail(@)], stack' = <<Call("combine", d)>> \o stack,
           started' = [started EXCEPT ![d] = @ - 1],
           last' = [last EXCEPT ![d] = IF started[d] = 1 THEN @ + 1 ELSE @],
           handed' = handed \cup {d},
           UNCHANGED <<made, kind, status, counter, inputs, freed, oncancel, cancelled, shutdown,
                       disposed, waits>>
    PROVE  Inv'
<1>1. /\ d \in States /\ kind[d] = "combine" /\ Op("combine", d) \in ToSet(ops[x])
      /\ x \in ToSet(inputs[d])
  BY InvParts, ListedOps DEF Derived
<1>2. /\ Call("combine", d) \in Legal /\ Call("combine", d).k = "combine"
      /\ Call("combine", d).x = d
  BY <1>1, FrameTypes, FrameNames
<1>3. /\ Typed' /\ Stacked' /\ OpsOK' /\ ListsOK' /\ \A y \in Awaitables : Called(y)'
      /\ \A f : N(f)' = N(f) + (IF Call("combine", d) = f THEN 1 ELSE 0)
      /\ \A y \in Awaitables : \A o :
           o \in ToSet(ops'[y]) <=> o \in ToSet(ops[y]) /\ ~(y = x /\ o = Head(ops[x]))
  <2>1. /\ waits' \subseteq Tasks /\ started' \in [States -> Int] /\ last' \in [States -> Nat]
        /\ handed' \subseteq States
    <3>1. /\ started \in [States -> Int] /\ last \in [States -> Nat] /\ handed \subseteq States
          /\ waits \subseteq Tasks
      BY InvParts DEF Typed
    <3>2. started[d] - 1 \in Int
      BY <1>1, <3>1
    <3>3. started' \in [States -> Int]
      BY <3>1, <3>2
    <3>4. last[d] + 1 \in Nat
      BY <1>1, <3>1
    <3>5. last' \in [States -> Nat]
      BY <3>1, <3>4
    <3> QED BY <1>1, <3>1, <3>3, <3>5
  <2>2. \E g : g = Call("combine", d)
    OBVIOUS
  <2> QED BY <1>2, <2>1, <2>2, CallsBack
<1>4. About(d)
  <2>1. \A f : f.k \in Marked /\ f.x # d => N(f)' = N(f)
    BY <1>2, <1>3, InvParts
  <2>2. \A y \in Awaitables : \A k, e :
           e # d => (Op(k, e) \in ToSet(ops'[y]) <=> Op(k, e) \in ToSet(ops[y]))
    <3>1. \A k, e : e # d => Op(k, e) # Head(ops[x])
      BY OpsDiffer
    <3> QED BY <1>3, <3>1
  <2>3. \A e \in States : e # d => /\ started'[e] = started[e] /\ last'[e] = last[e]
                                   /\ (e \in handed' <=> e \in handed)
    BY <1>1, InvParts DEF Typed
  <2> QED BY <2>1, <2>2, <2>3 DEF About
<1>5. CombineOK(d)'
  <2>1. /\ inputs[d][1] \in Awaitables /\ inputs[d][2] \in Awaitables
        /\ inputs[d][1] # inputs[d][2] /\ (x = inputs[d][1] \/ x = inputs[d][2])
    BY <1>1, InvParts, InputsOf
  <2>2. /\ started'[d] = started[d] - 1 /\ counter'[d] = counter[d]
        /\ last'[d] = IF started[d] = 1 THEN last[d] + 1 ELSE last[d]
        /\ started[d] \in Int /\ last[d] \in Nat
    BY <1>1, InvParts DEF Typed
  <2>3. /\ N(Call("combine", d))' = N(Call("combine", d)) + 1
        /\ N(Settle(d))' = N(Settle(d)) /\ N(Free(d))' = N(Free(d))
        /\ N(Register(d, 1))' = N(Register(d, 1)) /\ N(Register(d, 2))' = N(Register(d, 2))
    BY <1>3, FramesDiffer, InvParts
  <2>4. /\ N(Call("combine", d)) \in Nat /\ N(Settle(d)) \in Nat /\ N(Free(d)) \in Nat
        /\ N(Register(d, 1)) \in Nat /\ N(Register(d, 2)) \in Nat
    BY InvParts
  <2>5. \A i \in {1, 2} : Queued(d, i)' <=> Queued(d, i) /\ inputs[d][i] # x
    BY <1>3, <2>1, OpNames DEF Queued
  <2>6. \A i \in {1, 2} : inputs[d][i] = x => Queued(d, i)
    BY <1>1 DEF Queued
  <2>7. CombineOK(d)
    BY <1>1, InvParts
  <2>8. /\ Todo1(d)' = (IF inputs[d][1] = x THEN 0 ELSE Todo1(d))
        /\ Todo2(d)' = (IF inputs[d][2] = x THEN 0 ELSE Todo2(d))
    BY <1>1, <2>1, <2>3, <2>4, <2>5, <2>6, <2>7 DEF Todo1, Todo2, CombineOK
  <2>9. /\ inputs[d][1] = x => Todo1(d) = 1
        /\ inputs[d][2] = x => Todo2(d) = 1
        /\ Todo1(d) \in {0, 1} /\ Todo2(d) \in {0, 1}
    BY <2>6 DEF Todo1, Todo2
  <2>10. Todo1(d)' + Todo2(d)' = Todo1(d) + Todo2(d) - 1
    BY <2>1, <2>8, <2>9
  <2>11. /\ N(Register(d, 1))' + N(Register(d, 2))' <= 1
         /\ N(Register(d, 1))' = 1 => ~Queued(d, 1)' /\ ~Queued(d, 2)'
         /\ N(Register(d, 2))' = 1 => ~Queued(d, 2)'
    BY <1>1, <2>3, <2>5, <2>7 DEF CombineOK
  <2>12. kind' = kind /\ freed' = freed
    OBVIOUS
  <2> QED BY <1>1, <2>2, <2>3, <2>10, <2>11, <2>12, CombineCalls
<1>6. KindOK(d)' /\ TransformOK(d)'
  BY <1>1, InvParts, KindSame DEF TransformOK
<1>7. /\ \A t \in Tasks : TaskOK(t)'
      /\ \A e \in States : e # d => TransformOK(e)' /\ CombineOK(e)' /\ KindOK(e)'
  BY <1>1, <1>4, OthersKeep, InvParts
<1> QED BY <1>3, <1>5, <1>6, <1>7 DEF Inv

(* The callback of a transformation is called.                              *)
LEMMA KeepsCallTransform ==
    ASSUME Inv, NEW x \in Awaitables, Top = Trigger(x), ops[x] # <<>>,
           NEW d, Head(ops[x]) = Op("transform", d),
           ops' = [ops EXCEPT ![x] = Tail(@)], stack' = <<Call("transform", d)>> \o stack,
           UNCHANGED <<made, kind, status, started, counter, inputs, freed, handed, last, oncancel,
                       cancelled, shutdown, disposed, waits>>
    PROVE  Inv'
<1>1. /\ d \in States /\ kind[d] = "transform" /\ Op("transform", d) \in ToSet(ops[x])
      /\ x \in ToSet(inputs[d])
  BY InvParts, ListedOps DEF Derived
<1>2. /\ Call("transform", d) \in Legal /\ Call("transform", d).k = "transform"
      /\ Call("transform", d).x = d
  BY <1>1, FrameTypes, FrameNames
<1>3. /\ Typed' /\ Stacked' /\ OpsOK' /\ ListsOK' /\ \A y \in Awaitables : Called(y)'
      /\ \A f : N(f)' = N(f) + (IF Call("transform", d) = f THEN 1 ELSE 0)
      /\ \A y \in Awaitables : \A o :
           o \in ToSet(ops'[y]) <=> o \in ToSet(ops[y]) /\ ~(y = x /\ o = Head(ops[x]))
  <2>1. /\ waits' \subseteq Tasks /\ started' \in [States -> Int] /\ last' \in [States -> Nat]
        /\ handed' \subseteq States
    BY InvParts DEF Typed
  <2>2. \E g : g = Call("transform", d)
    OBVIOUS
  <2> QED BY <1>2, <2>1, <2>2, CallsBack
<1>4. About(d)
  <2>1. \A f : f.k \in Marked /\ f.x # d => N(f)' = N(f)
    BY <1>2, <1>3, InvParts
  <2>2. \A y \in Awaitables : \A k, e :
           e # d => (Op(k, e) \in ToSet(ops'[y]) <=> Op(k, e) \in ToSet(ops[y]))
    <3>1. \A k, e : e # d => Op(k, e) # Head(ops[x])
      BY OpsDiffer
    <3> QED BY <1>3, <3>1
  <2> QED BY <2>1, <2>2 DEF About
<1>5. TransformOK(d)'
  <2>1. inputs[d][1] = x
    BY <1>1, InvParts, InputsOf
  <2>2. Transforming(d) /\ ~Transforming(d)'
    BY <1>1, <1>3, <2>1 DEF Transforming
  <2>3. N(Call("transform", d))' = N(Call("transform", d)) + 1 /\ N(Call("transform", d)) \in Nat
    BY <1>3, InvParts
  <2>4. TransformOK(d)
    BY <1>1, InvParts
  <2> QED BY <1>1, <2>2, <2>3, <2>4 DEF TransformOK, Settled
<1>6. KindOK(d)' /\ CombineOK(d)'
  BY <1>1, InvParts, KindSame DEF CombineOK
<1>7. /\ \A t \in Tasks : TaskOK(t)'
      /\ \A e \in States : e # d => TransformOK(e)' /\ CombineOK(e)' /\ KindOK(e)'
  BY <1>1, <1>4, OthersKeep, InvParts
<1> QED BY <1>3, <1>5, <1>6, <1>7 DEF Inv

(* All cases of trigger_ops.                                                *)
LEMMA KeepsTriggerOps ==
    ASSUME Inv, TriggerOps
    PROVE  Inv'
<1>1. PICK x \in Awaitables : x = Top.x /\ Top = Trigger(x)
  BY InvParts, LegalFrame DEF TriggerOps
<1>2. UNCHANGED <<made, kind, status, counter, inputs, freed, oncancel, cancelled, shutdown, disposed>>
  BY DEF TriggerOps, contextVars
<1>3. CASE ops[x] = <<>>
  <2>1. stack' = Rest /\ UNCHANGED <<ops, started, last, handed, waits>>
    BY <1>1, <1>3 DEF TriggerOps
  <2>2. KindsGrow /\ Legal' = Legal
    BY <1>2, LegalSame
  <2>3. Top # Loop /\ Top # Shut
    BY <1>1, FrameNames
  <2>4. /\ Stacked' /\ (disposed' => Len(stack') # 1)
        /\ \A f : N(f)' = N(f) - (IF Top = f THEN 1 ELSE 0)
    BY <1>2, <2>1, <2>2, <2>3, InvParts, Pops
  <2>5. \A f : f # Trigger(x) => N(f)' = N(f)
    BY <1>1, <2>4, InvParts
  <2>6. \A f : f.k \in Marked => N(f)' = N(f)
    BY <2>5, FrameNames DEF Marked
  <2>7. \A y \in Awaitables : N(Trigger(y)) > 0 /\ ops[y] # <<>> => N(Trigger(y))' > 0
    BY <1>3, <2>5, FrameNames
  <2>8. cancelled \in BOOLEAN /\ disposed \in BOOLEAN
    BY InvParts DEF Typed
  <2> QED BY <1>2, <2>1, <2>4, <2>6, <2>7, <2>8, KeepsCalm
<1>4. CASE ops[x] # <<>>
  <2>1. PICK o \in Ops : o = Head(ops[x])
    BY <1>4, InvParts, ListedOps
  <2>2. ops' = [ops EXCEPT ![x] = Tail(@)] /\ CallBack(o, stack)
    BY <1>1, <1>4, <2>1 DEF TriggerOps
  <2>3. o = Op(o[1], o[2]) /\ o[1] \in {"wait", "combine", "transform"}
    BY OpNames
  <2>4. CASE o[1] = "wait"
    <3>1. /\ stack' = <<Code(o[2])>> \o stack /\ waits' = waits \ {o[2]}
          /\ UNCHANGED <<started, last, handed>>
      BY <2>2, <2>4 DEF CallBack
    <3> QED BY <1>1, <1>2, <1>4, <2>1, <2>2, <2>3, <2>4, <3>1, KeepsResume
  <2>5. CASE o[1] = "combine"
    <3>1. /\ stack' = <<Call("combine", o[2])>> \o stack /\ UNCHANGED waits
          /\ started' = [started EXCEPT ![o[2]] = @ - 1]
          /\ last' = [last EXCEPT ![o[2]] = IF started[o[2]] = 1 THEN @ + 1 ELSE @]
          /\ handed' = handed \cup {o[2]}
      BY <2>2, <2>5 DEF CallBack, CountedDown
    <3> QED BY <1>1, <1>2, <1>4, <2>1, <2>2, <2>3, <2>5, <3>1, KeepsCallCombine
  <2>6. CASE o[1] = "transform"
    <3>1. stack' = <<Call("transform", o[2])>> \o stack /\ UNCHANGED <<waits, started, last, handed>>
      BY <2>2, <2>6 DEF CallBack
    <3> QED BY <1>1, <1>2, <1>4, <2>1, <2>2, <2>3, <2>6, <3>1, KeepsCallTransform
  <2> QED BY <2>3, <2>4, <2>5, <2>6
<1> QED BY <1>3, <1>4

-------------------------------------------------------------------------------
(* A combination registers its inputs.                                      *)

(* Before it has registered an input, the callback was not called for it.   *)
LEMMA AtRegister ==
    ASSUME Inv, NEW d \in States, NEW i \in {1, 2}, Top = Register(d, i)
    PROVE  /\ kind[d] = "combine" /\ N(Register(d, i)) = 1 /\ N(Register(d, 3 - i)) = 0
           /\ inputs[d][i] \in Awaitables /\ ~Queued(d, i)
           /\ i = 1 => ~Queued(d, 2) /\ Todo1(d) = 1 /\ Todo2(d) = 1
           /\ i = 2 => Todo1(d) = (IF Queued(d, 1) THEN 1 ELSE 0) /\ Todo2(d) = 1
           /\ inputs[d][1] \in Awaitables /\ inputs[d][2] \in Awaitables
           /\ inputs[d][1] # inputs[d][2]
<1>1. Top \in Legal /\ N(Top) > 0 /\ \A f : N(f) \in Nat
  BY InvParts, TopCounted
<1>2. kind[d] = "combine"
  BY <1>1, LegalFrame, FrameNames
<1>3. CombineOK(d)
  BY InvParts
<1>4. N(Register(d, 1)) \in Nat /\ N(Register(d, 2)) \in Nat /\ N(Register(d, i)) > 0
  BY <1>1
<1>5. N(Register(d, 1)) + N(Register(d, 2)) <= 1
  BY <1>2, <1>3 DEF CombineOK
<1>6. CASE i = 1
  <2>1. N(Register(d, 1)) = 1 /\ N(Register(d, 2)) = 0
    BY <1>4, <1>5, <1>6
  <2>2. ~Queued(d, 1) /\ ~Queued(d, 2)
    BY <1>2, <1>3, <2>1 DEF CombineOK
  <2> QED BY <1>2, <1>6, <2>1, <2>2, InputsOf, InvParts DEF Todo1, Todo2
<1>7. CASE i = 2
  <2>1. N(Register(d, 2)) = 1 /\ N(Register(d, 1)) = 0
    BY <1>4, <1>5, <1>7
  <2>2. ~Queued(d, 2)
    BY <1>2, <1>3, <2>1 DEF CombineOK
  <2> QED BY <1>2, <1>7, <2>1, <2>2, InputsOf, InvParts DEF Todo1, Todo2
<1> QED BY <1>6, <1>7

(* What is left of the registration once input i is registered.             *)
Onward(d, i) == IF i = 2 THEN Rest ELSE <<Register(d, i + 1)>> \o Rest

(* The input is not settled: its list gets the operation.                   *)
LEMMA KeepsRegistered ==
    ASSUME Inv, NEW d \in States, NEW i \in {1, 2}, Top = Register(d, i),
           NEW x, x = inputs[d][i], ~Settled(x),
           ops' = [ops EXCEPT ![x] = Append(@, Op("combine", d))], stack' = Onward(d, i),
           UNCHANGED <<made, kind, status, started, counter, inputs, freed, handed, last, oncancel,
                       cancelled, shutdown, disposed, waits>>
    PROVE  Inv'
<1>1. /\ kind[d] = "combine" /\ N(Register(d, i)) = 1 /\ N(Register(d, 3 - i)) = 0
      /\ x \in Awaitables /\ ~Queued(d, i)
      /\ i = 1 => ~Queued(d, 2) /\ Todo1(d) = 1 /\ Todo2(d) = 1
      /\ i = 2 => Todo1(d) = (IF Queued(d, 1) THEN 1 ELSE 0) /\ Todo2(d) = 1
      /\ inputs[d][1] \in Awaitables /\ inputs[d][2] \in Awaitables
      /\ inputs[d][1] # inputs[d][2]
  BY AtRegister
<1>2. KindsGrow /\ Legal' = Legal /\ Kept
  BY LegalSame DEF Kept
<1>3. /\ Top # Loop /\ Top # Shut /\ Register(d, 2) # Loop /\ Register(d, 2) # Shut
      /\ Register(d, 2) \in Legal
  BY <1>1, FrameNames, FrameTypes
<1>4. /\ Stacked' /\ (disposed' => Len(stack') # 1)
      /\ \A f : N(f)' = N(f) - (IF Top = f THEN 1 ELSE 0)
                             + (IF i = 1 /\ Register(d, 2) = f THEN 1 ELSE 0)
  <2>1. CASE i = 1
    <3>1. stack' = <<Register(d, 2)>> \o Rest
      BY <2>1 DEF Onward
    <3>2. /\ Stacked' /\ (disposed' => Len(stack') # 1)
          /\ \A f : N(f)' = N(f) - (IF Top = f THEN 1 ELSE 0) + (IF Register(d, 2) = f THEN 1 ELSE 0)
      BY <1>2, <1>3, <3>1, InvParts, Swaps
    <3> QED BY <2>1, <3>2
  <2>2. CASE i = 2
    <3>1. stack' = Rest
      BY <2>2 DEF Onward
    <3>2. /\ Stacked' /\ (disposed' => Len(stack') # 1)
          /\ \A f : N(f)' = N(f) - (IF Top = f THEN 1 ELSE 0)
      BY <1>2, <1>3, <3>1, InvParts, Pops
    <3> QED BY <2>2, <3>2, InvParts
  <2> QED BY <2>1, <2>2
<1>5. /\ OpsOK' /\ ops' \in [Awaitables -> Seq(Ops)]
      /\ \A y \in Awaitables : \A p :
           p \in ToSet(ops'[y]) <=> p \in ToSet(ops[y]) \/ (y = x /\ p = Op("combine", d))
      /\ \A y \in Awaitables : y # x => ops'[y] = ops[y]
  <2>1. Op("combine", d) \in Ops /\ Op("combine", d) \notin ToSet(ops[x])
    BY <1>1, OpNames, InvParts DEF Queued
  <2>2. OpOK(x, Op("combine", d))'
    <3>1. x \in ToSet(inputs[d])
      BY <1>1, InvParts, InputsOf
    <3>2. PICK o : o = Op("combine", d) /\ o[1] = "combine" /\ o[2] = d
      BY OpNames
    <3>3. OpOK(x, o)'
      BY <1>1, <3>1, <3>2 DEF OpOK
    <3> QED BY <3>2, <3>3
  <2>3. PICK o : o = Op("combine", d)
    OBVIOUS
  <2> QED BY <1>1, <1>2, <2>1, <2>2, <2>3, InvParts, OpsAppend
<1>6. Typed'
  BY <1>5, InvParts DEF Typed
<1>7. ListsOK'
  BY <1>2, <1>4, InvParts, ListsSame
<1>8. \A f : f.x # d \/ f.k # "register" => N(f)' = N(f)
  BY <1>4, FrameNames, InvParts
<1>9. ASSUME NEW y \in Awaitables PROVE Called(y)'
  <2>1. N(Trigger(y))' = N(Trigger(y))
    BY <1>8, FrameNames
  <2>2. CASE y = x
    BY <2>2 DEF Called, Settled
  <2>3. CASE y # x
    BY <1>5, <2>1, <2>3, InvParts, CalledSame DEF Settled
  <2> QED BY <2>2, <2>3
<1>10. About(d)
  <2>1. \A y \in Awaitables : \A k, e :
           e # d => (Op(k, e) \in ToSet(ops'[y]) <=> Op(k, e) \in ToSet(ops[y]))
    BY <1>5, OpsDiffer
  <2> QED BY <1>8, <2>1 DEF About
<1>11. CombineOK(d)'
  <2>1. /\ N(Call("combine", d))' = N(Call("combine", d)) /\ N(Settle(d))' = N(Settle(d))
        /\ N(Free(d))' = N(Free(d))
    BY <1>8, FrameNames
  <2>2. /\ N(Register(d, 1))' = 0
        /\ N(Register(d, 2))' = IF i = 1 THEN 1 ELSE 0
    BY <1>1, <1>4, FramesDiffer
  <2>3. \A j \in {1, 2} : Queued(d, j)' <=> Queued(d, j) \/ j = i
    BY <1>1, <1>5 DEF Queued
  <2>4. Todo1(d)' = Todo1(d) /\ Todo2(d)' = Todo2(d)
    BY <1>1, <2>2, <2>3 DEF Todo1, Todo2
  <2>5. CombineOK(d)
    BY InvParts
  <2>6. ~Queued(d, 2)' \/ i = 2
    BY <1>1, <2>3
  <2> QED BY <1>1, <2>1, <2>2, <2>4, <2>5, <2>6 DEF CombineOK, Settled
<1>12. KindOK(d)' /\ TransformOK(d)'
  BY <1>1, InvParts, KindSame DEF TransformOK
<1>13. /\ \A t \in Tasks : TaskOK(t)'
       /\ \A e \in States : e # d => TransformOK(e)' /\ CombineOK(e)' /\ KindOK(e)'
  BY <1>10, OthersKeep, InvParts
<1> QED BY <1>4, <1>5, <1>6, <1>7, <1>9, <1>11, <1>12, <1>13 DEF Inv

(* The input is settled: the callback is called at once.                    *)
LEMMA KeepsCalledAtOnce ==
    ASSUME Inv, NEW d \in States, NEW i \in {1, 2}, Top = Register(d, i),
           stack' = <<Call("combine", d)>> \o Onward(d, i),
           started' = [started EXCEPT ![d] = @ - 1],
           last' = [last EXCEPT ![d] = IF started[d] = 1 THEN @ + 1 ELSE @],
           handed' = handed \cup {d},
           UNCHANGED <<made, kind, status, ops, counter, inputs, freed, oncancel, cancelled, shutdown,
                       disposed, waits>>
    PROVE  Inv'
<1>1. /\ kind[d] = "combine" /\ N(Register(d, i)) = 1 /\ N(Register(d, 3 - i)) = 0
      /\ ~Queued(d, i)
      /\ i = 1 => ~Queued(d, 2) /\ Todo1(d) = 1 /\ Todo2(d) = 1
      /\ i = 2 => Todo1(d) = (IF Queued(d, 1) THEN 1 ELSE 0) /\ Todo2(d) = 1
  BY AtRegister
<1>2. KindsGrow /\ Legal' = Legal /\ Kept
  BY LegalSame DEF Kept
<1>3. /\ Top # Loop /\ Top # Shut /\ Register(d, 2) # Loop /\ Register(d, 2) # Shut
      /\ Register(d, 2) \in Legal
      /\ Call("combine", d) # Loop /\ Call("combine", d) # Shut /\ Call("combine", d) \in Legal
  BY <1>1, FrameNames, FrameTypes
<1>4. /\ Stacked' /\ (disposed' => Len(stack') # 1)
      /\ \A f : N(f)' = N(f) - (IF Top = f THEN 1 ELSE 0)
                             + (IF Call("combine", d) = f THEN 1 ELSE 0)
                             + (IF i = 1 /\ Register(d, 2) = f THEN 1 ELSE 0)
  <2>1. CASE i = 1
    <3>1. stack' = <<Call("combine", d)>> \o (<<Register(d, 2)>> \o Rest)
      BY <2>1 DEF Onward
    <3>2. /\ Stacked' /\ (disposed' => Len(stack') # 1)
          /\ \A f : N(f)' = N(f) - One(Top, f) + One(Call("combine", d), f) + One(Register(d, 2), f)
      <4>1. PICK g, h : g = Call("combine", d) /\ h = Register(d, 2)
        OBVIOUS
      <4>2. g \in Legal' /\ h \in Legal /\ g # Loop /\ g # Shut /\ h # Loop /\ h # Shut
        BY <1>2, <1>3, <4>1
      <4>3. stack' = <<g>> \o (<<h>> \o Rest)
        BY <3>1, <4>1
      <4>4. /\ Stacked' /\ (disposed' => Len(stack') # 1)
            /\ \A f : N(f)' = N(f) - One(Top, f) + One(g, f) + One(h, f)
        BY <1>2, <1>3, <4>2, <4>3, InvParts, SwapsTwo
      <4> QED BY <4>1, <4>4
    <3> QED BY <2>1, <3>2 DEF One
  <2>2. CASE i = 2
    <3>1. stack' = <<Call("combine", d)>> \o Rest
      BY <2>2 DEF Onward
    <3>2. /\ Stacked' /\ (disposed' => Len(stack') # 1)
          /\ \A f : N(f)' = N(f) - (IF Top = f THEN 1 ELSE 0) + (IF Call("combine", d) = f THEN 1 ELSE 0)
      BY <1>2, <1>3, <3>1, InvParts, Swaps
    <3> QED BY <2>2, <3>2, InvParts
  <2> QED BY <2>1, <2>2
<1>5. /\ started' \in [States -> Int] /\ last' \in [States -> Nat]
      /\ started'[d] = started[d] - 1
      /\ last'[d] = IF started[d] = 1 THEN last[d] + 1 ELSE last[d]
      /\ \A e \in States : e # d => started'[e] = started[e] /\ last'[e] = last[e]
  <2>1. started \in [States -> Int] /\ last \in [States -> Nat]
    BY InvParts DEF Typed
  <2>2. started[d] - 1 \in Int /\ last[d] + 1 \in Nat
    BY <2>1
  <2> QED BY <2>1, <2>2
<1>6. Typed'
  BY <1>5, InvParts DEF Typed
<1>7. ListsOK'
  BY <1>2, <1>4, InvParts, ListsSame
<1>8. \A f : f.x # d \/ f.k \notin {"combine", "register"} => N(f)' = N(f)
  BY <1>4, FrameNames, InvParts
<1>9. ASSUME NEW y \in Awaitables PROVE Called(y)'
  <2>1. N(Trigger(y))' = N(Trigger(y))
    BY <1>8, FrameNames
  <2> QED BY <2>1, InvParts, CalledSame DEF Settled
<1>10. OpsOK'
  BY <1>2, InvParts, OpsSame DEF Kept
<1>11. About(d)
  BY <1>5, <1>8 DEF About
<1>12. CombineOK(d)'
  <2>1. /\ N(Call("combine", d))' = N(Call("combine", d)) + 1 /\ N(Settle(d))' = N(Settle(d))
        /\ N(Free(d))' = N(Free(d))
    BY <1>4, FramesDiffer, InvParts
  <2>2. /\ N(Register(d, 1))' = 0
        /\ N(Register(d, 2))' = IF i = 1 THEN 1 ELSE 0
    BY <1>1, <1>4, FramesDiffer
  <2>3. \A j \in {1, 2} : Queued(d, j)' <=> Queued(d, j)
    BY DEF Queued
  <2>4. Todo1(d)' + Todo2(d)' = Todo1(d) + Todo2(d) - 1
    <3>1. Todo1(d)' = IF Queued(d, 1) THEN 1 ELSE 0
      BY <2>2, <2>3 DEF Todo1
    <3>2. Todo2(d)' = IF Queued(d, 2) \/ i = 1 THEN 1 ELSE 0
      BY <2>2, <2>3 DEF Todo2
    <3> QED BY <1>1, <3>1, <3>2
  <2>5. /\ N(Register(d, 1))' + N(Register(d, 2))' <= 1 /\ N(Register(d, 1))' # 1
        /\ N(Register(d, 2))' = 1 => ~Queued(d, 2)'
    BY <1>1, <2>2, <2>3
  <2>6. kind' = kind /\ freed' = freed /\ counter' = counter
    OBVIOUS
  <2> QED BY <1>1, <1>5, <2>1, <2>4, <2>5, <2>6, CombineCalls
<1>13. KindOK(d)' /\ TransformOK(d)'
  BY <1>1, InvParts, KindSame DEF TransformOK
<1>14. /\ \A t \in Tasks : TaskOK(t)'
       /\ \A e \in States : e # d => TransformOK(e)' /\ CombineOK(e)' /\ KindOK(e)'
  BY <1>11, OthersKeep, InvParts
<1> QED BY <1>4, <1>6, <1>7, <1>9, <1>10, <1>12, <1>13, <1>14 DEF Inv

(* Both cases of a registration.                                            *)
LEMMA KeepsRegisterInput ==
    ASSUME Inv, RegisterInput
    PROVE  Inv'
<1>1. PICK d \in States, i \in {1, 2} : d = Top.x /\ i = Top.i /\ Top = Register(d, i)
  BY InvParts, LegalFrame DEF RegisterInput
<1>2. UNCHANGED <<made, kind, status, counter, inputs, freed, oncancel, cancelled, shutdown, disposed>>
  BY DEF RegisterInput, contextVars
<1>3. PICK x : x = inputs[d][i]
  OBVIOUS
<1>4. CASE Settled(x)
  <2>1. CallBack(Op("combine", d), Onward(d, i)) /\ UNCHANGED ops
    BY <1>1, <1>3, <1>4 DEF RegisterInput, Onward
  <2>2. /\ stack' = <<Call("combine", d)>> \o Onward(d, i) /\ UNCHANGED waits
        /\ started' = [started EXCEPT ![d] = @ - 1]
        /\ last' = [last EXCEPT ![d] = IF started[d] = 1 THEN @ + 1 ELSE @]
        /\ handed' = handed \cup {d}
    <3>1. PICK o : o = Op("combine", d) /\ o[1] = "combine" /\ o[2] = d
      BY OpNames
    <3>2. CallBack(o, Onward(d, i))
      BY <2>1, <3>1
    <3> QED BY <3>1, <3>2 DEF CallBack, CountedDown
  <2> QED BY <1>1, <1>2, <2>1, <2>2, KeepsCalledAtOnce
<1>5. CASE ~Settled(x)
  <2>1. /\ ops' = [ops EXCEPT ![x] = Append(@, Op("combine", d))]
        /\ stack' = Onward(d, i) /\ UNCHANGED <<started, last, handed, waits>>
    BY <1>1, <1>3, <1>5 DEF RegisterInput, Onward
  <2> QED BY <1>1, <1>2, <1>3, <1>5, <2>1, KeepsRegistered
<1> QED BY <1>4, <1>5

-------------------------------------------------------------------------------
(* The end of combine_cb.                                                   *)

(* What such a step leaves alone.                                           *)
LEMMA CombineStep ==
    ASSUME Inv, NEW d \in States, kind[d] = "combine", Stacked', disposed' => Len(stack') # 1,
           \A f : f.x # d \/ f.k \notin {"combine", "settle", "free", "trigger"} => N(f)' = N(f),
           N(Trigger(d))' >= N(Trigger(d)),
           \/ UNCHANGED <<status, shutdown>>
           \/ /\ status' = [status EXCEPT ![d] = "FAILED"] /\ shutdown' = RemoveFirst(shutdown, d)
              /\ N(Trigger(d))' > 0,
           counter' \in [States -> Int], \A e \in States : e # d => counter'[e] = counter[e],
           freed' = freed \/ freed' = freed \cup {d},
           UNCHANGED <<made, kind, ops, started, inputs, handed, last, oncancel, cancelled,
                       disposed, waits>>,
           CombineOK(d)'
    PROVE  Inv'
<1>1. KindsGrow /\ Legal' = Legal /\ Kept
  BY LegalSame DEF Kept
<1>2. \A y : N(Trigger(y)) > 0 => N(Trigger(y))' > 0
  <2>1. \A y : y # d => N(Trigger(y))' = N(Trigger(y))
    BY FrameNames
  <2>2. N(Trigger(d)) \in Nat /\ N(Trigger(d))' \in Nat
    <3>1. stack' \in Seq(Legal')
      BY DEF Stacked
    <3>2. Times(stack', Trigger(d)) \in Nat
      BY <3>1, TimesType
    <3> QED BY <3>2, InvParts DEF N, Trigger, Frame
  <2>3. N(Trigger(d)) > 0 => N(Trigger(d))' > 0
    BY <2>2
  <2> QED BY <2>1, <2>3
<1>3. /\ ListsOK' /\ shutdown' \in Seq(States) /\ \A x \in Awaitables : Called(x)'
      /\ status' \in [Awaitables -> {"PENDING", "RUNNING", "RESOLVED", "FAILED"}]
      /\ \A e \in Awaitables : e # d => status'[e] = status[e]
      /\ status'[d] = status[d] \/ status'[d] = "FAILED"
  <2>1. CASE UNCHANGED <<status, shutdown>>
    <3>1. ListsOK'
      BY <1>1, <2>1, InvParts, ListsSame
    <3>2. ASSUME NEW x \in Awaitables PROVE Called(x)'
      BY <1>2, <2>1, InvParts, CalledSame DEF Settled
    <3> QED BY <2>1, <3>1, <3>2, InvParts DEF Typed
  <2>2. CASE /\ status' = [status EXCEPT ![d] = "FAILED"] /\ shutdown' = RemoveFirst(shutdown, d)
             /\ N(Trigger(d))' > 0
    <3>1. ListsOK' /\ shutdown' \in Seq(States)
      BY <2>2, InvParts, ListsSettle
    <3>2. \A x \in Awaitables : Called(x)'
      BY <1>2, <2>2, InvParts, CalledSettles
    <3> QED BY <2>2, <3>1, <3>2, InvParts DEF Typed
  <2> QED BY <2>1, <2>2
<1>4. Typed'
  BY <1>3, InvParts DEF Typed
<1>5. OpsOK'
  BY <1>1, InvParts, OpsSame DEF Kept
<1>6. About(d)
  <2>1. \A f : f.k \in Marked /\ f.x # d => N(f)' = N(f)
    OBVIOUS
  <2>2. \A e \in States : e # d => (e \in freed' <=> e \in freed)
    OBVIOUS
  <2> QED BY <1>3, <2>1, <2>2 DEF About
<1>7. KindOK(d)' /\ TransformOK(d)'
  <2>1. KindOK(d)
    BY InvParts
  <2>2. KindOK(d)'
    BY <1>3, <2>1, KindSame
  <2> QED BY <2>2 DEF TransformOK
<1>8. /\ \A t \in Tasks : TaskOK(t)'
      /\ \A e \in States : e # d => TransformOK(e)' /\ CombineOK(e)' /\ KindOK(e)'
  BY <1>6, OthersKeep, InvParts
<1> QED BY <1>3, <1>4, <1>5, <1>7, <1>8 DEF Inv

(* A call returns, and may settle the combination by an error.              *)
LEMMA KeepsCombineReturns ==
    ASSUME Inv, NEW throws \in BOOLEAN, CombineReturns(throws)
    PROVE  Inv'
<1>1. PICK d \in States : d = Top.x /\ Top = Call("combine", d) /\ kind[d] = "combine"
  BY InvParts, LegalFrame DEF CombineReturns
<1>2. /\ UNCHANGED <<made, kind, ops, started, counter, inputs, freed, handed, last, oncancel,
                     cancelled, disposed, waits>>
      /\ \/ /\ status[d] = "PENDING" /\ status' = [status EXCEPT ![d] = "FAILED"]
            /\ shutdown' = RemoveFirst(shutdown, d)
            /\ stack' = <<Trigger(d)>> \o (<<Settle(d)>> \o Rest)
         \/ stack' = <<Settle(d)>> \o Rest /\ UNCHANGED <<status, shutdown>>
  <2>1. CASE throws /\ StillPending(d)
    BY <1>1, <2>1 DEF CombineReturns, Triggered, StillPending, combineVars, contextVars
  <2>2. CASE ~(throws /\ StillPending(d))
    BY <1>1, <2>2 DEF CombineReturns, combineVars, contextVars
  <2> QED BY <2>1, <2>2
<1>3. KindsGrow /\ Legal' = Legal
  BY <1>2, LegalSame
<1>4. /\ Top # Loop /\ Top # Shut /\ Settle(d) # Loop /\ Settle(d) # Shut /\ Settle(d) \in Legal
      /\ Trigger(d) # Loop /\ Trigger(d) # Shut /\ Trigger(d) \in Legal
  BY <1>1, FrameNames, FrameTypes, InvParts
<1>5. /\ Stacked' /\ (disposed' => Len(stack') # 1)
      /\ \A f : f.k # "trigger" => N(f)' = N(f) - One(Top, f) + One(Settle(d), f)
      /\ \A f : f.x # d => N(f)' = N(f)
      /\ N(Trigger(d))' >= N(Trigger(d))
      /\ \/ status' = [status EXCEPT ![d] = "FAILED"] /\ shutdown' = RemoveFirst(shutdown, d)
            /\ N(Trigger(d))' > 0
         \/ UNCHANGED <<status, shutdown>>
  <2>1. CASE /\ status[d] = "PENDING" /\ status' = [status EXCEPT ![d] = "FAILED"]
             /\ shutdown' = RemoveFirst(shutdown, d)
             /\ stack' = <<Trigger(d)>> \o (<<Settle(d)>> \o Rest)
    <3>1. /\ Stacked' /\ (disposed' => Len(stack') # 1)
          /\ \A f : N(f)' = N(f) - One(Top, f) + One(Trigger(d), f) + One(Settle(d), f)
      BY <1>2, <1>3, <1>4, <2>1, InvParts, SwapsTwo
    <3>2. N(Trigger(d))' = N(Trigger(d)) + 1
      BY <1>1, <3>1, FrameNames, FramesDiffer, InvParts DEF One
    <3>3. \A f : f.k # "trigger" => N(f)' = N(f) - One(Top, f) + One(Settle(d), f)
      <4>1. \A f : f.k # "trigger" => One(Trigger(d), f) = 0
        BY FrameNames DEF One
      <4>2. \A f : N(f) \in Nat /\ One(Top, f) \in Nat /\ One(Settle(d), f) \in Nat
        BY InvParts DEF One
      <4> QED BY <3>1, <4>1, <4>2
    <3>4. \A f : f.x # d => N(f)' = N(f)
      BY <1>1, <3>1, FrameNames, InvParts DEF One
    <3> QED BY <2>1, <3>1, <3>2, <3>3, <3>4, InvParts
  <2>2. CASE stack' = <<Settle(d)>> \o Rest /\ UNCHANGED <<status, shutdown>>
    <3>1. /\ Stacked' /\ (disposed' => Len(stack') # 1)
          /\ \A f : N(f)' = N(f) - (IF Top = f THEN 1 ELSE 0) + (IF Settle(d) = f THEN 1 ELSE 0)
      BY <1>2, <1>3, <1>4, <2>2, InvParts, Swaps
    <3>2. N(Trigger(d))' = N(Trigger(d))
      BY <1>1, <3>1, FrameNames, InvParts
    <3>3. \A f : f.x # d => N(f)' = N(f)
      BY <1>1, <3>1, FrameNames, InvParts
    <3> QED BY <2>2, <3>1, <3>2, <3>3, InvParts DEF One
  <2> QED BY <1>2, <2>1, <2>2
<1>6. /\ N(Call("combine", d))' = N(Call("combine", d)) - 1 /\ N(Settle(d))' = N(Settle(d)) + 1
      /\ N(Free(d))' = N(Free(d))
      /\ \A i : N(Register(d, i))' = N(Register(d, i))
  BY <1>1, <1>5, FrameNames, FramesDiffer, InvParts DEF One
<1>7. \A f : f.x # d \/ f.k \notin {"combine", "settle", "free", "trigger"} => N(f)' = N(f)
  BY <1>1, <1>5, FrameNames, InvParts DEF One
<1>8. CombineOK(d)'
  <2>1. CombineOK(d) /\ counter[d] \in Int /\ started[d] \in Int
    BY InvParts DEF Typed
  <2>2. \A i \in {1, 2} : Queued(d, i)' <=> Queued(d, i)
    BY <1>2 DEF Queued
  <2>3. Todo1(d)' = Todo1(d) /\ Todo2(d)' = Todo2(d)
    BY <1>6, <2>2 DEF Todo1, Todo2
  <2>4. N(Call("combine", d)) \in Nat /\ N(Settle(d)) \in Nat
    BY InvParts
  <2>5. /\ counter[d] = started[d] + N(Call("combine", d)) + N(Settle(d)) /\ N(Call("combine", d)) > 0
        /\ counter[d] \in 0 .. 2 /\ started[d] = Todo1(d) + Todo2(d)
    BY <1>1, <2>1, TopCounted, InvParts DEF CombineOK
  <2>6. Todo1(d) \in {0, 1} /\ Todo2(d) \in {0, 1}
    BY DEF Todo1, Todo2
  <2>7. /\ counter'[d] = started'[d] + N(Call("combine", d))' + N(Settle(d))'
        /\ counter'[d] # 0
    BY <1>2, <1>6, <2>1, <2>4, <2>5, <2>6
  <2> QED BY <1>1, <1>2, <1>6, <2>1, <2>2, <2>3, <2>5, <2>7 DEF CombineOK
<1>9. counter' \in [States -> Int]
  BY <1>2, InvParts DEF Typed
<1> QED BY <1>1, <1>2, <1>5, <1>7, <1>8, <1>9, CombineStep

(* The call is over; the last one settles the combination and frees it.     *)
LEMMA AtSettle ==
    ASSUME Inv, NEW d \in States, Top = Settle(d), kind[d] = "combine"
    PROVE  /\ counter[d] \in {1, 2} /\ N(Settle(d)) > 0 /\ N(Free(d)) = 0 /\ d \notin freed
           /\ started[d] \in Nat /\ N(Call("combine", d)) \in Nat /\ N(Settle(d)) \in Nat
           /\ counter[d] = started[d] + N(Call("combine", d)) + N(Settle(d))
<1>1. CombineOK(d) /\ counter[d] \in Int /\ started[d] \in Int
  BY InvParts DEF Typed
<1>2. N(Call("combine", d)) \in Nat /\ N(Settle(d)) \in Nat /\ N(Free(d)) \in Nat
  BY InvParts
<1>3. /\ counter[d] = started[d] + N(Call("combine", d)) + N(Settle(d)) /\ N(Settle(d)) > 0
      /\ counter[d] \in 0 .. 2 /\ started[d] = Todo1(d) + Todo2(d)
  BY <1>1, TopCounted, InvParts DEF CombineOK
<1>4. Todo1(d) \in {0, 1} /\ Todo2(d) \in {0, 1}
  BY DEF Todo1, Todo2
<1>5. started[d] \in Nat
  BY <1>3, <1>4
<1>6. counter[d] # 0
  BY <1>2, <1>3, <1>5
<1>7. N(Free(d)) <= 1 /\ N(Free(d)) # 1 /\ d \notin freed
  BY <1>1, <1>6 DEF CombineOK
<1> QED BY <1>2, <1>3, <1>5, <1>6, <1>7

(* The calls are counted down.                                              *)
LEMMA KeepsCombineSettle ==
    ASSUME Inv, CombineSettle
    PROVE  Inv'
<1>1. PICK d \in States : d = Top.x /\ Top = Settle(d) /\ kind[d] = "combine"
  BY InvParts, LegalFrame DEF CombineSettle
<1>2. /\ UNCHANGED <<made, kind, ops, started, inputs, freed, handed, last, oncancel,
                     cancelled, disposed, waits>>
      /\ counter' = [counter EXCEPT ![d] = @ - 1]
      /\ \/ /\ counter[d] = 1 /\ status[d] = "PENDING" /\ status' = [status EXCEPT ![d] = "FAILED"]
            /\ shutdown' = RemoveFirst(shutdown, d)
            /\ stack' = <<Trigger(d)>> \o (<<Free(d)>> \o Rest)
         \/ /\ counter[d] = 1 /\ status[d] # "PENDING" /\ stack' = <<Free(d)>> \o Rest
            /\ UNCHANGED <<status, shutdown>>
         \/ counter[d] # 1 /\ stack' = Rest /\ UNCHANGED <<status, shutdown>>
  <2>1. CASE IsLast(d) /\ StillPending(d)
    BY <1>1, <2>1 DEF CombineSettle, Triggered, IsLast, StillPending, contextVars
  <2>2. CASE IsLast(d) /\ ~StillPending(d)
    BY <1>1, <2>2 DEF CombineSettle, IsLast, StillPending, contextVars
  <2>3. CASE ~IsLast(d)
    BY <1>1, <2>3 DEF CombineSettle, IsLast, contextVars
  <2> QED BY <2>1, <2>2, <2>3
<1>3. KindsGrow /\ Legal' = Legal
  BY <1>2, LegalSame
<1>4. /\ Top # Loop /\ Top # Shut /\ Free(d) # Loop /\ Free(d) # Shut /\ Free(d) \in Legal
      /\ Trigger(d) # Loop /\ Trigger(d) # Shut /\ Trigger(d) \in Legal
  BY <1>1, FrameNames, FrameTypes, InvParts
<1>5. /\ Stacked' /\ (disposed' => Len(stack') # 1)
      /\ \A f : f.k # "trigger" =>
           N(f)' = N(f) - One(Top, f) + (IF counter[d] = 1 THEN One(Free(d), f) ELSE 0)
      /\ \A f : f.x # d => N(f)' = N(f)
      /\ N(Trigger(d))' >= N(Trigger(d))
      /\ \/ status' = [status EXCEPT ![d] = "FAILED"] /\ shutdown' = RemoveFirst(shutdown, d)
            /\ N(Trigger(d))' > 0
         \/ UNCHANGED <<status, shutdown>>
      /\ counter[d] = 1 => Settled(d)'
  <2>1. CASE /\ counter[d] = 1 /\ status[d] = "PENDING"
             /\ status' = [status EXCEPT ![d] = "FAILED"]
             /\ shutdown' = RemoveFirst(shutdown, d)
             /\ stack' = <<Trigger(d)>> \o (<<Free(d)>> \o Rest)
    <3>1. /\ Stacked' /\ (disposed' => Len(stack') # 1)
          /\ \A f : N(f)' = N(f) - One(Top, f) + One(Trigger(d), f) + One(Free(d), f)
      BY <1>2, <1>3, <1>4, <2>1, InvParts, SwapsTwo
    <3>2. N(Trigger(d))' = N(Trigger(d)) + 1
      BY <1>1, <3>1, FrameNames, FramesDiffer, InvParts DEF One
    <3>3. \A f : f.k # "trigger" => N(f)' = N(f) - One(Top, f) + One(Free(d), f)
      <4>1. \A f : f.k # "trigger" => One(Trigger(d), f) = 0
        BY FrameNames DEF One
      <4>2. \A f : N(f) \in Nat /\ One(Top, f) \in Nat /\ One(Free(d), f) \in Nat
        BY InvParts DEF One
      <4> QED BY <3>1, <4>1, <4>2
    <3>4. \A f : f.x # d => N(f)' = N(f)
      BY <1>1, <3>1, FrameNames, InvParts DEF One
    <3>5. Settled(d)'
      BY <2>1, InvParts DEF Settled, Typed
    <3> QED BY <2>1, <3>1, <3>2, <3>3, <3>4, <3>5, InvParts
  <2>2. CASE /\ counter[d] = 1 /\ status[d] # "PENDING" /\ stack' = <<Free(d)>> \o Rest
             /\ UNCHANGED <<status, shutdown>>
    <3>1. /\ Stacked' /\ (disposed' => Len(stack') # 1)
          /\ \A f : N(f)' = N(f) - (IF Top = f THEN 1 ELSE 0) + (IF Free(d) = f THEN 1 ELSE 0)
      BY <1>2, <1>3, <1>4, <2>2, InvParts, Swaps
    <3>2. N(Trigger(d))' = N(Trigger(d))
      BY <1>1, <3>1, FrameNames, InvParts
    <3>3. \A f : f.x # d => N(f)' = N(f)
      BY <1>1, <3>1, FrameNames, InvParts
    <3>4. Settled(d)'
      BY <2>2, InvParts DEF Settled, Typed, KindOK
    <3> QED BY <2>2, <3>1, <3>2, <3>3, <3>4, InvParts DEF One
  <2>3. CASE counter[d] # 1 /\ stack' = Rest /\ UNCHANGED <<status, shutdown>>
    <3>1. /\ Stacked' /\ (disposed' => Len(stack') # 1)
          /\ \A f : N(f)' = N(f) - (IF Top = f THEN 1 ELSE 0)
      BY <1>2, <1>3, <1>4, <2>3, InvParts, Pops
    <3>2. N(Trigger(d))' = N(Trigger(d))
      BY <1>1, <3>1, FrameNames, InvParts
    <3>3. \A f : f.x # d => N(f)' = N(f)
      BY <1>1, <3>1, FrameNames, InvParts
    <3>4. \A f : N(f)' = N(f) - One(Top, f) + 0
      BY <3>1, InvParts DEF One
    <3> QED BY <2>3, <3>1, <3>2, <3>3, <3>4, InvParts
  <2> QED BY <1>2, <2>1, <2>2, <2>3
<1>6. /\ N(Call("combine", d))' = N(Call("combine", d)) /\ N(Settle(d))' = N(Settle(d)) - 1
      /\ N(Free(d))' = N(Free(d)) + (IF counter[d] = 1 THEN 1 ELSE 0)
      /\ \A i : N(Register(d, i))' = N(Register(d, i))
  BY <1>1, <1>5, FrameNames, FramesDiffer, InvParts DEF One
<1>7. \A f : f.x # d \/ f.k \notin {"combine", "settle", "free", "trigger"} => N(f)' = N(f)
  BY <1>1, <1>5, FrameNames, InvParts DEF One
<1>8. counter' \in [States -> Int] /\ counter'[d] = counter[d] - 1
      /\ \A e \in States : e # d => counter'[e] = counter[e]
  <2>1. counter \in [States -> Int]
    BY InvParts DEF Typed
  <2>2. counter[d] - 1 \in Int
    BY <2>1
  <2> QED BY <1>2, <2>1, <2>2
<1>9. CombineOK(d)'
  <2>1. CombineOK(d)
    BY InvParts
  <2>2. /\ counter[d] \in {1, 2} /\ N(Settle(d)) > 0 /\ N(Free(d)) = 0 /\ d \notin freed
        /\ started[d] \in Nat /\ N(Call("combine", d)) \in Nat /\ N(Settle(d)) \in Nat
        /\ counter[d] = started[d] + N(Call("combine", d)) + N(Settle(d))
    BY <1>1, AtSettle
  <2>3. \A i \in {1, 2} : Queued(d, i)' <=> Queued(d, i)
    BY <1>2 DEF Queued
  <2>4. Todo1(d)' = Todo1(d) /\ Todo2(d)' = Todo2(d)
    BY <1>6, <2>3 DEF Todo1, Todo2
  <2>5. /\ counter'[d] = started'[d] + N(Call("combine", d))' + N(Settle(d))'
        /\ counter'[d] \in 0 .. 2
        /\ counter'[d] = 0 => Settled(d)'
        /\ N(Free(d))' <= 1
        /\ N(Free(d))' = 1 => counter'[d] = 0
        /\ d \notin freed'
    BY <1>2, <1>5, <1>6, <1>8, <2>2
  <2>6. /\ N(Register(d, 1))' + N(Register(d, 2))' <= 1
        /\ N(Register(d, 1))' = 1 => ~Queued(d, 1)' /\ ~Queued(d, 2)'
        /\ N(Register(d, 2))' = 1 => ~Queued(d, 2)'
        /\ started'[d] = Todo1(d)' + Todo2(d)'
        /\ last'[d] = IF started'[d] = 0 THEN 1 ELSE 0
    BY <1>1, <1>2, <1>6, <2>1, <2>3, <2>4 DEF CombineOK
  <2> QED BY <2>5, <2>6 DEF CombineOK
<1> QED BY <1>1, <1>2, <1>5, <1>7, <1>8, <1>9, CombineStep

(* The structure of a combination is freed.                                 *)
LEMMA KeepsCombineFree ==
    ASSUME Inv, CombineFree
    PROVE  Inv'
<1>1. PICK d \in States : d = Top.x /\ Top = Free(d) /\ kind[d] = "combine"
  BY InvParts, LegalFrame DEF CombineFree
<1>2. /\ UNCHANGED <<made, kind, status, ops, started, counter, inputs, handed, last, oncancel,
                     cancelled, shutdown, disposed, waits>>
      /\ stack' = Rest /\ freed' = freed \cup {d}
  BY <1>1 DEF CombineFree, contextVars
<1>3. KindsGrow /\ Legal' = Legal /\ Top # Loop /\ Top # Shut
  BY <1>1, <1>2, LegalSame, FrameNames
<1>4. /\ Stacked' /\ (disposed' => Len(stack') # 1)
      /\ \A f : N(f)' = N(f) - (IF Top = f THEN 1 ELSE 0)
  BY <1>2, <1>3, InvParts, Pops
<1>5. /\ \A f : f # Free(d) => N(f)' = N(f)
      /\ N(Free(d))' = N(Free(d)) - 1 /\ N(Free(d)) > 0 /\ N(Free(d)) \in Nat
  BY <1>1, <1>4, TopCounted, InvParts
<1>6. \A f : f.x # d \/ f.k \notin {"combine", "settle", "free", "trigger"} => N(f)' = N(f)
  BY <1>5, FrameNames
<1>7. N(Trigger(d))' >= N(Trigger(d))
  <2>1. N(Trigger(d))' = N(Trigger(d)) /\ N(Trigger(d)) \in Nat
    BY <1>5, FrameNames, InvParts
  <2> QED BY <2>1
<1>8. CombineOK(d)'
  <2>1. CombineOK(d)
    BY InvParts
  <2>2. /\ N(Call("combine", d))' = N(Call("combine", d)) /\ N(Settle(d))' = N(Settle(d))
        /\ \A i : N(Register(d, i))' = N(Register(d, i))
    BY <1>5, FramesDiffer
  <2>3. \A i \in {1, 2} : Queued(d, i)' <=> Queued(d, i)
    BY <1>2 DEF Queued
  <2>4. Todo1(d)' = Todo1(d) /\ Todo2(d)' = Todo2(d)
    BY <2>2, <2>3 DEF Todo1, Todo2
  <2>5. N(Free(d)) = 1 /\ counter[d] = 0
    <3>1. N(Free(d)) <= 1
      BY <1>1, <2>1 DEF CombineOK
    <3>2. N(Free(d)) = 1
      BY <1>5, <3>1
    <3> QED BY <1>1, <2>1, <3>2 DEF CombineOK
  <2>6. N(Free(d))' = 0
    BY <1>5, <2>5
  <2> QED BY <1>1, <1>2, <2>1, <2>2, <2>3, <2>4, <2>5, <2>6 DEF CombineOK, Settled
<1>9. counter' \in [States -> Int] /\ \A e \in States : e # d => counter'[e] = counter[e]
  BY <1>2, InvParts DEF Typed
<1> QED BY <1>1, <1>2, <1>4, <1>6, <1>7, <1>8, <1>9, CombineStep

-------------------------------------------------------------------------------
(* Tasks start, wait and end.                                               *)
LEMMA KeepsStart ==
    ASSUME Inv, NEW t \in Tasks, Start(t)
    PROVE  Inv'
<1>1. /\ InLoop /\ ~disposed /\ status[t] = "PENDING" /\ status' = [status EXCEPT ![t] = "RUNNING"]
      /\ stack' = <<Code(t)>> \o stack
      /\ UNCHANGED <<made, kind, ops, started, counter, inputs, freed, handed, last, oncancel,
                     cancelled, shutdown, disposed, waits>>
  BY DEF Start, combineVars, contextVars
<1>2. KindsGrow /\ Legal' = Legal /\ Kept
  BY <1>1, LegalSame DEF Kept
<1>3. Held(stack, disposed)
  BY <1>1, InvParts DEF Held, Stacked
<1>4. Code(t) \in Legal /\ Code(t) # Loop /\ Code(t) # Shut
  BY FrameTypes, FrameNames
<1>5. /\ Stacked' /\ (disposed' => Len(stack') # 1)
      /\ \A f : N(f)' = N(f) + (IF Code(t) = f THEN 1 ELSE 0)
  BY <1>1, <1>2, <1>3, <1>4, InvParts, Pushes
<1>6. /\ status' \in [Awaitables -> {"PENDING", "RUNNING", "RESOLVED", "FAILED"}]
      /\ status'[t] = "RUNNING" /\ \A e \in Awaitables : e # t => status'[e] = status[e]
  BY <1>1, InvParts DEF Typed
<1>7. Typed'
  BY <1>1, <1>6, InvParts DEF Typed
<1>8. ListsOK'
  <2>1. \A d \in States : status'[d] = status[d]
    BY <1>6, InvParts
  <2> QED BY <1>1, <1>2, <1>5, <2>1, InvParts, ListsSame
<1>9. OpsOK'
  BY <1>1, <1>2, InvParts, OpsSame DEF Kept
<1>10. ASSUME NEW y \in Awaitables PROVE Called(y)'
  <2>1. N(Trigger(y))' = N(Trigger(y))
    BY <1>5, FrameNames, InvParts
  <2>2. Settled(y)' => Settled(y)
    BY <1>6 DEF Settled
  <2> QED BY <1>1, <2>1, <2>2, InvParts, CalledSame
<1>11. About(t)
  <2>1. \A f : f.x # t => N(f)' = N(f)
    BY <1>5, FrameNames, InvParts
  <2> QED BY <1>1, <1>6, <2>1 DEF About
<1>12. TaskOK(t)'
  <2>1. N(Code(t)) \in Nat /\ N(Code(t)) # 1 /\ N(Code(t)) <= 1 /\ \A x \in Awaitables : ~Waiting(t, x)
    BY <1>1, InvParts DEF TaskOK
  <2>2. N(Code(t))' = 1
    BY <1>5, <2>1
  <2>3. \A x \in Awaitables : ~Waiting(t, x)'
    BY <1>1, <2>1 DEF Waiting
  <2> QED BY <1>6, <2>2, <2>3 DEF TaskOK
<1>13. /\ \A e \in Tasks : e # t => TaskOK(e)'
       /\ \A d \in States : TransformOK(d)' /\ CombineOK(d)' /\ KindOK(d)'
  BY <1>1, <1>11, OthersKeep, InvParts
<1> QED BY <1>5, <1>7, <1>8, <1>9, <1>10, <1>12, <1>13 DEF Inv

(* A task that runs does not wait.                                          *)
LEMMA AtCode ==
    ASSUME Inv, NEW t \in Tasks, Top = Code(t)
    PROVE  /\ N(Code(t)) = 1 /\ status[t] = "RUNNING"
           /\ \A x \in Awaitables : ~Waiting(t, x)
<1>1. N(Code(t)) > 0 /\ N(Code(t)) \in Nat /\ TaskOK(t)
  BY TopCounted, InvParts
<1>2. N(Code(t)) = 1
  BY <1>1 DEF TaskOK
<1> QED BY <1>1, <1>2 DEF TaskOK

(* A task waits.                                                            *)
LEMMA KeepsAwait ==
    ASSUME Inv, NEW x \in Awaitables, Await(x)
    PROVE  Inv'
<1>1. PICK t \in Tasks : t = Top.x /\ Top = Code(t)
  BY InvParts, LegalFrame DEF Await
<1>2. /\ ~Settled(x)
      /\ ops' = [ops EXCEPT ![x] = Append(@, Op("wait", t))]
      /\ waits' = waits \cup {t} /\ stack' = Rest
      /\ UNCHANGED <<made, kind, status, started, counter, inputs, freed, handed, last, oncancel,
                     cancelled, shutdown, disposed>>
  BY <1>1 DEF Await, Unsettled, combineVars, contextVars
<1>3. KindsGrow /\ Legal' = Legal /\ Kept /\ Top # Loop /\ Top # Shut
  BY <1>1, <1>2, LegalSame, FrameNames DEF Kept
<1>4. /\ Stacked' /\ (disposed' => Len(stack') # 1)
      /\ \A f : N(f)' = N(f) - (IF Top = f THEN 1 ELSE 0)
  BY <1>2, <1>3, InvParts, Pops
<1>5. N(Code(t)) = 1 /\ status[t] = "RUNNING" /\ \A y \in Awaitables : ~Waiting(t, y)
  BY <1>1, AtCode
<1>6. /\ OpsOK' /\ ops' \in [Awaitables -> Seq(Ops)]
      /\ \A y \in Awaitables : \A p :
           p \in ToSet(ops'[y]) <=> p \in ToSet(ops[y]) \/ (y = x /\ p = Op("wait", t))
      /\ \A y \in Awaitables : y # x => ops'[y] = ops[y]
  <2>1. Op("wait", t) \in Ops /\ Op("wait", t) \notin ToSet(ops[x])
    BY <1>5, OpNames, InvParts DEF Waiting
  <2>2. OpOK(x, Op("wait", t))'
    BY OpNames DEF OpOK
  <2>3. PICK o : o = Op("wait", t)
    OBVIOUS
  <2> QED BY <1>2, <1>3, <2>1, <2>2, <2>3, InvParts, OpsAppend
<1>7. Typed'
  <2>1. waits' \subseteq Tasks
    BY <1>2, InvParts DEF Typed
  <2> QED BY <1>2, <1>6, <2>1, InvParts DEF Typed
<1>8. ListsOK'
  BY <1>2, <1>3, <1>4, InvParts, ListsSame
<1>9. \A f : f # Code(t) => N(f)' = N(f)
  BY <1>1, <1>4, InvParts
<1>10. ASSUME NEW y \in Awaitables PROVE Called(y)'
  <2>1. N(Trigger(y))' = N(Trigger(y))
    BY <1>9, FrameNames
  <2>2. CASE y = x
    BY <1>2, <2>2 DEF Called, Settled
  <2>3. CASE y # x
    BY <1>2, <1>6, <2>1, <2>3, InvParts, CalledSame DEF Settled
  <2> QED BY <2>2, <2>3
<1>11. About(t)
  <2>1. \A f : f.x # t => N(f)' = N(f)
    BY <1>9, FrameNames
  <2>2. \A y \in Awaitables : \A k, e :
           e # t => (Op(k, e) \in ToSet(ops'[y]) <=> Op(k, e) \in ToSet(ops[y]))
    BY <1>6, OpsDiffer
  <2> QED BY <1>2, <2>1, <2>2 DEF About
<1>12. TaskOK(t)'
  <2>1. N(Code(t))' = 0
    BY <1>1, <1>4, <1>5
  <2>2. \A y \in Awaitables : Waiting(t, y)' => y = x
    BY <1>5, <1>6 DEF Waiting
  <2> QED BY <1>2, <1>5, <2>1, <2>2 DEF TaskOK
<1>13. /\ \A e \in Tasks : e # t => TaskOK(e)'
       /\ \A d \in States : TransformOK(d)' /\ CombineOK(d)' /\ KindOK(d)'
  BY <1>2, <1>11, OthersKeep, InvParts
<1> QED BY <1>4, <1>6, <1>7, <1>8, <1>10, <1>12, <1>13 DEF Inv

(* A task ends and calls back.                                              *)
LEMMA KeepsEnd ==
    ASSUME Inv, NEW how \in Results, End(how)
    PROVE  Inv'
<1>1. PICK t \in Tasks : t = Top.x /\ Top = Code(t)
  BY InvParts, LegalFrame DEF End
<1>2. /\ status' = [status EXCEPT ![t] = how] /\ stack' = <<Trigger(t)>> \o Rest
      /\ UNCHANGED <<made, kind, ops, started, counter, inputs, freed, handed, last, oncancel,
                     cancelled, shutdown, disposed, waits>>
  BY <1>1 DEF End, combineVars, contextVars
<1>3. KindsGrow /\ Legal' = Legal /\ Kept
  BY <1>2, LegalSame DEF Kept
<1>4. /\ Top # Loop /\ Top # Shut /\ Trigger(t) \in Legal /\ Trigger(t) # Loop /\ Trigger(t) # Shut
  BY <1>1, InvParts, FrameTypes, FrameNames
<1>5. /\ Stacked' /\ (disposed' => Len(stack') # 1)
      /\ \A f : N(f)' = N(f) - (IF Top = f THEN 1 ELSE 0) + (IF Trigger(t) = f THEN 1 ELSE 0)
  BY <1>2, <1>3, <1>4, InvParts, Swaps
<1>6. N(Code(t)) = 1 /\ status[t] = "RUNNING" /\ \A y \in Awaitables : ~Waiting(t, y)
  BY <1>1, AtCode
<1>7. /\ status' \in [Awaitables -> {"PENDING", "RUNNING", "RESOLVED", "FAILED"}]
      /\ \A e \in Awaitables : e # t => status'[e] = status[e]
  <2>1. how \in {"RESOLVED", "FAILED"}
    BY DeferredSets
  <2> QED BY <1>2, <2>1, InvParts DEF Typed
<1>8. Typed'
  BY <1>2, <1>7, InvParts DEF Typed
<1>9. ListsOK'
  <2>1. \A d \in States : status'[d] = status[d]
    BY <1>7, InvParts
  <2> QED BY <1>2, <1>3, <1>5, <2>1, InvParts, ListsSame
<1>10. OpsOK'
  BY <1>2, <1>3, InvParts, OpsSame DEF Kept
<1>11. \A y \in Awaitables : Called(y)'
  <2>1. N(Trigger(t))' = N(Trigger(t)) + 1 /\ \A y : y # t => N(Trigger(y))' = N(Trigger(y))
    BY <1>1, <1>5, FrameNames, InvParts
  <2>2. N(Trigger(t))' > 0 /\ \A y \in Awaitables : N(Trigger(y)) > 0 => N(Trigger(y))' > 0
    BY <2>1, InvParts
  <2> QED BY <1>2, <2>2, InvParts, CalledSettles
<1>12. About(t)
  <2>1. \A f : f.x # t => N(f)' = N(f)
    BY <1>1, <1>5, FrameNames, InvParts
  <2> QED BY <1>2, <1>7, <2>1 DEF About
<1>13. TaskOK(t)'
  <2>1. N(Code(t))' = 0
    BY <1>1, <1>5, <1>6, FrameNames
  <2>2. \A y \in Awaitables : ~Waiting(t, y)'
    BY <1>2, <1>6 DEF Waiting
  <2> QED BY <2>1, <2>2 DEF TaskOK
<1>14. /\ \A e \in Tasks : e # t => TaskOK(e)'
       /\ \A d \in States : TransformOK(d)' /\ CombineOK(d)' /\ KindOK(d)'
  BY <1>2, <1>12, OthersKeep, InvParts
<1> QED BY <1>5, <1>8, <1>9, <1>10, <1>11, <1>13, <1>14 DEF Inv

-------------------------------------------------------------------------------
(* New combinations and transformations.                                    *)

(* The other states and the lists when state d comes to be.                 *)
LEMMA NewLists ==
    ASSUME Inv, NEW d \in States, NEW k \in Derived, New(d, k), status' = status,
           oncancel' = oncancel, disposed' = disposed, disposed' => Len(stack') # 1,
           \A e \in States : e # d =>
               /\ inputs'[e] = inputs[e]
               /\ started'[e] = started[e] /\ counter'[e] = counter[e] /\ last'[e] = last[e]
               /\ (e \in freed' <=> e \in freed) /\ (e \in handed' <=> e \in handed)
    PROVE  /\ ListsOK' /\ shutdown' \in Seq(States)
           /\ \A e \in States : e # d => KindOK(e)'
           /\ kind[d] = "none" /\ d > made /\ d = made' /\ kind'[d] = k
<1>1. /\ kind[d] = "none" /\ ~Settled(d) /\ d = made + 1 /\ made' = d /\ KindsGrow
      /\ kind' \in [States -> {"none", "plain", "combine", "transform", "gone"}]
      /\ kind'[d] = k /\ \A e \in States : e # d => kind'[e] = kind[e]
      /\ made' \in 0 .. MaxStates /\ shutdown' \in Seq(States) /\ Single(shutdown', States)
      /\ ToSet(shutdown') = {e \in 1 .. made' : ~Settled(e)'}
      /\ d \notin ToSet(oncancel)
  BY NewFacts DEF Derived
<1>2. \A e \in ToSet(oncancel) : e \in States /\ kind[e] = "plain"
  <2>1. \A i \in DOMAIN oncancel : oncancel[i] \in States
    BY InvParts DEF Typed
  <2> QED BY <2>1, InvParts DEF ToSet, ListsOK
<1>3. \A e \in ToSet(oncancel) : kind'[e] = "plain"
  BY <1>1, <1>2
<1>4. ListsOK'
  BY <1>1, <1>3, InvParts DEF ListsOK
<1>5. ASSUME NEW e \in States, e # d PROVE KindOK(e)'
  <2>1. KindOK(e) /\ made \in Nat
    BY InvParts, DeferredNames DEF Typed
  <2> QED BY <1>1, <1>5, <2>1 DEF KindOK, States
<1>6. d > made
  BY <1>1, InvParts, DeferredNames DEF Typed
<1> QED BY <1>1, <1>4, <1>5, <1>6

(* A combination is made.                                                   *)
LEMMA KeepsCombine ==
    ASSUME Inv, NEW d \in States, NEW x \in Awaitables, NEW y \in Awaitables, Combine(d, x, y)
    PROVE  Inv'
<1>1. /\ InCode /\ x # y /\ New(d, "combine")
      /\ inputs' = [inputs EXCEPT ![d] = <<x, y>>]
      /\ started' = [started EXCEPT ![d] = 2] /\ counter' = [counter EXCEPT ![d] = 2]
      /\ stack' = <<Register(d, 1)>> \o stack
      /\ UNCHANGED <<status, ops, freed, handed, last, oncancel, cancelled, disposed, waits>>
  BY DEF Combine, contextVars
<1>2. /\ inputs' \in [States -> Seq(Awaitables)] /\ inputs'[d] = <<x, y>>
      /\ started' \in [States -> Int] /\ counter' \in [States -> Int]
      /\ started'[d] = 2 /\ counter'[d] = 2
      /\ \A e \in States : e # d => /\ inputs'[e] = inputs[e] /\ started'[e] = started[e]
                                    /\ counter'[e] = counter[e]
  <2>1. <<x, y>> \in Seq(Awaitables)
    OBVIOUS
  <2> QED BY <1>1, <2>1, InvParts DEF Typed
<1>3. /\ kind[d] = "none" /\ KindsGrow
      /\ kind' \in [States -> {"none", "plain", "combine", "transform", "gone"}]
      /\ kind'[d] = "combine" /\ \A e \in States : e # d => kind'[e] = kind[e]
      /\ made' \in 0 .. MaxStates
  BY <1>1, NewFacts
<1>4. Held(stack, disposed)
  BY <1>1, FrameNames, CodeHolds DEF InCode
<1>5. /\ Stacked' /\ (disposed' => Len(stack') # 1)
      /\ \A f : N(f)' = N(f) + (IF Register(d, 1) = f THEN 1 ELSE 0)
  <2>1. Register(d, 1) \in Legal' /\ Register(d, 1) # Loop /\ Register(d, 1) # Shut
    <3>1. FrameOK(Register(d, 1))'
      BY <1>3 DEF FrameOK
    <3>2. Register(d, 1) \in Frames /\ Frames' = Frames
      BY DEF Frames, Register, Frame, Awaitables
    <3> QED BY <3>1, <3>2, FrameNames DEF Legal
  <2> QED BY <1>1, <1>3, <1>4, <2>1, InvParts, Pushes
<1>6. /\ ListsOK' /\ shutdown' \in Seq(States)
      /\ \A e \in States : e # d => KindOK(e)'
      /\ kind[d] = "none" /\ d > made /\ d = made' /\ kind'[d] = "combine"
  BY <1>1, <1>2, <1>5, NewLists DEF Derived
<1>7. Typed'
  BY <1>1, <1>2, <1>3, <1>6, InvParts DEF Typed
<1>8. OpsOK'
  BY <1>1, <1>2, <1>3, InvParts, OpsSame DEF Derived
<1>9. /\ N(Call("combine", d)) = 0 /\ N(Settle(d)) = 0 /\ N(Free(d)) = 0
      /\ N(Register(d, 1)) = 0 /\ N(Register(d, 2)) = 0
      /\ \A z \in Awaitables : Op("combine", d) \notin ToSet(ops[z])
  BY <1>3, Unborn DEF Derived
<1>10. KindOK(d) /\ ~Settled(d)
  BY <1>3, InvParts DEF KindOK, Settled
<1>11. KindOK(d)'
  <2>1. Len(<<x, y>>) = 2 /\ <<x, y>>[1] = x /\ <<x, y>>[2] = y
    OBVIOUS
  <2>2. status[d] # "RUNNING"
    BY <1>10 DEF KindOK
  <2>3. ~(d > made')
    BY <1>6, DeferredNames DEF States
  <2> QED BY <1>1, <1>2, <1>3, <2>1, <2>2, <2>3 DEF KindOK
<1>12. CombineOK(d)'
  <2>1. /\ N(Call("combine", d))' = 0 /\ N(Settle(d))' = 0 /\ N(Free(d))' = 0
        /\ N(Register(d, 1))' = 1 /\ N(Register(d, 2))' = 0
    BY <1>5, <1>9, FramesDiffer
  <2>2. ~Queued(d, 1)' /\ ~Queued(d, 2)'
    <3>1. inputs'[d][1] = x /\ inputs'[d][2] = y
      BY <1>2
    <3> QED BY <1>1, <1>9, <3>1 DEF Queued
  <2>3. Todo1(d)' = 1 /\ Todo2(d)' = 1
    BY <2>1 DEF Todo1, Todo2
  <2>4. last'[d] = 0 /\ d \notin freed'
    BY <1>1, <1>3, <1>10 DEF KindOK
  <2> QED BY <1>2, <2>1, <2>2, <2>3, <2>4 DEF CombineOK
<1>13. TransformOK(d)'
  BY <1>3 DEF TransformOK
<1>14. About(d)
  <2>1. \A f : f.x # d => N(f)' = N(f)
    BY <1>5, FrameNames, InvParts
  <2> QED BY <1>1, <1>2, <1>3, <2>1 DEF About
<1>15. /\ \A t \in Tasks : TaskOK(t)'
       /\ \A e \in States : e # d => TransformOK(e)' /\ CombineOK(e)'
  BY <1>14, OthersKeep, InvParts
<1>16. ASSUME NEW z \in Awaitables PROVE Called(z)'
  <2>1. N(Trigger(z))' = N(Trigger(z))
    BY <1>5, FrameNames, InvParts
  <2> QED BY <1>1, <2>1, InvParts, CalledSame DEF Settled
<1> QED BY <1>5, <1>6, <1>7, <1>8, <1>11, <1>12, <1>13, <1>15, <1>16 DEF Inv

(* A transformation is made.                                                *)
LEMMA KeepsTransform ==
    ASSUME Inv, NEW d \in States, NEW x \in Awaitables, Transform(d, x)
    PROVE  Inv'
<1>1. /\ InCode /\ New(d, "transform")
      /\ inputs' = [inputs EXCEPT ![d] = <<x>>]
      /\ \/ Settled(x) /\ stack' = <<Call("transform", d)>> \o stack /\ ops' = ops
         \/ /\ ~Settled(x) /\ ops' = [ops EXCEPT ![x] = Append(@, Op("transform", d))]
            /\ stack' = stack
      /\ UNCHANGED <<status, started, counter, freed, handed, last, oncancel, cancelled, disposed,
                     waits>>
  BY DEF Transform, contextVars
<1>2. /\ inputs' \in [States -> Seq(Awaitables)] /\ inputs'[d] = <<x>>
      /\ \A e \in States : e # d => inputs'[e] = inputs[e]
  <2>1. <<x>> \in Seq(Awaitables)
    OBVIOUS
  <2> QED BY <1>1, <2>1, InvParts DEF Typed
<1>3. /\ kind[d] = "none" /\ KindsGrow
      /\ kind' \in [States -> {"none", "plain", "combine", "transform", "gone"}]
      /\ kind'[d] = "transform" /\ \A e \in States : e # d => kind'[e] = kind[e]
      /\ made' \in 0 .. MaxStates
  BY <1>1, NewFacts
<1>4. Held(stack, disposed)
  BY <1>1, FrameNames, CodeHolds DEF InCode
<1>5. Kept
  BY <1>2, <1>3 DEF Kept, Derived
<1>6. /\ N(Call("transform", d)) = 0
      /\ \A z \in Awaitables : Op("transform", d) \notin ToSet(ops[z])
  BY <1>3, Unborn DEF Derived
<1>7. /\ Stacked' /\ (disposed' => Len(stack') # 1)
      /\ \A f : f # Call("transform", d) => N(f)' = N(f)
      /\ N(Call("transform", d))' = IF Settled(x) THEN 1 ELSE 0
  <2>1. CASE Settled(x)
    <3>1. Call("transform", d) \in Legal' /\ Call("transform", d) # Loop /\ Call("transform", d) # Shut
      <4>1. FrameOK(Call("transform", d))'
        BY <1>3 DEF FrameOK
      <4>2. Call("transform", d) \in Frames /\ Frames' = Frames
        BY DEF Frames, Call, Frame, Awaitables
      <4> QED BY <4>1, <4>2, FrameNames DEF Legal
    <3>2. stack' = <<Call("transform", d)>> \o stack
      BY <1>1, <2>1
    <3>3. /\ Stacked' /\ (disposed' => Len(stack') # 1)
          /\ \A f : N(f)' = N(f) + (IF Call("transform", d) = f THEN 1 ELSE 0)
      BY <1>1, <1>3, <1>4, <3>1, <3>2, InvParts, Pushes
    <3> QED BY <1>6, <2>1, <3>3, InvParts
  <2>2. CASE ~Settled(x)
    <3>1. stack' = stack
      BY <1>1, <2>2
    <3>2. stack \in Seq(Legal) /\ Seq(Legal) \subseteq Seq(Legal') /\ disposed \in BOOLEAN
      BY <1>3, LegalGrows, SeqMonotonic, InvParts DEF Stacked, Typed
    <3>3. disposed => Len(stack) # 1
      BY <1>4, <3>2, HeldIsLong
    <3> QED BY <1>1, <1>6, <2>2, <3>1, <3>2, <3>3, InvParts DEF Stacked, N
  <2> QED BY <2>1, <2>2
<1>8. /\ OpsOK' /\ ops' \in [Awaitables -> Seq(Ops)]
      /\ \A y \in Awaitables : \A p :
           p \in ToSet(ops'[y]) <=>
               p \in ToSet(ops[y]) \/ (~Settled(x) /\ y = x /\ p = Op("transform", d))
      /\ \A y \in Awaitables : y # x \/ Settled(x) => ops'[y] = ops[y]
  <2>1. CASE Settled(x)
    <3>1. ops' = ops
      BY <1>1, <2>1
    <3>2. OpsOK'
      BY <1>5, <3>1, InvParts, OpsSame DEF Kept
    <3> QED BY <2>1, <3>1, <3>2, InvParts DEF Typed
  <2>2. CASE ~Settled(x)
    <3>1. Op("transform", d) \in Ops /\ Op("transform", d) \notin ToSet(ops[x])
      BY <1>6, OpNames, InvParts
    <3>2. OpOK(x, Op("transform", d))'
      <4>1. <<x>>[1] = x /\ DOMAIN <<x>> = {1}
        OBVIOUS
      <4>2. x \in ToSet(inputs'[d])
        BY <1>2, <4>1 DEF ToSet
      <4> QED BY <1>3, <4>2, OpNames DEF OpOK
    <3>3. PICK o : o = Op("transform", d)
      OBVIOUS
    <3>4. ops' = [ops EXCEPT ![x] = Append(@, o)]
      BY <1>1, <2>2, <3>3
    <3>5. /\ OpsOK' /\ ops' \in [Awaitables -> Seq(Ops)]
          /\ \A y \in Awaitables : \A p :
               p \in ToSet(ops'[y]) <=> p \in ToSet(ops[y]) \/ (y = x /\ p = o)
          /\ \A y \in Awaitables : y # x => ops'[y] = ops[y]
      BY <1>5, <3>1, <3>2, <3>3, <3>4, InvParts, OpsAppend
    <3> QED BY <2>2, <3>3, <3>5
  <2> QED BY <2>1, <2>2
<1>9. /\ ListsOK' /\ shutdown' \in Seq(States)
      /\ \A e \in States : e # d => KindOK(e)'
      /\ kind[d] = "none" /\ d > made /\ d = made' /\ kind'[d] = "transform"
  BY <1>1, <1>2, <1>7, NewLists DEF Derived
<1>10. Typed'
  BY <1>1, <1>2, <1>3, <1>8, <1>9, InvParts DEF Typed
<1>11. KindOK(d) /\ ~Settled(d)
  BY <1>3, InvParts DEF KindOK, Settled
<1>12. KindOK(d)'
  <2>1. Len(<<x>>) = 1
    OBVIOUS
  <2>2. ~(d > made')
    BY <1>9, DeferredNames DEF States
  <2> QED BY <1>1, <1>2, <1>3, <1>11, <2>1, <2>2 DEF KindOK
<1>13. TransformOK(d)'
  <2>1. inputs'[d][1] = x
    BY <1>2
  <2>2. Transforming(d)' <=> ~Settled(x)
    BY <1>6, <1>8, <2>1 DEF Transforming
  <2>3. ~Settled(d)'
    BY <1>1, <1>11 DEF Settled
  <2> QED BY <1>7, <2>2, <2>3 DEF TransformOK
<1>14. CombineOK(d)'
  BY <1>3 DEF CombineOK
<1>15. About(d)
  <2>1. \A f : f.x # d => N(f)' = N(f)
    BY <1>7, FrameNames
  <2>2. \A y \in Awaitables : \A k, e :
           e # d => (Op(k, e) \in ToSet(ops'[y]) <=> Op(k, e) \in ToSet(ops[y]))
    BY <1>8, OpsDiffer
  <2> QED BY <1>1, <1>2, <1>3, <2>1, <2>2 DEF About
<1>16. /\ \A t \in Tasks : TaskOK(t)'
       /\ \A e \in States : e # d => TransformOK(e)' /\ CombineOK(e)'
  BY <1>15, OthersKeep, InvParts
<1>17. ASSUME NEW z \in Awaitables PROVE Called(z)'
  <2>1. N(Trigger(z))' = N(Trigger(z))
    BY <1>7, FrameNames
  <2>2. CASE z = x /\ ~Settled(x)
    BY <1>1, <2>2 DEF Called, Settled
  <2>3. CASE z # x \/ Settled(x)
    BY <1>1, <1>8, <2>1, <2>3, InvParts, CalledSame DEF Settled
  <2> QED BY <2>2, <2>3
<1> QED BY <1>7, <1>8, <1>9, <1>10, <1>12, <1>13, <1>14, <1>16, <1>17 DEF Inv

(* The callback of a transformation returns and settles it.                 *)
LEMMA KeepsTransformReturns ==
    ASSUME Inv, NEW how \in Results, TransformReturns(how)
    PROVE  Inv'
<1>1. PICK d \in States : d = Top.x /\ Top = Call("transform", d) /\ kind[d] = "transform"
  BY InvParts, LegalFrame DEF TransformReturns
<1>2. /\ status' = [status EXCEPT ![d] = how] /\ shutdown' = RemoveFirst(shutdown, d)
      /\ stack' = <<Trigger(d)>> \o Rest
      /\ UNCHANGED <<made, kind, ops, started, counter, inputs, freed, handed, last, oncancel,
                     cancelled, disposed, waits>>
  BY <1>1 DEF TransformReturns, Triggered, combineVars, contextVars
<1>3. KindsGrow /\ Legal' = Legal /\ Kept
  BY <1>2, LegalSame DEF Kept
<1>4. /\ Top # Loop /\ Top # Shut /\ Trigger(d) \in Legal /\ Trigger(d) # Loop /\ Trigger(d) # Shut
  BY <1>1, InvParts, FrameTypes, FrameNames
<1>5. /\ Stacked' /\ (disposed' => Len(stack') # 1)
      /\ \A f : N(f)' = N(f) - (IF Top = f THEN 1 ELSE 0) + (IF Trigger(d) = f THEN 1 ELSE 0)
  BY <1>2, <1>3, <1>4, InvParts, Swaps
<1>6. how \in {"RESOLVED", "FAILED"}
  BY DeferredSets
<1>7. /\ status' \in [Awaitables -> {"PENDING", "RUNNING", "RESOLVED", "FAILED"}]
      /\ \A e \in Awaitables : e # d => status'[e] = status[e]
      /\ status'[d] = how
  BY <1>2, <1>6, InvParts DEF Typed
<1>8. ListsOK' /\ shutdown' \in Seq(States)
  BY <1>2, <1>5, <1>6, InvParts, ListsSettle
<1>9. Typed'
  BY <1>2, <1>7, <1>8, InvParts DEF Typed
<1>10. OpsOK'
  BY <1>2, <1>3, InvParts, OpsSame DEF Kept
<1>11. \A y \in Awaitables : Called(y)'
  <2>1. N(Trigger(d))' = N(Trigger(d)) + 1 /\ \A y : y # d => N(Trigger(y))' = N(Trigger(y))
    BY <1>1, <1>5, FrameNames, InvParts
  <2>2. N(Trigger(d))' > 0 /\ \A y \in Awaitables : N(Trigger(y)) > 0 => N(Trigger(y))' > 0
    BY <2>1, InvParts
  <2>3. d \in Awaitables
    BY InvParts
  <2> QED BY <1>2, <2>2, <2>3, InvParts, CalledSettles
<1>12. About(d)
  <2>1. \A f : f.x # d => N(f)' = N(f)
    BY <1>1, <1>5, FrameNames, InvParts
  <2> QED BY <1>2, <1>7, <2>1 DEF About
<1>13. TransformOK(d)'
  <2>1. N(Call("transform", d)) > 0 /\ N(Call("transform", d)) \in Nat /\ TransformOK(d)
    BY <1>1, TopCounted, InvParts
  <2>2. N(Call("transform", d)) = 1
    BY <1>1, <2>1 DEF TransformOK
  <2>3. ~Transforming(d)
    BY <1>1, <2>1, <2>2 DEF TransformOK
  <2>4. N(Call("transform", d))' = 0
    BY <1>1, <1>5, <2>2, FrameNames
  <2>5. ~Transforming(d)' /\ Settled(d)'
    BY <1>2, <1>6, <1>7, <2>3 DEF Transforming, Settled
  <2> QED BY <2>4, <2>5 DEF TransformOK
<1>14. KindOK(d)' /\ CombineOK(d)'
  <2>1. KindOK(d)
    BY InvParts
  <2>2. status'[d] # "RUNNING"
    BY <1>6, <1>7
  <2>3. KindOK(d)'
    BY <1>1, <1>2, <2>1, <2>2, KindSame
  <2> QED BY <1>1, <1>2, <2>3 DEF CombineOK
<1>15. /\ \A t \in Tasks : TaskOK(t)'
       /\ \A e \in States : e # d => TransformOK(e)' /\ CombineOK(e)' /\ KindOK(e)'
  BY <1>2, <1>12, OthersKeep, InvParts
<1> QED BY <1>5, <1>8, <1>9, <1>10, <1>11, <1>13, <1>14, <1>15 DEF Inv

-------------------------------------------------------------------------------
(* The invariant holds at first and after every step.                       *)
LEMMA InitHolds == Init => Inv
<1> SUFFICES ASSUME Init PROVE Inv
  OBVIOUS
<1>1. /\ stack = <<Loop>> /\ made = 0 /\ \A d \in States : kind[d] = "none"
      /\ \A x \in Awaitables : status[x] = "PENDING" /\ ops[x] = <<>>
      /\ \A d \in States : started[d] = 0 /\ counter[d] = 0 /\ inputs[d] = <<>> /\ last[d] = 0
      /\ freed = {} /\ handed = {} /\ oncancel = <<>> /\ shutdown = <<>> /\ disposed = FALSE
  BY DEF Init, Awaitables
<1>2. Typed
  <2>1. /\ <<>> \in Seq(Ops) /\ <<>> \in Seq(Awaitables) /\ <<>> \in Seq(States)
        /\ 0 \in 0 .. MaxStates
    BY DeferredNames
  <2>2. /\ kind \in [States -> {"none", "plain", "combine", "transform", "gone"}]
        /\ status \in [Awaitables -> {"PENDING", "RUNNING", "RESOLVED", "FAILED"}]
    BY DEF Init
  <2>3. ops \in [Awaitables -> Seq(Ops)]
    BY <2>1 DEF Init
  <2>4. started \in [States -> Int] /\ counter \in [States -> Int] /\ last \in [States -> Nat]
    BY DEF Init
  <2>5. inputs \in [States -> Seq(Awaitables)]
    BY <2>1 DEF Init
  <2>6. /\ made \in 0 .. MaxStates /\ freed \subseteq States /\ handed \subseteq States
        /\ oncancel \in Seq(States) /\ cancelled \in BOOLEAN
        /\ shutdown \in Seq(States) /\ disposed \in BOOLEAN /\ waits \subseteq Tasks
    BY <2>1 DEF Init
  <2> QED BY <2>2, <2>3, <2>4, <2>5, <2>6 DEF Typed
<1>3. <<Loop>> \in Seq(Legal) /\ Len(<<Loop>>) = 1 /\ <<Loop>>[1] = Loop /\ <<Loop>> # <<>>
      /\ DOMAIN <<Loop>> = {1}
  BY FrameTypes
<1>4. Stacked
  <2>1. Based(<<Loop>>, FALSE)
    BY <1>3, FrameNames DEF Based
  <2> QED BY <1>1, <1>3, <2>1 DEF Stacked
<1>5. \A f : f # Loop => N(f) = 0
  <2>1. \A f : Times(<<Loop>>, f) = 0 <=> \A i \in DOMAIN <<Loop>> : <<Loop>>[i] # f
    BY <1>3, TimesType
  <2> QED BY <1>1, <1>3, <2>1 DEF N
<1>6. Single(<<>>, Ops) /\ Single(<<>>, States)
  BY DEF Single
<1>7. \A x \in Awaitables : ToSet(ops[x]) = {}
  BY <1>1, NoElements
<1>8. OpsOK
  BY <1>1, <1>6, <1>7 DEF OpsOK
<1>9. ListsOK
  BY <1>1, <1>6, NoElements DEF ListsOK
<1>10. \A d \in States : KindOK(d) /\ TransformOK(d) /\ CombineOK(d)
  BY <1>1, DeferredNames DEF KindOK, TransformOK, CombineOK, States, Awaitables
<1>11. \A t \in Tasks : TaskOK(t)
  BY <1>5, <1>7, FrameNames DEF TaskOK, Waiting
<1>12. \A x \in Awaitables : Called(x)
  BY <1>1 DEF Called
<1> QED BY <1>2, <1>4, <1>8, <1>9, <1>10, <1>11, <1>12 DEF Inv

(* A step that changes nothing.                                             *)
LEMMA StutterKeeps ==
    ASSUME Inv, UNCHANGED vars
    PROVE  Inv'
<1>1. UNCHANGED <<stack, made, kind, status, ops, started, counter, inputs, freed, handed, last,
                  oncancel, cancelled, shutdown, disposed, waits>>
  BY DEF vars, combineVars, contextVars
<1>2. KindsGrow /\ Legal' = Legal
  BY <1>1, LegalSame
<1>3. Stacked'
  BY <1>1, <1>2, InvParts DEF Stacked
<1>4. Quiet
  BY <1>1 DEF Quiet, N, Settled
<1>5. Typed' /\ ListsOK'
  BY <1>1, InvParts DEF Typed, ListsOK, Settled
<1>6. \A d \in States : KindOK(d)'
  BY <1>1, InvParts DEF KindOK
<1>7. \A x \in Awaitables : Called(x)'
  BY <1>1, InvParts DEF Called, Settled, N
<1> QED BY <1>3, <1>4, <1>5, <1>6, <1>7, QuietKeeps DEF Inv

(* All steps of PHP code.                                                   *)
LEMMA PhpCodeKeeps ==
    ASSUME Inv, PhpCode
    PROVE  Inv'
<1>1. ASSUME NEW d \in States, NEW handler \in BOOLEAN, Construct(d, handler) PROVE Inv'
  BY <1>1, KeepsConstruct
<1>2. ASSUME NEW d \in States, NEW how \in Results, SettleDeferred(d, how) PROVE Inv'
  BY <1>2, KeepsSettleDeferred
<1>3. ASSUME NEW d \in States, Dropped(d) PROVE Inv'
  BY <1>3, KeepsDropped
<1>4. ASSUME NEW d \in States, NEW x \in Awaitables, Transform(d, x) PROVE Inv'
  BY <1>4, KeepsTransform
<1>5. ASSUME NEW d \in States, NEW x \in Awaitables, NEW y \in Awaitables, Combine(d, x, y) PROVE Inv'
  BY <1>5, KeepsCombine
<1>6. ASSUME NEW x \in Awaitables, Await(x) PROVE Inv'
  BY <1>6, KeepsAwait
<1>7. ASSUME NEW how \in Results, End(how) PROVE Inv'
  BY <1>7, KeepsEnd
<1>8. ASSUME NEW how \in Results, TransformReturns(how) PROVE Inv'
  BY <1>8, KeepsTransformReturns
<1>9. ASSUME NEW throws \in BOOLEAN, CombineReturns(throws) PROVE Inv'
  BY <1>9, KeepsCombineReturns
<1>10. ASSUME CancelReturns PROVE Inv'
  BY <1>10, KeepsCancelReturns
<1> QED BY <1>1, <1>2, <1>3, <1>4, <1>5, <1>6, <1>7, <1>8, <1>9, <1>10 DEF PhpCode

(* Every step keeps the invariant,                                          *)
LEMMA NextKeeps == Inv /\ [Next]_vars => Inv'
<1> SUFFICES ASSUME Inv, [Next]_vars PROVE Inv'
  OBVIOUS
<1>1. CASE PhpCode
  BY <1>1, PhpCodeKeeps
<1>2. CASE Engine
  BY <1>2, KeepsTriggerOps, KeepsRegisterInput, KeepsCombineSettle, KeepsCombineFree,
     KeepsCancelDefer, KeepsShutdownState DEF Engine
<1>3. CASE EventLoop
  BY <1>3, KeepsStart, KeepsCancel, KeepsDispose DEF EventLoop
<1>4. CASE UNCHANGED vars
  BY <1>4, StutterKeeps
<1> QED BY <1>1, <1>2, <1>3, <1>4 DEF Next

(* so it holds forever.                                                     *)
LEMMA AlwaysInv == Spec => []Inv
BY InitHolds, NextKeeps, PTL DEF Spec

-------------------------------------------------------------------------------
(* What the invariant says of the properties.                               *)

(* In the event loop there is no frame but its own.                         *)
LEMMA AloneInLoop ==
    ASSUME Inv, InLoop
    PROVE  Len(stack) = 1 /\ \A f : f # Loop => N(f) = 0
<1>1. stack \in Seq(Legal) /\ disposed \in BOOLEAN /\ Based(stack, disposed)
  BY InvParts DEF Stacked, Typed
<1>2. stack = <<Loop>> /\ Len(stack) = 1
  BY <1>1, StackBase DEF InLoop, Top
<1>3. Times(stack, Loop) \in Nat /\ \A f : Times(stack, f) = 0 <=> \A i \in DOMAIN stack : stack[i] # f
  BY <1>1, TimesType
<1>4. \A i \in DOMAIN stack : stack[i] = Loop
  BY <1>2
<1> QED BY <1>2, <1>3, <1>4 DEF N

(* It says that every variable has its type,                                *)
LEMMA TypeHolds == Inv => TypeOK
<1> SUFFICES ASSUME Inv PROVE TypeOK
  OBVIOUS
<1>1. stack \in Seq(Frames)
  <2>1. Legal \subseteq Frames
    BY DEF Legal
  <2> QED BY <2>1, SeqMonotonic, InvParts DEF Stacked
<1>2. ASSUME NEW d \in States PROVE started[d] \in 0 .. 2 /\ counter[d] \in 0 .. 2
  <2>1. KindOK(d) /\ CombineOK(d)
    BY InvParts
  <2>2. Todo1(d) \in {0, 1} /\ Todo2(d) \in {0, 1}
    BY DEF Todo1, Todo2
  <2>3. CASE kind[d] = "combine"
    <3>1. started[d] = Todo1(d) + Todo2(d) /\ counter[d] \in 0 .. 2
      BY <2>1, <2>3 DEF CombineOK
    <3> QED BY <2>2, <3>1
  <2>4. CASE kind[d] # "combine"
    BY <2>1, <2>4 DEF KindOK
  <2> QED BY <2>3, <2>4
<1>3. started \in [States -> 0 .. 2] /\ counter \in [States -> 0 .. 2]
  BY <1>2, InvParts DEF Typed
<1> QED BY <1>1, <1>3, InvParts DEF Typed, TypeOK, Ops

(* that the loop of who is to be resumed goes on,                           *)
LEMMA WakeupHolds == Inv => NoLostWakeup
<1> SUFFICES ASSUME Inv, NEW x \in Awaitables, Settled(x), ops[x] # <<>>
             PROVE  \E i \in DOMAIN stack : stack[i] = Trigger(x)
  BY DEF NoLostWakeup
<1>1. N(Trigger(x)) > 0 /\ stack \in Seq(Legal)
  BY InvParts DEF Called, Stacked
<1>2. Times(stack, Trigger(x)) = 0 <=> \A i \in DOMAIN stack : stack[i] # Trigger(x)
  BY <1>1, TimesType
<1> QED BY <1>1, <1>2 DEF N

(* that nothing refers to a combination that is freed,                      *)
LEMMA AliveHolds == Inv => CombineAlive
<1> SUFFICES ASSUME Inv, NEW d \in freed
             PROVE  /\ \A x \in Awaitables : Op("combine", d) \notin ToSet(ops[x])
                    /\ \A f \in ToSet(stack) : f.x = d => f.k = "trigger"
  BY DEF CombineAlive
<1>1. d \in States /\ kind[d] = "combine"
  BY InvParts DEF Typed, KindOK
<1>2. CombineOK(d) /\ \A f : N(f) \in Nat
  BY <1>1, InvParts
<1>3. /\ counter[d] = 0 /\ started[d] = Todo1(d) + Todo2(d)
      /\ counter[d] = started[d] + N(Call("combine", d)) + N(Settle(d))
      /\ N(Free(d)) <= 1 /\ N(Free(d)) # 1
      /\ N(Register(d, 1)) + N(Register(d, 2)) <= 1
  BY <1>1, <1>2 DEF CombineOK
<1>4. Todo1(d) \in {0, 1} /\ Todo2(d) \in {0, 1}
  BY DEF Todo1, Todo2
<1>5. Todo1(d) = 0 /\ Todo2(d) = 0 /\ N(Call("combine", d)) = 0 /\ N(Settle(d)) = 0 /\ N(Free(d)) = 0
  <2>1. N(Call("combine", d)) \in Nat /\ N(Settle(d)) \in Nat /\ N(Free(d)) \in Nat
    BY <1>2
  <2>2. started[d] \in Nat
    BY <1>3, <1>4
  <2>3. started[d] = 0 /\ N(Call("combine", d)) = 0 /\ N(Settle(d)) = 0
    BY <1>3, <2>1, <2>2
  <2>4. N(Free(d)) = 0
    BY <1>3, <2>1
  <2> QED BY <1>3, <1>4, <2>3, <2>4
<1>6. /\ ~Queued(d, 1) /\ ~Queued(d, 2) /\ N(Register(d, 1)) # 1 /\ N(Register(d, 2)) # 1
  BY <1>5 DEF Todo1, Todo2
<1>7. N(Register(d, 1)) = 0 /\ N(Register(d, 2)) = 0
  BY <1>2, <1>3, <1>6
<1>8. ASSUME NEW x \in Awaitables PROVE Op("combine", d) \notin ToSet(ops[x])
  <2>1. Op("combine", d) \in ToSet(ops[x]) => x \in ToSet(inputs[d])
    BY InvParts, ListedOps, DeferredNames DEF Derived
  <2>2. ToSet(inputs[d]) = {inputs[d][1], inputs[d][2]}
    BY <1>1, InvParts, InputsOf
  <2> QED BY <1>6, <2>1, <2>2 DEF Queued
<1>9. ASSUME NEW f \in ToSet(stack), f.x = d PROVE f.k = "trigger"
  <2>1. stack \in Seq(Legal)
    BY InvParts DEF Stacked
  <2>2. f \in Legal /\ N(f) > 0
    <3>1. PICK i \in DOMAIN stack : stack[i] = f
      BY DEF ToSet
    <3>2. Times(stack, f) # 0 /\ Times(stack, f) \in Nat
      BY <2>1, <3>1, TimesType
    <3> QED BY <2>1, <3>1, <3>2 DEF N
  <2>3. FrameOK(f)
    BY <2>2 DEF Legal
  <2>4. f \notin {Loop, Cancelling, Shut}
    <3>1. Loop.x = 0 /\ Cancelling.x = 0 /\ Shut.x = 0
      BY DEF Loop, Cancelling, Shut, Frame
    <3>2. d # 0
      BY <1>1, DeferredNames DEF States
    <3> QED BY <1>9, <3>1, <3>2
  <2>5. ~\E t \in Tasks : f = Code(t)
    BY <1>1, <1>9, InvParts, FrameNames
  <2>6. f \notin {Call("combine", d), Settle(d), Free(d), Register(d, 1), Register(d, 2)}
    BY <1>5, <1>7, <2>2
  <2>7. ASSUME NEW e \in States,
               \/ f \in {Call("combine", e), Settle(e), Free(e), Register(e, 1), Register(e, 2)}
               \/ kind[e] = "transform" /\ f = Call("transform", e)
               \/ kind[e] \in {"plain", "gone"} /\ f = Call("cancel", e)
        PROVE  FALSE
    <3>1. f.x = e
      BY <2>7, FrameNames
    <3> QED BY <1>1, <1>9, <2>6, <2>7, <3>1
  <2>8. \E x \in Awaitables : f = Trigger(x)
    BY <2>3, <2>4, <2>5, <2>7 DEF FrameOK
  <2> QED BY <2>8, FrameNames
<1> QED BY <1>8, <1>9

(* that the disposal has settled everything when it is over,                *)
LEMMA ShutdownHolds == Inv => ShutdownSettles
<1> SUFFICES ASSUME Inv, InLoop, disposed, NEW d \in 1 .. made PROVE Settled(d) /\ ops[d] = <<>>
  BY DEF ShutdownSettles
<1>1. Len(stack) = 1 /\ \A f : f # Loop => N(f) = 0
  BY AloneInLoop
<1>2. shutdown = <<>> /\ ToSet(shutdown) = {e \in 1 .. made : ~Settled(e)}
  BY <1>1, InvParts DEF ListsOK
<1>3. Settled(d)
  BY <1>2, NoElements
<1>4. d \in Awaitables
  BY InvParts, DeferredNames DEF Typed, States, Awaitables
<1>5. N(Trigger(d)) = 0
  BY <1>1, FrameNames
<1> QED BY <1>3, <1>4, <1>5, InvParts DEF Called

(* Nobody is left behind, neither who waits for what is settled (trigger_ops *)
(* resumes all of them) nor who waits when the scheduler is disposed        *)
(* (shutdown_state), and combine_cb frees no combination early.             *)
THEOREM DeferredsSound == Spec => []Sound
<1>1. Inv => Sound
  BY TypeHolds, WakeupHolds, AliveHolds, ShutdownHolds DEF Sound
<1> QED BY <1>1, AlwaysInv, PTL

(* and that derived states are settled when their inputs are.               *)
LEMMA DerivedHolds == Inv => DerivedSettles
<1> SUFFICES ASSUME Inv, InLoop, NEW d \in States, inputs[d] # <<>>,
                    \A x \in ToSet(inputs[d]) : Settled(x)
             PROVE  Settled(d) /\ (kind[d] = "combine" => last[d] = 1)
  BY DEF DerivedSettles
<1>1. \A f : f # Loop => N(f) = 0
  BY AloneInLoop
<1>2. \A x \in ToSet(inputs[d]) \cap Awaitables : ops[x] = <<>>
  BY <1>1, FrameNames, InvParts DEF Called
<1>3. kind[d] \in Derived
  BY InvParts DEF KindOK, Derived
<1>4. CASE kind[d] = "combine"
  <2>1. /\ inputs[d][1] \in Awaitables /\ inputs[d][2] \in Awaitables
        /\ ToSet(inputs[d]) = {inputs[d][1], inputs[d][2]}
    BY <1>4, InvParts, InputsOf
  <2>2. ~Queued(d, 1) /\ ~Queued(d, 2)
    BY <1>2, <2>1, NoElements DEF Queued
  <2>3. /\ N(Register(d, 1)) = 0 /\ N(Register(d, 2)) = 0 /\ N(Call("combine", d)) = 0
        /\ N(Settle(d)) = 0
    BY <1>1, FrameNames
  <2>4. Todo1(d) = 0 /\ Todo2(d) = 0
    BY <2>2, <2>3 DEF Todo1, Todo2
  <2>5. started[d] = 0 /\ counter[d] = 0
    BY <1>4, <2>3, <2>4, InvParts DEF CombineOK
  <2> QED BY <1>4, <2>5, InvParts DEF CombineOK
<1>5. CASE kind[d] = "transform"
  <2>1. inputs[d][1] \in Awaitables /\ ToSet(inputs[d]) = {inputs[d][1]}
    BY <1>5, InvParts, InputsOf
  <2>2. ~Transforming(d)
    BY <1>2, <2>1, NoElements DEF Transforming
  <2>3. N(Call("transform", d)) = 0
    BY <1>1, FrameNames
  <2> QED BY <1>5, <2>2, <2>3, InvParts DEF TransformOK
<1> QED BY <1>3, <1>4, <1>5 DEF Derived

(* A combination or transformation is settled when its inputs are and their *)
(* callbacks have returned, and combine_cb tells one call that it is the    *)
(* last.                                                                    *)
THEOREM DerivationsSettle == Spec => []DerivedSettles
BY DerivedHolds, AlwaysInv, PTL

-------------------------------------------------------------------------------
(* Settled for good.                                                        *)

(* A step changes the status of one awaitable, if any, that is not settled, *)
(* or a transformation that has been shut down.                             *)
May(x) == ~Settled(x) \/ (disposed /\ x \in States /\ kind[x] = "transform")
(* Every step is of this form.                                              *)
LEMMA OneSettles ==
    ASSUME Inv, Next
    PROVE  \/ status' = status
           \/ \E x \in Awaitables : May(x) /\ \E how : status' = [status EXCEPT ![x] = how]
<1> DEFINE Goal == \/ status' = status
                   \/ \E x \in Awaitables : May(x) /\ \E how : status' = [status EXCEPT ![x] = how]
<1> SUFFICES Goal
  OBVIOUS
<1>1. ASSUME NEW d \in States, NEW how \in Results, SettleDeferred(d, how) PROVE Goal
  BY <1>1, InvParts DEF SettleDeferred, Open, May
<1>2. ASSUME NEW d \in States, Dropped(d) PROVE Goal
  BY <1>2, InvParts DEF Dropped, Open, May
<1>3. ASSUME NEW how \in Results, End(how) PROVE Goal
  <2>1. PICK t \in Tasks : t = Top.x /\ Top = Code(t)
    BY <1>3, InvParts, LegalFrame DEF End
  <2>2. status[t] = "RUNNING" /\ t \in Awaitables
    BY <2>1, AtCode, InvParts
  <2> QED BY <1>3, <2>1, <2>2 DEF End, Settled, May
<1>4. ASSUME NEW how \in Results, TransformReturns(how) PROVE Goal
  <2>1. PICK d \in States : d = Top.x /\ Top = Call("transform", d) /\ kind[d] = "transform"
    BY <1>4, InvParts, LegalFrame DEF TransformReturns
  <2>2. N(Call("transform", d)) > 0
    BY <2>1, TopCounted, InvParts
  <2>3. Settled(d) => disposed
    BY <2>1, <2>2, InvParts DEF TransformOK
  <2> QED BY <1>4, <2>1, <2>3, InvParts DEF TransformReturns, May
<1>5. ASSUME NEW throws \in BOOLEAN, CombineReturns(throws) PROVE Goal
  <2>1. PICK d \in States : d = Top.x
    BY <1>5, InvParts, LegalFrame DEF CombineReturns
  <2>2. CASE throws /\ StillPending(d)
    <3>1. status' = [status EXCEPT ![d] = "FAILED"]
      BY <1>5, <2>1, <2>2 DEF CombineReturns
    <3> QED BY <2>2, <3>1, InvParts DEF StillPending, Settled, May
  <2>3. CASE ~(throws /\ StillPending(d))
    BY <1>5, <2>1, <2>3 DEF CombineReturns
  <2> QED BY <2>2, <2>3
<1>6. ASSUME CombineSettle PROVE Goal
  <2>1. PICK d \in States : d = Top.x
    BY <1>6, InvParts, LegalFrame DEF CombineSettle
  <2>2. CASE IsLast(d) /\ StillPending(d)
    <3>1. status' = [status EXCEPT ![d] = "FAILED"]
      BY <1>6, <2>1, <2>2 DEF CombineSettle
    <3> QED BY <2>2, <3>1, InvParts DEF StillPending, Settled, May
  <2>3. CASE ~(IsLast(d) /\ StillPending(d))
    BY <1>6, <2>1, <2>3 DEF CombineSettle
  <2> QED BY <2>2, <2>3
<1>7. ASSUME ShutdownState PROVE Goal
  <2>1. CASE shutdown = <<>>
    BY <1>7, <2>1 DEF ShutdownState
  <2>2. CASE shutdown # <<>>
    <3>1. PICK d : d = Head(shutdown)
      OBVIOUS
    <3>2. d \in States /\ ~Settled(d)
      <4>1. shutdown \in Seq(States)
        BY InvParts DEF Typed
      <4>2. d \in States /\ d \in ToSet(shutdown)
        BY <2>2, <3>1, <4>1, NoElements
      <4> QED BY <4>2, InvParts DEF ListsOK
    <3>3. status' = [status EXCEPT ![d] = "FAILED"]
      BY <1>7, <2>2, <3>1 DEF ShutdownState
    <3> QED BY <3>2, <3>3, InvParts DEF May
  <2> QED BY <2>1, <2>2
<1>8. ASSUME NEW t \in Tasks, Start(t) PROVE Goal
  BY <1>8, InvParts DEF Start, Settled, May
<1>9. ASSUME \/ \E d \in States : \/ \E handler \in BOOLEAN : Construct(d, handler)
                                  \/ \E x \in Awaitables :
                                       Transform(d, x) \/ \E y \in Awaitables : Combine(d, x, y)
             \/ \E x \in Awaitables : Await(x)
             \/ CancelReturns \/ TriggerOps \/ RegisterInput \/ CombineFree \/ CancelDefer
             \/ Cancel \/ Dispose
      PROVE  Goal
  BY <1>9 DEF Construct, Transform, Combine, Await, CancelReturns, TriggerOps, RegisterInput,
              CombineFree, CancelDefer, Cancel, Dispose
<1> HIDE DEF Goal
<1>10. CASE PhpCode
  BY <1>1, <1>2, <1>3, <1>4, <1>5, <1>9, <1>10 DEF PhpCode
<1>11. CASE Engine
  BY <1>6, <1>7, <1>9, <1>11 DEF Engine
<1>12. CASE EventLoop
  BY <1>8, <1>9, <1>12 DEF EventLoop
<1> QED BY <1>10, <1>11, <1>12 DEF Next

(* What a deferred or task was settled with never changes, although code    *)
(* runs in the middle of trigger_ops, shutdown_state and combine_cb.        *)
THEOREM DeferredsSettleOnce == Spec => SettledOnce
<1> DEFINE Once == \A x \in Awaitables : Settled(x) =>
                       status'[x] = status[x] \/ (disposed /\ x \in States /\ kind[x] = "transform")
<1>1. Inv /\ [Next]_vars => [Once]_vars
  <2> SUFFICES ASSUME Inv, Next, NEW x \in Awaitables, Settled(x),
                      ~(disposed /\ x \in States /\ kind[x] = "transform")
               PROVE  status'[x] = status[x]
    OBVIOUS
  <2>1. ~May(x)
    BY DEF May
  <2>2. CASE status' = status
    BY <2>2
  <2>3. ASSUME NEW y \in Awaitables, May(y), NEW how, status' = [status EXCEPT ![y] = how]
        PROVE  status'[x] = status[x]
    BY <2>1, <2>3, InvParts DEF Typed
  <2> QED BY <2>2, <2>3, OneSettles
<1> QED BY <1>1, AlwaysInv, PTL DEF Spec, SettledOnce
===============================================================================
