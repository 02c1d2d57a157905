---------------------------- MODULE BookkeepingProofs ----------------------------
(***************************************************************************)
(* Theorems of the scheduler about its books (who has control and who gets  *)
(* it back, the count of waits that keep the loop alive, the operations     *)
(* that are queued, and the end of the process) and about what await        *)
(* promises.                                                                *)
(***************************************************************************)
EXTENDS SchedulerProofs, FiniteSetTheorems

(* The inductive invariant, on top of Inv and Wakes.                        *)

Fins    == {"ok", "fail", "exit"}                     \* the code above has ended
Pauses  == {"await", "wait", "drain", "rerun"}        \* the fiber is blocked in
Ended   == Fins \cup Pauses \cup {"resched", "done"}  \* nothing stands above these
Plain   == {"cancel", "inlined", "bail", "dispatch", "end"} \cup Stages  \* only resumers do
Holders == {"body", "inline", "main"}                 \* what PHP code runs in

(* A frame fr of fiber f above a frame b, when P has fibers.                *)
Stands(fr, b, f, P) ==
    /\ fr.k \in Fins \cup Callers => b.k \in Holders
    /\ fr.k \in Callers /\ b.k \in {"body", "inline"} => fr.o = b.x
    /\ fr.k \in Callers /\ b.k = "main" => fr.k = "code" /\ fr.o = Root
    /\ fr.k \in {"inline", "wait"} => fr.o = b.o
    /\ fr.k = "await" => fr.o = f
    /\ fr.k = "resched" => fr.x # f /\ fr.x \in P /\ fr.o = Root
    /\ fr.k = "body" => fr.x = f
    /\ fr.k \in {"body", "end"} => f \in Tasks
    /\ fr.k \in {"loop", "dispatch"} => f = Runner

(* A task of the background has returned, which b executes for a foreground *)
(* owner: nothing waits with the frame fr on top of it.                      *)
Uncovered(fr, b) == fr.k = "ret" /\ b.k = "inline" /\ Foreground(b.o) /\ ~Foreground(fr.o)
Finals == {x \in Awaitables : Settled(x)}

(* A stack s of fiber f, when P has fibers.                                  *)
Form(s, f, P) ==
    \A i \in DOMAIN s :
        /\ Stands(s[i], s[i + 1], f, P)
        /\ s[i].k \in Ended => i = 1
        /\ s[i].k \in Plain => \A j \in 1 .. i - 1 : s[j].k \in Resumers
        /\ Uncovered(s[i], s[i + 1]) => i = 1 /\ s[i].x \in Exts \cup P
        /\ s[i].k = "inline" /\ i > 1 => s[i - 1].k \in Callers \cup Fins
FormsOK ==
    \A f \in Fiber : Form(stack[f], f, spawned) /\ Head(stack[f]).k # "inline"

(* A task that is over has left its callback, and control.                  *)
TasksOK ==
    /\ \A t \in spawned : Settled(t) => stack[t][Len(stack[t])].k = "end"
    /\ \A t \in disposed \cap spawned : Settled(t) /\ t \notin Gets
    /\ stopped = {} => disposed \subseteq Begun

(* Who gets control, in which order.                                        *)
Stopping == Pauses \cup {"end"}
Resumes(f, g) == Head(stack[f]) = Resched(g)        \* f has resumed g
LineOK ==
    /\ fiber # NoFiber /\ fiber \notin ToSet(fibers) /\ Single(fibers, Fiber)
    /\ \A g \in ToSet(fibers) : Head(stack[g]).k \notin Stopping
    /\ \A i \in DOMAIN fibers : fibers[i] = Runner => i = Len(fibers)
    /\ fibers # <<>> => fibers[Len(fibers)] \in {Root, Runner}
    /\ \A i, j \in DOMAIN fibers : j > i => ~Resumes(fibers[i], fibers[j])
    /\ \A g \in ToSet(fibers) : ~Resumes(fiber, g)
    /\ fiber = Runner => fibers = <<>>
    /\ fiber \in Tasks => fibers # <<>>

CallerOK ==
    /\ caller = Root <=> Blocked(Root)
    /\ caller = NoFiber => Root \in Gets

(* Who waits for what.                                                      *)
WaitsFor(o, l) == Head(stack[o]).k \in Waits /\ Head(stack[o]).x = l
OpOK(o) ==
    /\ op[o].status = "RUNNING" => Head(stack[o]).k \in Waits /\ ~op[o].cancelled /\ ~op[o].defer
    /\ op[o].cancelled => Head(stack[o]).k = "wait"
    /\ op[o].status = "RUNNING" /\ stopped = {} => o \in ToSet(ops[Head(stack[o]).x])
    /\ Head(stack[o]).k \in Waits => op[o].status # "PENDING"
QueuedOK ==
    /\ \A l \in Lists : Single(ops[l], Owners)
    /\ \A l \in Lists : \A o \in ToSet(ops[l]) :
        WaitsFor(o, l) /\ (op[o].status = "RUNNING" \/ op[o].cancelled)
    /\ \A o \in Owners : OpOK(o)
    /\ Single(callbacks, Owners)
    /\ \A o \in ToSet(callbacks) : Head(stack[o]).k = "wait"
    /\ stopped = {} /\ fiber \in Owners => op[fiber].status # "RUNNING"

(* Whose wake-up is in the ready list.                                      *)
Deferring(o) == Head(stack[o]).k = "wait" /\ op[o].status # "RUNNING" /\ o # fiber
Deferred == spawned \cup (IF stopped = {} THEN {Root} ELSE {})
DeferredOK ==
    /\ \A o \in ToSet(ready) \cap Deferred : Deferring(o)
    /\ Single(ready, Deferred)
    /\ stopped = {} => ~uvstop

(* The end of the process.                                                  *)
StagesOf(s) == {fr.k : fr \in ToSet(s)} \cap Stages
AtStage == StagesOf(stack[Root])
StageOK ==
    stopped = {} =>
        /\ AtStage # {} /\ Root \in Gets => Runner \notin ToSet(fibers)
        /\ AtStage \cap {"shut", "rerun", "done"} # {} => closed
        /\ AtStage \cap {"rerun", "done"} # {} => \A l \in Exts \cup Queues : ops[l] = <<>>
        /\ "done" \in AtStage => fiber = Root /\ ready = <<>> /\ fibers = <<>>

Book == FormsOK /\ TasksOK /\ LineOK /\ CallerOK /\ QueuedOK /\ DeferredOK /\ StageOK /\ BusyBalance
-------------------------------------------------------------------------------
(* Stacks.                                                                  *)

(* Nothing but resumers is in the way of a frame on stack s.                *)
NoPlain(s) == \A i \in DOMAIN s : s[i].k \notin Plain
(* A frame may be put on s.                                                 *)
Takes(s) == Head(s).k \notin Ended /\ ~Uncovered(Head(s), Head(Tail(s)))

(* What a frame at the bottom stands on does not matter.                    *)
LEMMA StandsAtBottom ==
    ASSUME NEW fr, NEW b, NEW c, NEW f, NEW P, fr.k \in Bottom, Stands(fr, b, f, P)
    PROVE  Stands(fr, c, f, P)
BY DEF Stands, Bottom, Fins, Callers

(* A frame put on top of a stack.                                           *)
LEMMA FormPush ==
    ASSUME NEW f, NEW B, NEW P, NEW s, WellFormed(s, B, f), Form(s, f, P), Takes(s),
           NEW fr \in Frames, Stands(fr, Head(s), f, P), fr.k \in Resumers \/ NoPlain(s),
           Head(s).k = "inline" => fr.k \in Callers \cup Fins,
           Uncovered(fr, Head(s)) => fr.x \in Exts \cup P
    PROVE  Form(<<fr>> \o s, f, P)
<1> DEFINE r == <<fr>> \o s
<1>1. s \in Seq(Frames) /\ s # <<>> /\ (\A i \in DOMAIN s : s[i].k \in Bottom <=> i = Len(s))
  BY DEF WellFormed
<1>2. /\ Len(r) = Len(s) + 1 /\ DOMAIN r = 1 .. Len(s) + 1
      /\ r[1] = fr /\ \A i \in 2 .. Len(s) + 1 : r[i] = s[i - 1]
  <2>1. \A i \in 1 .. Len(s) + 1 : r[i] = IF i = 1 THEN fr ELSE s[i - 1]
    BY <1>1, Pushed
  <2>2. Len(r) = Len(s) + 1 /\ DOMAIN r = 1 .. Len(s) + 1
    BY <1>1, Pushed
  <2> HIDE DEF r
  <2> QED BY <1>1, <2>1, <2>2
<1>3. Head(s) = s[1] /\ DOMAIN s = 1 .. Len(s) /\ Len(s) \in Nat \ {0}
  BY <1>1, Popped
<1>4. Len(s) > 1 => Head(Tail(s)) = s[2]
  BY <1>1
<1> HIDE DEF r
<1>5. ASSUME NEW i \in DOMAIN r, i # 1, NEW m, m = i - 1
      PROVE  /\ m \in DOMAIN s /\ r[i] = s[m] /\ m \in Nat \ {0}
             /\ Stands(r[i], r[i + 1], f, P)
             /\ Uncovered(r[i], r[i + 1]) => m + 1 \in DOMAIN s /\ r[i + 1] = s[m + 1]
  <2>1. m \in DOMAIN s /\ r[i] = s[m] /\ m \in Nat \ {0} /\ i \in Nat
    BY <1>2, <1>3, <1>5
  <2>2. Stands(s[m], s[m + 1], f, P)
    BY <2>1 DEF Form
  <2>3. CASE m = Len(s)
    <3>1. s[m].k \in Bottom /\ r[i].k # "ret"
      BY <1>1, <2>1, <2>3 DEF Bottom
    <3> QED BY <2>1, <2>2, <3>1, StandsAtBottom DEF Uncovered
  <2>4. CASE m # Len(s)
    <3>1. m + 1 \in DOMAIN s /\ r[i + 1] = s[m + 1]
      BY <1>2, <1>3, <1>5, <2>1, <2>4
    <3> QED BY <2>1, <2>2, <3>1
  <2> QED BY <2>3, <2>4
<1>6. ASSUME NEW i \in DOMAIN r
      PROVE  /\ Stands(r[i], r[i + 1], f, P)
             /\ r[i].k \in Ended => i = 1
             /\ r[i].k \in Plain => \A j \in 1 .. i - 1 : r[j].k \in Resumers
             /\ Uncovered(r[i], r[i + 1]) => i = 1 /\ r[i].x \in Exts \cup P
             /\ r[i].k = "inline" /\ i > 1 => r[i - 1].k \in Callers \cup Fins
  <2>1. CASE i = 1
    <3>1. r[i] = fr /\ r[i + 1] = Head(s)
      BY <1>2, <1>3, <2>1
    <3>2. \A j \in 1 .. i - 1 : FALSE
      BY <2>1
    <3> QED BY <2>1, <3>1, <3>2
  <2>2. CASE i # 1
    <3>1. PICK m : m = i - 1
      OBVIOUS
    <3>2. /\ m \in DOMAIN s /\ r[i] = s[m] /\ m \in Nat \ {0}
          /\ Stands(r[i], r[i + 1], f, P)
          /\ Uncovered(r[i], r[i + 1]) => m + 1 \in DOMAIN s /\ r[i + 1] = s[m + 1]
      BY <1>5, <2>2, <3>1
    <3>3. ~(r[i].k \in Ended)
      <4>1. m # 1 => s[m].k \notin Ended
        BY <3>2 DEF Form
      <4> QED BY <1>3, <3>2, <4>1 DEF Takes
    <3>4. ~Uncovered(r[i], r[i + 1])
      <4>1. m # 1 => ~Uncovered(s[m], s[m + 1])
        BY <3>2 DEF Form
      <4>2. m = 1 /\ m + 1 \in DOMAIN s => Head(Tail(s)) = s[m + 1] /\ Head(s) = s[m]
        BY <1>3, <1>4
      <4> QED BY <3>2, <4>1, <4>2 DEF Takes, Uncovered
    <3>5. ASSUME r[i].k \in Plain, NEW j \in 1 .. i - 1 PROVE r[j].k \in Resumers
      <4>1. fr.k \in Resumers
        BY <3>2, <3>5 DEF NoPlain
      <4>2. CASE j = 1
        BY <1>2, <4>1, <4>2
      <4>3. CASE j # 1
        <5>1. j - 1 \in 1 .. m - 1 /\ r[j] = s[j - 1]
          BY <1>2, <1>3, <3>1, <3>2, <4>3
        <5>2. s[m].k \in Plain => \A n \in 1 .. m - 1 : s[n].k \in Resumers
          BY <3>2 DEF Form
        <5> QED BY <3>2, <3>5, <5>1, <5>2
      <4> QED BY <4>2, <4>3
    <3>6. ASSUME r[i].k = "inline" PROVE r[i - 1].k \in Callers \cup Fins
      <4>1. CASE m = 1
        <5>1. i - 1 = 1
          BY <3>1, <4>1
        <5> QED BY <1>2, <1>3, <3>2, <3>6, <4>1, <5>1
      <4>2. CASE m # 1
        <5>1. r[i - 1] = s[m - 1] /\ m > 1
          BY <1>2, <1>3, <3>1, <3>2, <4>2
        <5> QED BY <3>2, <3>6, <5>1 DEF Form
      <4> QED BY <4>1, <4>2
    <3> QED BY <3>2, <3>3, <3>4, <3>5, <3>6
  <2> QED BY <2>1, <2>2
<1>7. Form(r, f, P)
  BY <1>6 DEF Form
<1> QED BY <1>7 DEF r

(* A stack without its top, and what was on top.                            *)
LEMMA FormPop ==
    ASSUME NEW f, NEW B, NEW P, NEW s, WellFormed(s, B, f), Form(s, f, P), Head(s).k \notin Bottom
    PROVE  /\ Form(Tail(s), f, P) /\ Takes(Tail(s))
           /\ Stands(Head(s), Head(Tail(s)), f, P)
           /\ Uncovered(Head(s), Head(Tail(s))) => Head(s).x \in Exts \cup P
           /\ Head(s).k \notin Resumers => NoPlain(Tail(s))
           /\ Head(Tail(s)).k = "inline" => Head(s).k \in Callers \cup Fins
<1> DEFINE r == Tail(s)
<1>1. /\ s \in Seq(Frames) /\ s # <<>> /\ (\A i \in DOMAIN s : s[i].k \in Bottom <=> i = Len(s))
      /\ r \in Seq(Frames) /\ r # <<>> /\ WellFormed(r, B, f)
  BY Above DEF WellFormed
<1>2. /\ Len(r) = Len(s) - 1 /\ DOMAIN s = 1 .. Len(s) /\ DOMAIN r = 1 .. Len(s) - 1
      /\ \A i \in 1 .. Len(s) - 1 : r[i] = s[i + 1]
      /\ Head(s) = s[1] /\ Len(s) \in Nat \ {0}
  BY <1>1, Popped
<1>3. Head(r) = r[1] /\ DOMAIN r = 1 .. Len(r) /\ Len(r) \in Nat \ {0} /\ (Len(r) > 1 => Head(Tail(r)) = r[2])
  <2> HIDE DEF r
  <2>1. /\ Head(r) = r[1] /\ DOMAIN r = 1 .. Len(r) /\ Len(r) \in Nat \ {0} /\ Tail(r) \in Seq(Frames)
        /\ Len(Tail(r)) = Len(r) - 1 /\ \A i \in 1 .. Len(r) - 1 : Tail(r)[i] = r[i + 1]
    BY <1>1, Popped
  <2>2. ASSUME Len(r) > 1
        PROVE  Head(Tail(r)) = r[2]
    <3>1. 1 \in 1 .. Len(r) - 1 /\ 1 + 1 = 2 /\ Len(Tail(r)) > 0
      BY <2>1, <2>2
    <3>2. Tail(r)[1] = r[2]
      BY <2>1, <3>1
    <3>3. Tail(r) # <<>>
      BY <3>1
    <3> QED BY <2>1, <3>2, <3>3, Popped
  <2> QED BY <2>1, <2>2
<1> HIDE DEF r
<1>4. 1 \in DOMAIN s /\ 2 \in DOMAIN s /\ Head(r) = s[2] /\ 1 + 1 = 2
  BY <1>2, <1>3
<1>5. ASSUME NEW i \in DOMAIN r, NEW m, m = i + 1
      PROVE  /\ m \in DOMAIN s /\ r[i] = s[m] /\ m \in Nat /\ m > 1
             /\ Stands(r[i], r[i + 1], f, P)
             /\ ~Uncovered(r[i], r[i + 1])
  <2>1. m \in DOMAIN s /\ r[i] = s[m] /\ m \in Nat /\ m > 1 /\ i \in Nat
    BY <1>2, <1>5
  <2>2. Stands(s[m], s[m + 1], f, P) /\ ~Uncovered(s[m], s[m + 1])
    BY <2>1 DEF Form
  <2>3. CASE m = Len(s)
    <3>1. s[m].k \in Bottom /\ r[i].k # "ret"
      BY <1>1, <2>1, <2>3 DEF Bottom
    <3> QED BY <2>1, <2>2, <3>1, StandsAtBottom DEF Uncovered
  <2>4. CASE m # Len(s)
    <3>1. r[i + 1] = s[m + 1]
      BY <1>2, <1>5, <2>1, <2>4
    <3> QED BY <2>1, <2>2, <3>1
  <2> QED BY <2>3, <2>4
<1>6. ASSUME NEW i \in DOMAIN r
      PROVE  /\ Stands(r[i], r[i + 1], f, P)
             /\ r[i].k \notin Ended
             /\ r[i].k \in Plain => s[1].k \in Resumers /\ \A j \in 1 .. i - 1 : r[j].k \in Resumers
             /\ ~Uncovered(r[i], r[i + 1])
             /\ r[i].k = "inline" /\ i > 1 => r[i - 1].k \in Callers \cup Fins
             /\ r[i].k = "inline" /\ i = 1 => s[1].k \in Callers \cup Fins
  <2>1. PICK m : m = i + 1
    OBVIOUS
  <2>2. m \in DOMAIN s /\ r[i] = s[m] /\ m \in Nat /\ m > 1 /\ Stands(r[i], r[i + 1], f, P) /\ ~Uncovered(r[i], r[i + 1])
    BY <1>5, <2>1
  <2>3. /\ s[m].k \in Ended => m = 1
        /\ s[m].k \in Plain => \A j \in 1 .. m - 1 : s[j].k \in Resumers
        /\ s[m].k = "inline" => s[m - 1].k \in Callers \cup Fins
    BY <2>2 DEF Form
  <2>4. r[i].k \notin Ended
    BY <2>2, <2>3
  <2>5. ASSUME r[i].k \in Plain PROVE s[1].k \in Resumers /\ \A j \in 1 .. i - 1 : r[j].k \in Resumers
    <3>1. \A j \in 1 .. m - 1 : s[j].k \in Resumers
      BY <2>2, <2>3, <2>5
    <3>2. 1 \in 1 .. m - 1 /\ \A j \in 1 .. i - 1 : j + 1 \in 1 .. m - 1 /\ r[j] = s[j + 1]
      BY <1>2, <2>1, <2>2
    <3> QED BY <3>1, <3>2
  <2>6. m - 1 = i /\ (i > 1 => r[i - 1] = s[i])
    BY <1>2, <2>1, <2>2
  <2> QED BY <2>2, <2>3, <2>4, <2>5, <2>6
<1>7. Form(r, f, P)
  BY <1>6 DEF Form
<1>8. Takes(r)
  <2>1. 1 \in DOMAIN r
    BY <1>3
  <2>2. r[1].k \notin Ended /\ ~Uncovered(r[1], r[2])
    BY <1>6, <2>1
  <2>3. Len(r) = 1 => r[1].k \in Bottom
    BY <1>1, <2>1 DEF WellFormed
  <2>4. Len(r) = 1 => r[1].k # "ret"
    BY <2>3 DEF Bottom
  <2>5. Len(r) # 1 => Head(Tail(r)) = r[2]
    BY <1>3
  <2> QED BY <1>3, <2>2, <2>4, <2>5 DEF Takes, Uncovered
<1>9. Stands(Head(s), Head(r), f, P) /\ (Uncovered(Head(s), Head(r)) => Head(s).x \in Exts \cup P)
  <2>1. Stands(s[1], s[1 + 1], f, P) /\ (Uncovered(s[1], s[1 + 1]) => s[1].x \in Exts \cup P)
    BY <1>4 DEF Form
  <2> QED BY <1>2, <1>4, <2>1
<1>10. Head(s).k \notin Resumers => NoPlain(r)
  BY <1>2, <1>6 DEF NoPlain
<1>11. Head(r).k = "inline" => Head(s).k \in Callers \cup Fins
  <2>1. 1 \in DOMAIN r
    BY <1>3
  <2> QED BY <1>2, <1>3, <1>6, <2>1
<1> QED BY <1>7, <1>8, <1>9, <1>10, <1>11 DEF r

(* On the stack of somebody who is in PHP code, or in a call of it.         *)
LEMMA FormTop ==
    ASSUME NEW f, NEW B, NEW P, NEW s, WellFormed(s, B, f), Form(s, f, P),
           Head(s).k \notin Resumers, Head(s).k \notin Plain
    PROVE  NoPlain(s)
<1>1. Head(s) = s[1] /\ DOMAIN s = 1 .. Len(s) /\ Len(s) \in Nat \ {0}
  BY Popped DEF WellFormed
<1> SUFFICES ASSUME NEW i \in DOMAIN s, s[i].k \in Plain PROVE FALSE
  BY DEF NoPlain
<1>2. i # 1 /\ 1 \in 1 .. i - 1
  <2>1. i # 1
    BY <1>1
  <2> QED BY <1>1, <2>1
<1>3. \A j \in 1 .. i - 1 : s[j].k \in Resumers
  BY DEF Form
<1> QED BY <1>1, <1>2, <1>3

(* More tasks have fibers.                                                   *)
LEMMA FormGrow ==
    ASSUME NEW f, NEW P, NEW Q, P \subseteq Q, NEW s, Form(s, f, P)
    PROVE  Form(s, f, Q)
<1>1. \A fr, b : Stands(fr, b, f, P) => Stands(fr, b, f, Q)
  BY DEF Stands
<1> QED BY <1>1 DEF Form
-------------------------------------------------------------------------------
(* The count of busy sections.                                              *)

(* A frame fr counts that has a frame of kind a above it and b below.       *)
Counts(a, fr, b) ==
    \/ fr.k = "await" /\ Foreground(b.o)
    \/ fr.k = "wait" /\ fr.x # Pending /\ Foreground(fr.o)
    \/ fr.k = "inline" /\ Foreground(fr.o) /\ a = "code"
One(a, fr, b) == IF Counts(a, fr, b) THEN 1 ELSE 0

(* Those of a stack s that has a frame of kind a on top of it.              *)
Counting(a, s) == {i \in DOMAIN s : Counts(IF i = 1 THEN a ELSE s[i - 1].k, s[i], s[i + 1])}
Load(a, s) == Cardinality(Counting(a, s))

(* They are finitely many.                                                  *)
LEMMA LoadFinite ==
    ASSUME NEW a, NEW s \in Seq(Frames)
    PROVE  IsFiniteSet(Counting(a, s)) /\ Load(a, s) \in Nat
<1>1. DOMAIN s = 1 .. Len(s) /\ Len(s) \in Nat /\ Counting(a, s) \subseteq 1 .. Len(s)
  BY DEF Counting
<1>2. IsFiniteSet(1 .. Len(s))
  BY <1>1, FS_Interval
<1> QED BY <1>1, <1>2, FS_Subset, FS_CardinalityType DEF Load

(* What is at the bottom does not count.                                    *)
LEMMA BottomIsIdle ==
    ASSUME NEW fr, fr.k \in Bottom
    PROVE  \A a, b : ~Counts(a, fr, b)
BY DEF Counts, Bottom

(* The count of a stack with another frame on top.                          *)
LEMMA LoadPush ==
    ASSUME NEW a, NEW fr \in Frames, NEW B, NEW f, NEW s, WellFormed(s, B, f)
    PROVE  Load(a, <<fr>> \o s) = Load(fr.k, s) + One(a, fr, Head(s))
<1> DEFINE r == <<fr>> \o s
           S == Counting(fr.k, s)
           R == Counting(a, r)
           T == {i + 1 : i \in S}
<1>0. s \in Seq(Frames) /\ s # <<>> /\ (\A i \in DOMAIN s : s[i].k \in Bottom <=> i = Len(s))
  BY DEF WellFormed
<1>1. /\ DOMAIN r = 1 .. Len(s) + 1 /\ r[1] = fr
      /\ \A i \in 1 .. Len(s) : r[i + 1] = s[i]
      /\ DOMAIN s = 1 .. Len(s) /\ Len(s) \in Nat \ {0} /\ Head(s) = s[1] /\ r \in Seq(Frames)
  <2>1. /\ \A i \in 1 .. Len(s) + 1 : r[i] = IF i = 1 THEN fr ELSE s[i - 1]
        /\ Len(r) = Len(s) + 1 /\ DOMAIN r = 1 .. Len(s) + 1 /\ r \in Seq(Frames)
    BY <1>0, Pushed
  <2>2. DOMAIN s = 1 .. Len(s) /\ Len(s) \in Nat \ {0} /\ Head(s) = s[1]
    BY <1>0, Popped
  <2> HIDE DEF r
  <2> QED BY <2>1, <2>2
<1> HIDE DEF r
<1>2. S \subseteq 1 .. Len(s) /\ IsFiniteSet(S) /\ Cardinality(S) = Load(fr.k, s) /\ Load(fr.k, s) \in Nat
  BY <1>0, <1>1, LoadFinite DEF Load, Counting
<1>3. ASSUME NEW i \in 1 .. Len(s) PROVE i + 1 \in R <=> i \in S
  <2>1. /\ i + 1 \in DOMAIN r /\ i + 1 # 1 /\ r[i + 1] = s[i] /\ (i + 1) - 1 = i /\ i \in DOMAIN s
    BY <1>1
  <2>2. r[i].k = (IF i = 1 THEN fr.k ELSE s[i - 1].k)
    <3>1. i # 1 => i - 1 \in 1 .. Len(s) /\ (i - 1) + 1 = i
      BY <1>1
    <3> QED BY <1>1, <3>1
  <2>3. i + 1 \in R <=> Counts(r[i].k, s[i], r[(i + 1) + 1])
    BY <2>1 DEF Counting
  <2>4. i \in S <=> Counts(r[i].k, s[i], s[i + 1])
    BY <2>1, <2>2 DEF Counting
  <2>5. CASE i = Len(s)
    <3>1. s[i].k \in Bottom
      BY <1>0, <2>1, <2>5
    <3>2. \A b, c : ~Counts(b, s[i], c)
      BY <3>1, BottomIsIdle
    <3> QED BY <2>3, <2>4, <3>2
  <2>6. CASE i # Len(s)
    <3>1. i + 1 \in 1 .. Len(s)
      <4>1. Len(s) \in Nat
        BY <1>1
      <4> QED BY <2>6, <4>1
    <3>2. r[(i + 1) + 1] = s[i + 1]
      BY <1>1, <3>1
    <3> QED BY <2>3, <2>4, <3>2
  <2> QED BY <2>5, <2>6
<1>4. T \subseteq R /\ R \subseteq T \cup {1} /\ 1 \notin T
  <2>1. T \subseteq R
    BY <1>2, <1>3
  <2>2. ASSUME NEW j \in R, j # 1 PROVE j \in T
    <3>1. j - 1 \in 1 .. Len(s) /\ (j - 1) + 1 = j
      BY <1>1, <2>2 DEF Counting
    <3>2. j - 1 \in S
      BY <1>3, <2>2, <3>1
    <3> QED BY <3>1, <3>2
  <2>3. 1 \notin T
    BY <1>2
  <2> QED BY <2>1, <2>2, <2>3
<1>5. 1 \in R <=> Counts(a, fr, Head(s))
  <2>1. 1 \in DOMAIN r /\ r[1 + 1] = s[1]
    BY <1>1
  <2> QED BY <1>1, <2>1 DEF Counting
<1>6. IsFiniteSet(T) /\ Cardinality(T) = Cardinality(S)
  <2> DEFINE up == [i \in S |-> i + 1]
  <2>1. up \in [S -> T] /\ \A i, j \in S : up[i] = up[j] => i = j
    BY <1>2
  <2>2. up \in Bijection(S, T)
    <3>1. \A j \in T : \E i \in S : up[i] = j
      OBVIOUS
    <3> QED BY <2>1, <3>1 DEF Bijection, Injection, Surjection, IsInjective
  <2> QED BY <1>2, <2>2, FS_Bijection DEF ExistsBijection
<1>7. ASSUME Counts(a, fr, Head(s)) PROVE Load(a, r) = Load(fr.k, s) + One(a, fr, Head(s))
  <2>1. R = T \cup {1}
    BY <1>4, <1>5, <1>7
  <2>2. Cardinality(R) = Cardinality(T) + 1
    BY <1>4, <1>6, <2>1, FS_AddElement
  <2> QED BY <1>2, <1>6, <1>7, <2>2 DEF Load, One
<1>8. ASSUME ~Counts(a, fr, Head(s)) PROVE Load(a, r) = Load(fr.k, s) + One(a, fr, Head(s))
  <2>1. R = T
    BY <1>4, <1>5, <1>8
  <2> QED BY <1>2, <1>6, <1>8, <2>1 DEF Load, One
<1>9. Load(a, r) = Load(fr.k, s) + One(a, fr, Head(s))
  BY <1>7, <1>8
<1> QED BY <1>9 DEF r

(* The count of a stack without its top.                                    *)
LEMMA LoadPop ==
    ASSUME NEW a, NEW B, NEW f, NEW s, WellFormed(s, B, f), Head(s).k \notin Bottom
    PROVE  Load(a, s) = Load(Head(s).k, Tail(s)) + One(a, Head(s), Head(Tail(s)))
<1>1. s \in Seq(Frames) /\ s # <<>> /\ WellFormed(Tail(s), B, f) /\ Head(s) \in Frames
  BY Pop DEF WellFormed
<1>2. <<Head(s)>> \o Tail(s) = s
  BY <1>1
<1>3. Load(a, <<Head(s)>> \o Tail(s)) = Load(Head(s).k, Tail(s)) + One(a, Head(s), Head(Tail(s)))
  BY <1>1, LoadPush
<1> QED BY <1>2, <1>3

(* The bottom alone.                                                        *)
LEMMA LoadGround ==
    ASSUME NEW a, NEW fr \in Frames, fr.k \in Bottom
    PROVE  Load(a, <<fr>>) = 0
<1>1. DOMAIN <<fr>> = {1} /\ <<fr>>[1] = fr
  OBVIOUS
<1>2. Counting(a, <<fr>>) = {}
  BY <1>1, BottomIsIdle DEF Counting
<1> QED BY <1>2, FS_EmptySet DEF Load

(* What is above matters to an inline execution only.                       *)
LEMMA LoadAbove ==
    ASSUME NEW a, NEW c, NEW B, NEW f, NEW s, WellFormed(s, B, f)
    PROVE  /\ Head(s).k # "inline" => Load(a, s) = Load(c, s)
           /\ Head(s).k = "inline" /\ c # "code" =>
                Load("code", s) = Load(c, s) + Weight(Head(s).o)
           /\ a # "code" /\ c # "code" => Load(a, s) = Load(c, s)
           /\ Load(a, s) \in Nat
<1>0. Load(a, s) \in Nat /\ Load(c, s) \in Nat
  BY LoadFinite DEF WellFormed
<1>1. CASE Head(s).k \in Bottom
  <2>1. s \in Seq(Frames) /\ s # <<>> /\ Len(s) = 1 /\ Head(s) \in Frames
    <3>1. s \in Seq(Frames) /\ s # <<>>
      BY DEF WellFormed
    <3> QED BY <1>1, <3>1, AtBottom, Pop
  <2>2. s = <<Head(s)>>
    BY <2>1
  <2>3. Load(a, <<Head(s)>>) = 0 /\ Load(c, <<Head(s)>>) = 0
    BY <1>1, <2>1, LoadGround
  <2>4. Load(a, s) = 0 /\ Load(c, s) = 0 /\ Head(s).k # "inline"
    BY <1>1, <2>2, <2>3 DEF Bottom
  <2> QED BY <1>0, <2>4
<1>2. CASE Head(s).k \notin Bottom
  <2>1. /\ Load(a, s) = Load(Head(s).k, Tail(s)) + One(a, Head(s), Head(Tail(s)))
        /\ Load(c, s) = Load(Head(s).k, Tail(s)) + One(c, Head(s), Head(Tail(s)))
        /\ Load("code", s) = Load(Head(s).k, Tail(s)) + One("code", Head(s), Head(Tail(s)))
    BY <1>2, LoadPop
  <2>2. Load(Head(s).k, Tail(s)) \in Nat
    BY <1>2, Pop, LoadFinite DEF WellFormed
  <2>3. Head(s).k # "inline" => One(a, Head(s), Head(Tail(s))) = One(c, Head(s), Head(Tail(s)))
    BY DEF One, Counts
  <2>4. Head(s).k = "inline" /\ c # "code" =>
          One(c, Head(s), Head(Tail(s))) = 0 /\ One("code", Head(s), Head(Tail(s))) = Weight(Head(s).o)
    BY DEF One, Counts, Weight
  <2>5. a # "code" /\ c # "code" => One(a, Head(s), Head(Tail(s))) = One(c, Head(s), Head(Tail(s)))
    BY DEF One, Counts
  <2>6. Weight(Head(s).o) \in Int /\ \A d : One(d, Head(s), Head(Tail(s))) \in Int
    BY DEF Weight, One
  <2>7. Head(s).k # "inline" => Load(a, s) = Load(c, s)
    BY <2>1, <2>3
  <2>8. Head(s).k = "inline" /\ c # "code" => Load("code", s) = Load(c, s) + Weight(Head(s).o)
    <3> SUFFICES ASSUME Head(s).k = "inline", c # "code" PROVE Load("code", s) = Load(c, s) + Weight(Head(s).o)
      OBVIOUS
    <3> DEFINE x == Load(Head(s).k, Tail(s))
               w == Weight(Head(s).o)
    <3>1. Load("code", s) = x + w /\ Load(c, s) = x + 0 /\ x \in Nat /\ w \in Int
      BY <2>1, <2>2, <2>4, <2>6
    <3> HIDE DEF x, w
    <3>2. Load("code", s) = Load(c, s) + w
      BY <3>1
    <3> QED BY <3>2 DEF w
  <2>9. a # "code" /\ c # "code" => Load(a, s) = Load(c, s)
    BY <2>1, <2>5
  <2> QED BY <1>0, <2>7, <2>8, <2>9
<1> QED BY <1>1, <1>2
(* The stacks in which something counts, and how much.                      *)
Loaded(f) == Counting(stack[f][0].k, stack[f])
Total(s) == Load("none", s)

(* The busy frames, fiber by fiber.                                         *)
Spread ==
    /\ \A p \in BusyFrames : p = <<p[1], p[2]>> /\ p[1] \in Fiber
    /\ \A f, i : <<f, i>> \in BusyFrames <=> f \in Fiber /\ i \in Loaded(f)
(* This is how they are spread.                                             *)
LEMMA BusyByFiber == Spread
<1>1. ASSUME NEW f, NEW i PROVE <<f, i>> \in BusyFrames <=> f \in Fiber /\ i \in Loaded(f)
  <2>1. (IF i = 1 THEN stack[f][0].k ELSE stack[f][i - 1].k) = stack[f][i - 1].k
    OBVIOUS
  <2>2. i \in Loaded(f) <=> i \in DOMAIN stack[f] /\ Counts(stack[f][i - 1].k, stack[f][i], stack[f][i + 1])
    BY <2>1 DEF Loaded, Counting
  <2>3. <<f, i>> \in BusyFrames <=>
          /\ <<f, i>> \in UNION {{g} \X DOMAIN stack[g] : g \in Fiber}
          /\ Counts(stack[f][i - 1].k, stack[f][i], stack[f][i + 1])
    BY DEF BusyFrames, Counts
  <2>4. <<f, i>> \in UNION {{g} \X DOMAIN stack[g] : g \in Fiber} <=> f \in Fiber /\ i \in DOMAIN stack[f]
    OBVIOUS
  <2> QED BY <2>2, <2>3, <2>4
<1>2. \A p \in BusyFrames : p = <<p[1], p[2]>> /\ p[1] \in Fiber
  BY DEF BusyFrames
<1> QED BY <1>1, <1>2 DEF Spread

(* There are finitely many.                                                 *)
LEMMA BusyFinite ==
    ASSUME StacksOK
    PROVE  IsFiniteSet(BusyFrames)
<1> DEFINE Places(f) == {f} \X DOMAIN stack[f]
           S == {Places(f) : f \in Fiber}
           F == [f \in Fiber |-> Places(f)]
<1>1. IsFiniteSet(Fiber)
  <2>1. IsFiniteSet(Tasks \cup {Root})
    BY SetsAssumption, FS_AddElement
  <2>2. IsFiniteSet((Tasks \cup {Root}) \cup {Runner})
    BY <2>1, FS_AddElement
  <2> QED BY <2>2 DEF Fiber, Owners
<1>2. IsFiniteSet(S)
  <2>1. F \in Surjection(Fiber, S)
    BY DEF Surjection
  <2> QED BY <1>1, <2>1, FS_Surjection
<1>3. ASSUME NEW T \in S PROVE IsFiniteSet(T)
  <2>1. PICK f \in Fiber : T = Places(f)
    OBVIOUS
  <2>2. stack[f] \in Seq(Frames)
    BY DEF StacksOK
  <2>3. DOMAIN stack[f] = 1 .. Len(stack[f]) /\ Len(stack[f]) \in Nat
    BY <2>2
  <2>4. IsFiniteSet(DOMAIN stack[f])
    BY <2>3, FS_Interval
  <2>5. IsFiniteSet({f})
    BY FS_Singleton
  <2>6. IsFiniteSet({f} \X DOMAIN stack[f])
    BY <2>4, <2>5, FS_Product
  <2> QED BY <2>1, <2>6
<1>4. IsFiniteSet(UNION S)
  BY <1>2, <1>3, FS_UNION
<1>5. BusyFrames \subseteq UNION S
  BY DEF BusyFrames
<1> QED BY <1>4, <1>5, FS_Subset

(* The busy frames of one fiber f, and the rest.                            *)
Rests(f) == {p \in BusyFrames : p[1] # f}
Split(f) ==
    /\ IsFiniteSet(Rests(f)) /\ Cardinality(Rests(f)) \in Nat
    /\ Cardinality(BusyFrames) = Cardinality(Rests(f)) + Total(stack[f])
Splits == \A f \in Fiber : Head(stack[f]).k # "inline" => Split(f)
(* The busy frames are those of one fiber and the rest.                     *)
LEMMA BusyApart == StacksOK => Splits
<1> SUFFICES ASSUME StacksOK, NEW f \in Fiber, Head(stack[f]).k # "inline" PROVE Split(f)
  BY DEF Splits
<1>0. WellFormed(stack[f], Begun, f)
  BY DEF StacksOK
<1> DEFINE A == Rests(f)
           C == {f} \X Loaded(f)
<1>1. IsFiniteSet(BusyFrames) /\ A \subseteq BusyFrames
  BY BusyFinite DEF Rests
<1>2. IsFiniteSet(A) /\ Cardinality(A) \in Nat
  BY <1>1, FS_Subset, FS_CardinalityType
<1>3. BusyFrames = A \cup C /\ A \cap C = {}
  BY BusyByFiber DEF Rests, Spread
<1>4. IsFiniteSet(Loaded(f)) /\ Cardinality(Loaded(f)) = Total(stack[f]) /\ Total(stack[f]) \in Nat
  <2>1. stack[f] \in Seq(Frames)
    BY <1>0 DEF WellFormed
  <2>2. Load(stack[f][0].k, stack[f]) = Load("none", stack[f]) /\ Load("none", stack[f]) \in Nat
    BY <1>0, LoadAbove
  <2> QED BY <2>1, <2>2, LoadFinite DEF Loaded, Load, Total
<1>5. IsFiniteSet({f}) /\ Cardinality({f}) = 1
  BY FS_Singleton
<1>6. IsFiniteSet(C) /\ Cardinality(C) = 1 * Cardinality(Loaded(f))
  BY <1>4, <1>5, FS_Product
<1>7. Cardinality(BusyFrames) = Cardinality(A) + Cardinality(C) - Cardinality({})
  BY <1>2, <1>3, <1>6, FS_Union
<1>8. Cardinality({}) = 0
  BY FS_EmptySet
<1> HIDE DEF A, C
<1>9. Cardinality(BusyFrames) = Cardinality(A) + Total(stack[f])
  BY <1>2, <1>4, <1>6, <1>7, <1>8
<1> QED BY <1>2, <1>9 DEF A, Split

(* The count stays right when it changes by what the running fiber takes on *)
(* or gives up.                                                             *)
LEMMA BusyChange ==
    ASSUME Inv, Inv', BusyBalance, fiber \in Fiber, Head(stack[fiber]).k # "inline",
           NEW r, stack'[fiber] = r, Head(r).k # "inline",
           \A f \in Fiber \ {fiber} : Loaded(f)' = Loaded(f),
           stopped' = {} => stopped = {} /\ busy' = busy + Total(r) - Total(stack[fiber])
    PROVE  BusyBalance'
<1>1. PICK f : f = fiber
  OBVIOUS
<1>2. f \in Fiber /\ stack'[f] = r /\ \A g \in Fiber \ {f} : Loaded(g)' = Loaded(g)
  BY <1>1
<1>3. StacksOK /\ WellFormed(stack[f], Begun, f) /\ StacksOK' /\ WellFormed(stack'[f], Begun', f)
  BY <1>2 DEF Inv, StacksOK
<1>4. Split(f) /\ Split(f)'
  <2>1. Splits /\ Splits'
    BY <1>3, BusyApart, PTL
  <2> QED BY <1>1, <1>2, <2>1 DEF Splits
<1>5. Rests(f)' = Rests(f)
  <2>1. /\ \A p \in BusyFrames' : p = <<p[1], p[2]>> /\ p[1] \in Fiber
        /\ \A g, i : <<g, i>> \in BusyFrames' <=> g \in Fiber /\ i \in Loaded(g)'
    <3>1. Spread'
      BY BusyByFiber, PTL
    <3> QED BY <3>1 DEF Spread
  <2>2. Rests(f)' = {p \in BusyFrames' : p[1] # f}
    BY DEF Rests
  <2>3. ASSUME NEW p PROVE p \in Rests(f)' <=> p \in Rests(f)
    BY <1>2, <2>1, <2>2, BusyByFiber DEF Rests, Spread
  <2> QED BY <2>3
<1>6. Load("none", r) \in Nat /\ Load("none", stack[f]) \in Nat
  BY <1>2, <1>3, LoadAbove
<1>7. /\ Cardinality(BusyFrames) = Cardinality(Rests(f)) + Total(stack[f])
      /\ Cardinality(BusyFrames)' = Cardinality(Rests(f)) + Total(r)
  BY <1>2, <1>4, <1>5 DEF Split
<1>8. busy \in Int /\ Cardinality(Rests(f)) \in Nat
  BY <1>4 DEF Inv, RestOK, Split
<1> SUFFICES ASSUME stopped' = {} PROVE busy' = Cardinality(BusyFrames)'
  BY DEF BusyBalance
<1>9. busy = Cardinality(BusyFrames) /\ busy' = busy + Total(r) - Total(stack[f])
  BY <1>1 DEF BusyBalance
<1> QED BY <1>6, <1>7, <1>8, <1>9 DEF Total
-------------------------------------------------------------------------------
(* What a step does to the parts of the invariant.                          *)

(* The running fiber goes on with stack r, the others stay where they are.  *)
Mine(r) == stack'[fiber] = r /\ \A f \in Fiber : f # fiber => stack'[f] = stack[f]

(* So it is when only the running fiber has a step to make.                 *)
LEMMA GotoMine ==
    ASSUME Inv, fiber \in Fiber, NEW r, Goto(r)
    PROVE  Mine(r)
BY DEF Inv, StacksOK, Goto, Mine

(* Who gets control is a fiber.                                             *)
LEMMA LineFibers ==
    ASSUME Inv
    PROVE  fibers \in Seq(Fiber) /\ spawned \subseteq Fiber /\ Root \in Fiber /\ Runner \in Fiber
<1>1. Live \subseteq Fiber /\ spawned \subseteq Fiber /\ Root \in Fiber /\ Runner \in Fiber
  BY DEF Inv, StatusOK, Begun, Live, Fiber, Owners
<1> QED BY <1>1, SeqMonotonic DEF Inv, FibersOK

(* Forms.                                                                   *)
LEMMA FormsStep ==
    ASSUME FormsOK, NEW r, Mine(r), Form(r, fiber, spawned'), Head(r).k # "inline",
           spawned \subseteq spawned', Finals \subseteq Finals'
    PROVE  FormsOK'
<1> SUFFICES ASSUME NEW f \in Fiber
             PROVE  Form(stack'[f], f, spawned') /\ Head(stack'[f]).k # "inline"
  BY DEF FormsOK
<1>1. CASE f = fiber
  BY <1>1 DEF Mine
<1>2. CASE f # fiber
  <2>1. stack'[f] = stack[f] /\ Form(stack[f], f, spawned) /\ Head(stack[f]).k # "inline"
    BY <1>2 DEF Mine, FormsOK
  <2>2. Form(stack[f], f, spawned')
    BY <2>1, FormGrow
  <2> QED BY <2>1, <2>2
<1> QED BY <1>1, <1>2

(* Tasks that are over.                                                     *)
LEMMA TasksStep ==
    ASSUME TasksOK, Inv, NEW r, Mine(r), UNCHANGED spawned,
           Begun \subseteq Begun', stopped \subseteq stopped',
           \A t \in spawned : Settled(t) => Settled(t)',
           \A t \in spawned : Settled(t)' => Settled(t) \/ t = fiber,
           \A t \in spawned : t = fiber /\ Settled(t)' => r[Len(r)].k = "end",
           \A t \in disposed' : \/ t \in disposed
                                \/ t \notin spawned /\ (t \in Begun' \/ stopped' # {})
                                \/ t \in Begun' /\ Settled(t)' /\ t \notin Gets',
           \A t \in disposed \cap spawned : t \notin Gets'
    PROVE  TasksOK'
<1>1. ASSUME NEW t \in spawned', Settled(t)' PROVE stack'[t][Len(stack'[t])].k = "end"
  <2>1. CASE t = fiber
    BY <1>1, <2>1 DEF Mine
  <2>2. CASE t # fiber
    <3>1. t \in Fiber /\ stack'[t] = stack[t]
      BY <1>1, <2>2, LineFibers DEF Mine
    <3> QED BY <1>1, <2>2, <3>1 DEF TasksOK
  <2> QED BY <2>1, <2>2
<1>2. ASSUME NEW t \in (disposed \cap spawned)' PROVE Settled(t)' /\ t \notin Gets'
  BY <1>2 DEF TasksOK
<1>3. stopped' = {} => disposed' \subseteq Begun'
  BY DEF TasksOK
<1> QED BY <1>1, <1>2, <1>3 DEF TasksOK

(* Control stays, goes to another fiber, or back.                           *)
LEMMA LineStay ==
    ASSUME Inv, LineOK, NEW r, Mine(r), Head(r).k # "resched", UNCHANGED <<fiber, fibers>>
    PROVE  LineOK'
<1>1. \A g \in ToSet(fibers) : g \in Fiber /\ g # fiber /\ stack'[g] = stack[g]
  BY LineFibers DEF LineOK, Mine, ToSet
<1>2. \A i \in DOMAIN fibers : fibers[i] \in ToSet(fibers)
  BY DEF ToSet
<1>3. \A g : ~Resumes(fiber, g)'
  BY DEF Resumes, Mine, Resched, Frame
<1>4. \A i, j \in DOMAIN fibers : Resumes(fibers[i], fibers[j])' <=> Resumes(fibers[i], fibers[j])
  BY <1>1, <1>2 DEF Resumes
<1>5. \A g \in ToSet(fibers) : Head(stack'[g]).k \notin Stopping
  BY <1>1 DEF LineOK
<1>6. \A i, j \in DOMAIN fibers : j > i => ~Resumes(fibers[i], fibers[j])'
  BY <1>4 DEF LineOK
<1> QED BY <1>3, <1>5, <1>6 DEF LineOK

(* The running fiber suspends.                                              *)
LEMMA LineSuspend ==
    ASSUME Inv, LineOK, NEW r, Mine(r), Suspend
    PROVE  /\ LineOK' /\ Gets' \subseteq (Gets \ {fiber}) \cup {Runner}
           /\ \/ fiber' = Runner /\ fibers' = <<>>
              \/ fiber' \in ToSet(fibers) /\ fiber' # fiber
<1>0. fibers \in Seq(Fiber) /\ Runner \in Fiber
  BY LineFibers
<1>1. CASE fibers = <<>>
  <2>1. fiber' = Runner /\ fibers' = <<>>
    BY <1>1 DEF Suspend, SwitchNone
  <2>2. ToSet(fibers') = {} /\ DOMAIN fibers' = {}
    BY <2>1, NoElements
  <2>3. Gets' = {Runner}
    BY <2>1, <2>2 DEF Gets
  <2>4. Runner # NoFiber /\ Runner \notin Tasks /\ Single(fibers', Fiber)
    <3>1. Runner # NoFiber /\ Runner \notin Tasks
      BY <1>0, NamesAssumption
    <3> QED BY <2>1, <2>2, <3>1 DEF Single
  <2> QED BY <2>1, <2>2, <2>3, <2>4 DEF LineOK
<1>2. CASE fibers # <<>>
  <2> DEFINE p == Tail(fibers)
  <2>1. fiber' = fibers[1] /\ fibers' = p /\ fibers[1] = Head(fibers)
    BY <1>0, <1>2 DEF Suspend
  <2>2. /\ p \in Seq(Fiber) /\ Len(p) = Len(fibers) - 1 /\ DOMAIN p = 1 .. Len(fibers) - 1
        /\ \A i \in 1 .. Len(fibers) - 1 : p[i] = fibers[i + 1] /\ i + 1 \in DOMAIN fibers
        /\ Len(fibers) \in Nat \ {0} /\ DOMAIN fibers = 1 .. Len(fibers)
    BY <1>0, <1>2
  <2> HIDE DEF p
  <2>3. Single(fibers, Fiber) /\ 1 \in DOMAIN fibers /\ fibers[1] \in Fiber
    BY <1>0, <2>2 DEF LineOK
  <2>4. Single(p, Fiber) /\ ToSet(p) = ToSet(fibers) \ {fibers[1]} /\ fibers[1] \in ToSet(fibers)
    BY <1>0, <1>2, <2>1, <2>3, OnceTail DEF p
  <2>5. \A g \in ToSet(fibers) : g \in Fiber /\ g # fiber /\ stack'[g] = stack[g] /\ g # NoFiber
    BY LineFibers, NamesAssumption DEF LineOK, Mine, ToSet
  <2>6. \A g \in ToSet(p) : Head(stack'[g]).k \notin Stopping /\ Head(stack'[fibers[1]]) # Resched(g)
    <3>1. ASSUME NEW g \in ToSet(p) PROVE ~Resumes(fibers[1], g)
      <4>1. PICK i \in DOMAIN p : g = p[i]
        BY DEF ToSet
      <4>2. g = fibers[i + 1] /\ i + 1 \in DOMAIN fibers /\ i + 1 > 1
        BY <2>2, <4>1
      <4> QED BY <2>3, <4>2 DEF LineOK
    <3>2. ASSUME NEW g \in ToSet(p) PROVE Head(stack'[fibers[1]]) # Resched(g)
      BY <2>4, <2>5, <3>1 DEF Resumes
    <3> QED BY <2>4, <2>5, <3>2 DEF LineOK
  <2>7. ASSUME NEW i \in DOMAIN p, p[i] = Runner PROVE i = Len(p)
    <3>1. i + 1 \in DOMAIN fibers /\ fibers[i + 1] = Runner
      BY <2>2, <2>7
    <3>2. i + 1 = Len(fibers)
      BY <3>1 DEF LineOK
    <3> QED BY <2>2, <3>2
  <2>8. p # <<>> => p[Len(p)] \in {Root, Runner}
    <3> SUFFICES ASSUME p # <<>> PROVE p[Len(p)] \in {Root, Runner}
      OBVIOUS
    <3>1. Len(p) \in 1 .. Len(fibers) - 1 /\ Len(p) + 1 = Len(fibers)
      BY <2>2
    <3>2. p[Len(p)] = fibers[Len(fibers)]
      BY <2>2, <3>1
    <3> QED BY <1>2, <3>2 DEF LineOK
  <2>9. ASSUME NEW i \in DOMAIN p, NEW j \in DOMAIN p, j > i PROVE Head(stack'[p[i]]) # Resched(p[j])
    <3>1. i + 1 \in DOMAIN fibers /\ j + 1 \in DOMAIN fibers /\ j + 1 > i + 1
          /\ p[i] = fibers[i + 1] /\ p[j] = fibers[j + 1]
      BY <2>2, <2>9
    <3>2. ~Resumes(fibers[i + 1], fibers[j + 1])
      BY <3>1 DEF LineOK
    <3>3. stack'[p[i]] = stack[p[i]]
      <4>1. p[i] \in ToSet(fibers)
        BY <3>1 DEF ToSet
      <4> QED BY <2>5, <4>1
    <3> QED BY <3>1, <3>2, <3>3 DEF Resumes
  <2>10. fibers[1] = Runner => p = <<>>
    <3> SUFFICES ASSUME fibers[1] = Runner PROVE p = <<>>
      OBVIOUS
    <3>1. Len(fibers) = 1
      BY <2>3 DEF LineOK
    <3>2. Len(p) = 0
      BY <2>2, <3>1
    <3> QED BY <2>2, <3>2
  <2>11. fibers[1] \in Tasks => p # <<>>
    <3> SUFFICES ASSUME fibers[1] \in Tasks, p = <<>> PROVE FALSE
      OBVIOUS
    <3>1. Len(fibers) = 1
      BY <2>2
    <3>2. fibers[1] \in {Root, Runner}
      BY <1>2, <3>1 DEF LineOK
    <3> QED BY <3>2, NamesAssumption
  <2>12. fiber' # NoFiber /\ fiber' \notin ToSet(fibers')
    BY <2>1, <2>4, <2>5
  <2>14. LineOK'
    <3>1. \A i, j \in DOMAIN fibers' : j > i => Head(stack'[fibers'[i]]) # Resched(fibers'[j])
      BY <2>1, <2>9
    <3>2. \A g \in ToSet(fibers') : Head(stack'[g]).k \notin Stopping /\ Head(stack'[fiber']) # Resched(g)
      BY <2>1, <2>6
    <3>3. \A i \in DOMAIN fibers' : fibers'[i] = Runner => i = Len(fibers')
      BY <2>1, <2>7
    <3>4. /\ fibers' # <<>> => fibers'[Len(fibers')] \in {Root, Runner}
          /\ fiber' = Runner => fibers' = <<>>
          /\ fiber' \in Tasks => fibers' # <<>>
          /\ Single(fibers', Fiber)
      BY <2>1, <2>4, <2>8, <2>10, <2>11
    <3> QED BY <2>12, <3>1, <3>2, <3>3, <3>4 DEF LineOK, Resumes
  <2>15. Gets' \subseteq (Gets \ {fiber}) \cup {Runner} /\ fiber' \in ToSet(fibers) /\ fiber' # fiber
    BY <2>1, <2>4, <2>5 DEF Gets
  <2> QED BY <2>14, <2>15
<1> QED BY <1>1, <1>2

(* The running fiber resumes n.                                             *)
LEMMA LineSwitch ==
    ASSUME Inv, LineOK, NEW r, stack'[fiber] = r, NEW n \in Fiber, Switch(n), fiber \in Fiber,
           \A f \in Fiber : f # fiber /\ f # n => stack'[f] = stack[f],
           n # Runner, n # fiber, n \notin ToSet(fibers), Head(stack'[n]).k # "resched",
           Head(r).k \notin Stopping, Head(r).k = "resched" => Head(r).x = n
    PROVE  /\ LineOK' /\ Gets' = Gets \cup {n}
           /\ fiber' = n /\ fibers' # <<>> /\ fiber \in ToSet(fibers')
<1> DEFINE p == <<fiber>> \o fibers
<1>0. fibers \in Seq(Fiber) /\ Single(fibers, Fiber) /\ fiber \notin ToSet(fibers)
  BY LineFibers DEF LineOK
<1>1. fiber' = n /\ fibers' = p
  BY <1>0 DEF Switch
<1>2. /\ p \in Seq(Fiber) /\ Len(p) = Len(fibers) + 1 /\ DOMAIN p = 1 .. Len(fibers) + 1 /\ p # <<>>
      /\ p[1] = fiber /\ \A i \in 2 .. Len(fibers) + 1 : p[i] = fibers[i - 1] /\ i - 1 \in DOMAIN fibers
      /\ Len(fibers) \in Nat /\ DOMAIN fibers = 1 .. Len(fibers)
  <2>1. /\ p \in Seq(Fiber) /\ Len(p) = Len(fibers) + 1 /\ DOMAIN p = 1 .. Len(fibers) + 1
        /\ \A i \in 1 .. Len(fibers) + 1 : p[i] = IF i = 1 THEN fiber ELSE fibers[i - 1]
    BY <1>0
  <2>2. Len(fibers) \in Nat /\ DOMAIN fibers = 1 .. Len(fibers)
    BY <1>0
  <2> HIDE DEF p
  <2>3. p # <<>> /\ p[1] = fiber
    BY <2>1, <2>2
  <2>4. \A i \in 2 .. Len(fibers) + 1 : p[i] = fibers[i - 1] /\ i - 1 \in DOMAIN fibers
    BY <2>1, <2>2
  <2> QED BY <2>1, <2>2, <2>3, <2>4
<1>3. ToSet(p) = {fiber} \cup ToSet(fibers)
  BY <1>0, PrependedSet
<1>4. Single(p, Fiber)
  <2>1. \A i \in DOMAIN fibers : fibers[i] # fiber
    BY <1>0 DEF ToSet
  <2> QED BY <1>0, <2>1, SinglePush
<1> HIDE DEF p
<1>5. /\ \A g \in ToSet(fibers) : g \in Fiber /\ g # fiber /\ g # n /\ stack'[g] = stack[g]
      /\ stack'[fiber] = r /\ n # NoFiber
  <2>1. \A g \in ToSet(fibers) : g \in Fiber /\ g # fiber /\ g # n
    BY LineFibers DEF LineOK, ToSet
  <2> QED BY <2>1, NamesAssumption
<1>6. \A g : Head(stack'[n]) # Resched(g)
  BY DEF Resched, Frame
<1>7. \A g \in ToSet(p) : Head(stack'[g]).k \notin Stopping
  BY <1>3, <1>5 DEF LineOK
<1>8. ASSUME NEW i \in DOMAIN p, p[i] = Runner PROVE i = Len(p)
  <2>1. CASE i = 1
    <3>1. fibers = <<>>
      BY <1>2, <1>8, <2>1 DEF LineOK
    <3> QED BY <1>2, <2>1, <3>1
  <2>2. CASE i # 1
    <3>1. i \in 2 .. Len(fibers) + 1
      BY <1>2, <2>2
    <3>2. i - 1 \in DOMAIN fibers /\ fibers[i - 1] = Runner
      BY <1>2, <1>8, <3>1
    <3>3. i - 1 = Len(fibers)
      BY <3>2 DEF LineOK
    <3> QED BY <1>2, <3>1, <3>3
  <2> QED BY <2>1, <2>2
<1>9. p[Len(p)] \in {Root, Runner}
  <2>1. CASE fibers = <<>>
    <3>1. fiber \notin Tasks
      BY <2>1 DEF LineOK
    <3>2. p[Len(p)] = fiber
      BY <1>2, <2>1
    <3> QED BY <3>1, <3>2 DEF Fiber, Owners
  <2>2. CASE fibers # <<>>
    <3>1. Len(p) \in 2 .. Len(fibers) + 1 /\ Len(p) - 1 = Len(fibers)
      BY <1>0, <1>2, <2>2
    <3>2. p[Len(p)] = fibers[Len(fibers)]
      BY <1>2, <3>1
    <3> QED BY <2>2, <3>2 DEF LineOK
  <2> QED BY <2>1, <2>2
<1>10. ASSUME NEW i \in DOMAIN p, NEW j \in DOMAIN p, j > i PROVE Head(stack'[p[i]]) # Resched(p[j])
  <2>1. j \in 2 .. Len(fibers) + 1
    BY <1>2, <1>10
  <2>2. p[j] = fibers[j - 1] /\ j - 1 \in DOMAIN fibers /\ p[j] \in ToSet(fibers)
    BY <1>2, <2>1 DEF ToSet
  <2>3. CASE i = 1
    <3>1. p[i] = fiber /\ p[j] # n
      BY <1>2, <1>5, <2>2, <2>3
    <3> QED BY <3>1 DEF Resched, Frame
  <2>4. CASE i # 1
    <3>1. i \in 2 .. Len(fibers) + 1
      BY <1>2, <2>4
    <3>2. p[i] = fibers[i - 1] /\ i - 1 \in DOMAIN fibers /\ p[i] \in ToSet(fibers) /\ j - 1 > i - 1
      BY <1>2, <1>10, <2>1, <3>1 DEF ToSet
    <3>3. ~Resumes(fibers[i - 1], fibers[j - 1])
      BY <2>2, <3>2 DEF LineOK
    <3> QED BY <1>5, <2>2, <3>2, <3>3 DEF Resumes
  <2> QED BY <2>3, <2>4
<1>11. n \notin ToSet(p)
  BY <1>3
<1>12. LineOK'
  BY <1>1, <1>2, <1>4, <1>5, <1>6, <1>7, <1>8, <1>9, <1>10, <1>11 DEF LineOK, Resumes
<1> QED BY <1>1, <1>2, <1>3, <1>12 DEF Gets

(* The caller of the loop.                                                  *)
LEMMA CallerStep ==
    ASSUME Inv, Inv', CallerOK, NEW r, Mine(r),
           fiber # Root => caller' = caller,
           fiber = Root => (caller' = Root <=> Head(r).k \in Pauses),
           Gets \ {fiber} \subseteq Gets',
           fiber = Root /\ caller' = NoFiber => Root \in Gets'
    PROVE  CallerOK'
<1>1. Root \in Fiber
  BY LineFibers
<1>2. CASE fiber = Root
  <2>1. caller' = Root <=> Blocked(Root)'
    BY <1>2 DEF Mine, Blocked, Pauses
  <2> QED BY <1>2, <2>1 DEF CallerOK
<1>3. CASE fiber # Root
  <2>1. stack'[Root] = stack[Root]
    BY <1>1, <1>3 DEF Mine
  <2>2. caller' = Root <=> Blocked(Root)'
    BY <1>3, <2>1 DEF CallerOK, Blocked
  <2> QED BY <1>3, <2>2 DEF CallerOK
<1> QED BY <1>2, <1>3

(* Those who are blocked when nobody queues or wakes them.                  *)
LEMMA QueuedQuiet ==
    ASSUME Inv, QueuedOK, NEW r, Mine(r), UNCHANGED <<op, ops>>, stopped \subseteq stopped',
           ToSet(callbacks') \subseteq ToSet(callbacks), Single(callbacks', Owners),
           Top.k \notin Waits, Head(r).k \notin Waits,
           stopped' = {} /\ fiber' \in Owners => op[fiber'].status # "RUNNING"
    PROVE  QueuedOK'
<1>1. \A o \in Owners : o # fiber => stack'[o] = stack[o]
  BY DEF Mine, Fiber
<1>2. stack'[fiber] = r
  BY DEF Mine
<1>3. ASSUME NEW l \in Lists, NEW o \in ToSet(ops[l])
      PROVE  o \in Owners /\ Head(stack'[o]).k \in Waits /\ Head(stack'[o]).x = l
             /\ (op[o].status = "RUNNING" \/ op[o].cancelled)
  <2>1. WaitsFor(o, l) /\ (op[o].status = "RUNNING" \/ op[o].cancelled)
    BY DEF QueuedOK
  <2>2. o \in Owners
    BY DEF Inv, OpsOK, Begun, Owners, ToSet
  <2>3. o # fiber
    BY <2>1 DEF WaitsFor, Top
  <2> QED BY <1>1, <2>1, <2>2, <2>3 DEF WaitsFor
<1>4. ASSUME NEW o \in Owners PROVE OpOK(o)'
  <2>1. OpOK(o)
    BY DEF QueuedOK
  <2>2. CASE o = fiber
    <3>1. op[o].status # "RUNNING" /\ ~op[o].cancelled
      BY <2>1, <2>2 DEF OpOK, Top, Waits
    <3>2. Head(stack'[o]).k \notin Waits
      BY <1>2, <2>2
    <3> QED BY <3>1, <3>2 DEF OpOK
  <2>3. CASE o # fiber
    BY <1>1, <2>1, <2>3 DEF OpOK
  <2> QED BY <2>2, <2>3
<1>5. ASSUME NEW o \in ToSet(callbacks') PROVE Head(stack'[o]).k = "wait"
  <2>1. o \in Owners
    BY DEF Inv, OpsOK, Begun, Owners, ToSet
  <2>2. Head(stack[o]).k = "wait"
    BY DEF QueuedOK
  <2>3. o # fiber
    BY <2>2 DEF Top, Waits
  <2> QED BY <1>1, <2>1, <2>2, <2>3
<1>6. stopped' = {} /\ fiber' \in Owners => op'[fiber'].status # "RUNNING"
  OBVIOUS
<1> QED BY <1>3, <1>4, <1>5, <1>6 DEF QueuedOK, WaitsFor

(* Nobody who gets control back waits for anything.                         *)
LEMMA FreeToRun ==
    ASSUME LineOK, QueuedOK
    PROVE  \A g \in ToSet(fibers) : g \in Owners => op[g].status # "RUNNING"
BY DEF LineOK, QueuedOK, OpOK, Stopping, Pauses, Waits

(* The ready list when nobody is enqueued.                                  *)
LEMMA DeferredQuiet ==
    ASSUME Inv, DeferredOK, NEW r, Mine(r), UNCHANGED <<op, spawned>>, stopped \subseteq stopped',
           stopped' = {} => ~uvstop',
           \A o \in ToSet(ready') \cap Deferred : o \in ToSet(ready) /\ (o = fiber' => fiber' = fiber),
           Single(ready', Deferred)
    PROVE  DeferredOK'
<1>1. Deferred' \subseteq Deferred /\ Deferred \subseteq Owners
  BY DEF Deferred, Inv, StatusOK, Begun, Owners
<1>2. ASSUME NEW o \in ToSet(ready') \cap Deferred' PROVE Deferring(o)'
  <2>1. Deferring(o) /\ o \in Owners /\ o # fiber'
    BY <1>1 DEF DeferredOK, Deferring
  <2>2. stack'[o] = stack[o]
    BY <2>1 DEF Mine, Deferring, Fiber
  <2> QED BY <2>1, <2>2 DEF Deferring
<1>3. Single(ready', Deferred')
  BY <1>1 DEF Single
<1> QED BY <1>2, <1>3 DEF DeferredOK

(* Stages.                                                                  *)
LEMMA DoneOnTop ==
    ASSUME Inv, FormsOK, "done" \in AtStage
    PROVE  Head(stack[Root]).k = "done"
<1>1. Root \in Fiber
  BY LineFibers
<1>2. stack[Root] \in Seq(Frames) /\ stack[Root] # <<>> /\ Form(stack[Root], Root, spawned)
  BY <1>1 DEF Inv, StacksOK, WellFormed, FormsOK
<1>3. PICK i \in DOMAIN stack[Root] : stack[Root][i].k = "done"
  BY DEF AtStage, StagesOf, ToSet
<1>4. stack[Root][i].k \in Ended => i = 1
  BY <1>2 DEF Form
<1>5. i = 1
  BY <1>3, <1>4 DEF Ended
<1> QED BY <1>2, <1>3, <1>5

(* A step that does not change the stage of dispose.                        *)
LEMMA StageStep ==
    ASSUME Inv, FormsOK, StageOK, NEW r, Mine(r), stopped \subseteq stopped', closed => closed',
           fiber = Root => StagesOf(r) = AtStage, Top.k # "done",
           \A l \in Exts \cup Queues : closed /\ ops[l] = <<>> => ops'[l] = <<>>,
           AtStage # {} /\ Root \in Gets' /\ Runner \in ToSet(fibers') => Root \in Gets /\ Runner \in ToSet(fibers)
    PROVE  StageOK'
<1>1. AtStage' = AtStage
  <2>1. CASE fiber = Root
    BY <2>1 DEF Mine, AtStage
  <2>2. CASE fiber # Root
    BY <2>2, LineFibers DEF Mine, AtStage
  <2> QED BY <2>1, <2>2
<1> SUFFICES ASSUME stopped' = {}
             PROVE  /\ AtStage # {} /\ Root \in Gets' => Runner \notin ToSet(fibers')
                    /\ AtStage \cap {"shut", "rerun", "done"} # {} => closed'
                    /\ AtStage \cap {"rerun", "done"} # {} => \A l \in Exts \cup Queues : ops'[l] = <<>>
                    /\ "done" \notin AtStage
  BY <1>1 DEF StageOK
<1>2. stopped = {}
  OBVIOUS
<1>3. "done" \notin AtStage
  BY <1>2, DoneOnTop DEF StageOK, Top
<1>4. AtStage \cap {"rerun", "done"} # {} => closed /\ \A l \in Exts \cup Queues : ops[l] = <<>>
  BY <1>2 DEF StageOK
<1> QED BY <1>2, <1>3, <1>4 DEF StageOK

(* The bottom of a stack stays, and the stage of dispose.                   *)
Same(r, s) == r[Len(r)] = s[Len(s)] /\ StagesOf(r) = StagesOf(s)

(* They stay when a frame is put on top,                                    *)
LEMMA SamePush ==
    ASSUME NEW s \in Seq(Frames), s # <<>>, NEW fr \in Frames, fr.k \notin Stages
    PROVE  Same(<<fr>> \o s, s)
<1> DEFINE r == <<fr>> \o s
<1>1. /\ Len(r) = Len(s) + 1 /\ ToSet(r) = {fr} \cup ToSet(s)
      /\ \A i \in 1 .. Len(s) + 1 : r[i] = IF i = 1 THEN fr ELSE s[i - 1]
  BY Pushed
<1>2. Len(s) \in Nat \ {0}
  BY Popped
<1> HIDE DEF r
<1>3. r[Len(r)] = s[Len(s)]
  <2>1. Len(s) + 1 \in 1 .. Len(s) + 1 /\ Len(s) + 1 # 1 /\ (Len(s) + 1) - 1 = Len(s)
    BY <1>2
  <2> QED BY <1>1, <2>1
<1>4. StagesOf(r) = StagesOf(s)
  BY <1>1 DEF StagesOf
<1> QED BY <1>3, <1>4 DEF Same, r

(* and when the top is taken off.                                           *)
LEMMA SamePop ==
    ASSUME NEW B, NEW f, NEW s, WellFormed(s, B, f), Head(s).k \notin Bottom, Head(s).k \notin Stages
    PROVE  Same(Tail(s), s)
<1>1. s \in Seq(Frames) /\ s # <<>> /\ Tail(s) # <<>> /\ Tail(s) \in Seq(Frames) /\ Head(s) \in Frames
  BY Above, Pop DEF WellFormed
<1>2. Same(<<Head(s)>> \o Tail(s), Tail(s))
  BY <1>1, SamePush
<1>3. <<Head(s)>> \o Tail(s) = s
  BY <1>1
<1>4. Same(s, Tail(s))
  BY <1>2, <1>3
<1> QED BY <1>4 DEF Same

(* A step of the running fiber alone, on stack r.                           *)
Alike(r) ==
    /\ Goto(r) /\ Form(r, fiber, spawned) /\ Head(r).k \notin Pauses \cup {"inline", "resched"}
    /\ UNCHANGED <<fiber, fibers, spawned, op, ops>>
    /\ ToSet(callbacks') \subseteq ToSet(callbacks) /\ Single(callbacks', Owners)
    /\ stopped \subseteq stopped' /\ (stopped' = {} => UNCHANGED uvstop)
    /\ Finals \subseteq Finals'
    /\ fiber = Root => \/ caller' = NoFiber
                       \/ (UNCHANGED caller) /\ Top.k \notin Pauses
    /\ fiber # Root => UNCHANGED caller
    /\ ToSet(ready') \cap Deferred \subseteq ToSet(ready) /\ Single(ready', Deferred)
    /\ stopped' = {} => busy' = busy + Total(r) - Total(stack[fiber])

(* Such a step keeps the parts of the invariant.                            *)
LEMMA AlikeParts ==
    ASSUME Inv, Inv', Book, fiber \in Fiber, NEW r, Alike(r), Top.k \notin Waits
    PROVE  Mine(r) /\ FormsOK' /\ LineOK' /\ CallerOK' /\ QueuedOK' /\ DeferredOK' /\ BusyBalance'
<1>1. /\ FormsOK /\ TasksOK /\ LineOK /\ CallerOK /\ QueuedOK /\ DeferredOK /\ StageOK /\ BusyBalance
  BY DEF Book
<1>2. Mine(r) /\ UNCHANGED <<fiber, fibers>> /\ UNCHANGED spawned /\ Gets' = Gets
  BY GotoMine DEF Alike, Gets
<1>3. FormsOK'
  BY <1>1, <1>2, FormsStep DEF Alike
<1>4. LineOK'
  BY <1>1, <1>2, LineStay DEF Alike
<1>5. CallerOK'
  <2>1. fiber = Root => (caller' = Root <=> Head(r).k \in Pauses)
    <3> SUFFICES ASSUME fiber = Root PROVE caller' # Root
      BY DEF Alike
    <3>1. CASE caller' = NoFiber
      BY <3>1, NamesAssumption, LineFibers
    <3>2. CASE UNCHANGED caller /\ Top.k \notin Pauses
      <4>1. ~Blocked(Root)
        BY <3>2 DEF Blocked, Pauses, Top
      <4> QED BY <1>1, <3>2, <4>1 DEF CallerOK
    <3> QED BY <3>1, <3>2 DEF Alike
  <2>2. fiber # Root => caller' = caller
    BY DEF Alike
  <2>3. fiber \in Gets'
    BY <1>2 DEF Gets
  <2> QED BY <1>1, <1>2, <2>1, <2>2, <2>3, CallerStep
<1>6. QueuedOK'
  <2>1. stopped' = {} /\ fiber' \in Owners => op[fiber'].status # "RUNNING"
    <3>1. stopped' = {} => stopped = {}
      BY DEF Alike
    <3> QED BY <1>1, <1>2, <3>1 DEF QueuedOK
  <2>2. Head(r).k \notin Waits
    BY DEF Alike, Pauses, Waits
  <2> QED BY <1>1, <1>2, <2>1, <2>2, QueuedQuiet DEF Alike
<1>7. DeferredOK'
  <2>1. stopped' = {} => ~uvstop'
    BY <1>1 DEF Alike, DeferredOK
  <2>2. \A o \in ToSet(ready') \cap Deferred : o \in ToSet(ready) /\ (o = fiber' => fiber' = fiber)
    BY <1>2 DEF Alike
  <2> QED BY <1>1, <1>2, <2>1, <2>2, DeferredQuiet DEF Alike
<1>8. BusyBalance'
  <2>1. Head(stack[fiber]).k # "inline" /\ Head(r).k # "inline" /\ stack'[fiber] = r
    BY <1>1, <1>2 DEF FormsOK, Alike, Mine
  <2>2. \A f \in Fiber \ {fiber} : Loaded(f)' = Loaded(f)
    BY <1>2 DEF Mine, Loaded
  <2>3. stopped' = {} => stopped = {} /\ busy' = busy + Total(r) - Total(stack[fiber])
    BY DEF Alike
  <2> QED BY <1>1, <2>1, <2>2, <2>3, BusyChange
<1> QED BY <1>2, <1>3, <1>4, <1>5, <1>6, <1>7, <1>8

(* With it, no task ends.                                                   *)
LEMMA AlikeBook ==
    ASSUME Inv, Inv', Book, fiber \in Fiber, NEW r, Alike(r), Same(r, stack[fiber]),
           Top.k \notin Waits, Top.k # "done", UNCHANGED closed, Begun \subseteq Begun',
           \A t \in spawned : Settled(t)' => Settled(t),
           \A t \in disposed' : \/ t \in disposed
                                \/ t \notin spawned /\ (t \in Begun' \/ stopped' # {})
                                \/ t \in Begun' /\ Settled(t)' /\ t \notin Gets
    PROVE  Book'
<1>1. Mine(r) /\ FormsOK' /\ LineOK' /\ CallerOK' /\ QueuedOK' /\ DeferredOK' /\ BusyBalance'
  BY AlikeParts
<1>2. FormsOK /\ TasksOK /\ StageOK /\ UNCHANGED <<fiber, fibers, spawned>> /\ Gets' = Gets
  BY DEF Book, Alike, Gets
<1>3. \A t \in spawned : Settled(t) => Settled(t)'
  <2>1. \A t \in spawned : t \in Awaitables
    BY DEF Inv, StatusOK, Begun, Awaitables
  <2> QED BY <2>1 DEF Alike, Finals
<1>4. TasksOK'
  <2>1. \A t \in spawned : t = fiber /\ Settled(t)' => r[Len(r)].k = "end"
    BY <1>2 DEF TasksOK, Same
  <2>2. \A t \in disposed \cap spawned : t \notin Gets'
    BY <1>2 DEF TasksOK
  <2>3. \A t \in spawned : Settled(t)' => Settled(t) \/ t = fiber
    OBVIOUS
  <2>4. UNCHANGED spawned /\ stopped \subseteq stopped'
    BY DEF Alike
  <2>5. \A t \in disposed' : \/ t \in disposed
                             \/ t \notin spawned /\ (t \in Begun' \/ stopped' # {})
                             \/ t \in Begun' /\ Settled(t)' /\ t \notin Gets'
    BY <1>2
  <2> QED BY <1>1, <1>2, <1>3, <2>1, <2>2, <2>3, <2>4, <2>5, TasksStep
<1>5. StageOK'
  <2>1. fiber = Root => StagesOf(r) = AtStage
    BY DEF Same, AtStage
  <2>2. \A l \in Exts \cup Queues : closed /\ ops[l] = <<>> => ops'[l] = <<>>
    BY DEF Alike
  <2> QED BY <1>1, <1>2, <2>1, <2>2, StageStep DEF Alike
<1> QED BY <1>1, <1>4, <1>5 DEF Book
-------------------------------------------------------------------------------
(* What the running fiber goes on with.                                     *)

(* The running fiber and its stack.                                         *)
LEMMA Here ==
    ASSUME Inv, Book, Top.k # "end"
    PROVE  /\ fiber \in Fiber /\ WellFormed(stack[fiber], Begun, fiber) /\ Top \in Frames
           /\ stack[fiber] \in Seq(Frames) /\ stack[fiber] # <<>>
           /\ Form(stack[fiber], fiber, spawned) /\ Top.k # "inline"
<1>1. fiber \in Fiber /\ WellFormed(stack[fiber], Begun, fiber)
  BY Running
<1>2. Top \in Frames
  BY <1>1, Pop DEF Top
<1> QED BY <1>1, <1>2 DEF Book, FormsOK, WellFormed, Top

(* The count of a frame that counts nowhere.                                *)
LEMMA Uncounted ==
    ASSUME NEW fr, fr.k \notin {"await", "wait", "inline"}
    PROVE  \A a, b : One(a, fr, b) = 0
BY DEF One, Counts

(* What a frame adds to the count.                                          *)
LEMMA TotalPush ==
    ASSUME NEW B, NEW f, NEW s, WellFormed(s, B, f), Head(s).k # "inline", NEW fr \in Frames
    PROVE  /\ Total(<<fr>> \o s) = Total(s) + One("none", fr, Head(s))
           /\ Total(s) \in Int /\ One("none", fr, Head(s)) \in Int
           /\ fr.k \notin {"await", "wait", "inline"} => Total(<<fr>> \o s) = Total(s)
<1>1. Load("none", <<fr>> \o s) = Load(fr.k, s) + One("none", fr, Head(s))
  BY LoadPush
<1>2. Load(fr.k, s) = Load("none", s) /\ Load("none", s) \in Nat
  BY LoadAbove
<1>3. One("none", fr, Head(s)) \in Int
  BY DEF One
<1>4. fr.k \notin {"await", "wait", "inline"} => One("none", fr, Head(s)) = 0
  BY Uncounted
<1>5. Total(<<fr>> \o s) = Total(s) + One("none", fr, Head(s)) /\ Total(s) \in Int
  BY <1>1, <1>2 DEF Total
<1> QED BY <1>3, <1>4, <1>5

(* What is left of the count without the top.                               *)
LEMMA TotalPop ==
    ASSUME NEW B, NEW f, NEW s, WellFormed(s, B, f), Head(s).k \notin Bottom
    PROVE  /\ Total(s) = Load(Head(s).k, Tail(s)) + One("none", Head(s), Head(Tail(s)))
           /\ Load(Head(s).k, Tail(s)) \in Int /\ One("none", Head(s), Head(Tail(s))) \in Int
           /\ Head(s).k \notin {"await", "wait", "inline"} => Total(s) = Load(Head(s).k, Tail(s))
           /\ Head(s).k \notin {"await", "wait", "inline"} /\ Head(Tail(s)).k # "inline" =>
                Total(s) = Total(Tail(s))
<1>0. PICK t, a : t = Tail(s) /\ a = Head(s).k
  OBVIOUS
<1> DEFINE l == Load(a, t)
           o == One("none", Head(s), Head(Tail(s)))
<1>1. Total(s) = l + o
  BY <1>0, LoadPop DEF Total
<1>2. WellFormed(t, B, f) /\ l \in Nat
  <2>1. WellFormed(t, B, f)
    BY <1>0, Pop
  <2> QED BY <2>1, LoadFinite DEF WellFormed
<1>3. o \in Int
  BY DEF One
<1>4. a \notin {"await", "wait", "inline"} => o = 0
  BY <1>0, Uncounted
<1>6. Head(t).k # "inline" => l = Total(t)
  BY <1>2, LoadAbove DEF Total
<1> HIDE DEF l, o
<1>5. a \notin {"await", "wait", "inline"} => Total(s) = l
  BY <1>1, <1>2, <1>4
<1>7. a \notin {"await", "wait", "inline"} /\ Head(t).k # "inline" => Total(s) = Total(t)
  BY <1>5, <1>6
<1>8. Total(s) = l + o /\ l \in Int /\ o \in Int
  BY <1>1, <1>2, <1>3
<1> QED BY <1>0, <1>5, <1>7, <1>8 DEF l, o

(* A frame put on top of the running stack.                                 *)
LEMMA PushFrame ==
    ASSUME Inv, Book, Top.k # "end", Takes(stack[fiber]),
           NEW fr \in Frames, Stands(fr, Top, fiber, spawned), fr.k \notin Stages,
           fr.k \in Resumers \/ NoPlain(stack[fiber])
    PROVE  /\ Form(<<fr>> \o stack[fiber], fiber, spawned) /\ Same(<<fr>> \o stack[fiber], stack[fiber])
           /\ Head(<<fr>> \o stack[fiber]) = fr
           /\ Total(<<fr>> \o stack[fiber]) = Total(stack[fiber]) + One("none", fr, Top)
           /\ Total(stack[fiber]) \in Int /\ One("none", fr, Top) \in Int
           /\ fr.k \notin {"await", "wait", "inline"} => Total(<<fr>> \o stack[fiber]) = Total(stack[fiber])
<1>1. /\ fiber \in Fiber /\ WellFormed(stack[fiber], Begun, fiber) /\ Top \in Frames
      /\ stack[fiber] \in Seq(Frames) /\ stack[fiber] # <<>>
      /\ Form(stack[fiber], fiber, spawned) /\ Top.k # "inline" /\ Top = Head(stack[fiber])
  BY Here DEF Top
<1>2. Form(stack[fiber], fiber, spawned)
  BY <1>1, FormGrow
<1>3. Form(<<fr>> \o stack[fiber], fiber, spawned)
  BY <1>1, <1>2, FormPush DEF Uncovered
<1>4. Same(<<fr>> \o stack[fiber], stack[fiber])
  BY <1>1, SamePush
<1>5. Head(<<fr>> \o stack[fiber]) = fr
  BY <1>1, Pushed
<1> QED BY <1>1, <1>3, <1>4, <1>5, TotalPush

(* The running stack without its top.                                       *)
LEMMA PopFrame ==
    ASSUME Inv, Book, Top.k \notin Bottom
    PROVE  /\ WellFormed(Rest, Begun, fiber) /\ Rest \in Seq(Frames) /\ Rest # <<>> /\ Head(Rest) \in Frames
           /\ Form(Rest, fiber, spawned) /\ Takes(Rest)
           /\ Stands(Top, Head(Rest), fiber, spawned)
           /\ Uncovered(Top, Head(Rest)) => Top.x \in Exts \cup spawned
           /\ Top.k \notin Resumers => NoPlain(Rest)
           /\ Head(Rest).k = "inline" => Top.k \in Callers \cup Fins
           /\ Top.k \in Calls => Head(Rest).k \in Callers
           /\ Top.k \notin Stages => Same(Rest, stack[fiber])
<1>1. Top.k # "end"
  BY DEF Bottom
<1>2. /\ fiber \in Fiber /\ WellFormed(stack[fiber], Begun, fiber)
      /\ Form(stack[fiber], fiber, spawned) /\ Head(stack[fiber]).k \notin Bottom
  BY <1>1, Here DEF Top
<1>3. WellFormed(Rest, Begun, fiber) /\ Rest \in Seq(Frames) /\ Rest # <<>> /\ Head(Rest) \in Frames
  BY <1>2, Above DEF Rest
<1>4. Top.k \in Calls => Head(Rest).k \in Callers
  BY <1>2, Pop DEF Rest, Top
<1>5. Top.k \notin Stages => Same(Rest, stack[fiber])
  BY <1>2, SamePop DEF Rest, Top
<1> QED BY <1>2, <1>3, <1>4, <1>5, FormPop DEF Rest, Top

(* Frame fr returns an awaitable from the code on top of s.                 *)
Rets(fr, s, P) ==
    /\ fr.k = "ret" /\ Head(s).k = "code" /\ fr.o = Head(s).o /\ fr.o \in Tasks
    /\ Uncovered(fr, Head(Tail(s))) => fr.x \in Exts \cup P

(* PHP code, or a call of it, ends: frame fr takes its place.               *)
LEMMA SwapTop ==
    ASSUME NEW B, NEW P, NEW f, NEW s, WellFormed(s, B, f), Form(s, f, P), Head(s).k \in Callers,
           NEW fr \in Frames, fr.k \in Fins \/ Rets(fr, s, P)
    PROVE  /\ Form(<<fr>> \o Tail(s), f, P) /\ Same(<<fr>> \o Tail(s), s) /\ Head(<<fr>> \o Tail(s)) = fr
           /\ Total(<<fr>> \o Tail(s)) = Total(s) - Section(s)
           /\ Total(s) \in Int /\ Section(s) \in Int
<1>1. Head(s).k \notin Bottom /\ Head(s).k \notin Stages /\ Head(s).k \notin Resumers
  BY DEF Callers, Bottom, Stages, Resumers
<1>a. /\ fr.k \in {"ret"} \cup Fins
      /\ fr.k = "ret" => Head(s).k = "code" /\ fr.o = Head(s).o /\ fr.o \in Tasks
      /\ Uncovered(fr, Head(Tail(s))) => fr.x \in Exts \cup P
  BY DEF Rets, Fins, Uncovered
<1>2. WellFormed(Tail(s), B, f) /\ Tail(s) \in Seq(Frames) /\ Tail(s) # <<>> /\ Head(s) \in Frames /\ s \in Seq(Frames) /\ s # <<>>
  <2>1. s \in Seq(Frames) /\ s # <<>>
    BY DEF WellFormed
  <2> QED BY <1>1, <2>1, Above, Pop
<1>3. /\ Form(Tail(s), f, P) /\ Takes(Tail(s)) /\ NoPlain(Tail(s))
      /\ Stands(Head(s), Head(Tail(s)), f, P)
  BY <1>1, FormPop
<1>4. Stands(fr, Head(Tail(s)), f, P)
  <2>1. Head(Tail(s)).k \in Holders
    BY <1>3 DEF Stands
  <2>2. fr.k = "ret" => /\ Head(Tail(s)).k \in {"body", "inline"} => fr.o = Head(Tail(s)).x
                        /\ Head(Tail(s)).k # "main"
    <3> SUFFICES ASSUME fr.k = "ret"
                 PROVE  /\ Head(Tail(s)).k \in {"body", "inline"} => fr.o = Head(Tail(s)).x
                        /\ Head(Tail(s)).k # "main"
      OBVIOUS
    <3>1. Head(s).k = "code" /\ fr.o = Head(s).o /\ fr.o # Root
      BY <1>a, NamesAssumption
    <3> QED BY <1>3, <3>1 DEF Stands, Callers
  <2> QED BY <1>a, <2>1, <2>2 DEF Stands, Fins, Callers
<1>5. Form(<<fr>> \o Tail(s), f, P)
  <2>1. fr.k \in Callers \cup Fins
    BY <1>a DEF Callers
  <2>2. Uncovered(fr, Head(Tail(s))) => fr.x \in Exts \cup P
    BY <1>a
  <2> QED BY <1>2, <1>3, <1>4, <2>1, <2>2, FormPush
<1>6. Same(<<fr>> \o Tail(s), s)
  <2>1. Same(Tail(s), s)
    BY <1>1, SamePop
  <2>2. Same(<<fr>> \o Tail(s), Tail(s))
    BY <1>2, <1>a, SamePush DEF Stages, Fins
  <2> QED BY <2>1, <2>2 DEF Same
<1>7. PICK t, a : t = Tail(s) /\ a = Head(s).k
  OBVIOUS
<1> DEFINE x == Load(fr.k, t)
           y == Load(a, t)
           z == Section(s)
<1>8. Total(s) = y
  BY <1>1, <1>7, TotalPop DEF Callers
<1>9. Total(<<fr>> \o Tail(s)) = x
  <2>1. Load("none", <<fr>> \o Tail(s)) = Load(fr.k, Tail(s)) + One("none", fr, Head(Tail(s)))
    BY <1>2, LoadPush
  <2>2. One("none", fr, Head(Tail(s))) = 0
    BY <1>a, Uncounted DEF Fins
  <2>3. x \in Nat
    BY <1>2, <1>7, LoadFinite
  <2>4. Total(<<fr>> \o Tail(s)) = x + 0
    BY <1>7, <2>1, <2>2 DEF Total
  <2> HIDE DEF x
  <2> QED BY <2>3, <2>4
<1>10. x \in Nat /\ y \in Nat /\ z \in Int /\ fr.k # "code"
  BY <1>2, <1>7, <1>a, LoadFinite, SectionInt DEF Fins
<1>11. x = y - z
  <2>0. s[2] = Head(t) /\ WellFormed(t, B, f)
    BY <1>2, <1>7
  <2>1. CASE Head(t).k # "inline" \/ a # "code"
    <3>1. Head(t).k # "inline" => x = y
      BY <2>0, LoadAbove
    <3>2. a # "code" => x = y
      BY <1>10, <2>0, LoadAbove
    <3>3. z = 0
      BY <1>7, <2>0, <2>1 DEF Section
    <3> HIDE DEF x, y, z
    <3> QED BY <1>10, <2>1, <3>1, <3>2, <3>3
  <2>2. CASE Head(t).k = "inline" /\ a = "code"
    <3>1. Load("code", t) = Load(fr.k, t) + Weight(Head(t).o)
      BY <1>10, <2>0, <2>2, LoadAbove
    <3>2. z = Weight(Head(t).o)
      BY <1>7, <2>0, <2>2 DEF Section
    <3>3. y = x + z
      BY <2>2, <3>1, <3>2
    <3> HIDE DEF x, y, z
    <3> QED BY <1>10, <3>3
  <2> QED BY <2>1, <2>2
<1>12. Head(<<fr>> \o Tail(s)) = fr
  BY <1>2, Pushed
<1>13. Total(<<fr>> \o Tail(s)) = Total(s) - Section(s) /\ Total(s) \in Int /\ Section(s) \in Int
  BY <1>8, <1>9, <1>10, <1>11
<1> QED BY <1>5, <1>6, <1>12, <1>13

(* An inline execution is over, or left, and frame fr takes its place: stack *)
(* s becomes r.                                                             *)
LeavesInline(s, r, fr, B, f, P) ==
    /\ WellFormed(s, B, f) /\ Form(s, f, P)
    /\ Head(s).k \in {"ret"} \cup Fins /\ Head(Tail(s)).k = "inline"
    /\ fr \in Frames /\ fr.k \in {"inlined", "bail"} /\ (fr.k = "inlined" => fr.x \in Tasks)
    /\ r = <<fr>> \o Tail(Tail(s))

LEMMA InlineOver ==
    ASSUME NEW B, NEW P, NEW f, NEW s, NEW r, NEW fr, LeavesInline(s, r, fr, B, f, P)
    PROVE  /\ WellFormed(r, B, f) /\ Form(r, f, P) /\ Same(r, s) /\ Head(r) = fr
           /\ Total(r) = Total(s) /\ Total(s) \in Int
<1>0. /\ WellFormed(s, B, f) /\ Form(s, f, P)
      /\ Head(s).k \in {"ret"} \cup Fins /\ Head(Tail(s)).k = "inline"
      /\ fr \in Frames /\ fr.k \in {"inlined", "bail"} /\ (fr.k = "inlined" => fr.x \in Tasks)
      /\ r = <<fr>> \o Tail(Tail(s))
  BY DEF LeavesInline
<1> USE <1>0
<1>1. PICK t : t = Tail(s)
  OBVIOUS
<1>2. PICK u : u = Tail(t)
  OBVIOUS
<1>3. Head(s).k \notin Bottom /\ Head(s).k \notin Stages /\ Head(s).k \notin {"await", "wait", "inline", "code"}
  BY DEF Fins, Bottom, Stages
<1>4. WellFormed(t, B, f) /\ Form(t, f, P) /\ Head(t).k = "inline" /\ Head(t) \in Frames
      /\ Head(t).k \notin Bottom /\ Head(t).k \notin Stages
  <2>1. Head(t).k = "inline"
    BY <1>1
  <2>2. WellFormed(t, B, f)
    BY <1>1, <1>3, Pop
  <2>3. Form(t, f, P)
    BY <1>1, <1>3, FormPop
  <2>4. Head(t) \in Frames
    BY <2>2, Pop
  <2> QED BY <2>1, <2>2, <2>3, <2>4 DEF Bottom, Stages
<1>5. WellFormed(u, B, f) /\ Form(u, f, P) /\ Takes(u) /\ NoPlain(u) /\ Head(u).k \in Callers
      /\ u \in Seq(Frames) /\ u # <<>>
  <2>1. WellFormed(u, B, f) /\ Head(u).k \in Callers
    BY <1>2, <1>4, Pop DEF Calls
  <2>2. Form(u, f, P) /\ Takes(u) /\ NoPlain(u)
    BY <1>2, <1>4, FormPop DEF Resumers
  <2> QED BY <2>1, <2>2 DEF WellFormed
<1>6. Head(u).k # "inline"
  BY <1>5 DEF Callers
<1>7. WellFormed(<<fr>> \o u, B, f)
  <2>1. Subject(fr, B) /\ fr.k \notin Bottom \cup MainOnly \cup Callers
    BY DEF Subject, Bottom, MainOnly, Callers
  <2> QED BY <1>5, <2>1, Push
<1>8. Form(<<fr>> \o u, f, P)
  <2>1. Stands(fr, Head(u), f, P) /\ ~Uncovered(fr, Head(u))
    BY DEF Stands, Fins, Callers, Uncovered
  <2> QED BY <1>5, <1>6, <2>1, FormPush
<1>9. Same(<<fr>> \o u, s) /\ Head(<<fr>> \o u) = fr
  <2>1. Same(t, s)
    BY <1>1, <1>3, SamePop
  <2>2. Same(u, t)
    BY <1>2, <1>4, SamePop
  <2>3. Same(<<fr>> \o u, u)
    BY <1>5, SamePush DEF Stages
  <2>4. Head(<<fr>> \o u) = fr
    BY <1>5, Pushed
  <2> QED BY <2>1, <2>2, <2>3, <2>4 DEF Same
<1>10. Total(<<fr>> \o u) = Total(s) /\ Total(s) \in Int
  <2>1. PICK a : a = Head(s).k /\ a # "code"
    BY <1>3
  <2>2. Total(s) = Load(a, t)
    BY <1>1, <1>3, <2>1, TotalPop
  <2>3. Load(a, t) = Load(Head(t).k, Tail(t)) + One(a, Head(t), Head(Tail(t)))
    BY <1>4, LoadPop
  <2>4. One(a, Head(t), Head(Tail(t))) = 0
    BY <1>4, <2>1 DEF One, Counts
  <2>5. Load(Head(t).k, u) = Load("none", u) /\ Load("none", u) \in Nat
    BY <1>5, <1>6, LoadAbove
  <2>6. PICK n \in Nat : n = Load("none", u)
    BY <2>5
  <2>7. Total(s) = n + 0
    BY <1>2, <2>2, <2>3, <2>4, <2>5, <2>6
  <2>8. Total(<<fr>> \o u) = Total(u)
    BY <1>5, <1>6, TotalPush
  <2> QED BY <2>6, <2>7, <2>8 DEF Total
<1>11. r = <<fr>> \o u
  BY <1>1, <1>2
<1> QED BY <1>7, <1>8, <1>9, <1>10, <1>11

(* So an inline execution that zend_bailout ends.                           *)
LEMMA BailOver ==
    ASSUME NEW B, NEW P, NEW f, NEW s, WellFormed(s, B, f), Form(s, f, P),
           Head(s).k = "ret", Head(Tail(s)).k = "inline"
    PROVE  /\ Form(<<Bailing>> \o Tail(Tail(s)), f, P) /\ Same(<<Bailing>> \o Tail(Tail(s)), s)
           /\ Head(<<Bailing>> \o Tail(Tail(s))) = Bailing
           /\ Total(<<Bailing>> \o Tail(Tail(s))) = Total(s) /\ Total(s) \in Int
<1>1. PICK fr \in Frames : fr = Bailing /\ fr.k = "bail"
  BY BailingFrame
<1>2. PICK r : r = <<fr>> \o Tail(Tail(s))
  OBVIOUS
<1>3. LeavesInline(s, r, fr, B, f, P)
  BY <1>1, <1>2 DEF LeavesInline
<1>4. Form(r, f, P) /\ Same(r, s) /\ Head(r) = fr /\ Total(r) = Total(s) /\ Total(s) \in Int
  BY <1>3, InlineOver
<1> QED BY <1>1, <1>2, <1>4

(* A call returns to the PHP code below, or ends it.                        *)
LEMMA DeliverForm ==
    ASSUME NEW B, NEW P, NEW f, NEW s, WellFormed(s, B, f), Form(s, f, P), Head(s).k \in Callers,
           NEW how \in Outcomes
    PROVE  /\ Form(Deliver(how, s), f, P) /\ Same(Deliver(how, s), s)
           /\ Head(Deliver(how, s)).k \in {"code"} \cup Fins /\ Total(Deliver(how, s)) = Total(s)
           /\ Form(Bail(s), f, P) /\ Same(Bail(s), s)
           /\ Head(Bail(s)).k \in {"bail"} \cup Fins /\ Total(Bail(s)) = Total(s) - Section(s)
           /\ Total(s) \in Int /\ Section(s) \in Int
<1>1. \A h \in Outcomes : Fin(h) \in Frames /\ Fin(h).k = h /\ h \in Fins /\ ~Uncovered(Fin(h), Head(Tail(s)))
  BY FinFrame DEF Fin, Frame, Outcomes, Fins, Uncovered
<1>0. ASSUME NEW fr \in Frames, fr.k \in Fins, ~Uncovered(fr, Head(Tail(s)))
      PROVE  /\ Form(<<fr>> \o Tail(s), f, P) /\ Same(<<fr>> \o Tail(s), s)
             /\ Head(<<fr>> \o Tail(s)) = fr
             /\ Total(<<fr>> \o Tail(s)) = Total(s) - Section(s)
             /\ Total(s) \in Int /\ Section(s) \in Int
  BY <1>0, SwapTop
<1>2. ASSUME NEW h \in Outcomes
      PROVE  /\ Form(<<Fin(h)>> \o Tail(s), f, P) /\ Same(<<Fin(h)>> \o Tail(s), s)
             /\ Head(<<Fin(h)>> \o Tail(s)).k \in Fins
             /\ Total(<<Fin(h)>> \o Tail(s)) = Total(s) - Section(s)
             /\ Total(s) \in Int /\ Section(s) \in Int
  BY <1>0, <1>1
<1>3. "exit" \in Outcomes
  BY DEF Outcomes
<1>4. CASE Head(s).k = "ret"
  <2>1. Section(s) = 0 /\ Deliver(how, s) = <<Fin(how)>> \o Tail(s)
    BY <1>4 DEF Section, Deliver
  <2>2. CASE s[2].k = "inline"
    <3>1. Head(Tail(s)).k = "inline"
      BY <1>4, <2>2, LeaveInline
    <3>2. Bailing \in Frames /\ Bailing.k = "bail"
      BY BailingFrame
    <3>3. Bail(s) = <<Bailing>> \o Tail(Tail(s))
      BY <1>4, <2>2 DEF Bail
    <3>4. /\ Form(Bail(s), f, P) /\ Same(Bail(s), s) /\ Head(Bail(s)) = Bailing
          /\ Total(Bail(s)) = Total(s) /\ Total(s) \in Int
      BY <1>4, <3>1, <3>3, BailOver
    <3>5. Total(Bail(s)) = Total(s) - Section(s)
      BY <2>1, <3>4
    <3> QED BY <1>2, <2>1, <3>2, <3>4, <3>5
  <2>3. CASE s[2].k # "inline"
    <3>1. Bail(s) = <<Fin("exit")>> \o Tail(s)
      BY <2>3 DEF Bail
    <3> QED BY <1>2, <1>3, <2>1, <3>1
  <2> QED BY <2>2, <2>3
<1>5. CASE Head(s).k # "ret"
  <2>1. Deliver(how, s) = s /\ Head(s).k = "code"
    BY <1>5 DEF Deliver, Callers
  <2> QED BY <1>2, <1>3, <2>1 DEF Bail, Same
<1> QED BY <1>4, <1>5
-------------------------------------------------------------------------------
(* The steps of the running fiber alone.                                    *)

(* Nothing but its stack changes, and the count of busy sections.           *)
Keeping(r) ==
    /\ Goto(r) /\ Form(r, fiber, spawned) /\ Head(r).k \notin Pauses \cup {"inline", "resched"}
    /\ UNCHANGED <<fiber, fibers, spawned, disposed, status, ready, op, ops, caller, stopped, uvstop, closed>>
    /\ callbacks' = callbacks \/ (callbacks # <<>> /\ callbacks' = Tail(callbacks))
    /\ busy' = busy + Total(r) - Total(stack[fiber])
(* Such a step keeps the invariant.                                         *)
LEMMA KeepBook ==
    ASSUME Inv, Inv', Book, NEW r, Keeping(r), Same(r, stack[fiber]),
           Top.k \notin Pauses \cup {"done", "end"}
    PROVE  Book'
<1>1. fiber \in Fiber /\ Top.k \notin Waits /\ Top.k # "done" /\ Top.k \notin Pauses
  BY Here DEF Pauses, Waits
<1>2. Finals' = Finals /\ Begun' = Begun /\ \A t : Settled(t)' <=> Settled(t)
  BY DEF Keeping, Finals, Settled, Begun
<1>3. ToSet(callbacks') \subseteq ToSet(callbacks) /\ Single(callbacks', Owners)
  <2>1. Single(callbacks, Owners) /\ callbacks \in Seq(Begun \cup {Root})
    BY DEF Book, QueuedOK, Inv, OpsOK
  <2>2. ASSUME callbacks # <<>>, callbacks' = Tail(callbacks)
        PROVE  ToSet(callbacks') \subseteq ToSet(callbacks) /\ Single(callbacks', Owners)
    <3>1. Single(callbacks', Owners) /\ \A i \in DOMAIN callbacks' : i + 1 \in DOMAIN callbacks /\ callbacks'[i] = callbacks[i + 1]
      BY <2>1, <2>2, SingleTail
    <3> QED BY <3>1 DEF ToSet
  <2> QED BY <2>1, <2>2 DEF Keeping
<1>4. ready' = ready /\ Single(ready, Deferred)
  BY DEF Keeping, Book, DeferredOK
<1>5. Alike(r)
  <2>1. stopped' = stopped /\ uvstop' = uvstop /\ caller' = caller /\ UNCHANGED <<fiber, fibers, spawned, op, ops>>
    BY DEF Keeping
  <2>2. ToSet(ready') \cap Deferred \subseteq ToSet(ready) /\ Single(ready', Deferred)
    BY <1>4
  <2>3. Goto(r) /\ Form(r, fiber, spawned) /\ Head(r).k \notin Pauses \cup {"inline", "resched"}
    BY <1>2 DEF Keeping
  <2>4. busy' = busy + Total(r) - Total(stack[fiber])
    BY DEF Keeping
  <2> QED BY <1>1, <1>2, <1>3, <2>1, <2>2, <2>3, <2>4 DEF Alike
<1>6. closed' = closed /\ disposed' = disposed
  BY DEF Keeping
<1> QED BY <1>1, <1>2, <1>5, <1>6, AlikeBook

(* A frame that does not count is put on top.                               *)
LEMMA PushKeeps ==
    ASSUME Inv, Book, Top.k # "end", Takes(stack[fiber]), NEW fr \in Frames, fr.k \in {"trigger", "cancel", "dispatch"},
           Stands(fr, Top, fiber, spawned), fr.k = "trigger" \/ NoPlain(stack[fiber]),
           Goto(<<fr>> \o stack[fiber]), UNCHANGED <<fiber, fibers, taskVars, ready, opVars, loopVars, stopped, uvstop, closed>>
    PROVE  Keeping(<<fr>> \o stack[fiber]) /\ Same(<<fr>> \o stack[fiber], stack[fiber])
<1>1. fr.k \notin Stages /\ (fr.k \in Resumers \/ NoPlain(stack[fiber])) /\ fr.k \notin {"await", "wait", "inline"}
      /\ fr.k \notin Pauses \cup {"inline", "resched"}
  BY DEF Stages, Resumers, Pauses
<1>2. PICK r : r = <<fr>> \o stack[fiber]
  OBVIOUS
<1>3. /\ Form(r, fiber, spawned) /\ Same(r, stack[fiber]) /\ Head(r) = fr
      /\ Total(r) = Total(stack[fiber]) /\ Total(stack[fiber]) \in Int
  BY <1>1, <1>2, PushFrame
<1>4. busy' = busy + Total(r) - Total(stack[fiber])
  <2>1. busy' = busy /\ busy \in Int
    BY DEF loopVars, Inv, RestOK
  <2> QED BY <1>3, <2>1
<1>5. UNCHANGED <<fiber, fibers, spawned, disposed, status, ready, op, ops, caller, stopped, uvstop, closed, callbacks>>
  BY DEF taskVars, opVars, loopVars
<1>6. Keeping(r)
  BY <1>1, <1>2, <1>3, <1>4, <1>5 DEF Keeping
<1> QED BY <1>2, <1>3, <1>6

(* The cancellation is triggered.                                           *)
LEMMA BookCancelled ==
    ASSUME Inv, Inv', Book, CancelCall \/ TimeOut
    PROVE  Book'
<1>1. Top.k \in {"code", "loop"} /\ Goto(<<Cancel>> \o stack[fiber])
      /\ UNCHANGED <<fiber, fibers, taskVars, ready, opVars, loopVars, stopped, uvstop, closed>>
  BY DEF CancelCall, TimeOut, InCode, InLoop, readyVars
<1>2. Top.k # "end" /\ Top.k \notin Pauses \cup {"done", "end"} /\ Top.k \notin Resumers /\ Top.k \notin Plain
      /\ Top.k \notin Ended /\ Top.k # "ret"
  BY <1>1 DEF Pauses, Resumers, Plain, Stages, Ended, Fins
<1>3. Takes(stack[fiber]) /\ NoPlain(stack[fiber])
  BY <1>2, Here, FormTop DEF Takes, Uncovered, Top
<1>4. Cancel \in Frames /\ Cancel.k = "cancel" /\ Stands(Cancel, Top, fiber, spawned)
  <2>1. Cancel \in Frames /\ Cancel.k = "cancel"
    BY LoopFrame DEF Cancel, Frame
  <2> QED BY <2>1 DEF Stands, Fins, Callers
<1>5. PICK fr \in Frames : fr = Cancel /\ fr.k = "cancel" /\ Stands(fr, Top, fiber, spawned)
  BY <1>4
<1>6. Keeping(<<fr>> \o stack[fiber]) /\ Same(<<fr>> \o stack[fiber], stack[fiber])
  BY <1>1, <1>2, <1>3, <1>5, PushKeeps
<1> QED BY <1>2, <1>6, KeepBook

(* What the frame on top says of the fiber that runs.                       *)
LEMMA TopStands ==
    ASSUME Inv, Book, Top.k # "end"
    PROVE  /\ \E b : Stands(Top, b, fiber, spawned)
           /\ Top.k \in {"loop", "dispatch"} => fiber = Runner
           /\ Top.k = "await" => Top.o = fiber
<1>1. Form(stack[fiber], fiber, spawned) /\ stack[fiber] \in Seq(Frames) /\ stack[fiber] # <<>>
  BY Here
<1>2. 1 \in DOMAIN stack[fiber] /\ stack[fiber][1] = Top
  BY <1>1 DEF Top
<1>3. \E b : Stands(Top, b, fiber, spawned)
  BY <1>1, <1>2 DEF Form
<1> QED BY <1>3 DEF Stands

(* The idle watcher calls dispatch_tasks.                                   *)
LEMMA BookStartDispatch ==
    ASSUME Inv, Inv', Book, StartDispatch
    PROVE  Book'
<1>1. Top.k = "loop" /\ Goto(<<Dispatch>> \o stack[fiber])
      /\ UNCHANGED <<fiber, fibers, taskVars, ready, opVars, loopVars, stopped, uvstop, closed>>
  BY DEF StartDispatch, InLoop, readyVars, stopVars
<1>2. Top.k # "end" /\ Top.k \notin Pauses \cup {"done", "end"} /\ Top.k \notin Resumers /\ Top.k \notin Plain
      /\ Top.k \notin Ended /\ Top.k # "ret"
  BY <1>1 DEF Pauses, Resumers, Plain, Stages, Ended, Fins
<1>3. Takes(stack[fiber]) /\ NoPlain(stack[fiber])
  BY <1>2, Here, FormTop DEF Takes, Uncovered, Top
<1>4. Dispatch \in Frames /\ Dispatch.k = "dispatch"
  BY LoopFrame DEF Dispatch, Frame
<1>5. fiber = Runner
  BY <1>1, <1>2, TopStands
<1>6. Stands(Dispatch, Top, fiber, spawned)
  BY <1>4, <1>5 DEF Stands, Fins, Callers
<1>7. PICK fr \in Frames : fr = Dispatch /\ fr.k = "dispatch" /\ Stands(fr, Top, fiber, spawned)
  BY <1>4, <1>6
<1>8. Keeping(<<fr>> \o stack[fiber]) /\ Same(<<fr>> \o stack[fiber], stack[fiber])
  BY <1>1, <1>2, <1>3, <1>7, PushKeeps
<1> QED BY <1>2, <1>8, KeepBook
(* A frame that does not count is taken off the top.                        *)
LEMMA PopKeeps ==
    ASSUME Inv, Book, Top.k \in {"trigger", "cancel", "dispatch", "resched"}, Goto(Rest),
           UNCHANGED <<fiber, fibers, taskVars, ready, opVars, loopVars, stopped, uvstop, closed>>
    PROVE  Keeping(Rest) /\ Same(Rest, stack[fiber]) /\ Top.k \notin Pauses \cup {"done", "end"}
<1>1. /\ Top.k \notin Pauses \cup {"done", "end"} /\ Top.k \notin Bottom /\ Top.k \notin Stages
      /\ Top.k \notin Callers \cup Fins /\ Top.k \notin {"await", "wait", "inline"}
  BY DEF Pauses, Bottom, Stages, Callers, Fins
<1>2. PICK r : r = Rest
  OBVIOUS
<1>3. Form(r, fiber, spawned) /\ Takes(r) /\ Head(r).k # "inline" /\ Same(r, stack[fiber])
  BY <1>1, <1>2, PopFrame
<1>4. Head(r).k \notin Pauses \cup {"inline", "resched"}
  BY <1>3 DEF Takes, Ended
<1>5. Total(stack[fiber]) = Total(r) /\ Total(r) \in Int
  <2>1. WellFormed(stack[fiber], Begun, fiber) /\ Head(stack[fiber]) = Top /\ r = Tail(stack[fiber])
    BY <1>1, <1>2, Here DEF Top, Rest
  <2>2. WellFormed(r, Begun, fiber)
    BY <1>1, <1>2, PopFrame
  <2>3. Total(stack[fiber]) = Total(Tail(stack[fiber]))
    BY <1>1, <1>3, <2>1, TotalPop
  <2>4. Load("none", r) \in Nat
    BY <2>2, LoadAbove
  <2> QED BY <2>1, <2>3, <2>4 DEF Total
<1>6. busy' = busy + Total(r) - Total(stack[fiber])
  <2>1. busy' = busy /\ busy \in Int
    BY DEF loopVars, Inv, RestOK
  <2> QED BY <1>5, <2>1
<1>7. UNCHANGED <<fiber, fibers, spawned, disposed, status, ready, op, ops, caller, stopped, uvstop, closed, callbacks>>
  BY DEF taskVars, opVars, loopVars
<1>8. Keeping(r)
  BY <1>2, <1>3, <1>4, <1>6, <1>7 DEF Keeping
<1> QED BY <1>1, <1>2, <1>3, <1>8

(* dispatch_tasks ends.                                                     *)
LEMMA BookStopDispatch ==
    ASSUME Inv, Inv', Book, StopDispatch
    PROVE  Book'
<1>1. Top.k \in {"trigger", "cancel", "dispatch", "resched"} /\ Goto(Rest)
      /\ UNCHANGED <<fiber, fibers, taskVars, ready, opVars, loopVars, stopped, uvstop, closed>>
  BY DEF StopDispatch, stopVars
<1> QED BY <1>1, PopKeeps, KeepBook

(* The code on top ends.                                                    *)
LEMMA BookEndCode ==
    ASSUME Inv, Inv', Book, InCode, NEW fr \in Frames,
           fr.k \in Fins \/ Rets(fr, stack[fiber], spawned), EndCode(fr),
           UNCHANGED <<fiber, fibers, taskVars, readyVars, opVars, caller, stopVars>>
    PROVE  Book'
<1>1. Top.k \in Callers /\ Top.k \notin Pauses \cup {"done", "end"}
  BY DEF InCode, Callers, Pauses
<1>2. PICK r : r = <<fr>> \o Rest
  OBVIOUS
<1>3. /\ WellFormed(stack[fiber], Begun, fiber) /\ Form(stack[fiber], fiber, spawned)
      /\ Head(stack[fiber]).k \in Callers /\ Rest = Tail(stack[fiber])
  BY <1>1, Here DEF Top, Rest
<1>4. Form(r, fiber, spawned) /\ Same(r, stack[fiber]) /\ Head(r) = fr
  BY <1>2, <1>3, SwapTop
<1>5. Total(r) = Total(stack[fiber]) - Section(stack[fiber])
      /\ Total(stack[fiber]) \in Int /\ Section(stack[fiber]) \in Int
  BY <1>2, <1>3, SwapTop
<1>6. Goto(r) /\ busy' = busy - Section(stack[fiber]) /\ busy \in Int
  BY <1>2 DEF EndCode, Inv, RestOK
<1>7. busy' = busy + Total(r) - Total(stack[fiber])
  BY <1>5, <1>6
<1>8. Head(r).k \notin Pauses \cup {"inline", "resched"}
  BY <1>4 DEF Fins, Rets, Pauses
<1>9. UNCHANGED <<fiber, fibers, spawned, disposed, status, ready, op, ops, caller, stopped, uvstop, closed, callbacks>>
  BY DEF taskVars, opVars, readyVars, stopVars
<1>10. Keeping(r)
  BY <1>4, <1>6, <1>7, <1>8, <1>9 DEF Keeping
<1> QED BY <1>1, <1>4, <1>10, KeepBook

(* The PHP code returns, throws or calls exit().                            *)
LEMMA BookReturn ==
    ASSUME Inv, Inv', Book, (\E how \in {"ok", "fail"} : Return(how)) \/ Exit
    PROVE  Book'
<1>1. PICK how \in Outcomes : /\ InCode /\ EndCode(Fin(how))
                              /\ UNCHANGED <<fiber, fibers, taskVars, readyVars, opVars, caller, stopVars>>
  BY DEF Return, Exit, Outcomes
<1>2. Fin(how) \in Frames /\ Fin(how).k \in Fins
  BY FinFrame DEF Fin, Frame, Outcomes, Fins
<1> QED BY <1>1, <1>2, BookEndCode

(* The PHP code returns an awaitable.                                       *)
LEMMA BookReturnAwaitable ==
    ASSUME Inv, Inv', Book, Careful, NEW x \in Awaitables, ReturnAwaitable(x)
    PROVE  Book'
<1>1. InCode /\ EndCode(Ret(x, Top.o)) /\ UNCHANGED <<fiber, fibers, taskVars, readyVars, opVars, caller, stopVars>>
      /\ Top.k = "code"
  BY DEF ReturnAwaitable, InCode
<1>2. Top \in Frames
  BY <1>1, Here
<1>3. Top.o \in Tasks
  BY <1>2 DEF ReturnAwaitable, Frames, Owners
<1>4. Ret(x, Top.o) \in Frames /\ Ret(x, Top.o).k = "ret" /\ Ret(x, Top.o).o = Top.o /\ Ret(x, Top.o).x = x
  BY <1>2, <1>3 DEF Ret, Frame, Frames, Kinds, Lists, Owners
<1>5. Uncovered(Ret(x, Top.o), Head(Tail(stack[fiber]))) => x \in Exts \cup spawned
  <2>1. Settled(x) /\ Inlinable(x) => FALSE
    BY DEF ReturnAwaitable, Settled
  <2>2. ~Inlinable(x) => x \in Exts \cup spawned
    BY DEF Inlinable, Awaitables
  <2> QED BY <1>4, <2>1, <2>2 DEF ReturnAwaitable, Uncovered, Rest
<1>6. Rets(Ret(x, Top.o), stack[fiber], spawned)
  BY <1>1, <1>3, <1>4, <1>5 DEF Rets, Top
<1> QED BY <1>1, <1>4, <1>6, BookEndCode

(* A returned awaitable that is settled already.                            *)
LEMMA BookReturnSettled ==
    ASSUME Inv, Inv', Book, ReturnSettled
    PROVE  Book'
<1>1. PICK how \in Outcomes : Goto(Deliver(how, stack[fiber]))
  BY DEF ReturnSettled, HowOf, Outcomes
<1>2. Top.k \in Callers /\ Top.k \notin Pauses \cup {"done", "end"}
  BY DEF ReturnSettled, Callers, Pauses
<1>3. PICK s : s = stack[fiber]
  OBVIOUS
<1>4. WellFormed(s, Begun, fiber) /\ Form(s, fiber, spawned) /\ Head(s).k \in Callers
  BY <1>2, <1>3, Here DEF Top
<1>a. /\ Form(Deliver(how, s), fiber, spawned) /\ Same(Deliver(how, s), s)
      /\ Head(Deliver(how, s)).k \in {"code"} \cup Fins
      /\ Total(Deliver(how, s)) = Total(s) /\ Total(s) \in Int
  <2>1. how \in Outcomes
    BY <1>1
  <2>2. /\ Form(Deliver(how, s), fiber, spawned) /\ Same(Deliver(how, s), s)
        /\ Head(Deliver(how, s)).k \in {"code"} \cup Fins /\ Total(Deliver(how, s)) = Total(s)
        /\ Form(Bail(s), fiber, spawned) /\ Same(Bail(s), s)
        /\ Head(Bail(s)).k \in {"bail"} \cup Fins /\ Total(Bail(s)) = Total(s) - Section(s)
        /\ Total(s) \in Int /\ Section(s) \in Int
    BY <1>4, <2>1, DeliverForm
  <2> QED BY <2>2
<1>b. PICK r : r = Deliver(how, s)
  OBVIOUS
<1>5. /\ Form(r, fiber, spawned) /\ Same(r, stack[fiber]) /\ Head(r).k \in {"code"} \cup Fins
      /\ Total(r) = Total(stack[fiber]) /\ Total(stack[fiber]) \in Int
  BY <1>3, <1>a, <1>b
<1>6. busy' = busy + Total(r) - Total(stack[fiber])
  <2>1. busy' = busy /\ busy \in Int
    BY DEF ReturnSettled, loopVars, Inv, RestOK
  <2> QED BY <1>5, <2>1
<1>7. UNCHANGED <<fiber, fibers, spawned, disposed, status, ready, op, ops, caller, stopped, uvstop, closed, callbacks>>
  BY DEF ReturnSettled, taskVars, opVars, readyVars, stopVars, loopVars
<1>8. Head(r).k \notin Pauses \cup {"inline", "resched"}
  BY <1>5 DEF Fins, Pauses
<1>9. Keeping(r)
  BY <1>1, <1>3, <1>b, <1>5, <1>6, <1>7, <1>8 DEF Keeping
<1> QED BY <1>2, <1>5, <1>9, KeepBook

(* What is below a call of PHP code.                                        *)
LEMMA BelowCall ==
    ASSUME Inv, Book, Top.k \in Calls, Top.k \notin {"await", "wait"}, NEW how \in Outcomes
    PROVE  /\ Form(Deliver(how, Rest), fiber, spawned) /\ Same(Deliver(how, Rest), stack[fiber])
           /\ Head(Deliver(how, Rest)).k \in {"code"} \cup Fins
           /\ Total(Deliver(how, Rest)) = Total(stack[fiber])
           /\ Form(Bail(Rest), fiber, spawned) /\ Same(Bail(Rest), stack[fiber])
           /\ Head(Bail(Rest)).k \in {"bail"} \cup Fins /\ Total(Bail(Rest)) = Total(stack[fiber]) - Section(Rest)
           /\ Total(stack[fiber]) \in Int /\ Section(Rest) \in Int
<1>1. Top.k \notin Bottom /\ Top.k \notin Stages /\ Top.k # "end" /\ Top.k # "inline"
  <2>1. Top.k # "end"
    BY DEF Calls
  <2> QED BY <2>1, Here DEF Calls, Bottom, Stages
<1>2. PICK s : s = Rest
  OBVIOUS
<1>3. WellFormed(s, Begun, fiber) /\ Form(s, fiber, spawned) /\ Head(s).k \in Callers /\ Same(s, stack[fiber])
  BY <1>1, <1>2, PopFrame
<1>4. Total(stack[fiber]) = Total(s)
  <2>1. WellFormed(stack[fiber], Begun, fiber) /\ Head(stack[fiber]) = Top /\ s = Tail(stack[fiber])
    BY <1>1, <1>2, Here DEF Top, Rest
  <2>2. Head(s).k # "inline" /\ Top.k \notin {"await", "wait", "inline"}
    BY <1>1, <1>3 DEF Callers
  <2> QED BY <1>1, <2>1, <2>2, TotalPop
<1>5. /\ Form(Deliver(how, s), fiber, spawned) /\ Same(Deliver(how, s), s)
      /\ Head(Deliver(how, s)).k \in {"code"} \cup Fins /\ Total(Deliver(how, s)) = Total(s)
      /\ Form(Bail(s), fiber, spawned) /\ Same(Bail(s), s)
      /\ Head(Bail(s)).k \in {"bail"} \cup Fins /\ Total(Bail(s)) = Total(s) - Section(s)
      /\ Total(s) \in Int /\ Section(s) \in Int
  BY <1>3, DeliverForm
<1>6. Same(Deliver(how, s), stack[fiber]) /\ Same(Bail(s), stack[fiber])
  BY <1>3, <1>5 DEF Same
<1> QED BY <1>2, <1>4, <1>5, <1>6

(* Back in task_await_delegate, or out of it.                               *)
LEMMA BookReturnInlined ==
    ASSUME Inv, Inv', Book, ReturnInlined \/ Unwind
    PROVE  Book'
<1>1. Top.k \in Calls /\ Top.k \notin {"await", "wait"} /\ Top.k \notin Pauses \cup {"done", "end"}
  BY DEF ReturnInlined, Unwind, Calls, Pauses
<1>2. PICK how \in Outcomes : \E r :
        /\ Goto(r)
        /\ \/ r = Deliver(how, Rest) /\ UNCHANGED busy
           \/ r = Bail(Rest) /\ busy' = busy - Section(Rest)
  BY DEF ReturnInlined, Unwind, HowOf, Outcomes
<1>2b. PICK r :
        /\ Goto(r)
        /\ \/ r = Deliver(how, Rest) /\ UNCHANGED busy
           \/ r = Bail(Rest) /\ busy' = busy - Section(Rest)
  BY <1>2
<1>3. Form(r, fiber, spawned) /\ Same(r, stack[fiber]) /\ Head(r).k \in {"code", "bail"} \cup Fins
  BY <1>1, <1>2b, BelowCall
<1>4. busy' = busy + Total(r) - Total(stack[fiber])
  <2>1. busy \in Int
    BY DEF Inv, RestOK
  <2>2. CASE r = Deliver(how, Rest) /\ UNCHANGED busy
    <3>1. Total(r) = Total(stack[fiber]) /\ Total(stack[fiber]) \in Int
      BY <1>1, <2>2, BelowCall
    <3> QED BY <2>1, <2>2, <3>1
  <2>3. CASE r = Bail(Rest) /\ busy' = busy - Section(Rest)
    <3>1. Total(r) = Total(stack[fiber]) - Section(Rest) /\ Total(stack[fiber]) \in Int /\ Section(Rest) \in Int
      BY <1>1, <2>3, BelowCall
    <3> QED BY <2>1, <2>3, <3>1
  <2> QED BY <1>2b, <2>2, <2>3
<1>5. UNCHANGED <<fiber, fibers, spawned, disposed, status, ready, op, ops, caller, stopped, uvstop, closed, callbacks>>
  BY DEF ReturnInlined, Unwind, taskVars, opVars, readyVars, stopVars
<1>6. Head(r).k \notin Pauses \cup {"inline", "resched"}
  BY <1>3 DEF Fins, Pauses
<1>7. Keeping(r)
  BY <1>2b, <1>3, <1>4, <1>5, <1>6 DEF Keeping
<1> QED BY <1>1, <1>3, <1>7, KeepBook
(* A loop over operations, or callbacks, comes to its end.                  *)
LEMMA BookLoopEnds ==
    ASSUME Inv, Inv', Book, Top.k \in {"trigger", "cancel"}, Goto(Rest),
           UNCHANGED <<fiber, fibers, taskVars, readyVars, opVars, loopVars, stopVars>>
    PROVE  Book'
<1>1. UNCHANGED <<fiber, fibers, taskVars, ready, opVars, loopVars, stopped, uvstop, closed>>
  BY DEF readyVars, stopVars
<1> QED BY <1>1, PopKeeps, KeepBook

(* A callback of the cancellation whose operation has ended is passed over. *)
LEMMA BookCancelPassed ==
    ASSUME Inv, Inv', Book, Top.k = "cancel", callbacks # <<>>, callbacks' = Tail(callbacks),
           UNCHANGED <<fiber, fibers, stack, taskVars, readyVars, op, ops, loopVars, stopVars>>
    PROVE  Book'
<1>1. Top.k \notin Pauses \cup {"done", "end"} /\ Top.k # "end"
  BY DEF Pauses
<1>2. PICK r : r = stack[fiber]
  OBVIOUS
<1>3. /\ fiber \in Fiber /\ WellFormed(r, Begun, fiber) /\ Head(r) = Top
      /\ Form(r, fiber, spawned)
  BY <1>1, <1>2, Here DEF Top
<1>4. Same(r, stack[fiber]) /\ Goto(r)
  BY <1>2, GotoSame DEF Same
<1>5. Head(r).k \notin Pauses \cup {"inline", "resched"}
  BY <1>3 DEF Pauses
<1>6. busy' = busy + Total(r) - Total(stack[fiber])
  <2>1. busy' = busy /\ busy \in Int
    BY DEF loopVars, Inv, RestOK
  <2>2. Load("none", r) \in Nat
    BY <1>3, LoadAbove
  <2>3. Total(r) \in Nat /\ Total(stack[fiber]) = Total(r)
    BY <1>2, <2>2 DEF Total
  <2> QED BY <2>1, <2>3
<1>7. UNCHANGED <<fiber, fibers, spawned, disposed, status, ready, op, ops, caller, stopped, uvstop, closed>>
  BY DEF taskVars, readyVars, stopVars, loopVars
<1>8. Keeping(r)
  BY <1>3, <1>4, <1>5, <1>6, <1>7 DEF Keeping
<1> QED BY <1>1, <1>4, <1>8, KeepBook

(* Nothing becomes of the ready list or the callbacks.                      *)
LEMMA QuietLists ==
    ASSUME Inv, Book, UNCHANGED <<ready, callbacks>>
    PROVE  /\ ToSet(ready') \cap Deferred \subseteq ToSet(ready) /\ Single(ready', Deferred)
           /\ ToSet(callbacks') \subseteq ToSet(callbacks) /\ Single(callbacks', Owners)
BY DEF Book, DeferredOK, QueuedOK

(* A result stays.                                                          *)
LEMMA SettledStays ==
    ASSUME Inv, NEW t \in Awaitables, NEW v, status' = [status EXCEPT ![t] = v],
           Settled(t) => v \in {"FINISHED", "FAILED"}
    PROVE  /\ Finals \subseteq Finals'
           /\ \A u \in Awaitables : u # t => (Settled(u)' <=> Settled(u))
           /\ Settled(t)' <=> v \in {"FINISHED", "FAILED"}
BY DEF Inv, StatusOK, Finals, Settled

(* An awaitable that is no task is settled.                                 *)
LEMMA BookSettled ==
    ASSUME Inv, Inv', Book, NEW e \in Exts,
           FailUnsettled(e) \/ \E res \in {"FINISHED", "FAILED"} : SettleExt(e, res)
    PROVE  Book'
<1>1. PICK res \in {"FINISHED", "FAILED"} : status' = [status EXCEPT ![e] = res]
  BY DEF FailUnsettled, SettleExt
<1>2. /\ Goto(<<Trigger(e)>> \o stack[fiber]) /\ Top.k \in {"code", "shut"}
      /\ UNCHANGED <<fiber, fibers, spawned, disposed, runs, readyVars, opVars, loopVars, stopVars>>
  BY DEF FailUnsettled, SettleExt, InCode
<1>3. Top.k # "end" /\ Top.k \notin Waits /\ Top.k # "done" /\ Top.k \notin Pauses /\ Top.k \notin Ended /\ Top.k # "ret"
  BY <1>2 DEF Waits, Pauses, Ended, Fins
<1>4. e \in Awaitables /\ e \notin Tasks /\ Finals \subseteq Finals' /\ Begun' = Begun
  <2>1. e \in Awaitables /\ e \notin Tasks
    BY NamesAssumption DEF Awaitables
  <2>2. Begun' = Begun
    BY <1>1, <2>1 DEF Begun, Inv, StatusOK
  <2> QED BY <1>1, <2>1, <2>2, SettledStays
<1>5. PICK fr \in Frames : fr = Trigger(e) /\ fr.k = "trigger"
  BY <1>4, TriggerFrame DEF Trigger, Frame
<1>6. Takes(stack[fiber]) /\ Stands(fr, Top, fiber, spawned) /\ fr.k \notin Stages /\ fr.k \in Resumers
  BY <1>3, <1>5 DEF Takes, Uncovered, Top, Stands, Stages, Resumers, Fins, Callers
<1>7. PICK r : r = <<fr>> \o stack[fiber]
  OBVIOUS
<1>8. /\ Form(r, fiber, spawned) /\ Same(r, stack[fiber]) /\ Head(r) = fr
      /\ Total(r) = Total(stack[fiber]) /\ Total(stack[fiber]) \in Int
  BY <1>3, <1>4, <1>5, <1>6, <1>7, PushFrame
<1>9. Alike(r)
  <2>1. Goto(r) /\ Head(r).k \notin Pauses \cup {"inline", "resched"}
    BY <1>2, <1>5, <1>7, <1>8 DEF Pauses
  <2>2. UNCHANGED <<fiber, fibers, spawned, op, ops, callbacks, stopped, uvstop, caller, ready, busy>>
    BY <1>2 DEF readyVars, opVars, loopVars, stopVars
  <2>3. busy' = busy + Total(r) - Total(stack[fiber])
    <3>1. busy \in Int
      BY DEF Inv, RestOK
    <3> QED BY <1>8, <2>2, <3>1
  <2> QED BY <1>3, <1>4, <1>8, <2>1, <2>2, <2>3, QuietLists DEF Alike
<1>10. \A t \in spawned : Settled(t)' => Settled(t)
  <2>1. \A t \in spawned : t \in Awaitables /\ t # e
    BY <1>4 DEF Inv, StatusOK, Begun, Awaitables
  <2> QED BY <1>1, <1>4, <2>1, SettledStays
<1>11. fiber \in Fiber /\ UNCHANGED <<disposed, closed>>
  BY <1>2, <1>3, Here DEF stopVars
<1> QED BY <1>3, <1>4, <1>8, <1>9, <1>10, <1>11, AlikeBook

(* Tasks are created.                                                       *)
LEMMA BookAsync ==
    ASSUME Inv, Inv', Book, NEW t \in Tasks, Async(t)
    PROVE  Book'
<1>1. /\ Top.k = "code" /\ status[t] = "NONE" /\ Enqueue(t) /\ status' = [status EXCEPT ![t] = "INIT"]
      /\ UNCHANGED <<fiberVars, spawned, disposed, runs, opVars, loopVars, stopVars>>
  BY DEF Async, InCode
<1>2. Top.k # "end" /\ Top.k \notin Waits /\ Top.k # "done" /\ Top.k \notin Pauses
  BY <1>1 DEF Waits, Pauses
<1>3. PICK r : r = stack[fiber]
  OBVIOUS
<1>4. /\ fiber \in Fiber /\ WellFormed(r, Begun, fiber) /\ Head(r) = Top /\ Form(r, fiber, spawned)
  BY <1>2, <1>3, Here DEF Top
<1>5. t \in Awaitables /\ t \notin spawned /\ t # Root /\ Begun' = Begun
  <2>1. t \in Awaitables /\ t # Root
    BY NamesAssumption DEF Awaitables
  <2>2. status' \in [Awaitables -> TaskStatus \cup {"PENDING"}] /\ t \notin Begun
    BY <1>1 DEF Inv, StatusOK, Begun
  <2>3. Begun' = Begun
    BY <1>1, <2>1 DEF Inv, StatusOK, Begun
  <2>4. t \notin spawned
    BY <2>2 DEF Inv, StatusOK
  <2> QED BY <2>1, <2>3, <2>4
<1>6. Finals \subseteq Finals' /\ \A u \in spawned : Settled(u)' => Settled(u)
  <2>1. ~Settled(t)
    BY <1>1 DEF Settled
  <2>2. \A u \in spawned : u \in Awaitables /\ u # t
    BY <1>5 DEF Inv, StatusOK, Begun, Awaitables
  <2> QED BY <1>1, <1>5, <2>1, <2>2, SettledStays
<1>7. Goto(r) /\ Same(r, stack[fiber])
  BY <1>1, <1>3, GotoSame DEF fiberVars, Same
<1>8. Form(r, fiber, spawned)
  BY <1>4, <1>6, FormGrow
<1>9. ToSet(ready') \cap Deferred \subseteq ToSet(ready) /\ Single(ready', Deferred)
  <2>1. ready \in Seq(spawned \cup Fresh \cup {Root} \cup {t}) /\ Single(ready, Deferred)
    <3>1. ready \in Seq(spawned \cup Fresh \cup {Root}) /\ Single(ready, Deferred)
      BY DEF Inv, ReadyOK, Book, DeferredOK
    <3>2. ready \in Seq((spawned \cup Fresh \cup {Root}) \cup {t})
      BY <3>1, SeqMonotonic
    <3> QED BY <3>1, <3>2
  <2>2. t \notin Deferred
    BY <1>5 DEF Deferred
  <2>3. ready' = ready \/ ready' = Append(ready, t)
    BY <1>1 DEF Enqueue, readyVars
  <2>4. CASE ready' = ready
    BY <2>1, <2>4
  <2>5. CASE ready' = Append(ready, t)
    <3>1. ToSet(ready') = ToSet(ready) \cup {t}
      BY <2>1, <2>5, AppendedSet
    <3>2. /\ DOMAIN ready' = 1 .. Len(ready) + 1 /\ DOMAIN ready = 1 .. Len(ready)
          /\ \A i \in 1 .. Len(ready) + 1 : ready'[i] = IF i = Len(ready) + 1 THEN t ELSE ready[i]
          /\ Len(ready) \in Nat
      BY <2>1, <2>5
    <3>3. \A i \in DOMAIN ready' : ready'[i] \in Deferred => i \in DOMAIN ready /\ ready'[i] = ready[i]
      BY <2>2, <3>2
    <3>4. Single(ready', Deferred)
      BY <2>1, <3>3 DEF Single
    <3> QED BY <2>2, <3>1, <3>4
  <2> QED BY <2>3, <2>4, <2>5
<1>10. Alike(r)
  <2>1. Head(r).k \notin Pauses \cup {"inline", "resched"}
    BY <1>1, <1>4 DEF Pauses
  <2>2. UNCHANGED <<fiber, fibers, spawned, op, ops, callbacks, stopped, uvstop, caller, busy>>
    BY <1>1 DEF opVars, loopVars, stopVars, fiberVars
  <2>3. busy' = busy + Total(r) - Total(stack[fiber])
    <3>1. busy \in Int
      BY DEF Inv, RestOK
    <3>2. Load("none", r) \in Nat
      BY <1>4, LoadAbove
    <3>3. Total(r) \in Nat /\ Total(stack[fiber]) = Total(r)
      BY <1>3, <3>2 DEF Total
    <3> QED BY <2>2, <3>1, <3>3
  <2>4. ToSet(callbacks') \subseteq ToSet(callbacks) /\ Single(callbacks', Owners)
    BY <2>2 DEF Book, QueuedOK
  <2> QED BY <1>2, <1>6, <1>7, <1>8, <1>9, <2>1, <2>2, <2>3, <2>4 DEF Alike
<1>11. UNCHANGED <<disposed, closed>>
  BY <1>1 DEF stopVars
<1> QED BY <1>2, <1>4, <1>5, <1>6, <1>7, <1>10, <1>11, AlikeBook
(* Another frame that does not count takes the place of the top.            *)
LEMMA OnRest ==
    ASSUME Inv, Book, Top.k \notin Bottom, Top.k \notin Stages, Top.k \notin {"await", "wait", "inline"},
           Head(Rest).k # "inline",
           NEW fr \in Frames, fr.k \notin {"await", "wait", "inline"}, fr.k \notin Stages,
           Stands(fr, Head(Rest), fiber, spawned), fr.k \in Resumers \/ NoPlain(Rest)
    PROVE  /\ Form(<<fr>> \o Rest, fiber, spawned) /\ Same(<<fr>> \o Rest, stack[fiber])
           /\ Head(<<fr>> \o Rest) = fr
           /\ Total(<<fr>> \o Rest) = Total(stack[fiber]) /\ Total(stack[fiber]) \in Int
<1>1. PICK s : s = Rest
  OBVIOUS
<1>2. WellFormed(s, Begun, fiber) /\ s \in Seq(Frames) /\ s # <<>> /\ Form(s, fiber, spawned) /\ Takes(s)
      /\ Same(s, stack[fiber])
  BY <1>1, PopFrame
<1>3. Form(s, fiber, spawned)
  BY <1>2, FormGrow
<1>4. Form(<<fr>> \o s, fiber, spawned)
  BY <1>1, <1>2, <1>3, FormPush DEF Uncovered
<1>5. Same(<<fr>> \o s, stack[fiber])
  <2>1. Same(<<fr>> \o s, s)
    BY <1>2, SamePush
  <2> QED BY <1>2, <2>1 DEF Same
<1>6. Total(<<fr>> \o s) = Total(s) /\ Total(s) \in Int
  BY <1>1, <1>2, TotalPush
<1>7. Total(stack[fiber]) = Total(s)
  <2>1. Top.k # "end"
    BY DEF Bottom
  <2>2. WellFormed(stack[fiber], Begun, fiber) /\ Head(stack[fiber]) = Top /\ s = Tail(stack[fiber])
    BY <1>1, <2>1, Here DEF Top, Rest
  <2> QED BY <1>1, <2>2, TotalPop
<1>8. Head(<<fr>> \o s) = fr
  BY <1>2, Pushed
<1> QED BY <1>1, <1>4, <1>5, <1>6, <1>7, <1>8

(* A fiber that was resumed has come back; its task may be over.            *)
LEMMA BookAfterSwitch ==
    ASSUME Inv, Inv', Book, AfterSwitch
    PROVE  Book'
<1>0. Top.k = "resched" /\ Top.k \in {"trigger", "cancel", "dispatch", "resched"}
      /\ UNCHANGED <<fiber, fibers, status, spawned, runs, readyVars, opVars, loopVars, stopVars>>
  BY DEF AfterSwitch
<1>1. CASE ~Over(Top.x)
  <2>1. Goto(Rest) /\ UNCHANGED <<fiber, fibers, taskVars, ready, opVars, loopVars, stopped, uvstop, closed>>
    BY <1>1 DEF AfterSwitch, taskVars, readyVars, stopVars
  <2> QED BY <1>0, <2>1, PopKeeps, KeepBook
<1>2. CASE Over(Top.x)
  <2>1. PICK t : t = Top.x
    OBVIOUS
  <2>2. disposed' = disposed \cup {t} /\ Goto(<<Trigger(t)>> \o Rest) /\ Settled(t)
    BY <1>2, <2>1 DEF AfterSwitch, Over
  <2>3. /\ Top.k \notin Bottom /\ Top.k \notin Stages /\ Top.k \notin {"await", "wait", "inline"} /\ Top.k # "end"
        /\ Top.k \notin Callers \cup Fins /\ Top.k \notin Waits /\ Top.k \notin Pauses /\ Top.k # "done"
    BY <1>0 DEF Bottom, Stages, Callers, Fins, Waits, Pauses
  <2>4. Head(Rest).k # "inline" /\ Stands(Top, Head(Rest), fiber, spawned)
    BY <2>3, PopFrame
  <2>5. Top.x # fiber /\ Top.x \in spawned /\ Top.o = Root /\ Top \in Frames /\ fiber \in Fiber
    BY <1>0, <2>3, <2>4, Here DEF Stands
  <2>6. t \in spawned /\ t \in Begun /\ t \in Awaitables
    BY <2>1, <2>5 DEF Inv, StatusOK, Begun, Awaitables
  <2>7. t \notin Gets
    <3>1. Top = Resched(t)
      BY <1>0, <2>1, <2>5 DEF Frames, Resched, Frame
    <3>2. \A g \in ToSet(fibers) : ~Resumes(fiber, g)
      BY DEF Book, LineOK
    <3> QED BY <2>1, <2>5, <3>1, <3>2 DEF Gets, Resumes, Top
  <2>8. PICK fr \in Frames : fr = Trigger(t) /\ fr.k = "trigger"
    BY <2>6, TriggerFrame DEF Trigger, Frame
  <2>9. fr.k \notin {"await", "wait", "inline"} /\ fr.k \notin Stages /\ fr.k \in Resumers
        /\ Stands(fr, Head(Rest), fiber, spawned)
    BY <2>8 DEF Stages, Resumers, Stands, Fins, Callers
  <2>10. PICK r : r = <<fr>> \o Rest
    OBVIOUS
  <2>11. Begun' = Begun /\ Finals' = Finals /\ \A u : Settled(u)' <=> Settled(u)
    BY <1>0 DEF Begun, Finals, Settled
  <2>12. /\ Form(r, fiber, spawned) /\ Same(r, stack[fiber]) /\ Head(r) = fr
         /\ Total(r) = Total(stack[fiber]) /\ Total(stack[fiber]) \in Int
    BY <2>3, <2>4, <2>9, <2>10, OnRest
  <2>13. Alike(r)
    <3>1. Goto(r) /\ Head(r).k \notin Pauses \cup {"inline", "resched"}
      BY <2>2, <2>8, <2>10, <2>12 DEF Pauses
    <3>2. UNCHANGED <<fiber, fibers, spawned, op, ops, callbacks, stopped, uvstop, caller, ready, busy>>
      BY <1>0 DEF readyVars, opVars, loopVars, stopVars
    <3>3. busy' = busy + Total(r) - Total(stack[fiber])
      <4>1. busy \in Int
        BY DEF Inv, RestOK
      <4> QED BY <2>12, <3>2, <4>1
    <3> QED BY <2>3, <2>11, <2>12, <3>1, <3>2, <3>3, QuietLists DEF Alike
  <2>14. closed' = closed
    BY <1>0 DEF stopVars
  <2>15. \A u \in disposed' : u \in disposed \/ (u \in Begun' /\ Settled(u)' /\ u \notin Gets)
    BY <2>2, <2>6, <2>7, <2>11
  <2> QED BY <2>3, <2>5, <2>11, <2>12, <2>13, <2>14, <2>15, AlikeBook
<1> QED BY <1>1, <1>2

(* The running fiber stays where it is.                                     *)
LEMMA StayHere ==
    ASSUME Inv, Inv', Book, Top.k \in {"loop", "dispatch"}, Goto(stack[fiber]),
           UNCHANGED <<fiber, fibers, status, spawned, runs, opVars, loopVars, closed>>,
           stopped \subseteq stopped', stopped' = {} => UNCHANGED uvstop,
           ToSet(ready') \cap Deferred \subseteq ToSet(ready), Single(ready', Deferred),
           \A t \in disposed' : t \in disposed \/ (t \notin spawned /\ stopped' # {})
    PROVE  Book'
<1>1. Top.k \notin Waits /\ Top.k \notin Pauses \cup {"inline", "resched"} /\ Top.k # "done" /\ Top.k # "end"
  BY DEF Waits, Pauses
<1>2. PICK r : r = stack[fiber]
  OBVIOUS
<1>3. /\ fiber \in Fiber /\ WellFormed(r, Begun, fiber) /\ Head(r) = Top
      /\ Form(r, fiber, spawned)
  BY <1>1, <1>2, Here DEF Top
<1>4. Same(r, stack[fiber]) /\ Goto(r)
  BY <1>2 DEF Same
<1>5. Begun' = Begun /\ Finals' = Finals /\ \A u : Settled(u)' <=> Settled(u)
  BY DEF Begun, Finals, Settled
<1>6. busy' = busy + Total(r) - Total(stack[fiber])
  <2>1. busy' = busy /\ busy \in Int
    BY DEF loopVars, Inv, RestOK
  <2>2. Load("none", r) \in Nat
    BY <1>3, LoadAbove
  <2>3. Total(r) \in Nat /\ Total(stack[fiber]) = Total(r)
    BY <1>2, <2>2 DEF Total
  <2> QED BY <2>1, <2>3
<1>7. Alike(r)
  <2>1. ToSet(callbacks') \subseteq ToSet(callbacks) /\ Single(callbacks', Owners)
        /\ UNCHANGED <<fiber, fibers, spawned, op, ops, caller>>
    BY DEF opVars, loopVars, Book, QueuedOK
  <2>2. Head(r).k \notin Pauses \cup {"inline", "resched"} /\ Top.k \notin Pauses
    BY <1>1, <1>3
  <2> QED BY <1>3, <1>4, <1>5, <1>6, <2>1, <2>2 DEF Alike
<1> QED BY <1>1, <1>3, <1>4, <1>5, <1>7, AlikeBook

(* An event callback fails.                                                 *)
LEMMA BookCallbackError ==
    ASSUME Inv, Inv', Book, CallbackError
    PROVE  Book'
<1>1. Top.k = "loop" /\ stopped' = stopped \cup {"error"}
      /\ UNCHANGED <<fiberVars, taskVars, readyVars, opVars, loopVars, triggered, closed>>
  BY DEF CallbackError, InLoop, Stop
<1>2. Goto(stack[fiber]) /\ UNCHANGED <<fiber, fibers, status, spawned, runs, opVars, loopVars, closed, ready, callbacks, disposed>>
  BY <1>1, GotoSame DEF fiberVars, taskVars, readyVars, opVars
<1>3. stopped \subseteq stopped' /\ stopped' # {}
  BY <1>1
<1> QED BY <1>1, <1>2, <1>3, QuietLists, StayHere

(* A task that has not been started is disposed after an error.             *)
LEMMA BookDispose ==
    ASSUME Inv, Inv', Book, Top.k = "dispatch", ready # <<>>, ready' = Tail(ready),
           NEW t \in Tasks \ spawned, stopped # {}, disposed' = disposed \cup {t},
           Goto(stack[fiber]) \/ Goto(<<Trigger(t)>> \o stack[fiber]),
           UNCHANGED <<fiber, fibers, status, spawned, runs, idle, opVars, loopVars, stopVars>>
    PROVE  Book'
<1>1. ToSet(ready') \cap Deferred \subseteq ToSet(ready) /\ Single(ready', Deferred)
  <2>1. ready \in Seq(spawned \cup Fresh \cup {Root}) /\ Single(ready, Deferred)
    BY DEF Inv, ReadyOK, Book, DeferredOK
  <2>2. Single(ready', Deferred) /\ \A i \in DOMAIN ready' : i + 1 \in DOMAIN ready /\ ready'[i] = ready[i + 1]
    BY <2>1, SingleTail
  <2> QED BY <2>2 DEF ToSet
<1>2. \A u \in disposed' : u \in disposed \/ (u \notin spawned /\ stopped' # {})
  BY DEF stopVars
<1>3. stopped' = stopped /\ uvstop' = uvstop /\ closed' = closed
  BY DEF stopVars
<1>4. CASE Goto(stack[fiber])
  BY <1>1, <1>2, <1>3, <1>4, StayHere
<1>5. CASE Goto(<<Trigger(t)>> \o stack[fiber])
  <2>1. Top.k \notin Waits /\ Top.k \notin Pauses /\ Top.k # "done" /\ Top.k # "end" /\ Top.k \notin Ended /\ Top.k # "ret"
    BY DEF Waits, Pauses, Ended, Fins
  <2>2. t \in Awaitables
    BY DEF Awaitables
  <2>3. PICK fr \in Frames : fr = Trigger(t) /\ fr.k = "trigger"
    BY <2>2, TriggerFrame DEF Trigger, Frame
  <2>4. Takes(stack[fiber]) /\ Stands(fr, Top, fiber, spawned) /\ fr.k \notin Stages /\ fr.k \in Resumers
        /\ fr.k \notin {"await", "wait", "inline"}
    BY <2>1, <2>3 DEF Takes, Uncovered, Top, Stands, Stages, Resumers, Fins, Callers
  <2>5. PICK r : r = <<fr>> \o stack[fiber]
    OBVIOUS
  <2>6. Begun' = Begun /\ Finals' = Finals /\ \A u : Settled(u)' <=> Settled(u)
    BY DEF Begun, Finals, Settled
  <2>7. /\ Form(r, fiber, spawned) /\ Same(r, stack[fiber]) /\ Head(r) = fr
        /\ Total(r) = Total(stack[fiber]) /\ Total(stack[fiber]) \in Int
    BY <2>1, <2>4, <2>5, PushFrame
  <2>8. Alike(r)
    <3>1. Goto(r) /\ Head(r).k \notin Pauses \cup {"inline", "resched"}
      BY <1>5, <2>3, <2>5, <2>7 DEF Pauses
    <3>2. UNCHANGED <<fiber, fibers, spawned, op, ops, callbacks, stopped, uvstop, caller, busy>>
      BY DEF opVars, loopVars, stopVars
    <3>3. busy' = busy + Total(r) - Total(stack[fiber])
      <4>1. busy \in Int
        BY DEF Inv, RestOK
      <4> QED BY <2>7, <3>2, <4>1
    <3>4. ToSet(callbacks') \subseteq ToSet(callbacks) /\ Single(callbacks', Owners)
      BY <3>2 DEF Book, QueuedOK
    <3> QED BY <1>1, <2>1, <2>6, <2>7, <3>1, <3>2, <3>3, <3>4 DEF Alike
  <2>9. fiber \in Fiber
    BY <2>1, Here
  <2> QED BY <1>2, <1>3, <2>1, <2>6, <2>7, <2>8, <2>9, AlikeBook
<1> QED BY <1>4, <1>5
-------------------------------------------------------------------------------
(* PHP code is executed inline, and ends.                                   *)

(* What is above a call of PHP code may be put there.                       *)
LEMMA CallerTakes ==
    ASSUME Inv, Book, Top.k \in Callers, Top.k = "ret" => Top.x \notin Exts \cup spawned
    PROVE  Takes(stack[fiber]) /\ NoPlain(stack[fiber])
<1>1. Top.k # "end" /\ Top.k \notin Bottom /\ Top.k \notin Resumers /\ Top.k \notin Plain /\ Top.k \notin Ended
  BY DEF Callers, Bottom, Resumers, Plain, Stages, Ended, Fins, Pauses
<1>2. WellFormed(stack[fiber], Begun, fiber) /\ Form(stack[fiber], fiber, spawned)
  BY <1>1, Here
<1>3. NoPlain(stack[fiber])
  BY <1>1, <1>2, FormTop DEF Top
<1>4. ~Uncovered(Top, Head(Rest))
  BY <1>1, PopFrame DEF Uncovered
<1> QED BY <1>1, <1>3, <1>4 DEF Takes, Top, Rest

(* An inline execution and the code it executes on top of a stack.          *)
LEMMA InlineForm ==
    ASSUME NEW B, NEW P, NEW f, NEW s, WellFormed(s, B, f), Form(s, f, P), Takes(s), NoPlain(s),
           Head(s).k \in Callers, NEW x \in Tasks, x \in B, f \in Owners,
           NEW i \in Frames, i.k = "inline", i.x = x, i.o = Head(s).o, NEW c \in Frames, c.k = "code", c.o = x
    PROVE  /\ Form(<<c>> \o (<<i>> \o s), f, P) /\ Same(<<c>> \o (<<i>> \o s), s)
           /\ Head(<<c>> \o (<<i>> \o s)) = c
           /\ Total(<<c>> \o (<<i>> \o s)) = Total(s) + Weight(Head(s).o) /\ Total(s) \in Int
<1>1. i.k = "inline" /\ i.x = x /\ i.o = Head(s).o /\ c.k = "code" /\ c.o = x
  OBVIOUS
<1>2. PICK u, r : u = <<i>> \o s /\ r = <<c>> \o u
  OBVIOUS
<1>3. s \in Seq(Frames) /\ s # <<>>
  BY DEF WellFormed
<1>4. u \in Seq(Frames) /\ u # <<>> /\ Head(u) = i /\ r = <<c>> \o u
  BY <1>2, <1>3, Pushed
<1>5. WellFormed(u, B, f)
  <2>1. Subject(i, B) /\ i.k \notin Bottom \cup MainOnly \cup Callers
    BY <1>1 DEF Subject, Bottom, MainOnly, Callers
  <2> QED BY <1>2, <2>1, Push
<1>6. Form(u, f, P)
  <2>1. Stands(i, Head(s), f, P) /\ ~Uncovered(i, Head(s))
    BY <1>1 DEF Stands, Fins, Callers, Uncovered
  <2>2. Head(s).k # "inline"
    BY DEF Callers
  <2> QED BY <1>2, <2>1, <2>2, FormPush
<1>7. NoPlain(u) /\ Takes(u)
  <2>1. Head(u).k \notin Resumers /\ Head(u).k \notin Plain /\ Head(u).k \notin Ended /\ Head(u).k # "ret"
    BY <1>1, <1>4 DEF Resumers, Plain, Stages, Ended, Fins, Pauses
  <2> QED BY <1>5, <1>6, <2>1, FormTop DEF Takes, Uncovered
<1>8. Form(r, f, P)
  <2>1. Stands(c, Head(u), f, P) /\ ~Uncovered(c, Head(u)) /\ c.k \in Callers \cup Fins
    BY <1>1, <1>4 DEF Stands, Fins, Callers, Uncovered, Holders
  <2> QED BY <1>4, <1>5, <1>6, <1>7, <2>1, FormPush
<1>9. Same(r, s) /\ Head(r) = c
  <2>1. Same(u, s) /\ Same(r, u)
    BY <1>1, <1>2, <1>3, <1>4, SamePush DEF Stages
  <2>2. Head(r) = c
    BY <1>4, Pushed
  <2> QED BY <2>1, <2>2 DEF Same
<1>10. Total(r) = Total(s) + Weight(Head(s).o) /\ Total(s) \in Int
  <2>1. Load("none", r) = Load(c.k, u) + One("none", c, Head(u))
    BY <1>4, <1>5, LoadPush
  <2>2. One("none", c, Head(u)) = 0
    BY <1>1, Uncounted
  <2>3. Load("code", u) = Load("none", u) + Weight(i.o)
    <3>1. /\ Head(u).k # "inline" => Load("none", u) = Load("none", u)
          /\ Head(u).k = "inline" /\ "none" # "code" =>
               Load("code", u) = Load("none", u) + Weight(Head(u).o)
      BY <1>5, LoadAbove
    <3> QED BY <1>1, <1>4, <3>1
  <2>4. Total(u) = Total(s) + One("none", i, Head(s)) /\ Total(s) \in Int
    <3>1. Head(s).k # "inline"
      BY DEF Callers
    <3> QED BY <1>2, <3>1, TotalPush
  <2>5. One("none", i, Head(s)) = 0
    BY <1>1 DEF One, Counts
  <2>6. Weight(i.o) \in Int
    BY DEF Weight
  <2>7. Load("none", u) = Total(s)
    BY <2>4, <2>5 DEF Total
  <2>8. Total(r) = Load("code", u) + 0
    BY <1>1, <2>1, <2>2 DEF Total
  <2>9. Total(r) = (Total(s) + Weight(i.o)) + 0
    BY <2>3, <2>7, <2>8
  <2>10. PICK n \in Int, m \in Int : n = Total(s) /\ m = Weight(i.o)
    BY <2>4, <2>6
  <2> QED BY <1>1, <2>9, <2>10
<1> QED BY <1>2, <1>8, <1>9, <1>10

(* A task is executed inline.                                               *)
LEMMA BookAwaitInline ==
    ASSUME Inv, Inv', Book, Careful, NEW x \in Awaitables, AwaitInline(x)
    PROVE  Book'
<1>1. /\ MayAwait(x) /\ x \in Tasks /\ x \notin spawned /\ status[x] = "INIT"
      /\ ready' = Unlink(ready, x)
      /\ status' = [status EXCEPT ![x] = "RUNNING"]
      /\ busy' = busy + Weight(Top.o)
      /\ Goto(<<Code(x), Inline(x, Top.o)>> \o stack[fiber])
      /\ UNCHANGED <<fiber, fibers, spawned, disposed, idle, opVars, caller, stopVars>>
  BY DEF AwaitInline, Inlinable, ReadyWithout, Enter
<1>2. fiber \in Fiber /\ Top.k \in Callers /\ fiber \in Owners /\ Top \in Frames
  BY <1>1, AwaiterOK
<1>3. Top.k \notin Waits /\ Top.k \notin Pauses /\ Top.k # "done" /\ Top.k # "end"
  BY <1>2 DEF Callers, Waits, Pauses
<1>4. Top.k = "ret" => Top.x \notin Exts \cup spawned
  <2>1. x \notin Exts
    BY <1>1, NamesAssumption
  <2> QED BY <1>1, <2>1 DEF MayAwait, InCode
<1>5. Takes(stack[fiber]) /\ NoPlain(stack[fiber])
  BY <1>2, <1>4, CallerTakes
<1>6. Begun' = Begun \cup {x}
  BY <1>1 DEF Begun, Inv, StatusOK
<1>7. Finals \subseteq Finals' /\ \A t \in spawned : Settled(t)' => Settled(t)
  <2>1. ~Settled(x) /\ "RUNNING" \notin {"FINISHED", "FAILED"}
    BY <1>1 DEF Settled
  <2>2. \A t \in spawned : t \in Awaitables /\ t # x
    BY <1>1 DEF Inv, StatusOK, Begun, Awaitables
  <2> QED BY <1>1, <2>1, <2>2, SettledStays
<1>8. PICK s : s = stack[fiber]
  OBVIOUS
<1>9. /\ WellFormed(s, Begun', fiber) /\ Form(s, fiber, spawned) /\ Takes(s) /\ NoPlain(s)
      /\ s \in Seq(Frames) /\ Head(s) = Top
  <2>1. WellFormed(s, Begun, fiber) /\ Form(s, fiber, spawned) /\ s \in Seq(Frames)
    BY <1>3, <1>8, Here
  <2>2. WellFormed(s, Begun', fiber)
    BY <1>6, <2>1, Grow
  <2>3. Form(s, fiber, spawned)
    BY <1>7, <2>1, FormGrow
  <2> QED BY <1>5, <1>8, <2>1, <2>2, <2>3 DEF Top
<1>10. Inline(x, Top.o) \in Frames /\ Code(x) \in Frames
  BY <1>1, <1>2 DEF Inline, Code, Frame, Frames, Kinds, Owners
<1>11. PICK i \in Frames, c \in Frames :
          /\ i = Inline(x, Top.o) /\ c = Code(x)
          /\ i.k = "inline" /\ i.x = x /\ i.o = Top.o /\ c.k = "code" /\ c.o = x
  BY <1>10 DEF Inline, Code, Frame
<1>12. PICK r : r = <<c>> \o (<<i>> \o s)
  OBVIOUS
<1>13. r = <<c, i>> \o s
  <2>1. \A a, b \in Frames : \A u \in Seq(Frames) : <<a, b>> \o u = <<a>> \o (<<b>> \o u)
    BY TwoInFront
  <2> QED BY <1>9, <1>12, <2>1, Zenon
<1>14. /\ Form(r, fiber, spawned) /\ Same(r, s) /\ Head(r) = c
       /\ Total(r) = Total(s) + Weight(Head(s).o) /\ Total(s) \in Int
  <2>1. x \in Begun' /\ i.o = Head(s).o /\ Head(s).k \in Callers
    BY <1>2, <1>6, <1>9, <1>11
  <2>2. i \in Frames /\ i.k = "inline" /\ i.x = x /\ c \in Frames /\ c.k = "code" /\ c.o = x
    BY <1>11
  <2>3. /\ Form(<<c>> \o (<<i>> \o s), fiber, spawned) /\ Same(<<c>> \o (<<i>> \o s), s)
        /\ Head(<<c>> \o (<<i>> \o s)) = c
        /\ Total(<<c>> \o (<<i>> \o s)) = Total(s) + Weight(Head(s).o) /\ Total(s) \in Int
    BY <1>1, <1>2, <1>9, <2>1, <2>2, InlineForm
  <2> QED BY <1>12, <2>3
<1>15. Goto(r)
  BY <1>1, <1>8, <1>11, <1>13
<1>16. busy' = busy + Total(r) - Total(stack[fiber])
  <2>1. busy \in Int /\ Weight(Top.o) \in Int
    BY DEF Inv, RestOK, Weight
  <2>2. PICK n \in Int : n = Total(s)
    BY <1>14
  <2>3. PICK m \in Int : m = Weight(Top.o)
    BY <2>1
  <2>4. busy' = busy + m /\ Total(r) = n + m /\ Total(stack[fiber]) = n
    BY <1>1, <1>8, <1>9, <1>14, <2>2, <2>3
  <2> QED BY <2>1, <2>4
<1>17. ToSet(ready') \cap Deferred \subseteq ToSet(ready) /\ Single(ready', Deferred)
  <2>1. ready \in Seq(spawned \cup Fresh \cup {Root}) /\ Single(ready, Deferred)
    BY DEF Inv, ReadyOK, Book, DeferredOK
  <2>2. Single(ready', Deferred) /\ \A j \in DOMAIN ready' : \E n \in DOMAIN ready : ready'[j] = ready[n]
    BY <1>1, <2>1, RemoveFirstOnce DEF Unlink
  <2> QED BY <2>2 DEF ToSet
<1>18. Alike(r)
  <2>1. Head(r).k \notin Pauses \cup {"inline", "resched"}
    BY <1>11, <1>14 DEF Pauses
  <2>2. UNCHANGED <<fiber, fibers, spawned, op, ops, callbacks, stopped, uvstop, caller>>
    BY <1>1 DEF opVars, stopVars
  <2>3. ToSet(callbacks') \subseteq ToSet(callbacks) /\ Single(callbacks', Owners)
    BY <2>2 DEF Book, QueuedOK
  <2> QED BY <1>3, <1>7, <1>14, <1>15, <1>16, <1>17, <2>1, <2>2, <2>3 DEF Alike
<1>19. UNCHANGED <<disposed, closed>> /\ Begun \subseteq Begun'
  BY <1>1, <1>6 DEF stopVars
<1> QED BY <1>2, <1>3, <1>7, <1>8, <1>14, <1>18, <1>19, AlikeBook
(* async_task_execute_inline ends.                                          *)
LEMMA BookFinishInline ==
    ASSUME Inv, Inv', Wakes, Book, NEW how \in Outcomes, FinishInline(how)
    PROVE  Book'
<1>1. PICK t : t = Head(Rest).x
  OBVIOUS
<1>2. PICK r1 : r1 = <<Inlined(t)>> \o Tail(Rest)
  OBVIOUS
<1>3. PICK v \in {"FINISHED", "FAILED"} : status' = [status EXCEPT ![t] = v]
  BY <1>1 DEF FinishInline
<1>4. /\ Top = Fin(how) /\ Head(Rest).k = "inline"
      /\ disposed' = disposed \cup {t}
      /\ Goto(r1) \/ Goto(<<Trigger(t)>> \o r1)
      /\ Stop("exit") \/ UNCHANGED <<stopped, uvstop>>
      /\ UNCHANGED <<fiber, fibers, spawned, runs, readyVars, opVars, loopVars, triggered, closed>>
  <2>1. t \in disposed => Goto(r1)
    BY <1>1, <1>2 DEF FinishInline
  <2>2. t \notin disposed => Goto(<<Trigger(t)>> \o r1)
    BY <1>1, <1>2 DEF FinishInline
  <2>3. Stop("exit") \/ UNCHANGED <<stopped, uvstop>>
    BY DEF FinishInline
  <2> QED BY <1>1, <2>1, <2>2, <2>3 DEF FinishInline
<1>5. /\ Top.k \in Fins /\ Top.k \notin Waits /\ Top.k \notin Bottom /\ Top.k \notin Resumers
      /\ Top.k # "end" /\ Top.k # "done" /\ Top.k \notin Pauses
  BY <1>4 DEF Fin, Frame, Outcomes, Fins, Waits, Bottom, Resumers, Pauses
<1>6. t \in Guests /\ t \in Tasks /\ t \in Awaitables /\ t \notin spawned /\ t \in Begun
  <2>1. Rest \in Seq(Frames) /\ Rest # <<>> /\ Shape(Rest, fiber, Guests, spawned)
    BY <1>5, PopOff
  <2>2. 1 \in DOMAIN Rest /\ Head(Rest) = Rest[1]
    BY <2>1, Popped
  <2> QED BY <1>1, <1>4, <2>1, <2>2 DEF Shape, Guests, Begun, Awaitables
<1>7. Finals \subseteq Finals' /\ \A u \in Awaitables : u # t => (Settled(u)' <=> Settled(u))
  BY <1>3, <1>6, SettledStays
<1>8. Begun \subseteq Begun'
  <2>1. v \notin {"NONE", "INIT"}
    OBVIOUS
  <2>2. MovesOn
    BY <1>3, <2>1 DEF MovesOn
  <2> QED BY <2>2, BegunForGood
<1>9. PICK s : s = stack[fiber]
  OBVIOUS
<1>10. /\ WellFormed(s, Begun, fiber) /\ Form(s, fiber, spawned) /\ fiber \in Fiber
       /\ Head(s).k \in Fins /\ Head(Tail(s)).k = "inline"
  <2>1. WellFormed(s, Begun, fiber) /\ Form(s, fiber, spawned) /\ fiber \in Fiber
    BY <1>5, <1>9, Here
  <2>2. Form(s, fiber, spawned)
    BY <1>7, <2>1, FormGrow
  <2> QED BY <1>4, <1>5, <1>9, <2>1, <2>2 DEF Top, Rest
<1>11. PICK fr \in Frames, tr \in Frames :
           fr = Inlined(t) /\ fr.k = "inlined" /\ fr.x = t /\ tr = Trigger(t) /\ tr.k = "trigger"
  <2>1. Inlined(t) \in Frames /\ Inlined(t).k = "inlined" /\ Inlined(t).x = t
    BY <1>6 DEF Inlined, Frame, Frames, Kinds, Owners
  <2>2. Trigger(t) \in Frames /\ Trigger(t).k = "trigger"
    BY <1>6, TriggerFrame DEF Trigger, Frame
  <2> QED BY <2>1, <2>2
<1>12. /\ WellFormed(r1, Begun, fiber) /\ Form(r1, fiber, spawned) /\ Same(r1, s) /\ Head(r1) = fr
       /\ Total(r1) = Total(s) /\ Total(s) \in Int
  <2>1. fr \in Frames /\ fr.k = "inlined" /\ fr.x \in Tasks
    BY <1>6, <1>11
  <2>2. r1 = <<fr>> \o Tail(Tail(s))
    BY <1>2, <1>9, <1>11 DEF Rest
  <2>3. LeavesInline(s, r1, fr, Begun, fiber, spawned)
    BY <1>10, <2>1, <2>2 DEF LeavesInline
  <2>4. /\ WellFormed(r1, Begun, fiber) /\ Form(r1, fiber, spawned) /\ Same(r1, s) /\ Head(r1) = fr
        /\ Total(r1) = Total(s) /\ Total(s) \in Int
    BY <2>3, InlineOver
  <2> QED BY <2>4
<1>13. LET w == <<tr>> \o r1
       IN Form(w, fiber, spawned) /\ Same(w, s) /\ Head(w) = tr /\ Total(w) = Total(s)
  <2>1. r1 \in Seq(Frames) /\ r1 # <<>>
    BY <1>12 DEF WellFormed
  <2>2. Takes(r1) /\ Head(r1).k # "inline"
    BY <1>11, <1>12 DEF Takes, Uncovered, Ended, Fins, Pauses
  <2>3. Stands(tr, Head(r1), fiber, spawned) /\ tr.k \in Resumers /\ ~Uncovered(tr, Head(r1)) /\ tr.k \notin Stages
    BY <1>11 DEF Stands, Fins, Callers, Resumers, Uncovered, Stages
  <2>4. Form(<<tr>> \o r1, fiber, spawned)
    BY <1>12, <2>2, <2>3, FormPush
  <2>5. Same(<<tr>> \o r1, r1) /\ Head(<<tr>> \o r1) = tr
    BY <2>1, <2>3, SamePush, Pushed
  <2>6. Total(<<tr>> \o r1) = Total(r1)
    BY <1>11, <1>12, <2>2, TotalPush
  <2> QED BY <1>12, <2>4, <2>5, <2>6 DEF Same
<1>14. PICK r : /\ Goto(r) /\ Form(r, fiber, spawned) /\ Same(r, s) /\ Head(r).k \in {"inlined", "trigger"}
                /\ Total(r) = Total(s)
  <2>1. CASE Goto(r1)
    BY <1>11, <1>12, <2>1
  <2>2. CASE Goto(<<Trigger(t)>> \o r1)
    BY <1>11, <1>13, <2>2
  <2> QED BY <1>4, <2>1, <2>2
<1>15. stopped \subseteq stopped' /\ (stopped' = {} => UNCHANGED uvstop)
  BY <1>4 DEF Stop
<1>16. Alike(r)
  <2>1. Head(r).k \notin Pauses \cup {"inline", "resched"}
    BY <1>14 DEF Pauses
  <2>2. UNCHANGED <<fiber, fibers, spawned, op, ops, callbacks, caller, ready, busy>>
    BY <1>4 DEF readyVars, opVars, loopVars
  <2>3. busy' = busy + Total(r) - Total(stack[fiber])
    <3>1. busy \in Int
      BY DEF Inv, RestOK
    <3> QED BY <1>9, <1>12, <1>14, <2>2, <3>1
  <2>4. /\ ToSet(ready') \cap Deferred \subseteq ToSet(ready) /\ Single(ready', Deferred)
        /\ ToSet(callbacks') \subseteq ToSet(callbacks) /\ Single(callbacks', Owners)
    BY <2>2, QuietLists
  <2> QED BY <1>5, <1>7, <1>14, <1>15, <2>1, <2>2, <2>3, <2>4 DEF Alike
<1>17. \A u \in spawned : Settled(u)' => Settled(u)
  <2>1. \A u \in spawned : u \in Awaitables /\ u # t
    BY <1>6 DEF Inv, StatusOK, Begun, Awaitables
  <2> QED BY <1>7, <2>1
<1>18. \A u \in disposed' : u \in disposed \/ (u \notin spawned /\ u \in Begun')
  BY <1>4, <1>6, <1>8
<1>19. UNCHANGED closed
  BY <1>4
<1> QED BY <1>5, <1>8, <1>9, <1>10, <1>14, <1>16, <1>17, <1>18, <1>19, AlikeBook
-------------------------------------------------------------------------------
(* A task, or the main script, ends.                                        *)

(* A frame alone.                                                           *)
LEMMA FormAlone ==
    ASSUME NEW f, NEW P, NEW B, NEW fr \in Frames, fr.k \in Bottom, WellFormed(<<fr>>, B, f),
           NEW b, Stands(fr, b, f, P)
    PROVE  /\ Form(<<fr>>, f, P) /\ Head(<<fr>>) = fr /\ <<fr>> \in Seq(Frames) /\ Total(<<fr>>) = 0
           /\ StagesOf(<<fr>>) = {} /\ fr.k \notin {"trigger", "inline", "resched"} \cup Pauses \cup Ended
           /\ fr.k # "end" => NoPlain(<<fr>>)
<1>1. PICK s : s = <<fr>>
  OBVIOUS
<1>2. s \in Seq(Frames) /\ DOMAIN s = {1} /\ s[1] = fr /\ Head(s) = fr
  BY <1>1
<1>3. fr.k \notin {"trigger", "inline", "resched", "ret"} \cup Pauses \cup Ended \cup Stages
      /\ (fr.k # "end" => fr.k \notin Plain)
  BY DEF Bottom, Pauses, Ended, Fins, Stages, Plain
<1>4. Form(s, f, P)
  <2>1. \A c : Stands(fr, c, f, P)
    BY StandsAtBottom
  <2>2. \A j \in 1 .. 1 - 1 : FALSE
    OBVIOUS
  <2> QED BY <1>2, <1>3, <2>1, <2>2 DEF Form, Uncovered
<1>5. Total(s) = 0
  BY <1>1, LoadGround DEF Total
<1>6. StagesOf(s) = {}
  BY <1>2, <1>3 DEF StagesOf, ToSet
<1>7. fr.k # "end" => NoPlain(s)
  BY <1>2, <1>3 DEF NoPlain
<1> QED BY <1>1, <1>2, <1>3, <1>4, <1>5, <1>6, <1>7

(* Nothing counts below the end of a task, or in dispose.                   *)
LEMMA NothingBelow ==
    ASSUME Inv, Wakes, Book, Top.k \in Stages \/ (Top.k \in Fins /\ Head(Rest).k \in Bottom)
    PROVE  /\ Total(stack[fiber]) = 0 /\ Head(Rest).k \in Bottom /\ fiber \in Fiber
           /\ Rest = <<Head(Rest)>> /\ WellFormed(Rest, Begun, fiber) /\ Form(Rest, fiber, spawned)
<1>1. Top.k \notin Bottom /\ Top.k \notin {"await", "wait", "inline"} /\ Top.k # "end"
  BY DEF Stages, Fins, Bottom
<1>2. PICK s, t : s = stack[fiber] /\ t = Rest
  OBVIOUS
<1>3. /\ WellFormed(s, Begun, fiber) /\ s \in Seq(Frames) /\ s # <<>> /\ Head(s) = Top /\ t = Tail(s)
      /\ WellFormed(t, Begun, fiber) /\ t \in Seq(Frames) /\ t # <<>> /\ Form(t, fiber, spawned)
      /\ Shape(s, fiber, Guests, spawned)
  BY <1>1, <1>2, Here, PopFrame, RunningShape DEF Top, Rest
<1>4. Len(t) = Len(s) - 1 /\ 1 \in DOMAIN s /\ s[1] = Top /\ Len(s) \in Nat /\ Head(t) = t[1] /\ 1 \in DOMAIN t
  BY <1>3, Popped
<1>5. Head(t).k \in Bottom
  <2>1. ASSUME Top.k \in Stages PROVE Head(t).k \in Bottom
    <3>1. 1 + 1 = Len(s)
      BY <1>3, <1>4, <2>1 DEF Shape
    <3>2. Len(t) = 1
      <4>1. \A n \in Nat : 1 + 1 = n => n - 1 = 1
        OBVIOUS
      <4> QED BY <1>4, <3>1, <4>1, Zenon
    <3> QED BY <1>3, <1>4, <3>2 DEF WellFormed
  <2> QED BY <1>2, <2>1
<1>6. Len(t) = 1
  <2>1. \A i \in DOMAIN t : t[i].k \in Bottom => i = Len(t)
    BY <1>3 DEF WellFormed
  <2>2. t[1].k \in Bottom
    BY <1>4, <1>5
  <2> QED BY <1>4, <2>1, <2>2
<1>7. t = <<Head(t)>> /\ Head(t) \in Frames
  <2>1. \A u \in Seq(Frames) : Len(u) = 1 => u = <<Head(u)>> /\ Head(u) \in Frames
    OBVIOUS
  <2>2. t \in Seq(Frames)
    BY <1>3
  <2> QED BY <1>6, <2>1, <2>2
<1>8. Total(s) = Total(t)
  <2>1. Head(t).k # "inline"
    BY <1>5 DEF Bottom
  <2> QED BY <1>1, <1>3, <2>1, TotalPop
<1>9. Total(t) = 0
  <2>1. PICK b \in Frames : b = Head(t)
    BY <1>7
  <2>2. Load("none", <<b>>) = 0
    BY <1>5, <2>1, LoadGround
  <2> QED BY <1>7, <2>1, <2>2 DEF Total
<1> QED BY <1>1, <1>2, <1>3, <1>5, <1>7, <1>8, <1>9, Here

(* What the body of a task ends with.                                       *)
LEMMA EndForm ==
    ASSUME NEW f \in Tasks, NEW P, NEW t \in Awaitables
    PROVE  /\ Form(<<End>>, f, P) /\ Form(<<Trigger(t), End>>, f, P)
           /\ Head(<<End>>).k = "end" /\ Head(<<Trigger(t), End>>).k = "trigger"
           /\ <<End>>[Len(<<End>>)].k = "end" /\ <<Trigger(t), End>>[Len(<<Trigger(t), End>>)].k = "end"
           /\ Total(<<End>>) = 0 /\ Total(<<Trigger(t), End>>) = 0
<1>1. PICK e \in Frames, tr \in Frames : e = End /\ e.k = "end" /\ tr = Trigger(t) /\ tr.k = "trigger"
  <2>1. End \in Frames /\ End.k = "end"
    BY DEF End, Frame, Frames, Kinds, Owners
  <2>2. Trigger(t) \in Frames /\ Trigger(t).k = "trigger"
    BY TriggerFrame DEF Trigger, Frame
  <2> QED BY <2>1, <2>2
<1>2. e.k \in Bottom /\ WellFormed(<<e>>, {}, f) /\ Stands(e, e, f, P)
  <2>1. e.k \in Bottom /\ Subject(e, {}) /\ (e.k \in MainOnly => f = Root)
    BY <1>1 DEF Bottom, Subject, MainOnly
  <2>2. Stands(e, e, f, P)
    BY <1>1 DEF Stands, Fins, Callers
  <2> QED BY <2>1, <2>2, Ground
<1>3. Form(<<e>>, f, P) /\ Head(<<e>>) = e /\ <<e>> \in Seq(Frames) /\ Total(<<e>>) = 0
      /\ e.k \notin {"trigger", "inline", "resched"} \cup Pauses \cup Ended
  BY <1>2, FormAlone
<1>4. Form(<<tr>> \o <<e>>, f, P) /\ Total(<<tr>> \o <<e>>) = Total(<<e>>)
  <2>1. tr.k \in Resumers /\ Stands(tr, Head(<<e>>), f, P) /\ ~Uncovered(tr, Head(<<e>>))
    BY <1>1 DEF Resumers, Stands, Fins, Callers, Uncovered
  <2>2. Takes(<<e>>) /\ Head(<<e>>).k # "inline"
    BY <1>1, <1>3 DEF Takes, Uncovered, Ended
  <2>3. tr.k \notin {"await", "wait", "inline"}
    BY <1>1
  <2> QED BY <1>2, <1>3, <2>1, <2>2, <2>3, FormPush, TotalPush
<1>5. <<tr>> \o <<e>> = <<tr, e>>
  BY ShortSequences
<1>6. <<e>>[Len(<<e>>)] = e /\ <<tr, e>>[Len(<<tr, e>>)] = e /\ Head(<<tr, e>>) = tr
  OBVIOUS
<1> QED BY <1>1, <1>3, <1>4, <1>5, <1>6

(* The callback of a task ends, in a fiber of its own.                      *)
LEMMA BookFinishBody ==
    ASSUME Inv, Inv', Wakes, Book, NEW how \in Outcomes, FinishBody(how)
    PROVE  Book'
<1>1. PICK f : f = fiber
  OBVIOUS
<1>2. /\ Top.k \in Fins /\ Head(Rest).k \in Bottom /\ Head(Rest).k = "body"
      /\ UNCHANGED <<fiber, fibers, spawned, disposed, runs, readyVars, opVars, loopVars, triggered, closed>>
  BY DEF FinishBody, Fin, Frame, Outcomes, Fins, Bottom
<1>3. /\ Total(stack[f]) = 0 /\ f \in Fiber
      /\ Rest = <<Head(Rest)>> /\ WellFormed(Rest, Begun, f) /\ Form(Rest, f, spawned)
  BY <1>1, <1>2, NothingBelow
<1>4. Head(Rest).x = f /\ f \in Tasks /\ f \in Awaitables /\ f # Root
  <2>1. PICK b, s : b = Head(Rest) /\ s = Rest /\ s = <<b>> /\ b.k = "body"
    BY <1>2, <1>3
  <2>2. 1 \in DOMAIN s /\ s[1] = b
    BY <2>1
  <2>3. \E c : Stands(b, c, f, spawned)
    BY <1>3, <2>1, <2>2 DEF Form
  <2> QED BY <2>1, <2>3, NamesAssumption DEF Stands, Awaitables
<1>5. PICK v \in {"FINISHED", "FAILED"} : \E r :
        /\ Goto(r)
        /\ \/ Stop("exit") /\ UNCHANGED status /\ r = <<End>>
           \/ UNCHANGED <<stopped, uvstop>> /\ status' = [status EXCEPT ![f] = v] /\ r = <<Trigger(f), End>>
  BY <1>4 DEF FinishBody
<1>5b. PICK r :
        /\ Goto(r)
        /\ \/ Stop("exit") /\ UNCHANGED status /\ r = <<End>>
           \/ UNCHANGED <<stopped, uvstop>> /\ status' = [status EXCEPT ![f] = v] /\ r = <<Trigger(f), End>>
  BY <1>5
<1>6. Finals \subseteq Finals' /\ \A u \in Awaitables : u # f => (Settled(u)' <=> Settled(u))
  <2>1. CASE UNCHANGED status
    BY <2>1 DEF Finals, Settled
  <2>2. CASE status' = [status EXCEPT ![f] = v]
    BY <1>4, <2>2, SettledStays
  <2> QED BY <1>5b, <2>1, <2>2
<1>7. Begun \subseteq Begun'
  <2>1. v \notin {"NONE", "INIT"}
    OBVIOUS
  <2>2. MovesOn
    BY <1>5b, <2>1 DEF MovesOn
  <2> QED BY <2>2, BegunForGood
<1>8. /\ Form(r, f, spawned) /\ Total(r) = 0 /\ r[Len(r)].k = "end" /\ Head(r).k \in {"end", "trigger"}
  <2>1. /\ Form(<<End>>, f, spawned) /\ Form(<<Trigger(f), End>>, f, spawned)
        /\ Head(<<End>>).k = "end" /\ Head(<<Trigger(f), End>>).k = "trigger"
        /\ <<End>>[Len(<<End>>)].k = "end" /\ <<Trigger(f), End>>[Len(<<Trigger(f), End>>)].k = "end"
        /\ Total(<<End>>) = 0 /\ Total(<<Trigger(f), End>>) = 0
    BY <1>4, EndForm
  <2>2. CASE r = <<End>>
    BY <2>1, <2>2
  <2>3. CASE r = <<Trigger(f), End>>
    BY <2>1, <2>3
  <2> QED BY <1>5b, <2>2, <2>3
<1>9. Top.k \notin Waits /\ Top.k \notin Pauses /\ Top.k # "done"
  BY <1>2 DEF Fins, Waits, Pauses
<1>10. stopped \subseteq stopped' /\ (stopped' = {} => UNCHANGED uvstop)
  BY <1>5b DEF Stop
<1>11. Alike(r)
  <2>1. Head(r).k \notin Pauses \cup {"inline", "resched"}
    BY <1>8 DEF Pauses
  <2>2. UNCHANGED <<fiber, fibers, spawned, op, ops, callbacks, caller, ready, busy>>
    BY <1>2 DEF readyVars, opVars, loopVars
  <2>3. busy' = busy + Total(r) - Total(stack[fiber])
    <3>1. busy \in Int
      BY DEF Inv, RestOK
    <3> QED BY <1>1, <1>3, <1>8, <2>2, <3>1
  <2>4. /\ ToSet(ready') \cap Deferred \subseteq ToSet(ready) /\ Single(ready', Deferred)
        /\ ToSet(callbacks') \subseteq ToSet(callbacks) /\ Single(callbacks', Owners)
    BY <2>2, QuietLists
  <2> QED BY <1>1, <1>5b, <1>6, <1>8, <1>9, <1>10, <2>1, <2>2, <2>3, <2>4 DEF Alike
<1>12. Mine(r) /\ FormsOK' /\ LineOK' /\ CallerOK' /\ QueuedOK' /\ DeferredOK' /\ BusyBalance'
  BY <1>1, <1>3, <1>9, <1>11, AlikeParts
<1>13. FormsOK /\ TasksOK /\ StageOK /\ Gets' = Gets
  BY <1>2 DEF Book, Gets
<1>14. TasksOK'
  <2>1. \A u \in spawned : u \in Awaitables
    BY DEF Inv, StatusOK, Begun, Awaitables
  <2>2. \A u \in spawned : Settled(u) => Settled(u)'
    BY <1>6, <2>1 DEF Finals
  <2>3. \A u \in spawned : Settled(u)' => Settled(u) \/ u = fiber
    BY <1>1, <1>6, <2>1
  <2>4. \A u \in disposed \cap spawned : u \notin Gets'
    BY <1>13 DEF TasksOK
  <2>5. \A u \in disposed' : u \in disposed
    BY <1>2
  <2> QED BY <1>2, <1>7, <1>8, <1>10, <1>12, <1>13, <2>2, <2>3, <2>4, <2>5, TasksStep
<1>15. StageOK'
  <2>1. \A l \in Exts \cup Queues : closed /\ ops[l] = <<>> => ops'[l] = <<>>
    BY <1>2 DEF opVars
  <2>2. Root \in Gets' /\ Runner \in ToSet(fibers') => Root \in Gets /\ Runner \in ToSet(fibers)
    BY <1>2, <1>13
  <2>3. fiber = Root => StagesOf(r) = AtStage
    BY <1>1, <1>4
  <2>4. closed => closed'
    BY <1>2
  <2> QED BY <1>9, <1>10, <1>12, <1>13, <2>1, <2>2, <2>3, <2>4, StageStep
<1> QED BY <1>12, <1>14, <1>15 DEF Book
-------------------------------------------------------------------------------
(* Dispose, on the main fiber.                                              *)

(* Frame fr of dispose, above execute_root.                                 *)
LEMMA StagesForm ==
    ASSUME NEW P, NEW fr \in {Drain, Shut, Rerun, Done}
    PROVE  /\ Form(<<fr, Main>>, Root, P) /\ Head(<<fr, Main>>) = fr
           /\ Total(<<fr, Main>>) = 0 /\ StagesOf(<<fr, Main>>) = {fr.k}
<1>1. fr \in Frames /\ fr.k \in Stages
  BY StageFrame
<1>2. Main \in Frames /\ Main.k = "main" /\ WellFormed(<<Main>>, {}, Root)
  <2>1. Main \in Frames /\ Main.k = "main"
    BY DEF Main, Frame, Frames, Kinds, Owners
  <2>2. Subject(Main, {}) /\ Main.k \in Bottom
    BY <2>1 DEF Subject, Bottom
  <2> QED BY <2>1, <2>2, Ground
<1>3. PICK m \in Frames : m = Main /\ m.k = "main"
  BY <1>2
<1>4. m.k \in Bottom /\ Stands(m, m, Root, P) /\ WellFormed(<<m>>, {}, Root)
  BY <1>2, <1>3 DEF Bottom, Stands, Fins, Callers
<1>5. /\ Form(<<m>>, Root, P) /\ Head(<<m>>) = m /\ <<m>> \in Seq(Frames) /\ Total(<<m>>) = 0
      /\ StagesOf(<<m>>) = {} /\ m.k \notin {"trigger", "inline", "resched"} \cup Pauses \cup Ended
      /\ m.k # "end" => NoPlain(<<m>>)
  BY <1>4, FormAlone
<1>6. Form(<<fr>> \o <<m>>, Root, P)
  <2>1. Stands(fr, Head(<<m>>), Root, P) /\ ~Uncovered(fr, Head(<<m>>)) /\ Takes(<<m>>) /\ NoPlain(<<m>>)
        /\ Head(<<m>>).k # "inline"
    BY <1>1, <1>3, <1>5 DEF Stands, Fins, Callers, Stages, Uncovered, Takes
  <2> QED BY <1>1, <1>4, <1>5, <2>1, FormPush
<1>7. Total(<<fr>> \o <<m>>) = Total(<<m>>)
  <2>1. Head(<<m>>).k # "inline" /\ fr.k \notin {"await", "wait", "inline"}
    BY <1>1, <1>3, <1>5 DEF Stages
  <2> QED BY <1>1, <1>4, <2>1, TotalPush
<1>8. StagesOf(<<fr>> \o <<m>>) = {fr.k}
  <2>1. ToSet(<<fr>> \o <<m>>) = {fr} \cup ToSet(<<m>>)
    BY <1>1, <1>5, Pushed
  <2> QED BY <1>1, <1>5, <2>1 DEF StagesOf
<1>9. <<fr>> \o <<m>> = <<fr, m>> /\ Head(<<fr, m>>) = fr
  BY ShortSequences
<1> QED BY <1>3, <1>5, <1>6, <1>7, <1>8, <1>9

(* The main fiber goes on in dispose.                                       *)
LEMMA DisposeStep ==
    ASSUME Inv, Inv', Wakes, Book, fiber = Root,
           Top.k \in Stages \/ (Top.k \in Fins /\ Head(Rest).k \in Bottom),
           NEW fr \in {Shut, Done}, Goto(<<fr, Main>>),
           UNCHANGED <<fiber, fibers, taskVars, readyVars, opVars, busy>>,
           stopped \subseteq stopped', stopped' = {} => UNCHANGED uvstop,
           caller' = NoFiber \/ (UNCHANGED caller /\ Top.k \notin Pauses), StageOK'
    PROVE  Book'
<1>1. PICK r : r = <<fr, Main>>
  OBVIOUS
<1>2. /\ Form(r, Root, spawned) /\ Head(r) = fr /\ Total(r) = 0
  BY <1>1, StagesForm
<1>3. Total(stack[fiber]) = 0 /\ fiber \in Fiber
  BY NothingBelow
<1>4. Begun' = Begun /\ Finals' = Finals /\ (\A t : Settled(t)' <=> Settled(t)) /\ Gets' = Gets
  BY DEF taskVars, Begun, Finals, Settled, Gets
<1>5. Top.k \notin Waits /\ fr.k \notin Pauses \cup {"inline", "resched"}
  BY DEF Stages, Fins, Waits, Pauses, Shut, Done, Frame
<1>6. Alike(r)
  <2>1. UNCHANGED <<fiber, fibers, spawned, op, ops, callbacks, ready, busy>>
    BY DEF readyVars, opVars, taskVars
  <2>2. busy' = busy + Total(r) - Total(stack[fiber])
    <3>1. busy \in Int
      BY DEF Inv, RestOK
    <3> QED BY <1>2, <1>3, <2>1, <3>1
  <2>3. /\ ToSet(ready') \cap Deferred \subseteq ToSet(ready) /\ Single(ready', Deferred)
        /\ ToSet(callbacks') \subseteq ToSet(callbacks) /\ Single(callbacks', Owners)
    BY <2>1, QuietLists
  <2>4. Goto(r) /\ Form(r, fiber, spawned) /\ Head(r).k \notin Pauses \cup {"inline", "resched"}
    BY <1>1, <1>2, <1>4, <1>5
  <2> QED BY <1>4, <2>1, <2>2, <2>3, <2>4 DEF Alike
<1>7. Mine(r) /\ FormsOK' /\ LineOK' /\ CallerOK' /\ QueuedOK' /\ DeferredOK' /\ BusyBalance'
  BY <1>3, <1>5, <1>6, AlikeParts
<1>8. TasksOK'
  <2>1. TasksOK /\ disposed' = disposed /\ UNCHANGED spawned
    BY DEF Book, taskVars
  <2>2. \A t \in disposed \cap spawned : t \notin Gets'
    BY <1>4, <2>1 DEF TasksOK
  <2>3. \A t \in spawned : t # fiber
    BY NamesAssumption DEF Inv, StatusOK, Begun
  <2> QED BY <1>4, <1>7, <2>1, <2>2, <2>3, TasksStep
<1> QED BY <1>7, <1>8 DEF Book

(* Where the main fiber stands.                                             *)
LEMMA StageTop ==
    ASSUME Inv, fiber = Root, Top.k \in Stages
    PROVE  Top.k \in AtStage
<1>1. stack[Root] \in Seq(Frames) /\ stack[Root] # <<>>
  BY LineFibers DEF Inv, StacksOK, WellFormed
<1>2. Top \in ToSet(stack[Root])
  BY <1>1, NoElements DEF Top
<1> QED BY <1>2 DEF AtStage, StagesOf

(* Where it will stand.                                                     *)
LEMMA StageNext ==
    ASSUME Inv, fiber = Root, NEW fr \in {Drain, Shut, Rerun, Done}, Goto(<<fr, Main>>)
    PROVE  AtStage' = {fr.k}
<1>1. stack'[Root] = <<fr, Main>>
  BY LineFibers DEF Inv, StacksOK, Goto
<1>2. StagesOf(<<fr, Main>>) = {fr.k}
  BY StagesForm
<1> QED BY <1>1, <1>2 DEF AtStage

(* The main script fails: nothing is run any more.                          *)
LEMMA BookFailMain ==
    ASSUME Inv, Inv', Wakes, Book, NEW how \in Outcomes, FinishMain(how), "error" \in stopped'
    PROVE  Book'
<1>1. /\ Top.k \in Fins /\ Head(Rest).k = "main" /\ Goto(<<Shut, Main>>)
      /\ UNCHANGED <<fiber, fibers, taskVars, readyVars, opVars, busy, caller>>
      /\ stopped \subseteq stopped'
  BY DEF FinishMain, Fin, Frame, Outcomes, Fins, Stop
<1>2. Head(Rest).k \in Bottom /\ Top.k \notin Pauses
  BY <1>1 DEF Bottom, Fins, Pauses
<1>3. fiber = Root
  <2>1. WellFormed(Rest, Begun, fiber)
    BY <1>1, <1>2, NothingBelow
  <2>2. /\ Head(Rest) \in Frames /\ Subject(Head(Rest), Begun)
        /\ Head(Rest).k \in MainOnly => fiber = Root
        /\ Head(Rest).k \in Callers => fiber \in Owners
        /\ Head(Rest).k \notin Bottom => WellFormed(Tail(Rest), Begun, fiber)
        /\ Head(Rest).k \in Calls => Head(Tail(Rest)).k \in Callers
    BY <2>1, Pop
  <2> QED BY <1>1, <2>2 DEF MainOnly
<1>4. StageOK'
  BY DEF StageOK
<1>5. stopped' # {}
  OBVIOUS
<1> QED BY <1>1, <1>2, <1>3, <1>4, <1>5, DisposeStep

(* The first run of the loop is over.                                       *)
LEMMA BookResumeDrain ==
    ASSUME Inv, Inv', Wakes, Book, ResumeDrain
    PROVE  Book'
<1>1. /\ Top.k = "drain" /\ Top.k \in Stages /\ closed' = TRUE /\ Goto(<<Shut, Main>>)
      /\ UNCHANGED <<fiber, fibers, taskVars, readyVars, opVars, busy, stopped, uvstop>>
  BY DEF ResumeDrain, Stages
<1>2. fiber = Root
  BY <1>1, InDispose
<1>3. caller' = NoFiber
  BY <1>2 DEF ResumeDrain, LeaveLoop
<1>4. StageOK'
  <2>1. AtStage' = {Shut.k} /\ Shut.k = "shut"
    BY <1>1, <1>2, StageNext DEF Shut, Frame
  <2>2. stopped = {} => Runner \notin ToSet(fibers)
    <3>1. "drain" \in AtStage /\ Root \in Gets
      BY <1>1, <1>2, StageTop DEF Gets
    <3> QED BY <3>1 DEF Book, StageOK
  <2> QED BY <1>1, <2>1, <2>2 DEF StageOK
<1> QED BY <1>1, <1>2, <1>3, <1>4, DisposeStep

(* The loop was run once more.                                              *)
LEMMA BookResumeRerun ==
    ASSUME Inv, Inv', Wakes, ReadyIsWatched, Book, ResumeRerun
    PROVE  Book'
<1>1. /\ Top.k = "rerun" /\ Top.k \in Stages
      /\ UNCHANGED <<fiber, fibers, taskVars, readyVars, opVars, busy, stopped, uvstop, closed>>
  BY DEF ResumeRerun, Stages, stopVars
<1>2. fiber = Root
  BY <1>1, InDispose
<1>3. caller' = NoFiber
  BY <1>2 DEF ResumeRerun, LeaveLoop
<1>4. PICK fr \in {Shut, Done} : Goto(<<fr, Main>>) /\ (fr = Done => ~Alive)
  <2>1. Shut # Done
    BY DEF Shut, Done, Frame
  <2>2. CASE Alive
    <3>1. Goto(<<Shut, Main>>)
      BY <2>2 DEF ResumeRerun
    <3> QED BY <2>1, <3>1
  <2>3. CASE ~Alive
    <3>1. Goto(<<Done, Main>>)
      BY <2>3 DEF ResumeRerun
    <3> QED BY <2>3, <3>1
  <2> QED BY <2>2, <2>3
<1>5. StageOK'
  <2>1. AtStage' = {fr.k}
    BY <1>2, <1>4, StageNext
  <2>2. stopped = {} => Runner \notin ToSet(fibers) /\ closed /\ \A l \in Exts \cup Queues : ops[l] = <<>>
    <3>1. "rerun" \in AtStage /\ Root \in Gets
      BY <1>1, <1>2, StageTop DEF Gets
    <3> QED BY <3>1 DEF Book, StageOK
  <2>3. fr.k = "done" => fr = Done
    BY DEF Shut, Done, Frame
  <2>4. fr.k = "done" => ready = <<>>
    BY <1>4, <2>3 DEF Alive, ReadyIsWatched
  <2>5. Runner \notin ToSet(fibers) => fibers = <<>>
    <3> SUFFICES ASSUME fibers # <<>> PROVE Runner \in ToSet(fibers)
      OBVIOUS
    <3>1. fibers \in Seq(Fiber)
      BY LineFibers
    <3>2. Len(fibers) \in DOMAIN fibers
      BY <3>1
    <3>3. fibers[Len(fibers)] \in ToSet(fibers)
      BY <3>2 DEF ToSet
    <3> QED BY <1>2, <3>3 DEF Book, LineOK
  <2>6. stopped = {} => Runner \notin ToSet(fibers') /\ closed' /\ \A l \in Exts \cup Queues : ops'[l] = <<>>
    BY <1>1, <2>2 DEF opVars
  <2>7. fr.k = "done" /\ stopped = {} => fiber' = Root /\ ready' = <<>> /\ fibers' = <<>>
    BY <1>1, <1>2, <2>2, <2>4, <2>5 DEF readyVars
  <2>8. stopped' = stopped
    BY <1>1
  <2> QED BY <2>1, <2>6, <2>7, <2>8 DEF StageOK
<1> QED BY <1>1, <1>2, <1>3, <1>4, <1>5, DisposeStep
-------------------------------------------------------------------------------
(* The running fiber blocks, or ends.                                       *)

(* Those who get control back keep their places.                            *)
LEMMA SuspendGets ==
    ASSUME Inv, Suspend
    PROVE  Gets \ {fiber} \subseteq Gets' /\ ToSet(fibers') \subseteq ToSet(fibers)
<1>1. fibers \in Seq(Fiber)
  BY LineFibers
<1>2. CASE fibers = <<>>
  BY <1>2, NoElements DEF Suspend, SwitchNone, Gets
<1>3. CASE fibers # <<>>
  <2>1. fiber' = fibers[1] /\ fibers' = Tail(fibers)
    BY <1>1, <1>3 DEF Suspend
  <2>2. /\ Len(fibers) \in Nat /\ DOMAIN Tail(fibers) = 1 .. Len(fibers) - 1 /\ DOMAIN fibers = 1 .. Len(fibers)
        /\ \A i \in 1 .. Len(fibers) - 1 : Tail(fibers)[i] = fibers[i + 1]
    BY <1>1, <1>3
  <2>3. ToSet(Tail(fibers)) \subseteq ToSet(fibers)
    BY <2>2 DEF ToSet
  <2>4. ASSUME NEW i \in DOMAIN fibers, i # 1 PROVE fibers[i] \in ToSet(Tail(fibers))
    <3>1. i - 1 \in 1 .. Len(fibers) - 1 /\ (i - 1) + 1 = i
      BY <2>2, <2>4
    <3>2. Tail(fibers)[i - 1] = fibers[i]
      BY <2>2, <3>1
    <3> QED BY <2>2, <3>1, <3>2 DEF ToSet
  <2>5. \A g \in ToSet(fibers) : g = fibers[1] \/ g \in ToSet(Tail(fibers))
    <3>1. \A g \in ToSet(fibers) : \E i \in DOMAIN fibers : g = fibers[i]
      BY DEF ToSet
    <3> QED BY <2>4, <3>1
  <2> QED BY <2>1, <2>3, <2>5 DEF Gets
<1> QED BY <1>2, <1>3

(* It goes on with stack r when it gets control back.                       *)
Yields(r) ==
    /\ Goto(r) /\ Suspend /\ Form(r, fiber, spawned) /\ Head(r).k # "inline"
    /\ Top.k \notin Waits
    /\ UNCHANGED <<spawned, disposed, ready>> /\ \A t : Settled(t)' <=> Settled(t)
    /\ \A o \in Deferred : o # fiber => op'[o].status = op[o].status
    /\ stopped \subseteq stopped' /\ (stopped' = {} => UNCHANGED uvstop)
    /\ fiber = Root => caller' = Root /\ Head(r).k \in Pauses
    /\ fiber # Root => UNCHANGED caller
    /\ stopped' = {} => busy' = busy + Total(r) - Total(stack[fiber])

(* Such a step keeps the parts of the invariant.                            *)
LEMMA YieldParts ==
    ASSUME Inv, Inv', Book, fiber \in Fiber, NEW r, Yields(r)
    PROVE  /\ Mine(r) /\ FormsOK' /\ LineOK' /\ CallerOK' /\ DeferredOK' /\ BusyBalance'
           /\ Gets' \subseteq (Gets \ {fiber}) \cup {Runner} /\ ToSet(fibers') \subseteq ToSet(fibers)
           /\ fiber' = Runner \/ (fiber' \in ToSet(fibers) /\ fiber' # fiber)
<1>1. /\ FormsOK /\ TasksOK /\ LineOK /\ CallerOK /\ QueuedOK /\ DeferredOK /\ StageOK /\ BusyBalance
  BY DEF Book
<1>2. Mine(r) /\ Suspend /\ UNCHANGED spawned
  BY GotoMine DEF Yields
<1>3. Finals' = Finals
  BY DEF Yields, Finals
<1>4. FormsOK'
  BY <1>1, <1>2, <1>3, FormsStep DEF Yields
<1>5. /\ LineOK' /\ Gets' \subseteq (Gets \ {fiber}) \cup {Runner}
      /\ \/ fiber' = Runner /\ fibers' = <<>>
         \/ fiber' \in ToSet(fibers) /\ fiber' # fiber
  BY <1>1, <1>2, LineSuspend
<1>6. Gets \ {fiber} \subseteq Gets' /\ ToSet(fibers') \subseteq ToSet(fibers)
  BY <1>2, SuspendGets
<1>7. CallerOK'
  <2>1. fiber = Root => (caller' = Root <=> Head(r).k \in Pauses)
    BY DEF Yields
  <2>2. fiber # Root => caller' = caller
    BY DEF Yields
  <2>3. fiber = Root => caller' # NoFiber
    BY NamesAssumption, LineFibers DEF Yields
  <2> QED BY <1>1, <1>2, <1>6, <2>1, <2>2, <2>3, CallerStep
<1>8. DeferredOK'
  <2>1. Deferred' \subseteq Deferred /\ Deferred \subseteq Owners
    BY DEF Yields, Deferred, Inv, StatusOK, Begun, Owners
  <2>2. ready' = ready /\ Single(ready, Deferred)
    BY <1>1 DEF Yields, DeferredOK
  <2>3. stopped' = {} => ~uvstop'
    BY <1>1 DEF Yields, DeferredOK
  <2>4. ASSUME NEW o \in ToSet(ready) \cap Deferred PROVE Deferring(o)'
    <3>1. Deferring(o) /\ o \in Owners /\ o # fiber /\ o \in Fiber
      BY <1>1, <2>1 DEF DeferredOK, Deferring, Fiber
    <3>2. stack'[o] = stack[o] /\ op'[o].status = op[o].status
      BY <1>2, <3>1 DEF Mine, Yields
    <3>3. o # fiber'
      <4>1. CASE fiber' = Runner
        BY <3>1, <4>1, NamesAssumption DEF Owners
      <4>2. CASE fiber' \in ToSet(fibers)
        BY <1>1, <3>1, <4>2 DEF LineOK, Deferring, Stopping, Pauses
      <4> QED BY <1>5, <4>1, <4>2
    <3> QED BY <3>1, <3>2, <3>3 DEF Deferring
  <2>5. Single(ready', Deferred')
    BY <2>1, <2>2 DEF Single
  <2> QED BY <2>1, <2>2, <2>3, <2>4, <2>5 DEF DeferredOK
<1>9. BusyBalance'
  <2>1. Head(stack[fiber]).k # "inline" /\ Head(r).k # "inline" /\ stack'[fiber] = r
    BY <1>1, <1>2 DEF FormsOK, Yields, Mine
  <2>2. \A f \in Fiber \ {fiber} : Loaded(f)' = Loaded(f)
    BY <1>2 DEF Mine, Loaded
  <2>3. stopped' = {} => stopped = {} /\ busy' = busy + Total(r) - Total(stack[fiber])
    BY DEF Yields
  <2> QED BY <1>1, <2>1, <2>2, <2>3, BusyChange
<1> QED BY <1>2, <1>4, <1>5, <1>6, <1>7, <1>8, <1>9

(* It waits, or is a task that is over.                                     *)
LEMMA YieldBook ==
    ASSUME Inv, Inv', Book, fiber \in Fiber, NEW r, Yields(r), Same(r, stack[fiber]),
           Top.k # "done", UNCHANGED closed, Begun \subseteq Begun',
           \A l \in Exts \cup Queues : closed /\ ops[l] = <<>> => ops'[l] = <<>>,
           QueuedOK'
    PROVE  Book'
<1>1. /\ Mine(r) /\ FormsOK' /\ LineOK' /\ CallerOK' /\ DeferredOK' /\ BusyBalance'
      /\ Gets' \subseteq (Gets \ {fiber}) \cup {Runner} /\ ToSet(fibers') \subseteq ToSet(fibers)
  BY YieldParts
<1>2. FormsOK /\ TasksOK /\ StageOK /\ UNCHANGED spawned /\ UNCHANGED disposed /\ stopped \subseteq stopped'
  BY DEF Book, Yields
<1>3. \A t : Settled(t)' <=> Settled(t)
  BY DEF Yields
<1>4. TasksOK'
  <2>1. \A t \in spawned : t = fiber /\ Settled(t)' => r[Len(r)].k = "end"
    BY <1>2, <1>3 DEF TasksOK, Same
  <2>2. \A t \in disposed \cap spawned : t \notin Gets'
    <3>1. Runner \notin spawned
      BY NamesAssumption DEF Inv, StatusOK, Begun
    <3> QED BY <1>1, <1>2, <3>1 DEF TasksOK
  <2> QED BY <1>1, <1>2, <1>3, <2>1, <2>2, TasksStep
<1>5. StageOK'
  <2>1. fiber = Root => StagesOf(r) = AtStage
    BY DEF Same, AtStage
  <2>2. Root # Runner
    BY NamesAssumption
  <2>3. Root \in Gets' /\ Runner \in ToSet(fibers') => Root \in Gets /\ Runner \in ToSet(fibers)
    BY <1>1, <2>2
  <2> QED BY <1>1, <1>2, <2>1, <2>3, StageStep
<1> QED BY <1>1, <1>4, <1>5 DEF Book

(* A task that is over.                                                     *)
LEMMA BookSuspendForGood ==
    ASSUME Inv, Inv', Book, SuspendForGood
    PROVE  Book'
<1>1. /\ Top.k = "end" /\ fiber # NoFiber /\ Suspend
      /\ UNCHANGED <<stack, taskVars, readyVars, opVars, loopVars, stopVars>>
  BY DEF SuspendForGood
<1>2. fiber \in Fiber
  BY <1>1, LineFibers DEF Inv, FibersOK, Live
<1>3. PICK r : r = stack[fiber]
  OBVIOUS
<1>4. /\ WellFormed(r, Begun, fiber) /\ Form(r, fiber, spawned) /\ Head(r) = Top /\ r \in Seq(Frames) /\ r # <<>>
  BY <1>2, <1>3 DEF Inv, StacksOK, Book, FormsOK, Top, WellFormed
<1>5. fiber \in Tasks
  <2>1. 1 \in DOMAIN r /\ r[1] = Top
    BY <1>4
  <2> QED BY <1>1, <1>4, <2>1 DEF Form, Stands
<1>6. Begun' = Begun /\ \A t : Settled(t)' <=> Settled(t)
  BY <1>1 DEF taskVars, Begun, Settled
<1>7. Yields(r) /\ Same(r, stack[fiber])
  <2>1. Goto(r) /\ Same(r, stack[fiber])
    BY <1>1, <1>3, GotoSame DEF Same
  <2>2. fiber # Root
    BY <1>5, NamesAssumption
  <2>3. UNCHANGED <<op, ops, callbacks, spawned, disposed, ready, caller, busy, stopped, uvstop>>
    BY <1>1 DEF taskVars, readyVars, opVars, loopVars, stopVars
  <2>4. busy' = busy + Total(r) - Total(stack[fiber])
    <3>1. busy \in Int
      BY DEF Inv, RestOK
    <3>2. Load("none", r) \in Nat
      BY <1>4, LoadAbove
    <3>3. Total(r) \in Nat /\ Total(stack[fiber]) = Total(r)
      BY <1>3, <3>2 DEF Total
    <3> QED BY <2>3, <3>1, <3>3
  <2>5. Top.k \notin Waits /\ Head(r).k # "inline"
    BY <1>1, <1>4 DEF Waits
  <2> QED BY <1>1, <1>4, <1>6, <2>1, <2>2, <2>3, <2>4, <2>5 DEF Yields
<1>8. /\ Mine(r)
      /\ fiber' = Runner \/ (fiber' \in ToSet(fibers) /\ fiber' # fiber)
  BY <1>2, <1>7, YieldParts
<1>9. QueuedOK'
  <2>1. UNCHANGED <<op, ops>> /\ UNCHANGED <<callbacks, ready>> /\ stopped' = stopped
    BY <1>1 DEF opVars, stopVars, readyVars
  <2>2. ToSet(callbacks') \subseteq ToSet(callbacks) /\ Single(callbacks', Owners)
    BY <2>1, QuietLists
  <2>3. fiber' \in Owners => op[fiber'].status # "RUNNING"
    <3>1. Runner \notin Owners
      BY NamesAssumption DEF Owners
    <3> QED BY <1>8, <3>1, FreeToRun DEF Book
  <2>4. Top.k \notin Waits /\ Head(r).k \notin Waits
    BY <1>1, <1>4 DEF Waits
  <2>5. QueuedOK /\ stopped \subseteq stopped' /\ Mine(r)
    BY <1>8, <2>1 DEF Book
  <2>6. UNCHANGED <<op, ops>>
    BY <2>1
  <2> QED BY <2>2, <2>3, <2>4, <2>5, <2>6, QueuedQuiet
<1>10. Top.k # "done" /\ UNCHANGED closed /\ \A l : ops'[l] = ops[l]
  BY <1>1 DEF stopVars, opVars
<1> QED BY <1>2, <1>6, <1>7, <1>9, <1>10, YieldBook
-------------------------------------------------------------------------------
(* The running fiber queues an operation on list l, and blocks.             *)
LEMMA QueuedBlock ==
    ASSUME Inv, Book, fiber \in Owners, NEW r, Mine(r), Top.k \notin Waits,
           NEW l \in Lists, Head(r).k \in Waits, Head(r).x = l,
           op' = [op EXCEPT ![fiber] = [NoOp EXCEPT !.status = "RUNNING"]], stopped \subseteq stopped',
           ops' = [ops EXCEPT ![l] = Append(@, fiber)],
           \/ callbacks' = callbacks
           \/ Head(r).k = "wait" /\ callbacks' = Append(callbacks, fiber),
           \/ fiber' = Runner
           \/ fiber' \in ToSet(fibers) /\ fiber' # fiber
    PROVE  QueuedOK'
<1>0. /\ op \in [Owners -> OpRecord] /\ (\A k \in Lists : ops[k] \in Seq(Owners)) /\ callbacks \in Seq(Owners)
      /\ ops \in [Lists -> Seq(Begun \cup {Root})]
  <2>1. Begun \cup {Root} \subseteq Owners
    BY DEF Begun, Owners
  <2> QED BY <2>1, SeqMonotonic DEF Inv, OpsOK
<1>1. \A k \in Lists : fiber \notin ToSet(ops[k])
  BY DEF Book, QueuedOK, WaitsFor, Top
<1>2. fiber \notin ToSet(callbacks)
  BY DEF Book, QueuedOK, Top, Waits
<1>3. /\ op'[fiber].status = "RUNNING" /\ ~op'[fiber].cancelled /\ ~op'[fiber].defer
      /\ \A o \in Owners : o # fiber => op'[o] = op[o] /\ stack'[o] = stack[o]
      /\ stack'[fiber] = r
  BY <1>0 DEF NoOp, OpRecord, Mine, Fiber
<1>4. /\ \A k \in Lists : Single(ops[k], Owners) /\ Single(callbacks, Owners)
      /\ \A k \in Lists : \A o \in ToSet(ops[k]) : WaitsFor(o, k) /\ (op[o].status = "RUNNING" \/ op[o].cancelled)
      /\ \A o \in Owners : OpOK(o)
      /\ \A o \in ToSet(callbacks) : Head(stack[o]).k = "wait"
  BY DEF Book, QueuedOK
<1>5. \A k \in Lists : k # l => ops'[k] = ops[k]
  BY <1>0
<1>6. ops'[l] = Append(ops[l], fiber)
  BY <1>0
<1>7. Single(ops'[l], Owners) /\ ToSet(ops'[l]) = ToSet(ops[l]) \cup {fiber}
  BY <1>0, <1>1, <1>4, <1>6, OnceAppend
<1>8. \A k \in Lists : \A o \in ToSet(ops'[k]) : o \in Owners /\ ((o = fiber /\ k = l) \/ (o # fiber /\ o \in ToSet(ops[k])))
  <2>1. \A k \in Lists : ToSet(ops[k]) \subseteq Owners
    BY <1>0 DEF ToSet
  <2> QED BY <1>1, <1>5, <1>7, <2>1
<1>9. ASSUME NEW k \in Lists, NEW o \in ToSet(ops'[k])
      PROVE  Head(stack'[o]).k \in Waits /\ Head(stack'[o]).x = k /\ (op'[o].status = "RUNNING" \/ op'[o].cancelled)
  <2>1. CASE o = fiber /\ k = l
    BY <1>3, <2>1
  <2>2. CASE o # fiber /\ o \in ToSet(ops[k])
    BY <1>3, <1>4, <1>8, <2>2 DEF WaitsFor
  <2> QED BY <1>8, <2>1, <2>2
<1>10. ASSUME NEW o \in Owners PROVE OpOK(o)'
  <2>1. CASE o = fiber
    BY <1>3, <1>7, <2>1 DEF OpOK
  <2>2. CASE o # fiber
    <3>1. OpOK(o) /\ op'[o] = op[o] /\ stack'[o] = stack[o]
      BY <1>3, <1>4, <2>2
    <3>2. ASSUME op[o].status = "RUNNING", stopped' = {} PROVE o \in ToSet(ops'[Head(stack[o]).x])
      <4>1. PICK k : k = Head(stack[o]).x
        OBVIOUS
      <4>2. CASE stopped = {}
        <5>1. o \in ToSet(ops[k])
          BY <3>1, <3>2, <4>1, <4>2 DEF OpOK
        <5>2. CASE k = l
          BY <1>7, <4>1, <5>1, <5>2
        <5>3. CASE k # l
          <6>1. k \in Lists => ops'[k] = ops[k]
            BY <1>5, <5>3
          <6>2. k \in Lists
            <7>1. Head(stack[o]).k \in Waits
              BY <3>1, <3>2 DEF OpOK
            <7>2. WellFormed(stack[o], Begun, o)
              BY DEF Inv, StacksOK, Fiber
            <7>3. Subject(Head(stack[o]), Begun)
              BY <7>2, Pop
            <7> QED BY <4>1, <7>1, <7>3 DEF Subject, Waits, Lists
          <6> QED BY <4>1, <5>1, <6>1, <6>2
        <5> QED BY <5>2, <5>3
      <4>3. CASE stopped # {}
        BY <3>2, <4>3
      <4> QED BY <4>2, <4>3
    <3> QED BY <3>1, <3>2 DEF OpOK
  <2> QED BY <2>1, <2>2
<1>11. Single(callbacks', Owners) /\ \A o \in ToSet(callbacks') : Head(stack'[o]).k = "wait"
  <2>1. \A o \in ToSet(callbacks) : o \in Owners /\ o # fiber /\ Head(stack'[o]).k = "wait"
    <3>1. ToSet(callbacks) \subseteq Owners
      BY <1>0 DEF ToSet
    <3> QED BY <1>2, <1>3, <1>4, <3>1
  <2>2. CASE callbacks' = callbacks
    <3>1. Lists # {}
      BY NamesAssumption DEF Lists
    <3> QED BY <1>4, <2>1, <2>2, <3>1
  <2>3. CASE Head(r).k = "wait" /\ callbacks' = Append(callbacks, fiber)
    <3>1. Single(callbacks, Owners)
      BY DEF Book, QueuedOK
    <3>2. Single(callbacks', Owners) /\ ToSet(callbacks') = ToSet(callbacks) \cup {fiber}
      BY <1>0, <1>2, <2>3, <3>1, OnceAppend
    <3> QED BY <1>3, <2>1, <2>3, <3>2
  <2> QED BY <2>2, <2>3
<1>12. stopped' = {} /\ fiber' \in Owners => op'[fiber'].status # "RUNNING"
  <2>1. Runner \notin Owners
    BY NamesAssumption DEF Owners
  <2>2. \A g \in ToSet(fibers) : g \in Owners => op[g].status # "RUNNING"
    BY FreeToRun DEF Book
  <2> QED BY <1>3, <2>1, <2>2
<1>13. \A k \in Lists : Single(ops'[k], Owners)
  <2>1. ASSUME NEW k \in Lists PROVE Single(ops'[k], Owners)
    BY <1>4, <1>5, <1>7
  <2> QED BY <2>1
<1> QED BY <1>9, <1>10, <1>11, <1>12, <1>13 DEF QueuedOK, WaitsFor

(* PHP code, or a returned awaitable, blocks in frame fr.                   *)
Blocks(fr, l) ==
    /\ op' = [op EXCEPT ![fiber] = [NoOp EXCEPT !.status = "RUNNING"]]
    /\ ops' = [ops EXCEPT ![l] = Append(@, fiber)]
    /\ callbacks' = callbacks \/ (fr.k = "wait" /\ callbacks' = Append(callbacks, fiber))
    /\ Goto(<<fr>> \o stack[fiber]) /\ Suspend
    /\ IF fiber = Root THEN caller' = Root ELSE UNCHANGED caller
    /\ busy' = busy + One("none", fr, Top)
    /\ UNCHANGED <<spawned, disposed, ready, stopVars>>

(* Such a step keeps the invariant.                                         *)
LEMMA BlocksBook ==
    ASSUME Inv, Inv', Book, fiber \in Owners, Top.k \in Callers, CanAwait(fiber),
           Takes(stack[fiber]), NoPlain(stack[fiber]),
           NEW fr \in Frames, fr.k \in Waits, Stands(fr, Top, fiber, spawned),
           NEW l \in Lists, fr.x = l, Blocks(fr, l),
           \A t : Settled(t)' <=> Settled(t), Begun \subseteq Begun'
    PROVE  Book'
<1>1. /\ Top.k # "end" /\ Top.k \notin Waits /\ Top.k # "done" /\ fiber \in Fiber
      /\ fr.k \notin Stages /\ fr.k \in Pauses /\ fr.k # "inline"
  BY DEF Callers, Waits, Fiber, Stages, Pauses
<1>2. PICK r : r = <<fr>> \o stack[fiber]
  OBVIOUS
<1>3. /\ Form(r, fiber, spawned) /\ Same(r, stack[fiber]) /\ Head(r) = fr
      /\ Total(r) = Total(stack[fiber]) + One("none", fr, Top)
      /\ Total(stack[fiber]) \in Int /\ One("none", fr, Top) \in Int
  BY <1>1, <1>2, PushFrame
<1>4. busy' = busy + Total(r) - Total(stack[fiber])
  <2>1. busy \in Int /\ busy' = busy + One("none", fr, Top)
    BY DEF Inv, RestOK, Blocks
  <2>2. PICK n \in Int, m \in Int : n = Total(stack[fiber]) /\ m = One("none", fr, Top)
    BY <1>3
  <2>3. Total(r) = n + m /\ busy' = busy + m
    BY <1>3, <2>1, <2>2
  <2> QED BY <2>1, <2>2, <2>3
<1>5. stopped' = stopped /\ uvstop' = uvstop /\ closed' = closed
  BY DEF Blocks, stopVars
<1>6. Yields(r)
  <2>1. Goto(r) /\ Suspend /\ UNCHANGED <<spawned, disposed, ready>>
    BY <1>2 DEF Blocks
  <2>2. \A o \in Deferred : o # fiber => op'[o].status = op[o].status
    <3>1. Deferred \subseteq Owners
      BY DEF Deferred, Inv, StatusOK, Begun, Owners
    <3> QED BY <3>1 DEF Blocks, Inv, OpsOK
  <2>3. fiber = Root => caller' = Root /\ Head(r).k \in Pauses
    BY <1>1, <1>3 DEF Blocks
  <2>4. fiber # Root => caller' = caller
    BY DEF Blocks
  <2>5. Head(r).k # "inline"
    BY <1>1, <1>3
  <2> QED BY <1>1, <1>3, <1>4, <1>5, <2>1, <2>2, <2>3, <2>4, <2>5 DEF Yields
<1>7. /\ Mine(r)
      /\ fiber' = Runner \/ (fiber' \in ToSet(fibers) /\ fiber' # fiber)
  BY <1>1, <1>6, YieldParts
<1>8. QueuedOK'
  <2>1. Head(r).k \in Waits /\ Head(r).x = l
    BY <1>3
  <2>2. \/ callbacks' = callbacks
        \/ Head(r).k = "wait" /\ callbacks' = Append(callbacks, fiber)
    BY <1>3 DEF Blocks
  <2>3. stopped \subseteq stopped'
    BY <1>5
  <2>4. op' = [op EXCEPT ![fiber] = [NoOp EXCEPT !.status = "RUNNING"]] /\ ops' = [ops EXCEPT ![l] = Append(@, fiber)]
    BY DEF Blocks
  <2> QED BY <1>1, <1>7, <2>1, <2>2, <2>3, <2>4, QueuedBlock
<1>9. ~closed
  BY DEF CanAwait
<1> QED BY <1>1, <1>3, <1>5, <1>6, <1>8, <1>9, YieldBook

(* An awaitable that a task returned is awaited by the task of the fiber.   *)
LEMMA BlockerTakes ==
    ASSUME Inv, Wakes, Book, Top.k \in Callers, fiber \in Owners, Top.k = "ret" => Awaiter = fiber
    PROVE  Takes(stack[fiber]) /\ NoPlain(stack[fiber]) /\ Awaiter = fiber
<1>1. /\ Top.k # "end" /\ Top.k \notin Bottom /\ Top.k \notin Resumers /\ Top.k \notin Plain /\ Top.k \notin Ended
      /\ Top.k \notin Stages
  BY DEF Callers, Bottom, Resumers, Plain, Stages, Ended, Fins, Pauses
<1>2. WellFormed(stack[fiber], Begun, fiber) /\ Form(stack[fiber], fiber, spawned)
  BY <1>1, Here
<1>3. NoPlain(stack[fiber])
  BY <1>1, <1>2, FormTop DEF Top
<1>4. ~Uncovered(Top, Head(Rest))
  <2> SUFFICES ASSUME Top.k = "ret", Head(Rest).k = "inline" PROVE FALSE
    BY DEF Uncovered
  <2>1. Top.o = Head(Rest).x /\ Rest \in Seq(Frames) /\ Rest # <<>>
    BY <1>1, PopFrame DEF Stands, Callers
  <2>2. Top.o = fiber
    BY DEF Awaiter, InCode
  <2>3. Shape(Rest, fiber, Guests, spawned)
    <3>1. /\ fiber \in Fiber /\ Shape(stack[fiber], fiber, Guests, spawned)
          /\ stack[fiber] \in Seq(Frames) /\ stack[fiber] # <<>>
      BY <1>1, Here DEF Wakes, ShapesOK
    <3> QED BY <3>1, ShapePop DEF Rest
  <2>4. Head(Rest).x \in Guests
    <3>1. 1 \in DOMAIN Rest /\ Rest[1] = Head(Rest)
      BY <2>1
    <3> QED BY <2>3, <3>1 DEF Shape
  <2>5. Top = End
    <3>1. stack[fiber] = <<End>>
      BY <2>1, <2>2, <2>4 DEF Wakes, ShapesOK, Guests, Begun
    <3> QED BY <3>1 DEF Top
  <2> QED BY <1>1, <2>5 DEF End, Frame
<1>5. Awaiter = fiber
  BY DEF Awaiter, InCode, Callers
<1> QED BY <1>1, <1>3, <1>4, <1>5 DEF Takes, Top, Rest

(* A task, or the main script, blocks in await.                             *)
LEMMA BookAwaitBlock ==
    ASSUME Inv, Inv', Wakes, Book, Careful, NEW x \in Awaitables, AwaitBlock(x)
    PROVE  Book'
<1>1. MayAwait(x) /\ ~Inlinable(x) /\ ~Settled(x)
  BY DEF AwaitBlock
<1>2. /\ fiber \in Fiber /\ Top.k \in Callers /\ fiber \in Owners /\ Top \in Frames
      /\ Awaiter \in Owners /\ (Top.k = "ret" => x = Top.x)
  BY <1>1, AwaiterOK DEF MayAwait, InCode
<1>3. Awaiter = fiber
  BY DEF AwaitBlock
<1>4. Takes(stack[fiber]) /\ NoPlain(stack[fiber]) /\ Awaiter = fiber
  BY <1>2, <1>3, BlockerTakes
<1>5. PICK fr \in Frames : fr = Await(x, fiber) /\ fr.k = "await" /\ fr.x = x /\ fr.o = fiber
  <2>1. Await(x, fiber) \in Frames
    BY <1>2 DEF Await, Frame, Frames, Kinds, Lists
  <2> QED BY <2>1 DEF Await, Frame
<1>6. Stands(fr, Top, fiber, spawned) /\ fr.k \in Waits
  BY <1>5 DEF Stands, Fins, Callers, Waits
<1>7. One("none", fr, Top) = Weight(Top.o)
  BY <1>5 DEF One, Counts, Weight
<1>8. Blocks(fr, x)
  <2>1. Goto(<<fr>> \o stack[fiber]) /\ Suspend /\ (IF fiber = Root THEN caller' = Root ELSE UNCHANGED caller)
    BY <1>4, <1>5 DEF AwaitBlock, RunLoop
  <2>2. op' = [op EXCEPT ![fiber] = [NoOp EXCEPT !.status = "RUNNING"]] /\ ops' = [ops EXCEPT ![x] = Append(@, fiber)]
    BY <1>4 DEF AwaitBlock
  <2>3. busy' = busy + One("none", fr, Top)
    BY <1>7 DEF AwaitBlock, Enter
  <2>4. UNCHANGED <<spawned, disposed, ready, stopVars>> /\ callbacks' = callbacks
    BY DEF AwaitBlock, taskVars, readyVars
  <2> QED BY <2>1, <2>2, <2>3, <2>4 DEF Blocks
<1>9. Begun \subseteq Begun' /\ \A t : Settled(t)' <=> Settled(t)
  BY DEF AwaitBlock, taskVars, Begun, Settled
<1>10. x \in Lists /\ CanAwait(fiber)
  BY <1>1, <1>4 DEF Lists, MayAwait
<1> QED BY <1>2, <1>4, <1>5, <1>6, <1>8, <1>9, <1>10, BlocksBook

(* PHP code blocks in async_await_op.                                       *)
LEMMA BookAwaitOp ==
    ASSUME Inv, Inv', Wakes, Book, NEW q \in Queues, AwaitOp(q)
    PROVE  Book'
<1>1. Top.k = "code" /\ CanAwait(fiber) /\ Top.k \in Callers /\ Top.k # "end" /\ stopped = {} /\ ~closed
  BY DEF AwaitOp, InCode, Callers, CanAwait
<1>2. fiber \in Fiber /\ fiber \in Owners /\ Top \in Frames
  <2>1. WellFormed(stack[fiber], Begun, fiber) /\ fiber \in Fiber
    BY <1>1, Here
  <2>2. /\ Head(stack[fiber]) \in Frames /\ Subject(Head(stack[fiber]), Begun)
        /\ Head(stack[fiber]).k \in MainOnly => fiber = Root
        /\ Head(stack[fiber]).k \in Callers => fiber \in Owners
        /\ Head(stack[fiber]).k \notin Bottom => WellFormed(Tail(stack[fiber]), Begun, fiber)
        /\ Head(stack[fiber]).k \in Calls => Head(Tail(stack[fiber])).k \in Callers
    BY <2>1, Pop
  <2> QED BY <1>1, <2>1, <2>2 DEF Top
<1>3. Takes(stack[fiber]) /\ NoPlain(stack[fiber])
  BY <1>1, <1>2, BlockerTakes
<1>4. PICK fr \in Frames : fr = Wait(q, Top.o) /\ fr.k = "wait" /\ fr.x = q /\ fr.o = Top.o
  <2>1. Wait(q, Top.o) \in Frames
    BY <1>2 DEF Wait, Frame, Frames, Kinds, Lists
  <2> QED BY <2>1 DEF Wait, Frame
<1>5. Stands(fr, Top, fiber, spawned) /\ fr.k \in Waits
  BY <1>4 DEF Stands, Fins, Callers, Waits
<1>6. One("none", fr, Top) = IF q = Pending THEN 0 ELSE Weight(Top.o)
  BY <1>4 DEF One, Counts, Weight
<1>7. Blocks(fr, q)
  <2>1. Goto(<<fr>> \o stack[fiber]) /\ Suspend /\ (IF fiber = Root THEN caller' = Root ELSE UNCHANGED caller)
    BY <1>4 DEF AwaitOp, RunLoop
  <2>2. op' = [op EXCEPT ![fiber] = [NoOp EXCEPT !.status = "RUNNING"]] /\ ops' = [ops EXCEPT ![q] = Append(@, fiber)]
    BY DEF AwaitOp
  <2>3. busy' = busy + One("none", fr, Top)
    <3>1. busy \in Int
      BY DEF Inv, RestOK
    <3>2. IF q = Pending THEN busy' = busy ELSE busy' = busy + Weight(Top.o)
      BY DEF AwaitOp, Enter
    <3> QED BY <1>6, <3>1, <3>2
  <2>4. UNCHANGED <<spawned, disposed, ready, stopVars>>
    BY DEF AwaitOp, readyVars
  <2>5. callbacks' = callbacks \/ (fr.k = "wait" /\ callbacks' = Append(callbacks, fiber))
    BY <1>4 DEF AwaitOp
  <2> QED BY <2>1, <2>2, <2>3, <2>4, <2>5 DEF Blocks
<1>8. Begun \subseteq Begun' /\ \A t : Settled(t)' <=> Settled(t)
  <2>1. CASE fiber = Root
    <3>1. UNCHANGED status
      BY <2>1 DEF AwaitOp
    <3> QED BY <3>1 DEF Begun, Settled
  <2>2. CASE fiber # Root
    <3>1. status' = [status EXCEPT ![fiber] = "SUSPENDED"] /\ status[fiber] = "RUNNING" /\ fiber \in Tasks
      BY <1>1, <1>2, <2>2 DEF AwaitOp, CanAwait, Owners
    <3>2. status' \in [Awaitables -> TaskStatus \cup {"PENDING"}] /\ status \in [Awaitables -> TaskStatus \cup {"PENDING"}]
      BY DEF Inv, StatusOK
    <3>3. status'[fiber] = "SUSPENDED" /\ \A t : t # fiber => status'[t] = status[t]
      BY <3>1, <3>2 DEF Awaitables
    <3>4. \A t : Settled(t)' <=> Settled(t)
      <4> SUFFICES ASSUME NEW t PROVE status'[t] \in {"FINISHED", "FAILED"} <=> status[t] \in {"FINISHED", "FAILED"}
        BY DEF Settled
      <4> QED BY <3>1, <3>3
    <3>5. Begun \subseteq Begun'
      BY <3>1, <3>3 DEF Begun
    <3> QED BY <3>4, <3>5
  <2> QED BY <2>1, <2>2
<1>9. q \in Lists
  BY DEF Lists
<1> QED BY <1>1, <1>2, <1>3, <1>4, <1>5, <1>7, <1>8, <1>9, BlocksBook
-------------------------------------------------------------------------------
(* The main fiber runs the loop in dispose.                                 *)
LEMMA DisposeYield ==
    ASSUME Inv, Inv', Wakes, Book, fiber = Root,
           Top.k \in Stages \/ (Top.k \in Fins /\ Head(Rest).k \in Bottom),
           NEW fr \in {Drain, Rerun}, RunLoop(<<fr, Main>>),
           UNCHANGED <<taskVars, readyVars, opVars, busy>>,
           stopped \subseteq stopped', stopped' = {} => UNCHANGED uvstop,
           fr.k = "rerun" /\ stopped' = {} => closed' /\ \A l \in Exts \cup Queues : ops[l] = <<>>
    PROVE  Book'
<1>1. PICK r : r = <<fr, Main>>
  OBVIOUS
<1>2. /\ Form(r, Root, spawned) /\ Head(r) = fr /\ Total(r) = 0 /\ StagesOf(r) = {fr.k}
  BY <1>1, StagesForm
<1>3. Total(stack[fiber]) = 0 /\ fiber \in Fiber
  BY NothingBelow
<1>4. Begun' = Begun /\ (\A t : Settled(t)' <=> Settled(t))
  BY DEF taskVars, Begun, Settled
<1>5. Top.k \notin Waits /\ fr.k \in {"drain", "rerun"}
  BY DEF Stages, Fins, Waits, Drain, Rerun, Frame
<1>6. Yields(r)
  <2>1. UNCHANGED <<spawned, disposed, op, ops, callbacks, ready, busy>>
    BY DEF readyVars, opVars, taskVars
  <2>2. busy' = busy + Total(r) - Total(stack[fiber])
    <3>1. busy \in Int
      BY DEF Inv, RestOK
    <3> QED BY <1>2, <1>3, <2>1, <3>1
  <2>3. Goto(r) /\ Suspend /\ caller' = Root /\ Head(r).k \in Pauses /\ Head(r).k # "inline"
    BY <1>1, <1>2, <1>5 DEF RunLoop, Pauses
  <2>4. Form(r, fiber, spawned)
    BY <1>2
  <2> QED BY <1>4, <1>5, <2>1, <2>2, <2>3, <2>4 DEF Yields
<1>7. /\ Mine(r) /\ FormsOK' /\ LineOK' /\ CallerOK' /\ DeferredOK' /\ BusyBalance'
      /\ Gets' \subseteq (Gets \ {fiber}) \cup {Runner} /\ ToSet(fibers') \subseteq ToSet(fibers)
      /\ fiber' = Runner \/ (fiber' \in ToSet(fibers) /\ fiber' # fiber)
  BY <1>3, <1>6, YieldParts
<1>8. TasksOK'
  <2>1. TasksOK /\ disposed' = disposed /\ UNCHANGED spawned
    BY DEF Book, taskVars
  <2>2. Runner \notin spawned /\ \A t \in spawned : t # fiber
    BY NamesAssumption DEF Inv, StatusOK, Begun
  <2>3. \A t \in disposed \cap spawned : t \notin Gets'
    BY <1>7, <2>1, <2>2 DEF TasksOK
  <2> QED BY <1>4, <1>7, <2>1, <2>2, <2>3, TasksStep
<1>9. QueuedOK'
  <2>1. UNCHANGED <<ready, callbacks>> /\ UNCHANGED <<op, ops>>
    BY DEF opVars, readyVars
  <2>2. ToSet(callbacks') \subseteq ToSet(callbacks) /\ Single(callbacks', Owners)
    BY <2>1, QuietLists
  <2>3. fiber' \in Owners => op[fiber'].status # "RUNNING"
    <3>1. Runner \notin Owners
      BY NamesAssumption DEF Owners
    <3> QED BY <1>7, <3>1, FreeToRun DEF Book
  <2>4. Head(r).k \notin Waits
    BY <1>2, <1>5 DEF Waits
  <2>5. QueuedOK
    BY DEF Book
  <2> QED BY <1>5, <1>7, <2>1, <2>2, <2>3, <2>4, <2>5, QueuedQuiet
<1>10. StageOK'
  <2>1. AtStage' = {fr.k}
    BY <1>2, <1>7 DEF Mine, AtStage
  <2>2. Root \notin Gets'
    BY <1>7, NamesAssumption
  <2>3. \A l : ops'[l] = ops[l]
    BY DEF opVars
  <2>4. stopped' = {} /\ fr.k = "rerun" => closed' /\ \A l \in Exts \cup Queues : ops'[l] = <<>>
    BY <2>3
  <2> QED BY <1>5, <2>1, <2>2, <2>4 DEF StageOK
<1> QED BY <1>7, <1>8, <1>9, <1>10 DEF Book

(* The main script has ended.                                               *)
LEMMA BookFinishMain ==
    ASSUME Inv, Inv', Wakes, Book, NEW how \in Outcomes, FinishMain(how)
    PROVE  Book'
<1>1. CASE "error" \in stopped'
  BY <1>1, BookFailMain
<1>2. CASE "error" \notin stopped'
  <2>1. /\ Top.k \in Fins /\ Head(Rest).k = "main" /\ RunLoop(<<Drain, Main>>)
        /\ UNCHANGED <<taskVars, readyVars, opVars, busy>>
        /\ stopped \subseteq stopped' /\ (stopped' = {} => UNCHANGED uvstop)
    BY <1>2 DEF FinishMain, Fin, Frame, Outcomes, Fins, Stop
  <2>2. Head(Rest).k \in Bottom /\ Drain.k # "rerun"
    BY <2>1 DEF Bottom, Drain, Frame
  <2>3. fiber = Root
    <3>1. WellFormed(Rest, Begun, fiber)
      BY <2>1, <2>2, NothingBelow
    <3>2. /\ Head(Rest) \in Frames /\ Subject(Head(Rest), Begun)
          /\ Head(Rest).k \in MainOnly => fiber = Root
          /\ Head(Rest).k \in Callers => fiber \in Owners
          /\ Head(Rest).k \notin Bottom => WellFormed(Tail(Rest), Begun, fiber)
          /\ Head(Rest).k \in Calls => Head(Tail(Rest)).k \in Callers
      BY <3>1, Pop
    <3> QED BY <2>1, <3>2 DEF MainOnly
  <2> QED BY <2>1, <2>2, <2>3, DisposeYield
<1> QED BY <1>1, <1>2

(* An awaitable that is no task is pending or settled.                      *)
ExtsOK == \A e \in Exts : status[e] = "PENDING" \/ Settled(e)

(* Nobody waits for what the shutdown has settled.                          *)
LEMMA NobodyLeft ==
    ASSUME Inv, Wakes, Book, ExtsOK, fiber = Root, Top.k = "shut", stopped = {}, Leftover = {}, Unsettled = {}
    PROVE  \A l \in Exts \cup Queues : ops[l] = <<>>
<1>1. \A l \in Queues : ops[l] = <<>>
  BY DEF Leftover
<1>2. \A e \in Exts : Settled(e)
  BY DEF ExtsOK, Unsettled
<1>3. fibers = <<>>
  <2> SUFFICES ASSUME fibers # <<>> PROVE FALSE
    OBVIOUS
  <2>1. Top.k \in Stages
    BY DEF Stages
  <2>2. AtStage # {} /\ Root \in Gets
    BY <2>1, StageTop DEF Gets
  <2>3. Runner \notin ToSet(fibers)
    BY <2>2 DEF Book, StageOK
  <2>4. fibers \in Seq(Fiber)
    BY LineFibers
  <2>5. Len(fibers) \in DOMAIN fibers
    BY <2>4
  <2>6. fibers[Len(fibers)] \in ToSet(fibers)
    BY <2>5 DEF ToSet
  <2> QED BY <2>3, <2>6 DEF Book, LineOK
<1>4. Gets = {Root}
  BY <1>3, NoElements DEF Gets
<1>5. \A x : Trigger(x) \notin ToSet(stack[Root])
  <2>1. Top.k \in Stages /\ Top.k \notin Bottom /\ Top.k # "end"
    BY DEF Stages, Bottom
  <2>2. Rest = <<Head(Rest)>> /\ Head(Rest).k \in Bottom
    BY <2>1, NothingBelow
  <2>3. stack[Root] \in Seq(Frames) /\ stack[Root] # <<>>
    BY <2>1, Here
  <2>4. ToSet(stack[Root]) = {Top} \cup ToSet(Rest)
    BY <2>3, Popped DEF Top, Rest
  <2>5. \A b : ToSet(<<b>>) = {b}
    BY DEF ToSet
  <2>6. ToSet(Rest) = {Head(Rest)}
    BY <2>2, <2>5
  <2> QED BY <2>2, <2>4, <2>6 DEF Trigger, Frame, Bottom
<1>6. ASSUME NEW e \in Exts, ops[e] # <<>> PROVE FALSE
  <2>1. e \in Lists /\ e \in Awaitables /\ e \notin Queues
    BY NamesAssumption DEF Lists, Awaitables
  <2>2. PICK o \in ToSet(ops[e]) : o \in Owners
    <3>1. ops[e] \in Seq(Begun \cup {Root}) /\ Begun \cup {Root} \subseteq Owners
      BY <2>1 DEF Inv, OpsOK, Begun, Owners
    <3>2. Head(ops[e]) \in ToSet(ops[e])
      BY <1>6, <3>1, NoElements
    <3> QED BY <3>1, <3>2 DEF ToSet
  <2>3. /\ Head(stack[o]).k \in Waits /\ Head(stack[o]).x = e /\ (op[o].status = "RUNNING" \/ op[o].cancelled)
        /\ OpOK(o)
    BY <2>1, <2>2 DEF Book, QueuedOK, WaitsFor
  <2>4. WellFormed(stack[o], Begun, o) /\ Form(stack[o], o, spawned) /\ o \in Fiber
        /\ stack[o] \in Seq(Frames) /\ stack[o] # <<>>
    BY <2>2 DEF Inv, StacksOK, Fiber, Book, FormsOK, WellFormed
  <2>5. /\ Head(stack[o]) \in Frames /\ Subject(Head(stack[o]), Begun)
        /\ Head(stack[o]).k \in MainOnly => o = Root
        /\ Head(stack[o]).k \in Callers => o \in Owners
        /\ Head(stack[o]).k \notin Bottom => WellFormed(Tail(stack[o]), Begun, o)
        /\ Head(stack[o]).k \in Calls => Head(Tail(stack[o])).k \in Callers
    BY <2>4, Pop
  <2>6. Head(stack[o]).k = "await"
    BY <2>1, <2>3, <2>5 DEF Subject, Waits
  <2>7. Head(stack[o]).o = o
    <3>1. 1 \in DOMAIN stack[o] /\ stack[o][1] = Head(stack[o])
      BY <2>4
    <3> QED BY <2>4, <2>6, <3>1 DEF Form, Stands
  <2>8. Head(stack[o]) = Await(e, o)
    BY <2>3, <2>5, <2>6, <2>7 DEF Frames, Await, Frame
  <2>9. op[o].status = "RUNNING"
    BY <2>3, <2>6 DEF OpOK
  <2>10. \E g \in Gets : Trigger(e) \in ToSet(stack[g])
    BY <1>2, <2>1, <2>2, <2>8, <2>9 DEF Wakes, Heard, Hears
  <2> QED BY <1>4, <1>5, <2>10
<1> QED BY <1>1, <1>6

(* What was pending has been failed.                                        *)
LEMMA BookShutDown ==
    ASSUME Inv, Inv', Wakes, ExtsOK, Book, ShutDown
    PROVE  Book'
<1>1. /\ Top.k = "shut" /\ Top.k \in Stages /\ Leftover = {} /\ Unsettled = {} /\ RunLoop(<<Rerun, Main>>)
      /\ UNCHANGED <<taskVars, readyVars, opVars, busy, stopVars>>
  BY DEF ShutDown, Stages
<1>2. fiber = Root
  BY <1>1, InDispose
<1>3. UNCHANGED <<taskVars, readyVars, opVars, busy>> /\ stopped' = stopped /\ uvstop' = uvstop /\ closed' = closed
  BY <1>1 DEF stopVars
<1>4. stopped = {} => closed /\ \A l \in Exts \cup Queues : ops[l] = <<>>
  <2>1. "shut" \in AtStage
    BY <1>1, <1>2, StageTop
  <2>2. stopped = {} => closed
    BY <2>1 DEF Book, StageOK
  <2> QED BY <1>1, <1>2, <2>2, NobodyLeft
<1> QED BY <1>1, <1>2, <1>3, <1>4, DisposeYield
-------------------------------------------------------------------------------
(* Somebody is woken up.                                                    *)

(* Who is blocked is not over, and not in dispose.                          *)
LEMMA BlockedAlive ==
    ASSUME Inv, Wakes, Book, NEW o \in Owners, Head(stack[o]).k \in Waits
    PROVE  /\ o \in spawned \cup {Root} /\ o \notin ToSet(fibers)
           /\ o \in spawned => ~Settled(o) /\ o \notin disposed
           /\ o = Root => AtStage = {} /\ caller = Root
<1>1. o \in Fiber /\ WellFormed(stack[o], Begun, o) /\ Form(stack[o], o, spawned)
  BY DEF Fiber, Inv, StacksOK, Book, FormsOK
<1>2. Head(stack[o]).k \notin Resumers /\ Head(stack[o]).k \notin Plain /\ Head(stack[o]).k # "end"
  BY DEF Waits, Resumers, Plain, Stages
<1>3. NoPlain(stack[o])
  BY <1>1, <1>2, FormTop
<1>4. stack[o] \in Seq(Frames) /\ stack[o] # <<>> /\ Len(stack[o]) \in DOMAIN stack[o]
  BY <1>1 DEF WellFormed
<1>5. o \in spawned \cup {Root}
  <2>1. ASSUME o \in Tasks \ spawned PROVE FALSE
    <3>1. stack[o] = <<End>>
      BY <2>1 DEF Wakes, ShapesOK
    <3> QED BY <1>2, <3>1 DEF End, Frame
  <2> QED BY <2>1 DEF Owners
<1>6. ASSUME o \in spawned PROVE ~Settled(o) /\ o \notin disposed
  <2>1. stack[o][Len(stack[o])].k # "end"
    BY <1>3, <1>4 DEF NoPlain, Plain
  <2> QED BY <1>6, <2>1 DEF Book, TasksOK
<1>7. ASSUME o = Root PROVE AtStage = {} /\ caller = Root
  <2>1. AtStage = {}
    BY <1>3, <1>7 DEF AtStage, StagesOf, NoPlain, Plain, ToSet
  <2> QED BY <1>7, <2>1 DEF Book, CallerOK, Blocked, Waits
<1>8. o \notin ToSet(fibers)
  BY DEF Book, LineOK, Stopping, Pauses, Waits
<1> QED BY <1>5, <1>6, <1>7, <1>8

(* The operation of o ends.                                                 *)
Served(o) ==
    /\ o \in Owners /\ Head(stack[o]).k \in Waits
    /\ \A u \in Owners : u # o => op'[u] = op[u]
    /\ op'[o].status # "RUNNING" /\ op'[o].status # "PENDING"
    /\ op'[o].cancelled => Head(stack[o]).k = "wait"
    /\ \A k \in Lists : /\ Single(ops'[k], Owners) /\ ToSet(ops'[k]) \subseteq ToSet(ops[k])
                        /\ \A u \in ToSet(ops[k]) : u # o => u \in ToSet(ops'[k])
                        /\ o \in ToSet(ops'[k]) => op'[o].cancelled
    /\ ToSet(callbacks') \subseteq ToSet(callbacks) /\ Single(callbacks', Owners)
    /\ UNCHANGED <<spawned, disposed, loopVars, stopVars>>

(* Then the lists stay right.                                               *)
LEMMA ServedQueued ==
    ASSUME Inv, Book, Top.k \notin Waits, NEW o, Served(o), NEW r, Mine(r), Head(r).k \notin Waits,
           stopped' = {} /\ fiber' \in Owners => op'[fiber'].status # "RUNNING"
    PROVE  QueuedOK'
<1>1. /\ o \in Owners /\ o # fiber /\ stopped' = stopped /\ (\A u \in Owners : u # fiber => stack'[u] = stack[u])
      /\ stack'[fiber] = r
  BY DEF Served, Top, stopVars, Mine, Fiber
<1>2. /\ \A k \in Lists : \A u \in ToSet(ops[k]) : WaitsFor(u, k) /\ (op[u].status = "RUNNING" \/ op[u].cancelled)
      /\ \A u \in Owners : OpOK(u)
      /\ \A u \in ToSet(callbacks) : Head(stack[u]).k = "wait"
  BY DEF Book, QueuedOK
<1>3. /\ \A k \in Lists : \A u \in ToSet(ops[k]) : u \in Owners
      /\ \A u \in ToSet(callbacks) : u \in Owners
  BY DEF Inv, OpsOK, Begun, Owners, ToSet
<1>4. ASSUME NEW k \in Lists, NEW u \in ToSet(ops'[k])
      PROVE  Head(stack'[u]).k \in Waits /\ Head(stack'[u]).x = k /\ (op'[u].status = "RUNNING" \/ op'[u].cancelled)
  <2>1. u \in ToSet(ops[k]) /\ u \in Owners /\ WaitsFor(u, k) /\ (op[u].status = "RUNNING" \/ op[u].cancelled)
    BY <1>2, <1>3 DEF Served
  <2>2. u # fiber
    BY <2>1 DEF WaitsFor, Top
  <2>3. stack'[u] = stack[u]
    BY <1>1, <2>1, <2>2
  <2>4. op'[u].status = "RUNNING" \/ op'[u].cancelled
    BY <2>1 DEF Served
  <2> QED BY <2>1, <2>3, <2>4 DEF WaitsFor
<1>5. ASSUME NEW u \in Owners PROVE OpOK(u)'
  <2>1. OpOK(u)
    BY <1>2
  <2>2. CASE u = fiber
    <3>1. op'[u] = op[u] /\ stack'[u] = r
      BY <1>1, <2>2 DEF Served
    <3>2. op[u].status # "RUNNING" /\ ~op[u].cancelled
      BY <2>1, <2>2 DEF OpOK, Top, Waits
    <3> QED BY <3>1, <3>2 DEF OpOK
  <2>3. CASE u = o
    <3>1. stack'[u] = stack[u] /\ op'[u].status # "RUNNING" /\ op'[u].status # "PENDING"
          /\ (op'[u].cancelled => Head(stack[u]).k = "wait")
      BY <1>1, <2>3 DEF Served
    <3> QED BY <3>1 DEF OpOK
  <2>4. CASE u # fiber /\ u # o
    <3>1. op'[u] = op[u] /\ stack'[u] = stack[u]
      BY <1>1, <2>4 DEF Served
    <3>2. ASSUME op[u].status = "RUNNING", stopped = {} PROVE u \in ToSet(ops'[Head(stack[u]).x])
      <4>1. u \in ToSet(ops[Head(stack[u]).x]) /\ Head(stack[u]).k \in Waits
        BY <2>1, <3>2 DEF OpOK
      <4>2. Head(stack[u]).x \in Lists
        <5>1. WellFormed(stack[u], Begun, u)
          BY DEF Inv, StacksOK, Fiber
        <5>2. Subject(Head(stack[u]), Begun)
          BY <5>1, Pop
        <5> QED BY <4>1, <5>2 DEF Subject, Waits, Lists
      <4> QED BY <2>4, <4>1, <4>2 DEF Served
    <3> QED BY <1>1, <2>1, <3>1, <3>2 DEF OpOK
  <2> QED BY <2>2, <2>3, <2>4
<1>6. ASSUME NEW u \in ToSet(callbacks') PROVE Head(stack'[u]).k = "wait"
  <2>1. u \in ToSet(callbacks) /\ u \in Owners /\ Head(stack[u]).k = "wait"
    BY <1>2, <1>3 DEF Served
  <2>2. u # fiber
    BY <2>1 DEF Top, Waits
  <2> QED BY <1>1, <2>1, <2>2
<1>7. Single(callbacks', Owners) /\ \A k \in Lists : Single(ops'[k], Owners)
  BY DEF Served
<1> QED BY <1>4, <1>5, <1>6, <1>7 DEF QueuedOK, WaitsFor

(* The ready list, when o may be put in it, or gets control.                *)
LEMMA ServedDeferred ==
    ASSUME Inv, Book, Top.k \notin Waits, NEW o, Served(o), NEW r, Mine(r),
           \/ ready' = ready
           \/ op[o].status = "RUNNING" /\ Head(stack[o]).k = "wait" /\ fiber' # o /\ ready' = Append(ready, o)
              /\ o \in Deferred,
           fiber' = fiber \/ (fiber' = o /\ op[o].status = "RUNNING")
    PROVE  DeferredOK'
<1>1. /\ o \in Owners /\ o # fiber /\ stopped' = stopped /\ uvstop' = uvstop
      /\ (\A u \in Owners : u # fiber => stack'[u] = stack[u])
  BY DEF Served, Top, stopVars, Mine, Fiber
<1>2. Deferred' = Deferred /\ Deferred \subseteq Owners
  BY <1>1 DEF Served, Deferred, Inv, StatusOK, Begun, Owners
<1>3. op[o].status = "RUNNING" => o \notin ToSet(ready) \cap Deferred
  BY DEF Book, DeferredOK, Deferring
<1>4. ready \in Seq(Owners) /\ Single(ready, Deferred)
  <2>1. spawned \cup Fresh \cup {Root} \subseteq Owners
    BY DEF Inv, StatusOK, Begun, Fresh, Owners
  <2> QED BY <2>1, SeqMonotonic DEF Inv, ReadyOK, Book, DeferredOK
<1>5. Single(ready', Deferred) /\ \A u \in ToSet(ready') : u \in ToSet(ready) \/ (u = o /\ ready' # ready)
  <2>1. CASE ready' = ready
    BY <1>4, <2>1
  <2>2. CASE op[o].status = "RUNNING" /\ ready' = Append(ready, o) /\ o \in Deferred
    <3>1. \A i \in DOMAIN ready : ready[i] # o
      BY <1>3, <2>2 DEF ToSet
    <3>2. Single(Append(ready, o), Deferred)
      BY <1>1, <1>4, <3>1, SingleAppend
    <3>3. ToSet(Append(ready, o)) = ToSet(ready) \cup {o}
      BY <1>1, <1>4, AppendedSet
    <3>4. \A u \in ToSet(ready') : u \in ToSet(ready) \/ u = o
      BY <2>2, <3>3
    <3>5. Append(ready, o) # ready
      BY <1>1, <1>4
    <3> QED BY <2>2, <3>2, <3>4, <3>5
  <2> QED BY <2>1, <2>2
<1>6. ASSUME NEW u \in ToSet(ready') \cap Deferred PROVE Deferring(u)'
  <2>1. CASE u = o
    <3>1. stack'[o] = stack[o] /\ op'[o].status # "RUNNING"
      BY <1>1 DEF Served
    <3>2. CASE ready' # ready
      BY <2>1, <3>1, <3>2 DEF Deferring
    <3>3. CASE ready' = ready
      <4>1. Deferring(o)
        BY <1>6, <2>1, <3>3 DEF Book, DeferredOK
      <4> QED BY <1>1, <2>1, <3>1, <4>1 DEF Deferring
    <3> QED BY <3>2, <3>3
  <2>2. CASE u # o
    <3>1. Deferring(u) /\ u \in Owners
      BY <1>2, <1>5, <1>6, <2>2 DEF Book, DeferredOK
    <3>2. u # fiber /\ u # fiber'
      BY <2>2, <3>1 DEF Deferring
    <3>3. stack'[u] = stack[u] /\ op'[u] = op[u]
      BY <1>1, <2>2, <3>1, <3>2 DEF Served
    <3> QED BY <3>1, <3>2, <3>3 DEF Deferring
  <2> QED BY <2>1, <2>2
<1>7. stopped' = {} => ~uvstop'
  BY <1>1 DEF Book, DeferredOK
<1> QED BY <1>2, <1>5, <1>6, <1>7 DEF DeferredOK

(* Who wakes somebody up.                                                   *)
Wakers == {"code", "trigger", "shut", "loop", "cancel"}
(* What stands on top of its stack lets it put the loop there.              *)
LEMMA Waker ==
    ASSUME Inv, Book, Top.k \in Wakers
    PROVE  /\ Top.k \notin Waits /\ Top.k # "end" /\ Top.k # "done" /\ Top.k \notin Pauses \cup {"end", "inline", "resched"}
           /\ Top.k \notin Ended /\ Top.k # "ret" /\ Takes(stack[fiber])
           /\ fiber \in Fiber /\ WellFormed(stack[fiber], Begun, fiber) /\ Form(stack[fiber], fiber, spawned)
           /\ Goto(stack[fiber]) <=> stack' = stack
<1>1. /\ Top.k \notin Waits /\ Top.k # "end" /\ Top.k # "done" /\ Top.k \notin Pauses \cup {"end", "inline", "resched"}
      /\ Top.k \notin Ended /\ Top.k # "ret"
  BY DEF Wakers, Waits, Pauses, Ended, Fins
<1>2. Goto(stack[fiber]) <=> stack' = stack
  <2>1. Goto(stack[fiber]) => stack' = stack
    BY DEF Goto, Inv, StacksOK
  <2>2. stack' = stack => Goto(stack[fiber])
    BY GotoSame
  <2> QED BY <2>1, <2>2
<1> QED BY <1>1, <1>2, Here DEF Takes, Uncovered, Top

(* An empty list stays so.                                                  *)
LEMMA ServedNone ==
    ASSUME Inv, Inv', NEW o, Served(o)
    PROVE  \A l \in Exts \cup Queues : closed /\ ops[l] = <<>> => ops'[l] = <<>>
<1> SUFFICES ASSUME NEW l \in Exts \cup Queues, ops[l] = <<>> PROVE ops'[l] = <<>>
  OBVIOUS
<1>1. l \in Lists
  BY DEF Lists, Awaitables
<1>2. ToSet(ops'[l]) = {}
  BY <1>1, NoElements DEF Served
<1>3. ops'[l] \in Seq(Begun' \cup {Root})
  BY <1>1 DEF Inv, OpsOK
<1> QED BY <1>2, <1>3, NoElements

(* The count of busy sections and the end of tasks, when o is woken up.     *)
LEMMA ServedRest ==
    ASSUME Inv, Inv', Wakes, Book, Top.k \in Wakers, NEW o, Served(o), NEW r, Mine(r),
           Form(r, fiber, spawned), Same(r, stack[fiber]), Head(r).k # "inline", Head(r).k \notin Pauses,
           Total(r) = Total(stack[fiber]),
           \A t \in Awaitables : Settled(t)' <=> Settled(t), Begun \subseteq Begun',
           Gets' \subseteq Gets \cup {o}, Gets \subseteq Gets'
    PROVE  FormsOK' /\ TasksOK' /\ CallerOK' /\ BusyBalance'
<1>1. /\ Finals' = Finals /\ spawned' = spawned /\ disposed' = disposed /\ stopped' = stopped /\ caller' = caller
      /\ busy' = busy /\ o \in Owners /\ Head(stack[o]).k \in Waits
  BY DEF Finals, Served, loopVars, stopVars
<1>2. Top.k \notin Waits /\ Top.k # "end" /\ Top.k \notin Pauses /\ fiber \in Fiber /\ Head(stack[fiber]).k # "inline"
      /\ WellFormed(stack[fiber], Begun, fiber)
  BY Waker DEF Top
<1>3. FormsOK'
  <2>1. FormsOK /\ Form(r, fiber, spawned') /\ spawned \subseteq spawned' /\ Finals \subseteq Finals'
    BY <1>1 DEF Book
  <2> QED BY <2>1, FormsStep
<1>4. \A t \in spawned : t \in Awaitables
  BY DEF Inv, StatusOK, Begun, Awaitables
<1>5. TasksOK'
  <2>1. TasksOK /\ \A t \in spawned : Settled(t)' <=> Settled(t)
    BY <1>4 DEF Book
  <2>2. \A t \in spawned : t = fiber /\ Settled(t)' => r[Len(r)].k = "end"
    BY <2>1 DEF TasksOK, Same
  <2>3. \A t \in disposed \cap spawned : t \notin Gets'
    <3>1. o \in spawned => o \notin disposed
      BY <1>1, BlockedAlive
    <3> QED BY <2>1, <3>1 DEF TasksOK
  <2>4. stopped \subseteq stopped' /\ UNCHANGED spawned
    BY <1>1
  <2>5. \A t \in disposed' : t \in disposed
    BY <1>1
  <2> QED BY <2>1, <2>2, <2>3, <2>4, <2>5, TasksStep
<1>6. CallerOK'
  <2>1. fiber = Root => (caller' = Root <=> Head(r).k \in Pauses)
    <3>1. fiber = Root => caller # Root
      BY <1>2 DEF Book, CallerOK, Blocked, Top, Pauses
    <3> QED BY <1>1, <3>1
  <2>2. fiber # Root => caller' = caller
    BY <1>1
  <2>3. Gets \ {fiber} \subseteq Gets' /\ fiber \in Gets'
    BY DEF Gets
  <2>4. CallerOK
    BY DEF Book
  <2> QED BY <2>1, <2>2, <2>3, <2>4, CallerStep
<1>7. BusyBalance'
  <2>1. stack'[fiber] = r /\ \A f \in Fiber \ {fiber} : Loaded(f)' = Loaded(f)
    BY DEF Mine, Loaded
  <2>2. stopped' = {} => stopped = {} /\ busy' = busy + Total(r) - Total(stack[fiber])
    <3>1. Load("none", stack[fiber]) \in Nat
      BY <1>2, LoadAbove
    <3>2. PICK n \in Nat : n = Total(stack[fiber])
      BY <3>1 DEF Total
    <3>3. busy \in Int
      BY DEF Inv, RestOK
    <3>4. busy' = busy /\ Total(r) = n
      BY <1>1, <3>2
    <3> QED BY <1>1, <3>2, <3>3, <3>4
  <2> QED BY <1>2, <2>1, <2>2, BusyChange DEF Book
<1> QED BY <1>3, <1>5, <1>6, <1>7

(* It is put in the ready list, or is woken up by nothing: it goes on.      *)
LEMMA ServedStays ==
    ASSUME Inv, Inv', Wakes, Book, Top.k \in Wakers, NEW o, Served(o),
           UNCHANGED <<fiber, fibers, stack, status>>,
           \/ ready' = ready
           \/ op[o].status = "RUNNING" /\ Head(stack[o]).k = "wait" /\ ready' = Append(ready, o) /\ o \in Deferred
    PROVE  Book'
<1>1. PICK r : r = stack[fiber]
  OBVIOUS
<1>2. /\ Top.k \notin Waits /\ Top.k # "end" /\ Top.k # "done" /\ Top.k \notin Pauses /\ fiber \in Fiber
      /\ Form(r, fiber, spawned) /\ Head(r) = Top /\ Top.k \notin {"inline", "resched"}
  BY <1>1, Waker DEF Top
<1>3. Mine(r) /\ Same(r, stack[fiber]) /\ Total(r) = Total(stack[fiber])
  BY <1>1, <1>2 DEF Mine, Same
<1>4. (\A t \in Awaitables : Settled(t)' <=> Settled(t)) /\ Begun' = Begun /\ Gets' = Gets
  BY DEF Settled, Begun, Gets
<1>5. FormsOK' /\ TasksOK' /\ CallerOK' /\ BusyBalance'
  BY <1>2, <1>3, <1>4, ServedRest
<1>6. LineOK'
  <2>1. LineOK /\ Head(r).k # "resched"
    BY <1>2 DEF Book
  <2> QED BY <1>3, <2>1, LineStay
<1>7. QueuedOK'
  <2>1. Head(r).k \notin Waits
    BY <1>2
  <2>2. o # fiber /\ stopped' = stopped
    BY <1>2 DEF Served, Top, stopVars
  <2>3. stopped' = {} /\ fiber' \in Owners => op'[fiber'].status # "RUNNING"
    <3>1. stopped = {} /\ fiber \in Owners => op[fiber].status # "RUNNING"
      BY DEF Book, QueuedOK
    <3> QED BY <2>2, <3>1 DEF Served
  <2> QED BY <1>2, <1>3, <2>1, <2>3, ServedQueued
<1>8. DeferredOK'
  <2>1. fiber' # o
    BY <1>2 DEF Served, Top
  <2> QED BY <1>2, <1>3, <2>1, ServedDeferred
<1>9. StageOK'
  <2>1. fiber = Root => StagesOf(r) = AtStage
    BY <1>1 DEF AtStage
  <2>2. stopped \subseteq stopped' /\ (closed => closed') /\ FormsOK /\ StageOK
    BY DEF Served, stopVars, Book
  <2>3. \A l \in Exts \cup Queues : closed /\ ops[l] = <<>> => ops'[l] = <<>>
    BY ServedNone
  <2> QED BY <1>2, <1>3, <1>4, <2>1, <2>2, <2>3, StageStep
<1> QED BY <1>5, <1>6, <1>7, <1>8, <1>9 DEF Book

(* It gets control.                                                         *)
LEMMA ServedRuns ==
    ASSUME Inv, Inv', Wakes, Book, Top.k \in Wakers, NEW o, Served(o), op[o].status = "RUNNING",
           Switch(o), ready' = ready,
           \/ o = Root /\ UNCHANGED <<stack, status>>
           \/ o \in spawned /\ status' = [status EXCEPT ![o] = "RUNNING"] /\ Goto(<<Resched(o)>> \o stack[fiber])
    PROVE  Book'
<1>1. /\ Top.k \notin Waits /\ Top.k # "end" /\ Top.k # "done" /\ Top.k \notin Pauses /\ fiber \in Fiber
      /\ Top.k \notin Ended /\ Top.k # "ret" /\ Takes(stack[fiber])
      /\ Form(stack[fiber], fiber, spawned) /\ Top.k \notin {"inline", "resched", "end"}
  BY Waker DEF Top
<1>2. /\ o \in Owners /\ o # fiber /\ Head(stack[o]).k \in Waits /\ o \in Fiber /\ o # Runner
  BY <1>1, NamesAssumption DEF Served, Top, Fiber, Owners
<1>3. /\ o \in spawned \cup {Root} /\ o \notin ToSet(fibers)
      /\ o \in spawned => ~Settled(o) /\ o \notin disposed
      /\ o = Root => AtStage = {} /\ caller = Root
  BY <1>2, BlockedAlive
<1>4. PICK r : /\ Goto(r) /\ Form(r, fiber, spawned) /\ Same(r, stack[fiber])
               /\ Total(r) = Total(stack[fiber])
               /\ Head(r).k \notin Stopping \cup {"inline"} \cup Waits
               /\ Head(r).k = "resched" => Head(r).x = o
  <2>1. CASE o = Root
    <3>1. Goto(stack[fiber]) /\ Same(stack[fiber], stack[fiber])
      BY <1>2, <2>1, <1>3, GotoSame, NamesAssumption DEF Same, Inv, StatusOK, Begun
    <3>2. Top = Head(stack[fiber])
      BY DEF Top
    <3> QED BY <1>1, <3>1, <3>2 DEF Stopping, Pauses, Waits
  <2>2. CASE o # Root
    <3>1. o \in spawned /\ Goto(<<Resched(o)>> \o stack[fiber])
      BY <2>2
    <3>2. PICK fr \in Frames : fr = Resched(o) /\ fr.k = "resched" /\ fr.x = o /\ fr.o = Root
      <4>1. Resched(o) \in Frames
        BY <1>2 DEF Resched, Frame, Frames, Kinds, Owners
      <4> QED BY <4>1 DEF Resched, Frame
    <3>3. Stands(fr, Top, fiber, spawned) /\ fr.k \in Resumers /\ fr.k \notin Stages /\ fr.k \notin {"await", "wait", "inline"}
      BY <1>2, <3>1, <3>2 DEF Stands, Fins, Callers, Resumers, Stages
    <3>4. PICK r : r = <<fr>> \o stack[fiber]
      OBVIOUS
    <3>5. /\ Form(r, fiber, spawned) /\ Same(r, stack[fiber]) /\ Head(r) = fr
          /\ Total(r) = Total(stack[fiber])
      BY <1>1, <3>3, <3>4, PushFrame
    <3>6. Goto(r)
      BY <3>1, <3>2, <3>4
    <3> QED BY <3>2, <3>5, <3>6 DEF Stopping, Pauses, Waits
  <2> QED BY <2>1, <2>2
<1>5. Mine(r)
  BY <1>1, <1>4, GotoMine
<1>6. (\A t \in Awaitables : Settled(t)' <=> Settled(t)) /\ Begun \subseteq Begun'
  <2>1. CASE o = Root
    <3>1. UNCHANGED status
      BY <1>3, <2>1, NamesAssumption DEF Inv, StatusOK, Begun
    <3> QED BY <3>1 DEF Settled, Begun
  <2>2. CASE o # Root
    <3>1. o \in spawned /\ o \in Tasks /\ status' = [status EXCEPT ![o] = "RUNNING"] /\ ~Settled(o) /\ o \in Awaitables
      BY <1>3, <2>2 DEF Inv, StatusOK, Begun, Awaitables
    <3>2. status'[o] = "RUNNING" /\ \A t : t # o => status'[t] = status[t]
      BY <3>1 DEF Inv, StatusOK
    <3>3. \A t : Settled(t)' <=> Settled(t)
      <4> SUFFICES ASSUME NEW t PROVE status'[t] \in {"FINISHED", "FAILED"} <=> status[t] \in {"FINISHED", "FAILED"}
        BY DEF Settled
      <4> QED BY <3>1, <3>2 DEF Settled
    <3> QED BY <3>2, <3>3 DEF Begun
  <2> QED BY <2>1, <2>2
<1>7. /\ LineOK' /\ Gets' = Gets \cup {o} /\ fiber' = o
  <2>1. LineOK /\ stack'[fiber] = r /\ (\A f \in Fiber : f # fiber /\ f # o => stack'[f] = stack[f]) /\ stack'[o] = stack[o]
    BY <1>2, <1>5 DEF Book, Mine
  <2>2. Head(stack'[o]).k # "resched"
    BY <1>2, <2>1 DEF Waits
  <2> QED BY <1>1, <1>2, <1>3, <1>4, <2>1, <2>2, LineSwitch
<1>8. FormsOK' /\ TasksOK' /\ CallerOK' /\ BusyBalance'
  <2>1. Gets' \subseteq Gets \cup {o} /\ Gets \subseteq Gets' /\ Head(r).k \notin Pauses /\ Head(r).k # "inline"
    BY <1>4, <1>7 DEF Stopping
  <2> QED BY <1>4, <1>5, <1>6, <2>1, ServedRest
<1>9. QueuedOK'
  <2>1. Head(r).k \notin Waits
    BY <1>4
  <2>2. stopped' = {} /\ fiber' \in Owners => op'[fiber'].status # "RUNNING"
    BY <1>7 DEF Served
  <2> QED BY <1>1, <1>5, <2>1, <2>2, ServedQueued
<1>10. DeferredOK'
  BY <1>1, <1>5, <1>7, ServedDeferred
<1>11. StageOK'
  <2>1. fiber = Root => StagesOf(r) = AtStage
    BY <1>4 DEF Same, AtStage
  <2>2. stopped \subseteq stopped' /\ (closed => closed') /\ FormsOK /\ StageOK
    BY DEF Served, stopVars, Book
  <2>3. \A l \in Exts \cup Queues : closed /\ ops[l] = <<>> => ops'[l] = <<>>
    BY ServedNone
  <2>4. ASSUME AtStage # {}, Root \in Gets', Runner \in ToSet(fibers') PROVE Root \in Gets /\ Runner \in ToSet(fibers)
    <3>1. Root \in Gets /\ Runner \in Gets
      BY <1>2, <1>3, <1>7, <2>4 DEF Gets
    <3>2. fiber # Runner
      <4>1. fiber = Runner => fibers = <<>>
        BY DEF Book, LineOK
      <4> QED BY <3>1, <4>1, NoElements, NamesAssumption DEF Gets
    <3> QED BY <3>1, <3>2 DEF Gets
  <2> QED BY <1>1, <1>5, <2>1, <2>2, <2>3, <2>4, StageStep
<1> QED BY <1>7, <1>8, <1>9, <1>10, <1>11 DEF Book

(* After an error the main fiber is not woken up any more: the waker yields.*)
LEMMA ServedYields ==
    ASSUME Inv, Inv', Wakes, Book, Top.k \in Wakers, Served(Root), stopped # {},
           Suspend, UNCHANGED <<stack, status, ready>>
    PROVE  Book'
<1>1. /\ Top.k \notin Waits /\ Top.k # "end" /\ Top.k # "done" /\ Top.k \notin Pauses /\ fiber \in Fiber
      /\ Form(stack[fiber], fiber, spawned) /\ Top.k \notin {"inline", "resched", "end"} /\ Top = Head(stack[fiber])
      /\ Goto(stack[fiber])
  BY Waker DEF Top
<1>2. Root # fiber
  BY <1>1 DEF Served, Top
<1>3. PICK r : r = stack[fiber]
  OBVIOUS
<1>4. Yields(r)
  <2>1. Goto(r) /\ Form(r, fiber, spawned) /\ Head(r).k # "inline"
    BY <1>1, <1>3
  <2>2. \A u \in Deferred : u # fiber => op'[u].status = op[u].status
    <3>1. \A u \in Deferred : u \in Owners /\ u # Root
      BY NamesAssumption DEF Deferred, Inv, StatusOK, Begun, Owners
    <3> QED BY <3>1 DEF Served
  <2>3. UNCHANGED <<spawned, disposed, caller, stopped>>
    BY DEF Served, loopVars, stopVars
  <2>4. \A t : Settled(t)' <=> Settled(t)
    BY DEF Settled
  <2> QED BY <1>1, <1>2, <2>1, <2>2, <2>3, <2>4 DEF Yields
<1>5. /\ Mine(r)
      /\ fiber' = Runner \/ (fiber' \in ToSet(fibers) /\ fiber' # fiber)
  BY <1>1, <1>4, YieldParts
<1>6. QueuedOK'
  <2>1. stopped' # {} /\ Head(r).k \notin Waits
    BY <1>1, <1>3 DEF Served, stopVars
  <2> QED BY <1>1, <1>5, <2>1, ServedQueued
<1>7. Same(r, stack[fiber]) /\ closed' = closed /\ Begun' = Begun
  BY <1>3 DEF Same, Served, stopVars, Begun
<1>8. \A l \in Exts \cup Queues : closed /\ ops[l] = <<>> => ops'[l] = <<>>
  BY ServedNone
<1> QED BY <1>1, <1>4, <1>6, <1>7, <1>8, YieldBook

(* An operation is taken off its list and settled.                          *)
LEMMA SettlingServes ==
    ASSUME Inv, Wakes, Book, NEW l \in Lists, NEW o \in ToSet(ops[l]), NEW res \in {"RESOLVED", "FAILED"}, NEW defer,
           ops' = [ops EXCEPT ![l] = Unlink(@, o)],
           op' = [op EXCEPT ![o] = [status |-> res, cancelled |-> @.cancelled, defer |-> defer]],
           UNCHANGED <<spawned, disposed, callbacks, loopVars, stopVars>>
    PROVE  /\ Served(o) /\ o \in Owners /\ Head(stack[o]).k \in Waits /\ Head(stack[o]).x = l
           /\ ~op[o].cancelled => op[o].status = "RUNNING"
           /\ o \in spawned \cup {Root}
<1>1. /\ op \in [Owners -> OpRecord] /\ (\A k \in Lists : ops[k] \in Seq(Owners))
      /\ ops \in [Lists -> Seq(Begun \cup {Root})] /\ callbacks \in Seq(Owners)
  <2>1. Begun \cup {Root} \subseteq Owners
    BY DEF Begun, Owners
  <2> QED BY <2>1, SeqMonotonic DEF Inv, OpsOK
<1>2. /\ o \in Owners /\ Head(stack[o]).k \in Waits /\ Head(stack[o]).x = l
      /\ op[o].status = "RUNNING" \/ op[o].cancelled
  <2>1. WaitsFor(o, l) /\ (op[o].status = "RUNNING" \/ op[o].cancelled)
    BY DEF Book, QueuedOK
  <2>2. o \in Owners
    BY <1>1 DEF ToSet
  <2> QED BY <2>1, <2>2 DEF WaitsFor
<1>3. /\ op'[o].status = res /\ op'[o].cancelled = op[o].cancelled
      /\ \A u \in Owners : u # o => op'[u] = op[u]
  BY <1>1, <1>2
<1>4. op[o].cancelled => Head(stack[o]).k = "wait"
  BY <1>2 DEF Book, QueuedOK, OpOK
<1>5. ASSUME NEW k \in Lists
      PROVE  /\ Single(ops'[k], Owners) /\ ToSet(ops'[k]) \subseteq ToSet(ops[k])
             /\ \A u \in ToSet(ops[k]) : u # o => u \in ToSet(ops'[k])
             /\ o \notin ToSet(ops'[k])
  <2>1. Single(ops[k], Owners) /\ ops[k] \in Seq(Owners)
    BY <1>1 DEF Book, QueuedOK
  <2>2. CASE k = l
    <3>1. ops'[k] = RemoveFirst(ops[k], o)
      BY <1>1, <2>2 DEF Unlink
    <3>2. Single(RemoveFirst(ops[k], o), Owners) /\ ToSet(RemoveFirst(ops[k], o)) = ToSet(ops[k]) \ {o}
      BY <2>1, OnceRemove
    <3> QED BY <3>1, <3>2
  <2>3. CASE k # l
    <3>1. ops'[k] = ops[k]
      BY <1>1, <2>3
    <3>2. o \notin ToSet(ops[k])
      BY <1>2, <2>3 DEF Book, QueuedOK, WaitsFor
    <3> QED BY <2>1, <3>1, <3>2
  <2> QED BY <2>2, <2>3
<1>6. Served(o)
  <2>1. op'[o].status # "RUNNING" /\ op'[o].status # "PENDING"
    BY <1>3
  <2>2. Single(callbacks', Owners) /\ ToSet(callbacks') \subseteq ToSet(callbacks)
    BY DEF Book, QueuedOK
  <2> QED BY <1>2, <1>3, <1>4, <1>5, <2>1, <2>2 DEF Served
<1>7. o \in spawned \cup {Root}
  BY <1>2, BlockedAlive
<1> QED BY <1>2, <1>6, <1>7

(* Its owner is woken up.                                                   *)
LEMMA BookWake ==
    ASSUME Inv, Inv', Wakes, Book, Top.k \in Wakers, NEW o, Served(o), op[o].status = "RUNNING", NEW defer,
           defer => Head(stack[o]).k = "wait", Wake(o, defer, stack[fiber])
    PROVE  Book'
<1>1. /\ o \in Owners /\ Head(stack[o]).k \in Waits /\ o \in spawned \cup {Root}
      /\ o = Root => caller = Root
  BY BlockedAlive DEF Served
<1>2. Goto(stack[fiber]) <=> stack' = stack
  BY Waker
<1>3. \A u : Enqueue(u) => ready' = ready \/ ready' = Append(ready, u)
  BY DEF Enqueue, readyVars
<1>4. CASE o = Root
  <2>1. WakeRoot(defer, stack[fiber]) /\ Goto(stack[fiber]) /\ UNCHANGED status
    BY <1>4 DEF Wake, WakeRoot
  <2>2. stack' = stack
    BY <1>2, <2>1
  <2>3. CASE stopped # {}
    <3>1. Suspend /\ ready' = ready /\ Served(Root)
      BY <1>4, <2>1, <2>3 DEF WakeRoot, readyVars
    <3> QED BY <2>1, <2>2, <2>3, <3>1, ServedYields
  <2>4. CASE stopped = {} /\ defer
    <3>1. Enqueue(o) /\ UNCHANGED <<fiber, fibers>>
      BY <1>4, <2>1, <2>4 DEF WakeRoot
    <3>2. o \in Deferred
      BY <1>4, <2>4 DEF Deferred
    <3> QED BY <1>3, <2>1, <2>2, <2>4, <3>1, <3>2, ServedStays
  <2>5. CASE stopped = {} /\ ~defer
    <3>1. Switch(caller) /\ ready' = ready
      BY <2>1, <2>5 DEF WakeRoot, readyVars
    <3>2. Switch(o)
      BY <1>1, <1>4, <3>1
    <3> QED BY <1>4, <2>1, <2>2, <3>1, <3>2, ServedRuns
  <2> QED BY <2>3, <2>4, <2>5
<1>5. CASE o # Root
  <2>1. WakeTask(o, defer, stack[fiber]) /\ o \in spawned
    BY <1>1, <1>5 DEF Wake
  <2>2. CASE defer
    <3>1. Enqueue(o) /\ Goto(stack[fiber]) /\ UNCHANGED <<fiber, fibers, status>>
      BY <2>1, <2>2 DEF WakeTask
    <3>2. stack' = stack /\ o \in Deferred
      BY <1>2, <2>1, <3>1 DEF Deferred
    <3> QED BY <1>3, <2>2, <3>1, <3>2, ServedStays
  <2>3. CASE ~defer
    <3>1. /\ status' = [status EXCEPT ![o] = "RUNNING"]
          /\ Goto(<<Resched(o)>> \o stack[fiber])
          /\ Switch(o) /\ ready' = ready
      BY <2>1, <2>3 DEF WakeTask, readyVars
    <3> QED BY <2>1, <3>1, ServedRuns
  <2> QED BY <2>2, <2>3
<1> QED BY <1>4, <1>5

(* SettleOp.                                                                *)
LEMMA BookSettleOp ==
    ASSUME Inv, Inv', Wakes, Book, Top.k \in Wakers,
           NEW l \in Lists, NEW o \in ToSet(ops[l]), NEW res \in {"RESOLVED", "FAILED"}, NEW defer,
           defer => l \in Queues, SettleOp(l, o, res, defer, stack[fiber]),
           UNCHANGED <<spawned, disposed, runs, callbacks, issued, loopVars, stopVars>>
    PROVE  Book'
<1>1. /\ ops' = [ops EXCEPT ![l] = Unlink(@, o)]
      /\ op' = [op EXCEPT ![o] = [status |-> res, cancelled |-> @.cancelled, defer |-> defer]]
  BY DEF SettleOp
<1>2. /\ Served(o) /\ o \in Owners /\ Head(stack[o]).k \in Waits /\ Head(stack[o]).x = l
      /\ ~op[o].cancelled => op[o].status = "RUNNING"
      /\ o \in spawned \cup {Root}
  BY <1>1, SettlingServes
<1>3. CASE op[o].cancelled
  <2>1. Goto(stack[fiber]) /\ UNCHANGED <<fiber, fibers, status, ready, idle>>
    BY <1>3 DEF SettleOp
  <2>2. stack' = stack
    BY <2>1, Waker
  <2> QED BY <1>2, <2>1, <2>2, ServedStays
<1>4. CASE ~op[o].cancelled
  <2>1. Wake(o, defer, stack[fiber]) /\ op[o].status = "RUNNING"
    BY <1>2, <1>4 DEF SettleOp
  <2>2. ASSUME defer PROVE Head(stack[o]).k = "wait"
    <3>1. WellFormed(stack[o], Begun, o)
      BY <1>2 DEF Inv, StacksOK, Fiber
    <3>2. Subject(Head(stack[o]), Begun)
      BY <3>1, Pop
    <3>3. Head(stack[o]).x \notin Awaitables
      BY <1>2, <2>2, NamesAssumption
    <3> QED BY <1>2, <3>2, <3>3 DEF Subject, Waits
  <2> QED BY <1>2, <2>1, <2>2, BookWake
<1> QED BY <1>3, <1>4

(* PHP code completes an operation.                                         *)
LEMMA BookSignal ==
    ASSUME Inv, Inv', Wakes, Book, NEW q \in Queues, NEW defer \in BOOLEAN, Signal(q, defer)
    PROVE  Book'
<1>1. /\ InCode /\ ops[q] # <<>> /\ SettleOp(q, Head(ops[q]), "RESOLVED", defer, stack[fiber])
      /\ UNCHANGED <<spawned, disposed, runs, callbacks, issued, loopVars, stopVars>>
  BY DEF Signal
<1>2. q \in Lists /\ Top.k \in Wakers
  BY <1>1 DEF Lists, InCode, Wakers
<1>3. Head(ops[q]) \in ToSet(ops[q])
  <2>1. ops[q] \in Seq(Begun \cup {Root})
    BY <1>2 DEF Inv, OpsOK
  <2> QED BY <1>1, <2>1, NoElements
<1> QED BY <1>1, <1>2, <1>3, BookSettleOp

(* A request completes.                                                     *)
LEMMA BookRequestDone ==
    ASSUME Inv, Inv', Wakes, Book, NEW o, NEW res, RequestDone(o, res)
    PROVE  Book'
<1>1. /\ InLoop /\ o \in ToSet(ops[Pending]) /\ res \in {"RESOLVED", "FAILED"}
      /\ SettleOp(Pending, o, res, FALSE, stack[fiber])
      /\ UNCHANGED <<spawned, disposed, runs, callbacks, issued, loopVars, stopVars>>
  BY DEF RequestDone
<1>2. Pending \in Lists /\ Top.k \in Wakers
  BY <1>1, NamesAssumption DEF Lists, InLoop, Wakers
<1> QED BY <1>1, <1>2, BookSettleOp

(* A pending operation is failed by the shutdown.                           *)
LEMMA BookFailLeftover ==
    ASSUME Inv, Inv', Wakes, Book, NEW q \in Queues, FailLeftover(q)
    PROVE  Book'
<1>1. /\ Top.k = "shut" /\ ops[q] # <<>> /\ SettleOp(q, Head(ops[q]), "FAILED", FALSE, stack[fiber])
      /\ UNCHANGED <<spawned, disposed, runs, callbacks, issued, loopVars, stopVars>>
  BY DEF FailLeftover, Leftover
<1>2. q \in Lists /\ Top.k \in Wakers
  BY <1>1 DEF Lists, Wakers
<1>3. Head(ops[q]) \in ToSet(ops[q])
  <2>1. ops[q] \in Seq(Begun \cup {Root})
    BY <1>2 DEF Inv, OpsOK
  <2> QED BY <1>1, <2>1, NoElements
<1> QED BY <1>1, <1>2, <1>3, BookSettleOp

(* The loop over the operations of an awaitable.                            *)
LEMMA BookTriggerOps ==
    ASSUME Inv, Inv', Wakes, Book, TriggerOps
    PROVE  Book'
<1>1. /\ Top.k = "trigger"
      /\ UNCHANGED <<spawned, disposed, runs, callbacks, issued, loopVars, stopVars>>
      /\ ops[Top.x] = <<>> => Goto(Rest) /\ UNCHANGED <<fiber, fibers, status, readyVars, op, ops>>
      /\ ops[Top.x] # <<>> => SettleOp(Top.x, Head(ops[Top.x]), Verdict(Top.x), FALSE, stack[fiber])
  BY DEF TriggerOps, Again
<1>2. CASE ops[Top.x] = <<>>
  BY <1>1, <1>2, BookLoopEnds DEF opVars, taskVars
<1>3. CASE ops[Top.x] # <<>>
  <2>1. Top.k \in Wakers
    BY <1>1 DEF Wakers
  <2>2. WellFormed(stack[fiber], Begun, fiber)
    BY <2>1, Waker
  <2>3. Subject(Head(stack[fiber]), Begun)
    BY <2>2, Pop
  <2>4. Top.x \in Lists
    BY <1>1, <2>3 DEF Subject, Top, Lists
  <2>5. ops[Top.x] \in Seq(Begun \cup {Root})
    BY <2>4 DEF Inv, OpsOK
  <2>6. Head(ops[Top.x]) \in ToSet(ops[Top.x]) /\ Verdict(Top.x) \in {"RESOLVED", "FAILED"}
    BY <1>3, <2>5, NoElements DEF Verdict
  <2> QED BY <1>1, <1>3, <2>1, <2>4, <2>6, BookSettleOp
<1> QED BY <1>2, <1>3

(* The chain of cancel callbacks.                                           *)
LEMMA BookCancelOps ==
    ASSUME Inv, Inv', Wakes, Book, CancelOps
    PROVE  Book'
<1>1. /\ Top.k = "cancel"
      /\ UNCHANGED <<spawned, disposed, runs, ops, issued, loopVars, stopVars>>
  BY DEF CancelOps
<1>2. CASE callbacks = <<>>
  <2>1. Goto(Rest) /\ UNCHANGED <<fiber, fibers, status, readyVars, op, callbacks>>
    BY <1>2 DEF CancelOps
  <2> QED BY <1>1, <2>1, BookLoopEnds DEF opVars, taskVars
<1>3. CASE callbacks # <<>>
  <2>1. PICK o : o = Head(callbacks)
    OBVIOUS
  <2>2. /\ callbacks' = Tail(callbacks)
        /\ op[o].status = "RUNNING" =>
             /\ op' = [op EXCEPT ![o].status = "FAILED", ![o].cancelled = TRUE]
             /\ Wake(o, op[o].defer, stack[fiber])
        /\ op[o].status # "RUNNING" => UNCHANGED <<fiber, fibers, stack, status, readyVars, op>>
    BY <1>3, <2>1 DEF CancelOps, Again
  <2>3. CASE op[o].status # "RUNNING"
    BY <1>1, <1>3, <2>2, <2>3, BookCancelPassed DEF taskVars
  <2>4. CASE op[o].status = "RUNNING"
    <3>1. callbacks \in Seq(Owners) /\ Single(callbacks, Owners)
      <4>1. Begun \cup {Root} \subseteq Owners
        BY DEF Begun, Owners
      <4> QED BY <4>1, SeqMonotonic DEF Inv, OpsOK, Book, QueuedOK
    <3>2. /\ o \in Owners /\ o \in ToSet(callbacks)
          /\ Single(Tail(callbacks), Owners) /\ ToSet(Tail(callbacks)) = ToSet(callbacks) \ {o}
      BY <1>3, <2>1, <3>1, OnceTail
    <3>3. Head(stack[o]).k = "wait" /\ ~op[o].defer
      BY <2>4, <3>2 DEF Book, QueuedOK, OpOK
    <3>4. /\ op'[o].status = "FAILED" /\ op'[o].cancelled
          /\ \A u \in Owners : u # o => op'[u] = op[u]
      <4>1. op \in [Owners -> OpRecord] /\ op[o] \in OpRecord
        BY <3>2 DEF Inv, OpsOK
      <4>2. op' = [op EXCEPT ![o].status = "FAILED", ![o].cancelled = TRUE]
        BY <2>2, <2>4
      <4> QED BY <3>2, <4>1, <4>2 DEF OpRecord
    <3>5. \A k \in Lists : Single(ops'[k], Owners) /\ ToSet(ops'[k]) = ToSet(ops[k])
      BY <1>1 DEF Book, QueuedOK
    <3>6. callbacks' = Tail(callbacks)
      BY <2>2
    <3>7. Served(o)
      BY <1>1, <3>2, <3>3, <3>4, <3>5, <3>6 DEF Served, Waits
    <3>8. Top.k \in Wakers /\ Wake(o, op[o].defer, stack[fiber]) /\ (op[o].defer => Head(stack[o]).k = "wait")
      BY <1>1, <2>2, <2>4, <3>3 DEF Wakers
    <3> QED BY <2>4, <3>7, <3>8, BookWake
  <2> QED BY <2>3, <2>4
<1> QED BY <1>2, <1>3
-------------------------------------------------------------------------------
(* A wait is over.                                                          *)

(* The running fiber goes on with stack r and gives up its operation.       *)
GivesUp(r) ==
    /\ Goto(r) /\ Form(r, fiber, spawned) /\ Same(r, stack[fiber])
    /\ Head(r).k \notin Pauses \cup {"inline", "resched"}
    /\ UNCHANGED <<fiber, fibers, spawned, disposed, status, ready, stopped, uvstop, closed>>
    /\ caller' = IF fiber = Root THEN NoFiber ELSE caller
    /\ op' = [op EXCEPT ![fiber] = NoOp]
    /\ \A k \in Lists : Single(ops'[k], Owners) /\ ToSet(ops'[k]) = ToSet(ops[k]) \ {fiber}
    /\ Single(callbacks', Owners) /\ ToSet(callbacks') = ToSet(callbacks) \ {fiber}
    /\ stopped = {} => busy' = busy + Total(r) - Total(stack[fiber])

(* The queues without it.                                                   *)
LEMMA GivenUpQueued ==
    ASSUME Inv, Book, fiber \in Owners, NEW r, GivesUp(r), Mine(r)
    PROVE  QueuedOK'
<1>0. op \in [Owners -> OpRecord] /\ Head(r).k \notin Waits
  BY DEF Inv, OpsOK, GivesUp, Pauses, Waits
<1>1. /\ op'[fiber] = NoOp /\ (\A u \in Owners : u # fiber => op'[u] = op[u] /\ stack'[u] = stack[u])
      /\ stack'[fiber] = r /\ stopped' = stopped /\ fiber' = fiber
  BY <1>0 DEF GivesUp, Mine, Fiber
<1>2. /\ \A k \in Lists : \A u \in ToSet(ops[k]) : WaitsFor(u, k) /\ (op[u].status = "RUNNING" \/ op[u].cancelled)
      /\ \A u \in Owners : OpOK(u)
      /\ \A u \in ToSet(callbacks) : Head(stack[u]).k = "wait"
  BY DEF Book, QueuedOK
<1>3. /\ \A k \in Lists : \A u \in ToSet(ops[k]) : u \in Owners
      /\ \A u \in ToSet(callbacks) : u \in Owners
  BY DEF Inv, OpsOK, Begun, Owners, ToSet
<1>4. ASSUME NEW k \in Lists, NEW u \in ToSet(ops'[k])
      PROVE  Head(stack'[u]).k \in Waits /\ Head(stack'[u]).x = k /\ (op'[u].status = "RUNNING" \/ op'[u].cancelled)
  <2>1. u \in ToSet(ops[k]) /\ u # fiber
    BY DEF GivesUp
  <2>2. u \in Owners /\ WaitsFor(u, k) /\ (op[u].status = "RUNNING" \/ op[u].cancelled)
    BY <1>2, <1>3, <2>1
  <2>3. op'[u] = op[u] /\ stack'[u] = stack[u]
    BY <1>1, <2>1, <2>2
  <2> QED BY <2>2, <2>3 DEF WaitsFor
<1>5. ASSUME NEW u \in Owners PROVE OpOK(u)'
  <2>1. CASE u = fiber
    BY <1>0, <1>1, <2>1 DEF OpOK, NoOp
  <2>2. CASE u # fiber
    <3>1. OpOK(u) /\ op'[u] = op[u] /\ stack'[u] = stack[u]
      BY <1>1, <1>2, <2>2
    <3>2. ASSUME op[u].status = "RUNNING", stopped = {} PROVE u \in ToSet(ops'[Head(stack[u]).x])
      <4>1. u \in ToSet(ops[Head(stack[u]).x]) /\ Head(stack[u]).k \in Waits
        BY <3>1, <3>2 DEF OpOK
      <4>2. Head(stack[u]).x \in Lists
        <5>1. WellFormed(stack[u], Begun, u)
          BY DEF Inv, StacksOK, Fiber
        <5>2. Subject(Head(stack[u]), Begun)
          BY <5>1, Pop
        <5> QED BY <4>1, <5>2 DEF Subject, Waits, Lists
      <4> QED BY <2>2, <4>1, <4>2 DEF GivesUp
    <3> QED BY <1>1, <3>1, <3>2 DEF OpOK
  <2> QED BY <2>1, <2>2
<1>6. ASSUME NEW u \in ToSet(callbacks') PROVE Head(stack'[u]).k = "wait"
  <2>1. u \in ToSet(callbacks) /\ u # fiber /\ u \in Owners
    BY <1>3 DEF GivesUp
  <2> QED BY <1>1, <1>2, <2>1
<1>7. op'[fiber'].status # "RUNNING"
  BY <1>1 DEF NoOp
<1>8. Single(callbacks', Owners) /\ \A k \in Lists : Single(ops'[k], Owners)
  BY DEF GivesUp
<1> QED BY <1>4, <1>5, <1>6, <1>7, <1>8 DEF QueuedOK, WaitsFor

(* The rest of the books.                                                   *)
LEMMA GivenUpBook ==
    ASSUME Inv, Inv', Book, Top.k \in Waits, fiber \in Owners, NEW r, GivesUp(r)
    PROVE  Book'
<1>1. fiber \in Fiber /\ Top.k # "end" /\ Top.k # "done" /\ Head(stack[fiber]).k # "inline"
  BY DEF Waits, Fiber, Top
<1>2. /\ Mine(r) /\ Gets' = Gets /\ Begun' = Begun /\ Finals' = Finals
      /\ \A t : Settled(t)' <=> Settled(t)
  BY <1>1, GotoMine DEF GivesUp, Gets, Begun, Finals, Settled
<1>3. /\ FormsOK /\ TasksOK /\ LineOK /\ CallerOK /\ QueuedOK /\ DeferredOK /\ StageOK /\ BusyBalance
  BY DEF Book
<1>4. FormsOK'
  <2>1. Form(r, fiber, spawned') /\ spawned \subseteq spawned' /\ Finals \subseteq Finals' /\ Head(r).k # "inline"
    BY <1>2 DEF GivesUp
  <2> QED BY <1>2, <1>3, <2>1, FormsStep
<1>5. TasksOK'
  <2>1. \A t \in spawned : t = fiber /\ Settled(t)' => r[Len(r)].k = "end"
    BY <1>2, <1>3 DEF TasksOK, GivesUp, Same
  <2>2. \A t \in disposed \cap spawned : t \notin Gets'
    BY <1>2, <1>3 DEF TasksOK
  <2>3. UNCHANGED spawned /\ disposed' = disposed /\ stopped \subseteq stopped' /\ Begun \subseteq Begun'
    BY <1>2 DEF GivesUp
  <2> QED BY <1>2, <1>3, <2>1, <2>2, <2>3, TasksStep
<1>6. LineOK'
  BY <1>2, <1>3, LineStay DEF GivesUp
<1>7. CallerOK'
  <2>1. /\ fiber # Root => caller' = caller
        /\ fiber = Root => caller' = NoFiber
        /\ Head(r).k \notin Pauses
    BY DEF GivesUp
  <2>2. NoFiber # Root
    BY LineFibers, NamesAssumption
  <2>3. Gets \ {fiber} \subseteq Gets' /\ fiber \in Gets'
    BY <1>2 DEF Gets
  <2>4. /\ fiber = Root => (caller' = Root <=> Head(r).k \in Pauses)
        /\ fiber = Root /\ caller' = NoFiber => Root \in Gets'
    BY <2>1, <2>2, <2>3
  <2> QED BY <1>2, <1>3, <2>1, <2>3, <2>4, CallerStep
<1>8. QueuedOK'
  BY <1>2, GivenUpQueued
<1>9. DeferredOK'
  <2>1. /\ ready' = ready /\ stopped' = stopped /\ uvstop' = uvstop /\ fiber' = fiber /\ Deferred' = Deferred
        /\ Deferred \subseteq Owners
    BY DEF GivesUp, Deferred, Inv, StatusOK, Begun, Owners
  <2>2. ASSUME NEW u \in ToSet(ready) \cap Deferred PROVE Deferring(u)'
    <3>1. Deferring(u) /\ u \in Owners /\ u # fiber
      BY <1>3, <2>1 DEF DeferredOK, Deferring
    <3>2. op'[u] = op[u] /\ stack'[u] = stack[u]
      BY <1>2, <3>1 DEF GivesUp, Inv, OpsOK, Mine, Fiber
    <3> QED BY <2>1, <3>1, <3>2 DEF Deferring
  <2> QED BY <1>3, <2>1, <2>2 DEF DeferredOK
<1>10. StageOK'
  <2>1. fiber = Root => StagesOf(r) = AtStage
    BY DEF GivesUp, Same, AtStage
  <2>2. \A l \in Exts \cup Queues : closed /\ ops[l] = <<>> => ops'[l] = <<>>
    <3> SUFFICES ASSUME NEW l \in Exts \cup Queues, ops[l] = <<>> PROVE ops'[l] = <<>>
      OBVIOUS
    <3>1. l \in Lists
      BY DEF Lists, Awaitables
    <3>2. ToSet(ops'[l]) = {}
      BY <3>1, NoElements DEF GivesUp
    <3>3. ops'[l] \in Seq(Begun' \cup {Root})
      BY <3>1 DEF Inv, OpsOK
    <3> QED BY <3>2, <3>3, NoElements
  <2>3. stopped \subseteq stopped' /\ (closed => closed') /\ fibers' = fibers
    BY DEF GivesUp
  <2> QED BY <1>1, <1>2, <1>3, <2>1, <2>2, <2>3, StageStep
<1>11. BusyBalance'
  <2>1. Head(r).k # "inline" /\ stack'[fiber] = r /\ \A f \in Fiber \ {fiber} : Loaded(f)' = Loaded(f)
    BY <1>2 DEF GivesUp, Mine, Loaded
  <2>2. stopped' = {} => stopped = {} /\ busy' = busy + Total(r) - Total(stack[fiber])
    BY DEF GivesUp
  <2> QED BY <1>1, <1>3, <2>1, <2>2, BusyChange
<1> QED BY <1>4, <1>5, <1>6, <1>7, <1>8, <1>9, <1>10, <1>11 DEF Book

(* What is below a wait.                                                    *)
LEMMA BelowWait ==
    ASSUME Inv, Book, Top.k \in Waits
    PROVE  /\ Top.k = "await" => Top.o = fiber
           /\ fiber \in Owners /\ Top.x \in Lists
           /\ WellFormed(Rest, Begun, fiber) /\ Form(Rest, fiber, spawned) /\ Same(Rest, stack[fiber])
           /\ Head(Rest).k \in Callers
           /\ Total(stack[fiber]) = Total(Rest) + One("none", Top, Head(Rest))
           /\ Total(Rest) \in Int /\ One("none", Top, Head(Rest)) \in Int
<1>1. Top.k \notin Bottom /\ Top.k \notin Stages /\ Top.k # "end" /\ Top.k \in Calls /\ Top.k \notin {"code", "inline"}
  BY DEF Waits, Calls, Bottom, Stages
<1>2. /\ WellFormed(Rest, Begun, fiber) /\ Form(Rest, fiber, spawned) /\ Same(Rest, stack[fiber])
      /\ Head(Rest).k \in Callers
  BY <1>1, PopFrame
<1>3. fiber \in Owners
  BY <1>2, Pop
<1>4. WellFormed(stack[fiber], Begun, fiber) /\ Head(stack[fiber]) = Top /\ Rest = Tail(stack[fiber])
  BY <1>1, Here DEF Top, Rest
<1>5. Subject(Top, Begun)
  BY <1>4, Pop
<1>6. Top.x \in Lists
  BY <1>5 DEF Subject, Waits, Lists
<1>7. Top.k = "await" => Top.o = fiber
  BY <1>1, TopStands
<1>8. /\ Total(stack[fiber]) = Load(Top.k, Rest) + One("none", Top, Head(Rest))
      /\ One("none", Top, Head(Rest)) \in Int
  <2>1. PICK s : s = stack[fiber]
    OBVIOUS
  <2>2. WellFormed(s, Begun, fiber) /\ Head(s).k \notin Bottom
    BY <1>1, <1>4, <2>1
  <2>3. /\ Total(s) = Load(Head(s).k, Tail(s)) + One("none", Head(s), Head(Tail(s)))
        /\ Load(Head(s).k, Tail(s)) \in Int /\ One("none", Head(s), Head(Tail(s))) \in Int
        /\ Head(s).k \notin {"await", "wait", "inline"} => Total(s) = Load(Head(s).k, Tail(s))
        /\ Head(s).k \notin {"await", "wait", "inline"} /\ Head(Tail(s)).k # "inline" =>
             Total(s) = Total(Tail(s))
    BY <2>2, TotalPop
  <2> QED BY <1>4, <2>1, <2>3
<1>9. Load(Top.k, Rest) = Total(Rest) /\ Total(Rest) \in Int
  <2>1. Head(Rest).k # "inline"
    BY <1>2 DEF Callers
  <2>2. PICK a, c : a = Top.k /\ c = "none"
    OBVIOUS
  <2>3. /\ Head(Rest).k # "inline" => Load(a, Rest) = Load(c, Rest)
        /\ Head(Rest).k = "inline" /\ c # "code" =>
             Load("code", Rest) = Load(c, Rest) + Weight(Head(Rest).o)
        /\ a # "code" /\ c # "code" => Load(a, Rest) = Load(c, Rest)
        /\ Load(a, Rest) \in Nat
    BY <1>2, LoadAbove
  <2> QED BY <2>1, <2>2, <2>3 DEF Total
<1> QED BY <1>2, <1>3, <1>6, <1>7, <1>8, <1>9

(* What the running fiber goes on with.                                     *)
LEMMA AfterWait ==
    ASSUME Inv, Book, Top.k \in Waits, NEW how \in Outcomes
    PROVE  /\ Form(Deliver(how, Rest), fiber, spawned) /\ Same(Deliver(how, Rest), stack[fiber])
           /\ Head(Deliver(how, Rest)).k \notin Pauses \cup {"inline", "resched"}
           /\ Total(Deliver(how, Rest)) = Total(Rest)
           /\ Form(Bail(Rest), fiber, spawned) /\ Same(Bail(Rest), stack[fiber])
           /\ Head(Bail(Rest)).k \notin Pauses \cup {"inline", "resched"}
<1>1. PICK s : s = Rest
  OBVIOUS
<1>2. WellFormed(s, Begun, fiber) /\ Form(s, fiber, spawned) /\ Head(s).k \in Callers /\ Same(s, stack[fiber])
  BY <1>1, BelowWait
<1>3. /\ Form(Deliver(how, s), fiber, spawned) /\ Same(Deliver(how, s), s)
      /\ Head(Deliver(how, s)).k \in {"code"} \cup Fins /\ Total(Deliver(how, s)) = Total(s)
      /\ Form(Bail(s), fiber, spawned) /\ Same(Bail(s), s)
      /\ Head(Bail(s)).k \in {"bail"} \cup Fins /\ Total(Bail(s)) = Total(s) - Section(s)
      /\ Total(s) \in Int /\ Section(s) \in Int
  BY <1>2, DeliverForm
<1>4. Same(Deliver(how, s), stack[fiber]) /\ Same(Bail(s), stack[fiber])
  BY <1>2, <1>3 DEF Same
<1>5. /\ Head(Deliver(how, s)).k \notin Pauses \cup {"inline", "resched"}
      /\ Head(Bail(s)).k \notin Pauses \cup {"inline", "resched"}
  BY <1>3 DEF Fins, Pauses
<1> QED BY <1>1, <1>3, <1>4, <1>5

(* The lists that an operation is taken off, and the callbacks.             *)
LEMMA OffList ==
    ASSUME Inv, Book, fiber \in Owners, NEW l \in Lists, Top.x = l, ops' = [ops EXCEPT ![l] = Unlink(ops[l], fiber)]
    PROVE  \A k \in Lists : Single(ops'[k], Owners) /\ ToSet(ops'[k]) = ToSet(ops[k]) \ {fiber}
<1>1. /\ ops \in [Lists -> Seq(Begun \cup {Root})] /\ \A k \in Lists : ops[k] \in Seq(Owners)
  <2>1. Begun \cup {Root} \subseteq Owners
    BY DEF Begun, Owners
  <2> QED BY <2>1, SeqMonotonic DEF Inv, OpsOK
<1> SUFFICES ASSUME NEW k \in Lists PROVE Single(ops'[k], Owners) /\ ToSet(ops'[k]) = ToSet(ops[k]) \ {fiber}
  OBVIOUS
<1>2. Single(ops[k], Owners) /\ ops[k] \in Seq(Owners)
  BY <1>1 DEF Book, QueuedOK
<1>3. CASE k = l
  <2>1. ops'[k] = RemoveFirst(ops[k], fiber)
    BY <1>1, <1>3 DEF Unlink
  <2>2. Single(RemoveFirst(ops[k], fiber), Owners) /\ ToSet(RemoveFirst(ops[k], fiber)) = ToSet(ops[k]) \ {fiber}
    BY <1>2, OnceRemove
  <2> QED BY <2>1, <2>2
<1>4. CASE k # l
  <2>1. ops'[k] = ops[k]
    BY <1>1, <1>4
  <2>2. fiber \notin ToSet(ops[k])
    BY <1>4 DEF Book, QueuedOK, WaitsFor, Top
  <2> QED BY <1>2, <2>1, <2>2
<1> QED BY <1>3, <1>4

(* await_val, after the block.                                              *)
LEMMA BookResumeAwait ==
    ASSUME Inv, Inv', Book, ResumeAwait
    PROVE  Book'
<1>1. /\ Top.k = "await" /\ Top.k \in Waits
      /\ UNCHANGED <<fiber, fibers, taskVars, readyVars, callbacks, issued, stopVars>>
  BY DEF ResumeAwait, Waits
<1>2. /\ Top.o = fiber /\ fiber \in Owners /\ Top.x \in Lists
      /\ Total(stack[fiber]) = Total(Rest) + One("none", Top, Head(Rest))
      /\ Total(Rest) \in Int /\ One("none", Top, Head(Rest)) \in Int
  BY <1>1, BelowWait
<1>3. op \in [Owners -> OpRecord] /\ busy \in Int
  BY DEF Inv, OpsOK, RestOK
<1>4. caller' = IF fiber = Root THEN NoFiber ELSE caller
  BY <1>2 DEF ResumeAwait, LeaveLoop
<1>5. Single(callbacks', Owners) /\ ToSet(callbacks') = ToSet(callbacks) \ {fiber}
  <2>1. fiber \notin ToSet(callbacks)
    BY <1>1 DEF Book, QueuedOK, Top
  <2> QED BY <1>1, <2>1 DEF Book, QueuedOK
<1>6. UNCHANGED <<fiber, fibers, spawned, disposed, status, ready, stopped, uvstop, closed>>
  BY <1>1 DEF taskVars, readyVars, stopVars
<1>7. CASE stopped # {}
  <2>1. /\ ops' = [ops EXCEPT ![Top.x] = Unlink(ops[Top.x], fiber)] /\ op' = [op EXCEPT ![fiber] = NoOp]
        /\ Goto(Bail(Rest))
    BY <1>2, <1>7 DEF ResumeAwait, DropOp
  <2>2. \A k \in Lists : Single(ops'[k], Owners) /\ ToSet(ops'[k]) = ToSet(ops[k]) \ {fiber}
    BY <1>2, <2>1, OffList
  <2>3. /\ Form(Bail(Rest), fiber, spawned) /\ Same(Bail(Rest), stack[fiber])
        /\ Head(Bail(Rest)).k \notin Pauses \cup {"inline", "resched"}
    <3>1. "exit" \in Outcomes
      BY DEF Outcomes
    <3> QED BY <1>1, <3>1, AfterWait
  <2>4. PICK r : r = Bail(Rest)
    OBVIOUS
  <2>5. GivesUp(r)
    BY <1>4, <1>5, <1>6, <1>7, <2>1, <2>2, <2>3, <2>4 DEF GivesUp
  <2> QED BY <1>1, <1>2, <2>5, GivenUpBook
<1>8. CASE stopped = {}
  <2>1. /\ op' = [op EXCEPT ![fiber] = IF @.status = "RUNNING" THEN @ ELSE NoOp]
        /\ Goto(Deliver(HowOf(op[fiber].status), Rest))
        /\ busy' = busy - Weight(Head(Rest).o)
        /\ ops' = ops
    BY <1>2, <1>8 DEF ResumeAwait
  <2>2. op[fiber].status # "RUNNING" /\ ~op[fiber].cancelled
    BY <1>1, <1>2, <1>8 DEF Book, QueuedOK, OpOK, Top
  <2>3. op' = [op EXCEPT ![fiber] = NoOp]
    BY <1>2, <1>3, <2>1, <2>2
  <2>4. \A k \in Lists : Single(ops'[k], Owners) /\ ToSet(ops'[k]) = ToSet(ops[k]) \ {fiber}
    <3>1. \A k \in Lists : fiber \notin ToSet(ops[k])
      BY <2>2 DEF Book, QueuedOK
    <3> QED BY <2>1, <3>1 DEF Book, QueuedOK
  <2>5. PICK how \in Outcomes : how = HowOf(op[fiber].status)
    BY DEF HowOf, Outcomes
  <2>6. /\ Form(Deliver(how, Rest), fiber, spawned) /\ Same(Deliver(how, Rest), stack[fiber])
        /\ Head(Deliver(how, Rest)).k \notin Pauses \cup {"inline", "resched"}
        /\ Total(Deliver(how, Rest)) = Total(Rest)
    BY <1>1, AfterWait
  <2>7. PICK r : r = Deliver(how, Rest)
    OBVIOUS
  <2>8. busy' = busy + Total(r) - Total(stack[fiber])
    <3>1. One("none", Top, Head(Rest)) = Weight(Head(Rest).o)
      BY <1>1 DEF One, Counts, Weight
    <3>2. Total(r) = Total(Rest)
      BY <2>6, <2>7
    <3>3. PICK n \in Int, w \in Int : n = Total(Rest) /\ w = Weight(Head(Rest).o)
      BY <1>2, <3>1
    <3>4. Total(stack[fiber]) = n + w /\ Total(r) = n /\ busy' = busy - w
      BY <1>2, <2>1, <3>1, <3>2, <3>3
    <3> QED BY <1>3, <3>3, <3>4
  <2>9. Goto(r) /\ Form(r, fiber, spawned) /\ Same(r, stack[fiber]) /\ Head(r).k \notin Pauses \cup {"inline", "resched"}
    BY <2>1, <2>5, <2>6, <2>7
  <2>10. GivesUp(r)
    BY <1>4, <1>5, <1>6, <2>3, <2>4, <2>8, <2>9 DEF GivesUp
  <2> QED BY <1>1, <1>2, <2>10, GivenUpBook
<1> QED BY <1>7, <1>8

(* async_await_op, after the block.                                         *)
LEMMA BookResumeOp ==
    ASSUME Inv, Inv', Book, ResumeOp
    PROVE  Book'
<1>1. /\ Top.k = "wait" /\ Top.k \in Waits
      /\ callbacks' = RemoveFirst(callbacks, fiber)
      /\ ops' = [ops EXCEPT ![Top.x] = Unlink(ops[Top.x], fiber)]
      /\ op' = [op EXCEPT ![fiber] = NoOp]
      /\ caller' = IF fiber = Root THEN NoFiber ELSE caller
      /\ UNCHANGED <<fiber, fibers, taskVars, readyVars, issued, stopVars>>
  BY DEF ResumeOp, Waits, Unlink, DropOp, LeaveLoop
<1>2. /\ fiber \in Owners /\ Top.x \in Lists
      /\ Form(Rest, fiber, spawned) /\ Same(Rest, stack[fiber]) /\ Head(Rest).k \in Callers
      /\ Total(stack[fiber]) = Total(Rest) + One("none", Top, Head(Rest))
      /\ Total(Rest) \in Int /\ One("none", Top, Head(Rest)) \in Int
  BY <1>1, BelowWait
<1>3. busy \in Int
  BY DEF Inv, RestOK
<1>4. Single(callbacks', Owners) /\ ToSet(callbacks') = ToSet(callbacks) \ {fiber}
  <2>1. callbacks \in Seq(Owners) /\ Single(callbacks, Owners)
    <3>1. Begun \cup {Root} \subseteq Owners
      BY DEF Begun, Owners
    <3> QED BY <3>1, SeqMonotonic DEF Inv, OpsOK, Book, QueuedOK
  <2>2. Single(RemoveFirst(callbacks, fiber), Owners) /\ ToSet(RemoveFirst(callbacks, fiber)) = ToSet(callbacks) \ {fiber}
    BY <2>1, OnceRemove
  <2> QED BY <1>1, <2>2
<1>5. UNCHANGED <<fiber, fibers, spawned, disposed, status, ready, stopped, uvstop, closed>>
  BY <1>1 DEF taskVars, readyVars, stopVars
<1>6. \A k \in Lists : Single(ops'[k], Owners) /\ ToSet(ops'[k]) = ToSet(ops[k]) \ {fiber}
  BY <1>1, <1>2, OffList
<1>7. PICK r : /\ Goto(r) /\ Form(r, fiber, spawned) /\ Same(r, stack[fiber])
               /\ Head(r).k \notin Pauses \cup {"inline", "resched"}
               /\ stopped = {} => busy' = busy + Total(r) - Total(stack[fiber])
  <2>1. CASE stopped # {}
    <3>1. Goto(Bail(Rest))
      BY <2>1 DEF ResumeOp
    <3>2. "exit" \in Outcomes
      BY DEF Outcomes
    <3>3. /\ Form(Bail(Rest), fiber, spawned) /\ Same(Bail(Rest), stack[fiber])
          /\ Head(Bail(Rest)).k \notin Pauses \cup {"inline", "resched"}
      BY <1>1, <3>2, AfterWait
    <3> QED BY <2>1, <3>1, <3>3
  <2>2. CASE stopped = {}
    <3>1. Goto(Rest) /\ busy' = IF Top.x = Pending THEN busy ELSE busy - Weight(Top.o)
      BY <2>2 DEF ResumeOp, Leave
    <3>2. Head(Rest).k \notin Pauses \cup {"inline", "resched"}
      BY <1>2 DEF Callers, Pauses
    <3>3. busy' = busy - One("none", Top, Head(Rest))
      BY <1>1, <1>3, <3>1 DEF One, Counts, Weight
    <3>4. PICK n \in Int, w \in Int : n = Total(Rest) /\ w = One("none", Top, Head(Rest))
      BY <1>2
    <3>5. Total(stack[fiber]) = n + w /\ Total(Rest) = n /\ busy' = busy - w
      BY <1>2, <3>3, <3>4
    <3>6. busy' = busy + Total(Rest) - Total(stack[fiber])
      BY <1>3, <3>4, <3>5
    <3> QED BY <1>2, <3>1, <3>2, <3>6
  <2> QED BY <2>1, <2>2
<1>8. GivesUp(r)
  BY <1>1, <1>4, <1>5, <1>6, <1>7 DEF GivesUp
<1> QED BY <1>1, <1>2, <1>8, GivenUpBook
-------------------------------------------------------------------------------
(* dispatch_tasks takes the head of the ready queue.                        *)

(* It runs on the fiber of the event loop, which nobody has resumed.        *)
LEMMA Dispatching ==
    ASSUME Inv, Book, Top.k \in {"dispatch", "loop"}
    PROVE  /\ fiber = Runner /\ fiber \in Fiber /\ fibers = <<>> /\ Gets = {fiber} /\ Root \notin Gets /\ caller = Root
           /\ fiber \notin Owners /\ fiber # Root
           /\ Top.k \notin Waits /\ Top.k # "end" /\ Top.k # "done" /\ Top.k \notin Pauses \cup {"end", "inline", "resched"}
           /\ Top.k \notin Ended /\ Top.k # "ret" /\ Takes(stack[fiber])
           /\ WellFormed(stack[fiber], Begun, fiber) /\ Form(stack[fiber], fiber, spawned)
<1>1. /\ Top.k \notin Waits /\ Top.k # "end" /\ Top.k # "done" /\ Top.k \notin Pauses \cup {"end", "inline", "resched"}
      /\ Top.k \notin Ended /\ Top.k # "ret"
  BY DEF Waits, Pauses, Ended, Fins
<1>2. fiber = Runner
  BY <1>1, TopStands
<1>3. fibers = <<>> /\ Gets = {fiber}
  BY <1>2, NoElements DEF Book, LineOK, Gets
<1>4. fiber \notin Owners /\ fiber # Root
  BY <1>2, NamesAssumption DEF Owners
<1>5. caller = Root
  <2>1. caller \in {Root, NoFiber} /\ Root \notin Gets
    BY <1>3, <1>4 DEF Inv, RestOK
  <2> QED BY <2>1 DEF Book, CallerOK
<1> QED BY <1>1, <1>2, <1>3, <1>4, <1>5, Here DEF Takes, Uncovered, Top

(* What is left of the ready list.                                          *)
LEMMA ReadyLeft ==
    ASSUME Inv, Book, ready # <<>>
    PROVE  /\ Head(ready) \in ToSet(ready)
           /\ ToSet(Tail(ready)) \subseteq ToSet(ready) /\ Single(Tail(ready), Deferred)
           /\ Head(ready) \in Deferred => Head(ready) \notin ToSet(Tail(ready))
<1>1. ready \in Seq(spawned \cup Fresh \cup {Root}) /\ Single(ready, Deferred)
  BY DEF Inv, ReadyOK, Book, DeferredOK
<1>2. /\ Single(Tail(ready), Deferred)
      /\ \A i \in DOMAIN Tail(ready) : i + 1 \in DOMAIN ready /\ Tail(ready)[i] = ready[i + 1]
      /\ Head(ready) \in Deferred => \A i \in DOMAIN Tail(ready) : Tail(ready)[i] # Head(ready)
  BY <1>1, SingleTail
<1>3. Head(ready) \in ToSet(ready)
  BY <1>1, NoElements
<1> QED BY <1>2, <1>3 DEF ToSet

(* A fiber n that was enqueued gets control; the loop goes on with stack r. *)
LEMMA BookResumes ==
    ASSUME Inv, Inv', Wakes, Book, Top.k = "dispatch", ready # <<>>, ready' = Tail(ready),
           NEW n \in spawned \cup {Root}, n = Head(ready), Switch(n), Head(stack[n]).k \in Pauses \cup Waits,
           NEW r, Goto(r), Form(r, fiber, spawned), Same(r, stack[fiber]), Total(r) = Total(stack[fiber]),
           Head(r).k \notin Stopping \cup {"inline"} \cup Waits, Head(r).k = "resched" => Head(r).x = n,
           \A t \in Awaitables : Settled(t)' <=> Settled(t), Begun \subseteq Begun',
           UNCHANGED <<spawned, disposed, opVars, loopVars, stopVars>>
    PROVE  Book'
<1>1. /\ fiber = Runner /\ fiber \in Fiber /\ fibers = <<>> /\ Gets = {fiber} /\ Root \notin Gets /\ caller = Root
      /\ fiber \notin Owners /\ fiber # Root
      /\ Top.k \notin Waits /\ Top.k # "end" /\ Top.k # "done" /\ Top.k \notin Pauses \cup {"end", "inline", "resched"}
      /\ WellFormed(stack[fiber], Begun, fiber) /\ Head(stack[fiber]).k # "inline"
  BY Dispatching DEF Top
<1>2. /\ Mine(r) /\ Finals' = Finals /\ \A t \in spawned : Settled(t)' <=> Settled(t)
  BY <1>1, GotoMine DEF Finals, Inv, StatusOK, Begun, Awaitables
<1>3. /\ FormsOK /\ TasksOK /\ LineOK /\ CallerOK /\ QueuedOK /\ DeferredOK /\ StageOK /\ BusyBalance
  BY DEF Book
<1>4. /\ UNCHANGED <<spawned, disposed, op, ops, callbacks, caller, busy, stopped, uvstop, closed>>
  BY DEF opVars, loopVars, stopVars
<1>5. n \in Fiber /\ n # fiber /\ n \in Owners /\ n # Runner /\ n \notin ToSet(fibers)
  <2>1. n \in Owners
    BY DEF Inv, StatusOK, Begun, Owners
  <2> QED BY <1>1, <2>1, NoElements DEF Fiber
<1>6. n \in Deferred => Deferring(n) /\ n \notin ToSet(ready')
  BY <1>3, ReadyLeft DEF DeferredOK
<1>7. LineOK' /\ Gets' = Gets \cup {n} /\ fiber' = n
  <2>1. stack'[fiber] = r /\ (\A f \in Fiber : f # fiber /\ f # n => stack'[f] = stack[f]) /\ stack'[n] = stack[n]
    BY <1>2, <1>5 DEF Mine
  <2>2. Head(stack'[n]).k # "resched"
    BY <2>1 DEF Pauses, Waits
  <2> QED BY <1>1, <1>3, <1>5, <2>1, <2>2, LineSwitch
<1>8. FormsOK'
  <2>1. Form(r, fiber, spawned') /\ spawned \subseteq spawned' /\ Finals \subseteq Finals' /\ Head(r).k # "inline"
    BY <1>2, <1>4
  <2> QED BY <1>2, <1>3, <2>1, FormsStep
<1>9. TasksOK'
  <2>1. \A t \in spawned : t = fiber /\ Settled(t)' => r[Len(r)].k = "end"
    BY <1>2, <1>3 DEF TasksOK, Same
  <2>2. \A t \in disposed \cap spawned : t \notin Gets'
    <3>1. n \notin disposed \cap spawned
      <4>1. CASE n = Root
        BY <4>1, NamesAssumption DEF Inv, StatusOK, Begun
      <4>2. CASE n # Root
        <5>1. n \in spawned /\ Deferring(n)
          BY <1>6, <4>2 DEF Deferred
        <5>2. Head(stack[n]).k \in Waits
          BY <5>1 DEF Deferring, Waits
        <5> QED BY <1>5, <5>1, <5>2, BlockedAlive
      <4> QED BY <4>1, <4>2
    <3> QED BY <1>3, <1>7, <3>1 DEF TasksOK
  <2>3. stopped \subseteq stopped' /\ disposed' = disposed /\ UNCHANGED spawned
    BY <1>4
  <2> QED BY <1>2, <1>3, <2>1, <2>2, <2>3, TasksStep
<1>10. CallerOK'
  <2>1. Gets \ {fiber} \subseteq Gets'
    BY <1>7
  <2> QED BY <1>1, <1>2, <1>3, <1>4, <2>1, CallerStep
<1>11. QueuedOK'
  <2>1. stopped' = {} /\ fiber' \in Owners => op[fiber'].status # "RUNNING"
    <3>1. stopped = {} => n \in Deferred
      BY DEF Deferred
    <3> QED BY <1>4, <1>6, <1>7, <3>1 DEF Deferring
  <2>2. Head(r).k \notin Waits /\ Single(callbacks, Owners)
    BY <1>3 DEF QueuedOK
  <2> QED BY <1>1, <1>2, <1>3, <1>4, <2>1, <2>2, QueuedQuiet
<1>12. DeferredOK'
  <2>1. stopped' = {} => ~uvstop'
    BY <1>3, <1>4 DEF DeferredOK
  <2>2. \A o \in ToSet(ready') \cap Deferred : o \in ToSet(ready) /\ (o = fiber' => fiber' = fiber)
    BY <1>6, <1>7, ReadyLeft
  <2>3. Single(ready', Deferred)
    BY ReadyLeft
  <2> QED BY <1>2, <1>3, <1>4, <2>1, <2>2, <2>3, DeferredQuiet
<1>13. StageOK'
  <2>1. CASE stopped # {}
    BY <1>4, <2>1 DEF StageOK
  <2>2. CASE stopped = {}
    <3>1. fiber = Root => StagesOf(r) = AtStage
      BY <1>1
    <3>2. AtStage # {} /\ Root \in Gets' /\ Runner \in ToSet(fibers') => Root \in Gets /\ Runner \in ToSet(fibers)
      <4>1. ASSUME n = Root PROVE AtStage = {}
        <5>1. Deferring(n)
          BY <1>6, <2>2, <4>1 DEF Deferred
        <5>2. Head(stack[n]).k \in Waits
          BY <5>1 DEF Deferring, Waits
        <5> QED BY <1>5, <4>1, <5>2, BlockedAlive
      <4> QED BY <1>1, <1>7, <4>1
    <3>3. \A l \in Exts \cup Queues : closed /\ ops[l] = <<>> => ops'[l] = <<>>
      BY <1>4
    <3>4. stopped \subseteq stopped' /\ (closed => closed')
      BY <1>4
    <3> QED BY <1>1, <1>2, <1>3, <3>1, <3>2, <3>3, <3>4, StageStep
  <2> QED BY <2>1, <2>2
<1>14. BusyBalance'
  <2>1. Head(r).k # "inline" /\ stack'[fiber] = r /\ \A f \in Fiber \ {fiber} : Loaded(f)' = Loaded(f)
    BY <1>2 DEF Mine, Loaded
  <2>2. stopped' = {} => stopped = {} /\ busy' = busy + Total(r) - Total(stack[fiber])
    <3>1. Load("none", stack[fiber]) \in Nat
      BY <1>1, LoadAbove
    <3>2. PICK k \in Nat : k = Total(stack[fiber])
      BY <3>1 DEF Total
    <3>3. busy \in Int
      BY DEF Inv, RestOK
    <3>4. busy' = busy /\ Total(r) = k
      BY <1>4, <3>2
    <3> QED BY <1>4, <3>2, <3>3, <3>4
  <2> QED BY <1>1, <1>3, <2>1, <2>2, BusyChange
<1> QED BY <1>7, <1>8, <1>9, <1>10, <1>11, <1>12, <1>13, <1>14 DEF Book

(* A frame of reschedule_task on the stack of the running fiber.            *)
LEMMA ReschedForm ==
    ASSUME Inv, Book, Top.k \notin Ended, Top.k # "ret", Top.k # "end", NEW P, spawned \subseteq P,
           NEW t \in Tasks, t \in P, t # fiber
    PROVE  /\ Form(<<Resched(t)>> \o stack[fiber], fiber, P)
           /\ Same(<<Resched(t)>> \o stack[fiber], stack[fiber])
           /\ Total(<<Resched(t)>> \o stack[fiber]) = Total(stack[fiber])
           /\ Head(<<Resched(t)>> \o stack[fiber]) = Resched(t)
           /\ Resched(t).k = "resched" /\ Resched(t).x = t
<1>1. PICK fr \in Frames : fr = Resched(t) /\ fr.k = "resched" /\ fr.x = t /\ fr.o = Root
  <2>1. Resched(t) \in Frames
    BY DEF Resched, Frame, Frames, Kinds, Owners
  <2> QED BY <2>1 DEF Resched, Frame
<1>2. /\ fiber \in Fiber /\ WellFormed(stack[fiber], Begun, fiber)
      /\ stack[fiber] \in Seq(Frames) /\ stack[fiber] # <<>>
      /\ Form(stack[fiber], fiber, spawned) /\ Head(stack[fiber]) = Top /\ Top.k # "inline"
  BY Here DEF Top
<1>3. Form(stack[fiber], fiber, P)
  BY <1>2, FormGrow
<1>4. /\ Stands(fr, Top, fiber, P) /\ Takes(stack[fiber]) /\ fr.k \in Resumers /\ fr.k \notin Stages
      /\ fr.k \notin {"await", "wait", "inline"} /\ ~Uncovered(fr, Top)
  BY <1>1, <1>2 DEF Stands, Fins, Callers, Resumers, Stages, Takes, Uncovered
<1>5. Form(<<fr>> \o stack[fiber], fiber, P)
  BY <1>2, <1>3, <1>4, FormPush
<1>6. Same(<<fr>> \o stack[fiber], stack[fiber])
  BY <1>2, <1>4, SamePush
<1>7. Head(<<fr>> \o stack[fiber]) = fr
  BY <1>2, Pushed
<1>8. Total(<<fr>> \o stack[fiber]) = Total(stack[fiber])
  BY <1>2, <1>4, TotalPush
<1> QED BY <1>1, <1>5, <1>6, <1>7, <1>8

(* The main script is resumed.                                              *)
LEMMA BookDispatchRoot ==
    ASSUME Inv, Inv', Wakes, Book, Top.k = "dispatch", ready # <<>>, ready' = Tail(ready), Root = Head(ready),
           Switch(caller), UNCHANGED <<stack, taskVars, idle, opVars, loopVars, stopVars>>
    PROVE  Book'
<1>1. /\ Top.k \notin Waits /\ Top.k \notin Pauses \cup {"end", "inline", "resched"} /\ caller = Root
      /\ Form(stack[fiber], fiber, spawned) /\ Head(stack[fiber]) = Top
  BY Dispatching DEF Top
<1>2. Head(stack[Root]).k \in Pauses \cup Waits
  BY <1>1 DEF Book, CallerOK, Blocked, Pauses
<1>3. PICK r : r = stack[fiber]
  OBVIOUS
<1>4. /\ Goto(r) /\ Form(r, fiber, spawned) /\ Same(r, stack[fiber]) /\ Total(r) = Total(stack[fiber])
      /\ Head(r).k \notin Stopping \cup {"inline"} \cup Waits /\ Head(r).k # "resched"
  BY <1>1, <1>3, GotoSame DEF Same, Stopping
<1>5. (\A t \in Awaitables : Settled(t)' <=> Settled(t)) /\ Begun \subseteq Begun' /\ UNCHANGED <<spawned, disposed>>
  BY DEF taskVars, Settled, Begun
<1>6. PICK n \in spawned \cup {Root} : n = Root
  OBVIOUS
<1>7. n = Head(ready) /\ Switch(n) /\ Head(stack[n]).k \in Pauses \cup Waits
  BY <1>1, <1>2, <1>6
<1> QED BY <1>4, <1>5, <1>7, BookResumes

(* A task is resumed.                                                       *)
LEMMA BookDispatchResume ==
    ASSUME Inv, Inv', Wakes, Book, Top.k = "dispatch", ready # <<>>, ready' = Tail(ready), NEW t \in spawned, t = Head(ready),
           status' = [status EXCEPT ![t] = "RUNNING"], Goto(<<Resched(t)>> \o stack[fiber]), Switch(t),
           UNCHANGED <<spawned, runs, disposed, idle, opVars, loopVars, stopVars>>
    PROVE  Book'
<1>1. /\ Top.k \notin Ended /\ Top.k # "ret" /\ Top.k # "end" /\ fiber = Runner
  BY Dispatching
<1>2. t \in Tasks /\ t \in Owners /\ t # fiber /\ t \in Awaitables
  BY <1>1, NamesAssumption DEF Inv, StatusOK, Begun, Owners, Awaitables
<1>3. Deferring(t)
  <2>1. t \in ToSet(ready) \cap Deferred
    BY ReadyLeft DEF Deferred
  <2> QED BY <2>1 DEF Book, DeferredOK
<1>4. Head(stack[t]).k \in Waits
  BY <1>3 DEF Deferring, Waits
<1>5. ~Settled(t)
  BY <1>2, <1>4, BlockedAlive
<1>6. (\A u \in Awaitables : Settled(u)' <=> Settled(u)) /\ Begun \subseteq Begun'
  <2>1. status'[t] = "RUNNING" /\ \A u : u # t => status'[u] = status[u]
    BY <1>2 DEF Inv, StatusOK
  <2>2. \A u : status'[u] \in {"FINISHED", "FAILED"} <=> status[u] \in {"FINISHED", "FAILED"}
    BY <1>5, <2>1 DEF Settled
  <2> QED BY <2>1, <2>2 DEF Begun, Settled
<1>7. PICK r : r = <<Resched(t)>> \o stack[fiber]
  OBVIOUS
<1>8. /\ Form(r, fiber, spawned) /\ Same(r, stack[fiber]) /\ Total(r) = Total(stack[fiber])
      /\ Head(r).k = "resched" /\ Head(r).x = t
  BY <1>1, <1>2, <1>7, ReschedForm
<1>9. Goto(r) /\ Head(r).k \notin Stopping \cup {"inline"} \cup Waits
  BY <1>7, <1>8 DEF Stopping, Pauses, Waits
<1> QED BY <1>4, <1>6, <1>8, <1>9, BookResumes

(* Only owners wait on a list or have a tick callback.                      *)
LEMMA QueuedOwners ==
    ASSUME Inv
    PROVE  /\ \A l \in Lists : \A u \in ToSet(ops[l]) : u \in Owners
           /\ \A u \in ToSet(callbacks) : u \in Owners
BY DEF Inv, OpsOK, Begun, Owners, ToSet

(* A task is started.                                                       *)
LEMMA BookDispatchStart ==
    ASSUME Inv, Inv', Wakes, Book, Top.k = "dispatch", ready # <<>>, ready' = Tail(ready),
           NEW t \in Tasks \ spawned, t = Head(ready), stopped = {}, spawned' = spawned \cup {t},
           status' = [status EXCEPT ![t] = "RUNNING"],
           stack' = [stack EXCEPT ![fiber] = <<Resched(t)>> \o @, ![t] = <<Code(t), Body(t)>>],
           Switch(t), UNCHANGED <<disposed, idle, opVars, loopVars, stopVars>>
    PROVE  Book'
<1>1. /\ fiber = Runner /\ fiber \in Fiber /\ fibers = <<>> /\ Gets = {fiber} /\ Root \notin Gets /\ caller = Root
      /\ fiber \notin Owners /\ fiber # Root /\ Top.k # "end"
      /\ Top.k \notin Ended /\ Top.k # "ret"
      /\ WellFormed(stack[fiber], Begun, fiber) /\ Head(stack[fiber]).k # "inline"
  BY Dispatching DEF Top
<1>2. /\ t \in Owners /\ t \in Fiber /\ t # fiber /\ t # Runner /\ t # Root /\ t \in Awaitables /\ t \notin ToSet(fibers)
  BY <1>1, NoElements, NamesAssumption DEF Owners, Fiber, Awaitables
<1>3. t \in Fresh /\ t \notin Begun /\ t \notin ToSet(ready')
  <2>1. t \in Fresh /\ \A i \in DOMAIN Tail(ready) : Tail(ready)[i] # t
    BY <1>2, TakeReady
  <2> QED BY <2>1 DEF ToSet, Fresh, Begun
<1>4. /\ FormsOK /\ TasksOK /\ LineOK /\ CallerOK /\ QueuedOK /\ DeferredOK /\ StageOK /\ BusyBalance
  BY DEF Book
<1>5. /\ UNCHANGED <<disposed, op, ops, callbacks, caller, busy, stopped, uvstop, closed>>
  BY DEF opVars, loopVars, stopVars
<1>6. /\ status'[t] = "RUNNING" /\ ~Settled(t) /\ ~Settled(t)' /\ (\A u : Settled(u)' <=> Settled(u)) /\ Finals' = Finals
      /\ Begun \subseteq Begun'
  <2>1. status'[t] = "RUNNING" /\ \A u : u # t => status'[u] = status[u]
    BY <1>2 DEF Inv, StatusOK
  <2>2. status[t] = "INIT"
    BY <1>3 DEF Fresh
  <2>3. \A u : status'[u] \in {"FINISHED", "FAILED"} <=> status[u] \in {"FINISHED", "FAILED"}
    BY <2>1, <2>2
  <2> QED BY <2>1, <2>2, <2>3 DEF Settled, Finals, Begun
<1>7. PICK r : r = <<Resched(t)>> \o stack[fiber]
  OBVIOUS
<1>8. PICK s : s = <<Code(t), Body(t)>>
  OBVIOUS
<1>9. /\ stack'[fiber] = r /\ stack'[t] = s /\ \A f \in Fiber : f # fiber /\ f # t => stack'[f] = stack[f]
  BY <1>1, <1>2, <1>7, <1>8 DEF Inv, StacksOK
<1>10. /\ Form(r, fiber, spawned') /\ Same(r, stack[fiber]) /\ Total(r) = Total(stack[fiber])
       /\ Head(r).k = "resched" /\ Head(r).x = t
  <2>1. t \in spawned' /\ spawned \subseteq spawned'
    OBVIOUS
  <2> QED BY <1>1, <1>2, <1>7, <2>1, ReschedForm
<1>11. /\ Head(s).k = "code" /\ DOMAIN s = {1, 2} /\ s[1] = Code(t) /\ s[2] = Body(t)
       /\ s[1].k = "code" /\ s[1].o = t /\ s[2].k = "body" /\ s[2].x = t
  BY <1>8 DEF Code, Body, Frame
<1>12. Form(s, t, spawned')
  <2>1. Stands(s[1], s[2], t, spawned')
    BY <1>11 DEF Stands, Fins, Callers, Holders
  <2>2. Stands(s[2], s[3], t, spawned')
    BY <1>2, <1>11 DEF Stands, Fins, Callers
  <2>3. /\ s[1].k \notin Ended \cup Plain \cup {"ret", "inline"} /\ s[2].k \notin Ended \cup Plain \cup {"ret", "inline"}
    BY <1>11 DEF Ended, Fins, Pauses, Plain, Stages
  <2>4. ASSUME NEW i \in DOMAIN s
        PROVE  Stands(s[i], s[i + 1], t, spawned') /\ s[i].k \notin Ended \cup Plain \cup {"ret", "inline"}
    <3>1. i = 1 \/ i = 2
      BY <1>11
    <3>2. 1 + 1 = 2 /\ 2 + 1 = 3
      OBVIOUS
    <3> QED BY <2>1, <2>2, <2>3, <3>1, <3>2
  <2> QED BY <2>4 DEF Form, Uncovered
<1>13. stack[t] = <<End>> /\ Head(stack[t]).k = "end"
  BY DEF Wakes, ShapesOK, End, Frame
<1>14. LineOK' /\ Gets' = Gets \cup {t} /\ fiber' = t /\ fiber \in ToSet(fibers')
  <2>1. Head(stack'[t]).k # "resched" /\ Head(r).k \notin Stopping
    BY <1>9, <1>10, <1>11 DEF Stopping, Pauses
  <2> QED BY <1>1, <1>2, <1>4, <1>9, <1>10, <2>1, LineSwitch
<1>15. FormsOK'
  <2> SUFFICES ASSUME NEW f \in Fiber
               PROVE  Form(stack'[f], f, spawned') /\ Head(stack'[f]).k # "inline"
    BY DEF FormsOK
  <2>1. CASE f = fiber
    BY <1>6, <1>9, <1>10, <2>1
  <2>2. CASE f = t
    BY <1>6, <1>9, <1>11, <1>12, <2>2
  <2>3. CASE f # fiber /\ f # t
    <3>1. stack'[f] = stack[f] /\ Form(stack[f], f, spawned) /\ Head(stack[f]).k # "inline" /\ spawned \subseteq spawned'
      BY <1>4, <1>9, <2>3 DEF FormsOK
    <3> QED BY <1>6, <3>1, FormGrow
  <2> QED BY <2>1, <2>2, <2>3
<1>16. TasksOK'
  <2>1. t \notin disposed /\ \A u \in spawned : u \in Fiber /\ u # fiber /\ u # t
    BY <1>1, <1>3, <1>4 DEF TasksOK, Inv, StatusOK, Begun, Owners, Fiber
  <2>2. ASSUME NEW u \in spawned', Settled(u)' PROVE stack'[u][Len(stack'[u])].k = "end"
    <3>1. u \in spawned /\ Settled(u)
      BY <1>6, <2>2
    <3> QED BY <1>4, <1>9, <2>1, <3>1 DEF TasksOK
  <2>3. ASSUME NEW u \in disposed' \cap spawned' PROVE Settled(u)' /\ u \notin Gets'
    <3>1. u \in disposed \cap spawned /\ u # t
      BY <1>5, <2>1, <2>3
    <3>2. Settled(u) /\ u \notin Gets
      BY <1>4, <3>1 DEF TasksOK
    <3> QED BY <1>6, <1>14, <3>1, <3>2
  <2>4. disposed' \subseteq Begun'
    BY <1>4, <1>5, <1>6 DEF TasksOK
  <2> QED BY <2>2, <2>3, <2>4 DEF TasksOK
<1>17. stack'[Root] = stack[Root]
  BY <1>1, <1>2, <1>9, LineFibers
<1>18. CallerOK'
  BY <1>1, <1>4, <1>5, <1>14, <1>17 DEF CallerOK, Blocked
<1>19. /\ \A u \in Owners : u # t => stack'[u] = stack[u]
       /\ \A l \in Lists : \A u \in ToSet(ops[l]) : u \in Owners
       /\ \A u \in ToSet(callbacks) : u \in Owners
  <2>1. \A u \in Owners : u # t => stack'[u] = stack[u]
    BY <1>1, <1>9 DEF Fiber
  <2>2. /\ \A l \in Lists : \A u \in ToSet(ops[l]) : u \in Owners
        /\ \A u \in ToSet(callbacks) : u \in Owners
    BY QueuedOwners
  <2> QED BY <2>1, <2>2
<1>20. op[t].status # "RUNNING" /\ ~op[t].cancelled
  BY <1>2, <1>4, <1>13 DEF QueuedOK, OpOK, Waits
<1>21. QueuedOK'
  <2>1. ASSUME NEW l \in Lists, NEW u \in ToSet(ops'[l]) PROVE WaitsFor(u, l)' /\ (op'[u].status = "RUNNING" \/ op'[u].cancelled)
    <3>1. u \in Owners /\ WaitsFor(u, l) /\ (op[u].status = "RUNNING" \/ op[u].cancelled)
      BY <1>4, <1>5, <1>19 DEF QueuedOK
    <3>2. u # t
      BY <1>20, <3>1
    <3> QED BY <1>5, <1>19, <3>1, <3>2 DEF WaitsFor
  <2>2. ASSUME NEW u \in Owners PROVE OpOK(u)'
    <3>1. CASE u = t
      <4>1. Head(stack'[u]).k = "code" /\ op'[u] = op[u]
        BY <1>5, <1>9, <1>11, <3>1
      <4> QED BY <1>20, <3>1, <4>1 DEF OpOK, Waits
    <3>2. CASE u # t
      <4>1. stack'[u] = stack[u] /\ OpOK(u)
        BY <1>4, <1>19, <3>2 DEF QueuedOK
      <4> QED BY <1>5, <4>1 DEF OpOK
    <3> QED BY <3>1, <3>2
  <2>3. ASSUME NEW u \in ToSet(callbacks') PROVE Head(stack'[u]).k = "wait"
    <3>1. u \in Owners /\ Head(stack[u]).k = "wait"
      BY <1>4, <1>5, <1>19 DEF QueuedOK
    <3>2. u # t
      BY <1>13, <3>1
    <3> QED BY <1>19, <3>1, <3>2
  <2>4. Single(callbacks', Owners) /\ (\A l \in Lists : Single(ops'[l], Owners)) /\ op'[fiber'].status # "RUNNING"
    BY <1>4, <1>5, <1>14, <1>20 DEF QueuedOK
  <2> QED BY <2>1, <2>2, <2>3, <2>4 DEF QueuedOK
<1>22. DeferredOK'
  <2>1. Deferred' = Deferred \cup {t} /\ Deferred \subseteq Owners
    BY <1>5 DEF Deferred, Inv, StatusOK, Begun, Owners
  <2>2. /\ ToSet(ready') \subseteq ToSet(ready) /\ Single(ready', Deferred)
    BY ReadyLeft
  <2>3. ASSUME NEW u \in ToSet(ready') \cap Deferred' PROVE Deferring(u)'
    <3>1. u # t /\ u \in ToSet(ready) \cap Deferred /\ u \in Owners
      BY <1>3, <2>1, <2>2, <2>3
    <3>2. Deferring(u) /\ stack'[u] = stack[u]
      BY <1>4, <1>19, <3>1 DEF DeferredOK
    <3> QED BY <1>5, <1>14, <3>1, <3>2 DEF Deferring
  <2>4. Single(ready', Deferred')
    BY <1>3, <2>1, <2>2 DEF Single, ToSet
  <2> QED BY <1>4, <1>5, <2>3, <2>4 DEF DeferredOK
<1>23. StageOK'
  <2>1. AtStage' = AtStage
    BY <1>17 DEF AtStage
  <2>2. Root \notin Gets'
    BY <1>1, <1>2, <1>14
  <2>3. "done" \notin AtStage
    BY <1>1, <1>4, <1>5 DEF StageOK
  <2> QED BY <1>4, <1>5, <2>1, <2>2, <2>3 DEF StageOK
<1>24. BusyBalance'
  <2>1. ASSUME NEW f \in Fiber \ {fiber} PROVE Loaded(f)' = Loaded(f)
    <3>1. CASE f = t
      <4>1. \A a : Counting(a, s) = {}
        <5>1. \A i \in DOMAIN s : s[i].k \in {"code", "body"}
          BY <1>11
        <5> QED BY <5>1 DEF Counting, Counts
      <4>2. \A a : Counting(a, <<End>>) = {}
        <5>1. \A i \in DOMAIN <<End>> : <<End>>[i].k = "end"
          BY DEF End, Frame
        <5> QED BY <5>1 DEF Counting, Counts
      <4>3. stack'[f] = s /\ stack[f] = <<End>>
        BY <1>9, <1>13, <3>1
      <4> QED BY <4>1, <4>2, <4>3 DEF Loaded
    <3>2. CASE f # t
      BY <1>9, <3>2 DEF Loaded
    <3> QED BY <3>1, <3>2
  <2>2. stopped' = {} => stopped = {} /\ busy' = busy + Total(r) - Total(stack[fiber])
    <3>1. Load("none", stack[fiber]) \in Nat
      BY <1>1, LoadAbove
    <3>2. PICK k \in Nat : k = Total(stack[fiber])
      BY <3>1 DEF Total
    <3>3. busy \in Int
      BY DEF Inv, RestOK
    <3>4. busy' = busy /\ Total(r) = k
      BY <1>5, <1>10, <3>2
    <3> QED BY <1>5, <3>2, <3>3, <3>4
  <2>3. Head(r).k # "inline"
    BY <1>10
  <2> QED BY <1>1, <1>4, <1>9, <2>1, <2>2, <2>3, BusyChange
<1> QED BY <1>14, <1>15, <1>16, <1>18, <1>21, <1>22, <1>23, <1>24 DEF Book

(* dispatch_tasks, one round of its loop.                                   *)
LEMMA BookDispatchTask ==
    ASSUME Inv, Inv', Wakes, Book, DispatchTask
    PROVE  Book'
<1>1. /\ Top.k = "dispatch" /\ ready # <<>> /\ ready' = Tail(ready)
      /\ UNCHANGED <<idle, opVars, loopVars, stopVars>>
  BY DEF DispatchTask
<1>2. PICK t : t = Head(ready)
  OBVIOUS
<1>3. CASE t = Root /\ Switch(caller) /\ UNCHANGED <<stack, taskVars>>
  <2>1. Root = Head(ready)
    BY <1>2, <1>3
  <2> QED BY <1>1, <1>3, <2>1, BookDispatchRoot
<1>4. CASE /\ t \in Tasks \ spawned /\ ~MayStart
           /\ disposed' = disposed \cup {t}
           /\ Goto(IF t \in disposed THEN stack[fiber] ELSE <<Trigger(t)>> \o stack[fiber])
           /\ UNCHANGED <<fiber, fibers, status, spawned, runs>>
  <2>1. Goto(stack[fiber]) \/ Goto(<<Trigger(t)>> \o stack[fiber])
    BY <1>4
  <2>2. stopped # {}
    BY <1>4 DEF MayStart
  <2> QED BY <1>1, <1>4, <2>1, <2>2, BookDispose
<1>5. CASE /\ t \in Tasks \ spawned /\ MayStart /\ runs[t] < MaxRuns
           /\ spawned' = spawned \cup {t}
           /\ status' = [status EXCEPT ![t] = "RUNNING"]
           /\ runs' = [runs EXCEPT ![t] = @ + 1]
           /\ stack' = [stack EXCEPT ![fiber] = <<Resched(t)>> \o @, ![t] = <<Code(t), Body(t)>>]
           /\ Switch(t)
           /\ UNCHANGED disposed
  <2>1. stopped = {}
    BY <1>5 DEF MayStart
  <2> QED BY <1>1, <1>2, <1>5, <2>1, BookDispatchStart
<1>6. CASE /\ t \in spawned /\ status' = [status EXCEPT ![t] = "RUNNING"]
           /\ Goto(<<Resched(t)>> \o stack[fiber]) /\ Switch(t)
           /\ UNCHANGED <<spawned, disposed, runs>>
  BY <1>1, <1>2, <1>6, BookDispatchResume
<1> QED BY <1>2, <1>3, <1>4, <1>5, <1>6 DEF DispatchTask
-------------------------------------------------------------------------------
(* uv_run returns.                                                          *)

(* The stack of the main fiber, when it is blocked by an operation.         *)
MainBlocked == Head(stack[Root]).k \in Waits

(* The kind of a frame on a stack.                                          *)
LEMMA KindOf ==
    ASSUME NEW s \in Seq(Frames), NEW i \in DOMAIN s
    PROVE  s[i].k \in Kinds
<1>1. s[i] \in Frames
  OBVIOUS
<1>2. \A fr \in Frames : fr.k \in Kinds
  BY DEF Frames
<1> QED BY <1>1, <1>2, Zenon

(* The lowest PHP code on it is the main script.                            *)
LEMMA MainScript ==
    ASSUME Inv, Wakes, Book, MainBlocked, NEW s, s = stack[Root]
    PROVE  /\ s \in Seq(Frames) /\ Len(s) \in Nat /\ Len(s) - 1 \in DOMAIN s /\ Len(s) > 2
           /\ s[Len(s) - 1].k \in Callers /\ s[Len(s) - 1].o = Root
           /\ s[1].k \in Waits /\ s[1] = Head(s) /\ s[1] \in Frames /\ s[2].k \in Callers /\ 1 \in DOMAIN s /\ 2 \in DOMAIN s
           /\ DOMAIN s = 1 .. Len(s)
<1>1. /\ WellFormed(s, Begun, Root) /\ Form(s, Root, spawned) /\ Shape(s, Root, Guests, spawned)
      /\ Head(s).k \in Waits
  BY LineFibers DEF Inv, StacksOK, Book, FormsOK, Wakes, ShapesOK, MainBlocked
<1>2. /\ s \in Seq(Frames) /\ s # <<>> /\ Head(s) = s[1] /\ s[1] \in Frames /\ DOMAIN s = 1 .. Len(s) /\ Len(s) \in Nat \ {0}
      /\ 1 \in DOMAIN s
  BY <1>1, Popped DEF WellFormed
<1>3. s[1].k \in Waits
  BY <1>1, <1>2
<1>4. /\ 2 \in DOMAIN s /\ s[2].k \in Callers
  <2>1. s[1].k \in Calls => 1 + 1 \in DOMAIN s /\ s[1 + 1].k \in Callers
    BY <1>1, <1>2 DEF WellFormed
  <2>2. 1 + 1 = 2
    OBVIOUS
  <2> QED BY <1>3, <2>1, <2>2 DEF Waits, Calls
<1>5. Len(s) # 2
  <2>1. s[2].k \in Bottom <=> 2 = Len(s)
    BY <1>1, <1>4 DEF WellFormed
  <2> QED BY <1>4, <2>1 DEF Callers, Bottom
<1>6. PICK n \in Nat : n = Len(s) /\ n > 2
  <2>1. \A k \in Nat : 2 \in 1 .. k /\ k # 2 => k > 2
    OBVIOUS
  <2>2. Len(s) \in Nat /\ 2 \in 1 .. Len(s)
    BY <1>2, <1>4
  <2> QED BY <1>5, <2>1, <2>2, Zenon
<1>7. PICK m \in Nat : m = n - 1 /\ m + 1 = n /\ m \in 1 .. n /\ m # n /\ m # 1
  <2>1. \A k \in Nat : k > 2 => \E m \in Nat : m = k - 1 /\ m + 1 = k /\ m \in 1 .. k /\ m # k /\ m # 1
    <3> SUFFICES ASSUME NEW k \in Nat, k > 2 PROVE \E m \in Nat : m = k - 1 /\ m + 1 = k /\ m \in 1 .. k /\ m # k /\ m # 1
      OBVIOUS
    <3> WITNESS k - 1 \in Nat
    <3> QED OBVIOUS
  <2> QED BY <1>6, <2>1, Zenon
<1>8. m \in DOMAIN s /\ n \in DOMAIN s
  BY <1>2, <1>6, <1>7
<1>9. s[n].k \in Bottom /\ s[m].k \notin Bottom
  BY <1>1, <1>6, <1>7, <1>8 DEF WellFormed
<1>10. s[n].k = "main"
  <2>1. Stands(s[n], s[n + 1], Root, spawned)
    BY <1>1, <1>8 DEF Form
  <2> QED BY <1>9, <2>1, NamesAssumption DEF Stands, Bottom
<1>11. s[m].k \in Kinds
  BY <1>2, <1>8, KindOf
<1>12. s[m].k \notin Calls /\ s[m].k \notin Ended /\ s[m].k # "trigger" /\ s[m].k \notin Plain
  <2>1. s[m].k \in Calls => s[m + 1].k \in Callers
    BY <1>1, <1>8 DEF WellFormed
  <2>2. s[n].k \notin Callers
    BY <1>10 DEF Callers
  <2>3. s[m].k \in Ended => m = 1
    BY <1>1, <1>8 DEF Form
  <2>4. 1 \in 1 .. m
    BY <1>7
  <2>5. s[m].k = "trigger" => s[1].k \in Resumers
    BY <1>1, <1>8, <2>4 DEF Shape
  <2>6. s[1].k \notin Resumers /\ s[1].k \notin Plain
    BY <1>3 DEF Waits, Resumers, Plain, Stages
  <2>7. NoPlain(s)
    BY <1>1, <1>2, <2>6, FormTop
  <2> QED BY <1>7, <1>8, <2>1, <2>2, <2>3, <2>5, <2>6, <2>7 DEF NoPlain
<1>13. s[m].k \in Callers
  BY <1>9, <1>11, <1>12 DEF Kinds, Callers, Calls, Ended, Fins, Pauses, Plain, Stages, Bottom
<1>14. s[m].o = Root
  <2>1. Stands(s[m], s[m + 1], Root, spawned)
    BY <1>1, <1>8 DEF Form
  <2> QED BY <1>7, <1>10, <1>13, <2>1 DEF Stands
<1> QED BY <1>2, <1>3, <1>4, <1>6, <1>7, <1>8, <1>13, <1>14

(* So a wait of the main fiber keeps the loop alive, if the script is in a  *)
(* foreground context: the wait counts, or the code it is in was executed   *)
(* inline, and the innermost foreground code that was counts.               *)
LEMMA MainCounts ==
    ASSUME Inv, Wakes, Book, MainBlocked, Foreground(Root), Head(stack[Root]).x # Pending
    PROVE  BusyFrames # {}
<1>1. PICK s : s = stack[Root]
  OBVIOUS
<1>2. /\ s \in Seq(Frames) /\ Len(s) \in Nat /\ Len(s) - 1 \in DOMAIN s /\ Len(s) > 2
      /\ s[Len(s) - 1].k \in Callers /\ s[Len(s) - 1].o = Root
      /\ s[1].k \in Waits /\ s[1] = Head(s) /\ s[1] \in Frames /\ s[2].k \in Callers /\ 1 \in DOMAIN s /\ 2 \in DOMAIN s
      /\ DOMAIN s = 1 .. Len(s)
  BY <1>1, MainScript
<1>3. /\ WellFormed(s, Begun, Root) /\ Form(s, Root, spawned) /\ Shape(s, Root, Guests, spawned) /\ Root \in Fiber
  BY <1>1, LineFibers DEF Inv, StacksOK, Book, FormsOK, Wakes, ShapesOK
<1>4. \A i : i \in Loaded(Root) => <<Root, i>> \in BusyFrames
  BY <1>3, BusyByFiber DEF Spread
<1>5. PICK m \in DOMAIN s :
         /\ s[m].k \in Callers /\ Foreground(s[m].o) /\ m \in Nat /\ m > 1
         /\ \A i \in DOMAIN s : i > 1 /\ s[i].k \in Callers /\ Foreground(s[i].o) => m <= i
  <2> DEFINE T == {i \in DOMAIN s : i > 1 /\ s[i].k \in Callers /\ Foreground(s[i].o)}
  <2>1. PICK n \in Nat : n = Len(s) /\ n > 2
    BY <1>2
  <2>2. PICK l \in Nat : l = n - 1 /\ l > 1
    BY <2>1
  <2>3. l \in T /\ T \subseteq Nat
    BY <1>2, <2>1, <2>2
  <2>4. PICK m \in T : \A i \in T : m <= i
    <3> HIDE DEF T
    <3> QED BY <2>3, MinimumExists
  <2> QED BY <2>3, <2>4
<1>6. \A i \in DOMAIN s : i > 1 /\ Counts(s[i - 1].k, s[i], s[i + 1]) => i \in Loaded(Root)
  BY <1>1, <1>2 DEF Loaded, Counting
<1>7. CASE m = 2
  <2>1. Foreground(s[2].o) /\ 1 + 1 = 2
    BY <1>5, <1>7
  <2>2. Stands(s[1], s[1 + 1], Root, spawned)
    BY <1>2, <1>3 DEF Form
  <2>3. \A a : Counts(a, s[1], s[1 + 1])
    <3>1. s[1].k = "wait" => s[1].o = s[2].o
      BY <2>1, <2>2 DEF Stands
    <3>2. s[1].x # Pending
      BY <1>1, <1>2
    <3> QED BY <1>2, <2>1, <3>1, <3>2 DEF Counts, Waits
  <2>4. 1 \in Loaded(Root)
    BY <1>1, <1>2, <2>3 DEF Loaded, Counting
  <2> QED BY <1>4, <2>4
<1>8. CASE m # 2
  <2>1. PICK i \in DOMAIN s : i \in Nat /\ i > 1 /\ i + 1 = m /\ i - 1 \in DOMAIN s
    <3>1. \A k, n \in Nat : k > 1 /\ k # 2 /\ k \in 1 .. n =>
            \E i \in 1 .. n : i \in Nat /\ i > 1 /\ i + 1 = k /\ i - 1 \in 1 .. n
      <4> SUFFICES ASSUME NEW k \in Nat, NEW n \in Nat, k > 1, k # 2, k \in 1 .. n
                   PROVE  \E i \in 1 .. n : i \in Nat /\ i > 1 /\ i + 1 = k /\ i - 1 \in 1 .. n
        OBVIOUS
      <4> WITNESS k - 1 \in 1 .. n
      <4> QED OBVIOUS
    <3>2. m \in 1 .. Len(s) /\ Len(s) \in Nat /\ DOMAIN s = 1 .. Len(s) /\ m \in Nat /\ m > 1
      BY <1>2, <1>5
    <3>3. \E i \in 1 .. Len(s) : i \in Nat /\ i > 1 /\ i + 1 = m /\ i - 1 \in 1 .. Len(s)
      BY <1>8, <3>1, <3>2
    <3> QED BY <3>2, <3>3
  <2>2. s[i].k \in Kinds /\ s[i - 1].k \in Kinds
    BY <1>2, <2>1, KindOf
  <2>3. s[1].k \notin Resumers /\ s[1].k \notin Plain /\ s[1].k \notin Callers \cup Fins
    BY <1>2 DEF Waits, Resumers, Plain, Stages, Callers, Fins
  <2>4. s[i].k \notin Ended /\ s[i].k # "trigger" /\ s[i].k \notin Plain /\ s[i].k \notin Callers
        /\ s[i].k \notin Bottom /\ s[i].k \notin {"await", "wait"}
    <3>1. s[i].k \in Ended \cup Waits => i = 1
      BY <1>3, <2>1 DEF Form, Shape
    <3>2. 1 \in 1 .. i
      BY <2>1
    <3>3. s[i].k = "trigger" => s[1].k \in Resumers
      BY <1>3, <2>1, <3>2 DEF Shape
    <3>4. NoPlain(s)
      BY <1>2, <1>3, <2>3, FormTop
    <3>5. Stands(s[i], s[m], Root, spawned)
      BY <1>3, <2>1 DEF Form
    <3>6. s[i].k \notin Callers
      BY <1>5, <3>5 DEF Stands, Callers, Holders
    <3>7. s[i].k \notin Bottom
      <4>1. i # Len(s)
        BY <1>2, <1>5, <2>1
      <4> QED BY <1>3, <2>1, <4>1 DEF WellFormed
    <3> QED BY <2>1, <2>3, <3>1, <3>3, <3>4, <3>6, <3>7 DEF NoPlain, Waits
  <2>5. s[i].k = "inline"
    BY <2>2, <2>4 DEF Kinds, Callers, Ended, Fins, Pauses, Plain, Stages, Bottom
  <2>6. s[i - 1].k \in Callers \cup Fins
    BY <1>3, <2>1, <2>5 DEF Form
  <2>7. s[i].o = s[m].o
    <3>1. Stands(s[i], s[m], Root, spawned)
      BY <1>3, <2>1 DEF Form
    <3> QED BY <2>5, <3>1 DEF Stands
  <2>8. s[i - 1].k = "code"
    <3>1. i - 1 # 1
      BY <2>3, <2>6
    <3>2. s[i - 1].k \notin Fins
      BY <1>3, <2>1, <3>1 DEF Form, Ended
    <3>3. ~Uncovered(s[i - 1], s[(i - 1) + 1])
      BY <1>3, <2>1, <3>1 DEF Form
    <3>4. (i - 1) + 1 = i /\ i - 1 > 1 /\ ~(m <= i - 1)
      BY <1>5, <2>1, <3>1
    <3>5. ~Foreground(s[i - 1].o)
      BY <1>5, <2>1, <2>6, <3>2, <3>4
    <3>6. Foreground(s[i].o)
      BY <1>5, <2>7
    <3> QED BY <2>5, <2>6, <3>2, <3>3, <3>4, <3>5, <3>6 DEF Uncovered, Callers
  <2>9. Counts(s[i - 1].k, s[i], s[i + 1])
    BY <1>5, <2>5, <2>7, <2>8 DEF Counts
  <2>10. i \in Loaded(Root)
    BY <1>6, <2>1, <2>9
  <2> QED BY <1>4, <2>10
<1> QED BY <1>7, <1>8

(* The main fiber goes on.                                                  *)
LEMMA BookLeaveUvRun ==
    ASSUME Inv, Inv', Wakes, Book, ReadyIsWatched, Foreground(Root), LeaveUvRun
    PROVE  Book'
<1>1. /\ Top.k = "loop" /\ (uvstop \/ ~Alive) /\ uvstop' = FALSE /\ fiber' = caller /\ fibers' = fibers
      /\ UNCHANGED <<stack, taskVars, readyVars, opVars, loopVars, triggered, stopped, closed>>
  BY DEF LeaveUvRun, InLoop, SwitchNone
<1>2. /\ fiber = Runner /\ fibers = <<>> /\ Gets = {fiber} /\ caller = Root /\ fiber # Root
  BY <1>1, Dispatching
<1>3. /\ UNCHANGED <<stack, status, spawned, disposed, ready, idle, op, ops, callbacks, caller, busy, stopped, closed>>
      /\ fiber' = Root /\ fibers' = <<>> /\ ToSet(fibers') = {} /\ Gets' = {Root}
  BY <1>1, <1>2, NoElements DEF taskVars, readyVars, opVars, loopVars, Gets
<1>4. /\ FormsOK /\ TasksOK /\ LineOK /\ CallerOK /\ QueuedOK /\ DeferredOK /\ StageOK /\ BusyBalance
  BY DEF Book
<1>5. (\A t : Settled(t)' <=> Settled(t)) /\ Finals' = Finals /\ Begun' = Begun
  BY <1>3 DEF Settled, Finals, Begun
<1>6. stopped = {} => ~idle /\ ~(busy > 0) /\ ops[Pending] = <<>> /\ ready = <<>>
  BY <1>1, <1>4 DEF DeferredOK, Alive, ReadyIsWatched
<1>7. ASSUME stopped = {} PROVE op[Root].status # "RUNNING"
  <2> SUFFICES ASSUME op[Root].status = "RUNNING" PROVE FALSE
    OBVIOUS
  <2>1. MainBlocked /\ Root \in ToSet(ops[Head(stack[Root]).x])
    BY <1>4, <1>7 DEF QueuedOK, OpOK, MainBlocked, Owners
  <2>2. Head(stack[Root]).x # Pending
    BY <1>6, <1>7, <2>1, NoElements
  <2>3. BusyFrames # {}
    BY <2>1, <2>2, MainCounts
  <2>4. IsFiniteSet(BusyFrames)
    BY BusyFinite DEF Inv
  <2>5. Cardinality(BusyFrames) \in Nat /\ Cardinality(BusyFrames) # 0
    BY <2>3, <2>4, FS_CardinalityType, FS_EmptySet
  <2>6. busy = Cardinality(BusyFrames)
    BY <1>4, <1>7 DEF BusyBalance
  <2> QED BY <1>6, <1>7, <2>5, <2>6
<1>8. FormsOK'
  BY <1>3, <1>4, <1>5 DEF FormsOK
<1>9. TasksOK'
  <2>1. \A t \in spawned : t # Root
    BY NamesAssumption DEF Inv, StatusOK, Begun
  <2> QED BY <1>3, <1>4, <1>5, <2>1 DEF TasksOK
<1>10. LineOK'
  <2>1. Single(<<>>, Fiber) /\ Root # NoFiber /\ Root # Runner /\ Root \notin Tasks
    BY LineFibers, NamesAssumption DEF Single
  <2>2. fibers' = <<>> /\ Single(fibers', Fiber) /\ DOMAIN fibers' = {} /\ fiber' = Root
    BY <1>3, <2>1
  <2> QED BY <1>3, <2>1, <2>2 DEF LineOK
<1>11. CallerOK'
  <2>1. Blocked(Root)' <=> Blocked(Root)
    BY <1>3 DEF Blocked
  <2> QED BY <1>3, <1>4, <2>1 DEF CallerOK
<1>12. QueuedOK'
  BY <1>3, <1>4, <1>7 DEF QueuedOK, WaitsFor, OpOK
<1>13. DeferredOK'
  <2>1. Deferred' = Deferred
    BY <1>3 DEF Deferred
  <2>2. ASSUME NEW o \in ToSet(ready) \cap Deferred PROVE Deferring(o)'
    <3>1. Deferring(o)
      BY <1>4 DEF DeferredOK
    <3>2. o # Root
      <4>1. stopped # {}
        BY <1>6, NoElements
      <4> QED BY <4>1, NamesAssumption DEF Deferred, Inv, StatusOK, Begun
    <3> QED BY <1>3, <3>1, <3>2 DEF Deferring
  <2> QED BY <1>1, <1>3, <1>4, <2>1, <2>2 DEF DeferredOK
<1>14. StageOK'
  <2>1. AtStage' = AtStage
    BY <1>3 DEF AtStage
  <2>2. stopped = {} => "done" \notin AtStage
    BY <1>2, <1>4 DEF StageOK
  <2> QED BY <1>3, <1>4, <2>1, <2>2 DEF StageOK
<1>15. BusyBalance'
  BY <1>3, <1>4 DEF BusyBalance, BusyFrames
<1> QED BY <1>8, <1>9, <1>10, <1>11, <1>12, <1>13, <1>14, <1>15 DEF Book
-------------------------------------------------------------------------------
(* What is no task is pending until it is settled, for good.                *)

(* One status moves on, and that of an awaitable that is no task only to its*)
(* outcome.                                                                 *)
Spares == \/ UNCHANGED status
          \/ \E x, v : /\ status' = [status EXCEPT ![x] = v]
                       /\ x \in Exts => v \in {"FINISHED", "FAILED"}

(* A step of that kind.                                                     *)
LEMMA SparesExts ==
    ASSUME Inv, ExtsOK, Spares
    PROVE  ExtsOK'
<1>1. status \in [Awaitables -> TaskStatus \cup {"PENDING"}] /\ Exts \subseteq Awaitables
  BY DEF Inv, StatusOK, Awaitables
<1>2. CASE UNCHANGED status
  BY <1>2 DEF ExtsOK, Settled
<1>3. CASE ~UNCHANGED status
  <2>1. PICK x, v : status' = [status EXCEPT ![x] = v] /\ (x \in Exts => v \in {"FINISHED", "FAILED"})
    BY <1>3 DEF Spares
  <2>2. ASSUME NEW e \in Exts PROVE status'[e] = "PENDING" \/ status'[e] \in {"FINISHED", "FAILED"}
    <3>1. CASE e = x
      BY <1>1, <2>1, <3>1
    <3>2. CASE e # x
      <4>1. status'[e] = status[e]
        BY <1>1, <2>1, <3>2
      <4> QED BY <4>1 DEF ExtsOK, Settled
    <3> QED BY <3>1, <3>2
  <2> QED BY <2>2 DEF ExtsOK, Settled
<1> QED BY <1>2, <1>3

(* Waking up or settling the operation of an owner.                         *)
LEMMA WakeSpares ==
    ASSUME NEW o \in Owners, NEW l, NEW res, NEW defer, NEW s,
           Wake(o, defer, s) \/ SettleOp(l, o, res, defer, s)
    PROVE  Spares
<1>1. o \notin Exts
  BY NamesAssumption DEF Owners
<1> QED BY <1>1 DEF Wake, WakeTask, WakeRoot, SettleOp, Spares

(* A task's own end, and its start.                                         *)
LEMMA TaskSpares ==
    ASSUME NEW t \in Tasks, NEW v, status' = [status EXCEPT ![t] = v]
    PROVE  Spares
<1>1. t \notin Exts
  BY NamesAssumption
<1> QED BY <1>1 DEF Spares

(* The head of a list is an owner.                                          *)
LEMMA FirstWaiter ==
    ASSUME Inv
    PROVE  \A l \in Lists : ops[l] # <<>> => Head(ops[l]) \in Owners
<1> SUFFICES ASSUME NEW l \in Lists, ops[l] # <<>> PROVE Head(ops[l]) \in Owners
  OBVIOUS
<1>1. ops[l] \in Seq(Begun \cup {Root})
  BY DEF Inv, OpsOK
<1>2. Head(ops[l]) \in ToSet(ops[l])
  BY <1>1, NoElements
<1> QED BY <1>2, QueuedOwners

(* The steps of PHP code.                                                   *)
LEMMA PhpSpares ==
    ASSUME Inv, PhpCode
    PROVE  Spares
<1>1. CASE \E t \in Tasks : Async(t)
  BY <1>1, TaskSpares DEF Async
<1>2. CASE \E x \in Awaitables : AwaitInline(x)
  BY <1>2, TaskSpares DEF AwaitInline, Inlinable
<1>3. CASE \E x \in Awaitables : AwaitBlock(x) \/ ReturnAwaitable(x)
  BY <1>3 DEF AwaitBlock, ReturnAwaitable, taskVars, Spares
<1>4. CASE \E q \in Queues : AwaitOp(q)
  <2>1. UNCHANGED status \/ (fiber # Root /\ CanAwait(fiber) /\ status' = [status EXCEPT ![fiber] = "SUSPENDED"])
    BY <1>4 DEF AwaitOp
  <2>2. fiber # Root /\ CanAwait(fiber) => fiber \in Tasks
    <3>1. InCode
      BY <1>4 DEF AwaitOp
    <3>2. fiber \in Owners
      <4>1. Top.k = "code" /\ Top.k # "end"
        BY <3>1 DEF InCode
      <4>2. WellFormed(stack[fiber], Begun, fiber)
        BY <4>1, Running
      <4>3. Head(stack[fiber]).k \in Callers => fiber \in Owners
        BY <4>2, Pop
      <4> QED BY <4>1, <4>3 DEF Callers, Top
    <3> QED BY <3>2 DEF Owners
  <2> QED BY <2>1, <2>2, TaskSpares DEF Spares
<1>5. CASE \E q \in Queues, defer \in BOOLEAN : Signal(q, defer)
  <2>1. PICK q \in Queues, defer \in BOOLEAN : Signal(q, defer)
    BY <1>5
  <2>2. ops[q] # <<>> /\ SettleOp(q, Head(ops[q]), "RESOLVED", defer, stack[fiber])
    BY <2>1 DEF Signal
  <2>3. q \in Lists /\ ops[q] # <<>>
    BY <2>2 DEF Lists
  <2>4. Head(ops[q]) \in Owners
    BY <2>3, FirstWaiter, Zenon
  <2> QED BY <2>2, <2>4, WakeSpares
<1>6. CASE \E e \in Exts, res \in {"FINISHED", "FAILED"} : SettleExt(e, res)
  BY <1>6 DEF SettleExt, Spares
<1>7. CASE CancelCall \/ Exit \/ \E how \in {"ok", "fail"} : Return(how)
  BY <1>7 DEF CancelCall, Exit, Return, taskVars, Spares
<1> QED BY <1>1, <1>2, <1>3, <1>4, <1>5, <1>6, <1>7 DEF PhpCode

(* The steps of the C code.                                                 *)
LEMMA EngineSpares ==
    ASSUME Inv, Engine
    PROVE  Spares
<1>1. CASE \E how \in Outcomes : FinishBody(how) \/ FinishInline(how)
  <2>1. PICK how \in Outcomes : FinishBody(how) \/ FinishInline(how)
    BY <1>1
  <2>2. Top = Fin(how) /\ Head(Rest).k \in {"body", "inline"}
    BY <2>1 DEF FinishBody, FinishInline
  <2>3. Top.k \in Fins /\ Top.k # "end" /\ Top.k \notin Bottom
    BY <2>2 DEF Fin, Frame, Outcomes, Fins, Bottom
  <2>4. Head(Rest).x \in Begun
    <3>1. WellFormed(stack[fiber], Begun, fiber)
      BY <2>3, Running
    <3>2. WellFormed(Rest, Begun, fiber)
      BY <2>3, <3>1, Pop DEF Top, Rest
    <3>3. Subject(Head(Rest), Begun)
      BY <3>2, Pop
    <3> QED BY <2>2, <3>3 DEF Subject
  <2>5. Head(Rest).x \in Tasks
    BY <2>4 DEF Begun
  <2>6. CASE UNCHANGED status
    BY <2>6 DEF Spares
  <2>7. CASE ~UNCHANGED status
    <3>1. \E v : status' = [status EXCEPT ![Head(Rest).x] = v]
      BY <2>1, <2>7 DEF FinishBody, FinishInline
    <3> QED BY <2>5, <3>1, TaskSpares
  <2> QED BY <2>6, <2>7
<1>2. CASE TriggerOps
  <2>1. CASE ops[Top.x] = <<>>
    BY <1>2, <2>1 DEF TriggerOps, Spares
  <2>2. CASE ops[Top.x] # <<>>
    <3>1. Top.k = "trigger" /\ SettleOp(Top.x, Head(ops[Top.x]), Verdict(Top.x), FALSE, Again)
      BY <1>2, <2>2 DEF TriggerOps
    <3>2. Top.x \in Lists
      <4>1. Top.k # "end"
        BY <3>1
      <4>2. WellFormed(stack[fiber], Begun, fiber)
        BY <4>1, Running
      <4>3. Subject(Top, Begun)
        BY <4>2, Pop DEF Top
      <4> QED BY <3>1, <4>3 DEF Subject, Lists
    <3>3. Head(ops[Top.x]) \in Owners
      BY <2>2, <3>2, FirstWaiter, Zenon
    <3> QED BY <3>1, <3>3, WakeSpares
  <2> QED BY <2>1, <2>2
<1>3. CASE CancelOps
  <2>1. CASE callbacks = <<>> \/ op[Head(callbacks)].status # "RUNNING"
    BY <1>3, <2>1 DEF CancelOps, Spares
  <2>2. CASE callbacks # <<>> /\ op[Head(callbacks)].status = "RUNNING"
    <3>1. Wake(Head(callbacks), op[Head(callbacks)].defer, Again)
      BY <1>3, <2>2 DEF CancelOps
    <3>2. Head(callbacks) \in Owners
      <4>1. callbacks \in Seq(Begun \cup {Root})
        BY DEF Inv, OpsOK
      <4>2. Head(callbacks) \in ToSet(callbacks)
        BY <2>2, <4>1, NoElements
      <4> QED BY <4>2, QueuedOwners
    <3> QED BY <3>1, <3>2, WakeSpares
  <2> QED BY <2>1, <2>2
<1>4. CASE \E q \in Queues : FailLeftover(q)
  <2>1. PICK q \in Queues : FailLeftover(q)
    BY <1>4
  <2>2. ops[q] # <<>> /\ SettleOp(q, Head(ops[q]), "FAILED", FALSE, stack[fiber])
    BY <2>1 DEF FailLeftover, Leftover
  <2>3. q \in Lists
    BY DEF Lists
  <2>4. Head(ops[q]) \in Owners
    BY <2>2, <2>3, FirstWaiter, Zenon
  <2> QED BY <2>2, <2>4, WakeSpares
<1>5. CASE \E e \in Exts : FailUnsettled(e)
  BY <1>5 DEF FailUnsettled, Spares
<1>6. CASE \/ \E how \in Outcomes : FinishMain(how)
           \/ ReturnSettled \/ ReturnInlined \/ Unwind \/ AfterSwitch \/ SuspendForGood
           \/ ResumeAwait \/ ResumeOp \/ ResumeDrain \/ ShutDown \/ ResumeRerun
  BY <1>6 DEF FinishMain, ReturnSettled, ReturnInlined, Unwind, AfterSwitch, SuspendForGood, ResumeAwait, ResumeOp,
     ResumeDrain, ShutDown, ResumeRerun, taskVars, Spares
<1> QED BY <1>1, <1>2, <1>3, <1>4, <1>5, <1>6 DEF Engine

(* The steps of the event loop.                                             *)
LEMMA LoopSpares ==
    ASSUME Inv, EventLoop
    PROVE  Spares
<1>1. CASE DispatchTask
  <2>1. CASE UNCHANGED status
    BY <2>1 DEF Spares
  <2>2. CASE ~UNCHANGED status
    <3>1. Head(ready) \in Tasks /\ status' = [status EXCEPT ![Head(ready)] = "RUNNING"]
      BY <1>1, <2>2 DEF DispatchTask, taskVars, Inv, StatusOK, Begun
    <3> QED BY <3>1, TaskSpares
  <2> QED BY <2>1, <2>2
<1>2. CASE \E o \in Owners, res \in {"RESOLVED", "FAILED"} : RequestDone(o, res)
  BY <1>2, WakeSpares DEF RequestDone
<1>3. CASE StartDispatch \/ StopDispatch \/ TimeOut \/ CallbackError \/ LeaveUvRun
  BY <1>3 DEF StartDispatch, StopDispatch, TimeOut, CallbackError, LeaveUvRun, taskVars, Spares
<1> QED BY <1>1, <1>2, <1>3 DEF EventLoop

(* No step breaks it.                                                       *)
LEMMA ExtsNext == Inv /\ ExtsOK /\ [Next]_vars => ExtsOK'
<1> SUFFICES ASSUME Inv, ExtsOK, [Next]_vars PROVE ExtsOK'
  OBVIOUS
<1>1. CASE UNCHANGED vars
  BY <1>1, SparesExts DEF vars, taskVars, Spares
<1> QED BY <1>1, SparesExts, PhpSpares, EngineSpares, LoopSpares DEF Next
-------------------------------------------------------------------------------
(* The invariant holds in the beginning.                                    *)

(* The stacks in the beginning.                                             *)
LEMMA FirstStacks ==
    ASSUME Init, NEW f \in Fiber
    PROVE  /\ Form(stack[f], f, spawned) /\ Head(stack[f]).k \in {"code", "loop", "end"}
           /\ \A i \in DOMAIN stack[f] : stack[f][i].k \in {"code", "main", "loop", "end"}
<1>1. /\ Root # Runner /\ Root \notin Tasks /\ Runner \notin Tasks
      /\ f = Root \/ f = Runner \/ f \in Tasks
  BY NamesAssumption DEF Fiber, Owners
<1>2. /\ Loop.k = "loop" /\ End.k = "end" /\ Main.k = "main" /\ Code(Root).k = "code" /\ Code(Root).o = Root
  BY DEF Loop, End, Code, Main, Frame
<1>3. /\ stack[Root] = <<Code(Root), Main>> /\ stack[Runner] = <<Loop>>
      /\ \A t \in Tasks : stack[t] = <<End>>
  BY NamesAssumption DEF Init, Fiber, Owners
<1>4. PICK s : s = stack[f]
  OBVIOUS
<1>5. CASE f = Root
  <2>1. s = <<Code(Root), Main>>
    BY <1>4, <1>5, <1>3
  <2>2. DOMAIN s = {1, 2} /\ s[1] = Code(Root) /\ s[2] = Main /\ Head(s) = Code(Root)
    BY <2>1
  <2>3. Stands(s[1], s[2], f, spawned) /\ Stands(s[2], s[3], f, spawned)
    BY <1>2, <2>2 DEF Stands, Fins, Callers, Holders
  <2>4. ASSUME NEW i \in DOMAIN s
        PROVE  Stands(s[i], s[i + 1], f, spawned) /\ s[i].k \in {"code", "main"}
    <3>1. (i = 1 \/ i = 2) /\ 1 + 1 = 2 /\ 2 + 1 = 3
      BY <2>2
    <3> QED BY <1>2, <2>2, <2>3, <3>1
  <2>5. Form(s, f, spawned)
    BY <2>4 DEF Form, Uncovered, Ended, Fins, Pauses, Plain, Stages
  <2> QED BY <1>2, <1>4, <2>2, <2>4, <2>5
<1>6. CASE f # Root
  <2>1. PICK fr : s = <<fr>> /\ ((fr = Loop /\ f = Runner) \/ (fr = End /\ f \in Tasks))
    BY <1>1, <1>4, <1>6, <1>3
  <2>2. DOMAIN s = {1} /\ s[1] = fr /\ Head(s) = fr
    BY <2>1
  <2>3. fr.k \in {"loop", "end"} /\ Stands(fr, s[2], f, spawned)
    BY <1>2, <2>1 DEF Stands, Fins, Callers
  <2>4. ASSUME NEW i \in DOMAIN s
        PROVE  Stands(s[i], s[i + 1], f, spawned) /\ s[i].k \in {"loop", "end"} /\ \A j \in 1 .. i - 1 : FALSE
    <3>1. i = 1 /\ 1 + 1 = 2 /\ \A j \in 1 .. 1 - 1 : FALSE
      BY <2>2
    <3> QED BY <2>2, <2>3, <3>1
  <2>5. Form(s, f, spawned)
    BY <2>4 DEF Form, Uncovered, Ended, Fins, Pauses
  <2> QED BY <1>4, <2>2, <2>3, <2>4, <2>5
<1> QED BY <1>5, <1>6

(* Nobody has called the loop, nothing is queued, nothing counts.           *)
LEMMA BookInit == Init => Book
<1> SUFFICES ASSUME Init PROVE Book
  OBVIOUS
<1>1. /\ \A f \in Fiber : Form(stack[f], f, spawned) /\ Head(stack[f]).k \in {"code", "loop", "end"}
      /\ \A f \in Fiber : \A i \in DOMAIN stack[f] : stack[f][i].k \in {"code", "main", "loop", "end"}
  BY FirstStacks
<1>2. /\ fiber = Root /\ fibers = <<>> /\ spawned = {} /\ disposed = {} /\ ready = <<>> /\ callbacks = <<>>
      /\ op = [o \in Owners |-> NoOp] /\ ops = [l \in Lists |-> <<>>] /\ caller = NoFiber /\ busy = 0
      /\ stopped = {} /\ uvstop = FALSE
  BY DEF Init
<1>3. /\ Root \in Fiber /\ Root # Runner /\ Root # NoFiber /\ Root \notin Tasks /\ NoFiber \notin Fiber /\ Owners \subseteq Fiber
  BY NamesAssumption DEF Fiber, Owners
<1>4. FormsOK
  BY <1>1 DEF FormsOK
<1>5. TasksOK
  BY <1>2 DEF TasksOK
<1>6. ToSet(fibers) = {} /\ ToSet(ready) = {} /\ ToSet(callbacks) = {} /\ (\A l \in Lists : ops[l] = <<>> /\ ToSet(ops[l]) = {})
  BY <1>2, NoElements
<1>7. \A T : Single(<<>>, T)
  BY DEF Single
<1>8. LineOK
  BY <1>2, <1>3, <1>6, <1>7 DEF LineOK
<1>9. CallerOK
  <2>1. ~Blocked(Root)
    BY <1>1, <1>3 DEF Blocked
  <2> QED BY <1>2, <1>3, <2>1 DEF CallerOK, Gets
<1>10. QueuedOK
  <2>1. \A o \in Owners : op[o].status = "PENDING" /\ ~op[o].cancelled /\ Head(stack[o]).k \notin Waits
    BY <1>1, <1>2, <1>3 DEF NoOp, Waits
  <2>2. \A o \in Owners : OpOK(o)
    BY <2>1 DEF OpOK
  <2> QED BY <1>2, <1>6, <1>7, <2>1, <2>2 DEF QueuedOK
<1>11. DeferredOK
  BY <1>2, <1>6, <1>7 DEF DeferredOK
<1>12. StageOK
  <2>1. AtStage = {}
    BY <1>1, <1>3 DEF AtStage, StagesOf, Stages, ToSet
  <2> QED BY <2>1 DEF StageOK
<1>13. BusyBalance
  <2>1. \A f \in Fiber : Loaded(f) = {}
    BY <1>1 DEF Loaded, Counting, Counts
  <2>2. BusyFrames = {}
    <3>1. \A p \in BusyFrames : p = <<p[1], p[2]>> /\ p[1] \in Fiber
      BY BusyByFiber DEF Spread
    <3>2. \A f, i : <<f, i>> \in BusyFrames => f \in Fiber /\ i \in Loaded(f)
      BY BusyByFiber DEF Spread
    <3>3. \A p : p \notin BusyFrames
      BY <2>1, <3>1, <3>2
    <3> QED BY <3>3
  <2> QED BY <1>2, <2>2, FS_EmptySet DEF BusyBalance
<1> QED BY <1>4, <1>5, <1>8, <1>9, <1>10, <1>11, <1>12, <1>13 DEF Book
-------------------------------------------------------------------------------
(* No step breaks it.                                                       *)

(* The steps of PHP code.                                                   *)
LEMMA BookPhpCode ==
    ASSUME Inv, Inv', Wakes, Book, Careful, PhpCode
    PROVE  Book'
BY BookAsync, BookAwaitInline, BookAwaitBlock, BookReturnAwaitable, BookAwaitOp, BookSignal,
   BookSettled, BookCancelled, BookReturn DEF PhpCode

(* The steps of the C code.                                                 *)
LEMMA BookEngine ==
    ASSUME Inv, Inv', Wakes, ReadyIsWatched, ExtsOK, Book, Engine
    PROVE  Book'
BY BookFinishBody, BookFinishInline, BookFinishMain, BookReturnSettled, BookReturnInlined,
   BookTriggerOps, BookAfterSwitch, BookSuspendForGood, BookResumeAwait, BookResumeOp,
   BookCancelOps, BookResumeDrain, BookShutDown, BookResumeRerun, BookFailLeftover,
   BookSettled DEF Engine

(* The steps of the event loop.                                             *)
LEMMA BookEventLoop ==
    ASSUME Inv, Inv', Wakes, ReadyIsWatched, Book, Foreground(Root), EventLoop
    PROVE  Book'
BY BookStartDispatch, BookDispatchTask, BookStopDispatch, BookRequestDone, BookCancelled,
   BookCallbackError, BookLeaveUvRun DEF EventLoop

(* All steps.                                                               *)
LEMMA BookNext ==
    ASSUME Careful, Foreground(Root), Inv, Inv', Wakes, ReadyIsWatched, ExtsOK, Book, [Next]_vars
    PROVE  Book'
<1>1. CASE UNCHANGED vars
  <2>1. UNCHANGED <<fiber, fibers, stack, status, spawned, disposed, ready, op, ops, callbacks, caller, busy,
                    stopped, uvstop, closed>>
    BY <1>1 DEF vars, fiberVars, taskVars, readyVars, opVars, loopVars, stopVars
  <2>2. (\A t : Settled(t)' <=> Settled(t)) /\ Finals' = Finals /\ Gets' = Gets /\ Begun' = Begun
        /\ AtStage' = AtStage /\ Deferred' = Deferred /\ BusyFrames' = BusyFrames
    BY <2>1 DEF Settled, Finals, Gets, Begun, AtStage, Deferred, BusyFrames
  <2>3. FormsOK' /\ TasksOK' /\ LineOK'
    BY <2>1, <2>2 DEF Book, FormsOK, TasksOK, LineOK, Resumes
  <2>4. CallerOK' /\ QueuedOK' /\ DeferredOK'
    BY <2>1, <2>2 DEF Book, CallerOK, Blocked, QueuedOK, WaitsFor, OpOK, DeferredOK, Deferring
  <2>5. StageOK' /\ BusyBalance'
    BY <2>1, <2>2 DEF Book, StageOK, BusyBalance
  <2> QED BY <2>3, <2>4, <2>5 DEF Book
<1> QED BY <1>1, BookPhpCode, BookEngine, BookEventLoop DEF Next

(* The invariant, with all it rests on.                                     *)
Books == Inv /\ Wakes /\ ReadyIsWatched /\ ExtsOK /\ Book

(* It holds in the beginning.                                               *)
LEMMA BooksInit == Init => Books
<1> SUFFICES ASSUME Init PROVE Books
  OBVIOUS
<1>1. ExtsOK
  BY NamesAssumption DEF Init, ExtsOK, Awaitables
<1>2. ReadyIsWatched
  BY DEF Init, ReadyIsWatched
<1> QED BY <1>1, <1>2, InitInv, WakesInit, BookInit DEF Books

(* No step breaks it.                                                       *)
LEMMA BooksNext == ASSUME Careful, Foreground(Root) PROVE Books /\ [Next]_vars => Books'
<1> SUFFICES ASSUME Books, [Next]_vars PROVE Books'
  OBVIOUS
<1>1. Inv /\ Wakes /\ ReadyIsWatched /\ ExtsOK /\ Book
  BY DEF Books
<1>2. Inv'
  BY <1>1, StepNext
<1>3. Wakes' /\ ReadyIsWatched' /\ ExtsOK'
  BY <1>1, WakesNext, WatchedStep, ExtsNext
<1>4. Book'
  BY <1>1, <1>2, BookNext
<1> QED BY <1>2, <1>3, <1>4 DEF Books

(* What the invariant says of the books.                                    *)
LEMMA BooksMean == Books => Bookkeeping
<1> SUFFICES ASSUME Books PROVE Bookkeeping
  OBVIOUS
<1>1. Inv /\ Book
  BY DEF Books
<1>2. /\ FormsOK /\ TasksOK /\ LineOK /\ CallerOK /\ QueuedOK /\ DeferredOK /\ StageOK /\ BusyBalance
  BY <1>1 DEF Book
<1>3. SwitchTarget
  BY <1>2 DEF LineOK, SwitchTarget
<1>4. RunStack
  <2>1. fibers \in Seq(Fiber) /\ Single(fibers, Fiber) /\ fiber \notin ToSet(fibers)
    BY <1>1, <1>2, LineFibers DEF LineOK
  <2>2. \A i \in DOMAIN fibers : fibers[i] \in Fiber
    BY <2>1
  <2> QED BY <2>1, <2>2 DEF RunStack, NoDuplicates, Single
<1>5. OpReturn
  <2> SUFFICES ASSUME Top.k = "wait", stopped = {} PROVE op[fiber].status \in {"RESOLVED", "FAILED"}
    BY DEF OpReturn
  <2>1. Top.k \in Waits
    BY DEF Waits
  <2>2. fiber \in Owners
    BY <1>1, <2>1, BelowWait
  <2>3. op[fiber].status # "RUNNING" /\ op[fiber].status # "PENDING"
    BY <1>2, <2>1, <2>2 DEF QueuedOK, OpOK, Top
  <2>4. op[fiber].status \in {"PENDING", "RUNNING", "RESOLVED", "FAILED"}
    BY <1>1, <2>2 DEF Inv, OpsOK, OpRecord
  <2> QED BY <2>3, <2>4
<1>6. CallerKnown
  <2>1. Blocked(Root) <=> Head(stack[Root]).k \in Pauses
    BY DEF Blocked, Pauses
  <2>2. Blocked(Root) => Root \notin ToSet(fibers)
    BY <1>2, <2>1 DEF LineOK, Stopping
  <2>3. fiber = Runner => caller = Root
    <3> SUFFICES ASSUME fiber = Runner PROVE caller = Root
      OBVIOUS
    <3>1. Gets = {Runner}
      BY <1>2, NoElements DEF LineOK, Gets
    <3>2. Root \notin Gets
      BY <3>1, NamesAssumption
    <3>3. caller \in {Root, NoFiber}
      BY <1>1 DEF Inv, RestOK
    <3> QED BY <1>2, <3>2, <3>3 DEF CallerOK
  <2> QED BY <1>2, <2>2, <2>3 DEF CallerKnown, CallerOK
<1>7. DisposedIsOver
  BY <1>2 DEF DisposedIsOver, TasksOK, Gets
<1>8. NoDanglingOp
  BY <1>2 DEF NoDanglingOp, QueuedOK, WaitsFor, Waits
<1>9. CleanShutdown
  <2> SUFFICES ASSUME Top.k = "done", stopped = {}
               PROVE  ready = <<>> /\ fibers = <<>> /\ \A l \in Exts \cup Queues : ops[l] = <<>>
    BY DEF CleanShutdown
  <2>1. Top.k # "end" /\ Top.k \in Stages /\ Top.k \in MainOnly
    BY DEF Stages, MainOnly
  <2>2. WellFormed(stack[fiber], Begun, fiber)
    BY <1>1, <2>1, Running
  <2>3. fiber = Root
    <3>1. /\ Head(stack[fiber]) \in Frames /\ Subject(Head(stack[fiber]), Begun)
          /\ Head(stack[fiber]).k \in MainOnly => fiber = Root
          /\ Head(stack[fiber]).k \in Callers => fiber \in Owners
          /\ Head(stack[fiber]).k \notin Bottom => WellFormed(Tail(stack[fiber]), Begun, fiber)
          /\ Head(stack[fiber]).k \in Calls => Head(Tail(stack[fiber])).k \in Callers
      BY <2>2, Pop
    <3> QED BY <2>1, <3>1 DEF Top
  <2>4. "done" \in AtStage
    BY <1>1, <2>1, <2>3, StageTop
  <2> QED BY <1>2, <2>4 DEF StageOK
<1> QED BY <1>2, <1>3, <1>4, <1>5, <1>6, <1>7, <1>8, <1>9 DEF Bookkeeping

(* Where PHP code stays clear of the two inlining defects and of a task that*)
(* waits for itself, and the main script runs in a foreground context, the  *)
(* books of task.c and fiber/asm.c balance between any two steps: control   *)
(* never goes to a fiber that does not exist or that has resumed the one it *)
(* leaves; async_await_op returns only with a settled operation; busy_count *)
(* is the number of foreground waits; the loop knows whom to return to; a   *)
(* disposed task never runs again; no list keeps an operation its owner has *)
(* given up; dispose leaves no task and no operation behind.                *)
THEOREM BooksBalance == ASSUME Careful, Foreground(Root) PROVE Spec => []Bookkeeping
<1>1. Init => Books
  BY BooksInit
<1>2. Books /\ [Next]_vars => Books'
  BY BooksNext
<1>3. Books => Bookkeeping
  BY BooksMean
<1> QED BY <1>1, <1>2, <1>3, PTL DEF Spec
-------------------------------------------------------------------------------
(* The promise of Task::await.                                              *)

(* The inline executions on a stack s: the height at which each one stands  *)
(* and the task that is executed.                                           *)
Nested(s) == {<<Len(s) - i, s[i].x>> : i \in {j \in DOMAIN s : s[j].k = "inline"}}

(* A task that is executed inline is not over, and executed once at a time. *)
InlinesOK ==
    /\ \A f \in Fiber : \A h \in Nested(stack[f]) : h[2] \notin Finals
    /\ \A f, g \in Fiber : \A h \in Nested(stack[f]), k \in Nested(stack[g]) :
          h[2] = k[2] => f = g /\ h = k
(* A loop resumes those who wait for something that is settled, and they    *)
(* are told nothing else.                                                   *)
LoopsOK == \A f \in Fiber : \A fr \in ToSet(stack[f]) : fr.k = "trigger" => fr.x \in Finals
Told ==
    \A o \in Owners :
        Head(stack[o]).k = "await" /\ op[o].status # "RUNNING" => Head(stack[o]).x \in Finals
PromiseOK == InlinesOK /\ (stopped = {} => LoopsOK /\ Told)

(* What a step of the scheduler is for who awaits.                          *)
Moves == stopped' = {} => [Promise!Next]_(Promise!vars)

(* Nothing runs inline on stack r, and no loop, that did not on fiber f.    *)
Within(f, r) ==
    /\ Nested(r) \subseteq Nested(stack[f])
    /\ stopped' = {} => \A fr \in ToSet(r) :
          fr.k = "trigger" => fr \in ToSet(stack[f]) \/ fr.x \in Finals'

(* Inline executions when a frame is put on a stack.                        *)
LEMMA NestedPush ==
    ASSUME NEW s \in Seq(Frames), NEW fr \in Frames
    PROVE  /\ fr.k # "inline" => Nested(<<fr>> \o s) = Nested(s)
           /\ fr.k = "inline" => Nested(<<fr>> \o s) = Nested(s) \cup {<<Len(s), fr.x>>}
<1> DEFINE r == <<fr>> \o s
           I == {j \in DOMAIN s : s[j].k = "inline"}
           J == {j \in DOMAIN r : r[j].k = "inline"}
<1>1. /\ Len(r) = Len(s) + 1 /\ DOMAIN r = 1 .. Len(s) + 1
      /\ \A i \in 1 .. Len(s) + 1 : r[i] = IF i = 1 THEN fr ELSE s[i - 1]
  BY Pushed
<1>2. Len(s) \in Nat /\ DOMAIN s = 1 .. Len(s)
  OBVIOUS
<1> HIDE DEF r
<1>3. \A i \in I : i + 1 \in J /\ r[i + 1] = s[i] /\ Len(r) - (i + 1) = Len(s) - i
  BY <1>1, <1>2
<1>4. \A j \in J : j = 1 \/ (j - 1 \in I /\ r[j] = s[j - 1] /\ Len(r) - j = Len(s) - (j - 1))
  BY <1>1, <1>2
<1>5. r[1] = fr /\ 1 \in DOMAIN r /\ Len(r) - 1 = Len(s)
  BY <1>1, <1>2
<1>6. Nested(s) \subseteq Nested(r)
  <2> SUFFICES ASSUME NEW i \in I PROVE <<Len(s) - i, s[i].x>> \in Nested(r)
    BY DEF Nested
  <2> QED BY <1>3 DEF Nested
<1>7. \A h \in Nested(r) : h \in Nested(s) \/ (fr.k = "inline" /\ h = <<Len(s), fr.x>>)
  <2> SUFFICES ASSUME NEW j \in J
               PROVE  <<Len(r) - j, r[j].x>> \in Nested(s)
                      \/ (fr.k = "inline" /\ <<Len(r) - j, r[j].x>> = <<Len(s), fr.x>>)
    BY DEF Nested
  <2>1. CASE j = 1
    BY <2>1, <1>5
  <2>2. CASE j # 1
    BY <2>2, <1>4 DEF Nested
  <2> QED BY <2>1, <2>2
<1>8. fr.k = "inline" => <<Len(s), fr.x>> \in Nested(r)
  BY <1>5 DEF Nested
<1>9. fr.k # "inline" => Nested(r) = Nested(s)
  BY <1>6, <1>7
<1>10. fr.k = "inline" => Nested(r) = Nested(s) \cup {<<Len(s), fr.x>>}
  BY <1>6, <1>7, <1>8
<1> QED BY <1>9, <1>10 DEF r

(* And when one is taken off.                                               *)
LEMMA NestedPop ==
    ASSUME NEW s \in Seq(Frames), s # <<>>
    PROVE  /\ Nested(Tail(s)) \subseteq Nested(s)
           /\ Head(s).k = "inline" =>
                /\ <<Len(s) - 1, Head(s).x>> \in Nested(s)
                /\ \A h \in Nested(Tail(s)) : h # <<Len(s) - 1, Head(s).x>>
<1>1. /\ Len(Tail(s)) = Len(s) - 1 /\ Head(s) = s[1] /\ 1 \in DOMAIN s /\ Len(s) \in Nat \ {0}
      /\ DOMAIN s = 1 .. Len(s) /\ DOMAIN Tail(s) = 1 .. Len(s) - 1
      /\ \A i \in 1 .. Len(s) - 1 : Tail(s)[i] = s[i + 1]
  BY Popped
<1> DEFINE t == Tail(s)
<1> HIDE DEF t
<1>2. \A i \in DOMAIN t : /\ i + 1 \in DOMAIN s /\ t[i] = s[i + 1] /\ Len(t) - i = Len(s) - (i + 1)
                          /\ Len(t) - i # Len(s) - 1
  BY <1>1 DEF t
<1>3. Nested(t) \subseteq Nested(s)
  <2> SUFFICES ASSUME NEW i \in DOMAIN t, t[i].k = "inline" PROVE <<Len(t) - i, t[i].x>> \in Nested(s)
    BY DEF Nested
  <2> QED BY <1>2 DEF Nested
<1>4. Head(s).k = "inline" => <<Len(s) - 1, Head(s).x>> \in Nested(s)
  BY <1>1 DEF Nested
<1>5. \A h \in Nested(t) : h # <<Len(s) - 1, Head(s).x>>
  <2> SUFFICES ASSUME NEW i \in DOMAIN t, t[i].k = "inline"
               PROVE  <<Len(t) - i, t[i].x>> # <<Len(s) - 1, Head(s).x>>
    BY DEF Nested
  <2> QED BY <1>2
<1> QED BY <1>3, <1>4, <1>5 DEF t

(* Stacks that run nothing else: with a frame more, with one less.          *)
LEMMA WithinPush ==
    ASSUME NEW f, NEW s \in Seq(Frames), Within(f, s), NEW fr \in Frames, fr.k # "inline",
           fr.k = "trigger" /\ stopped' = {} => fr.x \in Finals'
    PROVE  Within(f, <<fr>> \o s)
BY NestedPush, Pushed DEF Within
LEMMA WithinPop ==
    ASSUME NEW f, NEW s \in Seq(Frames), Within(f, s), s # <<>>
    PROVE  Within(f, Tail(s))
<1>1. Nested(Tail(s)) \subseteq Nested(s)
  BY NestedPop
<1>2. ToSet(s) = {Head(s)} \cup ToSet(Tail(s))
  BY Popped
<1> QED BY <1>1, <1>2 DEF Within
LEMMA WithinHere == ASSUME NEW f PROVE Within(f, stack[f])
BY DEF Within

(* A stack s as it is, or with a frame on top that runs nothing.            *)
Adds(r, s) ==
    \/ r = s
    \/ \E fr \in Frames : /\ r = <<fr>> \o s /\ fr.k \notin {"inline", "await"}
                          /\ fr.k = "trigger" /\ stopped' = {} => fr.x \in Finals'
LEMMA WithinAdds ==
    ASSUME NEW f, NEW s \in Seq(Frames), Within(f, s), Head(s).k # "await", NEW r, Adds(r, s)
    PROVE  Within(f, r) /\ Head(r).k # "await"
<1>1. CASE r = s
  BY <1>1
<1>2. CASE r # s
  <2>1. PICK fr \in Frames : /\ r = <<fr>> \o s /\ fr.k \notin {"inline", "await"}
                             /\ fr.k = "trigger" /\ stopped' = {} => fr.x \in Finals'
    BY <1>2 DEF Adds
  <2>2. Within(f, <<fr>> \o s)
    BY <2>1, WithinPush
  <2>3. Head(<<fr>> \o s) = fr
    BY Pushed
  <2> QED BY <2>1, <2>2, <2>3
<1> QED BY <1>1, <1>2

(* Tasks that are executed inline have no fiber.                            *)
LEMMA NestedTasks ==
    ASSUME Wakes, NEW f \in Fiber, NEW h \in Nested(stack[f])
    PROVE  h[2] \in Guests /\ h[2] \in Tasks /\ h[2] \in Awaitables /\ h[2] \notin spawned /\ h[2] \in Begun
<1>1. PICK i \in DOMAIN stack[f] : stack[f][i].k = "inline" /\ h[2] = stack[f][i].x
  BY DEF Nested
<1> QED BY <1>1 DEF Wakes, ShapesOK, Shape, Guests, Begun, Awaitables

(* A result stays, and what is told to who awaits is a result.              *)
LEMMA ToldStep ==
    ASSUME stopped = {}, LoopsOK, Told, Finals \subseteq Finals',
           \A f \in Fiber : \A fr \in ToSet(stack'[f]) :
               fr.k = "trigger" => fr \in ToSet(stack[f]) \/ fr.x \in Finals',
           \A o \in Owners : Head(stack'[o]).k = "await" =>
               \/ Head(stack'[o]) = Head(stack[o]) /\ op'[o].status = op[o].status
               \/ op'[o].status = "RUNNING"
               \/ Head(stack'[o]).x \in Finals'
    PROVE  LoopsOK' /\ Told'
<1>1. LoopsOK'
  BY DEF LoopsOK, ToSet
<1>2. Told'
  BY DEF Told
<1> QED BY <1>1, <1>2
LEMMA PromiseStep ==
    ASSUME PromiseOK, stopped \subseteq stopped', Finals \subseteq Finals',
           \A f \in Fiber : Within(f, stack'[f]),
           \A f \in Fiber : \A h \in Nested(stack'[f]) : h[2] \in Finals' => h[2] \in Finals,
           stopped' = {} => \A o \in Owners : Head(stack'[o]).k = "await" =>
               \/ Head(stack'[o]) = Head(stack[o]) /\ op'[o].status = op[o].status
               \/ op'[o].status = "RUNNING"
               \/ Head(stack'[o]).x \in Finals'
    PROVE  PromiseOK'
<1>1. \A f \in Fiber : Nested(stack'[f]) \subseteq Nested(stack[f])
  BY DEF Within
<1>2. InlinesOK
  BY DEF PromiseOK
<1>3. InlinesOK'
  <2>1. \A f \in Fiber : \A h \in Nested(stack'[f]) : h[2] \notin Finals'
    BY <1>1, <1>2 DEF InlinesOK
  <2>2. \A f, g \in Fiber : \A h \in Nested(stack'[f]), k \in Nested(stack'[g]) :
           h[2] = k[2] => f = g /\ h = k
    BY <1>1, <1>2 DEF InlinesOK
  <2> QED BY <2>1, <2>2 DEF InlinesOK, Nested
<1>4. ASSUME stopped' = {} PROVE LoopsOK' /\ Told'
  <2>1. stopped = {} /\ LoopsOK /\ Told
    BY <1>4 DEF PromiseOK
  <2>2. \A f \in Fiber : \A fr \in ToSet(stack'[f]) :
            fr.k = "trigger" => fr \in ToSet(stack[f]) \/ fr.x \in Finals'
    BY <1>4 DEF Within
  <2> QED BY <1>4, <2>1, <2>2, ToldStep
<1> QED BY <1>3, <1>4 DEF PromiseOK

(* The running fiber alone has another stack.                               *)
LEMMA MineWithin ==
    ASSUME Inv, fiber \in Fiber, NEW r, Mine(r), Within(fiber, r)
    PROVE  \A f \in Fiber : Within(f, stack'[f])
BY WithinHere DEF Mine

(* A step that changes neither outcomes nor who awaits what.                *)
LEMMA Unmoved ==
    ASSUME \A x \in Awaitables : OutcomeOf(x)' = OutcomeOf(x),
           \A o \in Owners : AwaitedBy(o)' = AwaitedBy(o)
    PROVE  Moves
<1>1. [x \in Awaitables |-> OutcomeOf(x)]' = [x \in Awaitables |-> OutcomeOf(x)]
  OBVIOUS
<1>2. [o \in Owners |-> AwaitedBy(o)]' = [o \in Owners |-> AwaitedBy(o)]
  OBVIOUS
<1> QED BY <1>1, <1>2 DEF Moves, Promise!vars

(* No outcome changes.                                                      *)
OutcomesStay == \A x \in Awaitables : OutcomeOf(x)' = OutcomeOf(x)

(* A step of the running fiber that has nothing to do with await.           *)
LEMMA Calm ==
    ASSUME Inv, PromiseOK, fiber \in Fiber, NEW r, Mine(r), Within(fiber, r),
           Top.k # "await", Head(r).k # "await", stopped \subseteq stopped',
           OutcomesStay,
           stopped' = {} => \A o \in Owners : Head(stack[o]).k = "await" =>
               op'[o].status = op[o].status \/ Head(stack[o]).x \in Finals
    PROVE  PromiseOK' /\ Moves
<1>1. Finals' = Finals
  BY DEF OutcomesStay, OutcomeOf, Settled, Finals
<1>2. \A f \in Fiber : Within(f, stack'[f])
  BY MineWithin
<1>3. \A o \in Owners : Head(stack'[o]).k = "await" => o # fiber /\ stack'[o] = stack[o]
  BY DEF Mine, Fiber
<1>4. PromiseOK'
  BY <1>1, <1>2, <1>3, PromiseStep
<1>5. \A o \in Owners : AwaitedBy(o)' = AwaitedBy(o)
  <2> SUFFICES ASSUME NEW o \in Owners PROVE AwaitedBy(o)' = AwaitedBy(o)
    OBVIOUS
  <2>1. CASE o = fiber
    BY <2>1 DEF AwaitedBy, Mine, Top
  <2>2. CASE o # fiber
    BY <2>2 DEF AwaitedBy, Mine, Fiber
  <2> QED BY <2>1, <2>2
<1>6. Moves
  BY <1>5, Unmoved DEF OutcomesStay
<1> QED BY <1>4, <1>6

(* A status that is no result becomes another one.                          *)
LEMMA NoOutcome ==
    ASSUME Inv, NEW t \in Awaitables, ~Settled(t),
           NEW v \in {"INIT", "RUNNING", "SUSPENDED"}, status' = [status EXCEPT ![t] = v]
    PROVE  OutcomesStay
BY DEF OutcomesStay, OutcomeOf, Settled, Inv, StatusOK
LEMMA SameOutcome ==
    ASSUME UNCHANGED status
    PROVE  OutcomesStay
BY DEF OutcomesStay, OutcomeOf

(* Somebody whose operation ends is woken up, or not.                       *)
LEMMA CalmWake ==
    ASSUME Inv, Wakes, Book, PromiseOK, Top.k \in Wakers,
           NEW o \in Owners, Head(stack[o]).k \in Waits, NEW defer,
           \/ Wake(o, defer, stack[fiber])
           \/ Goto(stack[fiber]) /\ UNCHANGED status,
           \A u \in Owners : u # o => op'[u] = op[u], UNCHANGED stopVars,
           stopped = {} /\ Head(stack[o]).k = "await" => Head(stack[o]).x \in Finals
    PROVE  PromiseOK' /\ Moves
<1>1. /\ Top.k \notin Waits /\ fiber \in Fiber /\ WellFormed(stack[fiber], Begun, fiber)
      /\ Goto(stack[fiber]) <=> stack' = stack
  BY Waker
<1>2. /\ stack[fiber] \in Seq(Frames) /\ Top.k # "await" /\ Head(stack[fiber]).k # "await"
      /\ UNCHANGED stopped
  BY <1>1 DEF WellFormed, Waits, stopVars, Top
<1>3. Within(fiber, stack[fiber])
  BY WithinHere
<1>4. \A u \in Owners : Head(stack[u]).k = "await" =>
          op'[u].status = op[u].status \/ stopped # {} \/ Head(stack[u]).x \in Finals
  BY <1>2
<1>5. CASE Goto(stack[fiber]) /\ UNCHANGED status
  <2>1. Mine(stack[fiber])
    BY <1>1, <1>5, GotoMine
  <2>2. OutcomesStay
    BY <1>5, SameOutcome
  <2> QED BY <1>1, <1>2, <1>3, <1>4, <2>1, <2>2, Calm
<1>6. CASE Goto(<<Resched(o)>> \o stack[fiber]) /\ status' = [status EXCEPT ![o] = "RUNNING"] /\ o # Root
  <2>1. o \in spawned /\ ~Settled(o) /\ o \in Tasks /\ o \in Awaitables
    BY <1>6, BlockedAlive DEF Owners, Awaitables
  <2>2. OutcomesStay
    BY <1>6, <2>1, NoOutcome
  <2>3. Resched(o) \in Frames /\ Resched(o).k = "resched"
    BY <2>1 DEF Resched, Frame, Frames, Kinds, Owners, Lists
  <2> DEFINE r == <<Resched(o)>> \o stack[fiber]
  <2>4. Within(fiber, r) /\ Head(r) = Resched(o)
    BY <1>2, <1>3, <2>3, WithinPush, Pushed
  <2>5. Mine(r)
    BY <1>1, <1>6, GotoMine
  <2> HIDE DEF r
  <2> QED BY <1>1, <1>2, <1>4, <2>2, <2>3, <2>4, <2>5, Calm
<1>7. CASE Wake(o, defer, stack[fiber])
  BY <1>5, <1>6, <1>7 DEF Wake, WakeRoot, WakeTask
<1> QED BY <1>5, <1>7

(* SettleOp.                                                                *)
LEMMA CalmSettleOp ==
    ASSUME Inv, Wakes, Book, PromiseOK, Top.k \in Wakers,
           NEW l \in Lists, NEW o \in ToSet(ops[l]), NEW res \in {"RESOLVED", "FAILED"}, NEW defer,
           SettleOp(l, o, res, defer, stack[fiber]),
           UNCHANGED <<spawned, disposed, runs, callbacks, issued, loopVars, stopVars>>,
           l \in Queues \/ (stopped = {} => l \in Finals)
    PROVE  PromiseOK' /\ Moves
<1>1. /\ ops' = [ops EXCEPT ![l] = Unlink(@, o)]
      /\ op' = [op EXCEPT ![o] = [status |-> res, cancelled |-> @.cancelled, defer |-> defer]]
      /\ \/ Goto(stack[fiber]) /\ UNCHANGED status
         \/ Wake(o, defer, stack[fiber])
  BY DEF SettleOp
<1>2. Served(o) /\ o \in Owners /\ Head(stack[o]).k \in Waits /\ Head(stack[o]).x = l
  BY <1>1, SettlingServes
<1>3. ASSUME stopped = {}, Head(stack[o]).k = "await" PROVE Head(stack[o]).x \in Finals
  <2>1. WellFormed(stack[o], Begun, o)
    BY <1>2 DEF Inv, StacksOK, Fiber
  <2>2. Subject(Head(stack[o]), Begun)
    BY <2>1, Pop
  <2>3. l \notin Queues
    BY <1>2, <1>3, <2>2, NamesAssumption DEF Subject
  <2> QED BY <1>2, <1>3, <2>3
<1>4. \A u \in Owners : u # o => op'[u] = op[u]
  BY <1>2 DEF Served
<1> QED BY <1>1, <1>2, <1>3, <1>4, CalmWake

(* The first operation of a list.                                           *)
LEMMA FirstQueued ==
    ASSUME Inv, NEW l \in Lists, ops[l] # <<>>
    PROVE  Head(ops[l]) \in ToSet(ops[l])
BY DEF Inv, OpsOK, ToSet

(* Code, the shutdown and the loop complete operations.                     *)
LEMMA CalmCompletes ==
    ASSUME Inv, Wakes, Book, PromiseOK,
           \/ \E q \in Queues, defer \in BOOLEAN : Signal(q, defer)
           \/ \E q \in Queues : FailLeftover(q)
           \/ \E o \in Owners, res \in {"RESOLVED", "FAILED"} : RequestDone(o, res)
    PROVE  PromiseOK' /\ Moves
<1>1. \A q \in Queues : q \in Lists
  BY DEF Lists
<1>2. ASSUME NEW q \in Queues, NEW defer \in BOOLEAN, Signal(q, defer) PROVE PromiseOK' /\ Moves
  <2>1. /\ Top.k \in Wakers /\ ops[q] # <<>> /\ SettleOp(q, Head(ops[q]), "RESOLVED", defer, stack[fiber])
        /\ UNCHANGED <<spawned, disposed, runs, callbacks, issued, loopVars, stopVars>>
    BY <1>2 DEF Signal, InCode, Wakers
  <2> QED BY <1>1, <2>1, FirstQueued, CalmSettleOp
<1>3. ASSUME NEW q \in Queues, FailLeftover(q) PROVE PromiseOK' /\ Moves
  <2>1. /\ Top.k \in Wakers /\ ops[q] # <<>> /\ SettleOp(q, Head(ops[q]), "FAILED", FALSE, stack[fiber])
        /\ UNCHANGED <<spawned, disposed, runs, callbacks, issued, loopVars, stopVars>>
    BY <1>3 DEF FailLeftover, Leftover, Wakers
  <2> QED BY <1>1, <2>1, FirstQueued, CalmSettleOp
<1>4. ASSUME NEW o \in Owners, NEW res \in {"RESOLVED", "FAILED"}, RequestDone(o, res) PROVE PromiseOK' /\ Moves
  <2>1. /\ Top.k \in Wakers /\ o \in ToSet(ops[Pending]) /\ SettleOp(Pending, o, res, FALSE, stack[fiber])
        /\ UNCHANGED <<spawned, disposed, runs, callbacks, issued, loopVars, stopVars>>
    BY <1>4 DEF RequestDone, InLoop, Wakers
  <2> QED BY <1>1, <2>1, NamesAssumption, CalmSettleOp
<1> QED BY <1>2, <1>3, <1>4

(* A frame is taken off, or replaced by one that runs nothing.              *)
LEMMA CalmPop ==
    ASSUME Inv, Wakes, Book, PromiseOK, Top.k \notin Bottom, Top.k # "await",
           NEW r, Adds(r, Rest),
           Goto(r), stopped \subseteq stopped', UNCHANGED <<status, op>>
    PROVE  PromiseOK' /\ Moves
<1>1. /\ Rest \in Seq(Frames) /\ Head(Rest).k # "await" /\ fiber \in Fiber
      /\ stack[fiber] \in Seq(Frames) /\ stack[fiber] # <<>>
  <2>1. Top.k # "end"
    BY DEF Bottom
  <2> QED BY <2>1, PopOff, Here DEF Waits
<1>2. Within(fiber, Rest)
  BY <1>1, WithinHere, WithinPop DEF Rest
<1>3. Within(fiber, r) /\ Head(r).k # "await"
  BY <1>1, <1>2, WithinAdds
<1>4. Mine(r)
  BY <1>1, GotoMine
<1> QED BY <1>1, <1>3, <1>4, SameOutcome, Calm

(* A frame is put on top that runs nothing.                                 *)
LEMMA CalmPush ==
    ASSUME Inv, Wakes, Book, PromiseOK, Top.k \notin {"await", "end"},
           NEW r, Adds(r, stack[fiber]),
           Goto(r), stopped \subseteq stopped', OutcomesStay,
           \A o \in Owners : o # fiber => op'[o] = op[o]
    PROVE  PromiseOK' /\ Moves
<1>1. fiber \in Fiber /\ stack[fiber] \in Seq(Frames) /\ Head(stack[fiber]).k # "await"
  BY Here DEF Top
<1>2. Within(fiber, stack[fiber])
  BY WithinHere
<1>3. Within(fiber, r) /\ Head(r).k # "await"
  BY <1>1, <1>2, WithinAdds
<1>4. Mine(r)
  BY <1>1, GotoMine
<1>5. \A o \in Owners : Head(stack[o]).k = "await" => op'[o].status = op[o].status
  BY <1>1
<1> QED BY <1>1, <1>3, <1>4, <1>5, Calm

(* A loop over operations.                                                  *)
LEMMA CalmTriggerOps ==
    ASSUME Inv, Wakes, Book, PromiseOK, TriggerOps
    PROVE  PromiseOK' /\ Moves
<1>1. /\ Top.k = "trigger" /\ Top.k \in Wakers
      /\ UNCHANGED <<spawned, disposed, runs, callbacks, issued, loopVars, stopVars>>
      /\ ops[Top.x] = <<>> => Goto(Rest) /\ UNCHANGED <<fiber, fibers, status, readyVars, op, ops>>
      /\ ops[Top.x] # <<>> => SettleOp(Top.x, Head(ops[Top.x]), Verdict(Top.x), FALSE, stack[fiber])
  BY DEF TriggerOps, Again, Wakers
<1>2. CASE ops[Top.x] = <<>>
  <2>1. Top.k \notin Bottom /\ Top.k # "await" /\ UNCHANGED <<status, op>> /\ stopped \subseteq stopped' /\ Goto(Rest)
    BY <1>1, <1>2 DEF Bottom, stopVars
  <2> QED BY <2>1, CalmPop DEF Adds
<1>3. CASE ops[Top.x] # <<>>
  <2>1. WellFormed(stack[fiber], Begun, fiber) /\ fiber \in Fiber
    BY <1>1, Waker
  <2>2. Subject(Head(stack[fiber]), Begun)
    BY <2>1, Pop
  <2>3. Top.x \in Lists
    BY <1>1, <2>2 DEF Subject, Top, Lists
  <2>4. Head(ops[Top.x]) \in ToSet(ops[Top.x]) /\ Verdict(Top.x) \in {"RESOLVED", "FAILED"}
    BY <1>3, <2>3, FirstQueued DEF Verdict
  <2>5. Top \in ToSet(stack[fiber])
    BY <2>1, Popped DEF WellFormed, Top
  <2>6. stopped = {} => Top.x \in Finals
    BY <1>1, <2>1, <2>5 DEF PromiseOK, LoopsOK
  <2> QED BY <1>1, <1>3, <2>3, <2>4, <2>6, CalmSettleOp
<1> QED BY <1>2, <1>3

(* The chain of cancel callbacks.                                           *)
LEMMA CalmCancelOps ==
    ASSUME Inv, Wakes, Book, PromiseOK, CancelOps
    PROVE  PromiseOK' /\ Moves
<1>1. /\ Top.k = "cancel" /\ Top.k \in Wakers /\ Top.k \notin Bottom /\ Top.k \notin {"await", "end"}
      /\ UNCHANGED <<spawned, disposed, runs, ops, issued, loopVars, stopVars>> /\ UNCHANGED stopped
  BY DEF CancelOps, Wakers, Bottom, stopVars
<1>2. CASE callbacks = <<>>
  <2>1. Goto(Rest) /\ UNCHANGED <<status, op>>
    BY <1>2 DEF CancelOps
  <2> QED BY <1>1, <2>1, CalmPop DEF Adds
<1>3. CASE callbacks # <<>>
  <2>1. PICK o : o = Head(callbacks)
    OBVIOUS
  <2>2. /\ op[o].status = "RUNNING" =>
             /\ op' = [op EXCEPT ![o].status = "FAILED", ![o].cancelled = TRUE]
             /\ Wake(o, op[o].defer, stack[fiber])
        /\ op[o].status # "RUNNING" => UNCHANGED <<fiber, fibers, stack, status, readyVars, op>>
    BY <1>3, <2>1 DEF CancelOps, Again
  <2>3. CASE op[o].status # "RUNNING"
    <3>1. Goto(stack[fiber]) /\ UNCHANGED <<status, op>>
      BY <2>2, <2>3, GotoSame
    <3> QED BY <1>1, <3>1, SameOutcome, CalmPush DEF Adds
  <2>4. CASE op[o].status = "RUNNING"
    <3>1. callbacks \in Seq(Owners)
      <4>1. Begun \cup {Root} \subseteq Owners
        BY DEF Begun, Owners
      <4> QED BY <4>1, SeqMonotonic DEF Inv, OpsOK
    <3>2. o \in Owners /\ o \in ToSet(callbacks)
      BY <1>3, <2>1, <3>1 DEF ToSet
    <3>3. Head(stack[o]).k = "wait"
      BY <3>2 DEF Book, QueuedOK
    <3>4. \A u \in Owners : u # o => op'[u] = op[u]
      BY <2>2, <2>4 DEF Inv, OpsOK
    <3> QED BY <1>1, <2>2, <2>4, <3>2, <3>3, <3>4, CalmWake DEF Waits
  <2> QED BY <2>3, <2>4
<1> QED BY <1>2, <1>3

(* A task is created.                                                       *)
LEMMA CalmAsync ==
    ASSUME Inv, Wakes, Book, PromiseOK, NEW t \in Tasks, Async(t)
    PROVE  PromiseOK' /\ Moves
<1>1. /\ Top.k = "code" /\ status[t] = "NONE" /\ status' = [status EXCEPT ![t] = "INIT"]
      /\ UNCHANGED <<stack, op, stopped>>
  BY DEF Async, InCode, fiberVars, opVars, stopVars
<1>2. t \in Awaitables /\ ~Settled(t)
  BY <1>1 DEF Awaitables, Settled
<1>3. OutcomesStay
  BY <1>1, <1>2, NoOutcome
<1>4. Goto(stack[fiber]) /\ stopped \subseteq stopped' /\ Adds(stack[fiber], stack[fiber])
  BY <1>1, GotoSame DEF Adds
<1> QED BY <1>1, <1>3, <1>4, CalmPush

(* PHP code ends.                                                           *)
LEMMA CalmEndCode ==
    ASSUME Inv, Wakes, Book, PromiseOK, InCode, NEW fr \in Frames, fr.k \in {"ret", "ok", "fail", "exit"},
           EndCode(fr), UNCHANGED <<status, op, stopped>>
    PROVE  PromiseOK' /\ Moves
<1>1. Top.k \notin Bottom /\ Top.k # "await" /\ Goto(<<fr>> \o Rest) /\ Adds(<<fr>> \o Rest, Rest)
  BY DEF InCode, Bottom, EndCode, Adds
<1> QED BY <1>1, CalmPop
LEMMA CalmReturn ==
    ASSUME Inv, Wakes, Book, PromiseOK,
           (\E how \in {"ok", "fail"} : Return(how)) \/ Exit \/ \E x \in Awaitables : ReturnAwaitable(x)
    PROVE  PromiseOK' /\ Moves
<1>1. CASE (\E how \in {"ok", "fail"} : Return(how)) \/ Exit
  <2>1. PICK how \in Outcomes : /\ InCode /\ EndCode(Fin(how))
                                /\ UNCHANGED <<taskVars, opVars, stopVars>>
    BY <1>1 DEF Return, Exit, Outcomes
  <2>2. Fin(how) \in Frames /\ Fin(how).k \in {"ret", "ok", "fail", "exit"}
    BY FinFrame DEF Fin, Frame, Outcomes
  <2> QED BY <2>1, <2>2, CalmEndCode DEF taskVars, opVars, stopVars
<1>2. CASE \E x \in Awaitables : ReturnAwaitable(x)
  <2>1. PICK x \in Awaitables : /\ InCode /\ EndCode(Ret(x, Top.o))
                                /\ UNCHANGED <<taskVars, opVars, stopVars>>
    BY <1>2 DEF ReturnAwaitable
  <2>2. Top \in Frames
    BY <2>1, Here DEF InCode
  <2>3. Ret(x, Top.o) \in Frames /\ Ret(x, Top.o).k = "ret"
    BY <2>2 DEF Ret, Frame, Frames, Kinds, Lists, Owners
  <2> QED BY <2>1, <2>3, CalmEndCode DEF taskVars, opVars, stopVars
<1> QED BY <1>1, <1>2

(* The cancellation, and the idle watcher.                                  *)
LEMMA CalmCalls ==
    ASSUME Inv, Wakes, Book, PromiseOK, CancelCall \/ TimeOut \/ StartDispatch
    PROVE  PromiseOK' /\ Moves
<1>1. /\ Goto(<<Cancel>> \o stack[fiber]) \/ Goto(<<Dispatch>> \o stack[fiber])
      /\ Top.k \notin {"await", "end"} /\ UNCHANGED <<status, op, stopped>>
  BY DEF CancelCall, TimeOut, StartDispatch, InCode, InLoop, taskVars, opVars, stopVars
<1>2. \A fr \in {Dispatch, Cancel} : fr \in Frames /\ fr.k \in {"dispatch", "cancel"}
  BY LoopFrame DEF Dispatch, Cancel, Frame
<1>3. \A fr \in {Dispatch, Cancel} : Adds(<<fr>> \o stack[fiber], stack[fiber])
  BY <1>2 DEF Adds
<1> QED BY <1>1, <1>3, SameOutcome, CalmPush

(* A returned awaitable has its result already.                             *)
LEMMA CalmReturnSettled ==
    ASSUME Inv, Wakes, Book, PromiseOK, ReturnSettled
    PROVE  PromiseOK' /\ Moves
<1>1. PICK how \in Outcomes : Goto(Deliver(how, stack[fiber]))
  BY DEF ReturnSettled, HowOf, Outcomes
<1>2. Top.k = "ret" /\ UNCHANGED <<status, op, stopped>>
  BY DEF ReturnSettled, taskVars, opVars, stopVars
<1>3. Goto(<<Fin(how)>> \o Rest)
  BY <1>1, <1>2 DEF Deliver, Top, Rest
<1>4. Adds(<<Fin(how)>> \o Rest, Rest)
  BY FinFrame DEF Adds, Fin, Frame, Outcomes
<1>5. Top.k \notin Bottom /\ Top.k # "await"
  BY <1>2 DEF Bottom
<1> QED BY <1>2, <1>3, <1>4, <1>5, CalmPop

(* What is below runs nothing more either.                                  *)
LEMMA WithinReturn ==
    ASSUME Inv, Wakes, Book, Top.k \notin Bottom, Head(Rest).k \in Callers, NEW how \in Outcomes
    PROVE  /\ Within(fiber, Deliver(how, Rest)) /\ Head(Deliver(how, Rest)).k # "await"
           /\ Within(fiber, Bail(Rest)) /\ Head(Bail(Rest)).k # "await"
<1>1. /\ Rest \in Seq(Frames) /\ Rest # <<>> /\ Head(Rest).k # "await"
      /\ stack[fiber] \in Seq(Frames) /\ stack[fiber] # <<>>
  <2>1. Top.k # "end"
    BY DEF Bottom
  <2> QED BY <2>1, PopOff, Here DEF Waits
<1>2. Within(fiber, Rest)
  BY <1>1, WithinHere, WithinPop DEF Rest
<1>3. Tail(Rest) \in Seq(Frames) /\ Within(fiber, Tail(Rest))
  BY <1>1, <1>2, WithinPop, Popped
<1>4. Fin(how) \in Frames /\ Fin(how).k \in {"ok", "fail", "exit"} /\ Fin("exit") \in Frames /\ Fin("exit").k = "exit"
  BY FinFrame DEF Fin, Frame, Outcomes
<1>5. /\ Within(fiber, <<Fin(how)>> \o Tail(Rest)) /\ Head(<<Fin(how)>> \o Tail(Rest)) = Fin(how)
      /\ Within(fiber, <<Fin("exit")>> \o Tail(Rest)) /\ Head(<<Fin("exit")>> \o Tail(Rest)) = Fin("exit")
  BY <1>3, <1>4, WithinPush, Pushed
<1>6. Within(fiber, Bail(Rest)) /\ Head(Bail(Rest)).k # "await"
  <2>1. CASE Head(Rest).k = "ret" /\ Rest[2].k = "inline"
    <3>1. PICK u : u = Tail(Tail(Rest))
      OBVIOUS
    <3>2. WellFormed(Rest, Begun, fiber)
      BY PopFrame
    <3>3. u \in Seq(Frames) /\ Tail(Rest) # <<>>
      <4>1. WellFormed(u, Begun, fiber)
        BY <2>1, <3>1, <3>2, LeaveInline
      <4>2. WellFormed(Tail(Rest), Begun, fiber)
        BY <2>1, <3>2, LeaveInline
      <4> QED BY <4>1, <4>2 DEF WellFormed
    <3>4. Within(fiber, u)
      BY <1>3, <3>1, <3>3, WithinPop
    <3>5. Bailing \in Frames /\ Bailing.k = "bail"
      BY BailingFrame
    <3>6. Within(fiber, <<Bailing>> \o u) /\ Head(<<Bailing>> \o u) = Bailing
      BY <3>3, <3>4, <3>5, WithinPush, Pushed
    <3> QED BY <2>1, <3>1, <3>5, <3>6 DEF Bail
  <2>2. CASE ~(Head(Rest).k = "ret" /\ Rest[2].k = "inline")
    BY <1>4, <1>5, <2>2 DEF Bail
  <2> QED BY <2>1, <2>2
<1> QED BY <1>1, <1>2, <1>4, <1>5, <1>6 DEF Deliver

(* A task that was executed inline delivers its result.                     *)
LEMMA CalmReturnInlined ==
    ASSUME Inv, Wakes, Book, PromiseOK, ReturnInlined \/ Unwind
    PROVE  PromiseOK' /\ Moves
<1>1. /\ Top.k \in {"inlined", "bail"} /\ Top.k \notin Bottom /\ Top.k \in Calls /\ Top.k # "end"
      /\ UNCHANGED <<status, op, stopped>>
  BY DEF ReturnInlined, Unwind, Bottom, Calls, taskVars, opVars, stopVars
<1>2. PICK how \in Outcomes : Goto(Deliver(how, Rest)) \/ Goto(Bail(Rest))
  BY DEF ReturnInlined, Unwind, HowOf, Outcomes
<1>3. Head(Rest).k \in Callers /\ fiber \in Fiber
  BY <1>1, PopFrame, Here
<1>4. PICK r : Goto(r) /\ Within(fiber, r) /\ Head(r).k # "await"
  BY <1>1, <1>2, <1>3, WithinReturn
<1>5. Mine(r)
  BY <1>3, <1>4, GotoMine
<1> QED BY <1>1, <1>3, <1>4, <1>5, SameOutcome, Calm

(* async_await_op returns.                                                  *)
LEMMA CalmResumeOp ==
    ASSUME Inv, Wakes, Book, PromiseOK, ResumeOp
    PROVE  PromiseOK' /\ Moves
<1>1. /\ Top.k = "wait" /\ Top.k \notin Bottom /\ Top.k \in Waits /\ Top.k # "end"
      /\ op' = [op EXCEPT ![fiber] = NoOp] /\ UNCHANGED <<status, stopped>>
      /\ Goto(Bail(Rest)) \/ Goto(Rest)
  BY DEF ResumeOp, Bottom, Waits, taskVars, stopVars
<1>2. Head(Rest).k \in Callers /\ fiber \in Owners /\ fiber \in Fiber /\ Head(Rest).k # "await"
  BY <1>1, BelowWait DEF Fiber, Callers
<1>3. stack[fiber] \in Seq(Frames) /\ stack[fiber] # <<>>
  BY <1>1, Here
<1>4. Within(fiber, Rest)
  BY <1>3, WithinHere, WithinPop DEF Rest
<1>5. PICK r : Goto(r) /\ Within(fiber, r) /\ Head(r).k # "await"
  BY <1>1, <1>2, <1>4, WithinReturn DEF Outcomes
<1>6. Mine(r)
  BY <1>2, <1>5, GotoMine
<1>7. \A o \in Owners : Head(stack[o]).k = "await" => op'[o].status = op[o].status
  <2> SUFFICES ASSUME NEW o \in Owners, Head(stack[o]).k = "await" PROVE op'[o].status = op[o].status
    OBVIOUS
  <2>1. o # fiber
    BY <1>1 DEF Top
  <2> QED BY <1>1, <2>1 DEF Inv, OpsOK
<1> QED BY <1>1, <1>2, <1>5, <1>6, <1>7, SameOutcome, Calm

(* A resumed fiber has suspended again.                                     *)
LEMMA CalmAfterSwitch ==
    ASSUME Inv, Wakes, Book, PromiseOK, AfterSwitch
    PROVE  PromiseOK' /\ Moves
<1>1. /\ Top.k = "resched" /\ Top.k \notin Bottom /\ Top.k # "await" /\ Top.k # "end"
      /\ UNCHANGED <<status, op, stopped>>
      /\ Goto(Rest) \/ (Over(Top.x) /\ Goto(<<Trigger(Top.x)>> \o Rest))
  BY DEF AfterSwitch, Bottom, opVars, stopVars
<1>2. Top.x \in Awaitables
  <2>1. WellFormed(stack[fiber], Begun, fiber)
    BY <1>1, Here
  <2>2. Subject(Top, Begun)
    BY <2>1, Pop DEF Top
  <2> QED BY <1>1, <2>2 DEF Subject, Awaitables
<1>3. Over(Top.x) => Top.x \in Finals'
  BY <1>1, <1>2 DEF Over, Finals, Settled
<1>4. Trigger(Top.x) \in Frames /\ Trigger(Top.x).k = "trigger" /\ Trigger(Top.x).x = Top.x
  BY <1>2, TriggerFrame DEF Trigger, Frame
<1>5. Adds(Rest, Rest) /\ (Over(Top.x) => Adds(<<Trigger(Top.x)>> \o Rest, Rest))
  BY <1>3, <1>4 DEF Adds
<1> QED BY <1>1, <1>5, CalmPop

(* Nothing but control moves.                                               *)
LEMMA CalmControl ==
    ASSUME Inv, Wakes, Book, PromiseOK, SuspendForGood \/ CallbackError \/ LeaveUvRun
    PROVE  PromiseOK' /\ Moves
<1>1. UNCHANGED <<stack, status, op>> /\ Top.k # "await" /\ stopped \subseteq stopped' /\ fiber # NoFiber
  <2>1. CASE SuspendForGood
    BY <2>1 DEF SuspendForGood, taskVars, opVars, stopVars
  <2>2. CASE CallbackError
    <3>1. fiber # NoFiber
      BY <2>2, Here, NamesAssumption DEF CallbackError, InLoop
    <3> QED BY <2>2, <3>1 DEF CallbackError, InLoop, Stop, fiberVars, taskVars, opVars
  <2>3. CASE LeaveUvRun
    <3>1. fiber # NoFiber
      BY <2>3, Here, NamesAssumption DEF LeaveUvRun, InLoop
    <3> QED BY <2>3, <3>1 DEF LeaveUvRun, InLoop, taskVars, opVars
  <2> QED BY <2>1, <2>2, <2>3
<1>2. fiber \in Fiber
  BY <1>1, LineFibers DEF Inv, FibersOK, Live
<1>3. Mine(stack[fiber]) /\ Within(fiber, stack[fiber])
  BY <1>1, <1>2, GotoSame, GotoMine, WithinHere
<1> QED BY <1>1, <1>2, <1>3, SameOutcome, Calm DEF Top

(* Code blocks in async_await_op.                                           *)
LEMMA CalmAwaitOp ==
    ASSUME Inv, Wakes, Book, PromiseOK, NEW q \in Queues, AwaitOp(q)
    PROVE  PromiseOK' /\ Moves
<1>1. /\ Top.k = "code" /\ CanAwait(fiber) /\ UNCHANGED stopped
      /\ op' = [op EXCEPT ![fiber] = [NoOp EXCEPT !.status = "RUNNING"]]
      /\ Goto(<<Wait(q, Top.o)>> \o stack[fiber])
      /\ fiber = Root => UNCHANGED status
      /\ fiber # Root => status' = [status EXCEPT ![fiber] = "SUSPENDED"]
  BY DEF AwaitOp, InCode, RunLoop, stopVars
<1>2. fiber \in Owners /\ Top \in Frames
  <2>1. WellFormed(stack[fiber], Begun, fiber) /\ Top \in Frames
    BY <1>1, Here
  <2> QED BY <1>1, <2>1, Pop DEF Callers, Top
<1>3. OutcomesStay
  <2>1. CASE fiber = Root
    BY <1>1, <2>1, SameOutcome
  <2>2. CASE fiber # Root
    <3>1. fiber \in Awaitables /\ ~Settled(fiber)
      BY <1>1, <1>2, <2>2 DEF CanAwait, Owners, Awaitables, Settled
    <3> QED BY <1>1, <2>2, <3>1, NoOutcome
  <2> QED BY <2>1, <2>2
<1>4. Wait(q, Top.o) \in Frames /\ Wait(q, Top.o).k = "wait"
  BY <1>2 DEF Wait, Frame, Frames, Kinds, Lists, Owners
<1>5. Adds(<<Wait(q, Top.o)>> \o stack[fiber], stack[fiber])
  BY <1>4 DEF Adds
<1>6. \A o \in Owners : o # fiber => op'[o] = op[o]
  BY <1>1 DEF Inv, OpsOK
<1> QED BY <1>1, <1>3, <1>5, <1>6, CalmPush

(* The main script has ended: the stages of dispose.                        *)
LEMMA CalmStages ==
    ASSUME Inv, Wakes, Book, PromiseOK,
           (\E how \in Outcomes : FinishMain(how)) \/ ResumeDrain \/ ShutDown \/ ResumeRerun
    PROVE  PromiseOK' /\ Moves
<1>1. PICK fr \in {Drain, Shut, Rerun, Done} :
        /\ Goto(<<fr, Main>>) /\ UNCHANGED <<status, op>> /\ stopped \subseteq stopped'
        /\ Top.k \notin {"await", "end"}
  <2>1. CASE \E how \in Outcomes : FinishMain(how)
    BY <2>1 DEF FinishMain, RunLoop, Stop, Fin, Frame, Outcomes, taskVars, opVars
  <2>2. CASE ResumeDrain
    BY <2>2 DEF ResumeDrain, taskVars, opVars
  <2>3. CASE ShutDown
    BY <2>3 DEF ShutDown, RunLoop, taskVars, opVars, stopVars
  <2>4. CASE ResumeRerun
    BY <2>4 DEF ResumeRerun, taskVars, opVars, stopVars
  <2> QED BY <2>1, <2>2, <2>3, <2>4
<1> DEFINE r == <<fr, Main>>
<1>2. \A i \in DOMAIN r : r[i].k \in {"drain", "shut", "rerun", "done", "main"}
  BY DEF Drain, Shut, Rerun, Done, Main, Frame
<1>3. Head(r).k # "await"
  BY DEF Drain, Shut, Rerun, Done, Frame
<1> HIDE DEF r
<1>4. Nested(r) = {}
  BY <1>2 DEF Nested
<1>5. \A f \in ToSet(r) : f.k # "trigger"
  BY <1>2 DEF ToSet
<1>6. Within(fiber, r)
  BY <1>4, <1>5 DEF Within
<1>7. fiber \in Fiber
  BY <1>1, Here
<1>8. Mine(r)
  BY <1>1, <1>7, GotoMine DEF r
<1> QED BY <1>1, <1>3, <1>6, <1>7, <1>8, SameOutcome, Calm

(* dispatch_tasks, where it starts no task.                                 *)
LEMMA CalmStopDispatch ==
    ASSUME Inv, Wakes, Book, PromiseOK, StopDispatch
    PROVE  PromiseOK' /\ Moves
<1>1. Top.k \notin Bottom /\ Top.k # "await" /\ Goto(Rest) /\ UNCHANGED <<status, op, stopped>>
  BY DEF StopDispatch, Bottom, taskVars, opVars, stopVars
<1> QED BY <1>1, CalmPop DEF Adds
LEMMA CalmDispatch ==
    ASSUME Inv, Wakes, Book, PromiseOK, DispatchTask, Head(ready) \in Tasks => Head(ready) \in spawned \/ stopped # {}
    PROVE  PromiseOK' /\ Moves
<1> DEFINE t == Head(ready)
<1>1. Top.k = "dispatch" /\ ready # <<>> /\ Top.k \notin {"await", "end"} /\ UNCHANGED <<op, stopped>>
  BY DEF DispatchTask, opVars, stopVars
<1>2. fiber \in Fiber /\ stack[fiber] \in Seq(Frames)
  BY <1>1, Here
<1>3. CASE t = Root /\ UNCHANGED <<stack, taskVars>>
  <2>1. Goto(stack[fiber]) /\ UNCHANGED status
    BY <1>3, GotoSame DEF taskVars
  <2> QED BY <1>1, <2>1, SameOutcome, CalmPush DEF Adds
<1>4. CASE t \in Tasks \ spawned /\ UNCHANGED status /\ Goto(IF t \in disposed THEN stack[fiber] ELSE <<Trigger(t)>> \o stack[fiber])
  <2>1. Trigger(t) \in Frames /\ Trigger(t).k = "trigger" /\ stopped' # {}
    BY <1>1, <1>4, TriggerFrame DEF Trigger, Frame, Awaitables
  <2>2. Adds(stack[fiber], stack[fiber]) /\ Adds(<<Trigger(t)>> \o stack[fiber], stack[fiber])
    BY <2>1 DEF Adds
  <2> QED BY <1>1, <1>4, <2>2, SameOutcome, CalmPush
<1>5. CASE t \in spawned /\ status' = [status EXCEPT ![t] = "RUNNING"] /\ Goto(<<Resched(t)>> \o stack[fiber])
  <2>1. t \in Tasks /\ t \in Awaitables /\ t \in Owners
    BY <1>5 DEF Inv, StatusOK, Begun, Awaitables, Owners
  <2>2. t \in ToSet(ready) \cap Deferred
    BY <1>1, <1>5, ReadyLeft DEF Deferred
  <2>3. Head(stack[t]).k \in Waits
    BY <2>2 DEF Book, DeferredOK, Deferring, Waits
  <2>4. ~Settled(t)
    BY <1>5, <2>1, <2>3, BlockedAlive
  <2>5. OutcomesStay
    BY <1>5, <2>1, <2>4, NoOutcome
  <2>6. Resched(t) \in Frames /\ Resched(t).k = "resched"
    BY <2>1 DEF Resched, Frame, Frames, Kinds, Owners, Lists
  <2>7. Adds(<<Resched(t)>> \o stack[fiber], stack[fiber])
    BY <2>6 DEF Adds
  <2> QED BY <1>1, <1>5, <2>5, <2>7, CalmPush
<1>6. CASE t \in Tasks \ spawned /\ MayStart
  BY <1>6 DEF MayStart
<1> QED BY <1>3, <1>4, <1>5, <1>6 DEF DispatchTask

(* Something is settled.                                                    *)
LEMMA Settling ==
    ASSUME Inv, PromiseOK, fiber \in Fiber, NEW r, Mine(r), Within(fiber, r),
           Top.k # "await", Head(r).k # "await", stopped \subseteq stopped', UNCHANGED op,
           NEW x \in Awaitables, ~Settled(x), NEW v \in {"FINISHED", "FAILED"},
           status' = [status EXCEPT ![x] = v],
           \A f \in Fiber : \A h \in Nested(stack'[f]) : h[2] # x
    PROVE  PromiseOK' /\ Moves
<1>1. /\ status'[x] = v /\ \A y \in Awaitables : y # x => status'[y] = status[y]
  BY DEF Inv, StatusOK
<1>2. Finals' = Finals \cup {x}
  BY <1>1 DEF Finals, Settled
<1>3. \A f \in Fiber : Within(f, stack'[f])
  BY MineWithin
<1>4. \A o \in Owners : Head(stack'[o]).k = "await" => o # fiber /\ stack'[o] = stack[o]
  BY DEF Mine, Fiber
<1>5. PromiseOK'
  BY <1>2, <1>3, <1>4, PromiseStep
<1>6. \A o \in Owners : AwaitedBy(o)' = AwaitedBy(o)
  <2> SUFFICES ASSUME NEW o \in Owners PROVE AwaitedBy(o)' = AwaitedBy(o)
    OBVIOUS
  <2>1. CASE o = fiber
    BY <2>1 DEF AwaitedBy, Mine, Top
  <2>2. CASE o # fiber
    BY <2>2 DEF AwaitedBy, Mine, Fiber
  <2> QED BY <2>1, <2>2
<1>7. OutcomeOf(x) = "pending" /\ OutcomeOf(x)' \in {"ok", "fail"}
  BY <1>1 DEF OutcomeOf, Settled
<1>8. \A y \in Awaitables : y # x => OutcomeOf(y)' = OutcomeOf(y)
  BY <1>1 DEF OutcomeOf
<1>9. Promise!Settle(x)
  <2>1. [y \in Awaitables |-> OutcomeOf(y)]' = [[y \in Awaitables |-> OutcomeOf(y)] EXCEPT ![x] = OutcomeOf(x)']
    BY <1>8
  <2>2. [o \in Owners |-> AwaitedBy(o)]' = [o \in Owners |-> AwaitedBy(o)]
    BY <1>6
  <2> QED BY <1>7, <2>1, <2>2 DEF Promise!Settle
<1>10. Moves
  BY <1>9 DEF Moves, Promise!Next
<1> QED BY <1>5, <1>10

(* A Deferred, or what the shutdown fails.                                  *)
LEMMA SettlesExt ==
    ASSUME Inv, Wakes, Book, PromiseOK, NEW e \in Exts,
           FailUnsettled(e) \/ \E res \in {"FINISHED", "FAILED"} : SettleExt(e, res)
    PROVE  PromiseOK' /\ Moves
<1>1. /\ Top.k \in {"code", "shut"} /\ status[e] = "PENDING" /\ UNCHANGED <<op, stopped>>
      /\ Goto(<<Trigger(e)>> \o stack[fiber])
      /\ \E v \in {"FINISHED", "FAILED"} : status' = [status EXCEPT ![e] = v]
  BY DEF FailUnsettled, SettleExt, Unsettled, Open, InCode, opVars, stopVars
<1>2. PICK v \in {"FINISHED", "FAILED"} : status' = [status EXCEPT ![e] = v]
  BY <1>1
<1>3. e \in Awaitables /\ ~Settled(e) /\ e \notin Tasks
  BY <1>1, NamesAssumption DEF Awaitables, Settled
<1>4. fiber \in Fiber /\ stack[fiber] \in Seq(Frames)
  BY <1>1, Here
<1> DEFINE r == <<Trigger(e)>> \o stack[fiber]
<1>5. Trigger(e) \in Frames /\ Trigger(e).k = "trigger" /\ Trigger(e).x = e
  BY <1>3, TriggerFrame DEF Trigger, Frame
<1>6. e \in Finals'
  BY <1>2, <1>3 DEF Finals, Settled, Inv, StatusOK
<1>7. Within(fiber, r) /\ Head(r) = Trigger(e)
  BY <1>4, <1>5, <1>6, WithinHere, WithinPush, Pushed
<1>8. Mine(r)
  BY <1>1, <1>4, GotoMine
<1> HIDE DEF r
<1>9. \A f \in Fiber : \A h \in Nested(stack'[f]) : h[2] # e
  <2> SUFFICES ASSUME NEW f \in Fiber, NEW h \in Nested(stack'[f]) PROVE h[2] # e
    OBVIOUS
  <2>1. Within(f, stack'[f])
    BY <1>4, <1>7, <1>8, MineWithin
  <2>2. h \in Nested(stack[f])
    BY <2>1 DEF Within
  <2> QED BY <1>3, <2>2, NestedTasks
<1> QED BY <1>1, <1>2, <1>3, <1>4, <1>5, <1>7, <1>8, <1>9, Settling

(* The callback of a task has ended in its own fiber.                       *)
LEMMA SettlesBody ==
    ASSUME Inv, Wakes, Book, PromiseOK, NEW how \in Outcomes, FinishBody(how)
    PROVE  PromiseOK' /\ Moves
<1> DEFINE t == Head(Rest).x
<1>1. /\ Top.k = how /\ Top.k \in Fins /\ Head(Rest).k = "body" /\ stopped \subseteq stopped' /\ UNCHANGED op
      /\ \/ Goto(<<End>>) /\ UNCHANGED status
         \/ Goto(<<Trigger(t), End>>) /\ \E v \in {"FINISHED", "FAILED"} : status' = [status EXCEPT ![t] = v]
  BY DEF FinishBody, Fin, Frame, Outcomes, Fins, Stop, opVars
<1>2. /\ fiber \in Fiber /\ Top.k \notin Bottom /\ Top.k # "await" /\ Top.k # "end"
  <2>1. Top.k \notin Bottom /\ Top.k # "await" /\ Top.k # "end"
    BY <1>1 DEF Bottom, Fins
  <2> QED BY <2>1, Here
<1>3. End.k = "end" /\ End \in Frames
  BY DEF End, Frame, Frames, Kinds, Owners
<1>4. /\ <<End>> \in Seq(Frames) /\ Nested(<<End>>) = {} /\ Head(<<End>>) = End /\ ToSet(<<End>>) = {End}
  BY <1>3 DEF Nested, ToSet
<1>5. Within(fiber, <<End>>)
  BY <1>3, <1>4 DEF Within
<1>6. CASE Goto(<<End>>) /\ UNCHANGED status
  <2>1. Mine(<<End>>)
    BY <1>2, <1>6, GotoMine
  <2> QED BY <1>1, <1>2, <1>3, <1>4, <1>5, <1>6, <2>1, SameOutcome, Calm
<1>7. CASE Goto(<<Trigger(t), End>>) /\ \E v \in {"FINISHED", "FAILED"} : status' = [status EXCEPT ![t] = v]
  <2>1. PICK v \in {"FINISHED", "FAILED"} : status' = [status EXCEPT ![t] = v]
    BY <1>7
  <2>2. t = fiber /\ t \in Tasks /\ t \in Begun /\ t \in Awaitables
    <3>1. /\ WellFormed(Rest, Begun, fiber) /\ Form(Rest, fiber, spawned) /\ Rest \in Seq(Frames) /\ Rest # <<>>
      BY <1>2, PopFrame
    <3>2. Subject(Head(Rest), Begun)
      BY <3>1, Pop
    <3>3. 1 \in DOMAIN Rest /\ Head(Rest) = Rest[1]
      BY <3>1
    <3>4. Stands(Head(Rest), Rest[2], fiber, spawned)
      BY <3>1, <3>3 DEF Form
    <3> QED BY <1>1, <3>2, <3>4 DEF Subject, Stands, Begun, Awaitables
  <2>3. t \in spawned
    <3>1. stack[t] # <<End>>
      BY <1>2, <1>3, <2>2 DEF Top
    <3> QED BY <2>2, <3>1 DEF Wakes, ShapesOK
  <2>4. ~Settled(t)
    <3> DEFINE s == stack[fiber]
    <3>1. Rest = <<Head(Rest)>> /\ Head(Rest).k # "end"
      <4>1. Head(Rest).k \in Bottom /\ Head(Rest).k # "end"
        BY <1>1 DEF Bottom
      <4> QED BY <1>1, <4>1, NothingBelow
    <3>2. Len(Rest) = 1 /\ Rest[1] = Head(Rest)
      BY <3>1
    <3>3. s \in Seq(Frames) /\ s # <<>>
      BY <1>2, Here
    <3>4. Len(Tail(s)) = Len(s) - 1 /\ Len(s) \in Nat /\ \A i \in 1 .. Len(s) - 1 : Tail(s)[i] = s[i + 1]
      BY <3>3, Popped
    <3>5. Len(s) = 2 /\ Tail(s)[1] = s[2]
      <4>1. Len(Tail(s)) = 1
        BY <3>2 DEF Rest
      <4>2. Len(s) = 2
        BY <3>4, <4>1
      <4> QED BY <3>4, <4>2
    <3>6. s[Len(s)] = Head(Rest)
      BY <3>2, <3>5 DEF Rest
    <3> QED BY <2>2, <2>3, <3>1, <3>6 DEF Book, TasksOK
  <2> DEFINE r == <<Trigger(t), End>>
  <2>5. Trigger(t) \in Frames /\ Trigger(t).k = "trigger" /\ Trigger(t).x = t
    BY <2>2, TriggerFrame DEF Trigger, Frame
  <2>6. t \in Finals'
    BY <2>1, <2>2 DEF Finals, Settled, Inv, StatusOK
  <2>7. r = <<Trigger(t)>> \o <<End>>
    OBVIOUS
  <2>8. Within(fiber, r) /\ Head(r) = Trigger(t)
    <3>1. Within(fiber, <<Trigger(t)>> \o <<End>>)
      BY <1>4, <1>5, <2>5, <2>6, WithinPush
    <3>2. Head(r) = Trigger(t)
      OBVIOUS
    <3> QED BY <2>7, <3>1, <3>2
  <2>9. Mine(r)
    BY <1>2, <1>7, GotoMine
  <2> HIDE DEF r
  <2>10. \A f \in Fiber : \A h \in Nested(stack'[f]) : h[2] # t
    <3> SUFFICES ASSUME NEW f \in Fiber, NEW h \in Nested(stack'[f]) PROVE h[2] # t
      OBVIOUS
    <3>1. Within(f, stack'[f])
      BY <1>2, <2>8, <2>9, MineWithin
    <3>2. h \in Nested(stack[f])
      BY <3>1 DEF Within
    <3> QED BY <2>3, <3>2, NestedTasks
  <2> HIDE DEF t
  <2> QED BY <1>1, <1>2, <2>1, <2>2, <2>4, <2>5, <2>8, <2>9, <2>10, Settling
<1> QED BY <1>1, <1>6, <1>7

(* The callback of a task has ended that was executed inline.               *)
LEMMA SettlesInline ==
    ASSUME Inv, Wakes, Book, PromiseOK, NEW how \in Outcomes, FinishInline(how)
    PROVE  PromiseOK' /\ Moves
<1>1. PICK t : t = Head(Rest).x
  OBVIOUS
<1> DEFINE s == Tail(Rest)
           r1 == <<Inlined(t)>> \o s
           r2 == <<Trigger(t)>> \o r1
<1>2. /\ Top.k \in Fins /\ Head(Rest).k = "inline" /\ stopped \subseteq stopped' /\ UNCHANGED op
      /\ Goto(r1) \/ Goto(r2)
      /\ \E v \in {"FINISHED", "FAILED"} : status' = [status EXCEPT ![t] = v]
  BY <1>1 DEF FinishInline, Fin, Frame, Outcomes, Fins, Stop, opVars
<1>3. PICK v \in {"FINISHED", "FAILED"} : status' = [status EXCEPT ![t] = v]
  BY <1>2
<1>4. /\ fiber \in Fiber /\ Top.k \notin Bottom /\ Top.k # "await" /\ Top.k # "end"
      /\ stack[fiber] \in Seq(Frames) /\ stack[fiber] # <<>>
  <2>1. Top.k \notin Bottom /\ Top.k # "await" /\ Top.k # "end"
    BY <1>2 DEF Bottom, Fins
  <2> QED BY <2>1, Here
<1>5. Rest \in Seq(Frames) /\ Rest # <<>> /\ Within(fiber, Rest)
  BY <1>4, PopFrame, WithinHere, WithinPop DEF Rest
<1> DEFINE p == <<Len(Rest) - 1, t>>
<1>6. /\ s \in Seq(Frames) /\ Within(fiber, s) /\ Nested(s) \subseteq Nested(Rest)
      /\ p \in Nested(Rest) /\ \A h \in Nested(s) : h # p
  BY <1>1, <1>2, <1>5, NestedPop, WithinPop, Popped
<1>7. p \in Nested(stack[fiber]) /\ Nested(s) \subseteq Nested(stack[fiber]) /\ p[2] = t
  BY <1>5, <1>6 DEF Within
<1> HIDE DEF p
<1>8. t \in Tasks /\ t \in Awaitables /\ ~Settled(t)
  <2>1. t \in Tasks /\ t \in Awaitables
    BY <1>4, <1>7, NestedTasks
  <2>2. t \notin Finals
    BY <1>4, <1>7 DEF PromiseOK, InlinesOK
  <2> QED BY <2>1, <2>2 DEF Finals
<1>9. t \in Finals'
  BY <1>3, <1>8 DEF Finals, Settled, Inv, StatusOK
<1>10. /\ Inlined(t) \in Frames /\ Inlined(t).k = "inlined"
       /\ Trigger(t) \in Frames /\ Trigger(t).k = "trigger" /\ Trigger(t).x = t
  BY <1>8 DEF Inlined, Trigger, Frame, Frames, Kinds, Owners, Lists
<1> HIDE DEF s
<1>11. r1 \in Seq(Frames) /\ Within(fiber, r1) /\ Nested(r1) = Nested(s) /\ Head(r1) = Inlined(t)
  BY <1>6, <1>10, WithinPush, NestedPush, Pushed
<1> HIDE DEF r1
<1>12. Within(fiber, r2) /\ Nested(r2) = Nested(s) /\ Head(r2) = Trigger(t)
  BY <1>9, <1>10, <1>11, WithinPush, NestedPush, Pushed
<1> HIDE DEF r2
<1>13. PICK r \in {r1, r2} : Goto(r)
  BY <1>2
<1>14. Within(fiber, r) /\ Nested(r) = Nested(s) /\ Head(r).k # "await"
  BY <1>10, <1>11, <1>12
<1>15. Mine(r)
  BY <1>4, <1>13, GotoMine
<1>16. \A f \in Fiber : \A h \in Nested(stack'[f]) : h[2] # t
  <2> SUFFICES ASSUME NEW f \in Fiber, NEW h \in Nested(stack'[f]), h[2] = t PROVE FALSE
    OBVIOUS
  <2>1. h \in Nested(stack[f])
    BY <1>7, <1>14, <1>15 DEF Mine
  <2>2. f = fiber /\ h = p
    BY <1>4, <1>7, <2>1 DEF PromiseOK, InlinesOK
  <2> QED BY <1>6, <1>14, <1>15, <2>2 DEF Mine
<1> QED BY <1>2, <1>3, <1>4, <1>8, <1>14, <1>15, <1>16, Settling

(* An await blocks.                                                         *)
LEMMA Blocking ==
    ASSUME Inv, Wakes, Book, PromiseOK, Careful, NEW x \in Awaitables, AwaitBlock(x)
    PROVE  PromiseOK' /\ Moves
<1>1. /\ MayAwait(x) /\ ~Settled(x) /\ ~Inlinable(x) /\ UNCHANGED <<status, stopped>>
      /\ op' = [op EXCEPT ![Awaiter] = [NoOp EXCEPT !.status = "RUNNING"]]
      /\ Goto(<<Await(x, Awaiter)>> \o stack[fiber])
  BY DEF AwaitBlock, RunLoop, taskVars, stopVars
<1>2. Top.k \in Callers /\ fiber \in Owners /\ fiber \in Fiber
  BY <1>1, AwaiterOK
<1>3. Awaiter = fiber
  BY DEF AwaitBlock
<1>4. stack[fiber] \in Seq(Frames) /\ Top.k # "await"
  <2>1. Top.k # "end" /\ Top.k # "await"
    BY <1>2 DEF Callers
  <2> QED BY <2>1, Here
<1>5. Await(x, fiber) \in Frames /\ Await(x, fiber).k = "await" /\ Await(x, fiber).x = x
  BY <1>2 DEF Await, Frame, Frames, Kinds, Lists
<1> DEFINE r == <<Await(x, fiber)>> \o stack[fiber]
<1>6. Within(fiber, r) /\ Head(r) = Await(x, fiber)
  BY <1>4, <1>5, WithinHere, WithinPush, Pushed
<1>7. Mine(r)
  BY <1>1, <1>2, <1>3, GotoMine
<1> HIDE DEF r
<1>8. Finals' = Finals
  BY <1>1 DEF Finals, Settled
<1>9. \A f \in Fiber : Within(f, stack'[f])
  BY <1>2, <1>6, <1>7, MineWithin
<1>10. op'[fiber].status = "RUNNING" /\ \A o \in Owners : o # fiber => op'[o] = op[o]
  BY <1>1, <1>2, <1>3 DEF Inv, OpsOK, NoOp
<1>11. \A o \in Owners : o # fiber => stack'[o] = stack[o]
  BY <1>7 DEF Mine, Fiber
<1>12. PromiseOK'
  BY <1>1, <1>8, <1>9, <1>10, <1>11, PromiseStep
<1>a. PICK me \in Owners : me = fiber
  BY <1>2
<1>13. AwaitedBy(me) = NoFiber /\ AwaitedBy(me)' = x
  BY <1>4, <1>5, <1>6, <1>7, <1>a DEF AwaitedBy, Mine, Top
<1>14. \A o \in Owners : o # me => AwaitedBy(o)' = AwaitedBy(o)
  BY <1>11, <1>a DEF AwaitedBy
<1>15. OutcomesStay
  BY <1>1, SameOutcome
<1>16. OutcomeOf(x) = "pending"
  BY <1>1 DEF OutcomeOf, Settled
<1>17. Promise!Block(me, x)
  <2>1. [o \in Owners |-> AwaitedBy(o)]' = [[o \in Owners |-> AwaitedBy(o)] EXCEPT ![me] = x]
    BY <1>13, <1>14
  <2>2. [y \in Awaitables |-> OutcomeOf(y)]' = [y \in Awaitables |-> OutcomeOf(y)]
    BY <1>15 DEF OutcomesStay
  <2> QED BY <1>13, <1>16, <2>1, <2>2 DEF Promise!Block
<1>18. Moves
  BY <1>17 DEF Moves, Promise!Next
<1> QED BY <1>12, <1>18

(* An await goes on.                                                        *)
LEMMA Releasing ==
    ASSUME Inv, Wakes, Book, PromiseOK, ResumeAwait
    PROVE  PromiseOK' /\ Moves
<1>1. /\ Top.k = "await" /\ Top.k \in Waits /\ Top.k \notin Bottom /\ Top.k # "end" /\ Top.k \in Calls
      /\ UNCHANGED <<status, stopped>>
      /\ \E how \in Outcomes : Goto(Deliver(how, Rest)) \/ Goto(Bail(Rest))
      /\ \E w : op' = [op EXCEPT ![Top.o] = w]
  BY DEF ResumeAwait, Waits, Bottom, Calls, HowOf, Outcomes, taskVars, stopVars
<1>2. Top.o = fiber /\ fiber \in Owners /\ Head(Rest).k \in Callers /\ fiber \in Fiber
  BY <1>1, BelowWait DEF Fiber
<1>3. PICK r : Goto(r) /\ Within(fiber, r) /\ Head(r).k # "await"
  BY <1>1, <1>2, WithinReturn
<1>4. Mine(r)
  BY <1>2, <1>3, GotoMine
<1>5. Finals' = Finals
  BY <1>1 DEF Finals, Settled
<1>6. \A f \in Fiber : Within(f, stack'[f])
  BY <1>2, <1>3, <1>4, MineWithin
<1>7. \A o \in Owners : o # fiber => stack'[o] = stack[o] /\ op'[o] = op[o]
  BY <1>1, <1>2, <1>4 DEF Mine, Fiber, Inv, OpsOK
<1>8. stack'[fiber] = r
  BY <1>4 DEF Mine
<1>9. \A o \in Owners : Head(stack'[o]).k = "await" =>
          Head(stack'[o]) = Head(stack[o]) /\ op'[o].status = op[o].status
  <2> SUFFICES ASSUME NEW o \in Owners, Head(stack'[o]).k = "await"
               PROVE  Head(stack'[o]) = Head(stack[o]) /\ op'[o].status = op[o].status
    OBVIOUS
  <2>1. o # fiber
    BY <1>3, <1>8
  <2> QED BY <1>7, <2>1
<1>10. PromiseOK'
  BY <1>1, <1>5, <1>6, <1>9, PromiseStep
<1>a. PICK me \in Owners : me = fiber
  BY <1>2
<1>11. ASSUME stopped' = {} PROVE Promise!Release(me)
  <2>1. Top.x \in Finals
    <3>1. op[fiber].status # "RUNNING"
      BY <1>1, <1>2, <1>11 DEF Book, QueuedOK
    <3> QED BY <1>1, <1>2, <1>11, <3>1 DEF PromiseOK, Told, Top
  <2>2. AwaitedBy(me) = Top.x /\ AwaitedBy(me)' = NoFiber
    BY <1>1, <1>3, <1>8, <1>a DEF AwaitedBy, Top
  <2>3. Top.x \in Awaitables /\ OutcomeOf(Top.x) # "pending"
    BY <2>1 DEF Finals, OutcomeOf, Settled
  <2>4. Top.x # NoFiber
    BY <2>3, NamesAssumption DEF Awaitables
  <2>5. [o \in Owners |-> AwaitedBy(o)]' = [[o \in Owners |-> AwaitedBy(o)] EXCEPT ![me] = NoFiber]
    <3>1. \A o \in Owners : o # me => AwaitedBy(o)' = AwaitedBy(o)
      BY <1>7, <1>a DEF AwaitedBy
    <3> QED BY <2>2, <3>1
  <2>6. [y \in Awaitables |-> OutcomeOf(y)]' = [y \in Awaitables |-> OutcomeOf(y)]
    BY <1>1, SameOutcome DEF OutcomesStay
  <2> QED BY <2>2, <2>3, <2>4, <2>5, <2>6 DEF Promise!Release
<1>12. Moves
  BY <1>11 DEF Moves, Promise!Next
<1> QED BY <1>10, <1>12

(* An inline execution starts.                                              *)
LEMMA Nesting ==
    ASSUME Inv, Wakes, Book, PromiseOK, Careful, NEW x \in Awaitables, AwaitInline(x)
    PROVE  PromiseOK' /\ Moves
<1>1. /\ MayAwait(x) /\ x \in Tasks /\ x \notin spawned /\ status[x] = "INIT"
      /\ status' = [status EXCEPT ![x] = "RUNNING"]
      /\ Goto(<<Code(x), Inline(x, Top.o)>> \o stack[fiber])
      /\ UNCHANGED <<op, stopped>>
  BY DEF AwaitInline, Inlinable, opVars, stopVars
<1>2. fiber \in Fiber /\ Top.k \in Callers /\ fiber \in Owners /\ Top \in Frames /\ Top.k # "await"
  BY <1>1, AwaiterOK DEF Callers
<1>3. PICK s \in Seq(Frames) : s = stack[fiber]
  <2>1. Top.k # "end"
    BY <1>2 DEF Callers
  <2> QED BY <2>1, Here
<1>4. Inline(x, Top.o) \in Frames /\ Code(x) \in Frames
  BY <1>1, <1>2 DEF Inline, Code, Frame, Frames, Kinds, Owners
<1>5. PICK i \in Frames, c \in Frames :
          /\ i = Inline(x, Top.o) /\ c = Code(x)
          /\ i.k = "inline" /\ i.x = x /\ c.k = "code"
  BY <1>4 DEF Inline, Code, Frame
<1>6. PICK q \in Seq(Frames) : q = <<i>> \o s
  BY <1>3, Pushed
<1>7. PICK r : r = <<c>> \o q
  OBVIOUS
<1>8. r = <<c, i>> \o s
  <2>1. \A a, b \in Frames : \A u \in Seq(Frames) : <<a, b>> \o u = <<a>> \o (<<b>> \o u)
    BY TwoInFront
  <2> QED BY <1>3, <1>6, <1>7, <2>1, Zenon
<1>9. Mine(r)
  <2>1. Goto(r)
    BY <1>1, <1>3, <1>5, <1>8
  <2> QED BY <1>2, <2>1, GotoMine
<1>10. Head(r) = c /\ ToSet(r) = {c, i} \cup ToSet(s)
  <2>1. ToSet(q) = {i} \cup ToSet(s)
    BY <1>6, Pushed
  <2>2. Head(r) = c /\ ToSet(r) = {c} \cup ToSet(q)
    BY <1>7, Pushed
  <2> QED BY <2>1, <2>2
<1>11. Nested(r) = Nested(s) \cup {<<Len(s), x>>}
  <2>1. Nested(q) = Nested(s) \cup {<<Len(s), x>>}
    BY <1>5, <1>6, NestedPush
  <2>2. Nested(r) = Nested(q)
    BY <1>5, <1>7, NestedPush
  <2> QED BY <2>1, <2>2
<1>12. ~Settled(x) /\ x \notin Finals
  BY <1>1 DEF Settled, Finals
<1>13. OutcomesStay
  BY <1>1, <1>12, NoOutcome
<1>14. Finals' = Finals
  BY <1>13 DEF OutcomesStay, OutcomeOf, Settled, Finals
<1>15. \A f \in Fiber : \A h \in Nested(stack[f]) : h[2] # x
  <2>1. x \notin Begun
    BY <1>1 DEF Begun
  <2> QED BY <2>1, NestedTasks
<1>16. \A f \in Fiber : \A h \in Nested(stack'[f]) :
          h \in Nested(stack[f]) \/ (f = fiber /\ h = <<Len(s), x>>)
  BY <1>3, <1>9, <1>11 DEF Mine
<1>17. InlinesOK'
  <2>1. \A f \in Fiber : \A h \in Nested(stack'[f]) : h[2] \notin Finals'
    BY <1>12, <1>14, <1>16 DEF PromiseOK, InlinesOK
  <2>2. \A f, g \in Fiber : \A h \in Nested(stack'[f]), k \in Nested(stack'[g]) :
           h[2] = k[2] => f = g /\ h = k
    <3> SUFFICES ASSUME NEW f \in Fiber, NEW g \in Fiber, NEW h \in Nested(stack'[f]),
                        NEW k \in Nested(stack'[g]), h[2] = k[2]
                 PROVE  f = g /\ h = k
      OBVIOUS
    <3>1. CASE h[2] = x
      BY <1>15, <1>16, <3>1
    <3>2. CASE h[2] # x
      BY <1>16, <3>2 DEF PromiseOK, InlinesOK
    <3> QED BY <3>1, <3>2
  <2> QED BY <2>1, <2>2 DEF InlinesOK, Nested
<1>18. ASSUME stopped' = {} PROVE LoopsOK' /\ Told'
  <2>1. stopped = {} /\ LoopsOK /\ Told
    BY <1>1, <1>18 DEF PromiseOK
  <2>2. \A f \in Fiber : \A fr \in ToSet(stack'[f]) :
            fr.k = "trigger" => fr \in ToSet(stack[f]) \/ fr.x \in Finals'
    BY <1>3, <1>5, <1>9, <1>10 DEF Mine
  <2>3. \A o \in Owners : Head(stack'[o]).k = "await" =>
            Head(stack'[o]) = Head(stack[o]) /\ op'[o].status = op[o].status
    BY <1>1, <1>5, <1>9, <1>10 DEF Mine, Fiber
  <2> QED BY <1>14, <2>1, <2>2, <2>3, ToldStep
<1>19. PromiseOK'
  BY <1>17, <1>18 DEF PromiseOK
<1>20. \A o \in Owners : AwaitedBy(o)' = AwaitedBy(o)
  <2> SUFFICES ASSUME NEW o \in Owners PROVE AwaitedBy(o)' = AwaitedBy(o)
    OBVIOUS
  <2>1. CASE o = fiber
    BY <1>2, <1>5, <1>9, <1>10, <2>1 DEF AwaitedBy, Mine, Top
  <2>2. CASE o # fiber
    BY <1>9, <2>2 DEF AwaitedBy, Mine, Fiber
  <2> QED BY <2>1, <2>2
<1> QED BY <1>13, <1>19, <1>20, Unmoved DEF OutcomesStay

(* The dispatcher starts a task.                                            *)
LEMMA CalmStart ==
    ASSUME Inv, Wakes, Book, PromiseOK, Top.k = "dispatch", ready # <<>>, ready' = Tail(ready),
           NEW t \in Tasks \ spawned, t = Head(ready), UNCHANGED <<op, stopped>>,
           status' = [status EXCEPT ![t] = "RUNNING"],
           stack' = [stack EXCEPT ![fiber] = <<Resched(t)>> \o @, ![t] = <<Code(t), Body(t)>>]
    PROVE  PromiseOK' /\ Moves
<1>1. /\ fiber = Runner /\ fiber \in Fiber /\ fiber \notin Owners /\ Top.k # "end"
  BY Dispatching
<1>2. /\ t \in Owners /\ t \in Fiber /\ t # fiber /\ t \in Awaitables
  BY <1>1 DEF Owners, Fiber, Awaitables
<1>3. ~Settled(t)
  <2>1. t # Root
    BY NamesAssumption
  <2>2. Head(ready) \in spawned \cup Fresh \cup {Root}
    BY TakeReady
  <2> QED BY <2>1, <2>2 DEF Fresh, Settled
<1>4. OutcomesStay
  BY <1>2, <1>3, NoOutcome
<1>5. Finals' = Finals
  BY <1>4 DEF OutcomesStay, OutcomeOf, Settled, Finals
<1>6. PICK r : r = <<Resched(t)>> \o stack[fiber]
  OBVIOUS
<1>7. PICK s : s = <<Code(t), Body(t)>>
  OBVIOUS
<1>8. /\ stack'[fiber] = r /\ stack'[t] = s /\ \A f \in Fiber : f # fiber /\ f # t => stack'[f] = stack[f]
  BY <1>1, <1>2, <1>6, <1>7 DEF Inv, StacksOK
<1>9. Within(fiber, r)
  <2>1. Resched(t) \in Frames /\ Resched(t).k = "resched"
    BY <1>2 DEF Resched, Frame, Frames, Kinds, Owners, Lists
  <2>2. stack[fiber] \in Seq(Frames)
    BY <1>1, Here
  <2> QED BY <1>6, <2>1, <2>2, WithinHere, WithinPush
<1>10. /\ Head(s).k = "code" /\ DOMAIN s = {1, 2} /\ s[1].k = "code" /\ s[2].k = "body"
  BY <1>7 DEF Code, Body, Frame
<1>11. Within(t, s)
  <2>1. \A j \in DOMAIN s : s[j].k # "inline" /\ s[j].k # "trigger"
    BY <1>10
  <2>2. Nested(s) = {}
    BY <2>1 DEF Nested
  <2>3. \A fr \in ToSet(s) : fr.k # "trigger"
    BY <2>1 DEF ToSet
  <2> QED BY <2>2, <2>3 DEF Within
<1>12. \A f \in Fiber : Within(f, stack'[f])
  <2> SUFFICES ASSUME NEW f \in Fiber PROVE Within(f, stack'[f])
    OBVIOUS
  <2>1. CASE f = fiber
    BY <1>8, <1>9, <2>1
  <2>2. CASE f = t
    BY <1>8, <1>11, <2>2
  <2>3. CASE f # fiber /\ f # t
    BY <1>8, <2>3, WithinHere
  <2> QED BY <2>1, <2>2, <2>3
<1>13. Head(stack[t]).k # "await"
  <2>1. stack[t] = <<End>>
    BY DEF Wakes, ShapesOK
  <2> QED BY <2>1 DEF End, Frame
<1>14. \A o \in Owners : o # t => stack'[o] = stack[o]
  BY <1>1, <1>8 DEF Fiber
<1>15. PromiseOK'
  <2>1. \A o \in Owners : Head(stack'[o]).k = "await" =>
            Head(stack'[o]) = Head(stack[o]) /\ op'[o].status = op[o].status
    BY <1>8, <1>10, <1>14
  <2> QED BY <1>5, <1>12, <2>1, PromiseStep
<1>16. \A o \in Owners : AwaitedBy(o)' = AwaitedBy(o)
  <2> SUFFICES ASSUME NEW o \in Owners PROVE AwaitedBy(o)' = AwaitedBy(o)
    OBVIOUS
  <2>1. CASE o = t
    BY <1>8, <1>10, <1>13, <2>1 DEF AwaitedBy
  <2>2. CASE o # t
    <3>1. stack'[o] = stack[o]
      BY <1>14, <2>2
    <3> QED BY <3>1 DEF AwaitedBy
  <2> QED BY <2>1, <2>2
<1> QED BY <1>4, <1>15, <1>16, Unmoved DEF OutcomesStay

(* dispatch_tasks.                                                          *)
LEMMA CalmDispatchTask ==
    ASSUME Inv, Wakes, Book, PromiseOK, DispatchTask
    PROVE  PromiseOK' /\ Moves
<1>1. CASE Head(ready) \in Tasks => Head(ready) \in spawned \/ stopped # {}
  BY <1>1, CalmDispatch
<1>2. CASE Head(ready) \in Tasks \ spawned /\ stopped = {}
  <2>1. PICK t \in Tasks \ spawned : t = Head(ready)
    BY <1>2
  <2>2. t # Root
    BY NamesAssumption
  <2>3. /\ Top.k = "dispatch" /\ ready # <<>> /\ ready' = Tail(ready) /\ UNCHANGED <<op, stopped>>
    BY DEF DispatchTask, opVars, stopVars
  <2>4. /\ status' = [status EXCEPT ![t] = "RUNNING"]
        /\ stack' = [stack EXCEPT ![fiber] = <<Resched(t)>> \o @, ![t] = <<Code(t), Body(t)>>]
    BY <1>2, <2>1, <2>2 DEF DispatchTask, MayStart
  <2> QED BY <2>1, <2>3, <2>4, CalmStart
<1> QED BY <1>1, <1>2

-------------------------------------------------------------------------------
(* The promise holds in the beginning, and no step breaks it.               *)
LEMMA PromiseInit ==
    ASSUME Init
    PROVE  PromiseOK /\ Promise!Init
<1>1. \A f \in Fiber : \A i \in DOMAIN stack[f] : stack[f][i].k \in {"code", "main", "loop", "end"}
  BY FirstStacks
<1>2. \A o \in Owners : Head(stack[o]).k \in {"code", "loop", "end"}
  BY FirstStacks DEF Fiber
<1>3. \A f \in Fiber : Nested(stack[f]) = {}
  <2> SUFFICES ASSUME NEW f \in Fiber PROVE Nested(stack[f]) = {}
    OBVIOUS
  <2>1. \A j \in DOMAIN stack[f] : stack[f][j].k # "inline"
    BY <1>1
  <2> QED BY <2>1 DEF Nested
<1>4. LoopsOK
  BY <1>1 DEF LoopsOK, ToSet
<1>5. Told
  BY <1>2 DEF Told
<1>6. InlinesOK
  BY <1>3 DEF InlinesOK
<1>7. \A x \in Awaitables : OutcomeOf(x) = "pending"
  BY DEF Init, OutcomeOf
<1>8. \A o \in Owners : AwaitedBy(o) = NoFiber
  BY <1>2 DEF AwaitedBy
<1> QED BY <1>4, <1>5, <1>6, <1>7, <1>8 DEF PromiseOK, Promise!Init

(* The steps of PHP code.                                                   *)
LEMMA PromisePhpCode ==
    ASSUME Inv, Wakes, Book, PromiseOK, Careful, PhpCode
    PROVE  PromiseOK' /\ Moves
BY CalmAsync, Nesting, Blocking, CalmReturn, CalmAwaitOp, CalmCompletes, SettlesExt, CalmCalls DEF PhpCode

(* The steps of the C code.                                                 *)
LEMMA PromiseEngine ==
    ASSUME Inv, Wakes, Book, PromiseOK, Engine
    PROVE  PromiseOK' /\ Moves
BY SettlesBody, SettlesInline, CalmStages, CalmReturnSettled, CalmReturnInlined, CalmTriggerOps,
   CalmAfterSwitch, CalmControl, Releasing, CalmResumeOp, CalmCancelOps, CalmCompletes,
   SettlesExt DEF Engine

(* The steps of the event loop.                                             *)
LEMMA PromiseEventLoop ==
    ASSUME Inv, Wakes, Book, PromiseOK, EventLoop
    PROVE  PromiseOK' /\ Moves
BY CalmCalls, CalmDispatchTask, CalmStopDispatch, CalmCompletes, CalmControl DEF EventLoop

(* All steps.                                                               *)
LEMMA PromiseNext ==
    ASSUME Careful, Inv, Wakes, Book, PromiseOK, [Next]_vars
    PROVE  PromiseOK' /\ Moves
<1>1. CASE UNCHANGED vars
  <2>1. UNCHANGED <<stack, status, op, stopped>>
    BY <1>1 DEF vars, fiberVars, taskVars, opVars, stopVars
  <2>2. Finals' = Finals
    BY <2>1 DEF Finals, Settled
  <2>3. PromiseOK'
    BY <2>1, <2>2 DEF PromiseOK, InlinesOK, LoopsOK, Told, Nested
  <2>4. \A x \in Awaitables : OutcomeOf(x)' = OutcomeOf(x)
    BY <2>1 DEF OutcomeOf
  <2>5. \A o \in Owners : AwaitedBy(o)' = AwaitedBy(o)
    BY <2>1 DEF AwaitedBy
  <2> QED BY <2>3, <2>4, <2>5, Unmoved
<1> QED BY <1>1, PromisePhpCode, PromiseEngine, PromiseEventLoop DEF Next

(* Where PHP code stays clear of the two inlining defects and of a task that*)
(* waits for itself, and the main script runs in a foreground context,      *)
(* Task::await keeps what it promises until exit() or a fatal error stops   *)
(* the scheduler (async_task_scheduler_handle_error/_exit): a task or an    *)
(* awaitable has one outcome, for good; await blocks only for one that has  *)
(* none yet, and who is blocked goes on only after there is one, however    *)
(* the wake-up got there: by a switch, through the ready list or the loop.  *)
THEOREM AwaitsKeepPromise == ASSUME Careful, Foreground(Root) PROVE Spec => AwaitKeepsPromise
<1>1. Init => Books /\ PromiseOK /\ Promise!Init
  BY BooksInit, PromiseInit
<1>2. Books /\ PromiseOK /\ [Next]_vars => Books' /\ PromiseOK'
  BY BooksNext, PromiseNext DEF Books
<1>3. Books /\ PromiseOK /\ [Next]_vars => (stopped' = {} => [Promise!Next]_(Promise!vars))
  BY PromiseNext DEF Books, Moves
<1> QED BY <1>1, <1>2, <1>3, PTL DEF Spec, AwaitKeepsPromise
===============================================================================
