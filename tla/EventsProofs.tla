----------------------------- MODULE EventsProofs -----------------------------
(***************************************************************************)
(* Theorems of the events: every reference of an event is accounted for,    *)
(* the lists agree, and the loop sleeps and ends only when it may, for any  *)
(* number of ticks, timers and polls.                                       *)
(***************************************************************************)
EXTENDS Events, SequenceLemmas, FiniteSetTheorems

(* The inductive invariant.                                                 *)

(* The objects.  An object v of event e, whose callback runs if b holds,    *)
(* with n references that nobody has.                                       *)
Objects == [made : BOOLEAN, held : BOOLEAN, refs : Int, list : {"none", "ticks", "running"},
            hnd : {"idle", "active", "closing", "closed"}, refd : BOOLEAN, closed : BOOLEAN,
            sched : BOOLEAN, periodic : BOOLEAN, repeat : BOOLEAN]
Holds(v, b) ==
    Count(v.held) + Count(v.list # "none") + Count(v.sched) + Count(v.hnd = "closing") + Count(b)
Shape(e, v, b) ==
    /\ ~v.made => ~v.held /\ v.list = "none" /\ v.refd /\ v.hnd = "idle" /\ ~v.sched /\ ~b
    /\ v.list # "none" => Kind[e] = "tick"
    /\ Kind[e] = "tick" => v.hnd = "idle" /\ ~v.sched
    /\ v.sched => Open(v)
    /\ v.hnd = "active" => v.sched
    /\ v.repeat => v.periodic
    /\ Kind[e] = "timer" /\ v.made /\ ~v.closed /\ (v.held \/ b) => Open(v)
Owing(e, v, b, n) == v \in Objects /\ v.refs = Holds(v, b) + n /\ Shape(e, v, b)
Good(e, v, b) == Owing(e, v, b, 0) /\ (v.made /\ v.refs = 0 /\ Kind[e] # "tick" => v.hnd = "closed")
ObjectsOK ==
    /\ ev \in [Events -> Objects]
    /\ \A e \in Events : Good(e, ev[e], cb = e)

(* The lists.                                                               *)
ListsOK ==
    /\ ticks \in Seq(Events) /\ Single(ticks, Events)
    /\ running \in Seq(Events) /\ Single(running, Events)
    /\ \A e \in Events : ev[e].list = "ticks" <=> e \in ToSet(ticks)
    /\ \A e \in Events : ev[e].list = "running" <=> e \in ToSet(running)
    /\ refticks = Cardinality(Counted)

(* The loop.  When ticks are waiting it does not sleep: it was told not to  *)
(* when uv_run was called, or it was stopped since.                         *)
Places == {"main", "top", "ticks", "run", "time", "timers", "sleep", "poll", "after"}
Phases == {"script", "ending", "first", "second", "last", "done"}
InTicks == pc = "ticks" \/ (pc = "code" /\ back = "ticks")
LoopOK ==
    /\ pc \in Places \cup {"code"} /\ phase \in Phases
    /\ pc = "code" => cb \in Events \cup {"op"} /\ back \in {"ticks", "timers", "poll"}
    /\ pc # "code" => cb = None
    /\ phase \in {"first", "done"} => pc = "main"
    /\ ~InTicks => running = <<>>
    /\ nowait \in BOOLEAN /\ uvstop \in BOOLEAN
    /\ Active /\ ticks # <<>> => nowait \/ uvstop
    /\ pc = "sleep" => ~nowait /\ ~uvstop
    /\ \A e \in due : e \in Of("timer") /\ ev[e].hnd = "active"

(* The end.  Shut: the handles of all events are closed, or will be.        *)
Shut == \A e \in Events : ev[e].made /\ Kind[e] # "tick" => ~Open(ev[e])
NoneClosing == \A e \in Events : ev[e].hnd # "closing"
EndOK ==
    /\ Disposed => ~busy /\ Shut
    /\ (phase = "second" /\ pc \in {"after", "main"}) \/ phase \in {"last", "done"} => NoneClosing
    /\ pc = "main" /\ phase \in {"ending", "second", "last"} /\ stopped = {} => refticks = 0
    /\ phase = "done" => \A e \in Events : Kind[e] # "tick" => ev[e].refs = 0

Inv == ObjectsOK /\ ListsOK /\ LoopOK /\ EndOK
-------------------------------------------------------------------------------
(* Objects.                                                                 *)

(* What an object w may become of v: handles that are closed stay closed.   *)
Ages(e, v, w) ==
    /\ w.made = v.made
    /\ Kind[e] # "tick" /\ ~Open(v) => ~Open(w)
    /\ w.hnd = "closing" => v.hnd = "closing" \/ (Open(v) /\ v.made /\ Kind[e] # "tick")

(* The fields of v and w that the lists depend on are the same; all are but *)
(* those about references and the handle.                                   *)
Listing(v, w) == w.list = v.list /\ w.refd = v.refd
Same(v, w) ==
    /\ w.made = v.made /\ w.held = v.held /\ Listing(v, w)
    /\ w.periodic = v.periodic /\ w.repeat = v.repeat
Is(w, v, r, h, s, c) ==
    w \in Objects /\ Same(v, w) /\ w.refs = r /\ w.hnd = h /\ w.sched = s /\ w.closed = c

(* What nobody refers to.                                                   *)
LEMMA HoldsNothing ==
    ASSUME NEW v \in Objects, NEW b \in BOOLEAN
    PROVE  /\ Holds(v, b) \in Nat
           /\ Holds(v, b) = 0 => ~v.held /\ v.list = "none" /\ ~v.sched /\ v.hnd # "closing" /\ ~b
<1> DEFINE h == v.held
           l == v.list # "none"
           s == v.sched
           c == v.hnd = "closing"
<1>1. h \in BOOLEAN /\ l \in BOOLEAN /\ s \in BOOLEAN /\ c \in BOOLEAN
  BY DEF Objects
<1>2. Holds(v, b) = Count(h) + Count(l) + Count(s) + Count(c) + Count(b)
  BY DEF Holds
<1> HIDE DEF h, l, s, c
<1>3. Holds(v, b) \in Nat /\ (Holds(v, b) = 0 => ~h /\ ~l /\ ~s /\ ~c /\ ~b)
  BY <1>1, <1>2 DEF Count
<1> QED BY <1>3 DEF h, l, s, c

(* The fields of an object.                                                 *)
LEMMA Fields ==
    ASSUME NEW v \in Objects
    PROVE  /\ v.refs \in Int /\ v.hnd \in {"idle", "active", "closing", "closed"}
           /\ v.made \in BOOLEAN /\ v.held \in BOOLEAN /\ v.sched \in BOOLEAN /\ v.closed \in BOOLEAN
           /\ v.refd \in BOOLEAN /\ v.periodic \in BOOLEAN /\ v.repeat \in BOOLEAN
           /\ v.list \in {"none", "ticks", "running"}
           /\ Is(v, v, v.refs, v.hnd, v.sched, v.closed)
BY DEF Objects, Is, Same, Listing

(* ASYNC_ADDREF, and ASYNC_DELREF without the destructor.                   *)
LEMMA Referred ==
    ASSUME NEW v, v \in Objects
    PROVE  /\ Is([v EXCEPT !.refs = @ + 1], v, v.refs + 1, v.hnd, v.sched, v.closed)
           /\ Is([v EXCEPT !.refs = @ - 1], v, v.refs - 1, v.hnd, v.sched, v.closed)
<1>1. \A r \in Int : Is([v EXCEPT !.refs = r], v, r, v.hnd, v.sched, v.closed)
  BY DEF Objects, Is, Same, Listing
<1>2. v.refs + 1 \in Int /\ v.refs - 1 \in Int
  BY DEF Objects
<1> QED BY <1>1, <1>2

(* The handle.                                                              *)
LEMMA Handled ==
    ASSUME NEW v, v \in Objects, NEW h \in {"idle", "active", "closing", "closed"},
           NEW w, w = [v EXCEPT !.hnd = h]
    PROVE  Is(w, v, v.refs, h, v.sched, v.closed)
BY DEF Objects, Is, Same, Listing

(* The flag that marks an event as closed.                                  *)
LEMMA Marked ==
    ASSUME NEW v, v \in Objects, NEW c \in BOOLEAN, NEW w, w = [v EXCEPT !.closed = c]
    PROVE  Is(w, v, v.refs, v.hnd, v.sched, c)
BY DEF Objects, Is, Same, Listing

(* The flag SCHEDULED, and its reference.                                   *)
LEMMA Unscheduled ==
    ASSUME NEW v, v \in Objects
    PROVE  Is(Unschedule(v), v, v.refs - Count(v.sched), v.hnd, FALSE, v.closed)
<1>1. CASE v.sched
  <2>1. PICK r \in Int : r = v.refs - 1
    BY DEF Objects
  <2>2. Unschedule(v) = [v EXCEPT !.sched = FALSE, !.refs = r]
    BY <1>1, <2>1 DEF Unschedule
  <2>3. Count(v.sched) = 1
    BY <1>1 DEF Count
  <2> QED BY <2>1, <2>2, <2>3 DEF Objects, Is, Same, Listing
<1>2. CASE ~v.sched
  <2>1. Unschedule(v) = v /\ v.sched = FALSE /\ Count(v.sched) = 0 /\ v.refs - 0 = v.refs
    BY <1>2 DEF Unschedule, Objects, Count
  <2> QED BY <2>1 DEF Objects, Is, Same, Listing
<1> QED BY <1>1, <1>2

(* uv_close.                                                                *)
LEMMA Closing ==
    ASSUME NEW v \in Objects
    PROVE  /\ Open(v) => Is(CloseHandle(v), v, v.refs + 1 - Count(v.sched), "closing", FALSE, v.closed)
           /\ ~Open(v) => CloseHandle(v) = v
<1>1. ~Open(v) => CloseHandle(v) = v
  BY DEF CloseHandle
<1>2. ASSUME Open(v) PROVE Is(CloseHandle(v), v, v.refs + 1 - Count(v.sched), "closing", FALSE, v.closed)
  <2>1. PICK a : a = [v EXCEPT !.refs = @ + 1]
    OBVIOUS
  <2>2. Is(a, v, v.refs + 1, v.hnd, v.sched, v.closed)
    BY <2>1, Referred
  <2>3. PICK u : u = [a EXCEPT !.hnd = "closing"]
    OBVIOUS
  <2>4. Is(u, a, a.refs, "closing", a.sched, a.closed)
    <3>1. a \in Objects
      BY <2>2 DEF Is
    <3> QED BY <2>3, <3>1, Handled
  <2>5. Is(Unschedule(u), u, u.refs - Count(u.sched), u.hnd, FALSE, u.closed)
    BY <2>4, Unscheduled DEF Is
  <2>6. CloseHandle(v) = Unschedule(u)
    BY <1>2, <2>1, <2>3 DEF CloseHandle, Addref
  <2>7. PICK w : w = Unschedule(u)
    OBVIOUS
  <2>8. Is(w, v, v.refs + 1 - Count(v.sched), "closing", FALSE, v.closed)
    <3>1. u.refs = v.refs + 1 /\ u.sched = v.sched /\ w.refs = u.refs - Count(u.sched)
      BY <2>2, <2>4, <2>5, <2>7, Zenon DEF Is
    <3>2. w.refs = v.refs + 1 - Count(v.sched)
      <4>1. Count(u.sched) = Count(v.sched)
        BY <3>1
      <4>2. w.refs = u.refs - Count(v.sched)
        BY <3>1, <4>1
      <4>3. v.refs \in Int /\ Count(v.sched) \in Int
        BY Fields DEF Count
      <4> QED BY <3>1, <4>2, <4>3
    <3>3. w \in Objects /\ Same(v, w) /\ w.hnd = "closing" /\ w.sched = FALSE /\ w.closed = v.closed
      BY <2>2, <2>4, <2>5, <2>7, Zenon DEF Is, Same, Listing
    <3> QED BY <3>2, <3>3 DEF Is
  <2> QED BY <2>6, <2>7, <2>8
<1> QED BY <1>1, <1>2

(* The destructor of a timer or poll, and the shutdown of one, whose object *)
(* v becomes w: c says whether the event is marked as closed then.          *)
Closable(e, v, b) == Owing(e, v, b, 0) /\ v.made /\ Kind[e] # "tick"
Marks(e, v, b, c) == c \in BOOLEAN /\ (v.closed => c) /\ (Kind[e] = "timer" /\ (v.held \/ b) => c)
ClosedAs(w, v, c) == w = [CloseHandle(v) EXCEPT !.closed = c]

(* The references are counted after it as before.                           *)
LEMMA ClosedHandle ==
    ASSUME NEW e \in Events, NEW v, NEW b \in BOOLEAN, Closable(e, v, b),
           NEW c, Marks(e, v, b, c), NEW w, ClosedAs(w, v, c)
    PROVE  Owing(e, w, b, 0) /\ w.made /\ Listing(v, w) /\ Ages(e, v, w) /\ ~Open(w) /\ w.held = v.held
<1>0. /\ c \in BOOLEAN /\ (v.closed => c) /\ (Kind[e] = "timer" /\ (v.held \/ b) => c)
      /\ Owing(e, v, b, 0) /\ v.made /\ Kind[e] # "tick" /\ w = [CloseHandle(v) EXCEPT !.closed = c]
  BY DEF Marks, Closable, ClosedAs
<1> USE <1>0
<1>1. v \in Objects /\ v.refs \in Int /\ v.sched \in BOOLEAN
  BY Fields DEF Owing
<1>2. CASE ~Open(v)
  <2>1. w = [v EXCEPT !.closed = c]
    BY <1>1, <1>2, Closing
  <2>2. Is(w, v, v.refs, v.hnd, v.sched, c)
    BY <1>1, <2>1, Marked
  <2>3. Holds(w, b) = Holds(v, b)
    BY <2>2 DEF Is, Same, Listing, Holds
  <2>4. Shape(e, w, b)
    BY <1>2, <2>2 DEF Owing, Shape, Open, Is, Same, Listing
  <2> QED BY <1>2, <2>2, <2>3, <2>4 DEF Owing, Listing, Ages, Open, Is, Same
<1>3. CASE Open(v)
  <2>1. PICK u : u = CloseHandle(v)
    OBVIOUS
  <2>2. Is(u, v, v.refs + 1 - Count(v.sched), "closing", FALSE, v.closed)
    BY <1>1, <1>3, <2>1, Closing
  <2>3. Is(w, u, u.refs, u.hnd, u.sched, c)
    <3>1. u \in Objects /\ w = [u EXCEPT !.closed = c]
      BY <2>1, <2>2 DEF Is
    <3> QED BY <3>1, Marked
  <2>4. Is(w, v, v.refs + 1 - Count(v.sched), "closing", FALSE, c)
    BY <2>2, <2>3 DEF Is, Same, Listing
  <2>5. w.refs = Holds(w, b) + 0
    <3>1. Holds(v, b) = Count(v.held) + Count(v.list # "none") + Count(v.sched) + Count(FALSE) + Count(b)
      <4>1. v.hnd # "closing"
        BY <1>3 DEF Open
      <4> QED BY <4>1 DEF Holds
    <3>2. Holds(w, b) = Count(v.held) + Count(v.list # "none") + Count(FALSE) + Count(TRUE) + Count(b)
      BY <2>4 DEF Holds, Is, Same, Listing
    <3>3. w.refs = v.refs + 1 - Count(v.sched) /\ v.refs = Holds(v, b) + 0
      BY <2>4 DEF Owing, Is
    <3> HIDE <1>3, <2>1, <2>2, <2>3, <2>4
    <3> QED BY <1>1, <3>1, <3>2, <3>3 DEF Count
  <2>6. Shape(e, w, b)
    BY <2>4 DEF Owing, Shape, Open, Is, Same, Listing
  <2> QED BY <1>3, <2>4, <2>5, <2>6 DEF Owing, Listing, Ages, Open, Is, Same
<1> QED BY <1>2, <1>3

(* ::close marks the event as closed.                                       *)
LEMMA ClosedForGood ==
    ASSUME NEW e \in Events, NEW v, NEW b \in BOOLEAN, Closable(e, v, b), NEW w, ClosedAs(w, v, TRUE)
    PROVE  Owing(e, w, b, 0) /\ w.made /\ Listing(v, w) /\ Ages(e, v, w) /\ ~Open(w) /\ w.held = v.held
<1>1. PICK c : c = TRUE
  OBVIOUS
<1>2. Marks(e, v, b, c)
  BY <1>1 DEF Marks
<1>3. ClosedAs(w, v, c)
  BY <1>1
<1> QED BY <1>2, <1>3, ClosedHandle

(* A reference that nobody has is given up.                                 *)
LEMMA GivenUp ==
    ASSUME NEW e \in Events, NEW v, NEW b \in BOOLEAN, Owing(e, v, b, 1), v.made
    PROVE  Good(e, Delref(e, v), b) /\ Listing(v, Delref(e, v)) /\ Ages(e, v, Delref(e, v)) /\ Delref(e, v).made
           /\ Delref(e, v).held = v.held
<1>1. v \in Objects /\ v.refs \in Int /\ v.refs = Holds(v, b) + 1 /\ Holds(v, b) \in Nat
  BY HoldsNothing, Fields DEF Owing
<1>2. PICK w : w = [v EXCEPT !.refs = @ - 1]
  OBVIOUS
<1>3. Is(w, v, v.refs - 1, v.hnd, v.sched, v.closed)
  BY <1>1, <1>2, Referred
<1>4. Delref(e, v) = IF w.refs = 0 /\ Kind[e] # "tick" THEN CloseHandle(w) ELSE w
  BY <1>2 DEF Delref
<1>5. Holds(w, b) = Holds(v, b) /\ w.refs = Holds(w, b) + 0 /\ w.refs = Holds(w, b)
  <2>1. Holds(w, b) = Holds(v, b)
    BY <1>3 DEF Holds, Is, Same, Listing
  <2>2. w.refs = v.refs - 1
    BY <1>3 DEF Is
  <2> QED BY <1>1, <2>1, <2>2
<1>6. Owing(e, w, b, 0)
  <2>1. Shape(e, w, b)
    BY <1>3 DEF Owing, Shape, Open, Is, Same, Listing
  <2> QED BY <1>3, <1>5, <2>1 DEF Owing, Is
<1>7. Listing(v, w) /\ Ages(e, v, w) /\ w.made /\ w.held = v.held
  BY <1>3 DEF Listing, Ages, Open, Is, Same
<1>8. CASE ~(w.refs = 0 /\ Kind[e] # "tick")
  <2>1. Delref(e, v) = w
    BY <1>4, <1>8
  <2> QED BY <1>6, <1>7, <1>8, <2>1 DEF Good
<1>9. CASE w.refs = 0 /\ Kind[e] # "tick"
  <2>1. w \in Objects /\ ~w.held /\ ~b
    <3>1. w \in Objects
      BY <1>3 DEF Is
    <3>2. Holds(w, b) = 0
      BY <1>5, <1>9
    <3> QED BY <3>1, <3>2, HoldsNothing
  <2>2. PICK u : u = CloseHandle(w)
    OBVIOUS
  <2>3. u = [CloseHandle(w) EXCEPT !.closed = w.closed] /\ w.closed \in BOOLEAN
    <3>1. u \in Objects /\ u.closed = w.closed
      BY <2>1, <2>2, Closing DEF Is
    <3>2. u = [u EXCEPT !.closed = u.closed]
      BY <3>1 DEF Objects
    <3> QED BY <2>1, <2>2, <3>1, <3>2, Fields
  <2>4. Owing(e, u, b, 0) /\ u.made /\ Listing(w, u) /\ Ages(e, w, u) /\ ~Open(u) /\ u.held = w.held
    <3>1. Marks(e, w, b, w.closed)
      BY <2>1, <2>3 DEF Marks
    <3>2. Closable(e, w, b) /\ ClosedAs(u, w, w.closed)
      BY <1>6, <1>7, <1>9, <2>3 DEF Closable, ClosedAs
    <3> QED BY <3>1, <3>2, ClosedHandle
  <2>5. u.refs = 0 => u.hnd = "closed"
    <3>1. u \in Objects /\ u.refs = Holds(u, b) + 0 /\ Holds(u, b) \in Nat
      BY <2>4, HoldsNothing DEF Owing
    <3>2. u.refs = 0 => u.hnd # "closing"
      BY <3>1, HoldsNothing
    <3> QED BY <2>4, <3>1, <3>2 DEF Objects, Open
  <2>6. Delref(e, v) = u
    BY <1>4, <1>9, <2>2
  <2>7. Good(e, u, b)
    BY <2>4, <2>5 DEF Good
  <2>8. Listing(v, u) /\ Ages(e, v, u) /\ u.held = v.held
    BY <2>4, <1>3, <1>7 DEF Listing, Ages, Open, Is
  <2> QED BY <2>4, <2>6, <2>7, <2>8
<1> QED BY <1>8, <1>9
-------------------------------------------------------------------------------
(* One event changes, or all do.                                            *)

(* Ages is transitive.                                                      *)
LEMMA AgesOn ==
    ASSUME NEW e, NEW u, NEW v, NEW w, Ages(e, u, v), Ages(e, v, w)
    PROVE  Ages(e, u, w)
BY DEF Ages

(* Good objects are objects, and what is unlisted does not count.           *)
LEMMA GoodIs ==
    ASSUME NEW e, NEW v, NEW b \in BOOLEAN, Good(e, v, b)
    PROVE  /\ v \in Objects /\ v.refs \in Int /\ v.list \in {"none", "ticks", "running"}
           /\ Owing(e, v, b, 0) /\ Shape(e, v, b) /\ v.refs = Holds(v, b)
BY Fields, HoldsNothing DEF Good, Owing

(* One event changes.                                                       *)
LEMMA OneChanges ==
    ASSUME ObjectsOK, NEW e \in Events, NEW v, Good(e, v, cb' = e), ev' = [ev EXCEPT ![e] = v],
           \A x \in Events : x # e => (cb' = x <=> cb = x)
    PROVE  /\ ObjectsOK' /\ ev'[e] = v
           /\ \A x \in Events : x # e => ev'[x] = ev[x]
<1>1. v \in Objects
  BY DEF Good, Owing
<1>2. ev' \in [Events -> Objects] /\ ev'[e] = v /\ \A x \in Events : x # e => ev'[x] = ev[x]
  BY <1>1 DEF ObjectsOK
<1>3. \A x \in Events : Good(x, ev'[x], cb' = x)
  <2> TAKE x \in Events
  <2>1. CASE x = e
    BY <1>2, <2>1
  <2>2. CASE x # e
    <3>1. ev'[x] = ev[x] /\ (cb' = x) = (cb = x)
      BY <1>2, <2>2
    <3>2. Good(x, ev[x], cb = x)
      BY DEF ObjectsOK
    <3> QED BY <3>1, <3>2
  <2> QED BY <2>1, <2>2
<1> QED BY <1>2, <1>3 DEF ObjectsOK

(* The ticks that count.                                                    *)
LEMMA CountedFinite == IsFiniteSet(Counted) /\ Cardinality(Counted) \in Nat
<1>1. Counted \subseteq Events
  BY DEF Counted, Listed
<1> QED BY <1>1, EventNames, FS_Subset, FS_CardinalityType

(* Whether an object counts.                                                *)
Counts(v) == v.list # "none" /\ v.refd

(* The ticks that count, when one event changes.                            *)
LEMMA CountedChanges ==
    ASSUME ev \in [Events -> Objects], ev' \in [Events -> Objects], NEW e \in Events,
           \A x \in Events : x # e => Listing(ev[x], ev'[x])
    PROVE  /\ Cardinality(Counted') \in Int
           /\ Counts(ev[e]) = Counts(ev'[e]) => Cardinality(Counted') = Cardinality(Counted)
           /\ Counts(ev'[e]) /\ ~Counts(ev[e]) => Cardinality(Counted') = Cardinality(Counted) + 1
           /\ Counts(ev[e]) /\ ~Counts(ev'[e]) => Cardinality(Counted') = Cardinality(Counted) - 1
<1>1. \A x \in Events : x \in Counted <=> Counts(ev[x])
  BY Fields DEF Counted, Listed, Counts
<1>2. \A x \in Events : x \in Counted' <=> Counts(ev'[x])
  BY Fields DEF Counted, Listed, Counts
<1>3. Counted \subseteq Events /\ Counted' \subseteq Events
  BY DEF Counted, Listed
<1>4. \A x \in Events : x # e => (x \in Counted <=> x \in Counted')
  BY <1>1, <1>2 DEF Listing, Counts
<1>5. IsFiniteSet(Counted) /\ Cardinality(Counted) \in Nat
  BY CountedFinite
<1>6. IsFiniteSet(Counted') /\ Cardinality(Counted') \in Nat
  BY <1>3, EventNames, FS_Subset, FS_CardinalityType
<1>7. ASSUME Counts(ev[e]) = Counts(ev'[e]) PROVE Counted' = Counted
  BY <1>1, <1>2, <1>3, <1>4, <1>7
<1>8. ASSUME Counts(ev'[e]), ~Counts(ev[e]) PROVE Cardinality(Counted') = Cardinality(Counted) + 1
  <2>1. Counted' = Counted \cup {e} /\ e \notin Counted
    BY <1>1, <1>2, <1>3, <1>4, <1>8
  <2> QED BY <1>5, <2>1, FS_AddElement
<1>9. ASSUME Counts(ev[e]), ~Counts(ev'[e]) PROVE Cardinality(Counted') = Cardinality(Counted) - 1
  <2>1. Counted' = Counted \ {e} /\ e \in Counted
    BY <1>1, <1>2, <1>3, <1>4, <1>9
  <2> QED BY <1>5, <2>1, FS_RemoveElement
<1> QED BY <1>6, <1>7, <1>8, <1>9

(* The lists do not change.                                                 *)
LEMMA ListsKept ==
    ASSUME ListsOK, ev \in [Events -> Objects], ev' \in [Events -> Objects], UNCHANGED lists,
           \A x \in Events : Listing(ev[x], ev'[x])
    PROVE  ListsOK'
<1>1. Counted' = Counted
  <2>1. \A x \in Events : x \in Counted <=> x \in Counted'
    BY DEF Counted, Listed, Listing
  <2>2. Counted \subseteq Events /\ Counted' \subseteq Events
    BY DEF Counted, Listed
  <2> QED BY <2>1, <2>2
<1>2. ticks' = ticks /\ running' = running /\ refticks' = refticks
  BY DEF lists
<1>3. \A x \in Events : (ev'[x].list = "ticks" <=> x \in ToSet(ticks')) /\ (ev'[x].list = "running" <=> x \in ToSet(running'))
  BY <1>2 DEF ListsOK, Listing
<1> QED BY <1>1, <1>2, <1>3 DEF ListsOK

(* All ticks are taken off the lists.                                       *)
LEMMA ListsEmpty ==
    ASSUME ListsOK, ev' \in [Events -> Objects], \A x \in Events : ev'[x].list = "none",
           ticks' = <<>>, running' = <<>>, refticks' = refticks - Cardinality(Counted)
    PROVE  ListsOK' /\ refticks' = 0
<1>1. Counted' = {}
  BY DEF Counted, Listed
<1>2. Cardinality(Counted') = 0 /\ refticks' = 0
  <2>1. refticks = Cardinality(Counted) /\ Cardinality(Counted) \in Nat
    BY CountedFinite DEF ListsOK
  <2>2. Cardinality({}) = 0
    BY FS_EmptySet
  <2> QED BY <1>1, <2>1, <2>2
<1>3. <<>> \in Seq(Events) /\ Single(<<>>, Events) /\ ToSet(<<>>) = {}
  BY NoElements DEF Single
<1> QED BY <1>2, <1>3 DEF ListsOK
-------------------------------------------------------------------------------
(* Ticks are started and stopped.                                           *)

(* A tick v that is in no list is put into ticks.                           *)
LEMMA ActivateTick ==
    ASSUME ObjectsOK, ListsOK, NEW e \in Events, Kind[e] = "tick", ev[e].list = "none",
           NEW v, v \in Objects, v.list = "none", Owing(e, v, cb = e, 0), v.made, Activate(e, v)
    PROVE  \E w : /\ ev' = [ev EXCEPT ![e] = w] /\ Good(e, w, cb = e) /\ w.made /\ w.hnd = v.hnd
                  /\ ListsOK'
<1>1. PICK a : a = Addref(v)
  OBVIOUS
<1>2. Is(a, v, v.refs + 1, v.hnd, v.sched, v.closed)
  BY <1>1, Referred DEF Addref
<1>3. PICK w : w = [a EXCEPT !.list = "ticks"]
  OBVIOUS
<1>4. /\ w \in Objects /\ w.made = v.made /\ w.held = v.held /\ w.refd = v.refd /\ w.list = "ticks"
      /\ w.refs = v.refs + 1 /\ w.hnd = v.hnd /\ w.sched = v.sched /\ w.closed = v.closed
      /\ w.repeat = v.repeat /\ w.periodic = v.periodic
  <2>1. /\ w \in Objects /\ w.made = a.made /\ w.held = a.held /\ w.refd = a.refd /\ w.list = "ticks"
        /\ w.refs = a.refs /\ w.hnd = a.hnd /\ w.sched = a.sched /\ w.closed = a.closed
        /\ w.repeat = a.repeat /\ w.periodic = a.periodic
    BY <1>2, <1>3 DEF Is, Objects
  <2> QED BY <1>2, <2>1 DEF Is, Same, Listing
<1>5. ev' = [ev EXCEPT ![e] = w]
  BY <1>1, <1>3 DEF Activate
<1>6. Good(e, w, cb = e)
  <2>1. Holds(v, cb = e) = Count(v.held) + Count(FALSE) + Count(v.sched) + Count(v.hnd = "closing") + Count(cb = e)
    BY DEF Holds
  <2>2. Holds(w, cb = e) = Count(v.held) + Count(TRUE) + Count(v.sched) + Count(v.hnd = "closing") + Count(cb = e)
    BY <1>4 DEF Holds
  <2>3. v.refs = Holds(v, cb = e) + 0 /\ v.refs \in Int
    BY Fields DEF Owing
  <2>4. w.refs = Holds(w, cb = e) + 0
    <3>1. w.refs = v.refs + 1
      BY <1>4
    <3> QED BY <2>1, <2>2, <2>3, <3>1 DEF Count
  <2>5. Shape(e, w, cb = e)
    BY <1>4 DEF Owing, Shape, Open
  <2> QED BY <1>4, <2>4, <2>5 DEF Good, Owing
<1>7. ev \in [Events -> Objects] /\ ev' \in [Events -> Objects] /\ ev'[e] = w
      /\ \A x \in Events : x # e => ev'[x] = ev[x]
  BY <1>4, <1>5 DEF ObjectsOK
<1>8. ListsOK'
  <2>1. e \notin ToSet(ticks) /\ e \notin ToSet(running)
    BY DEF ListsOK
  <2>2. ticks' \in Seq(Events) /\ Single(ticks', Events) /\ ToSet(ticks') = ToSet(ticks) \cup {e}
    BY <2>1, OnceAppend DEF ListsOK, Activate
  <2>3. running' = running
    BY DEF Activate
  <2>4. \A x \in Events : (ev'[x].list = "ticks" <=> x \in ToSet(ticks')) /\ (ev'[x].list = "running" <=> x \in ToSet(running'))
    BY <1>4, <1>7, <2>1, <2>2, <2>3 DEF ListsOK
  <2>5. refticks' = Cardinality(Counted')
    <3>1. refticks = Cardinality(Counted) /\ Cardinality(Counted) \in Nat
      BY CountedFinite DEF ListsOK
    <3>2. refticks' = refticks + (IF v.refd THEN 1 ELSE 0)
      BY DEF Activate
    <3>3. /\ v.refd \in BOOLEAN /\ ~Counts(ev[e])
          /\ v.refd => Counts(ev'[e])
          /\ ~v.refd => Counts(ev[e]) = Counts(ev'[e])
      BY <1>4, <1>7, Fields DEF Counts
    <3>4. \A x \in Events : x # e => Listing(ev[x], ev'[x])
      BY <1>7 DEF Listing
    <3>5. /\ ~v.refd => Cardinality(Counted') = Cardinality(Counted)
          /\ v.refd => Cardinality(Counted') = Cardinality(Counted) + 1
      BY <1>7, <3>3, <3>4, CountedChanges
    <3> QED BY <3>1, <3>2, <3>3, <3>5
  <2> QED BY <2>2, <2>3, <2>4, <2>5 DEF ListsOK
<1> QED BY <1>4, <1>5, <1>6, <1>8

(* A tick is taken off its list, or its callback is about to begin: c says  *)
(* whether it is.                                                           *)
LEMMA LeaveList ==
    ASSUME ObjectsOK, ListsOK, NEW e \in Events, ev[e].list # "none",
           NEW w \in Objects, ev' = [ev EXCEPT ![e] = w], w.list = "none", w.refd = ev[e].refd,
           ticks' = (IF ev[e].list = "ticks" THEN RemoveFirst(ticks, e) ELSE ticks),
           running' \in Seq(Events), Single(running', Events), ToSet(running') = ToSet(running) \ {e},
           refticks' = refticks - (IF w.refd THEN 1 ELSE 0)
    PROVE  ListsOK'
<1>1. ev \in [Events -> Objects] /\ ev' \in [Events -> Objects] /\ ev'[e] = w
      /\ \A x \in Events : x # e => ev'[x] = ev[x]
  BY DEF ObjectsOK
<1>2. ticks' \in Seq(Events) /\ Single(ticks', Events) /\ ToSet(ticks') = ToSet(ticks) \ {e}
  <2>1. CASE ev[e].list = "ticks"
    BY <2>1, OnceRemove DEF ListsOK
  <2>2. CASE ev[e].list # "ticks"
    BY <2>2 DEF ListsOK
  <2> QED BY <2>1, <2>2
<1>3. \A x \in Events : (ev'[x].list = "ticks" <=> x \in ToSet(ticks')) /\ (ev'[x].list = "running" <=> x \in ToSet(running'))
  BY <1>1, <1>2 DEF ListsOK
<1>4. refticks' = Cardinality(Counted')
  <2>1. refticks = Cardinality(Counted) /\ Cardinality(Counted) \in Nat
    BY CountedFinite DEF ListsOK
  <2>2. w.refd \in BOOLEAN /\ Counts(ev[e]) = w.refd /\ Counts(ev'[e]) = FALSE
    BY <1>1, Fields DEF Counts
  <2>3. \A x \in Events : x # e => Listing(ev[x], ev'[x])
    BY <1>1 DEF Listing
  <2>4. /\ ~w.refd => Cardinality(Counted') = Cardinality(Counted)
        /\ w.refd => Cardinality(Counted') = Cardinality(Counted) - 1
    BY <1>1, <2>2, <2>3, CountedChanges
  <2> QED BY <2>1, <2>2, <2>4
<1> QED BY <1>2, <1>3, <1>4 DEF ListsOK

(* TickEvent::stop and ::close, on an object v of a tick that is listed.    *)
LEMMA DeactivateTick ==
    ASSUME ObjectsOK, ListsOK, NEW e \in Events, ev[e].list # "none", NEW v, NEW c \in BOOLEAN,
           Is(v, ev[e], ev[e].refs, ev[e].hnd, ev[e].sched, c), Deactivate(e, v)
    PROVE  \E w : /\ ev' = [ev EXCEPT ![e] = w] /\ Good(e, w, cb = e) /\ Ages(e, ev[e], w)
                  /\ ListsOK'
                  /\ (running = <<>> => running' = <<>>) /\ (ticks = <<>> => ticks' = <<>>)
<1> DEFINE u == ev[e]
<1>1. /\ u \in Objects /\ Owing(e, u, cb = e, 0) /\ Kind[e] = "tick" /\ u.hnd = "idle" /\ ~u.sched /\ u.made
      /\ u.refs = Holds(u, cb = e) /\ u.refs \in Int
  <2>1. Good(e, u, cb = e)
    BY DEF ObjectsOK
  <2>2. Shape(e, u, cb = e) /\ Owing(e, u, cb = e, 0) /\ u \in Objects /\ u.refs = Holds(u, cb = e) /\ u.refs \in Int
    BY <2>1, GoodIs
  <2> QED BY <2>2 DEF Shape
<1>2. PICK a : a = [v EXCEPT !.refs = @ - 1]
  OBVIOUS
<1>3. Is(a, v, v.refs - 1, v.hnd, v.sched, v.closed)
  BY <1>2, Referred DEF Is
<1>4. Delref(e, v) = a
  BY <1>1, <1>2 DEF Delref
<1>5. PICK w : w = [a EXCEPT !.list = "none"]
  OBVIOUS
<1>6. /\ w \in Objects /\ w.made = u.made /\ w.held = u.held /\ w.refd = u.refd /\ w.list = "none"
      /\ w.hnd = u.hnd /\ w.sched = u.sched
      /\ w.repeat = u.repeat /\ w.periodic = u.periodic
  <2>1. /\ w \in Objects /\ w.made = a.made /\ w.held = a.held /\ w.refd = a.refd /\ w.list = "none"
        /\ w.hnd = a.hnd /\ w.sched = a.sched
        /\ w.repeat = a.repeat /\ w.periodic = a.periodic
    BY <1>3, <1>5 DEF Is, Objects
  <2> QED BY <1>3, <2>1 DEF Is, Same, Listing
<1>7. w.refs = u.refs - 1
  <2>1. w.refs = a.refs
    BY <1>3, <1>5 DEF Is, Objects
  <2> QED BY <1>3, <2>1 DEF Is
<1>8. ev' = [ev EXCEPT ![e] = w]
  BY <1>4, <1>5 DEF Deactivate
<1>9. Good(e, w, cb = e)
  <2>1. Holds(u, cb = e) = Count(u.held) + Count(TRUE) + Count(u.sched) + Count(u.hnd = "closing") + Count(cb = e)
    BY DEF Holds
  <2>2. Holds(w, cb = e) = Count(u.held) + Count(FALSE) + Count(u.sched) + Count(u.hnd = "closing") + Count(cb = e)
    BY <1>6 DEF Holds
  <2>3. w.refs = Holds(w, cb = e) + 0
    <3>1. u.refs = Holds(u, cb = e) /\ u.refs \in Int
      BY <1>1
    <3> HIDE DEF u
    <3> QED BY <1>7, <2>1, <2>2, <3>1 DEF Count
  <2>4. Shape(e, w, cb = e)
    BY <1>1, <1>6 DEF Owing, Shape, Open
  <2> QED BY <1>1, <1>6, <2>3, <2>4 DEF Good, Owing
<1>10. Ages(e, u, w)
  BY <1>6 DEF Ages, Open
<1>11. v.list = u.list /\ v.refd = u.refd
  BY DEF Is, Same, Listing
<1>12. /\ ticks' = (IF u.list = "ticks" THEN RemoveFirst(ticks, e) ELSE ticks)
       /\ running' = (IF u.list = "running" THEN RemoveFirst(running, e) ELSE running)
       /\ refticks' = refticks - (IF w.refd THEN 1 ELSE 0)
  BY <1>6, <1>11 DEF Deactivate
<1>13. running' \in Seq(Events) /\ Single(running', Events) /\ ToSet(running') = ToSet(running) \ {e}
  <2>1. CASE u.list = "running"
    BY <1>12, <2>1, OnceRemove DEF ListsOK
  <2>2. CASE u.list # "running"
    BY <1>12, <2>2 DEF ListsOK
  <2> QED BY <2>1, <2>2
<1>14. ListsOK'
  BY <1>6, <1>8, <1>12, <1>13, LeaveList
<1>15. (running = <<>> => running' = <<>>) /\ (ticks = <<>> => ticks' = <<>>)
  <2>1. ToSet(<<>>) = {}
    BY NoElements
  <2>2. running = <<>> => u.list # "running"
    BY <2>1 DEF ListsOK
  <2>3. ticks = <<>> => u.list # "ticks"
    BY <2>1 DEF ListsOK
  <2> QED BY <1>12, <2>2, <2>3
<1> QED BY <1>8, <1>9, <1>10, <1>14, <1>15
-------------------------------------------------------------------------------
(* The end of the process.                                                  *)

(* What a step must do for the end: before it nothing is required but that  *)
(* no tick is waiting when the main script goes on.                         *)
LEMMA EndKept ==
    ASSUME EndOK, UNCHANGED phase, phase # "done",
           Disposed => \A x \in Events : Ages(x, ev[x], ev'[x]),
           Disposed /\ busy' => busy,
           phase = "second" /\ pc' \in {"after", "main"} => NoneClosing' \/ pc \in {"after", "main"},
           pc' = "main" /\ phase \in {"ending", "second", "last"} => stopped' # {} \/ refticks' = 0
    PROVE  EndOK'
<1>1. Disposed' = Disposed
  BY DEF Disposed
<1>2. Disposed => ~busy' /\ Shut'
  BY DEF EndOK, Shut, Ages
<1>3. Disposed /\ NoneClosing => NoneClosing'
  BY DEF EndOK, Shut, Ages, NoneClosing
<1>4. phase \in {"second", "last"} => Disposed
  BY DEF Disposed
<1>5. (phase = "second" /\ pc' \in {"after", "main"}) \/ phase = "last" => NoneClosing'
  BY <1>3, <1>4 DEF EndOK
<1> QED BY <1>1, <1>2, <1>5 DEF EndOK

(* Nothing happens to the objects.                                          *)
LEMMA AgesSame == \A e : \A v : Ages(e, v, v) /\ Listing(v, v)
BY DEF Ages, Listing

(* PHP code calls a method of event e, whose object becomes v.              *)
LEMMA CodeCalls ==
    ASSUME Inv, InCode, UNCHANGED <<pc, phase, cb, back, nowait, busy, stopped>>,
           NEW e \in Events, NEW v, ev' = [ev EXCEPT ![e] = v], Good(e, v, cb = e),
           Disposed => Ages(e, ev[e], v), ListsOK',
           uvstop' \in BOOLEAN, Active /\ ticks' # <<>> => nowait \/ uvstop', running = <<>> => running' = <<>>,
           \A x \in due' : x \in due \cup {e}, e \in due' => Kind[e] = "timer" /\ v.hnd = "active"
    PROVE  Inv'
<1>1. ObjectsOK /\ ListsOK /\ LoopOK /\ EndOK
  BY DEF Inv
<1>2. ObjectsOK' /\ ev'[e] = v /\ \A x \in Events : x # e => ev'[x] = ev[x]
  <2>1. Good(e, v, cb' = e) /\ \A x \in Events : x # e => (cb' = x <=> cb = x)
    OBVIOUS
  <2> QED BY <1>1, <2>1, OneChanges
<1>3. LoopOK'
  <2>1. \A x \in due' : x \in Of("timer") /\ ev'[x].hnd = "active"
    BY <1>1, <1>2 DEF LoopOK, Of
  <2>2. Active' = Active /\ InTicks' = InTicks
    BY DEF Active, InTicks
  <2>3. pc # "sleep"
    BY DEF InCode
  <2> QED BY <1>1, <2>1, <2>2, <2>3 DEF LoopOK
<1>4. EndOK'
  <2>1. phase # "done" /\ (pc = "main" => phase \notin {"ending", "second", "last"})
    BY <1>1 DEF InCode, LoopOK
  <2>2. Disposed => \A x \in Events : Ages(x, ev[x], ev'[x])
    BY <1>2, AgesSame
  <2>3. phase = "second" /\ pc' \in {"after", "main"} => NoneClosing' \/ pc \in {"after", "main"}
    OBVIOUS
  <2>4. pc' = "main" /\ phase \in {"ending", "second", "last"} => stopped' # {} \/ refticks' = 0
    BY <2>1
  <2>5. phase' = phase /\ (Disposed /\ busy' => busy)
    OBVIOUS
  <2> HIDE DEF Inv
  <2> QED BY <1>1, <2>1, <2>2, <2>3, <2>4, <2>5, EndKept
<1> QED BY <1>2, <1>3, <1>4 DEF Inv
-------------------------------------------------------------------------------
(* PHP code.                                                                *)

(* The object of an event.                                                  *)
LEMMA Mine ==
    ASSUME ObjectsOK, NEW e \in Events
    PROVE  /\ ev[e] \in Objects /\ Good(e, ev[e], cb = e) /\ Owing(e, ev[e], cb = e, 0)
           /\ Shape(e, ev[e], cb = e) /\ ev[e].refs = Holds(ev[e], cb = e) /\ ev[e].refs \in Int
<1>1. Good(e, ev[e], cb = e) /\ (cb = e) \in BOOLEAN
  BY DEF ObjectsOK
<1> QED BY <1>1, GoodIs

(* An object is good when its references are counted.                       *)
LEMMA GoodWhen ==
    ASSUME NEW e, NEW b \in BOOLEAN, NEW w \in Objects, w.refs = Holds(w, b), Shape(e, w, b),
           w.refs = 0 => Kind[e] = "tick" \/ w.hnd = "closed"
    PROVE  Good(e, w, b)
<1>1. Holds(w, b) = Holds(w, b) + 0
  BY HoldsNothing
<1> QED BY <1>1 DEF Good, Owing

(* What somebody refers to.                                                 *)
LEMMA HoldsMuch ==
    ASSUME NEW v \in Objects, NEW b \in BOOLEAN, v.held \/ b
    PROVE  Holds(v, b) # 0
BY HoldsNothing

(* The loop does not go to sleep beside a tick that is started.             *)
LEMMA ActivateStops ==
    ASSUME Inv, NEW e, NEW v, Activate(e, v)
    PROVE  uvstop' \in BOOLEAN /\ (Active /\ ticks' # <<>> => nowait \/ uvstop') /\ running' = running
<1>1. uvstop \in BOOLEAN /\ (Active /\ ticks # <<>> => nowait \/ uvstop)
  BY DEF Inv, LoopOK
<1>2. uvstop' = (uvstop \/ (Active /\ ticks = <<>>)) /\ running' = running
  BY DEF Activate, StopsLoop
<1> QED BY <1>1, <1>2

(* TaskScheduler::tick, ::timer and ::poll.                                 *)
LEMMA InvCreate == ASSUME Inv, NEW e \in Events, Create(e) PROVE Inv'
<1>1. ObjectsOK /\ ListsOK /\ LoopOK
  BY DEF Inv
<1>2. PICK v : v = [Blank EXCEPT !.made = TRUE, !.held = TRUE, !.refs = 1]
  OBVIOUS
<1>3. /\ v \in Objects /\ v.made = TRUE /\ v.held = TRUE /\ v.refs = 1 /\ v.list = "none" /\ v.hnd = "idle"
      /\ v.refd = TRUE /\ v.closed = FALSE /\ v.sched = FALSE /\ v.repeat = FALSE
  <2>1. PICK b : b = Blank
    OBVIOUS
  <2>2. /\ b \in Objects /\ b.list = "none" /\ b.hnd = "idle"
        /\ b.refd = TRUE /\ b.closed = FALSE /\ b.sched = FALSE /\ b.repeat = FALSE
    BY <2>1 DEF Blank, Objects
  <2>3. v = [b EXCEPT !.made = TRUE, !.held = TRUE, !.refs = 1]
    BY <1>2, <2>1
  <2>4. PICK m \in BOOLEAN : m = TRUE
    OBVIOUS
  <2>5. PICK r \in Int : r = 1
    OBVIOUS
  <2>6. v = [b EXCEPT !.made = m, !.held = m, !.refs = r]
    BY <2>3, <2>4, <2>5
  <2>7. /\ v \in Objects /\ v.made = m /\ v.held = m /\ v.refs = r /\ v.list = b.list /\ v.hnd = b.hnd
        /\ v.refd = b.refd /\ v.closed = b.closed /\ v.sched = b.sched /\ v.repeat = b.repeat
    BY <2>2, <2>6 DEF Objects
  <2> QED BY <2>2, <2>4, <2>5, <2>7
<1>4. ev[e].list = "none" /\ ev[e].refd = v.refd /\ cb # e /\ ev[e] \in Objects
  BY <1>1, <1>3, Mine, Fields DEF Create, Shape
<1>5. Owing(e, v, cb = e, 0) /\ Good(e, v, cb = e)
  <2>1. Holds(v, cb = e) = Count(TRUE) + Count(FALSE) + Count(FALSE) + Count(FALSE) + Count(FALSE)
    <3>1. (v.list # "none") = FALSE /\ (v.hnd = "closing") = FALSE /\ (cb = e) = FALSE
      BY <1>3, <1>4
    <3> QED BY <1>3, <3>1 DEF Holds
  <2>2. v.refs = Holds(v, cb = e)
    BY <1>3, <2>1 DEF Count
  <2>3. Shape(e, v, cb = e)
    BY <1>3, <1>4 DEF Shape, Open
  <2>4. Good(e, v, cb = e)
    <3>1. v.refs # 0
      BY <1>3
    <3> QED BY <1>3, <2>2, <2>3, <3>1, GoodWhen
  <2> QED BY <2>4 DEF Good
<1>6. /\ InCode /\ ~Disposed /\ UNCHANGED <<pc, phase, cb, back, nowait, busy, stopped, due>>
  BY DEF Create, Free
<1>7. \A x \in due' : x \in due \cup {e}
  BY <1>6
<1>8. e \notin due'
  <2>1. ev[e].hnd = "idle"
    BY <1>1, Mine DEF Create, Shape
  <2> QED BY <1>1, <1>6, <2>1 DEF LoopOK
<1>9. CASE Kind[e] = "tick"
  <2>1. Activate(e, v)
    BY <1>2, <1>9 DEF Create
  <2>2. PICK w : ev' = [ev EXCEPT ![e] = w] /\ Good(e, w, cb = e) /\ w.made /\ w.hnd = v.hnd /\ ListsOK'
    BY <1>1, <1>3, <1>4, <1>5, <1>9, <2>1, ActivateTick
  <2>3. uvstop' \in BOOLEAN /\ (Active /\ ticks' # <<>> => nowait \/ uvstop') /\ running' = running
    BY <2>1, ActivateStops
  <2> QED BY <1>6, <1>7, <1>8, <2>2, <2>3, CodeCalls
<1>10. CASE Kind[e] # "tick"
  <2>1. ev' = [ev EXCEPT ![e] = v] /\ UNCHANGED <<lists, uvstop>>
    BY <1>2, <1>10 DEF Create, Set
  <2>2. ListsOK'
    <3>1. ev \in [Events -> Objects]
      BY <1>1 DEF ObjectsOK
    <3>2. ev' \in [Events -> Objects] /\ \A x \in Events : Listing(ev[x], ev'[x])
      BY <1>3, <1>4, <2>1, <3>1 DEF Listing
    <3> QED BY <1>1, <2>1, <3>1, <3>2, ListsKept
  <2>3. uvstop' \in BOOLEAN /\ (Active /\ ticks' # <<>> => nowait \/ uvstop') /\ running' = running
    BY <1>1, <2>1 DEF LoopOK, lists
  <2> QED BY <1>5, <1>6, <1>7, <1>8, <2>1, <2>2, <2>3, CodeCalls
<1> QED BY <1>9, <1>10

(* TickEvent::start.                                                        *)
LEMMA InvStartTick == ASSUME Inv, NEW e \in Events, StartTick(e) PROVE Inv'
<1>1. ObjectsOK /\ ListsOK /\ LoopOK
  BY DEF Inv
<1>2. /\ InCode /\ UNCHANGED <<pc, phase, cb, back, nowait, busy, stopped, due>>
      /\ Activate(e, ev[e]) /\ Kind[e] = "tick" /\ ev[e].list = "none" /\ ev[e].made
  BY DEF StartTick, Reaches, Free, Call
<1>3. ev[e] \in Objects /\ Owing(e, ev[e], cb = e, 0)
  BY <1>1, Mine
<1>4. PICK w : ev' = [ev EXCEPT ![e] = w] /\ Good(e, w, cb = e) /\ w.made /\ w.hnd = ev[e].hnd /\ ListsOK'
  <2> HIDE DEF Inv
  <2> QED BY <1>1, <1>2, <1>3, ActivateTick
<1>5. uvstop' \in BOOLEAN /\ (Active /\ ticks' # <<>> => nowait \/ uvstop') /\ running' = running
  BY <1>2, ActivateStops
<1>6. Ages(e, ev[e], w)
  BY <1>2, <1>4 DEF Ages
<1>7. e \notin due'
  BY <1>1, <1>2 DEF LoopOK, Of
<1> QED BY <1>2, <1>4, <1>5, <1>6, <1>7, CodeCalls

(* The lists do not depend on what happens to event e.                      *)
LEMMA ListsLeft ==
    ASSUME ObjectsOK, ListsOK, NEW e \in Events, NEW w \in Objects, ev' = [ev EXCEPT ![e] = w],
           Listing(ev[e], w), UNCHANGED lists
    PROVE  ListsOK'
<1>1. ev \in [Events -> Objects]
  BY DEF ObjectsOK
<1>2. ev' \in [Events -> Objects] /\ \A x \in Events : Listing(ev[x], ev'[x])
  BY <1>1 DEF Listing
<1> QED BY <1>1, <1>2, ListsKept

(* Who calls a method of e has it.                                          *)
LEMMA UsableMeans ==
    ASSUME NEW e \in Events, Usable(e)
    PROVE  InCode /\ ev[e].made /\ (ev[e].held \/ cb = e) /\ ~ev[e].closed
BY DEF Usable, Reaches

(* What is not about ticks does not change what holds of them.              *)
LEMMA LoopStays ==
    ASSUME Inv, UNCHANGED <<lists, uvstop>>
    PROVE  uvstop' \in BOOLEAN /\ (Active /\ ticks' # <<>> => nowait \/ uvstop') /\ running' = running
BY DEF Inv, LoopOK, lists

(* TickEvent::stop.                                                         *)
LEMMA InvStopTick == ASSUME Inv, NEW e \in Events, StopTick(e) PROVE Inv'
<1>1. ObjectsOK /\ ListsOK /\ LoopOK
  BY DEF Inv
<1>2. /\ InCode /\ UNCHANGED <<pc, phase, cb, back, nowait, busy, stopped, due>>
      /\ Deactivate(e, ev[e]) /\ Kind[e] = "tick" /\ ev[e].list # "none"
  BY UsableMeans DEF StopTick, Call
<1>3. Is(ev[e], ev[e], ev[e].refs, ev[e].hnd, ev[e].sched, ev[e].closed) /\ ev[e].closed \in BOOLEAN
  BY <1>1, Mine, Fields
<1>4. PICK w : /\ ev' = [ev EXCEPT ![e] = w] /\ Good(e, w, cb = e) /\ Ages(e, ev[e], w) /\ ListsOK'
               /\ (running = <<>> => running' = <<>>) /\ (ticks = <<>> => ticks' = <<>>)
  <2> HIDE DEF Inv
  <2> QED BY <1>1, <1>2, <1>3, DeactivateTick
<1>5. uvstop' \in BOOLEAN /\ (Active /\ ticks' # <<>> => nowait \/ uvstop')
  BY <1>1, <1>2, <1>4 DEF LoopOK, Deactivate
<1>6. e \notin due' /\ \A x \in due' : x \in due \cup {e}
  BY <1>1, <1>2 DEF LoopOK, Of
<1> QED BY <1>2, <1>4, <1>5, <1>6, CodeCalls

(* TimerEvent::start, PollEvent::start: the object w, from u.               *)
LEMMA StartedHandle ==
    ASSUME ObjectsOK, NEW e \in Events, Usable(e), Open(ev[e]), Kind[e] # "tick",
           NEW w \in Objects,
           w.made = ev[e].made, w.held = ev[e].held, Listing(ev[e], w), w.hnd = "active", w.sched = TRUE,
           w.closed = ev[e].closed, w.refs = ev[e].refs + (IF ev[e].sched THEN 0 ELSE 1),
           w.repeat => w.periodic
    PROVE  Good(e, w, cb = e) /\ Ages(e, ev[e], w)
<1>1. /\ ev[e] \in Objects /\ Shape(e, ev[e], cb = e) /\ ev[e].refs = Holds(ev[e], cb = e) /\ ev[e].refs \in Int
      /\ ev[e].sched \in BOOLEAN
  BY Mine, Fields
<1>2. ev[e].made /\ (ev[e].held \/ cb = e) /\ ~ev[e].closed
  BY UsableMeans
<1>3. w.refs = Holds(w, cb = e)
  <2>1. Holds(ev[e], cb = e) = Count(ev[e].held) + Count(ev[e].list # "none") + Count(ev[e].sched) + Count(FALSE) + Count(cb = e)
    <3>1. (ev[e].hnd = "closing") = FALSE
      BY DEF Open
    <3> QED BY <3>1 DEF Holds
  <2>2. Holds(w, cb = e) = Count(ev[e].held) + Count(ev[e].list # "none") + Count(TRUE) + Count(FALSE) + Count(cb = e)
    <3>1. (w.hnd = "closing") = FALSE
      OBVIOUS
    <3> QED BY <3>1 DEF Holds, Listing
  <2>3. ev[e].refs = Holds(ev[e], cb = e) /\ ev[e].refs \in Int /\ ev[e].sched \in BOOLEAN
    BY <1>1
  <2> QED BY <2>1, <2>2, <2>3 DEF Count
<1>4. Shape(e, w, cb = e)
  BY <1>1, <1>2 DEF Shape, Open, Listing
<1>5. w.refs # 0
  <2>1. w.held \/ cb = e
    BY <1>2
  <2> QED BY <1>3, <2>1, HoldsMuch
<1>6. Ages(e, ev[e], w)
  BY DEF Ages, Open
<1> QED BY <1>3, <1>4, <1>5, <1>6, GoodWhen

(* TimerEvent::start.                                                       *)
LEMMA InvStartTimer ==
    ASSUME Inv, NEW e \in Events, NEW zero \in BOOLEAN, NEW periodic \in BOOLEAN, StartTimer(e, zero, periodic)
    PROVE  Inv'
<1>1. ObjectsOK /\ ListsOK /\ LoopOK
  BY DEF Inv
<1>2. /\ InCode /\ UNCHANGED <<pc, phase, cb, back, nowait, busy, stopped, lists, uvstop>>
      /\ Kind[e] = "timer" /\ Usable(e) /\ ev[e].made /\ (ev[e].held \/ cb = e) /\ ~ev[e].closed
  BY UsableMeans DEF StartTimer, Call
<1>3. ev[e] \in Objects /\ Shape(e, ev[e], cb = e) /\ ev[e].refs \in Int
  BY <1>1, Mine
<1>4. Open(ev[e])
  BY <1>2, <1>3 DEF Shape
<1>5. PICK r \in Int : r = ev[e].refs + (IF ev[e].sched THEN 0 ELSE 1)
  BY <1>3
<1>6. PICK t \in BOOLEAN : t = (periodic /\ ~zero)
  OBVIOUS
<1>7. PICK w : w = [ev[e] EXCEPT !.hnd = "active", !.periodic = periodic, !.repeat = t, !.sched = TRUE, !.refs = r]
  OBVIOUS
<1>8. ev' = [ev EXCEPT ![e] = w]
  BY <1>5, <1>6, <1>7 DEF StartTimer, Set
<1>9. /\ w \in Objects /\ w.made = ev[e].made /\ w.held = ev[e].held /\ Listing(ev[e], w)
      /\ w.hnd = "active" /\ w.sched = TRUE /\ w.closed = ev[e].closed /\ w.refs = r
      /\ w.repeat = t /\ w.periodic = periodic
  BY <1>3, <1>7 DEF Objects, Listing
<1>10. Good(e, w, cb = e) /\ Ages(e, ev[e], w)
  <2>1. w.repeat => w.periodic
    BY <1>6, <1>9
  <2>2. Kind[e] # "tick"
    BY <1>2
  <2>3. w.refs = ev[e].refs + (IF ev[e].sched THEN 0 ELSE 1)
    BY <1>5, <1>9
  <2> QED BY <1>1, <1>2, <1>4, <1>9, <2>1, <2>2, <2>3, StartedHandle
<1>11. ListsOK'
  BY <1>1, <1>2, <1>8, <1>9, ListsLeft
<1>12. (\A x \in due' : x \in due \cup {e}) /\ (e \in due' => Kind[e] = "timer" /\ w.hnd = "active")
  BY <1>2, <1>9 DEF StartTimer
<1>13. uvstop' \in BOOLEAN /\ (Active /\ ticks' # <<>> => nowait \/ uvstop') /\ running' = running
  BY <1>2, LoopStays
<1> QED BY <1>2, <1>8, <1>10, <1>11, <1>12, <1>13, CodeCalls

(* PollEvent::start.                                                        *)
LEMMA InvStartPoll == ASSUME Inv, NEW e \in Events, StartPoll(e) PROVE Inv'
<1>1. ObjectsOK /\ ListsOK /\ LoopOK
  BY DEF Inv
<1>2. /\ InCode /\ UNCHANGED <<pc, phase, cb, back, nowait, busy, stopped, lists, uvstop, due>>
      /\ Kind[e] = "poll" /\ Usable(e) /\ Open(ev[e])
  BY UsableMeans DEF StartPoll, Call
<1>3. ev[e] \in Objects /\ Shape(e, ev[e], cb = e) /\ ev[e].refs \in Int
  BY <1>1, Mine
<1>4. PICK r \in Int : r = ev[e].refs + (IF ev[e].sched THEN 0 ELSE 1)
  BY <1>3
<1>5. PICK w : w = [ev[e] EXCEPT !.hnd = "active", !.sched = TRUE, !.refs = r]
  OBVIOUS
<1>6. ev' = [ev EXCEPT ![e] = w]
  BY <1>4, <1>5 DEF StartPoll, Set
<1>7. /\ w \in Objects /\ w.made = ev[e].made /\ w.held = ev[e].held /\ Listing(ev[e], w)
      /\ w.hnd = "active" /\ w.sched = TRUE /\ w.closed = ev[e].closed /\ w.refs = r
      /\ w.repeat = ev[e].repeat /\ w.periodic = ev[e].periodic
  BY <1>3, <1>5 DEF Objects, Listing
<1>8. Good(e, w, cb = e) /\ Ages(e, ev[e], w)
  <2>1. w.repeat => w.periodic
    BY <1>3, <1>7 DEF Shape
  <2>2. Kind[e] # "tick"
    BY <1>2
  <2>3. w.refs = ev[e].refs + (IF ev[e].sched THEN 0 ELSE 1)
    BY <1>4, <1>7
  <2> QED BY <1>1, <1>2, <1>7, <2>1, <2>2, <2>3, StartedHandle
<1>9. ListsOK'
  BY <1>1, <1>2, <1>6, <1>7, ListsLeft
<1>10. (\A x \in due' : x \in due \cup {e}) /\ e \notin due'
  BY <1>1, <1>2 DEF LoopOK, Of
<1>11. uvstop' \in BOOLEAN /\ (Active /\ ticks' # <<>> => nowait \/ uvstop') /\ running' = running
  BY <1>2, LoopStays
<1> QED BY <1>2, <1>6, <1>8, <1>9, <1>10, <1>11, CodeCalls

(* TimerEvent::stop, PollEvent::stop.                                       *)
LEMMA InvStopHandle == ASSUME Inv, NEW e \in Events, StopHandle(e) PROVE Inv'
<1>1. ObjectsOK /\ ListsOK /\ LoopOK
  BY DEF Inv
<1>2. /\ InCode /\ UNCHANGED <<pc, phase, cb, back, nowait, busy, stopped, lists, uvstop>>
      /\ Kind[e] # "tick" /\ Open(ev[e]) /\ ev[e].made /\ (ev[e].held \/ cb = e)
  BY UsableMeans DEF StopHandle, Call
<1>3. /\ ev[e] \in Objects /\ Shape(e, ev[e], cb = e) /\ ev[e].refs = Holds(ev[e], cb = e) /\ ev[e].refs \in Int
      /\ ev[e].sched \in BOOLEAN
  BY <1>1, Mine, Fields
<1>4. PICK u : u = [ev[e] EXCEPT !.hnd = "idle"]
  OBVIOUS
<1>5. Is(u, ev[e], ev[e].refs, "idle", ev[e].sched, ev[e].closed)
  BY <1>3, <1>4, Handled
<1>6. PICK w : w = Unschedule(u)
  OBVIOUS
<1>7. Is(w, u, u.refs - Count(u.sched), u.hnd, FALSE, u.closed)
  BY <1>5, <1>6, Unscheduled DEF Is
<1>8. ev' = [ev EXCEPT ![e] = w]
  BY <1>4, <1>6 DEF StopHandle, Set
<1>9. /\ w \in Objects /\ Same(ev[e], w) /\ w.hnd = "idle" /\ w.sched = FALSE /\ w.closed = ev[e].closed
      /\ w.refs = ev[e].refs - Count(ev[e].sched)
  <2>1. Count(u.sched) = Count(ev[e].sched)
    BY <1>5 DEF Is
  <2> QED BY <1>5, <1>7, <2>1 DEF Is, Same, Listing
<1>10. Good(e, w, cb = e)
  <2>1. Holds(ev[e], cb = e) = Count(ev[e].held) + Count(ev[e].list # "none") + Count(ev[e].sched) + Count(FALSE) + Count(cb = e)
    <3>1. (ev[e].hnd = "closing") = FALSE
      BY <1>2 DEF Open
    <3> QED BY <3>1 DEF Holds
  <2>2. Holds(w, cb = e) = Count(ev[e].held) + Count(ev[e].list # "none") + Count(FALSE) + Count(FALSE) + Count(cb = e)
    <3>1. (w.hnd = "closing") = FALSE
      BY <1>9
    <3> QED BY <1>9, <3>1 DEF Holds, Same, Listing
  <2>3. w.refs = Holds(w, cb = e)
    <3>1. ev[e].refs = Holds(ev[e], cb = e) /\ ev[e].refs \in Int /\ ev[e].sched \in BOOLEAN
          /\ w.refs = ev[e].refs - Count(ev[e].sched)
      BY <1>3, <1>9
    <3> QED BY <2>1, <2>2, <3>1 DEF Count
  <2>4. Shape(e, w, cb = e)
    BY <1>2, <1>3, <1>9 DEF Shape, Open, Same, Listing
  <2>5. w.refs # 0
    <3>1. w \in Objects /\ (w.held \/ cb = e)
      BY <1>2, <1>9 DEF Same
    <3> QED BY <2>3, <3>1, HoldsMuch
  <2> QED BY <1>9, <2>3, <2>4, <2>5, GoodWhen
<1>11. Ages(e, ev[e], w)
  BY <1>2, <1>9 DEF Ages, Open, Same
<1>12. ListsOK'
  BY <1>1, <1>2, <1>8, <1>9, ListsLeft DEF Same
<1>13. (\A x \in due' : x \in due \cup {e}) /\ e \notin due'
  BY DEF StopHandle
<1>14. uvstop' \in BOOLEAN /\ (Active /\ ticks' # <<>> => nowait \/ uvstop') /\ running' = running
  BY <1>2, LoopStays
<1> QED BY <1>2, <1>8, <1>10, <1>11, <1>12, <1>13, <1>14, CodeCalls

(* An object that is only marked as closed.                                 *)
LEMMA MarkedIsGood ==
    ASSUME NEW e \in Events, NEW v, NEW b \in BOOLEAN, Good(e, v, b), NEW w, w = [v EXCEPT !.closed = TRUE]
    PROVE  Good(e, w, b) /\ Ages(e, v, w) /\ Is(w, v, v.refs, v.hnd, v.sched, TRUE)
<1>1. v \in Objects /\ Shape(e, v, b) /\ v.refs = Holds(v, b)
  BY GoodIs
<1>2. Is(w, v, v.refs, v.hnd, v.sched, TRUE)
  <2>1. PICK c \in BOOLEAN : c = TRUE
    OBVIOUS
  <2>2. Is(w, v, v.refs, v.hnd, v.sched, c)
    BY <1>1, <2>1, Marked
  <2> QED BY <2>1, <2>2
<1>3. Holds(w, b) = Holds(v, b)
  BY <1>2 DEF Is, Same, Listing, Holds
<1>4. Shape(e, w, b)
  BY <1>1, <1>2 DEF Shape, Open, Is, Same, Listing
<1>5. w.refs = Holds(w, b) + 0
  <2>1. v.refs = Holds(v, b) + 0
    BY DEF Good, Owing
  <2> QED BY <1>2, <1>3, <2>1 DEF Is
<1>6. Good(e, w, b)
  BY <1>2, <1>4, <1>5 DEF Good, Owing, Is, Same
<1> QED BY <1>2, <1>6 DEF Ages, Open, Is, Same

(* close of each class.                                                     *)
LEMMA InvClose == ASSUME Inv, NEW e \in Events, Close(e) PROVE Inv'
<1>1. ObjectsOK /\ ListsOK /\ LoopOK
  BY DEF Inv
<1>2. /\ InCode /\ UNCHANGED <<pc, phase, cb, back, nowait, busy, stopped>>
      /\ ev[e].made /\ (ev[e].held \/ cb = e) /\ ~ev[e].closed
      /\ (\A x \in due' : x \in due \cup {e}) /\ e \notin due'
  BY UsableMeans DEF Close, Call
<1>3. ev[e] \in Objects /\ Good(e, ev[e], cb = e) /\ Owing(e, ev[e], cb = e, 0)
  BY <1>1, Mine
<1>4. PICK v : v = [ev[e] EXCEPT !.closed = TRUE]
  OBVIOUS
<1>5. Good(e, v, cb = e) /\ Ages(e, ev[e], v) /\ Is(v, ev[e], ev[e].refs, ev[e].hnd, ev[e].sched, TRUE)
  <2>1. (cb = e) \in BOOLEAN
    OBVIOUS
  <2> QED BY <1>3, <1>4, <2>1, MarkedIsGood
<1>6. CASE Kind[e] = "tick" /\ ev[e].list = "none"
  <2>1. ev' = [ev EXCEPT ![e] = v] /\ UNCHANGED <<lists, uvstop>>
    BY <1>4, <1>5, <1>6 DEF Close, Set, Is, Same, Listing
  <2>2. ListsOK'
    BY <1>1, <1>5, <2>1, ListsLeft DEF Is, Same
  <2>3. uvstop' \in BOOLEAN /\ (Active /\ ticks' # <<>> => nowait \/ uvstop') /\ running' = running
    BY <2>1, LoopStays
  <2> QED BY <1>2, <1>5, <2>1, <2>2, <2>3, CodeCalls
<1>7. CASE Kind[e] = "tick" /\ ev[e].list # "none"
  <2>1. Deactivate(e, v)
    BY <1>4, <1>5, <1>7 DEF Close, Is, Same, Listing
  <2>2. PICK w : /\ ev' = [ev EXCEPT ![e] = w] /\ Good(e, w, cb = e) /\ Ages(e, ev[e], w) /\ ListsOK'
                 /\ (running = <<>> => running' = <<>>) /\ (ticks = <<>> => ticks' = <<>>)
    <3>1. PICK c \in BOOLEAN : c = TRUE
      OBVIOUS
    <3>2. Is(v, ev[e], ev[e].refs, ev[e].hnd, ev[e].sched, c)
      BY <1>5, <3>1
    <3> HIDE DEF Inv
    <3> QED BY <1>1, <1>7, <2>1, <3>2, DeactivateTick
  <2>3. uvstop' \in BOOLEAN /\ (Active /\ ticks' # <<>> => nowait \/ uvstop')
    BY <1>1, <2>1, <2>2 DEF LoopOK, Deactivate
  <2> QED BY <1>2, <2>2, <2>3, CodeCalls
<1>8. CASE Kind[e] # "tick"
  <2>1. PICK w : w = [ShutdownEvent(e, ev[e]) EXCEPT !.closed = TRUE]
    OBVIOUS
  <2>2. ev' = [ev EXCEPT ![e] = w] /\ UNCHANGED <<lists, uvstop>>
    BY <1>8, <2>1 DEF Close, Set
  <2>3. w = [CloseHandle(ev[e]) EXCEPT !.closed = TRUE]
    <3>1. CASE Open(ev[e])
      <4>1. PICK u : u = CloseHandle(ev[e])
        OBVIOUS
      <4>2. u \in Objects
        BY <1>3, <3>1, <4>1, Closing DEF Is
      <4>3. \A c \in BOOLEAN : [[u EXCEPT !.closed = c] EXCEPT !.closed = TRUE] = [u EXCEPT !.closed = TRUE]
        BY <4>2 DEF Objects
      <4>4. PICK c \in BOOLEAN : c = (u.closed \/ Kind[e] = "timer")
        OBVIOUS
      <4>5. ShutdownEvent(e, ev[e]) = [u EXCEPT !.closed = c]
        BY <1>2, <1>8, <3>1, <4>1, <4>4 DEF ShutdownEvent
      <4> QED BY <2>1, <4>1, <4>3, <4>5
    <3>2. CASE ~Open(ev[e])
      BY <2>1, <3>2 DEF ShutdownEvent, CloseHandle
    <3> QED BY <3>1, <3>2
  <2>4. Owing(e, w, cb = e, 0) /\ w.made /\ Listing(ev[e], w) /\ Ages(e, ev[e], w) /\ ~Open(w) /\ w.held = ev[e].held
    <3>1. PICK b \in BOOLEAN : b = (cb = e)
      OBVIOUS
    <3>2. PICK x : x = ev[e]
      OBVIOUS
    <3>3. Closable(e, x, b)
      BY <1>2, <1>3, <1>8, <3>1, <3>2 DEF Closable
    <3>4. ClosedAs(w, x, TRUE)
      BY <2>3, <3>2 DEF ClosedAs
    <3>5. Owing(e, w, b, 0) /\ w.made /\ Listing(x, w) /\ Ages(e, x, w) /\ ~Open(w) /\ w.held = x.held
      BY <3>1, <3>3, <3>4, ClosedForGood
    <3> QED BY <3>1, <3>2, <3>5
  <2>5. Good(e, w, cb = e)
    <3>1. w \in Objects /\ w.refs = Holds(w, cb = e) + 0 /\ Holds(w, cb = e) \in Nat
      BY <2>4, HoldsNothing DEF Owing
    <3>2. Holds(w, cb = e) # 0
      BY <1>2, <2>4, <3>1, HoldsMuch
    <3>3. w.refs # 0
      BY <3>1, <3>2
    <3> QED BY <2>4, <3>3 DEF Good
  <2>6. ListsOK'
    <3>1. w \in Objects
      BY <2>4 DEF Owing
    <3> QED BY <1>1, <2>2, <2>4, <3>1, ListsLeft
  <2>7. uvstop' \in BOOLEAN /\ (Active /\ ticks' # <<>> => nowait \/ uvstop') /\ running' = running
    BY <2>2, LoopStays
  <2> QED BY <1>2, <2>2, <2>4, <2>5, <2>6, <2>7, CodeCalls
<1> QED BY <1>6, <1>7, <1>8

(* ::ref and ::unref: c says whether the event is to hold the loop.         *)
LEMMA InvCounts ==
    ASSUME Inv, NEW e \in Events, NEW c \in BOOLEAN, Usable(e), ev[e].refd # c,
           Set(e, [ev[e] EXCEPT !.refd = c]), CountTick(e, IF c THEN 1 ELSE 0 - 1), Call,
           UNCHANGED <<ticks, running, uvstop, due, seen>>
    PROVE  Inv'
<1>1. ObjectsOK /\ ListsOK /\ LoopOK
  BY DEF Inv
<1>2. /\ InCode /\ UNCHANGED <<pc, phase, cb, back, nowait, busy, stopped>> /\ ev[e].made
  BY UsableMeans DEF Call
<1>3. ev[e] \in Objects /\ Good(e, ev[e], cb = e) /\ Shape(e, ev[e], cb = e)
  BY <1>1, Mine
<1>4. PICK w : w = [ev[e] EXCEPT !.refd = c]
  OBVIOUS
<1>5. ev' = [ev EXCEPT ![e] = w]
  BY <1>4 DEF Set
<1>6. /\ w \in Objects /\ w.made = ev[e].made /\ w.held = ev[e].held /\ w.refd = c /\ w.list = ev[e].list
      /\ w.refs = ev[e].refs /\ w.hnd = ev[e].hnd /\ w.sched = ev[e].sched /\ w.closed = ev[e].closed
      /\ w.repeat = ev[e].repeat /\ w.periodic = ev[e].periodic
  BY <1>3, <1>4 DEF Objects
<1>7. Good(e, w, cb = e)
  <2>1. Holds(w, cb = e) = Holds(ev[e], cb = e)
    BY <1>6 DEF Holds
  <2>2. Shape(e, w, cb = e)
    BY <1>2, <1>3, <1>6 DEF Shape, Open
  <2> QED BY <1>3, <1>6, <2>1, <2>2 DEF Good, Owing
<1>8. Ages(e, ev[e], w)
  BY <1>6 DEF Ages, Open
<1>9. ev \in [Events -> Objects] /\ ev' \in [Events -> Objects] /\ ev'[e] = w
      /\ \A x \in Events : x # e => ev'[x] = ev[x]
  BY <1>1, <1>5, <1>6 DEF ObjectsOK
<1>10. ListsOK'
  <2>1. \A x \in Events : (ev'[x].list = "ticks" <=> x \in ToSet(ticks')) /\ (ev'[x].list = "running" <=> x \in ToSet(running'))
    <3>1. \A x \in Events : ev'[x].list = ev[x].list
      BY <1>6, <1>9
    <3> QED BY <1>1, <3>1 DEF ListsOK
  <2>2. refticks' = Cardinality(Counted')
    <3>1. refticks = Cardinality(Counted) /\ Cardinality(Counted) \in Nat
      BY <1>1, CountedFinite DEF ListsOK
    <3>2. \A x \in Events : x # e => Listing(ev[x], ev'[x])
      BY <1>9 DEF Listing
    <3>3. /\ Counts(ev[e]) = Counts(ev'[e]) => Cardinality(Counted') = Cardinality(Counted)
          /\ Counts(ev'[e]) /\ ~Counts(ev[e]) => Cardinality(Counted') = Cardinality(Counted) + 1
          /\ Counts(ev[e]) /\ ~Counts(ev'[e]) => Cardinality(Counted') = Cardinality(Counted) - 1
      BY <1>9, <3>2, CountedChanges
    <3>4. CASE ev[e].list = "none"
      <4>1. refticks' = refticks
        BY <3>1, <3>4 DEF CountTick
      <4>2. Counts(ev[e]) = FALSE /\ Counts(ev'[e]) = FALSE
        BY <1>6, <1>9, <3>4 DEF Counts
      <4> QED BY <3>1, <3>3, <4>1, <4>2
    <3>5. CASE ev[e].list # "none"
      <4>1. Kind[e] = "tick"
        BY <1>3, <3>5 DEF Shape
      <4>2. refticks' = refticks + (IF c THEN 1 ELSE 0 - 1)
        BY <3>5, <4>1 DEF CountTick
      <4>3. ev[e].refd \in BOOLEAN
        BY <1>3, Fields
      <4>4. CASE c = TRUE
        <5>1. Counts(ev'[e]) /\ ~Counts(ev[e])
          BY <1>6, <1>9, <3>5, <4>3, <4>4 DEF Counts
        <5> QED BY <3>1, <3>3, <4>2, <4>4, <5>1
      <4>5. CASE c = FALSE
        <5>1. ~Counts(ev'[e]) /\ Counts(ev[e])
          BY <1>6, <1>9, <3>5, <4>3, <4>5 DEF Counts
        <5> QED BY <3>1, <3>3, <4>2, <4>5, <5>1
      <4> QED BY <4>4, <4>5
    <3> QED BY <3>4, <3>5
  <2> QED BY <1>1, <2>1, <2>2 DEF ListsOK
<1>11. e \in due' => Kind[e] = "timer" /\ w.hnd = "active"
  BY <1>1, <1>6 DEF LoopOK, Of
<1>12. (\A x \in due' : x \in due \cup {e}) /\ uvstop' \in BOOLEAN /\ (Active /\ ticks' # <<>> => nowait \/ uvstop') /\ running' = running
  BY <1>1 DEF LoopOK
<1> QED BY <1>2, <1>5, <1>7, <1>8, <1>10, <1>11, <1>12, CodeCalls

(* ::ref and ::unref.                                                       *)
LEMMA InvRefs == ASSUME Inv, NEW e \in Events, Ref(e) \/ Unref(e) PROVE Inv'
<1>0. ev[e].refd \in BOOLEAN
  BY Mine, Fields DEF Inv
<1>1. CASE Ref(e)
  <2>1. PICK c \in BOOLEAN : c = TRUE
    OBVIOUS
  <2>2. /\ Usable(e) /\ ev[e].refd # c /\ Set(e, [ev[e] EXCEPT !.refd = c]) /\ Call
        /\ UNCHANGED <<ticks, running, uvstop, due, seen>>
    BY <1>0, <1>1, <2>1 DEF Ref
  <2>3. CountTick(e, IF c THEN 1 ELSE 0 - 1)
    BY <1>1, <2>1 DEF Ref
  <2> QED BY <2>1, <2>2, <2>3, InvCounts
<1>2. CASE Unref(e)
  <2>1. PICK c \in BOOLEAN : c = FALSE
    OBVIOUS
  <2>2. /\ Usable(e) /\ ev[e].refd # c /\ Set(e, [ev[e] EXCEPT !.refd = c]) /\ Call
        /\ UNCHANGED <<ticks, running, uvstop, due, seen>>
    BY <1>0, <1>2, <2>1 DEF Unref
  <2>3. CountTick(e, IF c THEN 1 ELSE 0 - 1)
    BY <1>2, <2>1 DEF Unref
  <2> QED BY <2>1, <2>2, <2>3, InvCounts
<1> QED BY <1>1, <1>2

(* The program lets an object go.                                           *)
LEMMA LetGo ==
    ASSUME NEW e \in Events, NEW v, NEW b \in BOOLEAN, Good(e, v, b), v.held,
           NEW u, u = [v EXCEPT !.held = FALSE]
    PROVE  Owing(e, u, b, 1) /\ u.made /\ v.made /\ Listing(v, u) /\ Ages(e, v, u)
<1>1. v \in Objects /\ v.refs \in Int /\ Shape(e, v, b) /\ v.refs = Holds(v, b)
  BY GoodIs
<1>2. v.made
  BY <1>1 DEF Shape
<1>3. /\ u \in Objects /\ u.made = v.made /\ u.held = FALSE /\ u.refd = v.refd /\ u.list = v.list
      /\ u.refs = v.refs /\ u.hnd = v.hnd /\ u.sched = v.sched /\ u.closed = v.closed
      /\ u.repeat = v.repeat /\ u.periodic = v.periodic
  BY <1>1 DEF Objects
<1>4. u.refs = Holds(u, b) + 1
  <2>1. Holds(v, b) = Count(TRUE) + Count(v.list # "none") + Count(v.sched) + Count(v.hnd = "closing") + Count(b)
    <3>1. v.held = TRUE
      BY <1>1, Fields
    <3> QED BY <3>1 DEF Holds
  <2>2. Holds(u, b) = Count(FALSE) + Count(v.list # "none") + Count(v.sched) + Count(v.hnd = "closing") + Count(b)
    BY <1>3 DEF Holds
  <2>3. u.refs = Holds(v, b) /\ u.refs \in Int
    BY <1>1, <1>3
  <2> QED BY <2>1, <2>2, <2>3 DEF Count
<1>5. Shape(e, u, b)
  BY <1>1, <1>2, <1>3 DEF Shape, Open
<1> QED BY <1>2, <1>3, <1>4, <1>5 DEF Owing, Listing, Ages, Open

(* The program drops its variable.                                          *)
LEMMA InvDrop == ASSUME Inv, NEW e \in Events, Drop(e) PROVE Inv'
<1>1. ObjectsOK /\ ListsOK /\ LoopOK
  BY DEF Inv
<1>2. InCode /\ UNCHANGED <<pc, phase, cb, back, nowait, busy, stopped, lists, uvstop>> /\ ev[e].held
  BY DEF Drop, Free
<1>3. PICK u : u = [ev[e] EXCEPT !.held = FALSE]
  OBVIOUS
<1>4. PICK w : w = Delref(e, u)
  OBVIOUS
<1>5. ev' = [ev EXCEPT ![e] = w]
  BY <1>3, <1>4 DEF Drop, Set
<1>6. PICK b \in BOOLEAN : b = (cb = e)
  OBVIOUS
<1>7. Owing(e, u, b, 1) /\ u.made /\ ev[e].made /\ Listing(ev[e], u) /\ Ages(e, ev[e], u)
  <2>1. Good(e, ev[e], b)
    BY <1>1, <1>6, Mine
  <2>2. PICK v : v = ev[e]
    OBVIOUS
  <2>3. Good(e, v, b) /\ v.held /\ u = [v EXCEPT !.held = FALSE]
    BY <1>2, <1>3, <2>1, <2>2
  <2>4. Owing(e, u, b, 1) /\ u.made /\ v.made /\ Listing(v, u) /\ Ages(e, v, u)
    BY <1>6, <2>3, LetGo
  <2> QED BY <2>2, <2>4
<1>8. Good(e, w, b) /\ Listing(u, w) /\ Ages(e, u, w)
  BY <1>4, <1>6, <1>7, GivenUp
<1>9. Good(e, w, cb = e) /\ Listing(ev[e], w) /\ Ages(e, ev[e], w) /\ w \in Objects
  <2>1. Ages(e, ev[e], w)
    BY <1>7, <1>8, AgesOn
  <2> QED BY <1>6, <1>7, <1>8, <2>1 DEF Listing, Good, Owing
<1>10. ListsOK'
  BY <1>1, <1>2, <1>5, <1>9, ListsLeft
<1>11. (\A x \in due' : x \in due \cup {e}) /\ (e \in due' => Kind[e] = "timer" /\ w.hnd = "active")
  <2>1. ev'[e] = w
    BY <1>1, <1>5 DEF ObjectsOK
  <2> QED BY <1>1, <2>1 DEF Drop, LoopOK, Of
<1>12. uvstop' \in BOOLEAN /\ (Active /\ ticks' # <<>> => nowait \/ uvstop') /\ running' = running
  BY <1>2, LoopStays
<1> QED BY <1>2, <1>5, <1>9, <1>10, <1>11, <1>12, CodeCalls

(* A task begins an operation.                                              *)
LEMMA InvBegin == ASSUME Inv, Begin PROVE Inv'
<1>1. ObjectsOK /\ ListsOK /\ LoopOK /\ EndOK
  BY DEF Inv
<1>2. UNCHANGED <<ev, lists, pc, phase, cb, back, nowait, uvstop, due, stopped>> /\ ~Disposed /\ InCode
  BY DEF Begin, loopVars
<1>3. ObjectsOK'
  BY <1>1, <1>2 DEF ObjectsOK
<1>4. ListsOK'
  BY <1>1, <1>2, ListsKept, AgesSame DEF ObjectsOK
<1>5. LoopOK'
  BY <1>1, <1>2 DEF LoopOK, lists, InTicks, Active, Of
<1>6. EndOK'
  BY <1>1, <1>2 DEF EndOK, Disposed, lists, InCode
<1> QED BY <1>3, <1>4, <1>5, <1>6 DEF Inv

(* PHP code.                                                                *)
LEMMA InvProgram == ASSUME Inv, Program PROVE Inv'
<1>1. ASSUME NEW e \in Events, CallOn(e) PROVE Inv'
  <2>1. CASE \E zero, periodic \in BOOLEAN : StartTimer(e, zero, periodic)
    BY <2>1, InvStartTimer
  <2> QED
    BY <1>1, <2>1, InvCreate, InvStartTick, InvStopTick, InvStartPoll, InvStopHandle, InvClose, InvRefs, InvDrop
    DEF CallOn
<1> QED BY <1>1, InvBegin DEF Program
-------------------------------------------------------------------------------
(* The main script.                                                         *)

(* The events stay as they are.                                             *)
LEMMA Quiet ==
    ASSUME ObjectsOK, ListsOK, UNCHANGED <<ev, lists, cb>>
    PROVE  ObjectsOK' /\ ListsOK'
<1>1. ObjectsOK'
  BY DEF ObjectsOK
<1>2. \A x \in Events : Listing(ev[x], ev'[x])
  BY AgesSame
<1> QED BY <1>1, <1>2, ListsKept DEF ObjectsOK

(* Objects whose handle is closed, or closing.                              *)
LEMMA ClosedIsGood ==
    ASSUME NEW e, NEW v, NEW b \in BOOLEAN, Owing(e, v, b, 0), ~Open(v)
    PROVE  Good(e, v, b)
<1>1. v \in Objects /\ v.refs = Holds(v, b) + 0 /\ Holds(v, b) \in Nat
  BY HoldsNothing DEF Owing
<1>2. v.refs = 0 => v.hnd # "closing"
  BY <1>1, HoldsNothing
<1> QED BY <1>1, <1>2 DEF Good, Objects, Open

(* The shutdown of an event.                                                *)
LEMMA ShutIsGood ==
    ASSUME NEW e \in Events, NEW v, NEW b \in BOOLEAN, Good(e, v, b)
    PROVE  /\ Good(e, ShutdownEvent(e, v), b) /\ Listing(v, ShutdownEvent(e, v))
           /\ ShutdownEvent(e, v).made /\ Kind[e] # "tick" => ~Open(ShutdownEvent(e, v))
<1>1. v \in Objects /\ Owing(e, v, b, 0) /\ v.closed \in BOOLEAN
  BY GoodIs, Fields
<1>2. CASE v.made /\ Kind[e] # "tick" /\ Open(v)
  <2>1. PICK u : u = CloseHandle(v)
    OBVIOUS
  <2>2. u.closed = v.closed
    BY <1>1, <1>2, <2>1, Closing DEF Is
  <2>3. PICK c \in BOOLEAN : c = (u.closed \/ Kind[e] = "timer")
    OBVIOUS
  <2>4. PICK w : w = [u EXCEPT !.closed = c]
    OBVIOUS
  <2>5. ShutdownEvent(e, v) = w
    BY <1>2, <2>1, <2>3, <2>4 DEF ShutdownEvent
  <2>6. Closable(e, v, b) /\ Marks(e, v, b, c) /\ ClosedAs(w, v, c)
    BY <1>1, <1>2, <2>1, <2>2, <2>3, <2>4 DEF Closable, Marks, ClosedAs
  <2>7. Owing(e, w, b, 0) /\ Listing(v, w) /\ ~Open(w)
    BY <2>6, ClosedHandle
  <2> QED BY <2>5, <2>7, ClosedIsGood
<1>3. CASE ~(v.made /\ Kind[e] # "tick" /\ Open(v))
  <2>1. ShutdownEvent(e, v) = v
    BY <1>3 DEF ShutdownEvent
  <2> QED BY <1>3, <2>1, AgesSame
<1> QED BY <1>2, <1>3

(* What is in a list, and leaves it.                                        *)
InList(v) == v.list # "none"
Leaves(v, u) == u = [v EXCEPT !.list = "none"]

(* A listed tick is taken off its list: one reference is left over.         *)
LEMMA TakenOff ==
    ASSUME NEW e \in Events, NEW v, NEW b \in BOOLEAN, Good(e, v, b), InList(v), NEW u, Leaves(v, u)
    PROVE  Owing(e, u, b, 1) /\ u.made /\ u.list = "none" /\ u.hnd = "idle" /\ Kind[e] = "tick" /\ v.made
<1>1. v \in Objects /\ v.refs \in Int /\ Shape(e, v, b) /\ v.refs = Holds(v, b)
  BY GoodIs
<1>2. v.made /\ Kind[e] = "tick" /\ v.hnd = "idle"
  BY <1>1 DEF Shape, InList
<1>3. /\ u \in Objects /\ u.made = v.made /\ u.held = v.held /\ u.refd = v.refd /\ u.list = "none"
      /\ u.refs = v.refs /\ u.hnd = v.hnd /\ u.sched = v.sched /\ u.closed = v.closed
      /\ u.repeat = v.repeat /\ u.periodic = v.periodic
  BY <1>1 DEF Objects, Leaves
<1>4. u.refs = Holds(u, b) + 1
  <2>1. Holds(v, b) = Count(v.held) + Count(TRUE) + Count(v.sched) + Count(v.hnd = "closing") + Count(b)
    BY DEF Holds, InList
  <2>2. Holds(u, b) = Count(v.held) + Count(FALSE) + Count(v.sched) + Count(v.hnd = "closing") + Count(b)
    BY <1>3 DEF Holds
  <2>3. u.refs = Holds(v, b) /\ u.refs \in Int
    BY <1>1, <1>3
  <2> QED BY <2>1, <2>2, <2>3 DEF Count
<1>5. Shape(e, u, b)
  BY <1>1, <1>2, <1>3 DEF Shape, Open
<1> QED BY <1>2, <1>3, <1>4, <1>5 DEF Owing

(* dispose_ticks.                                                           *)
LEMMA TicksDisposed ==
    ASSUME ObjectsOK, ListsOK, NEW evs, DisposeTicks(evs),
           \A x \in Events : Good(x, evs[x], cb' = x) /\ Listing(ev[x], evs[x])
    PROVE  /\ ObjectsOK' /\ ListsOK' /\ refticks' = 0 /\ ticks' = <<>> /\ running' = <<>>
           /\ \A x \in Events : /\ IF Kind[x] = "tick" THEN ev'[x].hnd = "idle" ELSE ev'[x] = evs[x]
                              /\ Ages(x, evs[x], ev'[x])
<1>1. ASSUME NEW x \in Events
      PROVE  /\ Good(x, ev'[x], cb' = x) /\ ev'[x].list = "none"
             /\ IF Kind[x] = "tick" THEN ev'[x].hnd = "idle" ELSE ev'[x] = evs[x]
             /\ Ages(x, evs[x], ev'[x])
  <2>1. PICK b \in BOOLEAN : b = (cb' = x)
    OBVIOUS
  <2>2. PICK v : v = evs[x]
    OBVIOUS
  <2>3. Good(x, v, b) /\ v.list = ev[x].list
    BY <2>1, <2>2 DEF Listing
  <2>4. CASE x \in Listed
    <3>1. PICK u : u = [v EXCEPT !.list = "none"]
      OBVIOUS
    <3>2. Owing(x, u, b, 1) /\ u.made /\ u.list = "none" /\ u.hnd = "idle" /\ Kind[x] = "tick" /\ v.made
      <4>1. InList(v) /\ Good(x, v, b) /\ b \in BOOLEAN
        BY <2>1, <2>3, <2>4 DEF Listed, InList
      <4>2. Leaves(v, u)
        BY <3>1 DEF Leaves
      <4> QED BY <4>1, <4>2, TakenOff
    <3>3. PICK w : w = Delref(x, u)
      OBVIOUS
    <3>4. Good(x, w, b) /\ Listing(u, w) /\ w.made
      BY <2>1, <3>2, <3>3, GivenUp
    <3>5. ev'[x] = w
      BY <2>2, <2>4, <3>1, <3>3 DEF DisposeTicks, Unlisted
    <3>6. w.list = "none"
      BY <3>2, <3>4 DEF Listing
    <3>7. w.hnd = "idle"
      BY <3>2, <3>4, GoodIs, <2>1 DEF Shape
    <3>8. Ages(x, v, w)
      BY <3>2, <3>4, <3>7 DEF Ages
    <3> QED BY <2>1, <2>2, <3>2, <3>4, <3>5, <3>6, <3>7, <3>8
  <2>5. CASE x \notin Listed
    <3>1. ev'[x] = v
      BY <2>2, <2>5 DEF DisposeTicks, Unlisted
    <3>2. v.list = "none"
      BY <2>3, <2>5 DEF Listed
    <3>3. Kind[x] = "tick" => v.hnd = "idle"
      BY <2>1, <2>3, GoodIs DEF Shape
    <3> QED BY <2>1, <2>2, <2>3, <3>1, <3>2, <3>3, AgesSame
  <2> QED BY <2>4, <2>5
<1>2. ObjectsOK'
  <2>1. \A x \in Events : ev'[x] \in Objects
    BY <1>1 DEF Good, Owing
  <2>2. ev' = [x \in Events |-> ev'[x]]
    BY DEF DisposeTicks, Unlisted
  <2>3. ev' \in [Events -> Objects]
    BY <2>1, <2>2
  <2> QED BY <1>1, <2>3 DEF ObjectsOK
<1>3. ticks' = <<>> /\ running' = <<>> /\ refticks' = refticks - Cardinality(Counted)
  BY DEF DisposeTicks
<1>4. ListsOK' /\ refticks' = 0
  BY <1>1, <1>2, <1>3, ListsEmpty DEF ObjectsOK
<1> QED BY <1>1, <1>2, <1>3, <1>4

(* It waits, or it is over.                                                 *)
LEMMA InvWait == ASSUME Inv, Wait \/ Finish \/ RunAgain PROVE Inv'
<1>1. ObjectsOK /\ ListsOK /\ LoopOK /\ EndOK
  BY DEF Inv
<1>2. UNCHANGED <<ev, lists, cb, back, nowait, uvstop, due, busy, stopped>> /\ pc = "main"
  BY DEF Wait, Finish, RunAgain, Goto, ioVars
<1>3. ObjectsOK' /\ ListsOK'
  BY <1>1, <1>2, Quiet
<1>4. pc' \in {"main", "top"} /\ phase' \in Phases /\ (phase' = "done" <=> phase = "done") /\ (phase' = "first" => pc' = "main")
      /\ phase # "done"
  BY <1>1 DEF Wait, Finish, RunAgain, Goto, LoopOK, Phases
<1>5. LoopOK'
  BY <1>1, <1>2, <1>4 DEF LoopOK, lists, InTicks, Active, Of, Places
<1>6. EndOK'
  <2>1. CASE Wait
    BY <1>1, <1>2, <2>1 DEF EndOK, Disposed, Wait, Goto
  <2>2. CASE Finish
    BY <1>1, <1>2, <2>2 DEF EndOK, Disposed, Finish, Goto
  <2>3. CASE RunAgain
    BY <1>1, <1>2, <2>3 DEF EndOK, Disposed, Shut, NoneClosing, RunAgain, Goto
  <2> QED BY <2>1, <2>2, <2>3
<1> QED BY <1>3, <1>5, <1>6 DEF Inv

(* async_task_scheduler_dispose.                                            *)
LEMMA InvDispose == ASSUME Inv, Dispose PROVE Inv'
<1>1. ObjectsOK /\ ListsOK /\ LoopOK
  BY DEF Inv
<1>2. PICK evs : evs = [e \in Events |-> ShutdownEvent(e, ev[e])]
  OBVIOUS
<1>3. /\ UNCHANGED <<cb, back, nowait, uvstop, stopped>> /\ pc = "main" /\ pc' = "main" /\ phase' = "first"
      /\ due' = {} /\ busy' = FALSE /\ DisposeTicks(evs)
  BY <1>2 DEF Dispose, Goto
<1>4. ASSUME NEW x \in Events
      PROVE  Good(x, evs[x], cb' = x) /\ Listing(ev[x], evs[x]) /\ (evs[x].made /\ Kind[x] # "tick" => ~Open(evs[x]))
  <2>1. PICK b \in BOOLEAN : b = (cb' = x)
    OBVIOUS
  <2>2. Good(x, ev[x], b)
    BY <1>1, <1>3, <2>1, Mine
  <2>3. PICK v : v = ev[x]
    OBVIOUS
  <2>4. evs[x] = ShutdownEvent(x, v)
    BY <1>2, <2>3
  <2>5. /\ Good(x, ShutdownEvent(x, v), b) /\ Listing(v, ShutdownEvent(x, v))
        /\ ShutdownEvent(x, v).made /\ Kind[x] # "tick" => ~Open(ShutdownEvent(x, v))
    BY <2>1, <2>2, <2>3, ShutIsGood
  <2> QED BY <2>1, <2>3, <2>4, <2>5
<1>5. /\ ObjectsOK' /\ ListsOK' /\ ticks' = <<>> /\ running' = <<>>
      /\ \A x \in Events : IF Kind[x] = "tick" THEN ev'[x].hnd = "idle" ELSE ev'[x] = evs[x]
  <2> HIDE DEF Inv
  <2> QED BY <1>1, <1>3, <1>4, TicksDisposed
<1>6. LoopOK'
  BY <1>1, <1>3, <1>5 DEF LoopOK, InTicks, Active, Phases, Places
<1>7. EndOK'
  <2>1. Shut'
    BY <1>4, <1>5 DEF Shut
  <2> QED BY <1>3, <2>1 DEF EndOK
<1> QED BY <1>5, <1>6, <1>7 DEF Inv

(* The end of the process: the program drops its variables.                 *)
LEMMA InvExit == ASSUME Inv, Exit PROVE Inv'
<1>1. ObjectsOK /\ ListsOK /\ LoopOK /\ EndOK
  BY DEF Inv
<1>2. /\ UNCHANGED <<cb, back, nowait, uvstop, stopped, lists, due, busy>> /\ pc = "main" /\ pc' = "main"
      /\ phase' = "done" /\ phase = "last"
  BY DEF Exit, Goto, ioVars
<1>3. cb = None /\ ~busy /\ Shut /\ NoneClosing /\ running = <<>>
  BY <1>1, <1>2 DEF LoopOK, EndOK, Disposed, InTicks
<1>4. ASSUME NEW x \in Events
      PROVE  /\ Good(x, ev'[x], cb' = x) /\ Listing(ev[x], ev'[x]) /\ Ages(x, ev[x], ev'[x]) /\ ~ev'[x].held
  <2>1. PICK b \in BOOLEAN : b = (cb' = x)
    OBVIOUS
  <2>2. PICK v : v = ev[x]
    OBVIOUS
  <2>3. Good(x, v, b) /\ v \in Objects
    BY <1>1, <1>2, <2>1, <2>2, Mine
  <2>4. CASE v.held
    <3>1. PICK u : u = [v EXCEPT !.held = FALSE]
      OBVIOUS
    <3>2. Owing(x, u, b, 1) /\ u.made /\ Listing(v, u) /\ Ages(x, v, u) /\ ~u.held
      BY <2>1, <2>3, <2>4, <3>1, LetGo DEF Objects
    <3>3. PICK w : w = Delref(x, u)
      OBVIOUS
    <3>4. Good(x, w, b) /\ Listing(u, w) /\ Ages(x, u, w) /\ w.held = u.held
      BY <2>1, <3>2, <3>3, GivenUp
    <3>5. ev'[x] = w
      BY <2>2, <2>4, <3>1, <3>3 DEF Exit
    <3>6. Ages(x, v, w) /\ Listing(v, w)
      BY <3>2, <3>4, AgesOn DEF Listing
    <3> QED BY <2>1, <2>2, <3>2, <3>4, <3>5, <3>6
  <2>5. CASE ~v.held
    <3>1. ev'[x] = v
      BY <2>2, <2>5 DEF Exit
    <3> QED BY <2>1, <2>2, <2>3, <2>5, <3>1, AgesSame
  <2> QED BY <2>4, <2>5
<1>5. ObjectsOK'
  <2>1. \A x \in Events : ev'[x] \in Objects
    BY <1>4 DEF Good, Owing
  <2>2. ev' = [x \in Events |-> ev'[x]]
    BY DEF Exit
  <2>3. ev' \in [Events -> Objects]
    BY <2>1, <2>2
  <2> QED BY <1>4, <2>3 DEF ObjectsOK
<1>6. ListsOK'
  BY <1>1, <1>2, <1>4, <1>5, ListsKept DEF ObjectsOK
<1>7. Shut' /\ NoneClosing'
  BY <1>3, <1>4 DEF Shut, NoneClosing, Ages
<1>8. ASSUME NEW x \in Events, Kind[x] # "tick" PROVE ev'[x].refs = 0
  <2>1. PICK w : w = ev'[x]
    OBVIOUS
  <2>2. PICK b \in BOOLEAN : b = FALSE
    OBVIOUS
  <2>3. w \in Objects /\ Shape(x, w, b) /\ w.refs = Holds(w, b) /\ ~w.held /\ w.hnd # "closing"
    <3>1. (cb' = x) = b
      BY <1>2, <1>3, <2>2, EventNames
    <3>2. Good(x, w, b)
      BY <1>4, <2>1, <3>1
    <3>3. w \in Objects /\ Shape(x, w, b) /\ w.refs = Holds(w, b)
      BY <2>2, <3>2, GoodIs
    <3> QED BY <1>4, <1>7, <2>1, <3>3 DEF NoneClosing
  <2>4. w.list = "none" /\ ~w.sched
    BY <1>7, <1>8, <2>1, <2>3 DEF Shape, Shut
  <2>5. Count(w.held) = 0 /\ Count(w.list # "none") = 0 /\ Count(w.sched) = 0 /\ Count(w.hnd = "closing") = 0
    BY <2>3, <2>4 DEF Count
  <2>6. Count(b) = 0
    BY <2>2 DEF Count
  <2>7. Holds(w, b) = 0
    BY <2>5, <2>6 DEF Holds
  <2> QED BY <2>1, <2>3, <2>7
<1>9. due = {}
  <2>1. SUFFICES ASSUME NEW x \in due PROVE FALSE
    OBVIOUS
  <2>2. x \in Events /\ Kind[x] = "timer" /\ ev[x].hnd = "active"
    BY <1>1, <2>1 DEF LoopOK, Of
  <2>3. Shape(x, ev[x], cb = x)
    BY <1>1, <2>2, Mine
  <2> QED BY <1>3, <2>2, <2>3 DEF Shut, Open, Shape
<1>10. LoopOK'
  BY <1>1, <1>2, <1>3, <1>9 DEF LoopOK, InTicks, Active, Phases, Places, lists
<1>11. EndOK'
  BY <1>2, <1>3, <1>7, <1>8 DEF EndOK
<1> QED BY <1>5, <1>6, <1>10, <1>11 DEF Inv

(* The main script.                                                         *)
LEMMA InvMain == ASSUME Inv, MainStep PROVE Inv'
BY InvWait, InvDispose, InvExit DEF MainStep
-------------------------------------------------------------------------------
(* The loop.                                                                *)

(* What the steps of the loop do to the end: handles are closed, never      *)
(* opened.                                                                  *)
LEMMA EndGoes ==
    ASSUME LoopOK, EndOK, pc # "main", UNCHANGED phase, busy' => busy,
           \A x \in Events : Ages(x, ev[x], ev'[x]), pc' \notin {"after", "main"}
    PROVE  EndOK'
<1>1. phase # "done"
  BY DEF LoopOK
<1> QED BY <1>1, EndKept

(* The scheduler fiber begins an iteration, or a run of the queue.          *)
LEMMA InvTop == ASSUME Inv, Top PROVE Inv'
<1>1. ObjectsOK /\ ListsOK /\ LoopOK /\ EndOK
  BY DEF Inv
<1>2. UNCHANGED <<phase, cb, back, nowait, uvstop, due, busy, stopped>> /\ pc = "top" /\ pc' \in {"run", "ticks"}
  BY DEF Top, Goto, ioVars
<1>3. running = <<>>
  BY <1>1, <1>2 DEF LoopOK, InTicks
<1>4. CASE ticks = <<>>
  <2>1. UNCHANGED <<ev, lists>>
    BY <1>4 DEF Top
  <2>2. ObjectsOK' /\ ListsOK'
    BY <1>1, <1>2, <2>1, Quiet
  <2>3. LoopOK'
    BY <1>1, <1>2, <2>1 DEF LoopOK, lists, InTicks, Active, Places
  <2>4. EndOK'
    <3>1. \A x \in Events : Ages(x, ev[x], ev'[x])
      BY <2>1, AgesSame
    <3> QED BY <1>1, <1>2, <3>1, EndGoes
  <2> QED BY <2>2, <2>3, <2>4 DEF Inv
<1>5. CASE ticks # <<>>
  <2>1. /\ running' = ticks /\ ticks' = <<>> /\ refticks' = refticks /\ pc' = "ticks"
        /\ ev' = [e \in Events |-> IF ev[e].list = "ticks" THEN [ev[e] EXCEPT !.list = "running"] ELSE ev[e]]
    BY <1>5 DEF Top, Goto
  <2>2. ASSUME NEW x \in Events
        PROVE  /\ Good(x, ev'[x], cb' = x) /\ Ages(x, ev[x], ev'[x]) /\ ev'[x].hnd = ev[x].hnd
               /\ ev'[x].list # "ticks" /\ (ev'[x].list = "running" <=> ev[x].list = "ticks")
               /\ ev'[x].refd = ev[x].refd /\ (ev'[x].list = "none" <=> ev[x].list = "none")
    <3>1. /\ ev[x] \in Objects /\ Good(x, ev[x], cb = x) /\ ev[x].refs = Holds(ev[x], cb = x)
          /\ Shape(x, ev[x], cb = x)
      BY <1>1, Mine
    <3>2. ev[x].list # "running"
      <4>1. ToSet(<<>>) = {}
        BY NoElements
      <4> QED BY <1>1, <1>3, <4>1 DEF ListsOK
    <3>3. CASE ev[x].list = "ticks"
      <4>1. PICK w : w = [ev[x] EXCEPT !.list = "running"]
        OBVIOUS
      <4>2. /\ w \in Objects /\ w.made = ev[x].made /\ w.held = ev[x].held /\ w.refd = ev[x].refd /\ w.list = "running"
            /\ w.refs = ev[x].refs /\ w.hnd = ev[x].hnd /\ w.sched = ev[x].sched /\ w.closed = ev[x].closed
            /\ w.repeat = ev[x].repeat /\ w.periodic = ev[x].periodic
        BY <3>1, <4>1 DEF Objects
      <4>3. ev'[x] = w
        BY <2>1, <3>3, <4>1
      <4>4. Holds(w, cb = x) = Holds(ev[x], cb = x)
        <5>1. (w.list # "none") = TRUE /\ (ev[x].list # "none") = TRUE
          BY <3>3, <4>2
        <5> QED BY <4>2, <5>1 DEF Holds
      <4>5. Shape(x, w, cb = x)
        BY <3>1, <3>3, <4>2 DEF Shape, Open
      <4>6. Good(x, w, cb = x)
        BY <3>1, <4>2, <4>4, <4>5 DEF Good, Owing
      <4> QED BY <1>2, <3>3, <4>2, <4>3, <4>6 DEF Ages, Open
    <3>4. CASE ev[x].list # "ticks"
      <4>1. ev'[x] = ev[x]
        BY <2>1, <3>4
      <4> QED BY <1>2, <3>1, <3>2, <3>4, <4>1, AgesSame
    <3> QED BY <3>3, <3>4
  <2>3. ObjectsOK'
    <3>1. \A x \in Events : ev'[x] \in Objects
      BY <2>2 DEF Good, Owing
    <3>2. ev' \in [Events -> Objects]
      BY <2>1, <3>1
    <3> QED BY <2>2, <3>2 DEF ObjectsOK
  <2>4. ListsOK'
    <3>1. Counted' = Counted
      BY <2>2 DEF Counted, Listed
    <3>2. <<>> \in Seq(Events) /\ Single(<<>>, Events) /\ ToSet(<<>>) = {}
      BY NoElements DEF Single
    <3> QED BY <1>1, <2>1, <2>2, <3>1, <3>2 DEF ListsOK
  <2>5. LoopOK'
    BY <1>1, <1>2, <2>1, <2>2 DEF LoopOK, InTicks, Active, Places, Of
  <2>6. EndOK'
    BY <1>1, <1>2, <2>2, EndGoes
  <2> QED BY <2>3, <2>4, <2>5, <2>6 DEF Inv
<1> QED BY <1>4, <1>5

(* A callback of event e begins, and its object becomes w.                  *)
LEMMA CallsBack ==
    ASSUME Inv, pc \notin {"main", "code"}, NEW e \in Events, NEW w, NEW from \in {"ticks", "timers", "poll"},
           Callback(e, from), ev' = [ev EXCEPT ![e] = w], Good(e, w, TRUE), Ages(e, ev[e], w), ListsOK',
           UNCHANGED <<busy, stopped>>, ticks' = ticks,
           from = "ticks" <=> pc = "ticks", from # "ticks" => Active /\ running' = running,
           \A x \in due' : x \in due /\ (x = e => w.hnd = ev[e].hnd)
    PROVE  Inv'
<1>1. ObjectsOK /\ ListsOK /\ LoopOK /\ EndOK
  BY DEF Inv
<1>2. pc' = "code" /\ cb' = e /\ back' = from /\ UNCHANGED <<phase, nowait, uvstop>>
  BY DEF Callback
<1>3. cb = None
  BY <1>1 DEF LoopOK
<1>4. ObjectsOK' /\ ev'[e] = w /\ \A x \in Events : x # e => ev'[x] = ev[x]
  <2>1. (cb' = e) = TRUE /\ \A x \in Events : x # e => (cb' = x <=> cb = x)
    BY <1>2, <1>3, EventNames
  <2>2. Good(e, w, cb' = e)
    BY <2>1
  <2> QED BY <1>1, <2>1, <2>2, OneChanges
<1>5. LoopOK'
  <2>1. \A x \in due' : x \in Of("timer") /\ ev'[x].hnd = "active"
    BY <1>1, <1>4 DEF LoopOK, Of
  <2>2. Active' => Active
    BY <1>2 DEF Active
  <2>3. ~InTicks' => ~InTicks /\ running' = running
    BY <1>2 DEF InTicks
  <2> QED BY <1>1, <1>2, <2>1, <2>2, <2>3 DEF LoopOK
<1>6. EndOK'
  <2>1. \A x \in Events : Ages(x, ev[x], ev'[x])
    BY <1>4, AgesSame
  <2>2. pc' \notin {"after", "main"} /\ phase' = phase /\ (busy' => busy)
    BY <1>2
  <2> HIDE DEF Inv
  <2> QED BY <1>1, <2>1, <2>2, EndGoes
<1> QED BY <1>4, <1>5, <1>6 DEF Inv

(* run_ticks.                                                               *)
LEMMA InvRunTick == ASSUME Inv, RunTick PROVE Inv'
<1>1. ObjectsOK /\ ListsOK /\ LoopOK /\ EndOK
  BY DEF Inv
<1>2. UNCHANGED <<due, busy, stopped>> /\ pc = "ticks"
  BY DEF RunTick, ioVars
<1>3. CASE running = <<>>
  <2>1. UNCHANGED <<ev, lists, phase, uvstop, cb, back, nowait>> /\ pc' = "run"
    BY <1>3 DEF RunTick, Goto, AfterTicks
  <2>2. ObjectsOK' /\ ListsOK'
    BY <1>1, <2>1, Quiet
  <2>3. LoopOK'
    BY <1>1, <1>2, <1>3, <2>1 DEF LoopOK, lists, InTicks, Active, Places
  <2>4. EndOK'
    <3>1. \A x \in Events : Ages(x, ev[x], ev'[x])
      BY <2>1, AgesSame
    <3> QED BY <1>1, <1>2, <2>1, <3>1, EndGoes
  <2> QED BY <2>2, <2>3, <2>4 DEF Inv
<1>4. CASE running # <<>>
  <2>1. PICK e : e = Head(running)
    OBVIOUS
  <2>2. e \in Events /\ e \in ToSet(running) /\ Tail(running) \in Seq(Events) /\ Single(Tail(running), Events)
        /\ ToSet(Tail(running)) = ToSet(running) \ {e}
    BY <1>1, <1>4, <2>1, OnceTail DEF ListsOK
  <2>3. /\ running' = Tail(running) /\ refticks' = refticks - (IF ev[e].refd THEN 1 ELSE 0)
        /\ ev' = [ev EXCEPT ![e] = [ev[e] EXCEPT !.list = "none"]]
        /\ Callback(e, "ticks") /\ ticks' = ticks
    BY <1>4, <2>1 DEF RunTick, Set
  <2>4. PICK w : w = [ev[e] EXCEPT !.list = "none"]
    OBVIOUS
  <2>5. ev' = [ev EXCEPT ![e] = w]
    BY <2>3, <2>4
  <2>6. ev[e].list = "running" /\ cb = None
    BY <1>1, <1>2, <2>2 DEF ListsOK, LoopOK
  <2>7. /\ ev[e] \in Objects /\ Good(e, ev[e], cb = e) /\ ev[e].refs = Holds(ev[e], cb = e)
        /\ Shape(e, ev[e], cb = e) /\ ev[e].refs \in Int
    BY <1>1, <2>2, Mine
  <2>8. /\ w \in Objects /\ w.made = ev[e].made /\ w.held = ev[e].held /\ w.refd = ev[e].refd /\ w.list = "none"
        /\ w.refs = ev[e].refs /\ w.hnd = ev[e].hnd /\ w.sched = ev[e].sched /\ w.closed = ev[e].closed
        /\ w.repeat = ev[e].repeat /\ w.periodic = ev[e].periodic
    BY <2>4, <2>7 DEF Objects
  <2>9. Good(e, w, TRUE) /\ Ages(e, ev[e], w)
    <3>1. Holds(ev[e], cb = e) = Count(w.held) + 1 + Count(w.sched) + Count(w.hnd = "closing") + 0
      <4>1. Count(cb = e) = 0 /\ Count(ev[e].list # "none") = 1
        BY <2>2, <2>6, EventNames DEF Count
      <4> QED BY <2>8, <4>1 DEF Holds
    <3>2. PICK b \in BOOLEAN : b = TRUE
      OBVIOUS
    <3>3. w.refs = Holds(w, b) + 0
      <4>1. Count(w.list # "none") = 0 /\ Count(b) = 1
        BY <2>8, <3>2 DEF Count
      <4>2. Holds(w, b) = Count(w.held) + 0 + Count(w.sched) + Count(w.hnd = "closing") + 1
        BY <4>1 DEF Holds
      <4>3. w.refs = Holds(ev[e], cb = e)
        BY <2>7, <2>8
      <4>4. Count(w.held) \in Int /\ Count(w.sched) \in Int /\ Count(w.hnd = "closing") \in Int
        BY DEF Count
      <4> QED BY <3>1, <4>2, <4>3, <4>4
    <3>4. Kind[e] = "tick" /\ Shape(e, w, TRUE)
      BY <2>6, <2>7, <2>8 DEF Shape, Open
    <3>5. Good(e, w, b)
      BY <2>8, <3>2, <3>3, <3>4 DEF Good, Owing
    <3> QED BY <2>8, <3>2, <3>4, <3>5 DEF Ages, Open
  <2>10. ListsOK'
    <3>1. ev[e].list # "none" /\ w.list = "none" /\ w.refd = ev[e].refd
      BY <2>6, <2>8
    <3>2. ticks' = (IF ev[e].list = "ticks" THEN RemoveFirst(ticks, e) ELSE ticks)
      BY <2>3, <2>6
    <3>3. refticks' = refticks - (IF w.refd THEN 1 ELSE 0)
      BY <2>3, <2>8
    <3>4. running' \in Seq(Events) /\ Single(running', Events) /\ ToSet(running') = ToSet(running) \ {e}
      BY <2>2, <2>3
    <3>5. w \in Objects
      BY <2>8
    <3> HIDE DEF Inv
    <3> QED BY <1>1, <2>2, <2>5, <3>1, <3>2, <3>3, <3>4, <3>5, LeaveList
  <2>11. \A x \in due' : x \in due /\ (x = e => w.hnd = ev[e].hnd)
    BY <1>2, <2>8
  <2> QED BY <1>2, <2>2, <2>3, <2>5, <2>9, <2>10, <2>11, CallsBack
<1> QED BY <1>3, <1>4

(* The steps of uv_run that run no code.                                    *)
LEMMA InvUv == ASSUME Inv, UvRun \/ UpdateTime \/ LeaveTimers \/ After PROVE Inv'
<1>1. ObjectsOK /\ ListsOK /\ LoopOK /\ EndOK
  BY DEF Inv
<1>2. UNCHANGED <<ev, lists, phase, cb, back, due, busy, stopped>> /\ pc \notin {"main", "code"}
  BY DEF UvRun, UpdateTime, LeaveTimers, After, Goto, ioVars
<1>3. ObjectsOK' /\ ListsOK'
  BY <1>1, <1>2, Quiet
<1>4. \A x \in Events : Ages(x, ev[x], ev'[x])
  BY <1>2, AgesSame
<1>5. CASE UvRun
  <2>1. pc = "run" /\ nowait' = (ticks # <<>>) /\ uvstop' = uvstop /\ pc' \in {"time", "after"}
        /\ (pc' = "after" => ~Alive)
    BY <1>5 DEF UvRun
  <2>2. LoopOK'
    BY <1>1, <1>2, <2>1 DEF LoopOK, lists, InTicks, Active, Places, Of
  <2>3. EndOK'
    <3>1. pc' = "after" => NoneClosing'
      BY <1>2, <2>1 DEF Alive, AliveIn, NoneClosing
    <3>2. pc' # "main" /\ phase # "done" /\ phase' = phase /\ (busy' => busy)
      BY <1>1, <1>2, <2>1 DEF LoopOK
    <3> HIDE DEF Inv
    <3> QED BY <1>1, <1>4, <3>1, <3>2, EndKept
  <2> QED BY <1>3, <2>2, <2>3 DEF Inv
<1>6. CASE UpdateTime \/ LeaveTimers
  <2>1. pc \in {"time", "timers"} /\ pc' \in {"timers", "sleep", "poll"} /\ uvstop' = uvstop /\ nowait' = nowait
        /\ (pc' = "sleep" => ~nowait /\ ~uvstop)
    BY <1>6 DEF UpdateTime, LeaveTimers, Goto, MaySleep
  <2>2. LoopOK'
    BY <1>1, <1>2, <2>1 DEF LoopOK, lists, InTicks, Active, Places, Of
  <2>3. EndOK'
    BY <1>1, <1>2, <1>4, <2>1, EndGoes
  <2> QED BY <1>3, <2>2, <2>3 DEF Inv
<1>7. CASE After
  <2>1. pc = "after" /\ uvstop' = FALSE /\ nowait' = nowait /\ pc' \in {"top", "main"}
        /\ (pc' = "main" => stopped # {} \/ ~(refticks > 0))
    BY <1>7 DEF After, Goto, Again
  <2>2. LoopOK'
    BY <1>1, <1>2, <2>1 DEF LoopOK, lists, InTicks, Active, Places, Of
  <2>3. EndOK'
    <3>1. pc' = "main" => stopped' # {} \/ refticks' = 0
      <4>1. refticks \in Nat
        BY <1>1, CountedFinite DEF ListsOK
      <4> QED BY <1>2, <2>1, <4>1 DEF lists
    <3>2. phase # "done" /\ phase' = phase /\ (busy' => busy) /\ pc \in {"after", "main"}
      BY <1>1, <1>2, <2>1 DEF LoopOK
    <3> HIDE DEF Inv
    <3> QED BY <1>1, <1>4, <3>1, <3>2, EndKept
  <2> QED BY <1>3, <2>2, <2>3 DEF Inv
<1> QED BY <1>5, <1>6, <1>7

(* uv__run_timers and timer_cb.                                             *)
LEMMA InvTimerCb == ASSUME Inv, NEW e \in Events, TimerCb(e) PROVE Inv'
<1>1. ObjectsOK /\ ListsOK /\ LoopOK /\ EndOK
  BY DEF Inv
<1>2. UNCHANGED <<lists, busy, stopped>> /\ pc = "timers" /\ e \in due /\ due' = due \ {e} /\ Callback(e, "timers")
  BY DEF TimerCb
<1>3. cb = None /\ Kind[e] = "timer" /\ ev[e].hnd = "active"
  BY <1>1, <1>2 DEF LoopOK, Of
<1>4. /\ ev[e] \in Objects /\ Shape(e, ev[e], cb = e) /\ ev[e].refs = Holds(ev[e], cb = e) /\ ev[e].refs \in Int
  BY <1>1, Mine
<1>5. PICK h \in {"idle", "active"} : h = (IF ev[e].repeat THEN "active" ELSE "idle")
  OBVIOUS
<1>6. PICK a : a = [ev[e] EXCEPT !.hnd = h]
  OBVIOUS
<1>7. Is(a, ev[e], ev[e].refs, h, ev[e].sched, ev[e].closed)
  BY <1>4, <1>6, Handled
<1>8. PICK u : u = Addref(a)
  OBVIOUS
<1>9. Is(u, a, a.refs + 1, a.hnd, a.sched, a.closed)
  BY <1>7, <1>8, Referred DEF Is, Addref
<1>10. PICK w : w = IF u.periodic THEN u ELSE Unschedule(u)
  OBVIOUS
<1>11. ev' = [ev EXCEPT ![e] = w]
  BY <1>5, <1>6, <1>8, <1>10 DEF TimerCb, Set
<1>12. u \in Objects /\ Same(ev[e], u) /\ u.refs = ev[e].refs + 1 /\ u.hnd = h /\ u.sched = TRUE /\ u.closed = ev[e].closed
       /\ ev[e].sched = TRUE /\ ev[e].made /\ ev[e].list = "none"
  <2>1. ev[e].sched = TRUE /\ ev[e].made /\ ev[e].list = "none"
    BY <1>3, <1>4, Fields DEF Shape
  <2>2. u \in Objects /\ u.refs = ev[e].refs + 1 /\ u.hnd = h /\ u.sched = ev[e].sched /\ u.closed = ev[e].closed
    BY <1>7, <1>9, Zenon DEF Is
  <2>3. Same(ev[e], u)
    BY <1>7, <1>9 DEF Is, Same, Listing
  <2> QED BY <2>1, <2>2, <2>3
<1>13. /\ w \in Objects /\ Same(ev[e], w) /\ w.hnd = h /\ w.closed = ev[e].closed
       /\ w.refs = ev[e].refs + Count(w.sched) /\ (w.repeat => w.sched)
  <2>1. CASE u.periodic
    <3>1. w = u /\ Count(w.sched) = 1
      BY <1>10, <1>12, <2>1 DEF Count
    <3> QED BY <1>12, <3>1
  <2>2. CASE ~u.periodic
    <3>1. Is(w, u, u.refs - Count(u.sched), u.hnd, FALSE, u.closed)
      BY <1>10, <1>12, <2>2, Unscheduled
    <3>2. Count(u.sched) = 1 /\ Count(w.sched) = 0 /\ w.refs = u.refs - Count(u.sched)
      BY <1>12, <3>1 DEF Count, Is
    <3>3. w.refs = ev[e].refs + Count(w.sched)
      <4>1. ev[e].refs \in Int /\ u.refs = ev[e].refs + 1
        BY <1>4, <1>12
      <4> QED BY <3>2, <4>1
    <3>4. ~w.repeat
      BY <1>4, <1>12, <2>2, <3>1 DEF Is, Same, Shape
    <3> QED BY <1>12, <3>1, <3>3, <3>4 DEF Is, Same, Listing
  <2> QED BY <2>1, <2>2
<1>14. PICK b \in BOOLEAN : b = TRUE
  OBVIOUS
<1>15. Good(e, w, b)
  <2>1. Holds(ev[e], cb = e) = Count(ev[e].held) + 0 + 1 + 0 + 0
    <3>1. Count(cb = e) = 0 /\ Count(ev[e].list # "none") = 0 /\ Count(ev[e].hnd = "closing") = 0 /\ Count(ev[e].sched) = 1
      BY <1>3, <1>12, EventNames DEF Count
    <3> QED BY <3>1 DEF Holds
  <2>2. Holds(w, b) = Count(ev[e].held) + 0 + Count(w.sched) + 0 + 1
    <3>1. Count(b) = 1 /\ Count(w.list # "none") = 0 /\ Count(w.hnd = "closing") = 0 /\ w.held = ev[e].held
      BY <1>5, <1>12, <1>13, <1>14 DEF Count, Same, Listing
    <3> QED BY <3>1 DEF Holds
  <2>3. w.refs = Holds(w, b)
    <3>1. w.refs = Holds(ev[e], cb = e) + Count(w.sched)
      BY <1>4, <1>13
    <3>2. Count(w.sched) \in Int /\ Count(ev[e].held) \in Int
      BY DEF Count
    <3> QED BY <2>1, <2>2, <3>1, <3>2
  <2>4. Shape(e, w, b)
    <3>1. h = "active" => ev[e].repeat
      BY <1>5
    <3>2. h = "active" => w.sched
      BY <1>13, <3>1 DEF Same
    <3>3. Open(w) /\ w.made /\ w.list = "none" /\ (w.repeat => w.periodic)
      BY <1>4, <1>12, <1>13 DEF Open, Same, Listing, Shape
    <3> QED BY <1>3, <1>13, <3>2, <3>3 DEF Shape
  <2>5. w.refs # 0
    BY <1>13, <1>14, <2>3, HoldsMuch
  <2> QED BY <1>13, <2>3, <2>4, <2>5, GoodWhen
<1>16. Ages(e, ev[e], w)
  BY <1>3, <1>13 DEF Ages, Open, Same
<1>17. ListsOK'
  BY <1>1, <1>2, <1>11, <1>13, ListsLeft DEF Same
<1>18. Good(e, w, TRUE)
  BY <1>14, <1>15
<1>19. Active /\ running' = running /\ ticks' = ticks /\ \A x \in due' : x \in due /\ (x = e => w.hnd = ev[e].hnd)
  BY <1>2 DEF Active, lists
<1>20. UNCHANGED <<busy, stopped>> /\ pc = "timers"
  BY <1>2
<1> QED
  <2> HIDE DEF Inv
  <2> QED BY <1>2, <1>11, <1>16, <1>17, <1>18, <1>19, <1>20, CallsBack

(* close_timer and close_poll.                                              *)
LEMMA ClosingEnds ==
    ASSUME NEW e \in Events, NEW v, NEW b \in BOOLEAN, Good(e, v, b), v.hnd = "closing",
           NEW u, u = [v EXCEPT !.hnd = "closed"]
    PROVE  Owing(e, u, b, 1) /\ u.made /\ Listing(v, u) /\ Ages(e, v, u) /\ u.hnd = "closed"
<1>1. v \in Objects /\ v.refs \in Int /\ Shape(e, v, b) /\ v.refs = Holds(v, b)
  BY GoodIs
<1>2. v.made
  BY <1>1 DEF Shape
<1>3. /\ u \in Objects /\ u.made = v.made /\ u.held = v.held /\ u.refd = v.refd /\ u.list = v.list
      /\ u.refs = v.refs /\ u.hnd = "closed" /\ u.sched = v.sched /\ u.closed = v.closed
      /\ u.repeat = v.repeat /\ u.periodic = v.periodic
  BY <1>1 DEF Objects
<1>4. u.refs = Holds(u, b) + 1
  <2>1. Holds(v, b) = Count(v.held) + Count(v.list # "none") + Count(v.sched) + 1 + Count(b)
    <3>1. Count(v.hnd = "closing") = 1
      BY DEF Count
    <3> QED BY <3>1 DEF Holds
  <2>2. Holds(u, b) = Count(v.held) + Count(v.list # "none") + Count(v.sched) + 0 + Count(b)
    <3>1. Count(u.hnd = "closing") = 0
      BY <1>3 DEF Count
    <3> QED BY <1>3, <3>1 DEF Holds
  <2>3. u.refs = Holds(v, b) /\ u.refs \in Int
    BY <1>1, <1>3
  <2>4. Count(v.held) \in Int /\ Count(v.list # "none") \in Int /\ Count(v.sched) \in Int /\ Count(b) \in Int
    BY DEF Count
  <2> QED BY <2>1, <2>2, <2>3, <2>4
<1>5. Shape(e, u, b)
  BY <1>1, <1>2, <1>3 DEF Shape, Open
<1> QED BY <1>2, <1>3, <1>4, <1>5 DEF Owing, Listing, Ages, Open

(* The rest of an iteration.                                                *)
LEMMA InvLeavePoll == ASSUME Inv, LeavePoll PROVE Inv'
<1>1. ObjectsOK /\ ListsOK /\ LoopOK /\ EndOK
  BY DEF Inv
<1>2. /\ UNCHANGED <<lists, phase, cb, back, nowait, uvstop, due, busy, stopped>> /\ pc = "poll" /\ pc' \in {"time", "after"}
      /\ ev' = Closed
  BY DEF LeavePoll, Goto, ioVars
<1>3. ASSUME NEW x \in Events
      PROVE  /\ Good(x, ev'[x], cb' = x) /\ Listing(ev[x], ev'[x]) /\ Ages(x, ev[x], ev'[x])
             /\ ev'[x].hnd # "closing" /\ (ev[x].hnd = "active" => ev'[x].hnd = "active")
  <2>1. PICK b \in BOOLEAN : b = (cb' = x)
    OBVIOUS
  <2>2. PICK v : v = ev[x]
    OBVIOUS
  <2>3. Good(x, v, b) /\ b \in BOOLEAN
    BY <1>1, <1>2, <2>1, <2>2, Mine
  <2>4. CASE v.hnd = "closing"
    <3>1. PICK u : u = [v EXCEPT !.hnd = "closed"]
      OBVIOUS
    <3>2. Owing(x, u, b, 1) /\ u.made /\ Listing(v, u) /\ Ages(x, v, u) /\ u.hnd = "closed"
      BY <2>3, <2>4, <3>1, ClosingEnds
    <3>3. PICK w : w = Delref(x, u)
      OBVIOUS
    <3>4. Good(x, w, b) /\ Listing(u, w) /\ Ages(x, u, w)
      BY <2>3, <3>2, <3>3, GivenUp
    <3>5. ev'[x] = w
      BY <1>2, <2>2, <2>4, <3>1, <3>3 DEF Closed
    <3>6. Ages(x, v, w) /\ Listing(v, w)
      BY <3>2, <3>4, AgesOn DEF Listing
    <3>7. w.hnd # "closing"
      BY <3>2, <3>4 DEF Ages, Open
    <3> QED BY <2>1, <2>2, <2>4, <3>4, <3>5, <3>6, <3>7
  <2>5. CASE v.hnd # "closing"
    <3>1. ev'[x] = v
      BY <1>2, <2>2, <2>5 DEF Closed
    <3> QED BY <2>1, <2>2, <2>3, <2>5, <3>1, AgesSame
  <2> QED BY <2>4, <2>5
<1>4. ObjectsOK'
  <2>1. \A x \in Events : ev'[x] \in Objects
    BY <1>3 DEF Good, Owing
  <2>2. ev' = [x \in Events |-> ev'[x]]
    BY <1>2 DEF Closed
  <2>3. ev' \in [Events -> Objects]
    BY <2>1, <2>2
  <2> QED BY <1>3, <2>3 DEF ObjectsOK
<1>5. ListsOK'
  BY <1>1, <1>2, <1>3, <1>4, ListsKept DEF ObjectsOK
<1>6. LoopOK'
  <2>1. \A x \in due' : x \in Of("timer") /\ ev'[x].hnd = "active"
    BY <1>1, <1>2, <1>3 DEF LoopOK, Of
  <2> QED BY <1>1, <1>2, <2>1 DEF LoopOK, lists, InTicks, Active, Places
<1>7. EndOK'
  <2>1. NoneClosing' /\ pc' # "main" /\ phase # "done" /\ phase' = phase /\ (busy' => busy)
    BY <1>1, <1>2, <1>3 DEF LoopOK, NoneClosing
  <2>2. \A x \in Events : Ages(x, ev[x], ev'[x])
    BY <1>3
  <2> HIDE DEF Inv
  <2> QED BY <1>1, <2>1, <2>2, EndKept
<1> QED BY <1>4, <1>5, <1>6, <1>7 DEF Inv

(* What a callback leaves of an event.                                      *)
LEMMA CodeReleased ==
    ASSUME Inv, pc = "code", NEW x \in Events
    PROVE  /\ Good(x, Released[x], FALSE) /\ Listing(ev[x], Released[x]) /\ Ages(x, ev[x], Released[x])
           /\ ev[x].hnd = "active" => Released[x].hnd = "active"
<1>1. ObjectsOK /\ LoopOK
  BY DEF Inv
<1>2. cb = "op" \/ cb \in Events
  BY <1>1 DEF LoopOK
<1>3. PICK f \in BOOLEAN : f = FALSE
  OBVIOUS
<1>4. PICK v : v = ev[x]
  OBVIOUS
<1>5. Good(x, v, cb = x) /\ v \in Objects /\ v.refs = Holds(v, cb = x) /\ Shape(x, v, cb = x) /\ v.refs \in Int
  BY <1>1, <1>4, Mine
<1>6. CASE cb = x
  <2>1. Released[x] = Delref(x, v)
    BY <1>1, <1>4, <1>6, EventNames DEF Released, ObjectsOK
  <2>2. Owing(x, v, f, 1) /\ v.made
    <3>1. Count(cb = x) = 1 /\ Count(f) = 0
      BY <1>3, <1>6 DEF Count
    <3>2. Holds(v, cb = x) = Count(v.held) + Count(v.list # "none") + Count(v.sched) + Count(v.hnd = "closing") + 1
      BY <3>1 DEF Holds
    <3>3. Holds(v, f) = Count(v.held) + Count(v.list # "none") + Count(v.sched) + Count(v.hnd = "closing") + 0
      BY <3>1 DEF Holds
    <3>4. /\ Count(v.held) \in Int /\ Count(v.list # "none") \in Int
          /\ Count(v.sched) \in Int /\ Count(v.hnd = "closing") \in Int
      BY DEF Count
    <3>5. v.refs = Holds(v, cb = x)
      BY <1>5
    <3>6. v.refs = Holds(v, f) + 1
      BY <3>2, <3>3, <3>4, <3>5
    <3>7. Shape(x, v, f) /\ v.made
      BY <1>3, <1>5, <1>6 DEF Shape
    <3> QED BY <1>5, <3>6, <3>7 DEF Owing
  <2>3. Good(x, Delref(x, v), f) /\ Listing(v, Delref(x, v)) /\ Ages(x, v, Delref(x, v))
    BY <1>3, <2>2, GivenUp
  <2>4. ASSUME v.hnd = "active" PROVE Delref(x, v).hnd = "active"
    <3>1. Holds(v, f) # 0
      <4>1. v.sched
        BY <1>5, <2>4 DEF Shape
      <4> QED BY <1>3, <1>5, <4>1, HoldsNothing
    <3>2. v.refs - 1 # 0
      <4>1. v.refs = Holds(v, f) + 1 /\ Holds(v, f) \in Nat
        BY <1>3, <1>5, <2>2, HoldsNothing DEF Owing
      <4> QED BY <3>1, <4>1
    <3>3. PICK w : w = [v EXCEPT !.refs = @ - 1]
      OBVIOUS
    <3>4. Is(w, v, v.refs - 1, v.hnd, v.sched, v.closed)
      BY <1>5, <3>3, Referred
    <3>5. Delref(x, v) = w
      <4>1. w.refs # 0
        BY <3>2, <3>4 DEF Is
      <4> QED BY <3>3, <4>1 DEF Delref
    <3> QED BY <2>4, <3>4, <3>5 DEF Is
  <2> QED BY <1>3, <1>4, <2>1, <2>3, <2>4
<1>7. CASE cb # x
  <2>1. Released[x] = v
    <3>1. CASE cb = "op"
      BY <1>4, <3>1 DEF Released
    <3>2. CASE cb # "op"
      BY <1>1, <1>2, <1>4, <1>7, <3>2 DEF Released, ObjectsOK
    <3> QED BY <3>1, <3>2
  <2>2. Good(x, v, f)
    <3>1. (cb = x) = f
      BY <1>3, <1>7
    <3> QED BY <1>5, <3>1
  <2> QED BY <1>3, <1>4, <2>1, <2>2, AgesSame
<1> QED BY <1>6, <1>7

(* A callback returns.                                                      *)
LEMMA InvReturn == ASSUME Inv, Return PROVE Inv'
<1>1. ObjectsOK /\ ListsOK /\ LoopOK /\ EndOK
  BY DEF Inv
<1>2. /\ UNCHANGED <<lists, phase, back, nowait, uvstop, due, busy, stopped>> /\ pc = "code" /\ pc' = back /\ cb' = None
      /\ ev' = Released
  BY DEF Return, LeaveCode, ioVars
<1>3. back \in {"ticks", "timers", "poll"}
  BY <1>1, <1>2 DEF LoopOK
<1>4. ASSUME NEW x \in Events
      PROVE  /\ Good(x, ev'[x], FALSE) /\ Listing(ev[x], ev'[x]) /\ Ages(x, ev[x], ev'[x])
             /\ (ev[x].hnd = "active" => ev'[x].hnd = "active")
  BY <1>2, CodeReleased
<1>5. ObjectsOK'
  <2>1. \A x \in Events : ev'[x] \in Objects
    BY <1>4 DEF Good, Owing
  <2>2. ev' \in [Events -> Objects]
    <3>1. ev' = [x \in Events |-> ev'[x]]
      BY <1>1, <1>2 DEF Released, ObjectsOK
    <3> QED BY <2>1, <3>1
  <2>3. \A x \in Events : (cb' = x) = FALSE
    BY <1>2, EventNames
  <2>4. \A x \in Events : Good(x, ev'[x], cb' = x)
    BY <1>4, <2>3
  <2> QED BY <2>2, <2>4 DEF ObjectsOK
<1>6. ListsOK'
  BY <1>1, <1>2, <1>4, <1>5, ListsKept DEF ObjectsOK
<1>7. LoopOK'
  <2>1. \A x \in due' : x \in Of("timer") /\ ev'[x].hnd = "active"
    BY <1>1, <1>2, <1>4 DEF LoopOK, Of
  <2> QED BY <1>1, <1>2, <1>3, <2>1 DEF LoopOK, lists, InTicks, Active, Places
<1>8. EndOK'
  <2>1. pc # "main" /\ pc' \notin {"after", "main"} /\ phase' = phase /\ (busy' => busy)
    BY <1>2, <1>3
  <2>2. \A x \in Events : Ages(x, ev[x], ev'[x])
    BY <1>4
  <2> HIDE DEF Inv
  <2> QED BY <1>1, <2>1, <2>2, EndGoes
<1> QED BY <1>5, <1>6, <1>7, <1>8 DEF Inv

(* The loop.                                                                *)
LEMMA InvLoop == ASSUME Inv, LoopStep PROVE Inv'
BY InvTop, InvRunTick, InvUv, InvLeavePoll, InvReturn, InvTimerCb DEF LoopStep
-------------------------------------------------------------------------------
(* The world outside, and failures.                                         *)

(* Time passes.                                                             *)
LEMMA InvElapse == ASSUME Inv, NEW e \in Events, Elapse(e) PROVE Inv'
<1>1. ObjectsOK /\ ListsOK /\ LoopOK /\ EndOK
  BY DEF Inv
<1>2. /\ UNCHANGED <<ev, lists, phase, cb, back, nowait, uvstop, busy, stopped>> /\ pc \in {"time", "sleep"}
      /\ pc' \in {"time", "poll"}
      /\ due' = due \cup {e} /\ e \in Of("timer") /\ ev[e].hnd = "active"
  BY DEF Elapse, Goto
<1>3. ObjectsOK' /\ ListsOK'
  BY <1>1, <1>2, Quiet
<1>4. LoopOK'
  BY <1>1, <1>2 DEF LoopOK, lists, InTicks, Active, Places, Of
<1>5. EndOK'
  <2>1. \A x \in Events : Ages(x, ev[x], ev'[x])
    BY <1>2, AgesSame
  <2> QED BY <1>1, <1>2, <2>1, EndGoes
<1> QED BY <1>3, <1>4, <1>5 DEF Inv

(* An operation answers.                                                    *)
LEMMA InvOpCb == ASSUME Inv, OpCb PROVE Inv'
<1>1. ObjectsOK /\ ListsOK /\ LoopOK /\ EndOK
  BY DEF Inv
<1>2. /\ UNCHANGED <<ev, lists, phase, nowait, uvstop, due, stopped>> /\ pc \in {"poll", "sleep"}
      /\ pc' = "code" /\ cb' = "op" /\ back' = "poll" /\ busy' = FALSE
  BY DEF OpCb, Callback
<1>3. ObjectsOK'
  <2>1. \A x \in Events : (cb' = x) = (cb = x)
    BY <1>1, <1>2, EventNames DEF LoopOK
  <2> QED BY <1>1, <1>2, <2>1 DEF ObjectsOK
<1>4. ListsOK'
  BY <1>1, <1>2, ListsKept, AgesSame DEF ObjectsOK
<1>5. LoopOK'
  BY <1>1, <1>2 DEF LoopOK, lists, InTicks, Active, Places, Of
<1>6. EndOK'
  <2>1. \A x \in Events : Ages(x, ev[x], ev'[x])
    BY <1>2, AgesSame
  <2> QED BY <1>1, <1>2, <2>1, EndGoes
<1> QED BY <1>3, <1>4, <1>5, <1>6 DEF Inv

(* A poll reports.                                                          *)
LEMMA InvPollCb == ASSUME Inv, NEW e \in Events, PollCb(e) PROVE Inv'
<1>1. ObjectsOK /\ ListsOK /\ LoopOK /\ EndOK
  BY DEF Inv
<1>2. /\ UNCHANGED <<lists, due, busy, stopped>> /\ pc \in {"poll", "sleep"} /\ Callback(e, "poll")
      /\ ev[e].hnd = "active"
  BY DEF PollCb, Reported
<1>3. cb = None
  BY <1>1, <1>2 DEF LoopOK
<1>4. /\ ev[e] \in Objects /\ Shape(e, ev[e], cb = e) /\ ev[e].refs = Holds(ev[e], cb = e) /\ ev[e].refs \in Int
  BY <1>1, Mine
<1>5. PICK w : w = Addref(ev[e])
  OBVIOUS
<1>6. Is(w, ev[e], ev[e].refs + 1, ev[e].hnd, ev[e].sched, ev[e].closed)
  BY <1>4, <1>5, Referred DEF Addref
<1>7. ev' = [ev EXCEPT ![e] = w]
  BY <1>5 DEF PollCb, Set
<1>8. PICK b \in BOOLEAN : b = TRUE
  OBVIOUS
<1>9. /\ w \in Objects /\ Same(ev[e], w) /\ w.refs = ev[e].refs + 1 /\ w.hnd = ev[e].hnd
      /\ w.sched = ev[e].sched /\ w.closed = ev[e].closed
  BY <1>6 DEF Is
<1>10. Good(e, w, b)
  <2>1. Count(cb = e) = 0 /\ Count(b) = 1
    BY <1>3, <1>8, EventNames DEF Count
  <2>2. Holds(ev[e], cb = e) = Count(w.held) + Count(w.list # "none") + Count(w.sched) + Count(w.hnd = "closing") + 0
    BY <1>9, <2>1 DEF Holds, Same, Listing
  <2>3. Holds(w, b) = Count(w.held) + Count(w.list # "none") + Count(w.sched) + Count(w.hnd = "closing") + 1
    BY <2>1 DEF Holds
  <2>4. /\ Count(w.held) \in Int /\ Count(w.list # "none") \in Int
        /\ Count(w.sched) \in Int /\ Count(w.hnd = "closing") \in Int
    BY DEF Count
  <2>5. w.refs = Holds(ev[e], cb = e) + 1
    BY <1>4, <1>9
  <2>6. w.refs = Holds(w, b)
    BY <2>2, <2>3, <2>4, <2>5
  <2>7. Shape(e, w, b)
    BY <1>2, <1>4, <1>9 DEF Shape, Open, Same, Listing
  <2>8. w.refs # 0
    BY <1>8, <1>9, <2>6, HoldsMuch
  <2> QED BY <1>9, <2>6, <2>7, <2>8, GoodWhen
<1>11. Ages(e, ev[e], w)
  BY <1>2, <1>9 DEF Ages, Open, Same
<1>12. ListsOK'
  BY <1>1, <1>2, <1>7, <1>9, ListsLeft DEF Same
<1>13. Good(e, w, TRUE)
  BY <1>8, <1>10
<1>14. Active /\ running' = running /\ ticks' = ticks /\ \A x \in due' : x \in due /\ (x = e => w.hnd = ev[e].hnd)
  BY <1>2, <1>9 DEF Active, lists
<1>15. UNCHANGED <<busy, stopped>> /\ pc \notin {"main", "code", "ticks"}
  BY <1>2
<1> QED
  <2> HIDE DEF Inv
  <2> QED BY <1>2, <1>7, <1>11, <1>12, <1>13, <1>14, <1>15, CallsBack

(* The scheduler is stopped: after PHP code failed, or a poll did.          *)
LEMMA StopsWell ==
    ASSUME Inv, pc \notin {"main", "ticks"}, NEW why, NEW evs, Stop(why, evs), cb' = None, phase' = phase, nowait' = nowait,
           pc' \in {"run", "timers", "poll"}, pc' # "run" => Active, due' = due, busy' = busy,
           \A x \in Events : Good(x, evs[x], FALSE) /\ Listing(ev[x], evs[x]) /\ Ages(x, ev[x], evs[x]),
           \A x \in due : evs[x].hnd = "active"
    PROVE  Inv'
<1>1. ObjectsOK /\ ListsOK /\ LoopOK /\ EndOK
  BY DEF Inv
<1>2. DisposeTicks(evs) /\ uvstop' = (uvstop \/ Active) /\ stopped' = stopped \cup {why}
  BY DEF Stop
<1>3. \A x \in Events : Good(x, evs[x], cb' = x) /\ Listing(ev[x], evs[x])
  <2>1. \A x \in Events : (cb' = x) = FALSE
    BY EventNames
  <2> QED BY <2>1
<1>4. /\ ObjectsOK' /\ ListsOK' /\ refticks' = 0 /\ ticks' = <<>> /\ running' = <<>>
      /\ \A x \in Events : /\ IF Kind[x] = "tick" THEN ev'[x].hnd = "idle" ELSE ev'[x] = evs[x]
                           /\ Ages(x, evs[x], ev'[x])
  <2> HIDE DEF Inv
  <2> QED BY <1>1, <1>2, <1>3, TicksDisposed
<1>5. LoopOK'
  <2>1. \A x \in due' : x \in Of("timer") /\ ev'[x].hnd = "active"
    BY <1>1, <1>4 DEF LoopOK, Of
  <2>2. uvstop' \in BOOLEAN /\ phase \notin {"first", "done"}
    BY <1>1, <1>2 DEF LoopOK, Active
  <2> QED BY <1>1, <1>4, <2>1, <2>2 DEF LoopOK, InTicks, Active, Places
<1>6. EndOK'
  <2>1. \A x \in Events : Ages(x, ev[x], ev'[x])
    BY <1>4, AgesOn
  <2>2. pc # "main" /\ phase' = phase /\ (busy' => busy) /\ pc' \notin {"after", "main"}
    OBVIOUS
  <2> HIDE DEF Inv
  <2> QED BY <1>1, <2>1, <2>2, EndGoes
<1> QED BY <1>4, <1>5, <1>6 DEF Inv

(* A callback fails, or calls exit().                                       *)
LEMMA InvFail == ASSUME Inv, NEW why, Fail(why) PROVE Inv'
<1>1. LoopOK
  BY DEF Inv
<1>2. /\ pc = "code" /\ pc' = (IF back = "ticks" THEN "run" ELSE back) /\ cb' = None
      /\ UNCHANGED <<phase, nowait, due, busy>> /\ Stop(why, Released)
  BY DEF Fail, LeaveCode, ioVars
<1>3. pc' \in {"run", "timers", "poll"} /\ (pc' # "run" => Active) /\ pc \notin {"main", "ticks"}
  BY <1>1, <1>2 DEF LoopOK, Active
<1>4. PICK evs : evs = Released
  OBVIOUS
<1>5. /\ \A x \in Events : Good(x, evs[x], FALSE) /\ Listing(ev[x], evs[x]) /\ Ages(x, ev[x], evs[x])
      /\ \A x \in due : evs[x].hnd = "active"
  <2>1. \A x \in due : x \in Events /\ ev[x].hnd = "active"
    BY <1>1 DEF LoopOK, Of
  <2> QED BY <1>2, <1>4, <2>1, CodeReleased
<1>6. Stop(why, evs) /\ cb' = None /\ phase' = phase /\ nowait' = nowait /\ due' = due /\ busy' = busy
  BY <1>2, <1>4
<1> QED BY <1>3, <1>5, <1>6, StopsWell

(* A descriptor fails.                                                      *)
LEMMA InvPollFails == ASSUME Inv, NEW e \in Events, PollFails(e) PROVE Inv'
<1>1. ObjectsOK /\ LoopOK
  BY DEF Inv
<1>2. /\ pc \in {"poll", "sleep"} /\ Kind[e] = "poll" /\ ev[e].hnd = "active"
      /\ pc' = "poll" /\ UNCHANGED <<cb, phase, nowait, due, busy>>
  BY DEF PollFails, Reported, Goto, Of
<1>3. PICK evs : evs = [ev EXCEPT ![e].hnd = "idle"]
  OBVIOUS
<1>4. cb = None /\ \A x \in due : x \in Events /\ Kind[x] = "timer" /\ ev[x].hnd = "active"
  BY <1>1, <1>2 DEF LoopOK, Of
<1>5. PICK f \in BOOLEAN : f = FALSE
  OBVIOUS
<1>6. \A x \in Events : Good(x, ev[x], f)
  <2>1. \A x \in Events : (cb = x) = f
    BY <1>4, <1>5, EventNames
  <2> QED BY <1>1, <2>1, Mine
<1>7. PICK v : v = ev[e]
  OBVIOUS
<1>8. PICK w : w = [v EXCEPT !.hnd = "idle"]
  OBVIOUS
<1>9. v \in Objects /\ Shape(e, v, f) /\ v.refs = Holds(v, f) /\ v.hnd = "active" /\ Good(e, v, f)
  BY <1>2, <1>5, <1>6, <1>7, GoodIs
<1>10. Is(w, v, v.refs, "idle", v.sched, v.closed)
  BY <1>8, <1>9, Handled
<1>11. Good(e, w, f) /\ Listing(v, w) /\ Ages(e, v, w)
  <2>1. Holds(w, f) = Holds(v, f)
    <3>1. Count(w.hnd = "closing") = Count(v.hnd = "closing")
      BY <1>9, <1>10 DEF Count, Is
    <3> QED BY <1>10, <3>1 DEF Holds, Is, Same, Listing
  <2>2. Shape(e, w, f)
    BY <1>9, <1>10 DEF Shape, Open, Is, Same, Listing
  <2>3. w.refs # 0
    BY <1>2, <1>9, <1>10 DEF Good, Shape, Is
  <2>4. w \in Objects /\ w.refs = Holds(w, f)
    BY <1>9, <1>10, <2>1 DEF Is
  <2>5. Good(e, w, f)
    BY <1>5, <2>2, <2>3, <2>4, GoodWhen
  <2> QED BY <1>9, <1>10, <2>5 DEF Is, Same, Ages, Open
<1>12. evs[e] = w /\ \A x \in Events : x # e => evs[x] = ev[x]
  BY <1>1, <1>3, <1>7, <1>8 DEF ObjectsOK
<1>13. /\ \A x \in Events : Good(x, evs[x], FALSE) /\ Listing(ev[x], evs[x]) /\ Ages(x, ev[x], evs[x])
       /\ \A x \in due : evs[x].hnd = "active"
  <2>1. ASSUME NEW x \in Events PROVE Good(x, evs[x], FALSE) /\ Listing(ev[x], evs[x]) /\ Ages(x, ev[x], evs[x])
    <3>1. CASE x = e
      BY <1>5, <1>7, <1>11, <1>12, <3>1
    <3>2. CASE x # e
      BY <1>5, <1>6, <1>12, <3>2, AgesSame
    <3> QED BY <3>1, <3>2
  <2>2. \A x \in due : evs[x].hnd = "active"
    BY <1>2, <1>4, <1>12
  <2> QED BY <2>1, <2>2
<1>14. /\ Stop("error", evs) /\ cb' = None /\ phase' = phase /\ nowait' = nowait /\ due' = due /\ busy' = busy
       /\ pc' \in {"run", "timers", "poll"} /\ Active /\ pc \notin {"main", "ticks"}
  BY <1>2, <1>3, <1>4 DEF PollFails, Active
<1> QED BY <1>13, <1>14, StopsWell

(* The world outside.                                                       *)
LEMMA InvOutside == ASSUME Inv, Outside PROVE Inv'
BY InvOpCb, InvFail, InvElapse, InvPollCb, InvPollFails DEF Outside
-------------------------------------------------------------------------------
(* The theorems.                                                            *)

(* The invariant holds at the beginning.                                    *)
LEMMA InvInit == Init => Inv
<1> SUFFICES ASSUME Init PROVE Inv
  OBVIOUS
<1>1. /\ ev = [e \in Events |-> Blank] /\ ticks = <<>> /\ running = <<>> /\ refticks = 0 /\ pc = "main" /\ phase = "script"
      /\ cb = None /\ nowait = FALSE /\ uvstop = FALSE /\ due = {} /\ busy = FALSE /\ stopped = {}
  BY DEF Init
<1>2. PICK v : v = Blank
  OBVIOUS
<1>3. /\ v \in Objects /\ v.made = FALSE /\ v.held = FALSE /\ v.refs = 0 /\ v.list = "none" /\ v.hnd = "idle"
      /\ v.refd = TRUE /\ v.sched = FALSE /\ v.repeat = FALSE
  BY <1>2 DEF Blank, Objects
<1>4. PICK f \in BOOLEAN : f = FALSE
  OBVIOUS
<1>5. ASSUME NEW e \in Events PROVE Good(e, v, f)
  <2>1. /\ Count(v.held) = 0 /\ Count(v.list # "none") = 0 /\ Count(v.sched) = 0
        /\ Count(v.hnd = "closing") = 0 /\ Count(f) = 0
    BY <1>3, <1>4 DEF Count
  <2>2. Holds(v, f) = 0
    BY <2>1 DEF Holds
  <2>3. Shape(e, v, f)
    BY <1>3, <1>4 DEF Shape
  <2> QED BY <1>3, <2>2, <2>3 DEF Good, Owing
<1>6. \A e \in Events : ev[e] = v /\ (cb = e) = f
  BY <1>1, <1>2, <1>4, EventNames
<1>7. ObjectsOK
  <2>1. ev \in [Events -> Objects]
    BY <1>1, <1>2, <1>3
  <2>2. \A e \in Events : Good(e, ev[e], cb = e)
    BY <1>5, <1>6
  <2> QED BY <2>1, <2>2 DEF ObjectsOK
<1>8. ListsOK
  <2>1. <<>> \in Seq(Events) /\ Single(<<>>, Events) /\ ToSet(<<>>) = {}
    BY NoElements DEF Single
  <2>2. Counted = {}
    BY <1>3, <1>6 DEF Counted, Listed
  <2>3. Cardinality({}) = 0
    BY FS_EmptySet
  <2> QED BY <1>1, <1>3, <1>6, <2>1, <2>2, <2>3 DEF ListsOK
<1>9. LoopOK
  BY <1>1 DEF LoopOK, InTicks, Active, Places, Phases
<1>10. EndOK
  BY <1>1 DEF EndOK, Disposed
<1> QED BY <1>7, <1>8, <1>9, <1>10 DEF Inv

(* Every step preserves it.                                                 *)
LEMMA InvNext == Inv /\ [Next]_vars => Inv'
<1> SUFFICES ASSUME Inv, [Next]_vars PROVE Inv'
  OBVIOUS
<1>1. CASE Next
  BY <1>1, InvProgram, InvMain, InvLoop, InvOutside DEF Next
<1>2. CASE UNCHANGED vars
  <2>1. ObjectsOK /\ ListsOK /\ LoopOK /\ EndOK
    BY DEF Inv
  <2>2. UNCHANGED <<ev, lists, pc, phase, cb, back, nowait, uvstop, due, busy, stopped>>
    BY <1>2 DEF vars, loopVars, ioVars
  <2>3. ObjectsOK' /\ ListsOK'
    BY <2>1, <2>2, Quiet
  <2>4. LoopOK'
    BY <2>1, <2>2 DEF LoopOK, lists, InTicks, Active, Of
  <2>5. EndOK'
    BY <2>1, <2>2 DEF EndOK, Disposed, Shut, NoneClosing, lists
  <2> QED BY <2>3, <2>4, <2>5 DEF Inv
<1> QED BY <1>1, <1>2

(* It holds always.                                                         *)
LEMMA InvAlways == Spec => []Inv
BY InvInit, InvNext, PTL DEF Spec

(* It implies what the runs check.                                          *)
LEMMA InvSound == Inv => Sound
<1> SUFFICES ASSUME Inv PROVE Sound
  OBVIOUS
<1>1. ObjectsOK /\ ListsOK /\ LoopOK /\ EndOK
  BY DEF Inv
<1>2. ASSUME NEW e \in Events
      PROVE  ev[e].refs = References(e) /\ (ev[e].made /\ ev[e].refs = 0 /\ Kind[e] # "tick" => ev[e].hnd = "closed")
  <2>1. Good(e, ev[e], cb = e) /\ ev[e].refs = Holds(ev[e], cb = e)
    BY <1>1, Mine
  <2> QED BY <2>1 DEF Good, References, Holds
<1>3. ListsAgree
  <2>1. IsInjective(ticks) /\ IsInjective(running)
    <3>1. \A i \in DOMAIN ticks : ticks[i] \in Events
      BY <1>1 DEF ListsOK
    <3>2. \A i \in DOMAIN running : running[i] \in Events
      BY <1>1 DEF ListsOK
    <3> QED BY <1>1, <3>1, <3>2 DEF ListsOK, Single, IsInjective
  <2>2. ToSet(ticks) \subseteq Events /\ ToSet(running) \subseteq Events
    BY <1>1 DEF ListsOK, ToSet
  <2>3. {e \in Events : ev[e].list = "ticks"} = ToSet(ticks) /\ {e \in Events : ev[e].list = "running"} = ToSet(running)
    BY <1>1, <2>2 DEF ListsOK
  <2> QED BY <1>1, <2>1, <2>3 DEF ListsOK, ListsAgree, LoopOK, InTicks
<1>4. phase = "done" => \A e \in Events : Kind[e] # "tick" => ev[e].refs = 0
  BY <1>1 DEF EndOK
<1> QED BY <1>2, <1>3, <1>4 DEF Sound

(* What it says of the sleep and the end of the loop.                       *)
LEMMA InvLoopIdle == Inv => LoopIdle
<1> SUFFICES ASSUME Inv PROVE LoopIdle
  OBVIOUS
<1>1. ObjectsOK /\ LoopOK /\ EndOK
  BY DEF Inv
<1>2. pc = "sleep" => ticks = <<>>
  BY <1>1 DEF LoopOK, Active
<1>3. pc = "main" /\ phase \in {"ending", "second", "last"} /\ stopped = {} => refticks = 0
  BY <1>1 DEF EndOK
<1>4. ASSUME pc = "main", phase = "last" PROVE ~Alive
  <2>1. ~busy /\ Shut /\ NoneClosing
    BY <1>1, <1>4 DEF EndOK, Disposed
  <2>2. \A e \in Events : ev[e].hnd # "active"
    <3>1. SUFFICES ASSUME NEW e \in Events, ev[e].hnd = "active" PROVE FALSE
      OBVIOUS
    <3>2. Shape(e, ev[e], cb = e)
      BY <1>1, Mine
    <3> QED BY <2>1, <3>1, <3>2 DEF Shape, Shut, Open
  <2> QED BY <2>1, <2>2 DEF Alive, AliveIn, NoneClosing
<1> QED BY <1>2, <1>3, <1>4 DEF LoopIdle

(* Every reference of an event is accounted for: it is the program's        *)
(* variable's, the list's, the flag SCHEDULED's, the close callback's or    *)
(* that of the running callback, and a timer or poll without one is closed; *)
(* the queues, event->list and refticks agree; none is left at the end      *)
(* (the reference counts of event.c).                                       *)
THEOREM EventsCounted == Spec => []Sound
BY InvAlways, InvSound, PTL

(* The loop sleeps in the kernel only when no tick is waiting, returns for  *)
(* good only when none that holds it is, and two runs after the shutdown    *)
(* of all events every handle is closed (run_scheduler_fiber and            *)
(* async_task_scheduler_dispose of task.c).                                 *)
THEOREM LoopSleepsRightly == Spec => []LoopIdle
BY InvAlways, InvLoopIdle, PTL
===============================================================================
