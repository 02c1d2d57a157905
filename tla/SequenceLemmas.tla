---------------------------- MODULE SequenceLemmas ----------------------------
(* Facts about the sequence operators of the community modules that the     *)
(* models are built from.                                                   *)
EXTENDS SequencesExt, Integers, WellFoundedInduction, SequenceTheorems, TLAPS

(* A non-empty set of natural numbers has a least element.                 *)
LEMMA MinimumExists ==
    ASSUME NEW I \in SUBSET Nat, I # {}
    PROVE  Min(I) \in I /\ \A j \in I : Min(I) <= j
<1>1. IsWellFoundedOn(OpToRel(<, Nat), Nat)
  BY NatLessThanWellFounded
<1>2. PICK i \in I : \A j \in I : ~(<<j, i>> \in OpToRel(<, Nat))
  BY <1>1, WFMin
<1>3. ASSUME NEW j \in I, j < i PROVE FALSE
  <2>1. <<j, i>> \in OpToRel(<, Nat)
    BY <1>3, Zenon DEF OpToRel
  <2> QED BY <2>1, <1>2
<1>4. \A j \in I : i <= j
  BY <1>3
<1> QED BY <1>4 DEF Min

(* RemoveAt leaves the other elements in their order.                      *)
LEMMA RemoveAtProperties ==
    ASSUME NEW S, NEW s \in Seq(S), NEW m \in 1..Len(s)
    PROVE  /\ RemoveAt(s, m) \in Seq(S)
           /\ Len(RemoveAt(s, m)) = Len(s) - 1
           /\ \A i \in 1..Len(s)-1 : RemoveAt(s, m)[i] = IF i < m THEN s[i] ELSE s[i+1]
<1> DEFINE p == SubSeq(s, 1, m - 1)
           q == SubSeq(s, m + 1, Len(s))
<1>0. Len(s) \in Nat /\ m \in Int /\ \A i \in 1..Len(s) : s[i] \in S
  OBVIOUS
<1>1. /\ p \in Seq(S) /\ Len(p) = m - 1
      /\ \A i \in 1..m-1 : p[i] = s[i]
  BY <1>0, SubSeqProperties
<1>2. /\ q \in Seq(S) /\ Len(q) = Len(s) - m
      /\ \A i \in 1..Len(s)-m : q[i] = s[m+i]
  BY <1>0, SubSeqProperties
<1>3. RemoveAt(s, m) = p \o q
  BY DEF RemoveAt
<1> HIDE DEF p, q
<1>4. /\ p \o q \in Seq(S) /\ Len(p \o q) = Len(s) - 1
      /\ \A i \in 1..Len(p) + Len(q) : (p \o q)[i] = IF i <= Len(p) THEN p[i] ELSE q[i - Len(p)]
  BY <1>0, <1>1, <1>2, ConcatProperties
<1>5. \A i \in 1..Len(s)-1 : (p \o q)[i] = IF i < m THEN s[i] ELSE s[i+1]
  <2> TAKE i \in 1..Len(s)-1
  <2>1. CASE i < m
    <3>1. i \in 1..m-1 /\ i \in 1..Len(p) + Len(q) /\ i <= Len(p)
      BY <1>0, <1>1, <1>2, <2>1
    <3> QED BY <1>1, <1>4, <2>1, <3>1
  <2>2. CASE ~(i < m)
    <3>1. /\ i \in 1..Len(p) + Len(q) /\ ~(i <= Len(p))
          /\ i - Len(p) \in 1..Len(s)-m /\ m + (i - Len(p)) = i + 1
      BY <1>0, <1>1, <1>2, <2>2
    <3> QED BY <1>2, <1>4, <2>2, <3>1
  <2> QED BY <2>1, <2>2
<1> QED BY <1>3, <1>4, <1>5

(* RemoveFirst of a sequence over S is a sequence over S.                  *)
LEMMA RemoveFirstType ==
    ASSUME NEW S, NEW s \in Seq(S), NEW e
    PROVE  RemoveFirst(s, e) \in Seq(S)
<1> DEFINE I == {i \in 1..Len(s) : s[i] = e}
<1>1. CASE I = {}
  BY <1>1 DEF RemoveFirst
<1>2. CASE I # {}
  <2>1. I \in SUBSET Nat
    OBVIOUS
  <2>2. Min(I) \in I
    <3> HIDE DEF I
    <3> QED BY <2>1, <1>2, MinimumExists
  <2>3. RemoveFirst(s, e) = RemoveAt(s, Min(I))
    BY <1>2 DEF RemoveFirst, SelectInSeq
  <2> QED BY <2>2, <2>3, RemoveAtProperties
<1> QED BY <1>1, <1>2

(* elements that occur at most once *)
Single(s, T) == \A i, j \in DOMAIN s : s[i] = s[j] /\ s[i] \in T => i = j

(* RemoveFirst of an element that occurs once leaves none of it, and invents nothing. *)
LEMMA RemoveFirstOnce ==
    ASSUME NEW S, NEW s \in Seq(S), NEW e, NEW T, Single(s, T)
    PROVE  /\ Single(RemoveFirst(s, e), T)
           /\ e \in T => \A i \in DOMAIN RemoveFirst(s, e) : RemoveFirst(s, e)[i] # e
           /\ \A i \in DOMAIN RemoveFirst(s, e) : \E j \in DOMAIN s : RemoveFirst(s, e)[i] = s[j]
<1> DEFINE I == {i \in 1..Len(s) : s[i] = e}
<1>1. CASE I = {}
  <2>1. RemoveFirst(s, e) = s
    BY <1>1 DEF RemoveFirst
  <2>2. \A i \in DOMAIN s : s[i] # e
    BY <1>1
  <2> QED BY <2>1, <2>2
<1>2. CASE I # {}
  <2>1. I \in SUBSET Nat
    OBVIOUS
  <2>2. Min(I) \in I
    <3> HIDE DEF I
    <3> QED BY <2>1, <1>2, MinimumExists
  <2>3. RemoveFirst(s, e) = RemoveAt(s, Min(I))
    BY <1>2 DEF RemoveFirst, SelectInSeq
  <2> DEFINE m == Min(I)
             r == RemoveAt(s, m)
  <2>4. m \in 1..Len(s) /\ s[m] = e
    BY <2>2
  <2> HIDE DEF m, I
  <2>5. /\ r \in Seq(S) /\ Len(r) = Len(s) - 1
        /\ \A i \in 1..Len(s)-1 : r[i] = IF i < m THEN s[i] ELSE s[i+1]
    BY <2>4, RemoveAtProperties
  <2> HIDE DEF r
  <2>6. DOMAIN r = 1..Len(s)-1 /\ DOMAIN s = 1..Len(s) /\ Len(s) \in Nat
    BY <2>5
  <2>7. \A i \in DOMAIN r : \E j \in DOMAIN s : j # m /\ r[i] = s[j] /\ j = IF i < m THEN i ELSE i+1
    BY <2>4, <2>5, <2>6
  <2>8. Single(r, T)
    BY <2>4, <2>6, <2>7 DEF Single
  <2>9. e \in T => \A i \in DOMAIN r : r[i] # e
    BY <2>4, <2>6, <2>7 DEF Single
  <2> QED BY <2>3, <2>7, <2>8, <2>9 DEF r, m
<1> QED BY <1>1, <1>2

(* Removing an element leaves the others.                                   *)
LEMMA RemoveFirstOthers ==
    ASSUME NEW S, NEW s \in Seq(S), NEW e, NEW x \in ToSet(s), x # e
    PROVE  x \in ToSet(RemoveFirst(s, e))
<1> DEFINE I == {i \in 1..Len(s) : s[i] = e}
<1>1. CASE I = {}
  BY <1>1 DEF RemoveFirst
<1>2. CASE I # {}
  <2>0. I \in SUBSET Nat
    OBVIOUS
  <2>1. Min(I) \in I
    <3> HIDE DEF I
    <3> QED BY <1>2, <2>0, MinimumExists
  <2> DEFINE m == Min(I)
             r == RemoveAt(s, m)
  <2>2. m \in 1 .. Len(s) /\ s[m] = e
    BY <2>1
  <2>3. RemoveFirst(s, e) = RemoveAt(s, Min(I))
    BY <1>2 DEF RemoveFirst, SelectInSeq
  <2>4. r \in Seq(S) /\ Len(r) = Len(s) - 1 /\ \A i \in 1 .. Len(s) - 1 : r[i] = IF i < m THEN s[i] ELSE s[i + 1]
    BY <2>2, RemoveAtProperties
  <2>5. PICK j \in 1 .. Len(s) : s[j] = x
    BY DEF ToSet
  <2> HIDE DEF m, I, r
  <2>6. PICK i \in 1 .. Len(s) - 1 : r[i] = x
    <3>1. CASE j < m
      <4>1. j \in 1 .. Len(s) - 1 /\ r[j] = x
        BY <2>2, <2>4, <2>5, <3>1
      <4> QED BY <4>1
    <3>2. CASE ~(j < m)
      <4>1. j # m
        BY <2>2, <2>5
      <4>2. j - 1 \in 1 .. Len(s) - 1 /\ ~(j - 1 < m) /\ (j - 1) + 1 = j
        BY <2>2, <3>2, <4>1
      <4>3. r[j - 1] = x
        BY <2>4, <2>5, <4>2
      <4> QED BY <4>2, <4>3
    <3> QED BY <3>1, <3>2
  <2>7. i \in DOMAIN r
    BY <2>4, <2>6
  <2>8. x \in ToSet(r)
    BY <2>6, <2>7 DEF ToSet
  <2> QED BY <2>3, <2>8 DEF r, m
<1> QED BY <1>1, <1>2

(* Two elements put in front of a sequence at once, or one by one.          *)
LEMMA TwoInFront ==
    ASSUME NEW S, NEW a \in S, NEW b \in S, NEW s \in Seq(S)
    PROVE  <<a, b>> \o s = <<a>> \o (<<b>> \o s)
<1> DEFINE p == <<a, b>> \o s
           r == <<b>> \o s
           q == <<a>> \o r
<1>1. <<a, b>> \in Seq(S) /\ Len(<<a, b>>) = 2 /\ <<a, b>>[1] = a /\ <<a, b>>[2] = b
  OBVIOUS
<1>2. /\ p \in Seq(S) /\ Len(p) = Len(s) + 2
      /\ \A i \in 1..Len(p) : p[i] = IF i <= 2 THEN <<a, b>>[i] ELSE s[i - 2]
  BY <1>1, ConcatProperties
<1>3. /\ r \in Seq(S) /\ Len(r) = Len(s) + 1
      /\ \A i \in 1..Len(r) : r[i] = IF i = 1 THEN b ELSE s[i - 1]
  OBVIOUS
<1>4. /\ q \in Seq(S) /\ Len(q) = Len(r) + 1
      /\ \A i \in 1..Len(q) : q[i] = IF i = 1 THEN a ELSE r[i - 1]
  <2> HIDE DEF r
  <2> QED BY <1>3
<1> HIDE DEF p, q, r
<1>5. Len(p) = Len(q) /\ Len(s) \in Nat
  BY <1>2, <1>3, <1>4
<1>6. ASSUME NEW i \in 1..Len(p)
      PROVE  p[i] = q[i]
  <2>1. CASE i = 1
    BY <2>1, <1>1, <1>2, <1>4, <1>5
  <2>2. CASE i = 2
    BY <2>2, <1>1, <1>2, <1>3, <1>4, <1>5
  <2>3. CASE i > 2
    BY <2>3, <1>2, <1>3, <1>4, <1>5
  <2> QED BY <2>1, <2>2, <2>3, <1>2
<1>7. p = q
  BY <1>2, <1>4, <1>5, <1>6, SeqEqual
<1> QED BY <1>7 DEF p, q, r

(* A pair is two sequences of one element in a row.                        *)
LEMMA PairIsConcat ==
    ASSUME NEW S, NEW a \in S, NEW b \in S
    PROVE  <<a, b>> = <<a>> \o <<b>>
<1>1. <<b>> \in Seq(S) /\ <<a, b>> \in Seq(S)
  OBVIOUS
<1>2. <<b>> \o <<>> = <<b>> /\ <<a, b>> \o <<>> = <<a, b>>
  BY <1>1, ConcatEmptySeq
<1>3. <<>> \in Seq(S)
  OBVIOUS
<1> QED BY <1>2, <1>3, TwoInFront

(* The same for three elements.                                            *)
LEMMA TripleIsConcat ==
    ASSUME NEW S, NEW a \in S, NEW b \in S, NEW c \in S
    PROVE  <<a, b, c>> = <<a>> \o <<b, c>> /\ <<a, b, c>> = <<a, b>> \o <<c>>
<1> DEFINE p == <<a>> \o <<b, c>>
           z == <<c>>
<1>1. z \in Seq(S)
  OBVIOUS
<1>2. <<a, b>> \o <<c>> = p
  <2>1. <<b, c>> = <<b>> \o z
    BY PairIsConcat
  <2> HIDE DEF z
  <2>2. <<a, b>> \o z = <<a>> \o (<<b>> \o z)
    BY <1>1, TwoInFront
  <2>3. <<a, b>> \o z = p
    BY <2>1, <2>2
  <2> QED BY <2>3 DEF z
<1>3. <<a>> \in Seq(S) /\ <<b, c>> \in Seq(S) /\ <<a, b, c>> \in Seq(S)
  OBVIOUS
<1>4. /\ <<a>>[1] = a /\ <<b, c>>[1] = b /\ <<b, c>>[2] = c
      /\ <<a, b, c>>[1] = a /\ <<a, b, c>>[2] = b /\ <<a, b, c>>[3] = c
      /\ Len(<<a>>) = 1 /\ Len(<<b, c>>) = 2 /\ Len(<<a, b, c>>) = 3
  OBVIOUS
<1>5. /\ p \in Seq(S) /\ Len(p) = 3
      /\ \A i \in 1..3 : p[i] = IF i <= 1 THEN <<a>>[i] ELSE <<b, c>>[i - 1]
  BY <1>3, <1>4, ConcatProperties
<1>6. p[1] = a /\ p[2] = b /\ p[3] = c
  BY <1>4, <1>5
<1> HIDE DEF p
<1>7. \A i \in 1..Len(p) : p[i] = <<a, b, c>>[i]
  <2>1. \A i \in 1..Len(p) : i = 1 \/ i = 2 \/ i = 3
    BY <1>5
  <2> QED BY <2>1, <1>4, <1>6
<1>8. p = <<a, b, c>>
  BY <1>3, <1>4, <1>5, <1>7, SeqEqual
<1> QED BY <1>2, <1>8 DEF p

(* Short sequences, taken apart and put together.                          *)
LEMMA ShortSequences ==
    ASSUME NEW a, NEW b, NEW c
    PROVE  /\ Head(<<a>>) = a /\ Head(<<a, b>>) = a /\ Head(<<a, b, c>>) = a
           /\ Tail(<<a, b>>) = <<b>> /\ Tail(<<a, b, c>>) = <<b, c>>
           /\ <<a>> \o <<b>> = <<a, b>> /\ <<a>> \o <<b, c>> = <<a, b, c>>
           /\ Len(<<a>>) = 1 /\ Len(<<a, b>>) = 2 /\ Len(<<a, b, c>>) = 3
<1>1. /\ Head(<<a>>) = a /\ Head(<<a, b>>) = a /\ Head(<<a, b, c>>) = a
      /\ Len(<<a>>) = 1 /\ Len(<<a, b>>) = 2 /\ Len(<<a, b, c>>) = 3
  OBVIOUS
<1>2. Tail(<<a, b>>) = <<b>> /\ Tail(<<a, b, c>>) = <<b, c>>
  OBVIOUS
<1>3. PICK S : a \in S /\ b \in S /\ c \in S
  <2>1. a \in {a, b, c} /\ b \in {a, b, c} /\ c \in {a, b, c}
    OBVIOUS
  <2> QED BY <2>1
<1>4. <<a>> \o <<b>> = <<a, b>>
  BY <1>3, PairIsConcat
<1>5. <<a>> \o <<b, c>> = <<a, b, c>>
  BY <1>3, TripleIsConcat
<1> QED BY <1>1, <1>2, <1>4, <1>5

(* The same, of two elements and one.                                      *)
LEMMA TwoOnOne ==
    ASSUME NEW a, NEW b, NEW c
    PROVE  <<a, b>> \o <<c>> = <<a, b, c>>
<1>1. PICK S : a \in S /\ b \in S /\ c \in S
  <2>1. a \in {a, b, c} /\ b \in {a, b, c} /\ c \in {a, b, c}
    OBVIOUS
  <2> QED BY <2>1
<1> QED BY <1>1, TripleIsConcat

(* The elements that occur once still do in the tail, without the head, and *)
(* when a new one is put at either end.                                     *)
LEMMA SingleTail ==
    ASSUME NEW S, NEW s \in Seq(S), s # <<>>, NEW T, Single(s, T)
    PROVE  /\ Head(s) = s[1] /\ Head(s) \in S /\ 1 \in DOMAIN s
           /\ Tail(s) \in Seq(S) /\ Single(Tail(s), T)
           /\ \A i \in DOMAIN Tail(s) : i + 1 \in DOMAIN s /\ Tail(s)[i] = s[i + 1]
           /\ Head(s) \in T => \A i \in DOMAIN Tail(s) : Tail(s)[i] # Head(s)
<1> DEFINE r == Tail(s)
<1>1. /\ Len(s) \in Nat \ {0} /\ DOMAIN s = 1..Len(s) /\ Head(s) = s[1] /\ Head(s) \in S
      /\ r \in Seq(S) /\ Len(r) = Len(s) - 1 /\ \A i \in 1..Len(r) : r[i] = s[i + 1]
  BY HeadTailProperties
<1> HIDE DEF r
<1>2. DOMAIN r = 1..Len(s) - 1
  BY <1>1
<1>3. \A i \in DOMAIN r : i + 1 \in DOMAIN s /\ r[i] = s[i + 1]
  BY <1>1, <1>2
<1>4. Single(r, T)
  BY <1>1, <1>2, <1>3 DEF Single
<1>5. Head(s) \in T => \A i \in DOMAIN r : r[i] # Head(s)
  BY <1>1, <1>2, <1>3 DEF Single
<1> QED BY <1>1, <1>3, <1>4, <1>5 DEF r

(* A new element in front: the elements that occur once still do.           *)
LEMMA SinglePush ==
    ASSUME NEW S, NEW s \in Seq(S), NEW e \in S, NEW T, Single(s, T),
           \A i \in DOMAIN s : s[i] # e
    PROVE  /\ <<e>> \o s \in Seq(S) /\ Single(<<e>> \o s, T)
           /\ \A i \in DOMAIN (<<e>> \o s) :
                (<<e>> \o s)[i] = e \/ \E j \in DOMAIN s : (<<e>> \o s)[i] = s[j]
<1> DEFINE r == <<e>> \o s
<1>1. /\ Len(s) \in Nat /\ DOMAIN s = 1..Len(s)
      /\ r \in Seq(S) /\ Len(r) = Len(s) + 1
      /\ \A i \in 1..Len(r) : r[i] = IF i = 1 THEN e ELSE s[i - 1]
  OBVIOUS
<1> HIDE DEF r
<1>2. DOMAIN r = 1..Len(s) + 1
  BY <1>1
<1>3. \A i \in DOMAIN r : (i = 1 /\ r[i] = e) \/ (i - 1 \in DOMAIN s /\ r[i] = s[i - 1])
  BY <1>1, <1>2
<1>4. Single(r, T)
  BY <1>1, <1>2, <1>3 DEF Single
<1> QED BY <1>1, <1>3, <1>4 DEF r

(* A new element at the end: the elements that occur once still do.         *)
LEMMA SingleAppend ==
    ASSUME NEW S, NEW s \in Seq(S), NEW e \in S, NEW T, Single(s, T),
           \A i \in DOMAIN s : s[i] # e
    PROVE  /\ Append(s, e) \in Seq(S) /\ Single(Append(s, e), T)
           /\ \A i \in DOMAIN Append(s, e) :
                Append(s, e)[i] = e \/ \E j \in DOMAIN s : Append(s, e)[i] = s[j]
<1> DEFINE r == Append(s, e)
<1>1. /\ Len(s) \in Nat /\ DOMAIN s = 1..Len(s)
      /\ r \in Seq(S) /\ Len(r) = Len(s) + 1
      /\ \A i \in 1..Len(r) : r[i] = IF i = Len(r) THEN e ELSE s[i]
  OBVIOUS
<1> HIDE DEF r
<1>2. DOMAIN r = 1..Len(s) + 1
  BY <1>1
<1>3. \A i \in DOMAIN r : (i = Len(r) /\ r[i] = e) \/ (i \in DOMAIN s /\ r[i] = s[i])
  BY <1>1, <1>2
<1>4. Single(r, T)
  BY <1>1, <1>2, <1>3 DEF Single
<1> QED BY <1>1, <1>3, <1>4 DEF r

(* The same, of the sets of their elements.                                 *)
LEMMA OnceTail ==
    ASSUME NEW S, NEW s \in Seq(S), s # <<>>, Single(s, S)
    PROVE  /\ Head(s) \in S /\ Head(s) \in ToSet(s)
           /\ Tail(s) \in Seq(S) /\ Single(Tail(s), S) /\ ToSet(Tail(s)) = ToSet(s) \ {Head(s)}
<1> DEFINE r == Tail(s)
<1>1. /\ Head(s) = s[1] /\ Head(s) \in S /\ 1 \in DOMAIN s
      /\ r \in Seq(S) /\ Single(r, S)
      /\ \A i \in DOMAIN r : i + 1 \in DOMAIN s /\ r[i] = s[i + 1]
      /\ \A i \in DOMAIN r : r[i] # Head(s)
  BY SingleTail
<1>2. Len(r) = Len(s) - 1 /\ Len(s) \in Nat /\ DOMAIN s = 1..Len(s) /\ DOMAIN r = 1..Len(r)
  BY HeadTailProperties
<1> HIDE DEF r
<1>3. \A i \in DOMAIN s : i = 1 \/ (i - 1 \in DOMAIN r /\ r[i - 1] = s[i])
  <2> SUFFICES ASSUME NEW i \in DOMAIN s, i # 1 PROVE i - 1 \in DOMAIN r /\ r[i - 1] = s[i]
    OBVIOUS
  <2>1. i - 1 \in DOMAIN r /\ (i - 1) + 1 = i
    BY <1>2
  <2> QED BY <1>1, <2>1
<1>4. ToSet(r) = ToSet(s) \ {Head(s)}
  <2>1. ASSUME NEW i \in DOMAIN r PROVE r[i] \in ToSet(s) \ {Head(s)}
    BY <1>1 DEF ToSet
  <2>2. ASSUME NEW i \in DOMAIN s, s[i] # Head(s) PROVE s[i] \in ToSet(r)
    BY <1>1, <1>3, <2>2 DEF ToSet
  <2> QED BY <2>1, <2>2 DEF ToSet
<1> QED BY <1>1, <1>4 DEF r, ToSet

(* A new element at the end is one more.                                    *)
LEMMA OnceAppend ==
    ASSUME NEW S, NEW s \in Seq(S), NEW e \in S, e \notin ToSet(s), Single(s, S)
    PROVE  Append(s, e) \in Seq(S) /\ Single(Append(s, e), S) /\ ToSet(Append(s, e)) = ToSet(s) \cup {e}
<1> DEFINE r == Append(s, e)
<1>1. \A i \in DOMAIN s : s[i] # e
  BY DEF ToSet
<1>2. r \in Seq(S) /\ Single(r, S) /\ \A i \in DOMAIN r : r[i] = e \/ \E j \in DOMAIN s : r[i] = s[j]
  BY <1>1, SingleAppend
<1>3. /\ Len(s) \in Nat /\ Len(r) = Len(s) + 1 /\ \A i \in 1..Len(s) : r[i] = s[i]
      /\ r[Len(s) + 1] = e /\ DOMAIN s = 1..Len(s) /\ DOMAIN r = 1..Len(r)
  BY AppendProperties
<1> HIDE DEF r
<1>4. Len(s) + 1 \in DOMAIN r /\ \A i \in DOMAIN s : i \in DOMAIN r
  BY <1>3
<1>5. ToSet(r) = ToSet(s) \cup {e}
  BY <1>2, <1>3, <1>4 DEF ToSet
<1> QED BY <1>2, <1>5 DEF r

(* RemoveFirst takes the element away.                                      *)
LEMMA OnceRemove ==
    ASSUME NEW S, NEW s \in Seq(S), NEW e, Single(s, S)
    PROVE  /\ RemoveFirst(s, e) \in Seq(S) /\ Single(RemoveFirst(s, e), S)
           /\ ToSet(RemoveFirst(s, e)) = ToSet(s) \ {e}
<1> DEFINE I == {i \in 1..Len(s) : s[i] = e}
<1>0. DOMAIN s = 1..Len(s) /\ \A i \in DOMAIN s : s[i] \in S
  OBVIOUS
<1>1. CASE I = {}
  <2>1. RemoveFirst(s, e) = s
    BY <1>1 DEF RemoveFirst
  <2>2. \A i \in DOMAIN s : s[i] # e
    BY <1>1
  <2> QED BY <2>1, <2>2 DEF ToSet
<1>2. CASE I # {}
  <2>1. I \in SUBSET Nat
    OBVIOUS
  <2>2. Min(I) \in I
    <3> HIDE DEF I
    <3> QED BY <2>1, <1>2, MinimumExists
  <2>3. RemoveFirst(s, e) = RemoveAt(s, Min(I))
    BY <1>2 DEF RemoveFirst, SelectInSeq
  <2>4. PICK m \in 1..Len(s) : m = Min(I) /\ s[m] = e
    BY <2>2
  <2> HIDE DEF I
  <2> DEFINE r == RemoveAt(s, m)
  <2>5. /\ r \in Seq(S) /\ Len(r) = Len(s) - 1
        /\ \A i \in 1..Len(s)-1 : r[i] = IF i < m THEN s[i] ELSE s[i+1]
    BY RemoveAtProperties
  <2>6. RemoveFirst(s, e) = r
    BY <2>3, <2>4
  <2> HIDE DEF r
  <2>7. DOMAIN r = 1..Len(s)-1 /\ Len(s) \in Nat
    BY <2>5
  <2>8. /\ Single(r, S)
        /\ \A i \in DOMAIN r : r[i] # e
        /\ \A i \in DOMAIN r : \E j \in DOMAIN s : r[i] = s[j]
    <3>1. e \in S
      BY <1>0, <2>4
    <3> QED BY <2>6, <3>1, RemoveFirstOnce
  <2>9. \A i \in DOMAIN s : s[i] # e => \E j \in DOMAIN r : r[j] = s[i]
    <3> SUFFICES ASSUME NEW i \in DOMAIN s, s[i] # e PROVE \E j \in DOMAIN r : r[j] = s[i]
      OBVIOUS
    <3>1. CASE i < m
      BY <1>0, <2>5, <2>7, <3>1
    <3>2. CASE i > m
      <4>1. i - 1 \in 1..Len(s)-1 /\ ~(i - 1 < m) /\ (i - 1) + 1 = i
        BY <1>0, <2>7, <3>2
      <4> QED BY <2>5, <2>7, <4>1
    <3>3. i # m
      BY <2>4
    <3> QED BY <1>0, <2>7, <3>1, <3>2, <3>3
  <2>10. ToSet(r) = ToSet(s) \ {e}
    BY <2>8, <2>9 DEF ToSet
  <2> QED BY <2>5, <2>6, <2>8, <2>10
<1> QED BY <1>1, <1>2

(* A sequence without elements is empty, and only that.                     *)
LEMMA NoElements ==
    /\ ToSet(<<>>) = {}
    /\ \A S : \A s \in Seq(S) : s # <<>> => Head(s) \in ToSet(s)
<1>1. \A S : \A s \in Seq(S) : s # <<>> => 1 \in DOMAIN s /\ Head(s) = s[1]
  OBVIOUS
<1> QED BY <1>1 DEF ToSet

(* What is left when the element at place m, which occurs once, is removed. *)
LEMMA RemovedAt ==
    ASSUME NEW S, NEW s \in Seq(S), Single(s, S), NEW m \in 1 .. Len(s)
    PROVE  /\ RemoveFirst(s, s[m]) \in Seq(S) /\ Len(RemoveFirst(s, s[m])) = Len(s) - 1
           /\ \A i \in 1 .. Len(s) - 1 : RemoveFirst(s, s[m])[i] = IF i < m THEN s[i] ELSE s[i + 1]
<1> DEFINE I == {i \in 1..Len(s) : s[i] = s[m]}
<1>1. I = {m}
  BY DEF Single
<1>2. Min(I) = m
  <2>1. {m} \in SUBSET Nat /\ {m} # {}
    OBVIOUS
  <2>2. Min({m}) \in {m}
    BY <2>1, MinimumExists
  <2> QED BY <1>1, <2>2
<1>3. RemoveFirst(s, s[m]) = RemoveAt(s, m)
  BY <1>1, <1>2 DEF RemoveFirst, SelectInSeq
<1> QED BY <1>3, RemoveAtProperties

(* The elements of two sequences in a row.                                  *)
LEMMA ConcatElements ==
    ASSUME NEW S, NEW a \in Seq(S), NEW b \in Seq(S)
    PROVE  a \o b \in Seq(S) /\ ToSet(a \o b) = ToSet(a) \cup ToSet(b)
<1> DEFINE c == a \o b
<1>1. /\ Len(a) \in Nat /\ Len(b) \in Nat /\ DOMAIN a = 1 .. Len(a) /\ DOMAIN b = 1 .. Len(b)
      /\ c \in Seq(S) /\ Len(c) = Len(a) + Len(b) /\ DOMAIN c = 1 .. Len(a) + Len(b)
      /\ \A i \in 1 .. Len(a) + Len(b) : c[i] = IF i <= Len(a) THEN a[i] ELSE b[i - Len(a)]
  BY ConcatProperties
<1> HIDE DEF c
<1>2. \A i \in DOMAIN c : c[i] \in ToSet(a) \cup ToSet(b)
  <2> SUFFICES ASSUME NEW i \in DOMAIN c PROVE c[i] \in ToSet(a) \cup ToSet(b)
    OBVIOUS
  <2>1. CASE i <= Len(a)
    BY <1>1, <2>1 DEF ToSet
  <2>2. CASE i > Len(a)
    <3>1. i - Len(a) \in DOMAIN b /\ c[i] = b[i - Len(a)]
      BY <1>1, <2>2
    <3> QED BY <3>1 DEF ToSet
  <2> QED BY <1>1, <2>1, <2>2
<1>3. \A i \in DOMAIN a : a[i] \in ToSet(c)
  <2> SUFFICES ASSUME NEW i \in DOMAIN a PROVE a[i] \in ToSet(c)
    OBVIOUS
  <2>1. i \in DOMAIN c /\ c[i] = a[i]
    BY <1>1
  <2> QED BY <2>1 DEF ToSet
<1>4. \A i \in DOMAIN b : b[i] \in ToSet(c)
  <2> SUFFICES ASSUME NEW i \in DOMAIN b PROVE b[i] \in ToSet(c)
    OBVIOUS
  <2>1. i + Len(a) \in DOMAIN c /\ c[i + Len(a)] = b[i]
    BY <1>1
  <2> QED BY <2>1 DEF ToSet
<1>5. \A x : x \in ToSet(c) => x \in ToSet(a) \cup ToSet(b)
  BY <1>2 DEF ToSet
<1>6. \A x : x \in ToSet(a) \cup ToSet(b) => x \in ToSet(c)
  BY <1>3, <1>4 DEF ToSet
<1> QED BY <1>1, <1>5, <1>6 DEF c

(* The first element of two sequences in a row.                             *)
LEMMA ConcatTail ==
    ASSUME NEW S, NEW a \in Seq(S), NEW b \in Seq(S), a # <<>>
    PROVE  a \o b # <<>> /\ Head(a \o b) = Head(a) /\ Tail(a \o b) = Tail(a) \o b
<1> DEFINE c == a \o b
           t == Tail(a)
           d == t \o b
           e == Tail(c)
<1>1. /\ Len(a) \in Nat \ {0} /\ Len(b) \in Nat
      /\ t \in Seq(S) /\ Len(t) = Len(a) - 1 /\ \A i \in 1 .. Len(a) - 1 : t[i] = a[i + 1]
  OBVIOUS
<1> HIDE DEF t
<1>2. /\ c \in Seq(S) /\ Len(c) = Len(a) + Len(b)
      /\ \A i \in 1 .. Len(a) + Len(b) : c[i] = IF i <= Len(a) THEN a[i] ELSE b[i - Len(a)]
  BY ConcatProperties
<1>3. /\ d \in Seq(S) /\ Len(d) = Len(t) + Len(b)
      /\ \A i \in 1 .. Len(t) + Len(b) : d[i] = IF i <= Len(t) THEN t[i] ELSE b[i - Len(t)]
  BY <1>1, ConcatProperties
<1> HIDE DEF c, d
<1>4. c # <<>> /\ Head(c) = c[1] /\ Head(a) = a[1]
  BY <1>1, <1>2
<1>5. e \in Seq(S) /\ Len(e) = Len(a) + Len(b) - 1 /\ \A i \in 1 .. Len(a) + Len(b) - 1 : e[i] = c[i + 1]
  BY <1>1, <1>2, <1>4
<1> HIDE DEF e
<1>6. \A i \in 1 .. Len(e) : e[i] = d[i]
  <2> SUFFICES ASSUME NEW i \in 1 .. Len(e) PROVE e[i] = d[i]
    OBVIOUS
  <2>1. CASE i <= Len(t)
    BY <1>1, <1>2, <1>3, <1>5, <2>1
  <2>2. CASE i > Len(t)
    <3>1. i - Len(t) = (i + 1) - Len(a) /\ ~(i + 1 <= Len(a)) /\ i + 1 \in 1 .. Len(a) + Len(b)
          /\ i \in 1 .. Len(t) + Len(b)
      BY <1>1, <1>5, <2>2
    <3>2. i \in 1 .. Len(a) + Len(b) - 1 /\ ~(i <= Len(t))
      BY <1>1, <1>5, <2>2
    <3>3. e[i] = c[i + 1] /\ c[i + 1] = b[(i + 1) - Len(a)]
      BY <1>2, <1>5, <3>1, <3>2
    <3>4. d[i] = b[i - Len(t)]
      BY <1>3, <3>1, <3>2
    <3> QED BY <3>1, <3>3, <3>4
  <2>3. i <= Len(t) \/ i > Len(t)
    BY <1>1, <1>5
  <2> QED BY <2>1, <2>2, <2>3
<1>7. e = d
  <2>1. Len(e) = Len(d)
    BY <1>1, <1>3, <1>5
  <2> QED BY <1>3, <1>5, <1>6, <2>1, SeqEqual
<1>8. c[1] = a[1]
  BY <1>1, <1>2
<1> QED BY <1>4, <1>7, <1>8 DEF c, d, e, t

(* The last element of two sequences in a row.                              *)
LEMMA ConcatAppend ==
    ASSUME NEW S, NEW a \in Seq(S), NEW b \in Seq(S), NEW x \in S
    PROVE  a \o Append(b, x) = Append(a \o b, x)
<1>1. <<x>> \in Seq(S)
  OBVIOUS
<1>2. Append(b, x) = b \o <<x>>
  BY AppendIsConcat
<1>3. a \o b \in Seq(S)
  OBVIOUS
<1>4. Append(a \o b, x) = (a \o b) \o <<x>>
  BY <1>3, AppendIsConcat
<1> QED BY <1>1, <1>2, <1>4, ConcatAssociative

(* An element that is in the second of two sequences only is removed there. *)
LEMMA RemoveLater ==
    ASSUME NEW S, NEW a \in Seq(S), NEW b \in Seq(S), Single(a \o b, S), Single(b, S), NEW m \in 1 .. Len(b)
    PROVE  RemoveFirst(a \o b, b[m]) = a \o RemoveFirst(b, b[m])
<1> DEFINE c == a \o b
           r == RemoveFirst(b, b[m])
           d == a \o r
           e == RemoveFirst(c, b[m])
<1>1. /\ Len(a) \in Nat /\ Len(b) \in Nat
      /\ r \in Seq(S) /\ Len(r) = Len(b) - 1
      /\ \A i \in 1 .. Len(b) - 1 : r[i] = IF i < m THEN b[i] ELSE b[i + 1]
  BY RemovedAt
<1> HIDE DEF r
<1>2. /\ c \in Seq(S) /\ Len(c) = Len(a) + Len(b)
      /\ \A i \in 1 .. Len(a) + Len(b) : c[i] = IF i <= Len(a) THEN a[i] ELSE b[i - Len(a)]
  BY ConcatProperties
<1>3. /\ d \in Seq(S) /\ Len(d) = Len(a) + Len(r)
      /\ \A i \in 1 .. Len(a) + Len(r) : d[i] = IF i <= Len(a) THEN a[i] ELSE r[i - Len(a)]
  BY <1>1, ConcatProperties
<1>4. Single(c, S)
  OBVIOUS
<1> HIDE DEF c, d
<1>5. Len(a) + m \in 1 .. Len(c) /\ c[Len(a) + m] = b[m]
  <2>1. Len(a) + m \in 1 .. Len(a) + Len(b) /\ (Len(a) + m) - Len(a) = m /\ ~(Len(a) + m <= Len(a))
    BY <1>1
  <2> QED BY <1>2, <2>1
<1>6. /\ e \in Seq(S) /\ Len(e) = Len(c) - 1
      /\ \A i \in 1 .. Len(c) - 1 : e[i] = IF i < Len(a) + m THEN c[i] ELSE c[i + 1]
  <2> PICK n \in 1 .. Len(c) : n = Len(a) + m
    BY <1>5
  <2>1. e = RemoveFirst(c, c[n])
    BY <1>5
  <2> HIDE DEF e
  <2> QED BY <1>2, <1>4, <2>1, RemovedAt
<1> HIDE DEF e
<1>7. \A i \in 1 .. Len(e) : e[i] = d[i]
  <2> SUFFICES ASSUME NEW i \in 1 .. Len(e) PROVE e[i] = d[i]
    OBVIOUS
  <2>0. i \in Nat /\ i <= Len(a) + Len(b) - 1 /\ i >= 1
    BY <1>1, <1>2, <1>6
  <2>1. CASE i <= Len(a)
    BY <1>1, <1>2, <1>3, <1>6, <2>0, <2>1
  <2>2. CASE i > Len(a) /\ i < Len(a) + m
    <3>1. i - Len(a) \in 1 .. Len(b) - 1 /\ i - Len(a) < m /\ i \in 1 .. Len(a) + Len(r)
      BY <1>1, <2>0, <2>2
    <3>2. c[i] = b[i - Len(a)] /\ d[i] = r[i - Len(a)] /\ e[i] = c[i]
      BY <1>1, <1>2, <1>3, <1>6, <2>0, <2>2, <3>1
    <3> QED BY <1>1, <3>1, <3>2
  <2>3. CASE i >= Len(a) + m
    <3>1. i - Len(a) \in 1 .. Len(b) - 1 /\ ~(i - Len(a) < m) /\ i \in 1 .. Len(a) + Len(r)
          /\ (i + 1) - Len(a) = (i - Len(a)) + 1 /\ ~(i <= Len(a)) /\ ~(i + 1 <= Len(a))
          /\ ~(i < Len(a) + m) /\ i + 1 \in 1 .. Len(a) + Len(b) /\ i \in 1 .. Len(c) - 1
      BY <1>1, <1>2, <2>0, <2>3
    <3>2. e[i] = c[i + 1] /\ c[i + 1] = b[(i - Len(a)) + 1] /\ d[i] = r[i - Len(a)]
      BY <1>2, <1>3, <1>6, <3>1
    <3> QED BY <1>1, <3>1, <3>2
  <2> QED BY <1>1, <2>0, <2>1, <2>2, <2>3
<1>8. e = d
  BY <1>1, <1>2, <1>3, <1>6, <1>7, SeqEqual
<1> QED BY <1>8 DEF c, d, e, r

(* The first element, when it occurs once, is the one that is removed.      *)
LEMMA RemoveHead ==
    ASSUME NEW S, NEW s \in Seq(S), Single(s, S), s # <<>>
    PROVE  RemoveFirst(s, Head(s)) = Tail(s)
<1>1. Len(s) \in Nat \ {0} /\ Head(s) = s[1] /\ 1 \in 1 .. Len(s)
  OBVIOUS
<1>2. /\ RemoveFirst(s, s[1]) \in Seq(S) /\ Len(RemoveFirst(s, s[1])) = Len(s) - 1
      /\ \A i \in 1 .. Len(s) - 1 : RemoveFirst(s, s[1])[i] = IF i < 1 THEN s[i] ELSE s[i + 1]
  <2> PICK m \in 1 .. Len(s) : m = 1
    BY <1>1
  <2> QED BY RemovedAt
<1>3. /\ Tail(s) \in Seq(S) /\ Len(Tail(s)) = Len(s) - 1
      /\ \A i \in 1 .. Len(s) - 1 : Tail(s)[i] = s[i + 1]
  BY <1>1
<1> DEFINE r == RemoveFirst(s, s[1])
           t == Tail(s)
<1>4. \A i \in 1 .. Len(r) : r[i] = t[i]
  <2>1. \A i \in 1 .. Len(s) - 1 : ~(i < 1)
    OBVIOUS
  <2> QED BY <1>2, <1>3, <2>1
<1>5. r \in Seq(S) /\ t \in Seq(S) /\ Len(r) = Len(t)
  BY <1>2, <1>3
<1> HIDE DEF r, t
<1>6. r = t
  BY <1>4, <1>5, SeqEqual
<1> QED BY <1>1, <1>6 DEF r, t

(* What is not there cannot be removed.                                     *)
LEMMA RemoveNothing ==
    ASSUME NEW S, NEW s \in Seq(S), NEW e, e \notin ToSet(s)
    PROVE  RemoveFirst(s, e) = s
<1>1. \A i \in 1 .. Len(s) : s[i] # e
  BY DEF ToSet
<1> QED BY <1>1 DEF RemoveFirst

(* A function applied to every element of a sequence.                       *)
Mapped(s, F) == [i \in DOMAIN s |-> F[s[i]]]
Into(F, s, T) == \A x \in ToSet(s) : F[x] \in T
Apart(F, s) == \A x, y \in ToSet(s) : F[x] = F[y] => x = y

(* What is applied to a sequence of S that it takes to T.                   *)
LEMMA MappedType ==
    ASSUME NEW S, NEW s \in Seq(S), NEW T, NEW F, Into(F, s, T)
    PROVE  /\ Mapped(s, F) \in Seq(T) /\ Len(Mapped(s, F)) = Len(s)
           /\ \A i \in 1 .. Len(s) : Mapped(s, F)[i] = F[s[i]]
<1>1. Len(s) \in Nat /\ DOMAIN s = 1 .. Len(s) /\ \A i \in 1 .. Len(s) : F[s[i]] \in T
  BY DEF ToSet, Into
<1> DEFINE r == Mapped(s, F)
<1>2. r = [i \in 1 .. Len(s) |-> F[s[i]]]
  BY <1>1 DEF Mapped
<1>3. r \in Seq(T) /\ Len(r) = Len(s)
  BY <1>1, <1>2
<1> QED BY <1>2, <1>3

(* Functions that agree on the elements are the same to the sequence.       *)
LEMMA MappedSame ==
    ASSUME NEW s, NEW F, NEW G, \A x \in ToSet(s) : F[x] = G[x]
    PROVE  Mapped(s, F) = Mapped(s, G)
BY DEF Mapped, ToSet

(* The elements of the result.                                              *)
LEMMA MappedElements ==
    ASSUME NEW s, NEW F
    PROVE  ToSet(Mapped(s, F)) = {F[x] : x \in ToSet(s)}
BY DEF Mapped, ToSet

(* A function that keeps elements apart keeps them single.                  *)
LEMMA MappedSingle ==
    ASSUME NEW S, NEW s \in Seq(S), Single(s, S), NEW F, NEW T, Apart(F, s)
    PROVE  Single(Mapped(s, F), T)
<1>1. \A i \in DOMAIN s : s[i] \in S /\ s[i] \in ToSet(s)
  BY DEF ToSet
<1>2. DOMAIN Mapped(s, F) = DOMAIN s /\ \A i \in DOMAIN s : Mapped(s, F)[i] = F[s[i]]
  BY DEF Mapped
<1> QED BY <1>1, <1>2 DEF Single, Apart

(* The tail.                                                                *)
LEMMA MappedTail ==
    ASSUME NEW S, NEW s \in Seq(S), s # <<>>, NEW T, NEW F, Into(F, s, T)
    PROVE  Mapped(s, F) # <<>> /\ Head(Mapped(s, F)) = F[Head(s)] /\ Tail(Mapped(s, F)) = Mapped(Tail(s), F)
<1> DEFINE a == Mapped(s, F)
           t == Tail(s)
           b == Mapped(t, F)
           r == Tail(a)
<1>1. /\ a \in Seq(T) /\ Len(a) = Len(s) /\ \A i \in 1 .. Len(s) : a[i] = F[s[i]]
  <2> HIDE DEF t, b, r
  <2> QED BY MappedType
<1>2. /\ Len(s) \in Nat \ {0} /\ t \in Seq(S) /\ Len(t) = Len(s) - 1 /\ Head(s) = s[1] /\ 1 \in 1 .. Len(s)
      /\ \A i \in 1 .. Len(s) - 1 : t[i] = s[i + 1] /\ i + 1 \in 1 .. Len(s)
  OBVIOUS
<1> HIDE DEF t
<1>3. Into(F, t, T)
  <2>1. \A i \in DOMAIN t : t[i] \in ToSet(s)
    <3>1. DOMAIN t = 1 .. Len(s) - 1 /\ DOMAIN s = 1 .. Len(s)
      BY <1>2
    <3> QED BY <1>2, <3>1 DEF ToSet
  <2>2. \A x \in ToSet(t) : x \in ToSet(s)
    BY <2>1 DEF ToSet
  <2> QED BY <2>2 DEF Into
<1>4. b \in Seq(T) /\ Len(b) = Len(t) /\ \A i \in 1 .. Len(t) : b[i] = F[t[i]]
  <2> HIDE DEF a, r
  <2>1. Mapped(t, F) \in Seq(T) /\ Len(Mapped(t, F)) = Len(t) /\ \A i \in 1 .. Len(t) : Mapped(t, F)[i] = F[t[i]]
    <3> HIDE DEF b
    <3> QED BY <1>2, <1>3, MappedType
  <2> QED BY <2>1
<1> HIDE DEF a, b
<1>5. a # <<>> /\ Head(a) = a[1] /\ r \in Seq(T) /\ Len(r) = Len(s) - 1 /\ \A i \in 1 .. Len(s) - 1 : r[i] = a[i + 1]
  BY <1>1, <1>2
<1> HIDE DEF r
<1>6. \A i \in 1 .. Len(r) : r[i] = b[i]
  <2> SUFFICES ASSUME NEW i \in 1 .. Len(r) PROVE r[i] = b[i]
    OBVIOUS
  <2>1. i \in 1 .. Len(s) - 1 /\ i + 1 \in 1 .. Len(s) /\ i \in 1 .. Len(t)
    BY <1>1, <1>2, <1>5
  <2> QED BY <1>1, <1>2, <1>4, <1>5, <2>1
<1>7. Len(r) = Len(b)
  BY <1>2, <1>4, <1>5
<1>8. r = b
  BY <1>4, <1>5, <1>6, <1>7, SeqEqual
<1> QED BY <1>1, <1>2, <1>5, <1>8 DEF a, b, r, t

(* The last element.                                                        *)
LEMMA MappedAppend ==
    ASSUME NEW S, NEW s \in Seq(S), NEW e \in S, NEW T, NEW F, Into(F, s, T), F[e] \in T
    PROVE  Mapped(Append(s, e), F) = Append(Mapped(s, F), F[e])
<1> DEFINE a == Mapped(s, F)
           t == Append(s, e)
           b == Mapped(t, F)
           r == Append(a, F[e])
<1>1. /\ a \in Seq(T) /\ Len(a) = Len(s) /\ \A i \in 1 .. Len(s) : a[i] = F[s[i]]
  <2> HIDE DEF t, b, r
  <2> QED BY MappedType
<1>2. /\ Len(s) \in Nat /\ t \in Seq(S) /\ Len(t) = Len(s) + 1
      /\ \A i \in 1 .. Len(s) + 1 : t[i] = IF i = Len(s) + 1 THEN e ELSE s[i]
      /\ DOMAIN t = 1 .. Len(t) /\ DOMAIN s = 1 .. Len(s)
  OBVIOUS
<1> HIDE DEF t
<1>3. Into(F, t, T)
  <2>1. \A x \in ToSet(t) : x = e \/ x \in ToSet(s)
    BY <1>2 DEF ToSet
  <2> QED BY <2>1 DEF Into
<1>4. b \in Seq(T) /\ Len(b) = Len(t) /\ \A i \in 1 .. Len(t) : b[i] = F[t[i]]
  <2> HIDE DEF a, r
  <2>1. Mapped(t, F) \in Seq(T) /\ Len(Mapped(t, F)) = Len(t) /\ \A i \in 1 .. Len(t) : Mapped(t, F)[i] = F[t[i]]
    <3> HIDE DEF b
    <3> QED BY <1>2, <1>3, MappedType
  <2> QED BY <2>1
<1> HIDE DEF a, b
<1>5. /\ r \in Seq(T) /\ Len(r) = Len(s) + 1
      /\ \A i \in 1 .. Len(s) + 1 : r[i] = IF i = Len(s) + 1 THEN F[e] ELSE a[i]
  BY <1>1, <1>2
<1> HIDE DEF r
<1>6. \A i \in 1 .. Len(r) : r[i] = b[i]
  BY <1>1, <1>2, <1>4, <1>5
<1>7. Len(r) = Len(b)
  BY <1>2, <1>4, <1>5
<1>8. r = b
  BY <1>4, <1>5, <1>6, <1>7, SeqEqual
<1> QED BY <1>8 DEF a, b, r, t

(* An element that occurs once is removed before or after.                  *)
LEMMA MappedRemove ==
    ASSUME NEW S, NEW s \in Seq(S), Single(s, S), NEW e \in ToSet(s), NEW T, NEW F,
           Into(F, s, T), Apart(F, s)
    PROVE  Mapped(RemoveFirst(s, e), F) = RemoveFirst(Mapped(s, F), F[e])
<1> DEFINE a == Mapped(s, F)
           t == RemoveFirst(s, e)
           b == Mapped(t, F)
           r == RemoveFirst(a, F[e])
<1>0. PICK m \in 1 .. Len(s) : e = s[m]
  BY DEF ToSet
<1>1. /\ a \in Seq(T) /\ Len(a) = Len(s) /\ Single(a, T) /\ \A i \in 1 .. Len(s) : a[i] = F[s[i]]
  BY MappedType, MappedSingle
<1>2. /\ Len(s) \in Nat /\ t \in Seq(S) /\ Len(t) = Len(s) - 1 /\ ToSet(t) \subseteq ToSet(s)
      /\ \A i \in 1 .. Len(s) - 1 : t[i] = IF i < m THEN s[i] ELSE s[i + 1]
  BY <1>0, RemovedAt, OnceRemove
<1> HIDE DEF t
<1>3. Into(F, t, T)
  BY <1>2 DEF Into
<1>4. b \in Seq(T) /\ Len(b) = Len(t) /\ \A i \in 1 .. Len(t) : b[i] = F[t[i]]
  <2> HIDE DEF a, r
  <2>1. Mapped(t, F) \in Seq(T) /\ Len(Mapped(t, F)) = Len(t) /\ \A i \in 1 .. Len(t) : Mapped(t, F)[i] = F[t[i]]
    <3> HIDE DEF b
    <3> QED BY <1>2, <1>3, MappedType
  <2> QED BY <2>1
<1> HIDE DEF a, b
<1>5. /\ r \in Seq(T) /\ Len(r) = Len(s) - 1
      /\ \A i \in 1 .. Len(s) - 1 : r[i] = IF i < m THEN a[i] ELSE a[i + 1]
  <2>1. m \in 1 .. Len(a) /\ a[m] = F[e]
    BY <1>0, <1>1
  <2> PICK n \in 1 .. Len(a) : n = m
    BY <2>1
  <2>2. r = RemoveFirst(a, a[n])
    BY <2>1
  <2> HIDE DEF r
  <2> QED BY <1>1, <2>2, RemovedAt
<1> HIDE DEF r
<1>6. \A i \in 1 .. Len(r) : r[i] = b[i]
  <2> SUFFICES ASSUME NEW i \in 1 .. Len(s) - 1 PROVE r[i] = b[i]
    BY <1>5
  <2>1. i \in 1 .. Len(s) /\ i + 1 \in 1 .. Len(s) /\ i \in 1 .. Len(t)
    BY <1>2
  <2>2. CASE i < m
    BY <1>1, <1>2, <1>4, <1>5, <2>1, <2>2
  <2>3. CASE ~(i < m)
    BY <1>1, <1>2, <1>4, <1>5, <2>1, <2>3
  <2> QED BY <2>2, <2>3
<1>7. Len(r) = Len(b)
  BY <1>2, <1>4, <1>5
<1>8. r = b
  BY <1>4, <1>5, <1>6, <1>7, SeqEqual
<1> QED BY <1>8 DEF a, b, r, t

(* A new element at the end, whether or not it was there.                   *)
LEMMA AppendedSet ==
    ASSUME NEW S, NEW s \in Seq(S), NEW e \in S
    PROVE  Append(s, e) \in Seq(S) /\ ToSet(Append(s, e)) = ToSet(s) \cup {e}
<1> PICK b : b = <<e>>
  OBVIOUS
<1>1. b \in Seq(S) /\ ToSet(b) = {e}
  BY DEF ToSet
<1>2. Append(s, e) = s \o b
  BY AppendIsConcat
<1>3. s \o b \in Seq(S) /\ ToSet(s \o b) = ToSet(s) \cup ToSet(b)
  BY <1>1, ConcatElements, Zenon
<1> QED BY <1>1, <1>2, <1>3

(* A new element in front.                                                  *)
LEMMA PrependedSet ==
    ASSUME NEW S, NEW s \in Seq(S), NEW e \in S
    PROVE  ToSet(<<e>> \o s) = {e} \cup ToSet(s)
<1> DEFINE r == <<e>> \o s
<1>1. /\ DOMAIN r = 1 .. Len(s) + 1 /\ DOMAIN s = 1 .. Len(s) /\ Len(s) \in Nat
      /\ \A i \in 1 .. Len(s) + 1 : r[i] = IF i = 1 THEN e ELSE s[i - 1]
  OBVIOUS
<1> HIDE DEF r
<1>2. ASSUME NEW i \in DOMAIN r PROVE r[i] \in {e} \cup ToSet(s)
  <2>1. CASE i = 1
    BY <1>1, <2>1
  <2>2. CASE i # 1
    BY <1>1, <2>2 DEF ToSet
  <2> QED BY <2>1, <2>2
<1>3. e \in ToSet(r)
  BY <1>1 DEF ToSet
<1>4. ASSUME NEW i \in DOMAIN s PROVE s[i] \in ToSet(r)
  <2>1. i + 1 \in DOMAIN r /\ r[i + 1] = s[i]
    BY <1>1
  <2> QED BY <2>1 DEF ToSet
<1>5. ToSet(r) = {e} \cup ToSet(s)
  BY <1>2, <1>3, <1>4 DEF ToSet
<1> QED BY <1>5 DEF r

(* The first element of the second sequence moves to the first.             *)
LEMMA ConcatShift ==
    ASSUME NEW S, NEW t \in Seq(S), NEW w \in Seq(S), w # <<>>
    PROVE  Append(t, Head(w)) \o Tail(w) = t \o w
<1> PICK x \in S : x = Head(w)
  OBVIOUS
<1>1. Tail(w) \in Seq(S) /\ w = <<Head(w)>> \o Tail(w)
  BY HeadTailProperties
<1> PICK r \in Seq(S) : r = Tail(w)
  BY <1>1
<1>2. w = <<x>> \o r /\ <<x>> \in Seq(S)
  BY <1>1
<1>3. Append(t, x) = t \o <<x>>
  OBVIOUS
<1>4. (t \o <<x>>) \o r = t \o (<<x>> \o r)
  BY <1>2, ConcatAssociative
<1> QED BY <1>2, <1>3, <1>4

(* The first of two sequences in a row, and what is left.                   *)
LEMMA FirstOf ==
    ASSUME NEW S, NEW b \in Seq(S), NEW w \in Seq(S)
    PROVE  /\ b = <<>> /\ w # <<>> => /\ b \o w # <<>> /\ Head(b \o w) = Head(w)
                                      /\ b \o Tail(w) = Tail(b \o w)
           /\ b # <<>> => /\ b \o w # <<>> /\ Head(b \o w) = Head(b) /\ Tail(b) \in Seq(S)
                          /\ w = <<>> => Tail(b) = Tail(b \o w)
                          /\ w # <<>> => Append(Tail(b), Head(w)) \o Tail(w) = Tail(b \o w)
<1>1. ASSUME b = <<>>, w # <<>>
      PROVE  b \o w # <<>> /\ Head(b \o w) = Head(w) /\ b \o Tail(w) = Tail(b \o w)
  <2>1. <<>> \o w = w /\ Tail(w) \in Seq(S)
    BY <1>1
  <2>2. <<>> \o Tail(w) = Tail(w)
    BY <2>1
  <2> QED BY <1>1, <2>1, <2>2
<1>2. ASSUME b # <<>>
      PROVE  /\ b \o w # <<>> /\ Head(b \o w) = Head(b) /\ Tail(b) \in Seq(S)
             /\ w = <<>> => Tail(b) = Tail(b \o w)
             /\ w # <<>> => Append(Tail(b), Head(w)) \o Tail(w) = Tail(b \o w)
  <2>1. b \o w # <<>> /\ Head(b \o w) = Head(b) /\ Tail(b \o w) = Tail(b) \o w
    BY <1>2, ConcatTail
  <2>2. Tail(b) \in Seq(S)
    BY <1>2
  <2>3. ASSUME w = <<>> PROVE Tail(b) = Tail(b \o w)
    <3>1. b \o <<>> = b
      OBVIOUS
    <3> QED BY <2>3, <3>1
  <2>4. ASSUME w # <<>> PROVE Append(Tail(b), Head(w)) \o Tail(w) = Tail(b \o w)
    <3>1. \A t \in Seq(S) : Append(t, Head(w)) \o Tail(w) = t \o w
      BY <2>4, ConcatShift
    <3> QED BY <2>1, <2>2, <3>1
  <2> QED BY <2>1, <2>2, <2>3, <2>4
<1> QED BY <1>1, <1>2

-------------------------------------------------------------------------------
(* The list q of suspended fibers that are still in the middle of something *)
(* (those of L among all fibers S), each at most once; the running fiber f  *)
(* is not among them.                                                       *)
Parked(f, q, S, L) ==
    /\ f \in S /\ q \in Seq(S) /\ Single(q, S)
    /\ \A i \in DOMAIN q : q[i] \in L /\ q[i] # f

(* Control goes to a fiber that has not left, the running one leaves.       *)
LEMMA ParkedSwitch ==
    ASSUME NEW S, NEW L, NEW f, NEW q, Parked(f, q, S, L), f \in L, NEW g \in S, g \notin L
    PROVE  Parked(g, IF f \in ToSet(q) THEN q ELSE <<f>> \o q, S, L)
<1>1. /\ f \in S /\ q \in Seq(S) /\ Single(q, S)
      /\ \A i \in DOMAIN q : q[i] # f /\ q[i] \in L
  BY DEF Parked
<1> DEFINE p == <<f>> \o q
<1>2. f \notin ToSet(q)
  BY <1>1 DEF ToSet
<1>3. /\ p \in Seq(S) /\ Single(p, S)
      /\ \A i \in DOMAIN p : p[i] = f \/ \E j \in DOMAIN q : p[i] = q[j]
  BY <1>1, SinglePush
<1> HIDE DEF p
<1>4. \A i \in DOMAIN p : p[i] \in L /\ p[i] # g
  BY <1>1, <1>3
<1>5. Parked(g, p, S, L)
  BY <1>3, <1>4 DEF Parked
<1> QED BY <1>2, <1>5 DEF p

(* The running fiber gives control back to the one it came from, which is   *)
(* not in the list any more; if there is none, to g.                        *)
LEMMA ParkedSuspend ==
    ASSUME NEW S, NEW L, NEW f, NEW q, Parked(f, q, S, L), q # <<>>
    PROVE  /\ Parked(Head(q), Tail(q), S, L)
           /\ Head(q) \in L /\ Head(q) # f
           /\ \A i \in DOMAIN Tail(q) : Tail(q)[i] # f
<1>1. /\ f \in S /\ q \in Seq(S) /\ Single(q, S)
      /\ \A i \in DOMAIN q : q[i] # f /\ q[i] \in L
  BY DEF Parked
<1> DEFINE p == Tail(q)
<1>2. Head(q) = q[1] /\ 1 \in DOMAIN q
  BY <1>1
<1>3. /\ p \in Seq(S) /\ Single(p, S)
      /\ \A i \in DOMAIN p : i + 1 \in DOMAIN q /\ p[i] = q[i + 1]
      /\ \A i \in DOMAIN p : p[i] # q[1]
  BY <1>1, SingleTail
<1> HIDE DEF p
<1>4. \A i \in DOMAIN p : p[i] \in L /\ p[i] # f
  BY <1>1, <1>3
<1>5. Parked(q[1], p, S, L)
  BY <1>1, <1>2, <1>3, <1>4 DEF Parked
<1> QED BY <1>1, <1>2, <1>4, <1>5 DEF p

(* Nobody is left in the list.                                              *)
LEMMA ParkedNone ==
    ASSUME NEW S, NEW L, NEW f, NEW q, Parked(f, q, S, L), q = <<>>, NEW g \in S
    PROVE  Parked(g, q, S, L) /\ DOMAIN q = {}
BY DEF Parked, Single

(* Those that have left may be described anew.                              *)
LEMMA ParkedIn ==
    ASSUME NEW f, NEW q, NEW S, NEW L, NEW M, Parked(f, q, S, L),
           \A g \in S : g \in L /\ g # f => g \in M
    PROVE  Parked(f, q, S, M)
<1>1. \A i \in DOMAIN q : q[i] \in S
  BY DEF Parked
<1> QED BY <1>1 DEF Parked
===============================================================================
