------------------------------- MODULE MCChannel -------------------------------
EXTENDS Channel
CONSTANTS a, b, d, c1, c2, m1, m2, m3, i1, i2, j1, j2, g1

(* One channel, unbuffered or buffered, and its iterators; two buffered     *)
(* ones for a group.                                                        *)
Sizes(m, n) == c1 :> m @@ c2 :> n
Plain(m) == [chans |-> {c1}, size |-> Sizes(m, 0), iterators |-> {i1, i2}, groups |-> {}]
Grouped == [chans |-> {c1, c2}, size |-> Sizes(1, 1), iterators |-> {}, groups |-> {g1}]
PlainAndGrouped == {Plain(0), Plain(2), Grouped}

(* Messages, and tasks that neither own a group nor can be cancelled.        *)
Alike == {p @@ q : p \in Permutations(Msgs), q \in Permutations({b, d} \cap Tasks)}

BothMembers == g1 :> <<j1, j2>>
OwnerA == g1 :> a
ChanOfBoth == i1 :> c1 @@ i2 :> c1 @@ j1 :> c1 @@ j2 :> c2
===============================================================================
