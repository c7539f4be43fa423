------------------------------- MODULE Listing -------------------------------
(***************************************************************************)
(* What the database makes of ORDER BY.                                    *)
(***************************************************************************)
EXTENDS Naturals, Sequences, FiniteSets

\* How many elements of S come before e.
Rank(e, S, order) == Cardinality({d \in S : <<d, e>> \in order})

\* The elements of S as a list in an order, which is a set of pairs.
InOrder(S, order) ==
  [i \in 1 .. Cardinality(S) |-> CHOOSE e \in S : Rank(e, S, order) = i - 1]

\* The elements of a list at some of its places: what SelectSeq makes of them,
\* in terms that can be proved about.
Picked(list, places) ==
  LET kept == InOrder(places, {p \in places \X places : p[1] < p[2]})
  IN  [i \in DOMAIN kept |-> list[kept[i]]]
=============================================================================
