----------------------------- MODULE MCEditTxn -----------------------------
(* EditTxn with a few requests at once on one published entry. *)
EXTENDS EditTxn, TLC

Symmetry ==
  Permutations(EntrIds \ Corpus) \cup Permutations(Keys)
    \cup Permutations(Requests)
=============================================================================
