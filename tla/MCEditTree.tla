----------------------------- MODULE MCEditTree -----------------------------
(* EditTree on a handful of ids and two sequence numbers. *)
EXTENDS EditTree, TLC

Symmetry == Permutations(EntrIds \ Corpus) \cup Permutations(Keys)
=============================================================================
