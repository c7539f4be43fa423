----------------------------- MODULE MCWebEdit -----------------------------
(* WebEdit with a few users on one or two loaded entries. *)
EXTENDS WebEdit, TLC

Symmetry ==
  Permutations(EntrIds \ Corpus) \cup Permutations(Users)
    \cup Permutations(Refs) \cup Permutations(Keys \ Refs)
=============================================================================
