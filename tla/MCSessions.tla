---------------------------- MODULE MCSessions ----------------------------
(* Sessions of two names; which name, id or request is which is the same. *)
EXTENDS Sessions, TLC

Symmetric == Permutations(Names) \cup Permutations(Sids) \cup Permutations(Requests)
=============================================================================
