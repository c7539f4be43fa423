----------------------------- MODULE MCBulkLoad -----------------------------
(* BulkLoad with files of one or two rows. *)
EXTENDS BulkLoad, TLC

CONSTANTS s1, s2

FileOf(seq, rows) == [seq |-> seq, rows |-> rows]

Published(k, x) == [num |-> k, idx |-> x, dfrm |-> NoRow, unap |-> FALSE]
EditOf(p, k, x) == [num |-> k, idx |-> x, dfrm |-> p, unap |-> TRUE]

\* An entry and its edit, which comes first; and an entry from a file that has
\* no ids.
TwoFiles ==
  {FileOf(s1, <<EditOf(7, 2, 8), Published(2, 7)>>),
   FileOf(s2, <<Published(3, NoRow)>>)}

Symmetry == Permutations(Corpora)
=============================================================================
