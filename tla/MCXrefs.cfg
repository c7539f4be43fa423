CONSTANTS
  EntrIds = {e1, e2, e3, e4, e5, e6}
  Keys = {k1, k2}
  NoEntr = NoEntr
  Corpus = {e1}
  AllowForks = FALSE
  Users = {u1}
  Wanted = {"A"}
  Refs = {k1, k2}
SPECIFICATION Spec
SYMMETRY Symmetry
CHECK_DEADLOCK FALSE
INVARIANTS XrefsKept
