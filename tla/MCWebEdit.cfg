CONSTANTS
  EntrIds = {e1, e2, e3, e4}
  Keys = {k1}
  NoEntr = NoEntr
  Corpus = {e1}
  AllowForks = TRUE
  Users = {u1, u2}
  Wanted = {"A", "D"}
  Refs = {}
SPECIFICATION Spec
SYMMETRY Symmetry
CHECK_DEADLOCK FALSE
INVARIANTS NextForesees
PROPERTIES OverwritesFlagged
