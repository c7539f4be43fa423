CONSTANTS
  s1 = s1
  s2 = s2
  Corpora = {c1, c2}
  SeqNames = {s1, s2}
  Files <- TwoFiles
  NoRow = NoRow
  MayRename = FALSE
  MayMeet = FALSE
  MaxId = 5
  MaxNum = 3
SPECIFICATION Spec
SYMMETRY Symmetry
CHECK_DEADLOCK FALSE
INVARIANTS SequencesMatch NumbersAhead
PROPERTIES LoadsApart
