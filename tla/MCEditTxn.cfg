CONSTANTS
  EntrIds = {e1, e2, e3, e4}
  Keys = {k1}
  NoEntr = NoEntr
  Corpus = {e1}
  AllowForks = TRUE
  Requests = {t1, t2}
  Jobs = {}
  Reapers = {}
SPECIFICATION Spec
SYMMETRY Symmetry
INVARIANTS EditsKept
PROPERTIES ImplementsEditTree
