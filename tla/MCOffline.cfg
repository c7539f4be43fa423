CONSTANTS
  EntrIds = {e1, e2, e3, e4}
  Keys = {k1, k2}
  NoEntr = NoEntr
  Corpus = {e1}
  AllowForks = FALSE
  Requests = {t1}
  Jobs = {j1}
  Reapers = {r1}
SPECIFICATION Spec
SYMMETRY Symmetry
INVARIANTS ShapeKept
