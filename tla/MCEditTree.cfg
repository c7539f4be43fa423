CONSTANTS
  EntrIds = {e1, e2, e3, e4, e5, e6}
  Corpus = {e1}
  Keys = {k1, k2}
  NoEntr = NoEntr
  AllowForks = TRUE
SPECIFICATION Spec
SYMMETRY Symmetry
CHECK_DEADLOCK FALSE
INVARIANTS TypeOK LinksOK OneActive HistoryChain PendingCanBeRejected
PROPERTIES HistoryKept PublishedSuperseded
