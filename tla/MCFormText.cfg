SPECIFICATION FormSpec
CONSTANTS
  Users = {"u1", "u2"}
  Editors = {"u1"}
  Kebs = {"k1", "k2", "k3", "t1", "t2"}
  Rebs = {"r1", "r2", "u"}
  NoTxt = "none"
  NoKanji = "nokanji"
  Words <- MCWords
  Links <- MCLinks
  Said <- MCSaid
  NewKanj = {"k3"}
  Freqs <- Ichi
  MaxRows = 4
  MaxChanges = 1
INVARIANTS PairsKept ShownRight
PROPERTIES FreqKept RefsReturn
CHECK_DEADLOCK FALSE
