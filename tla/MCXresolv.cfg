CONSTANTS
  EntrIds = {1, 2, 3, 4}
  Corpus = {1, 2}
  Keys = {1, 2, 3}
  NoEntr = NoEntr
  AllowForks = FALSE
  NoTxt = NoTxt
  r1 = r1
  r2 = r2
  k1 = k1
  Words <- TwoWords
  Lists <- SomeLists
  NonActive = FALSE
SPECIFICATION MCSpec
CHECK_DEADLOCK FALSE
PROPERTIES UnresolvedKept WrittenRight ClearChosen AllGetResolved
