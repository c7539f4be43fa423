CONSTANTS
  EntrIds = {1, 2, 3, 4}
  Keys = {1, 2}
  NoEntr = 0
  Corpus = {1, 2}
  AllowForks = FALSE
  Kanji <- MCKanji
  Number <- MCNumber
  Tags <- MCTags
  Latin <- MCLatin
  Ginfs <- MCGinfs
  Langs <- MCLangs
  RefTypes = {"see", "ant", "cf"}
  SeqNo <- MCSeqNo
  SrcOf <- MCSrcOf
  SrcType <- MCSrcType
  Code <- MCCode
  Quiet = {3}
  Loaded <- MCLoaded
  Texts <- MCTexts
  Options <- MCOptions
SPECIFICATION Spec
CHECK_DEADLOCK FALSE
INVARIANTS Complete FileReturns RefsReturn EdictReadsBack JelReadsBack PagesAgree PagesInOrder ChecksPass
