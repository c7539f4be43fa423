CONSTANTS
  EntrIds = {1, 2, 3}
  Corpus = {1, 2}
  Keys <- TwoKeys
  NoEntr = NoEntr
  AllowForks = FALSE
  a = a
  b = b
  t1 = t1
  t2 = t2
  t3 = t3
  Texts <- OneText
  NoTxt = NoTxt
  Lines <- SomeLines
  MaxLines = 4
  Initial = a
  Comment = "default"
  Approvals = {"none", "yes", "no"}
  Userid = TRUE
SPECIFICATION MCSpec
CHECK_DEADLOCK FALSE
INVARIANTS ReadRight Accounted
PROPERTIES AllOrNothing
