CONSTANTS
  Names = {n1, n2}
  Sids = {s1, s2, s3}
  Requests = {r1, r2}
  MaxTime = 3
  MaxAccounts = 3
  Timeout = 2
  Reuse = 1
SPECIFICATION Spec
SYMMETRY Symmetric
CHECK_DEADLOCK FALSE
PROPERTIES AccountKept KeptWhileFresh GoneForGood
