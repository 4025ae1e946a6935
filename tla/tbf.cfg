SPECIFICATION Spec
CONSTANTS
  Caller = {c1, c2, c3}
  TBF_MAX = 2
  IntMax = 7
  Shape <- MCShape
  Amount = {1, 4}
  Time <- MCTime
  NULL = NULL
CHECK_DEADLOCK FALSE
SYMMETRY Symmetry
INVARIANTS
  TypeOK
  TokenWithinBurst
  RateLimited
  OwnBucket
  SharedRate
