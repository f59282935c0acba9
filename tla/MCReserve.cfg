SPECIFICATION FairSpec
CONSTANTS
  None = None
  Process = {p1, p2}
  Key = {k1}
  Selector = {s1, s2}
  Label = {l1, l2}
  Commit = {c1, c2}
  Id = {i1, i2}
  MaySettle = TRUE
INVARIANTS
  TypeOK
  OneCapsulePerKey
  ReservedFirst
PROPERTIES
  ReservedMeansNotReturned
  RetryResumesUnlessLittered
CHECK_DEADLOCK FALSE
