SPECIFICATION FairSpec
CONSTANTS
  None = None
  Process = {p1}
  Key = {k1}
  Selector = {s1}
  Label = {l1}
  Commit = {c1, c2}
  Id = {i1, i2}
  MaySettle = TRUE
PROPERTIES
  RetryResumes
CHECK_DEADLOCK FALSE
