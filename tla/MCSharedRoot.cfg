SPECIFICATION FairSpec
CONSTANTS
  Nobody = Nobody
  Torn = Torn
  p1 = p1
  p2 = p2
  j1 = j1
  j2 = j2
  Process = {p1, p2}
  Project = {j1, j2}
  Capsule = {1, 2}
  Content <- MCContent
  ProjectOf <- MCProjectOf
  Uses <- MCUses
  OutputCap = 1
  PipeCap = 1
  MaxOut = 2
INVARIANTS TypeOK AcknowledgedIsDurable SealSurvives CaptureComplete
PROPERTIES OperationsEnd SweepSettles
CHECK_DEADLOCK FALSE
