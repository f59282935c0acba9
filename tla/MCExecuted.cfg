SPECIFICATION Spec
CONSTANTS
  None = None
  Tree = {"t0", "t1"}
  Depth = 1
  Stamps = {1}
  Base <- BaseCommit
  Commit <- AllCommits
  Parent <- ParentMap
  TreeOf <- TreeMap
  Anc <- AncestorMap
  Ref = {"main"}
  Operations = {"evidence"}
  AgentMoves = {"edit"}
  UserMoves = {}
  MaxStir = 0
  EvidenceCap = 1
  CheckpointCap = 0
  BornActive = TRUE
  MaySettle = FALSE
INVARIANTS
  ExecutedMeansRan
CHECK_DEADLOCK FALSE
