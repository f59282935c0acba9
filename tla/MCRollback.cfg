SPECIFICATION FairSpec
CONSTANTS
  None = None
  Tree = {"t0", "t1"}
  Depth = 1
  Stamps = {1}
  Base <- BaseCommit
  Commit <- AllCommits
  Parent <- ParentMap
  TreeOf <- TreeMap
  Anc <- AncestorMap
  Ref = {"main"}
  Operations = {"close", "integrate", "recover"}
  AgentMoves = {"edit"}
  UserMoves = {}
  MaxStir = 0
  EvidenceCap = 0
  CheckpointCap = 0
  BornActive = TRUE
  MaySettle = TRUE
PROPERTIES
  IntegrationSettles
CHECK_DEADLOCK FALSE
