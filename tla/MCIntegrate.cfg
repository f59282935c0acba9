SPECIFICATION Spec
CONSTANTS
  None = None
  Tree = {"t0", "t1", "t2"}
  Depth = 1
  Stamps = {1, 2}
  Base <- BaseCommit
  Commit <- AllCommits
  Parent <- ParentMap
  TreeOf <- TreeMap
  Anc <- AncestorMap
  Ref = {"main", "other"}
  Operations = {"close", "integrate", "recover"}
  AgentMoves = {"edit"}
  UserMoves = {"commit", "rewind", "switch", "edit"}
  MaxStir = 1
  EvidenceCap = 1
  CheckpointCap = 1
  BornActive = TRUE
  MaySettle = FALSE
PROPERTIES
  IntegrationJournaledFirst
  IntegrationSettledTruthfully
CHECK_DEADLOCK FALSE
