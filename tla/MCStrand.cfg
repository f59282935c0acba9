SPECIFICATION Spec
CONSTANTS
  None = None
  Tree = {"t0", "t1"}
  Depth = 1
  Stamps = {1}
  Base <- BaseCommit
  Commit <- AllCommits
  Parent <- ParentMap
  TreeOf <- TreeMap
  Anc <- AncestorMap
  Ref = {"main"}
  Operations = {"checkpoint"}
  AgentMoves = {"edit", "rewind"}
  UserMoves = {}
  MaxStir = 0
  EvidenceCap = 0
  CheckpointCap = 2
  BornActive = TRUE
  MaySettle = FALSE
INVARIANTS
  JournaledCheckpointIsNew
CHECK_DEADLOCK FALSE
