SPECIFICATION Spec
CONSTANTS
  None = None
  Tree = {"t0", "t1"}
  Depth = 2
  Stamps = {1}
  Base <- BaseCommit
  Commit <- AllCommits
  Parent <- ParentMap
  TreeOf <- TreeMap
  Anc <- AncestorMap
  Ref = {"main"}
  Operations = {"checkpoint", "evidence", "close", "recover"}
  AgentMoves = {"edit", "commit", "detach"}
  UserMoves = {}
  MaxStir = 1
  EvidenceCap = 1
  CheckpointCap = 2
  BornActive = TRUE
  MaySettle = FALSE
INVARIANTS
  SealOnDisk
  SealNotTorn
  CheckpointProtected
  IndexCaughtUp
PROPERTIES
  ExecutedGateHolds
  CheckpointJournaledFirst
  BranchOnlyAdvances
CHECK_DEADLOCK FALSE
