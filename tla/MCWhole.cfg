SPECIFICATION FairSpec
CONSTANTS
  None = None
  Tree = {"t0", "t1"}
  Depth = 1
  Stamps = {1}
  Base <- BaseCommit
  Commit <- AllCommits
  Parent <- ParentMap
  TreeOf <- TreeMap
  Anc <- AncestorMap
  Ref = {"main"}
  Operations = {"create", "checkpoint", "close", "integrate", "drop", "recover"}
  AgentMoves = {"edit", "commit", "rewind", "move", "prune", "unprotect"}
  UserMoves = {"commit", "tamper"}
  MaxStir = 0
  EvidenceCap = 0
  CheckpointCap = 1
  BornActive = FALSE
  MaySettle = TRUE
INVARIANTS
  TypeOK
  ManifestReadable
  DroppedLeavesNothing
PROPERTIES
  ImplementsLifecycle
  BornAtBase
  ResumedCreationKeepsWork
  UnsealedWorkKept
  CleanupRefusesForeign
  CreationSettles
  CheckpointSettles
  IntegrationSettlesUnlessRefLost
  CleanupSettles
CHECK_DEADLOCK FALSE
