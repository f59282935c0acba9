-------------------------------- MODULE World --------------------------------
(***************************************************************************)
(* The state one capsule lives in and everybody who changes it: the        *)
(* manifest on disk, the operation that holds the global and the project   *)
(* lock (its program counter, its in-memory copy of the manifest and its   *)
(* locals), the capsule's refs, its worktree, the sealed artifacts, and    *)
(* the worktree a result is integrated into.                               *)
(*                                                                         *)
(* Every mutating operation re-reads the manifest under two exclusive      *)
(* locks, so at most one is in progress; the agent in the workspace, the   *)
(* owner of the target and a command run for evidence take no lock.        *)
(***************************************************************************)
EXTENDS Manifest, Naturals

CONSTANTS
  Operations,     \* the operations callers invoke
  AgentMoves,     \* what happens in and to the capsule's workspace
  UserMoves,      \* what happens to the integration target and the artifacts
  MaxStir,        \* bound: outside moves during one operation
  EvidenceCap,    \* EVIDENCE_COUNT_CAP
  CheckpointCap,  \* CHECKPOINT_COUNT_CAP
  BornActive,     \* start after a completed create instead of before it
  MaySettle       \* whether crashes and outside moves may stop for good

ASSUME WorldAssumption == BornActive \in BOOLEAN /\ MaxStir \in Nat

VARIABLES
  man,       \* capsule.json
  cap,       \* the manifest as the operation under the locks holds it
  pc, loc,   \* where that operation is, and its local variables
  branch,    \* refs/heads/capsule/<id>
  ckRef,     \* refs/change-capsule/<id>/checkpoint
  inRef,     \* refs/change-capsule/<id>/integration
  path,      \* what is at workspace_path
  reg,       \* .git/worktrees has a record for workspace_path
  attached,  \* the workspace's HEAD names the capsule's branch
  tree,      \* what the workspace contains; None before the first checkout
  stale,     \* the workspace's index lags behind its HEAD
  disk,      \* result.patch and result.json
  tip, cur, dirty,  \* the target: branch heads, branch checked out, changes
  run,       \* a command that Capsule ran for evidence and has not recorded
  stir,      \* outside moves since the locks were taken
  calm       \* no crash and no outside move from here on

opVars == <<cap, pc, loc>>
refVars == <<branch, ckRef, inRef>>
wtVars == <<path, reg, attached, tree, stale>>
targetVars == <<tip, cur, dirty>>
envVars == <<run, stir, calm>>
vars == <<man, opVars, refVars, wtVars, disk, targetVars, envVars>>

NoLoc == [head |-> None, tree |-> None, clean |-> FALSE, next |-> None,
          pending |-> None, gate |-> "none", orphan |-> FALSE, adopted |-> FALSE]
NoDisk == [patch |-> None, result |-> None]
Gates == {"none", "successful", "current", "executed"}

(* What is at workspace_path: nothing, something that is not this worktree  *)
(* (another repository, a plain directory, half a worktree), or the        *)
(* capsule's worktree, which can also have been moved away for a while.    *)
Paths == {"absent", "moved", "foreign", "ours"}

------------------------------------------------------------------------------
(* Git queries on the workspace. *)

Clean == tree = TreeOf[branch] /\ ~stale
Snapshot(c) == Diff(c, tree)

(* A Git command whose directory is the workspace can run at all. *)
GitHere == path = "ours"
Missing == path \in {"absent", "moved"}

(* validate_registered_record; the record's head is the branch's. *)
RegisteredRecord(head) == attached /\ branch = head

(* validate_owned_worktree: the path is the worktree this capsule created,  *)
(* on the capsule's branch, and Git's own records agree.                   *)
Owned(m) ==
  /\ GitHere
  /\ m.gitDir
  /\ attached
  /\ branch # None
  /\ reg
  /\ RegisteredRecord(branch)

------------------------------------------------------------------------------
(* The operation under the locks. *)

Idle == pc = "idle"

(* The locks are taken and read_capsule accepts the manifest. *)
Begin(op, first) ==
  /\ Idle
  /\ op \in Operations
  /\ Readable(man)
  /\ pc' = first
  /\ stir' = 0

Goto(next) == pc' = next

(* An error return: what the operation had not written is forgotten. *)
Fail ==
  /\ pc' = "idle"
  /\ cap' = man
  /\ loc' = NoLoc
  /\ UNCHANGED <<man, refVars, wtVars, disk, targetVars, envVars>>

(* write_capsule, then the locks are released. *)
WriteAndReturn ==
  /\ man' = cap
  /\ pc' = "idle"
  /\ loc' = NoLoc
  /\ UNCHANGED <<cap, refVars, wtVars, disk, targetVars, envVars>>

(* write_capsule of a journal, in the middle of an operation. *)
WriteAndGoto(next) ==
  /\ man' = cap
  /\ Goto(next)
  /\ UNCHANGED <<cap, loc, refVars, wtVars, disk, targetVars, envVars>>

(* The process dies, or a Git command or a write fails, at any point. *)
Crash == ~Idle /\ ~calm /\ Fail

(* delete_ref_if_matches: absent is fine, a different commit is an error. *)
MayDeletePresent(ref, expected) == ref = expected  \* mutant: absent is an error

MayDelete(ref, expected) == ref \in {None, expected}

==============================================================================
