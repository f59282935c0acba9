--------------------------- MODULE CapsuleProperties ---------------------------
(***************************************************************************)
(* What makes a capsule correct.                                           *)
(***************************************************************************)
EXTENDS Capsule

PCs ==
  {"idle", "write",
   "crManifest", "crExamine", "crAbandon", "crBranch", "crRegister", "crLink",
   "crCheckout", "crReset", "crActivate",
   "ckSnapshot", "ckCreateRef", "ckJournal", "ckFinish", "ckRecreateRef",
   "ckAdvance", "ckReset", "ckDeleteRef", "ckComplete",
   "clSnapshot1", "clHead1", "clClean1", "clSnapshot2", "clHead2", "clClean2",
   "clPatch", "clResult",
   "inStart", "inPrepare", "inCreateRef", "inJournal", "inCheck", "inMerge",
   "inDone", "riDecide", "riDeleteRef",
   "drJournal", "cuCheck", "cuRemove", "cuRemoving", "cuUnregister", "cuPrune",
   "cuBranch", "cuCheckpointRef", "cuIntegrationRef", "raExamine"}

Locals ==
  [head : MaybeCommit, tree : Tree \cup {None}, clean : BOOLEAN,
   next : MaybeCommit, pending : MaybeCommit, gate : Gates,
   orphan : BOOLEAN, adopted : BOOLEAN]

(* Every variable has its type. *)
TypeOK ==
  /\ man \in Manifests /\ cap \in Manifests
  /\ pc \in PCs /\ loc \in Locals
  /\ branch \in MaybeCommit /\ ckRef \in MaybeCommit /\ inRef \in MaybeCommit
  /\ path \in Paths /\ reg \in BOOLEAN /\ attached \in BOOLEAN
  /\ tree \in Tree \cup {None} /\ stale \in BOOLEAN
  /\ disk \in [patch : Patch \cup {None}, result : Results \cup {None}]
  /\ tip \in [Ref -> Commit] /\ cur \in Ref /\ dirty \in BOOLEAN
  /\ run \in [passed : BOOLEAN, saw : Patch] \cup {None}
  /\ stir \in Nat /\ calm \in BOOLEAN

(* A step of Capsule, as opposed to one of the outside world. *)
Ours == pc' # pc

------------------------------------------------------------------------------
(* read_capsule (state.rs) rejects a manifest whose journals contradict its *)
(* state, write_capsule does not look: whatever is written, by whatever     *)
(* sequence of operations, crashes and recoveries, can be read back.       *)
ManifestReadable == Readable(man)

(* The capsule refines its lifecycle: the journals, refs, crashes and       *)
(* recoveries never take it along an edge docs/architecture.md does not     *)
(* draw, lose a checkpoint or a record, or touch a seal.                   *)
Abstract ==
  INSTANCE Lifecycle WITH
    phase <- man.state, checkpoints <- man.checkpoints,
    evidence <- man.evidence, seal <- man.result,
    Checkpoint <- Commit, Attestation <- Evidence,
    Seal <- Results, NoSeal <- None

ImplementsLifecycle == Abstract!LifecycleSpec

------------------------------------------------------------------------------
(* Checkpoint: the branch moves only once the manifest on disk journals the *)
(* move and a ref keeps the commit alive, so a crash at any moment leaves   *)
(* what recover needs.                                                     *)
CheckpointJournaledFirst ==
  [][ (/\ Ours /\ branch # branch' /\ None \notin {branch, branch'}
       /\ man.state # "creating")
      => /\ man.state = "checkpointing"
         /\ man.journal.after = branch'
         /\ (branch = man.journal.before => ckRef = branch') ]_vars

(* While the journal is open its commit is reachable from the pending ref   *)
(* or from the branch: `git gc` at any moment cannot remove it.            *)
CheckpointProtected ==
  man.state = "checkpointing" =>
    \/ ckRef = man.journal.after
    \/ branch # None /\ man.journal.after \in Anc[branch]

(* Capsule moves the branch forward only: the compare-and-swap leaves no     *)
(* commit of the agent behind whenever it is made, and no step one that was *)
(* made before the operation took the locks, resumed journals included.    *)
BranchOnlyAdvances ==
  [][ (/\ Ours /\ (stir = 0 \/ pc = "ckAdvance") /\ man.state \in {"active", "checkpointing"}
       /\ branch # None /\ branch' # branch)
      => branch' # None /\ branch \in Anc[branch'] ]_vars

(* Between operations the index of an active workspace never lags behind    *)
(* its head, so that the agent's next commit cannot undo a checkpoint.     *)
IndexCaughtUp == Idle /\ man.state = "active" => ~stale

(* checkpoint proves beforehand that the manifest can still record it       *)
(* (lifecycle.rs), so a journaled commit is never one recorded already.     *)
JournaledCheckpointIsNew ==
  man.state = "checkpointing" => man.journal.after \notin man.checkpoints

------------------------------------------------------------------------------
(* Close: whatever mixture of crashes, refused closes and re-closes came    *)
(* before, a manifest that names a result names the files that are there.  *)
SealOnDisk == man.result # None => SealedArtifacts(man)

(* The two observations of close agree on one real state of the workspace:  *)
(* kind `commit` means all changes were committed (docs/architecture.md),   *)
(* `no_change` that there were none.                                       *)
SealNotTorn ==
  man.result # None =>
    /\ man.result.kind = "commit" =>
         CommitDiff(Base, man.result.head) = man.result.patch
    /\ man.result.kind = "no_change" <=> Empty(man.result.patch)

(* A result sealed behind the executed-evidence gate carries a passing      *)
(* record, made by Capsule, bound to exactly the patch that was sealed.    *)
ExecutedGateHolds ==
  [][ (man.result = None /\ man'.result # None /\ loc.gate = "executed")
      => \E e \in man'.result.evidence :
           e.passed /\ e.executed /\ e.patch = man'.result.patch ]_vars

(* README.md's merge gate: an executed record passed against the patch it   *)
(* is bound to.                                                            *)
ExecutedMeansRan == \A e \in man.evidence : e.executed => e.saw = e.patch

------------------------------------------------------------------------------
(* Integrate: the target moves only to a commit the manifest on disk        *)
(* already journals, a ref already protects, and that is the sealed patch   *)
(* on the pinned base, nothing else.                                       *)
IntegrationJournaledFirst ==
  [][ (Ours /\ tip' # tip)
      => /\ man.state = "integrating"
         /\ man.integration.after = tip'[cur]
         /\ inRef = tip'[cur]
         /\ Parent[tip'[cur]] = Base
         /\ CommitDiff(Base, tip'[cur]) = man.result.patch ]_vars

(* A journal is closed as integrated only when the recorded branch of the   *)
(* target has the commit, and rolled back only when it has not.  (Of an     *)
(* empty result there is nothing to have: its journal names whatever head  *)
(* the target had when it was prepared.)                                   *)
IntegrationSettledTruthfully ==
  [][ (man.state = "integrating" /\ stir = 0) =>
        LET j == man.integration
            history == Anc[tip[j.ref]]
        IN  /\ man'.state = "integrated" =>
                 j.after \in history /\ MatchesResult(man, j.after)
            /\ man'.state = "closed" =>
                 \/ j.after \in {None, j.before} \/ man.result.kind = "no_change"
                 \/ j.after \notin history ]_vars

------------------------------------------------------------------------------
(* Drop: an unforced drop of a sealed capsule removes the worktree only     *)
(* while it still is what was sealed, also when a crash and later edits     *)
(* come between the decision and the removal.  (Here and below, stir = 0:   *)
(* unless somebody interferes under the very operation that removes,       *)
(* between its last look and its next Git command.)                        *)
UnsealedWorkKept ==
  [][ (/\ Ours /\ stir = 0 /\ GitHere /\ path' # "ours"
       /\ man.cleanup # None /\ man.cleanup.sealed)
      => branch = man.result.head /\ Snapshot(Base) = man.result.patch ]_vars

(* A dropped capsule leaves nothing behind in Git: no branch, no pending    *)
(* ref, no registration, no worktree.                                      *)
DroppedLeavesNothing ==
  man.state = "dropped" =>
    branch = None /\ ckRef = None /\ inRef = None /\ ~reg /\ ~GitHere

(* Cleanup refuses foreign directories, force or no force (README.md): a    *)
(* capsule becomes dropped only when nothing stands at workspace_path, so   *)
(* that a replacement put there at any moment of a half-done removal stops  *)
(* the cleanup and survives it.                                            *)
CleanupRefusesForeign ==
  [][ (stir = 0 /\ man.state # "dropped" /\ man'.state = "dropped") => Missing ]_vars

------------------------------------------------------------------------------
(* Create: an active capsule starts exactly at its pinned base, whichever   *)
(* crashed attempt its worktree came from.                                 *)
BornAtBase ==
  [][ (stir = 0 /\ man.state = "creating" /\ man'.state = "active")
      => GitHere /\ branch = Base /\ Clean ]_vars

(* Whoever resumes a creation throws nothing away: it overwrites the        *)
(* worktree only where there is nothing but the base, even if somebody      *)
(* worked there before the manifest said active.                           *)
ResumedCreationKeepsWork ==
  [][ (/\ Ours /\ stir = 0 /\ GitHere
       /\ man.state = "creating" /\ man'.state = "creating"
       /\ None \notin {tree, branch} /\ <<tree, branch>>' # <<tree, branch>>
       /\ pc # "crReset")
      => tree = TreeOf[Base] /\ branch = Base ]_vars

(* Recovery settles what an interrupted operation left, once faults stop:   *)
(* a creation one way or the other, ...                                    *)
CreationSettles == calm /\ man.state = "creating" ~> man.state # "creating"

(* ... a checkpoint whose branch is at either end of the journal, ...       *)
CheckpointSettles ==
  (/\ calm /\ man.state = "checkpointing" /\ Owned(man)
   /\ branch \in {man.journal.before, man.journal.after}
   /\ ckRef \in {None, man.journal.after}
   /\ man.journal.after \notin man.checkpoints)
  ~> man.state # "checkpointing"

(* ... an integration whose target is where the journal left it, ...        *)
Resumable ==
  LET j == man.integration IN
  /\ man.state = "integrating" /\ TargetIs(j.ref)
  /\ tip[cur] \in {j.before, j.after}
  /\ SealedArtifacts(man)

IntegrationSettles == calm /\ Resumable ~> man.state # "integrating"

(* ... (all of those, but for one journal: rolled back once already, so far *)
(* that its ref is gone) ...                                               *)
IntegrationSettlesUnlessRefLost ==
  (/\ calm /\ Resumable
   /\ (man.integration.after # None /\ Moves(man.integration)
       /\ tip[cur] = man.integration.before) => inRef = man.integration.after)
  ~> man.state # "integrating"

(* ... and a cleanup whose worktree is intact or gone.                      *)
CleanupSettles ==
  (/\ calm /\ man.state = "dropping" /\ branch \in {None, man.cleanup.head}
   /\ \/ GitHere /\ RemovalProven(man)
      \/ Missing /\ (reg => RegisteredRecord(man.cleanup.head)))
  ~> man.state = "dropped"
==============================================================================
