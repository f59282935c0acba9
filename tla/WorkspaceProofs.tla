---------------------------- MODULE WorkspaceProofs ----------------------------
(***************************************************************************)
(* What the operations do to the workspace and to the capsule's refs, for  *)
(* every object database, every bound and every choice of operations: how  *)
(* a checkpoint moves the branch, what a creation overwrites, and what a   *)
(* cleanup removes and leaves.                                             *)
(***************************************************************************)
EXTENDS CapsuleProofs

------------------------------------------------------------------------------
(* The index.                                                              *)

(* It lags only between moving the branch and resetting to it, or between     *)
(* the two halves of a checkout.                                           *)
IndexHeld ==
  /\ man.state = "active" => ~stale
  /\ pc \in {"ckDeleteRef", "ckComplete", "crActivate"} => ~stale
  /\ pc \in Decided /\ cap.state = "active" => ~stale

(* Which capsules a manifest about to be written can be active for. *)
LEMMA BecomesActive ==
  ASSUME NEW m, NEW n, Evolves(m, n), n.state = "active"
  PROVE  m.state \in {"creating", "active", "checkpointing"}
BY DEF Evolves, Edges

(* Every step keeps the index with the branch at those points. *)
LEMMA IndexStep == IInv /\ IndexHeld /\ [Next]_vars => IndexHeld'
<1> SUFFICES ASSUME IInv, IndexHeld, [Next]_vars PROVE IndexHeld'
  OBVIOUS
<1>h. CopyHeld /\ StateHeld /\ CopyHeld' /\ StateHeld'
  BY NextIInv DEF IInv, Held
<1>a. pc' \in Decided /\ cap'.state = "active"
        => man'.state \in {"creating", "active", "checkpointing"}
  BY <1>h, BecomesActive DEF CopyHeld
<1> USE DEF IndexHeld, Goto, refVars, wtVars, targetVars, envVars, opVars
<1>f. CASE Fail
  BY <1>f DEF Fail, Decided
<1>1. CASE Call
  <2>1. /\ UNCHANGED <<man, stale>>
        /\ pc' \in {"crManifest", "crExamine", "ckSnapshot", "write", "clSnapshot1",
                    "inStart", "drJournal", "cuCheck", "ckFinish", "raExamine", "riDecide"}
    BY <1>1, CallFrame
  <2>2. pc' = "write" => man.state = "active"
    BY <1>1 DEF Call, CrBegin, CrReplay, CkBegin, EvidenceStep, EvRecordRun, EvClaim,
       ClBegin, InBegin, DrBegin, DrResume, RcBegin, Begin, RecoveryOf
  <2> QED
    BY <1>h, <2>1, <2>2 DEF Decided, StateHeld
<1>2. CASE CreationStep /\ ~Fail
  <2>1. CASE CrManifest
    BY <1>h, <2>1 DEF CrManifest, WriteAndGoto, Decided, StateHeld
  <2>2. CASE CrExamine
    BY <1>h, <2>2 DEF CrExamine, CopyHeld, Creating, CreationRoute, Decided
  <2>3. CASE CrAbandon
    BY <1>h, <1>2, <2>3 DEF CrAbandon, CopyHeld, Creating, Decided, IInv, TypeOK, Manifests
  <2>4. CASE CrBranch \/ CrRegister \/ CrLink \/ CrCheckout \/ CrReset
    BY <1>h, <1>2, <2>4 DEF CrBranch, CrRegister, CrLink, CrCheckout, CrReset, CopyHeld, Creating, Decided
  <2>5. CASE CrActivate
    BY <1>2, <2>5 DEF CrActivate, Decided
  <2> QED
    BY <1>2, <2>1, <2>2, <2>3, <2>4, <2>5 DEF CreationStep
<1>3. CASE CheckpointStep /\ ~Fail
  <2>1. CASE CkSnapshot \/ CkCreateRef \/ CkFinish \/ CkRecreateRef
    BY <1>h, <1>3, <2>1 DEF CkSnapshot, CkCreateRef, CkFinish, CkRecreateRef, ResumePoint, Decided, StateHeld
  <2>2. CASE CkJournal \/ FinalWrite
    BY <1>h, <1>3, <2>2 DEF CkJournal, FinalWrite, WriteAndGoto, WriteAndReturn, Decided, StateHeld
  <2>3. CASE CkAdvance
    BY <1>h, <1>3, <2>3 DEF CkAdvance, Decided, StateHeld
  <2>4. CASE CkReset \/ CkDeleteRef
    BY <1>h, <1>3, <2>4 DEF CkReset, CkDeleteRef, ResetMixed, Decided, StateHeld
  <2>5. CASE CkComplete
    BY <1>h, <1>3, <2>5 DEF CkComplete, Decided, StateHeld
  <2> QED
    BY <1>3, <2>1, <2>2, <2>3, <2>4, <2>5 DEF CheckpointStep
<1>4. CASE CloseStep /\ ~Fail
  BY <1>h, <1>4 DEF CloseStep, ClSnapshot1, ClHead1, ClClean1, ClSnapshot2, ClHead2,
     ClClean2, ClPatch, ClResult, Decided, StateHeld
<1>5. CASE IntegrationStep /\ ~Fail
  <2>1. UNCHANGED stale /\ pc' \notin {"ckDeleteRef", "ckComplete", "crActivate"}
    BY <1>5 DEF IntegrationStep, InStart, InPrepare, InAbort, InCreateRef, InJournal,
       InCheck, InMerge, InDone, RiDecide, RiDeleteRef, WriteAndGoto
  <2>2. man'.state \notin {"creating", "active", "checkpointing"}
    BY <1>h, <1>5 DEF IntegrationStep, InStart, InPrepare, InAbort, InCreateRef, InJournal,
       InCheck, InMerge, InDone, RiDecide, RiDeleteRef, WriteAndGoto, StateHeld
  <2> QED
    BY <1>a, <2>1, <2>2
<1>6. CASE CleanupStep /\ ~Fail
  <2>1. UNCHANGED stale /\ pc' \notin {"ckDeleteRef", "ckComplete", "crActivate"}
    BY <1>6 DEF CleanupStep, DrJournal, CuCheck, CuRemove, CuRemoving, CuUnregister,
       CuPrune, CuBranch, CuCheckpointRef, CuIntegrationRef, CleanupRoute, WriteAndGoto
  <2>2. man'.state = "dropping"
    BY <1>h, <1>6
    DEF CleanupStep, DrJournal, CuCheck, CuRemove, CuRemoving, CuUnregister, CuPrune,
        CuBranch, CuCheckpointRef, CuIntegrationRef, WriteAndGoto, StateHeld
  <2> QED
    BY <1>a, <2>1, <2>2
<1>7. CASE RecoveryStep /\ ~Fail
  BY <1>h, <1>7 DEF RecoveryStep, RaExamine, RaNothing, StateHeld, Decided
<1>8. CASE EvRun \/ EvLoseRun \/ Settle \/ UNCHANGED vars
  BY <1>8, IdleFrame
<1>9. CASE OutsideMove
  <2>1. stale' = stale \/ stale' = FALSE
    BY <1>9 DEF OutsideMove, AgentEdit, AgentCommit, AgentRewind, AgentDetach,
       WorkspaceMove, OutsidePrune, BranchDeleted, RefDeleted, UserCommit, UserRewind,
       UserSwitch, UserEdit, Tamper
  <2>2. UNCHANGED <<man, cap, pc>>
    BY <1>9, OutsideFrame DEF IInv, TypeOK
  <2> QED
    BY <2>1, <2>2
<1> QED
  BY <1>f, <1>1, <1>2, <1>3, <1>4, <1>5, <1>6, <1>7, <1>8, <1>9 DEF Next, Step, Crash

(* Between operations the index of an active workspace never lags behind its  *)
(* head, whatever crashed in the middle of a checkpoint before.             *)
THEOREM IndexCaughtUpHolds == Spec => []IndexCaughtUp
<1>1. Init => IndexHeld
  BY DEF Init, IndexHeld, Decided
<1>2. IndexHeld => IndexCaughtUp
  BY DEF IndexHeld, IndexCaughtUp
<1> QED
  BY <1>1, <1>2, IndexStep, Inductive, PTL DEF Spec

------------------------------------------------------------------------------
(* The branch.                                                             *)

(* A commit is among its ancestors, and so is all its parent has. *)
LEMMA Ancestry ==
  ASSUME NEW c \in Commit
  PROVE  /\ c \in Anc[c]
         /\ Parent[c] # None => /\ Parent[c] \in Commit
                               /\ Parent[c] \in Anc[c]
                               /\ Anc[Parent[c]] \subseteq Anc[c]
                               /\ c \notin Anc[Parent[c]]
<1>1. Anc[c] = {c} \cup (IF Parent[c] = None THEN {} ELSE Anc[Parent[c]])
  BY ObjectsAssumption
<1>2. Parent[c] # None => Parent[c] \in Commit
  BY ObjectsAssumption DEF MaybeCommit
<1>3. Parent[c] # None => Parent[c] \in Anc[Parent[c]]
  BY <1>2, ObjectsAssumption
<1> QED
  BY <1>1, <1>2, <1>3, HistoryAssumption

(* Both ends of an open checkpoint are commits. *)
LEMMA JournalEnds ==
  ASSUME IInv, man.state = "checkpointing"
  PROVE  man.journal.before \in Commit /\ man.journal.after \in Commit
BY DEF IInv, TypeOK, Held, ManifestReadable, Readable, CheckpointConsistent,
       Manifests, CheckpointJournal

(* Where Capsule itself moves the branch. *)
LEMMA BranchMoves ==
  ASSUME IInv, Step, branch' # branch
  PROVE  \/ CreationStep /\ man.state = "creating"
         \/ /\ pc = "ckAdvance" /\ man.state = "checkpointing"
            /\ branch = man.journal.before /\ branch' = man.journal.after
         \/ /\ pc = "ckReset" /\ man.state = "checkpointing"
            /\ branch' = man.journal.after
         \/ pc = "cuBranch" /\ branch' = None /\ man.state = "dropping"
<1> USE DEF refVars
<1>h. CopyHeld /\ StateHeld
  BY DEF IInv, Held
<1>1. CASE CreationStep
  BY <1>h, <1>1 DEF CopyHeld, Creating, CreationStep, CrManifest, CrExamine, CrAbandon,
     CrBranch, CrRegister, CrLink, CrCheckout, CrReset, CrActivate, Fail, WriteAndGoto
<1>2. CASE CheckpointStep
  <2>1. pc \in {"ckAdvance", "ckReset"} => cap = man /\ man.state = "checkpointing"
    BY <1>h DEF CopyHeld, StateHeld, Reading, PCs, Creating, Decided
  <2> QED
    BY <1>2, <2>1 DEF CheckpointStep, CkSnapshot, CkCreateRef, CkJournal, CkFinish,
       CkRecreateRef, CkAdvance, CkReset, ResetMixed, CkDeleteRef, CkComplete,
       FinalWrite, Fail, WriteAndGoto, WriteAndReturn
<1>3. CASE CloseStep
  BY <1>3 DEF CloseStep, ClSnapshot1, ClHead1, ClClean1, ClSnapshot2, ClHead2,
     ClClean2, ClPatch, ClResult, Fail
<1>4. CASE IntegrationStep
  BY <1>4 DEF IntegrationStep, InStart, InPrepare, InAbort, InCreateRef, InJournal,
     InCheck, InMerge, InDone, RiDecide, RiDeleteRef, Fail, WriteAndGoto
<1>5. CASE CleanupStep
  BY <1>h, <1>5 DEF StateHeld, CleanupStep, DrJournal, CuCheck, CuRemove, CuRemoving,
     CuUnregister, CuPrune, CuBranch, CuCheckpointRef, CuIntegrationRef, Fail, WriteAndGoto
<1>6. CASE RecoveryStep
  BY <1>6 DEF RecoveryStep, RaExamine, RaNothing, Fail
<1> QED
  BY <1>1, <1>2, <1>3, <1>4, <1>5, <1>6 DEF Step

(* What the two looks of finish_checkpoint have established when the branch is *)
(* about to move.                                                          *)
JournalHeld ==
  /\ pc \in {"ckAdvance", "ckRecreateRef", "ckReset"}
       => Parent[man.journal.after] = man.journal.before
  /\ pc = "ckReset" /\ stir = 0 => branch = man.journal.after

(* It keeps holding. *)
LEMMA JournalStep == IInv /\ JournalHeld /\ [Next]_vars => JournalHeld'
<1> SUFFICES ASSUME IInv, JournalHeld, [Next]_vars PROVE JournalHeld'
  OBVIOUS
<1> USE DEF JournalHeld, Goto, refVars, wtVars, targetVars, envVars, opVars
<1>h. CopyHeld /\ StateHeld
  BY DEF IInv, Held
<1>1. CASE Fail \/ Call
  BY <1>1, CallFrame DEF Fail
<1>2. CASE CheckpointStep /\ ~Fail
  <2>1. pc \in {"ckFinish", "ckRecreateRef", "ckAdvance"} => cap = man
    BY <1>h DEF CopyHeld, Reading, PCs, Creating, Decided
  <2>2. CASE CkFinish \/ CkRecreateRef \/ CkAdvance
    BY <1>2, <2>1, <2>2 DEF CkFinish, CkRecreateRef, CkAdvance, ResumePoint, JournalMatches
  <2>3. CASE CkSnapshot \/ CkCreateRef \/ CkJournal \/ CkReset \/ CkDeleteRef
             \/ CkComplete \/ FinalWrite
    BY <1>2, <2>3 DEF CkSnapshot, CkCreateRef, CkJournal, CkReset, CkDeleteRef,
       CkComplete, FinalWrite, WriteAndGoto, WriteAndReturn
  <2> QED
    BY <1>2, <2>2, <2>3 DEF CheckpointStep
<1>3. CASE (CreationStep \/ CloseStep) /\ ~Fail
  BY <1>3 DEF CreationStep, CrManifest, CrExamine, CreationRoute, CrAbandon, CrBranch,
     CrRegister, CrLink, CrCheckout, CrReset, CrActivate, WriteAndGoto, CloseStep,
     ClSnapshot1, ClHead1, ClClean1, ClSnapshot2, ClHead2, ClClean2, ClPatch, ClResult
<1>4. CASE (IntegrationStep \/ CleanupStep \/ RecoveryStep) /\ ~Fail
  BY <1>4 DEF IntegrationStep, InStart, InPrepare, InAbort, InCreateRef, InJournal,
     InCheck, InMerge, InDone, RiDecide, RiDeleteRef, WriteAndGoto, CleanupStep,
     DrJournal, CuCheck, CleanupRoute, CuRemove, CuRemoving, CuUnregister, CuPrune,
     CuBranch, CuCheckpointRef, CuIntegrationRef, RecoveryStep, RaExamine, RaNothing
<1>5. CASE EvRun \/ EvLoseRun \/ Settle \/ UNCHANGED vars
  BY <1>5, IdleFrame
<1>6. CASE OutsideMove
  BY <1>6, OutsideFrame DEF IInv, TypeOK
<1> QED
  BY <1>1, <1>2, <1>3, <1>4, <1>5, <1>6 DEF Next, Step, Crash

(* Capsule moves the branch forward only, whatever crashed in between: the    *)
(* compare-and-swap never leaves a commit of the agent behind, and no step *)
(* one that was made before the operation took the locks.                  *)
THEOREM BranchOnlyAdvancesHolds == Spec => BranchOnlyAdvances
<1>1. Init => JournalHeld
  BY DEF Init, JournalHeld
<1>2. IInv /\ JournalHeld /\ [Next]_vars
        => [ (/\ Ours /\ (stir = 0 \/ pc = "ckAdvance")
              /\ man.state \in {"active", "checkpointing"}
              /\ branch # None /\ branch' # branch)
             => branch' # None /\ branch \in Anc[branch'] ]_vars
  <2> SUFFICES ASSUME IInv, JournalHeld, [Next]_vars, Ours,
                      stir = 0 \/ pc = "ckAdvance",
                      man.state \in {"active", "checkpointing"}, branch' # branch
               PROVE  branch' # None /\ branch \in Anc[branch']
    OBVIOUS
  <2>1. Step
    <3>1. ~Call /\ ~(EvRun \/ EvLoseRun \/ Settle \/ UNCHANGED vars)
      BY CallFrame, IdleFrame DEF refVars
    <3>2. ~OutsideMove
      BY OutsideFrame DEF Ours, IInv, TypeOK
    <3> QED
      BY <3>1, <3>2 DEF Next, Crash, Fail, refVars
  <2>2. CASE /\ pc = "ckAdvance" /\ man.state = "checkpointing"
             /\ branch = man.journal.before /\ branch' = man.journal.after
    BY <2>2, JournalEnds, Ancestry, ObjectsAssumption DEF JournalHeld
  <2>3. CASE pc = "ckReset" /\ branch' = man.journal.after
    BY <2>3 DEF JournalHeld
  <2> QED
    BY <2>1, <2>2, <2>3, BranchMoves
<1> QED
  BY <1>1, <1>2, JournalStep, Inductive, PTL DEF Spec, BranchOnlyAdvances

------------------------------------------------------------------------------
(* The ref that keeps an unfinished checkpoint alive.                       *)

(* Who moves the branch from outside, and how: by a commit on it, by taking *)
(* one off it, or by deleting it.                                          *)
LEMMA OutsideBranch ==
  ASSUME TypeOK, OutsideMove, branch' # branch
  PROVE  \/ branch # None /\ branch' \in Commit /\ Parent[branch'] = branch
         \/ "rewind" \in AgentMoves
         \/ "prune" \in AgentMoves /\ branch' = None
BY DEF TypeOK, OutsideMove, Outside, AtWork, PatchCommits, AgentEdit, AgentCommit,
       AgentRewind, AgentDetach, WorkspaceMove, OutsidePrune, BranchDeleted, RefDeleted,
       UserCommit, UserRewind, UserSwitch, UserEdit, Tamper, refVars

(* The private refs are deleted by hand only where that is allowed for. *)
LEMMA OutsideRefs ==
  OutsideMove => UNCHANGED <<ckRef, inRef>> \/ "unprotect" \in AgentMoves
BY DEF OutsideMove, Outside, AgentEdit, AgentCommit, AgentRewind, AgentDetach,
       WorkspaceMove, OutsidePrune, BranchDeleted, RefDeleted, UserCommit, UserRewind,
       UserSwitch, UserEdit, Tamper, refVars

(* Where Capsule itself sets and deletes the checkpoint ref. *)
LEMMA CkRefMoves ==
  ASSUME IInv, Step, ckRef' # ckRef
  PROVE  \/ pc = "raExamine" /\ man.state = "active"
         \/ pc = "ckCreateRef" /\ man.state = "active"
         \/ /\ pc = "ckRecreateRef" /\ man.state = "checkpointing"
            /\ ckRef' = man.journal.after
         \/ pc = "ckDeleteRef" /\ man.state = "checkpointing"
         \/ pc = "cuCheckpointRef" /\ man.state = "dropping"
<1> USE DEF refVars
<1>h. CopyHeld /\ StateHeld
  BY DEF IInv, Held
<1>1. CASE CreationStep
  BY <1>1 DEF CreationStep, CrManifest, CrExamine, CrAbandon, CrBranch, CrRegister,
     CrLink, CrCheckout, CrReset, CrActivate, Fail, WriteAndGoto
<1>2. CASE CheckpointStep
  <2>1. pc = "ckRecreateRef" => cap = man
    BY <1>h DEF CopyHeld, Reading, PCs, Creating, Decided
  <2> QED
    BY <1>h, <1>2, <2>1 DEF StateHeld, CheckpointStep, CkSnapshot, CkCreateRef, CkJournal,
       CkFinish, CkRecreateRef, CkAdvance, CkReset, ResetMixed, CkDeleteRef, CkComplete,
       FinalWrite, Fail, WriteAndGoto, WriteAndReturn
<1>3. CASE CloseStep
  BY <1>3 DEF CloseStep, ClSnapshot1, ClHead1, ClClean1, ClSnapshot2, ClHead2,
     ClClean2, ClPatch, ClResult, Fail
<1>4. CASE IntegrationStep
  BY <1>4 DEF IntegrationStep, InStart, InPrepare, InAbort, InCreateRef, InJournal,
     InCheck, InMerge, InDone, RiDecide, RiDeleteRef, Fail, WriteAndGoto
<1>5. CASE CleanupStep
  BY <1>h, <1>5 DEF StateHeld, CleanupStep, DrJournal, CuCheck, CuRemove, CuRemoving,
     CuUnregister, CuPrune, CuBranch, CuCheckpointRef, CuIntegrationRef, Fail, WriteAndGoto
<1>6. CASE RecoveryStep
  BY <1>h, <1>6 DEF StateHeld, RecoveryStep, RaExamine, RaNothing, Fail
<1> QED
  BY <1>1, <1>2, <1>3, <1>4, <1>5, <1>6 DEF Step

(* Which steps lead where in finish_checkpoint, and what they leave alone.  *)
LEMMA FinishPath ==
  ASSUME IInv, Step
  PROVE  /\ pc' = "ckAdvance" =>
              /\ man' = man
              /\ \/ pc = "ckFinish" /\ ckRef = man.journal.after /\ ckRef' = ckRef
                 \/ pc = "ckRecreateRef" /\ ckRef' = man.journal.after
         /\ pc' = "ckReset" =>
              /\ man' = man
              /\ \/ pc = "ckFinish" /\ branch = man.journal.after /\ branch' = branch
                 \/ pc = "ckAdvance" /\ branch' = man.journal.after
         /\ pc' = "ckDeleteRef" =>
              /\ pc = "ckReset" /\ man' = man
              /\ branch' \in {man.journal.after, branch}
         /\ pc' = "ckJournal" =>
              pc = "ckCreateRef" /\ ckRef' = loc.next /\ cap'.journal.after = loc.next
<1> USE DEF Goto, refVars
<1>h. CopyHeld /\ StateHeld /\ cap \in Manifests
  BY DEF IInv, TypeOK, Held
<1>1. CASE Fail
  BY <1>1 DEF Fail
<1>2. CASE CheckpointStep /\ ~Fail
  <2>1. pc \in {"ckFinish", "ckRecreateRef", "ckAdvance", "ckReset"} => cap = man
    BY <1>h DEF CopyHeld, Reading, PCs, Creating, Decided
  <2>2. CASE CkFinish \/ CkRecreateRef \/ CkAdvance \/ CkReset
    BY <1>2, <2>1, <2>2 DEF CkFinish, CkRecreateRef, CkAdvance, CkReset, ResetMixed,
       ResumePoint
  <2>3. CASE CkCreateRef
    <3> DEFINE j == [before |-> loc.head, after |-> loc.next,
                     patch |-> CommitDiff(loc.head, loc.next)]
    <3>1. j.after = loc.next
      OBVIOUS
    <3>2. /\ pc = "ckCreateRef" /\ ckRef' = loc.next /\ pc' = "ckJournal"
          /\ cap' = [cap EXCEPT !.state = "checkpointing", !.journal = j]
      BY <1>2, <2>3 DEF CkCreateRef, Journaled
    <3> HIDE DEF j
    <3>3. cap'.journal = j
      BY <1>h, <3>2 DEF Manifests
    <3> QED
      BY <3>1, <3>2, <3>3
  <2>4. CASE CkSnapshot \/ CkJournal \/ CkDeleteRef \/ CkComplete \/ FinalWrite
    BY <1>2, <2>4 DEF CkSnapshot, CkJournal, CkDeleteRef, CkComplete, FinalWrite,
       WriteAndGoto, WriteAndReturn
  <2> QED
    BY <1>2, <2>2, <2>3, <2>4 DEF CheckpointStep
<1>3. CASE (CreationStep \/ CloseStep) /\ ~Fail
  BY <1>3 DEF CreationStep, CrManifest, CrExamine, CreationRoute, CrAbandon, CrBranch,
     CrRegister, CrLink, CrCheckout, CrReset, CrActivate, WriteAndGoto, CloseStep,
     ClSnapshot1, ClHead1, ClClean1, ClSnapshot2, ClHead2, ClClean2, ClPatch, ClResult
<1>4. CASE (IntegrationStep \/ CleanupStep \/ RecoveryStep) /\ ~Fail
  BY <1>4 DEF IntegrationStep, InStart, InPrepare, InAbort, InCreateRef, InJournal,
     InCheck, InMerge, InDone, RiDecide, RiDeleteRef, WriteAndGoto, CleanupStep,
     DrJournal, CuCheck, CleanupRoute, CuRemove, CuRemoving, CuUnregister, CuPrune,
     CuBranch, CuCheckpointRef, CuIntegrationRef, RecoveryStep, RaExamine, RaNothing
<1> QED
  BY <1>1, <1>2, <1>3, <1>4 DEF Step

(* A change of the workspace, a ref, an artifact or the target is made by a   *)
(* step of the operation under the locks or from outside.                  *)
LEMMA Movers ==
  ASSUME IInv, [Next]_vars, <<refVars, wtVars, disk, targetVars>>' # <<refVars, wtVars, disk, targetVars>>
  PROVE  Step \/ (OutsideMove /\ ~Ours)
<1>1. ~Call /\ ~(EvRun \/ EvLoseRun \/ Settle \/ UNCHANGED vars)
  BY CallFrame, IdleFrame DEF refVars
<1>2. ~Crash
  BY DEF Crash, Fail
<1>3. OutsideMove => ~Ours
  BY OutsideFrame DEF Ours, IInv, TypeOK
<1> QED
  BY <1>1, <1>2, <1>3 DEF Next

(* The ref is there when the branch is about to move, and the branch has not  *)
(* lost the commit when the index is about to follow it.                   *)
ProtectedHeld ==
  /\ pc = "ckAdvance" => ckRef = man.journal.after
  /\ pc = "ckReset" => branch = None \/ man.journal.after \in Anc[branch]

(* Without a rewind of the branch or a deletion of the ref it keeps holding. *)
LEMMA ProtectedStep ==
  ASSUME AgentMoves \cap {"rewind", "unprotect"} = {}
  PROVE  IInv /\ ProtectedHeld /\ [Next]_vars => ProtectedHeld'
<1> SUFFICES ASSUME IInv, ProtectedHeld, [Next]_vars PROVE ProtectedHeld'
  OBVIOUS
<1> USE DEF ProtectedHeld
<1>h. TypeOK /\ StateHeld
  BY DEF IInv, Held
<1>1. CASE Step
  <2>1. pc' = "ckReset" => man.state = "checkpointing"
    BY <1>h, <1>1, FinishPath DEF StateHeld
  <2> QED
    BY <1>1, <2>1, FinishPath, JournalEnds, Ancestry
<1>2. CASE OutsideMove
  <2>1. UNCHANGED <<man, pc, ckRef>>
    BY <1>h, <1>2, OutsideFrame, OutsideRefs DEF TypeOK
  <2>2. branch' = branch \/ branch' = None
        \/ (branch' \in Commit /\ Parent[branch'] = branch /\ branch # None)
    BY <1>h, <1>2, OutsideBranch
  <2> QED
    BY <2>1, <2>2, Ancestry
<1>3. CASE Call \/ Crash \/ EvRun \/ EvLoseRun \/ Settle \/ UNCHANGED vars
  BY <1>3, CallFrame, IdleFrame DEF Crash, Fail, opVars, refVars
<1> QED
  BY <1>1, <1>2, <1>3 DEF Next

(* While nobody rewinds the branch or deletes the private refs: Capsule moves *)
(* the branch of a capsule only to the commit the manifest on disk         *)
(* journals, and while the pending ref keeps that commit alive.  (A ref      *)
(* deleted by hand between two steps is found by the next recovery, not by *)
(* the operation that is moving the branch.)                               *)
THEOREM CheckpointJournaledFirstHolds ==
  ASSUME AgentMoves \cap {"rewind", "unprotect"} = {}
  PROVE  Spec => CheckpointJournaledFirst
<1>1. Init => ProtectedHeld
  BY DEF Init, ProtectedHeld
<1>2. IInv /\ ProtectedHeld /\ JournalHeld /\ [Next]_vars
        => [ (/\ Ours /\ branch # branch' /\ None \notin {branch, branch'}
              /\ man.state # "creating")
             => /\ man.state = "checkpointing"
                /\ man.journal.after = branch'
                /\ (branch = man.journal.before => ckRef = branch') ]_vars
  <2> SUFFICES ASSUME IInv, ProtectedHeld, JournalHeld, [Next]_vars, Ours,
                      branch # branch', None \notin {branch, branch'},
                      man.state # "creating"
               PROVE  /\ man.state = "checkpointing"
                      /\ man.journal.after = branch'
                      /\ (branch = man.journal.before => ckRef = branch')
    OBVIOUS
  <2>1. Step
    BY Movers DEF refVars
  <2>2. CASE /\ pc = "ckAdvance" /\ man.state = "checkpointing"
             /\ branch = man.journal.before /\ branch' = man.journal.after
    BY <2>2 DEF ProtectedHeld
  <2>3. CASE pc = "ckReset" /\ man.state = "checkpointing" /\ branch' = man.journal.after
    BY <2>3, JournalEnds, Ancestry, ObjectsAssumption DEF ProtectedHeld, JournalHeld
  <2> QED
    BY <2>1, <2>2, <2>3, BranchMoves
<1>3. Init => JournalHeld
  BY DEF Init, JournalHeld
<1> QED
  BY <1>1, <1>2, <1>3, JournalStep, ProtectedStep, Inductive, PTL
  DEF Spec, CheckpointJournaledFirst

(* The journaled commit can be reached from the ref or from the branch, and  *)
(* from the branch alone when the ref is about to go.                      *)
ReachableHeld ==
  /\ CheckpointProtected
  /\ pc \in {"ckReset", "ckDeleteRef"} =>
       branch # None /\ man.journal.after \in Anc[branch]
  /\ pc = "ckJournal" => ckRef = cap.journal.after

(* Only a rewind, a deleted branch or a deleted ref could end that. *)
LEMMA ReachableStep ==
  ASSUME AgentMoves \cap {"rewind", "unprotect", "prune"} = {}
  PROVE  IInv /\ ReachableHeld /\ [Next]_vars => ReachableHeld'
<1> SUFFICES ASSUME IInv, ReachableHeld, [Next]_vars PROVE ReachableHeld'
  OBVIOUS
<1> USE DEF ReachableHeld, CheckpointProtected
<1>h. TypeOK /\ StateHeld /\ CopyHeld
  BY DEF IInv, Held
<1>w. man'.state = "checkpointing" => man' = man \/ (pc = "ckJournal" /\ man' = cap)
  BY <1>h, OnlyWrites DEF Writing, Decided, StateHeld
<1>1. CASE Step
  <2>1. CASE pc = "ckJournal"
    <3>1. man.state = "active"
      BY <1>h, <2>1 DEF StateHeld
    <3>2. UNCHANGED <<branch, ckRef>>
      BY <1>1, <2>1, <3>1, BranchMoves, CkRefMoves
    <3>3. pc' \notin {"ckReset", "ckDeleteRef", "ckJournal"}
      BY <1>1, <2>1, FinishPath
    <3> QED
      BY <1>w, <2>1, <3>1, <3>2, <3>3
  <2>2. CASE pc # "ckJournal"
    <3>1. man'.state = "checkpointing" => CheckpointProtected'
      <4> SUFFICES ASSUME man'.state = "checkpointing" PROVE CheckpointProtected'
        OBVIOUS
      <4>1. man' = man
        BY <1>w, <2>2
      <4>2. ckRef' = ckRef \/ ckRef' = man.journal.after \/ pc = "ckDeleteRef"
        BY <1>1, <4>1, CkRefMoves
      <4>3. \/ branch' = branch
            \/ branch' = man.journal.after
        BY <1>1, <4>1, BranchMoves
      <4>4. man.journal.after \in Anc[man.journal.after] /\ man.journal.after # None
        BY <4>1, JournalEnds, Ancestry, ObjectsAssumption
      <4> QED
        BY <4>1, <4>2, <4>3, <4>4
    <3>2. pc' \in {"ckReset", "ckDeleteRef"} =>
            man' = man /\ branch' \in {man.journal.after, branch}
            /\ man.state = "checkpointing"
            /\ (branch' = man.journal.after \/ pc = "ckReset")
      BY <1>h, <1>1, FinishPath DEF StateHeld
    <3>3. pc' \in {"ckReset", "ckDeleteRef"} =>
            branch' # None /\ man'.journal.after \in Anc[branch']
      BY <3>2, JournalEnds, Ancestry, ObjectsAssumption
    <3> QED
      BY <1>1, <3>1, <3>3, FinishPath
  <2> QED
    BY <2>1, <2>2
<1>2. CASE OutsideMove
  <2>1. UNCHANGED <<man, cap, pc, ckRef>>
    BY <1>h, <1>2, OutsideFrame, OutsideRefs DEF TypeOK
  <2>2. branch' = branch
        \/ (branch' \in Commit /\ Parent[branch'] = branch /\ branch # None)
    BY <1>h, <1>2, OutsideBranch
  <2> QED
    BY <2>1, <2>2, Ancestry, ObjectsAssumption
<1>3. CASE Call \/ Crash \/ EvRun \/ EvLoseRun \/ Settle \/ UNCHANGED vars
  BY <1>3, CallFrame, IdleFrame DEF Crash, Fail, opVars, refVars
<1> QED
  BY <1>1, <1>2, <1>3 DEF Next

(* While nobody rewinds or deletes the branch or the private refs, the commit *)
(* of an open checkpoint is reachable at every moment, whatever crashed:   *)
(* `git gc` cannot remove it before recovery needs it.                     *)
THEOREM CheckpointProtectedHolds ==
  ASSUME AgentMoves \cap {"rewind", "unprotect", "prune"} = {}
  PROVE  Spec => []CheckpointProtected
<1>1. Init => ReachableHeld
  BY DEF Init, ReachableHeld, CheckpointProtected, Unborn
<1>2. ReachableHeld => CheckpointProtected
  BY DEF ReachableHeld
<1> QED
  BY <1>1, <1>2, ReachableStep, Inductive, PTL DEF Spec

------------------------------------------------------------------------------
(* Cleanup: what has gone by the time the next thing goes.                  *)

(* Nothing is left of the capsule in Git. *)
Nothing == branch = None /\ ckRef = None /\ inRef = None /\ ~reg /\ ~GitHere

(* Each step of finish_cleanup leaves its part gone, for good: with the       *)
(* worktree's record goes the only way back to the worktree, and with the  *)
(* worktree whoever could make a branch.                                   *)
CleanupHeld ==
  /\ DroppedLeavesNothing
  /\ pc = "cuUnregister" => path \in {"absent", "foreign"}
  /\ pc \in {"cuBranch", "cuCheckpointRef", "cuIntegrationRef"} => ~reg /\ ~GitHere
  /\ pc \in {"cuCheckpointRef", "cuIntegrationRef"} => branch = None
  /\ pc = "cuIntegrationRef" => ckRef = None
  /\ pc = "write" /\ cap.state = "dropped" => Nothing

(* No operation is in progress on a dropped capsule, and none starts. *)
LEMMA DroppedRests ==
  ASSUME IInv, man.state = "dropped"
  PROVE  pc = "idle" /\ ~Call
<1>1. pc \notin Decided
  BY DEF IInv, Held, CopyHeld, Evolves, Edges
<1>2. pc \notin Creating
  BY DEF IInv, Held, CopyHeld
<1>3. pc = "idle"
  BY <1>1, <1>2 DEF IInv, TypeOK, PCs, Held, StateHeld, Decided, Creating
<1>4. ~Call
  BY DEF Call, CrBegin, CrReplay, CkBegin, EvidenceStep, EvRecordRun, EvClaim, ClBegin,
     InBegin, DrBegin, DrResume, RcBegin, RecoveryOf, Unforced
<1> QED
  BY <1>3, <1>4

(* Nobody outside brings any of it back once it is gone. *)
LEMMA OutsideCleanup ==
  ASSUME TypeOK, OutsideMove
  PROVE  /\ branch = None => branch' = None
         /\ ckRef = None => ckRef' = None
         /\ inRef = None => inRef' = None
         /\ ~reg => ~reg' /\ (~GitHere => ~GitHere')
         /\ path \in {"absent", "foreign"} => path' \in {"absent", "foreign"}
BY DEF TypeOK, OutsideMove, Outside, AtWork, GitHere, Missing, AgentEdit, AgentCommit,
       AgentRewind, AgentDetach, WorkspaceMove, OutsidePrune, BranchDeleted, RefDeleted,
       UserCommit, UserRewind, UserSwitch, UserEdit, Tamper, refVars, wtVars

(* The way through finish_cleanup. *)
LEMMA CleanupPath ==
  ASSUME IInv, CleanupHeld, Step
  PROVE  /\ pc' = "cuUnregister" => path' = "absent"
         /\ pc' \in {"cuBranch", "cuCheckpointRef", "cuIntegrationRef"} => ~reg' /\ ~GitHere'
         /\ pc' \in {"cuCheckpointRef", "cuIntegrationRef"} => branch' = None
         /\ pc' = "cuIntegrationRef" => ckRef' = None
         /\ pc' = "write" /\ cap'.state = "dropped" => Nothing'
<1> USE DEF CleanupHeld, Goto, refVars, wtVars, GitHere, Missing
<1>h. CopyHeld /\ StateHeld /\ CopyHeld' /\ StateHeld'
  BY NextIInv DEF IInv, Held, Next
<1>w. pc' = "write" /\ cap'.state = "dropped" => man'.state = "dropping"
  BY <1>h DEF CopyHeld, Decided, Evolves, Edges
<1>1. CASE Fail
  BY <1>1 DEF Fail
<1>2. CASE CleanupStep /\ ~Fail
  <2>1. CASE CuCheck
    BY <1>2, <2>1 DEF CuCheck, CleanupRoute
  <2>2. CASE CuRemoving \/ CuUnregister \/ CuPrune
    BY <1>2, <2>2 DEF CuRemoving, CuUnregister, CuPrune
  <2>3. CASE CuBranch \/ CuCheckpointRef \/ CuIntegrationRef
    <3>1. CASE CuBranch BY <1>2, <2>3, <3>1 DEF CuBranch
    <3>2. CASE CuCheckpointRef BY <1>2, <3>2 DEF CuCheckpointRef
    <3>3. CASE CuIntegrationRef BY <3>3 DEF CuIntegrationRef, Nothing
    <3> QED BY <2>3, <3>1, <3>2, <3>3
  <2>4. CASE DrJournal \/ CuRemove
    BY <1>2, <2>4 DEF DrJournal, CuRemove, WriteAndGoto
  <2> QED
    BY <1>2, <2>1, <2>2, <2>3, <2>4 DEF CleanupStep
<1>3. CASE CreationStep /\ ~Fail
  <2>1. man'.state # "dropping"
    BY <1>h, <1>3 DEF CopyHeld, StateHeld, Creating, CreationStep, CrManifest, CrExamine,
       CrAbandon, CrBranch, CrRegister, CrLink, CrCheckout, CrReset, CrActivate, WriteAndGoto
  <2> QED
    BY <1>w, <1>3, <2>1 DEF CreationStep, CrManifest, CrExamine, CreationRoute, CrAbandon,
       CrBranch, CrRegister, CrLink, CrCheckout, CrReset, CrActivate, WriteAndGoto
<1>4. CASE CheckpointStep /\ ~Fail
  <2>1. pc' = "write" => man'.state # "dropping"
    BY <1>h, <1>4 DEF StateHeld, CheckpointStep, CkSnapshot, CkCreateRef, CkJournal, CkFinish,
       ResumePoint, CkRecreateRef, CkAdvance, CkReset, CkDeleteRef, CkComplete, FinalWrite,
       WriteAndGoto, WriteAndReturn
  <2> QED
    BY <1>w, <1>4, <2>1 DEF CheckpointStep, CkSnapshot, CkCreateRef, CkJournal, CkFinish,
       ResumePoint, CkRecreateRef, CkAdvance, CkReset, CkDeleteRef, CkComplete, FinalWrite,
       WriteAndGoto, WriteAndReturn
<1>5. CASE (CloseStep \/ RecoveryStep) /\ ~Fail
  <2>1. man'.state # "dropping"
    BY <1>h, <1>5 DEF StateHeld, CloseStep, ClSnapshot1, ClHead1, ClClean1, ClSnapshot2,
       ClHead2, ClClean2, ClPatch, ClResult, RecoveryStep, RaExamine, RaNothing
  <2> QED
    BY <1>w, <1>5, <2>1 DEF CloseStep, ClSnapshot1, ClHead1, ClClean1, ClSnapshot2,
       ClHead2, ClClean2, ClPatch, ClResult, RecoveryStep, RaExamine, RaNothing
<1>6. CASE IntegrationStep /\ ~Fail
  <2>1. man'.state # "dropping"
    BY <1>h, <1>6 DEF StateHeld, IntegrationStep, InStart, InPrepare, InAbort, InCreateRef,
       InJournal, InCheck, InMerge, InDone, RiDecide, RiDeleteRef, WriteAndGoto
  <2> QED
    BY <1>w, <1>6, <2>1 DEF IntegrationStep, InStart, InPrepare, InAbort, InCreateRef,
       InJournal, InCheck, InMerge, InDone, RiDecide, RiDeleteRef, WriteAndGoto
<1> QED
  BY <1>1, <1>2, <1>3, <1>4, <1>5, <1>6 DEF Step

(* Every step keeps what is gone gone. *)
LEMMA CleanupHolds == IInv /\ CleanupHeld /\ [Next]_vars => CleanupHeld'
<1> SUFFICES ASSUME IInv, CleanupHeld, [Next]_vars PROVE CleanupHeld'
  OBVIOUS
<1>h. TypeOK /\ StateHeld /\ CopyHeld
  BY DEF IInv, Held
<1>1. CASE Step
  <2>1. man.state # "dropped"
    BY <1>1, DroppedRests, StepFrame
  <2>2. man'.state = "dropped" => pc = "write" /\ man' = cap
    BY <1>h, <2>1, OnlyWrites DEF Writing, Decided, StateHeld
  <2>3. pc = "write" => UNCHANGED <<refVars, wtVars>>
    BY <1>1, StepFrame
  <2>4. DroppedLeavesNothing'
    BY <2>2, <2>3 DEF CleanupHeld, DroppedLeavesNothing, Nothing, GitHere, refVars, wtVars
  <2> QED
    BY <1>1, <2>4, CleanupPath DEF CleanupHeld
<1>2. CASE OutsideMove
  BY <1>h, <1>2, OutsideFrame, OutsideCleanup
  DEF TypeOK, CleanupHeld, DroppedLeavesNothing, Nothing
<1>3. CASE Call
  <2>1. pc' = "write" => cap'.state = "active"
    BY <1>h, <1>3 DEF CopyHeld, Reading, PCs, Creating, Decided, TypeOK, Manifests, Recorded,
       Begin, Idle, Call, CrBegin, CrReplay, CkBegin, EvidenceStep, EvRecordRun, EvClaim,
       ClBegin, InBegin, DrBegin, DrResume, RcBegin, RecoveryOf
  <2> QED
    BY <1>3, <2>1, CallFrame
    DEF CleanupHeld, DroppedLeavesNothing, Nothing, GitHere, refVars, wtVars
<1>4. CASE Crash \/ EvRun \/ EvLoseRun \/ Settle \/ UNCHANGED vars
  BY <1>4, IdleFrame DEF Crash, Fail, opVars, refVars, wtVars, CleanupHeld,
     DroppedLeavesNothing, Nothing, GitHere
<1> QED
  BY <1>1, <1>2, <1>3, <1>4 DEF Next

(* A capsule that says it is dropped has left nothing in Git, neither branch  *)
(* nor private ref nor worktree nor its record: however many crashes it    *)
(* took, and whatever happened around the workspace meanwhile.             *)
THEOREM DroppedLeavesNothingHolds == Spec => []DroppedLeavesNothing
<1>1. Init => CleanupHeld
  BY DEF Init, CleanupHeld, DroppedLeavesNothing, Unborn
<1>2. CleanupHeld => DroppedLeavesNothing
  BY DEF CleanupHeld
<1> QED
  BY <1>1, <1>2, CleanupHolds, Inductive, PTL DEF Spec

------------------------------------------------------------------------------
(* Where Capsule itself changes what is at workspace_path and in it.         *)
LEMMA WorktreeMoves ==
  ASSUME Step
  PROVE  /\ path' # path => \/ CreationStep /\ ~GitHere
                           \/ pc \in {"cuRemove", "cuRemoving"}
         /\ tree' # tree => CreationStep
<1> USE DEF wtVars, GitHere
<1>1. CASE CreationStep
  BY <1>1 DEF CreationStep, CrManifest, CrExamine, CrAbandon, CrBranch, CrRegister,
     Missing, CrLink, CrCheckout, CrReset, CrActivate, Fail, WriteAndGoto
<1>2. CASE CheckpointStep
  BY <1>2 DEF CheckpointStep, CkSnapshot, CkCreateRef, CkJournal, CkFinish,
     CkRecreateRef, CkAdvance, CkReset, ResetMixed, CkDeleteRef, CkComplete, FinalWrite,
     Fail, WriteAndGoto, WriteAndReturn
<1>3. CASE CloseStep
  BY <1>3 DEF CloseStep, ClSnapshot1, ClHead1, ClClean1, ClSnapshot2, ClHead2,
     ClClean2, ClPatch, ClResult, Fail
<1>4. CASE IntegrationStep
  BY <1>4 DEF IntegrationStep, InStart, InPrepare, InAbort, InCreateRef, InJournal,
     InCheck, InMerge, InDone, RiDecide, RiDeleteRef, Fail, WriteAndGoto
<1>5. CASE CleanupStep
  BY <1>5 DEF CleanupStep, DrJournal, CuCheck, CuRemove, CuRemoving, CuUnregister,
     CuPrune, CuBranch, CuCheckpointRef, CuIntegrationRef, Fail, WriteAndGoto
<1>6. CASE RecoveryStep
  BY <1>6 DEF RecoveryStep, RaExamine, RaNothing, Fail
<1> QED
  BY <1>1, <1>2, <1>3, <1>4, <1>5, <1>6 DEF Step

(* What an operation relies on between its look at the workspace and the Git  *)
(* command that follows, as long as nobody interferes under it.            *)
QuietHeld ==
  stir = 0 =>
    /\ pc \in {"crRegister", "crLink", "crCheckout", "crReset", "crActivate"}
         => branch = Base
    /\ pc \in {"crCheckout", "crReset", "crActivate"} => GitHere
    /\ pc = "crCheckout" => tree = None \/ Clean
    /\ pc = "crActivate" => Clean
    /\ pc = "write" /\ man.state = "creating" /\ cap.state = "active"
         => GitHere /\ branch = Base /\ Clean
    /\ pc = "cuRemove" => RemovalProven(man)
    /\ pc = "cuRemoving" => ~GitHere
    /\ pc \in {"cuUnregister", "cuPrune", "cuBranch", "cuCheckpointRef", "cuIntegrationRef"}
         => Missing
    /\ pc = "write" /\ cap.state = "dropped" => Missing

(* A creation finds or makes a worktree at the base, and then brings it there *)
(* in full.                                                                *)
LEMMA QuietCreation == IInv /\ QuietHeld /\ CreationStep /\ ~Fail => QuietHeld'
<1> SUFFICES ASSUME IInv, QuietHeld, CreationStep, ~Fail, stir = 0 PROVE QuietHeld'
  BY StepFrame DEF QuietHeld, Step, envVars
<1> USE DEF QuietHeld, Goto, refVars, wtVars, envVars, GitHere, Clean
<1>c. cap \in Manifests
  BY DEF IInv, TypeOK
<1>1. CASE CrExamine
  BY <1>1 DEF CrExamine, CreationRoute, Adoptable, Owned, Unchecked
<1>2. CASE CrBranch \/ CrRegister
  BY <1>2 DEF CrBranch, CrRegister
<1>3. CASE CrLink \/ CrCheckout
  BY <1>3 DEF CrLink, CrCheckout
<1>4. CASE CrReset
  BY <1>4 DEF CrReset
<1>5. CASE CrActivate
  <2>1. cap'.state # "dropped"
    BY <1>c, <1>5 DEF CrActivate, LearnGitDir, Manifests
  <2> QED
    BY <1>5, <2>1 DEF CrActivate
<1>6. CASE CrAbandon
  <2>1. cap'.state \notin {"active", "dropped"}
    BY <1>c, <1>6 DEF CrAbandon, Manifests
  <2> QED
    BY <1>6, <2>1 DEF CrAbandon
<1>7. CASE CrManifest
  BY <1>7 DEF CrManifest, WriteAndGoto
<1> QED
  BY <1>1, <1>2, <1>3, <1>4, <1>5, <1>6, <1>7 DEF CreationStep

(* finish_cleanup removes what it has proven to be the capsule's, or finds it *)
(* missing.                                                                *)
LEMMA QuietCleanup == IInv /\ QuietHeld /\ CleanupStep /\ ~Fail => QuietHeld'
<1> SUFFICES ASSUME IInv, QuietHeld, CleanupStep, ~Fail, stir = 0 PROVE QuietHeld'
  BY StepFrame DEF QuietHeld, Step, envVars
<1> USE DEF QuietHeld, Goto, refVars, wtVars, envVars, GitHere, Missing
<1>c. pc = "cuCheck" => cap = man
  BY DEF IInv, Held, CopyHeld, Reading, PCs, Creating, Decided
<1>s. pc = "cuIntegrationRef" => man.state = "dropping"
  BY DEF IInv, Held, StateHeld
<1>1. CASE CuCheck
  <2>1. pc' = "cuRemove" => RemovalProven(man)
    BY <1>c, <1>1 DEF CuCheck, CleanupRoute
  <2>2. RemovalProven(man) => RemovalProven(man)'
    BY <1>1 DEF CuCheck, RemovalProven, Owned, RegisteredRecord, EnsureSealed,
       SealedArtifacts, Snapshot
  <2> QED
    BY <1>1, <2>1, <2>2 DEF CuCheck, CleanupRoute
<1>2. CASE CuRemove \/ CuRemoving
  BY <1>2 DEF CuRemove, CuRemoving
<1>3. CASE CuUnregister \/ CuPrune
  BY <1>3 DEF CuUnregister, CuPrune
<1>4. CASE CuBranch \/ CuCheckpointRef
  BY <1>4 DEF CuBranch, CuCheckpointRef
<1>5. CASE CuIntegrationRef
  BY <1>s, <1>5 DEF CuIntegrationRef
<1>6. CASE DrJournal
  BY <1>6 DEF DrJournal, WriteAndGoto
<1> QED
  BY <1>1, <1>2, <1>3, <1>4, <1>5, <1>6 DEF CleanupStep

(* The other operations neither create nor remove a workspace. *)
LEMMA QuietElsewhere ==
  ASSUME IInv, ~Fail, CheckpointStep \/ CloseStep \/ IntegrationStep \/ RecoveryStep
  PROVE  /\ pc' \notin {"crRegister", "crLink", "crCheckout", "crReset", "crActivate",
                        "cuRemove", "cuRemoving", "cuUnregister", "cuPrune", "cuBranch",
                        "cuCheckpointRef", "cuIntegrationRef"}
         /\ pc' = "write" => man'.state \notin {"creating", "dropping"}
<1> USE DEF Goto
<1>h. StateHeld
  BY DEF IInv, Held
<1>1. CASE CheckpointStep
  BY <1>h, <1>1 DEF StateHeld, CheckpointStep, CkSnapshot, CkCreateRef, CkJournal, CkFinish,
     ResumePoint, CkRecreateRef, CkAdvance, CkReset, CkDeleteRef, CkComplete, FinalWrite,
     WriteAndGoto, WriteAndReturn
<1>2. CASE CloseStep \/ RecoveryStep
  BY <1>h, <1>2 DEF StateHeld, CloseStep, ClSnapshot1, ClHead1, ClClean1, ClSnapshot2,
     ClHead2, ClClean2, ClPatch, ClResult, RecoveryStep, RaExamine, RaNothing
<1>3. CASE IntegrationStep
  BY <1>h, <1>3 DEF StateHeld, IntegrationStep, InStart, InPrepare, InAbort, InCreateRef,
     InJournal, InCheck, InMerge, InDone, RiDecide, RiDeleteRef, WriteAndGoto
<1> QED
  BY <1>1, <1>2, <1>3

(* Every step keeps that, or is an interference. *)
LEMMA QuietStep == IInv /\ QuietHeld /\ [Next]_vars => QuietHeld'
<1> SUFFICES ASSUME IInv, QuietHeld, [Next]_vars PROVE QuietHeld'
  OBVIOUS
<1>h. CopyHeld' /\ StateHeld /\ TypeOK
  BY NextIInv DEF IInv, Held
<1>w. pc' = "write" /\ cap'.state = "dropped" => man'.state = "dropping"
  BY <1>h DEF CopyHeld, Decided, Evolves, Edges
<1>1. CASE Fail
  BY <1>1 DEF Fail, QuietHeld
<1>2. CASE (CreationStep \/ CleanupStep) /\ ~Fail
  BY <1>2, QuietCreation, QuietCleanup
<1>3. CASE (CheckpointStep \/ CloseStep \/ IntegrationStep \/ RecoveryStep) /\ ~Fail
  BY <1>w, <1>3, QuietElsewhere DEF QuietHeld
<1>4. CASE Call
  <2>1. pc' = "write" => man'.state = "active"
    BY <1>4 DEF Call, CrBegin, CrReplay, CkBegin, EvidenceStep, EvRecordRun, EvClaim,
       ClBegin, InBegin, DrBegin, DrResume, RcBegin, Begin, RecoveryOf
  <2> QED
    BY <1>w, <1>4, <2>1, CallFrame DEF QuietHeld
<1>5. CASE EvRun \/ EvLoseRun \/ Settle \/ UNCHANGED vars
  BY <1>5, IdleFrame DEF QuietHeld, opVars, refVars, wtVars, GitHere, Missing, Clean,
     RemovalProven, Owned, RegisteredRecord, EnsureSealed, SealedArtifacts, Snapshot
<1>6. CASE OutsideMove
  BY <1>h, <1>6, OutsideFrame DEF QuietHeld, TypeOK
<1> QED
  BY <1>1, <1>2, <1>3, <1>4, <1>5, <1>6 DEF Next, Step, Crash

(* It holds before anything has happened. *)
LEMMA InitQuiet == Init => QuietHeld
BY DEF Init, QuietHeld, Unborn

------------------------------------------------------------------------------
(* A capsule becomes active only with a clean worktree at its pinned base,    *)
(* whichever crashed attempt the worktree came from.                       *)
THEOREM BornAtBaseHolds == Spec => BornAtBase
<1>1. IInv /\ QuietHeld /\ [Next]_vars
        => [ (stir = 0 /\ man.state = "creating" /\ man'.state = "active")
             => GitHere /\ branch = Base /\ Clean ]_vars
  BY OnlyWrites DEF Writing, IInv, Held, QuietHeld, StateHeld, Decided
<1> QED
  BY <1>1, InitQuiet, QuietStep, Inductive, PTL DEF Spec, BornAtBase

(* Whoever resumes a creation overwrites a worktree only where there is       *)
(* nothing but the base, even if somebody worked there before the manifest *)
(* said active.                                                            *)
THEOREM ResumedCreationKeepsWorkHolds == Spec => ResumedCreationKeepsWork
<1>1. IInv /\ QuietHeld /\ [Next]_vars
        => [ (/\ Ours /\ stir = 0 /\ GitHere
              /\ man.state = "creating" /\ man'.state = "creating"
              /\ None \notin {tree, branch} /\ <<tree, branch>>' # <<tree, branch>>
              /\ pc # "crReset")
             => tree = TreeOf[Base] /\ branch = Base ]_vars
  <2> SUFFICES ASSUME IInv, QuietHeld, [Next]_vars, Ours, stir = 0, GitHere,
                      man.state = "creating",
                      None \notin {tree, branch}, <<tree, branch>>' # <<tree, branch>>,
                      pc # "crReset"
               PROVE  tree = TreeOf[Base] /\ branch = Base
    OBVIOUS
  <2>1. Step
    BY Movers DEF refVars, wtVars
  <2>2. CASE CreationStep
    BY <2>2 DEF QuietHeld, Clean, GitHere, Missing, Vacant, refVars, wtVars, CreationStep,
       CrManifest, CrExamine, CrAbandon, CrBranch, CrRegister, CrLink, CrCheckout, CrReset,
       CrActivate, Fail, WriteAndGoto
  <2>3. CASE ~CreationStep
    <3>1. tree' = tree
      BY <2>1, <2>3, WorktreeMoves
    <3> QED
      BY <2>1, <2>3, <3>1, BranchMoves
  <2> QED
    BY <2>2, <2>3
<1> QED
  BY <1>1, InitQuiet, QuietStep, Inductive, PTL DEF Spec, ResumedCreationKeepsWork

(* An unforced drop of a sealed capsule removes the worktree only while it    *)
(* still is what was sealed, also when a crash and later edits come between *)
(* the decision and the removal.                                           *)
THEOREM UnsealedWorkKeptHolds == Spec => UnsealedWorkKept
<1>1. IInv /\ QuietHeld /\ [Next]_vars
        => [ (/\ Ours /\ stir = 0 /\ GitHere /\ path' # "ours"
              /\ man.cleanup # None /\ man.cleanup.sealed)
             => branch = man.result.head /\ Snapshot(Base) = man.result.patch ]_vars
  <2> SUFFICES ASSUME IInv, QuietHeld, [Next]_vars, Ours, stir = 0, GitHere,
                      path' # "ours", man.cleanup.sealed
               PROVE  branch = man.result.head /\ Snapshot(Base) = man.result.patch
    OBVIOUS
  <2>1. Step /\ path' # path
    BY Movers DEF wtVars, GitHere
  <2>2. pc = "cuRemove"
    BY <2>1, WorktreeMoves DEF QuietHeld
  <2> QED
    BY <2>2 DEF QuietHeld, RemovalProven, EnsureSealed
<1> QED
  BY <1>1, InitQuiet, QuietStep, Inductive, PTL DEF Spec, UnsealedWorkKept

(* A capsule becomes dropped only when nothing stands at workspace_path, so   *)
(* that a directory put there during a half-done removal survives it.      *)
THEOREM CleanupRefusesForeignHolds == Spec => CleanupRefusesForeign
<1>1. IInv /\ QuietHeld /\ [Next]_vars
        => [ (stir = 0 /\ man.state # "dropped" /\ man'.state = "dropped") => Missing ]_vars
  BY OnlyWrites DEF Writing, IInv, Held, QuietHeld, StateHeld, Decided
<1> QED
  BY <1>1, InitQuiet, QuietStep, Inductive, PTL DEF Spec, CleanupRefusesForeign
==============================================================================
