----------------------------- MODULE SealingProofs -----------------------------
(***************************************************************************)
(* What the seal of a capsule is worth, and what an integration may do with *)
(* it, for every object database, every bound and every choice of          *)
(* operations.                                                             *)
(***************************************************************************)
EXTENDS WorkspaceProofs

------------------------------------------------------------------------------
(* From the second look of close to the manifest.                          *)

(* A manifest about to be written that names a first result is a seal. *)
SealPending ==
  \/ pc \in {"clPatch", "clResult"}
  \/ pc = "write" /\ man.state = "active" /\ cap.state = "closed"

(* No other write brings in a result. *)
LEMMA NewSeal ==
  ASSUME IInv, pc \in Decided, man.result = None, cap.result # None
  PROVE  SealPending
<1>1. man.state = "active" /\ cap.state = "closed"
  BY DEF IInv, Held, CopyHeld, Evolves, SameRecord
<1> QED
  BY <1>1 DEF IInv, Held, StateHeld, Decided, SealPending

(* The steps that lead there are those of close. *)
LEMMA ClosePath ==
  ASSUME IInv, [Next]_vars,
         SealPending' \/ pc' \in {"clHead1", "clClean1", "clSnapshot2", "clHead2", "clClean2"}
  PROVE  \/ CloseStep /\ ~Fail
         \/ OutsideMove
         \/ UNCHANGED <<man, opVars, refVars, wtVars, disk, targetVars, stir>>
<1> USE DEF SealPending, Goto
<1>h. StateHeld /\ TypeOK
  BY DEF IInv, Held
<1>1. CASE Fail
  BY <1>1 DEF Fail
<1>2. CASE Call
  <2>1. pc' = "write" => cap'.state = "active"
    BY <1>h, <1>2, CopyIsRead DEF TypeOK, Manifests, Recorded, Begin, Idle, Call, CrBegin, CrReplay,
       CkBegin, EvidenceStep, EvRecordRun, EvClaim, ClBegin, InBegin, DrBegin, DrResume,
       RcBegin, RecoveryOf
  <2> QED
    BY <1>2, <2>1, CallFrame
<1>3. CASE (CreationStep \/ CleanupStep) /\ ~Fail
  <2>1. pc' = "write" => man'.state # "active"
    BY <1>h, <1>3 DEF StateHeld, IInv, Held, CopyHeld, Creating, CreationStep, CrManifest,
       CrExamine, CreationRoute, CrAbandon, CrBranch, CrRegister, CrLink, CrCheckout,
       CrReset, CrActivate, WriteAndGoto, CleanupStep, DrJournal, CuCheck, CleanupRoute,
       CuRemove, CuRemoving, CuUnregister, CuPrune, CuBranch, CuCheckpointRef,
       CuIntegrationRef
  <2> QED
    BY <1>3, <2>1 DEF CreationStep, CrManifest, CrExamine, CreationRoute, CrAbandon,
       CrBranch, CrRegister, CrLink, CrCheckout, CrReset, CrActivate, WriteAndGoto,
       CleanupStep, DrJournal, CuCheck, CleanupRoute, CuRemove, CuRemoving, CuUnregister,
       CuPrune, CuBranch, CuCheckpointRef, CuIntegrationRef
<1>4. CASE (CheckpointStep \/ IntegrationStep) /\ ~Fail
  <2>1. pc' = "write" => man'.state # "active"
    BY <1>h, <1>4 DEF StateHeld, CheckpointStep, CkSnapshot, CkCreateRef, CkJournal,
       CkFinish, ResumePoint, CkRecreateRef, CkAdvance, CkReset, CkDeleteRef, CkComplete,
       FinalWrite, WriteAndGoto, WriteAndReturn, IntegrationStep, InStart, InPrepare,
       InAbort, InCreateRef, InJournal, InCheck, InMerge, InDone, RiDecide, RiDeleteRef
  <2> QED
    BY <1>4, <2>1 DEF CheckpointStep, CkSnapshot, CkCreateRef, CkJournal, CkFinish,
       ResumePoint, CkRecreateRef, CkAdvance, CkReset, CkDeleteRef, CkComplete, FinalWrite,
       WriteAndGoto, WriteAndReturn, IntegrationStep, InStart, InPrepare, InAbort,
       InCreateRef, InJournal, InCheck, InMerge, InDone, RiDecide, RiDeleteRef
<1>5. CASE RecoveryStep /\ ~Fail
  <2>1. cap'.state # "closed"
    BY <1>h, <1>5, CopyIsRead DEF StateHeld, TypeOK, Manifests, RecoveryStep, RaExamine, RaNothing
  <2> QED
    BY <1>5, <2>1 DEF RecoveryStep, RaExamine, RaNothing
<1>6. CASE EvRun \/ EvLoseRun \/ Settle \/ UNCHANGED vars
  BY <1>6, IdleFrame
<1> QED
  BY <1>1, <1>2, <1>3, <1>4, <1>5, <1>6 DEF Next, Step, Crash

(* What close seals, of what it saw. *)
LEMMA SealsWhatItSaw ==
  ASSUME IInv, ClClean2, ~Fail
  PROVE  /\ UNCHANGED loc /\ pc' = "clPatch" /\ StableClean
         /\ GateOpen(loc.gate, cap.evidence, Diff(Base, loc.tree))
         /\ cap'.result.kind = KindOf(Diff(Base, loc.tree), Clean)
         /\ cap'.result.head = loc.head
         /\ cap'.result.patch = Diff(Base, loc.tree)
         /\ cap'.result.evidence = cap.evidence
<1> DEFINE p == Diff(Base, loc.tree)
           r == [kind |-> KindOf(p, Clean), head |-> loc.head, patch |-> p,
                 evidence |-> cap.evidence, checkpoints |-> cap.checkpoints]
<1>1. /\ UNCHANGED loc /\ pc' = "clPatch" /\ StableClean
      /\ GateOpen(loc.gate, cap.evidence, p)
      /\ cap' = [cap EXCEPT !.state = "closed", !.result = r]
  BY DEF ClClean2, Goto, Sealed
<1>2. r.kind = KindOf(p, Clean) /\ r.head = loc.head /\ r.patch = p
      /\ r.evidence = cap.evidence
  OBVIOUS
<1> HIDE DEF r
<1>3. cap'.result = r
  BY <1>1 DEF IInv, TypeOK, Manifests
<1> QED
  BY <1>1, <1>2, <1>3

------------------------------------------------------------------------------
(* The gate of close. *)

(* The seal about to be published carries what the gate asked for. *)
Supported(r) == \E e \in r.evidence : e.passed /\ e.executed /\ e.patch = r.patch

GateHeld == SealPending /\ loc.gate = "executed" => Supported(cap.result)

(* It does from the moment the gate was passed. *)
LEMMA GateStep == IInv /\ GateHeld /\ [Next]_vars => GateHeld'
<1> SUFFICES ASSUME IInv, GateHeld, [Next]_vars, SealPending' PROVE GateHeld'
  BY DEF GateHeld
<1>1. CASE CloseStep /\ ~Fail
  <2>1. CASE ClClean2
    BY <1>1, <2>1, SealsWhatItSaw DEF GateHeld, Supported, GateOpen, Supports
  <2>2. CASE ClPatch \/ ClResult
    BY <2>2 DEF ClPatch, ClResult, GateHeld, SealPending, Supported
  <2>3. CASE ClSnapshot1 \/ ClHead1 \/ ClClean1 \/ ClSnapshot2 \/ ClHead2
    BY <1>1, <2>3 DEF ClSnapshot1, ClHead1, ClClean1, ClSnapshot2, ClHead2, Goto, SealPending
  <2> QED
    BY <1>1, <2>1, <2>2, <2>3 DEF CloseStep
<1>2. CASE OutsideMove
  BY <1>2, OutsideFrame DEF IInv, TypeOK, GateHeld, SealPending, Supported
<1>3. CASE UNCHANGED <<man, opVars>>
  BY <1>3 DEF opVars, GateHeld, SealPending, Supported
<1> QED
  BY <1>1, <1>2, <1>3, ClosePath

(* A result sealed behind the executed-evidence gate carries a passing record *)
(* of a command Capsule ran, bound to exactly the patch that was sealed,   *)
(* whatever the agent does to the workspace between the looks of close.    *)
THEOREM ExecutedGate == Spec => ExecutedGateHolds
<1>1. Init => GateHeld
  BY DEF Init, GateHeld, SealPending
<1>2. IInv /\ GateHeld /\ [Next]_vars
        => [ (man.result = None /\ man'.result # None /\ loc.gate = "executed")
             => \E e \in man'.result.evidence :
                  e.passed /\ e.executed /\ e.patch = man'.result.patch ]_vars
  BY OnlyWrites, NewSeal DEF Writing, GateHeld, Supported
<1> QED
  BY <1>1, <1>2, GateStep, Inductive, PTL DEF Spec, ExecutedGateHolds

------------------------------------------------------------------------------
(* The files a manifest names.                                             *)

(* The files are those of the manifest, those of the one about to be written *)
(* are in place in turn, and nothing is named before the first seal.       *)
DiskHeld ==
  /\ SealOnDisk
  /\ man.state \in {"unborn", "creating", "active", "checkpointing"} => man.result = None
  /\ pc = "clResult" => disk.patch = cap.result.patch
  /\ pc = "write" /\ man.state = "active" /\ cap.state = "closed" => SealedArtifacts(cap)

(* Only close writes them. *)
LEMMA DiskMoves ==
  /\ Step /\ disk' # disk => ClPatch \/ ClResult
  /\ OutsideMove /\ disk' # disk => "tamper" \in UserMoves
<1>1. Step /\ disk' # disk => ClPatch \/ ClResult
  <2> SUFFICES ASSUME Step, disk' # disk PROVE ClPatch \/ ClResult
    OBVIOUS
  <2>1. ~CreationStep
    BY DEF CreationStep, CrManifest, CrExamine, CrAbandon, CrBranch, CrRegister, CrLink,
       CrCheckout, CrReset, CrActivate, Fail, WriteAndGoto
  <2>2. ~CheckpointStep
    BY DEF CheckpointStep, CkSnapshot, CkCreateRef, CkJournal, CkFinish, CkRecreateRef,
       CkAdvance, CkReset, CkDeleteRef, CkComplete, FinalWrite, Fail, WriteAndGoto,
       WriteAndReturn
  <2>3. ~IntegrationStep
    BY DEF IntegrationStep, InStart, InPrepare, InAbort, InCreateRef, InJournal, InCheck,
       InMerge, InDone, RiDecide, RiDeleteRef, Fail, WriteAndGoto
  <2>4. ~CleanupStep /\ ~RecoveryStep
    BY DEF CleanupStep, DrJournal, CuCheck, CuRemove, CuRemoving, CuUnregister, CuPrune,
       CuBranch, CuCheckpointRef, CuIntegrationRef, RecoveryStep, RaExamine, RaNothing,
       Fail, WriteAndGoto
  <2>5. CloseStep => ClPatch \/ ClResult
    BY DEF CloseStep, ClSnapshot1, ClHead1, ClClean1, ClSnapshot2, ClHead2, ClClean2, Fail
  <2> QED
    BY <2>1, <2>2, <2>3, <2>4, <2>5 DEF Step
<1>2. OutsideMove /\ disk' # disk => "tamper" \in UserMoves
  BY DEF OutsideMove, Outside, AgentEdit, AgentCommit, AgentRewind, AgentDetach,
     WorkspaceMove, OutsidePrune, BranchDeleted, RefDeleted, UserCommit, UserRewind,
     UserSwitch, UserEdit, Tamper
<1> QED
  BY <1>1, <1>2

(* The manifest that changes keeps its result, or names the one on disk. *)
LEMMA DiskManifest ==
  ASSUME IInv, DiskHeld, [Next]_vars, man' # man
  PROVE  /\ SealOnDisk'
         /\ man'.state \in {"unborn", "creating", "active", "checkpointing"}
              => man'.result = None
<1>1. pc \in Writing /\ man' = cap /\ disk' = disk /\ Evolves(man, cap)
  BY OnlyWrites DEF Writing, IInv, Held, CopyHeld
<1>2. CASE SealPending
  <2>1. pc = "write" /\ man.state = "active" /\ cap.state = "closed"
    BY <1>1, <1>2 DEF SealPending, Writing
  <2> QED
    BY <1>1, <2>1 DEF DiskHeld, SealOnDisk, SealedArtifacts
<1>3. CASE ~SealPending
  <2>1. man.result = None => cap.result = None
    BY <1>1, <1>3, NewSeal DEF Writing
  <2>2. \/ SameRecord(man, cap)
        \/ man.state \in {"active", "checkpointing"}
    BY <1>1 DEF Evolves
  <2>3. man.state \in {"active", "checkpointing"} => man.result = None
    BY DEF DiskHeld
  <2>4. SealOnDisk'
    BY <1>1, <2>1, <2>2, <2>3 DEF DiskHeld, SealOnDisk, SealedArtifacts, SameRecord
  <2>5. man'.state \in {"unborn", "creating", "active", "checkpointing"}
          => man.state \in {"unborn", "creating", "active", "checkpointing"}
    BY <1>1 DEF Evolves, Edges
  <2> QED
    BY <1>1, <2>1, <2>4, <2>5 DEF DiskHeld
<1> QED
  BY <1>2, <1>3

(* Unless somebody damages the files, this keeps holding. *)
LEMMA DiskStep ==
  ASSUME "tamper" \notin UserMoves
  PROVE  IInv /\ DiskHeld /\ [Next]_vars => DiskHeld'
<1> SUFFICES ASSUME IInv, DiskHeld, [Next]_vars PROVE DiskHeld'
  OBVIOUS
<1>h. TypeOK /\ StateHeld
  BY DEF IInv, Held
<1>1. /\ SealOnDisk'
      /\ man'.state \in {"unborn", "creating", "active", "checkpointing"}
           => man'.result = None
  <2>1. CASE man' # man
    BY <2>1, DiskManifest
  <2>2. CASE man' = man /\ disk' = disk
    BY <2>2 DEF DiskHeld, SealOnDisk, SealedArtifacts
  <2>3. CASE man' = man /\ disk' # disk
    <3>1. ClPatch \/ ClResult
      BY <2>3, Movers, DiskMoves
    <3>2. man.result = None
      BY <1>h, <3>1 DEF ClPatch, ClResult, StateHeld, DiskHeld
    <3> QED
      BY <2>3, <3>2 DEF DiskHeld, SealOnDisk
  <2> QED
    BY <2>1, <2>2, <2>3
<1>2. ASSUME pc' = "clResult" \/ (pc' = "write" /\ man'.state = "active" /\ cap'.state = "closed")
      PROVE  UNCHANGED <<man, cap, pc, disk>> \/ ClPatch \/ ClResult
  <2>1. CASE CloseStep /\ ~Fail
    BY <1>2, <2>1 DEF CloseStep, ClSnapshot1, ClHead1, ClClean1, ClSnapshot2, ClHead2,
       ClClean2, Goto
  <2>2. CASE OutsideMove
    BY <1>h, <2>2, OutsideFrame, DiskMoves DEF TypeOK
  <2> QED
    BY <1>2, <2>1, <2>2, ClosePath DEF SealPending, opVars
<1>3. ClPatch => pc' = "clResult" /\ disk'.patch = cap'.result.patch
  BY <1>h DEF ClPatch, Goto, TypeOK
<1>4. ClResult => pc' = "write" /\ SealedArtifacts(cap)'
  <2> SUFFICES ASSUME ClResult PROVE pc' = "write" /\ SealedArtifacts(cap)'
    OBVIOUS
  <2>1. /\ cap.result # None /\ man.state = "active" /\ cap.state = "closed"
        /\ Evolves(man, cap)
    BY <1>h DEF ClResult, StateHeld, IInv, Held, CopyHeld, Decided
  <2>2. /\ pc' = "write" /\ UNCHANGED cap
        /\ disk'.patch = cap.result.patch /\ disk'.result = cap.result
    BY <1>h DEF ClResult, Goto, TypeOK, DiskHeld
  <2> QED
    BY <2>1, <2>2 DEF SealedArtifacts, Evolves, Edges
<1>5. ClPatch => pc' # "write"
  BY DEF ClPatch, Goto
<1>6. ClResult => pc' # "clResult"
  BY DEF ClResult, Goto
<1> QED
  BY <1>1, <1>2, <1>3, <1>4, <1>5, <1>6 DEF DiskHeld, SealedArtifacts

(* As long as nobody damages the sealed files: whatever mixture of crashes,   *)
(* refused closes and repeated closes came before, a manifest that names a *)
(* result names the files that are there.                                  *)
THEOREM SealOnDiskHolds ==
  ASSUME "tamper" \notin UserMoves
  PROVE  Spec => []SealOnDisk
<1>1. Init => DiskHeld
  BY DEF Init, DiskHeld, SealOnDisk, Unborn
<1>2. DiskHeld => SealOnDisk
  BY DEF DiskHeld
<1> QED
  BY <1>1, <1>2, DiskStep, Inductive, PTL DEF Spec

------------------------------------------------------------------------------
(* The two looks of close.                                                 *)

(* What a result says of itself: nothing changed, or all of it is in a commit. *)
KindTold(r) == r.kind = "no_change" <=> Empty(r.patch)
CommitTold(r) == r.kind = "commit" => CommitDiff(Base, r.head) = r.patch

(* The manifest says so of its own, and any seal about to be published. *)
KindHeld ==
  /\ man.result # None => KindTold(man.result)
  /\ SealPending => KindTold(cap.result)

CommitHeld ==
  /\ man.result # None => CommitTold(man.result)
  /\ SealPending => CommitTold(cap.result)

(* A manifest that changes keeps its result, or takes the seal prepared. *)
LEMMA ResultKept ==
  ASSUME IInv, [Next]_vars, man'.result # None
  PROVE  man'.result = man.result \/ (SealPending /\ man'.result = cap.result)
<1> SUFFICES ASSUME man' # man
             PROVE  man'.result = man.result \/ (SealPending /\ man'.result = cap.result)
  OBVIOUS
<1>1. pc \in Writing /\ man' = cap /\ Evolves(man, cap)
  BY OnlyWrites DEF Writing, IInv, Held, CopyHeld
<1> QED
  BY <1>1, NewSeal DEF Writing, Evolves, SameRecord, SealPending, IInv, Held, StateHeld, Decided

(* A seal is prepared by the last look of close, and stays as it is. *)
LEMMA SealKept ==
  ASSUME IInv, [Next]_vars, SealPending'
  PROVE  \/ ClClean2 /\ ~Fail
         \/ SealPending /\ cap'.result = cap.result
<1>1. CASE CloseStep /\ ~Fail
  BY <1>1 DEF CloseStep, ClSnapshot1, ClHead1, ClClean1, ClSnapshot2, ClHead2, ClPatch,
     ClResult, Goto, SealPending
<1>2. CASE OutsideMove
  BY <1>2, OutsideFrame DEF IInv, TypeOK, SealPending
<1>3. CASE UNCHANGED <<man, opVars>>
  BY <1>3 DEF opVars, SealPending
<1> QED
  BY <1>1, <1>2, <1>3, ClosePath

(* So what the last look establishes of it stays true. *)
LEMMA KindStep == IInv /\ KindHeld /\ [Next]_vars => KindHeld'
<1> SUFFICES ASSUME IInv, KindHeld, [Next]_vars PROVE KindHeld'
  OBVIOUS
<1>1. ClClean2 /\ ~Fail => KindTold(cap'.result)
  BY SealsWhatItSaw DEF KindTold, KindOf
<1> QED
  BY <1>1, ResultKept, SealKept DEF KindHeld, KindTold

(* The head and the content that close has seen say the same. *)
Agrees == TreeOf[loc.head] = loc.tree

Looking == {"clHead1", "clClean1", "clSnapshot2", "clHead2", "clClean2"}

(* What close saw is there as long as nobody has moved; and when it has found *)
(* the workspace clean, then either what it saw agrees, or somebody moved  *)
(* before: once, so that the workspace is what it found clean, or twice.   *)
LookHeld ==
  /\ stir = 0 /\ pc \in Looking => loc.tree = tree
  /\ stir = 0 /\ pc \in Looking \ {"clHead1"} => loc.head = branch
  /\ pc = "clSnapshot2" /\ loc.clean
       => \/ Agrees
          \/ stir >= 1 /\ tree = TreeOf[branch]
          \/ stir >= 2
  /\ pc = "clHead2" /\ loc.clean
       => \/ Agrees
          \/ stir >= 1 /\ tree = TreeOf[branch] /\ tree = loc.tree
          \/ stir >= 2 /\ loc.tree \in {tree, TreeOf[branch]}
  /\ pc = "clClean2" /\ loc.clean
       => \/ Agrees
          \/ stir >= 2 /\ tree = loc.tree /\ branch = loc.head

(* What the workspace contains and what its branch names do not change at once. *)
LEMMA OneAtATime == OutsideMove => tree' = tree \/ branch' = branch
BY DEF OutsideMove, Outside, AgentEdit, AgentCommit, AgentRewind, AgentDetach,
   WorkspaceMove, OutsidePrune, BranchDeleted, RefDeleted, UserCommit, UserRewind,
   UserSwitch, UserEdit, Tamper, refVars, wtVars

(* Two interferences are not enough to end that. *)
LEMMA LookStep ==
  ASSUME MaxStir <= 2
  PROVE  IInv /\ LookHeld /\ [Next]_vars => LookHeld'
<1> SUFFICES ASSUME IInv, LookHeld, [Next]_vars, pc' \in Looking PROVE LookHeld'
  BY DEF LookHeld, Looking
<1> USE DEF LookHeld, Looking, Agrees
<1>h. TypeOK
  BY DEF IInv
<1>1. CASE CloseStep /\ ~Fail
  <2>s. stir' = stir
    BY <1>1, StepFrame DEF Step, envVars
  <2>1. CASE ClSnapshot1
    <3>1. loc'.tree = tree /\ tree' = tree /\ pc' = "clHead1"
      BY <1>h, <1>1, <2>1 DEF ClSnapshot1, Goto, TypeOK, Locals, wtVars
    <3> QED BY <3>1
  <2>2. CASE ClHead1
    <3>1. /\ pc = "clHead1" /\ pc' = "clClean1" /\ UNCHANGED <<tree, branch>>
          /\ loc'.tree = loc.tree /\ loc'.head = branch
      BY <1>h, <1>1, <2>2 DEF ClHead1, Goto, TypeOK, Locals, wtVars, refVars
    <3> QED BY <2>s, <3>1
  <2>3. CASE ClClean1
    <3>1. /\ pc = "clClean1" /\ pc' = "clSnapshot2" /\ UNCHANGED <<tree, branch>>
          /\ loc'.tree = loc.tree /\ loc'.head = loc.head
          /\ loc'.clean => tree = TreeOf[branch]
      BY <1>h, <1>1, <2>3 DEF ClClean1, Goto, TypeOK, Locals, wtVars, refVars, Clean
    <3>2. stir = 0 \/ stir >= 1
      BY <1>h DEF TypeOK
    <3> QED BY <2>s, <3>1, <3>2
  <2>4. CASE ClSnapshot2
    BY <1>1, <2>s, <2>4 DEF ClSnapshot2, StableContent, Goto, wtVars, refVars
  <2>5. CASE ClHead2
    <3>1. /\ pc = "clHead2" /\ pc' = "clClean2" /\ branch = loc.head
          /\ UNCHANGED <<loc, tree, branch>>
      BY <1>1, <2>5 DEF ClHead2, StableHead, Goto, wtVars, refVars
    <3> QED BY <2>s, <3>1
  <2>6. CASE ClClean2 \/ ClPatch \/ ClResult
    BY <1>1, <2>6 DEF ClClean2, ClPatch, ClResult, Goto
  <2> QED
    BY <1>1, <2>1, <2>2, <2>3, <2>4, <2>5, <2>6 DEF CloseStep
<1>2. CASE OutsideMove
  <2>1. /\ UNCHANGED <<pc, loc>> /\ stir \in Nat
        /\ stir < 2 /\ stir' = stir + 1
    BY <1>h, <1>2, OutsideFrame, WorldAssumption DEF TypeOK
  <2>2. Agrees' <=> Agrees
    BY <2>1
  <2>3. tree' = tree \/ branch' = branch
    BY <1>2, OneAtATime
  <2> QED
    BY <2>1, <2>2, <2>3
<1>3. CASE UNCHANGED <<man, opVars, refVars, wtVars, disk, targetVars, stir>>
  BY <1>3 DEF opVars, refVars, wtVars
<1> QED
  BY <1>1, <1>2, <1>3, ClosePath

(* A seal of kind `commit` is the commit it names. *)
LEMMA CommitStep ==
  IInv /\ LookHeld /\ CommitHeld /\ [Next]_vars => CommitHeld'
<1> SUFFICES ASSUME IInv, LookHeld, CommitHeld, [Next]_vars PROVE CommitHeld'
  OBVIOUS
<1>1. ClClean2 /\ ~Fail => CommitTold(cap'.result)
  <2> SUFFICES ASSUME ClClean2, ~Fail PROVE CommitTold(cap'.result)
    OBVIOUS
  <2>1. cap'.result.kind = "commit" => loc.clean
    BY SealsWhatItSaw DEF KindOf, StableClean
  <2>2. loc.clean => CommitDiff(Base, loc.head) = Diff(Base, loc.tree)
    BY SealsWhatItSaw DEF ClClean2, LookHeld, Agrees, CommitDiff, Diff, StableClean, Clean
  <2> QED
    BY <2>1, <2>2, SealsWhatItSaw DEF CommitTold
<1> QED
  BY <1>1, ResultKept, SealKept DEF CommitHeld, CommitTold

(* With at most two interferences during a close, what was sealed is one real *)
(* state of the workspace: kind `commit` means the commit is the patch, and *)
(* `no_change` that there was none.  (With three, somebody who does a thing  *)
(* before each of close's questions whether the workspace is clean, and     *)
(* undoes it in between, is not seen.)                                     *)
THEOREM SealNotTornHolds ==
  ASSUME MaxStir <= 2
  PROVE  Spec => []SealNotTorn
<1>1. Init => LookHeld /\ CommitHeld /\ KindHeld
  BY DEF Init, LookHeld, Looking, CommitHeld, KindHeld, SealPending, Unborn
<1>2. CommitHeld /\ KindHeld => SealNotTorn
  BY DEF CommitHeld, CommitTold, KindHeld, KindTold, SealNotTorn
<1> QED
  BY <1>1, <1>2, LookStep, CommitStep, KindStep, Inductive, PTL DEF Spec

------------------------------------------------------------------------------
(* Integration: from the start of the journal to the target.               *)

Preparing == {"inStart", "inPrepare"}
Moving == {"inCreateRef", "inJournal", "inCheck", "inMerge"}

(* The commit that an integration is going to move the target to. *)
Chosen == IF pc = "inCreateRef" THEN loc.next ELSE cap.integration.after

(* A commit is not its own parent. *)
LEMMA NoLoop ==
  ASSUME NEW c \in Commit, NEW d \in Commit, Parent[c] = d
  PROVE  c # d /\ c \notin Anc[d]
BY Ancestry, ObjectsAssumption

(* The steps of an integration before its last write are taken by it alone. *)
LEMMA IntegratePath ==
  ASSUME IInv, [Next]_vars, pc' \in Preparing \cup Moving \cup {"inDone", "riDeleteRef"}
  PROVE  \/ IntegrationStep /\ ~Fail
         \/ InBegin
         \/ OutsideMove
         \/ UNCHANGED <<man, opVars, refVars, wtVars, disk, targetVars, stir>>
<1> USE DEF Goto, Preparing, Moving
<1>1. CASE Fail
  BY <1>1 DEF Fail
<1>2. CASE Call
  BY <1>2 DEF Call, CrBegin, CrReplay, CkBegin, EvidenceStep, EvRecordRun, EvClaim, ClBegin,
     DrBegin, DrResume, RcBegin, Begin, RecoveryOf
<1>3. CASE CreationStep \/ CleanupStep \/ RecoveryStep
  BY <1>3 DEF CreationStep, CrManifest, CrExamine, CreationRoute, CrAbandon, CrBranch,
     CrRegister, CrLink, CrCheckout, CrReset, CrActivate, WriteAndGoto, CleanupStep,
     DrJournal, CuCheck, CleanupRoute, CuRemove, CuRemoving, CuUnregister, CuPrune,
     CuBranch, CuCheckpointRef, CuIntegrationRef, RecoveryStep, RaExamine, RaNothing, Fail
<1>4. CASE CheckpointStep \/ CloseStep
  BY <1>4 DEF CheckpointStep, CkSnapshot, CkCreateRef, CkJournal, CkFinish, ResumePoint,
     CkRecreateRef, CkAdvance, CkReset, CkDeleteRef, CkComplete, FinalWrite, WriteAndGoto,
     WriteAndReturn, CloseStep, ClSnapshot1, ClHead1, ClClean1, ClSnapshot2, ClHead2,
     ClClean2, ClPatch, ClResult, Fail
<1>5. CASE EvRun \/ EvLoseRun \/ Settle \/ UNCHANGED vars
  BY <1>5, IdleFrame
<1> QED
  BY <1>1, <1>2, <1>3, <1>4, <1>5 DEF Next, Step, Crash

(* The manifest an integration starts with names the target as it is. *)
LEMMA StartedIs ==
  ASSUME NEW m \in Manifests
  PROVE  /\ Started(m).state = "integrating" /\ Started(m).result = m.result
         /\ Started(m).integration.ref = cur
         /\ Started(m).integration.before = tip[cur]
         /\ Started(m).integration.after = None
<1> DEFINE j == [ref |-> cur, before |-> tip[cur], after |-> None]
<1>1. Started(m) = [m EXCEPT !.state = "integrating", !.integration = j]
  BY DEF Started
<1>2. j.ref = cur /\ j.before = tip[cur] /\ j.after = None
  OBVIOUS
<1> HIDE DEF j
<1>3. /\ Started(m).state = "integrating" /\ Started(m).result = m.result
      /\ Started(m).integration = j
  BY <1>1 DEF Manifests
<1> QED
  BY <1>2, <1>3

(* The manifest that names the commit differs in nothing else. *)
LEMMA PreparedIs ==
  ASSUME NEW m \in Manifests, m.integration # None, NEW c
  PROVE  /\ Prepared(m, c).state = m.state /\ Prepared(m, c).result = m.result
         /\ Prepared(m, c).integration.ref = m.integration.ref
         /\ Prepared(m, c).integration.before = m.integration.before
         /\ Prepared(m, c).integration.after = c
<1> DEFINE j == [m.integration EXCEPT !.after = c]
<1>1. m.integration \in IntegrationJournal
  BY DEF Manifests
<1>2. j.ref = m.integration.ref /\ j.before = m.integration.before /\ j.after = c
  BY <1>1 DEF IntegrationJournal
<1>3. Prepared(m, c) = [m EXCEPT !.integration = j]
  BY DEF Prepared, Manifests
<1> HIDE DEF j
<1>4. /\ Prepared(m, c).state = m.state /\ Prepared(m, c).result = m.result
      /\ Prepared(m, c).integration = j
  BY <1>3 DEF Manifests
<1> QED
  BY <1>2, <1>4

(* A journal is anchored at the pinned base, and the commit it names for a    *)
(* result with changes is the sealed patch on that base.                   *)
Applies(c, r) == r.kind # "no_change" => Parent[c] = Base /\ CommitDiff(Base, c) = r.patch

Anchored(m) ==
  m.state = "integrating" =>
    /\ m.integration.before = Base
    /\ m.integration.after # None => Applies(m.integration.after, m.result)

AnchorHeld ==
  /\ Anchored(man)
  /\ pc \in Decided => Anchored(cap)
  /\ pc \in Preparing => cap.integration.after = None
  /\ pc = "inCreateRef" => Applies(loc.next, cap.result)

(* Nothing the target's owner does between the steps changes that. *)
LEMMA AnchorStep == IInv /\ AnchorHeld /\ [Next]_vars => AnchorHeld'
<1> SUFFICES ASSUME IInv, AnchorHeld, [Next]_vars PROVE AnchorHeld'
  OBVIOUS
<1>h. TypeOK /\ StateHeld /\ CopyHeld /\ StateHeld' /\ ManifestReadable
  BY NextIInv DEF IInv, Held
<1>1. Anchored(man')
  <2>1. man' = man \/ (pc \in Decided /\ man' = cap)
    BY OnlyWrites DEF Writing
  <2> QED
    BY <2>1 DEF AnchorHeld
<1>2. CASE pc' \notin Preparing \cup Moving
  <2>1. pc' \in Decided => cap'.state # "integrating"
    BY <1>h, <1>2 DEF StateHeld, Decided, Preparing, Moving
  <2> QED
    BY <1>1, <1>2, <2>1 DEF AnchorHeld, Anchored, Preparing, Moving
<1>3. CASE InBegin
  <2>1. /\ pc' = "inStart" /\ cap' = Started(cap) /\ tip[cur] = Base
        /\ cap \in Manifests
    BY <1>h, <1>3 DEF InBegin, Begin, TargetReady, TypeOK
  <2> QED
    BY <1>1, <2>1, StartedIs DEF AnchorHeld, Anchored, Preparing
<1>4. CASE IntegrationStep /\ ~Fail /\ pc' \in Preparing \cup Moving
  <2>1. CASE InStart
    BY <1>1, <2>1 DEF InStart, WriteAndGoto, Goto, AnchorHeld, Preparing, Moving, Decided
  <2>2. CASE InPrepare
    <3>1. PICK c \in Candidates(cap) : loc' = [loc EXCEPT !.next = c]
      BY <2>2 DEF InPrepare
    <3>2. loc'.next = c /\ pc' = "inCreateRef" /\ UNCHANGED cap
      BY <1>h, <2>2, <3>1 DEF InPrepare, Goto, TypeOK, Locals
    <3>3. Applies(c, cap.result)
      BY <3>1 DEF Candidates, PatchCommits, Applies
    <3> QED
      BY <1>1, <3>2, <3>3 DEF AnchorHeld, Decided, Preparing
  <2>3. CASE InCreateRef
    <3>1. /\ cap' = Prepared(cap, loc.next) /\ pc' = "inJournal" /\ pc = "inCreateRef"
          /\ cap \in Manifests
      BY <1>h, <1>4, <2>3 DEF InCreateRef, Goto, TypeOK
    <3>2. cap = man /\ man.state = "integrating" /\ cap.integration # None
      BY <1>h, <3>1 DEF CopyHeld, StateHeld, Reading, PCs, Creating, Decided,
         ManifestReadable, Readable, IntegrationConsistent
    <3> QED
      BY <1>1, <3>1, <3>2, PreparedIs DEF AnchorHeld, Anchored, Preparing
  <2>4. CASE InJournal \/ InCheck
    BY <1>1, <1>4, <2>4 DEF InJournal, InCheck, WriteAndGoto, Goto, AnchorHeld, Preparing,
       Moving, Decided
  <2>5. CASE InAbort \/ InMerge \/ InDone \/ RiDecide \/ RiDeleteRef
    BY <1>4, <2>5 DEF InAbort, InMerge, InDone, RiDecide, RiDeleteRef, Goto, Preparing, Moving
  <2> QED
    BY <1>4, <2>1, <2>2, <2>3, <2>4, <2>5 DEF IntegrationStep
<1>5. CASE OutsideMove
  BY <1>1, <1>h, <1>5, OutsideFrame DEF TypeOK, AnchorHeld
<1>6. CASE UNCHANGED <<man, opVars>>
  BY <1>6 DEF opVars, AnchorHeld
<1> QED
  BY <1>2, <1>3, <1>4, <1>5, <1>6, IntegratePath

(* The copy an integration works on, between its writes. *)
LEMMA IntegrationCopy ==
  ASSUME IInv
  PROVE  /\ pc \in {"inPrepare", "inCreateRef", "inCheck", "inMerge", "inDone", "riDecide"}
              => cap = man
         /\ pc \in {"inPrepare", "inCreateRef", "inJournal", "inCheck", "inMerge", "inDone",
                    "riDecide", "riDeleteRef"}
              => man.state = "integrating"
         /\ pc \in {"inStart", "inJournal"} => cap.state = "integrating"
         /\ man.state = "integrating" => man.integration \in IntegrationJournal
         /\ cap \in Manifests /\ man \in Manifests /\ loc \in Locals
         /\ tip \in [Ref -> Commit] /\ cur \in Ref
BY DEF IInv, TypeOK, Held, CopyHeld, StateHeld, Reading, PCs, Creating, Decided,
       ManifestReadable, Readable, IntegrationConsistent, Manifests

(* Where Capsule itself moves the target and the ref of an integration. *)
LEMMA TargetMoves ==
  ASSUME Step
  PROVE  /\ <<tip, cur>>' # <<tip, cur>> => InMerge
         /\ inRef' # inRef =>
              InCreateRef \/ InDone \/ RiDeleteRef \/ pc = "cuIntegrationRef"
<1> USE DEF targetVars, refVars
<1>1. CASE CreationStep
  BY <1>1 DEF CreationStep, CrManifest, CrExamine, CrAbandon, CrBranch, CrRegister,
     CrLink, CrCheckout, CrReset, CrActivate, Fail, WriteAndGoto
<1>2. CASE CheckpointStep
  BY <1>2 DEF CheckpointStep, CkSnapshot, CkCreateRef, CkJournal, CkFinish,
     CkRecreateRef, CkAdvance, CkReset, CkDeleteRef, CkComplete, FinalWrite, Fail,
     WriteAndGoto, WriteAndReturn
<1>3. CASE CloseStep
  BY <1>3 DEF CloseStep, ClSnapshot1, ClHead1, ClClean1, ClSnapshot2, ClHead2,
     ClClean2, ClPatch, ClResult, Fail
<1>4. CASE IntegrationStep
  <2>1. CASE InStart \/ InPrepare \/ InAbort \/ InJournal \/ InCheck \/ RiDecide
    BY <2>1 DEF InStart, InPrepare, InAbort, InJournal, InCheck, RiDecide, Fail, WriteAndGoto
  <2>2. CASE InCreateRef \/ InDone \/ RiDeleteRef
    BY <2>2 DEF InCreateRef, InDone, RiDeleteRef, Fail
  <2>3. CASE InMerge
    BY <2>3 DEF InMerge, Fail
  <2> QED
    BY <1>4, <2>1, <2>2, <2>3 DEF IntegrationStep
<1>5. CASE CleanupStep
  BY <1>5 DEF CleanupStep, DrJournal, CuCheck, CuRemove, CuRemoving, CuUnregister,
     CuPrune, CuBranch, CuCheckpointRef, CuIntegrationRef, Fail, WriteAndGoto
<1>6. CASE RecoveryStep
  BY <1>6 DEF RecoveryStep, RaExamine, RaNothing, Fail
<1> QED
  BY <1>1, <1>2, <1>3, <1>4, <1>5, <1>6 DEF Step

(* A commit is protected before the journal names it. *)
RefHeld == pc \in Moving \ {"inCreateRef"} /\ Chosen # Base => inRef = Chosen

(* Nobody but the integration touches its ref, unless it is deleted by hand. *)
LEMMA RefStep ==
  ASSUME "unprotect" \notin AgentMoves
  PROVE  IInv /\ AnchorHeld /\ RefHeld /\ [Next]_vars => RefHeld'
<1> SUFFICES ASSUME IInv, AnchorHeld, RefHeld, [Next]_vars,
                    pc' \in Moving \ {"inCreateRef"}
             PROVE  RefHeld'
  BY DEF RefHeld
<1> USE IntegrationCopy DEF RefHeld, Chosen, Moving
<1>1. CASE IntegrationStep /\ ~Fail
  <2>1. CASE InCreateRef
    <3>1. /\ pc = "inCreateRef" /\ pc' = "inJournal" /\ cap' = Prepared(cap, loc.next)
          /\ loc.next # cap.integration.before => inRef' = loc.next
      BY <1>1, <2>1 DEF InCreateRef, Goto
    <3>2. cap.integration # None /\ cap.integration.before = Base
      BY <3>1, ManifestAssumption DEF AnchorHeld, Anchored
    <3>3. cap'.integration.after = loc.next
      BY <3>1, <3>2, PreparedIs
    <3> QED
      BY <3>1, <3>2, <3>3
  <2>2. CASE InJournal \/ InCheck
    BY <1>1, <2>2 DEF InJournal, InCheck, WriteAndGoto, Goto, refVars
  <2>3. CASE InStart \/ InPrepare \/ InAbort \/ InMerge \/ InDone \/ RiDecide \/ RiDeleteRef
    BY <1>1, <2>3 DEF InStart, InPrepare, InAbort, InMerge, InDone, RiDecide, RiDeleteRef,
       WriteAndGoto, Goto
  <2> QED
    BY <1>1, <2>1, <2>2, <2>3 DEF IntegrationStep
<1>2. CASE InBegin
  BY <1>2 DEF InBegin, Begin
<1>3. CASE OutsideMove
  BY <1>3, OutsideFrame, OutsideRefs DEF IInv, TypeOK
<1>4. CASE UNCHANGED <<man, opVars, refVars, wtVars, disk, targetVars, stir>>
  BY <1>4 DEF opVars, refVars
<1> QED
  BY <1>1, <1>2, <1>3, <1>4, IntegratePath

(* When Capsule moves the target it is to the journaled commit, which is      *)
(* protected, and is the sealed patch unless the result is empty.          *)
LEMMA MergeMoves ==
  ASSUME IInv, AnchorHeld, RefHeld, [Next]_vars, Ours, tip' # tip
  PROVE  /\ pc = "inMerge" /\ cap = man /\ man.state = "integrating"
         /\ man.integration.after = tip'[cur] /\ tip'[cur] \in Commit
         /\ tip'[cur] # Base => inRef = tip'[cur]
         /\ man.result.kind # "no_change"
              => /\ tip'[cur] # Base
                 /\ Parent[tip'[cur]] = Base
                 /\ CommitDiff(Base, tip'[cur]) = man.result.patch
<1>1. InMerge
  BY Movers, TargetMoves DEF targetVars
<1>2. /\ pc = "inMerge" /\ cap = man /\ man.state = "integrating"
      /\ tip'[cur] = cap.integration.after
  BY <1>1, IntegrationCopy DEF InMerge, Fail, targetVars
<1>3. man.integration.after \in Commit
  BY <1>2 DEF IInv, Held, LocalsHeld
<1>4. man.result.kind # "no_change"
        => Parent[tip'[cur]] = Base /\ CommitDiff(Base, tip'[cur]) = man.result.patch
  BY <1>2, <1>3, ObjectsAssumption DEF AnchorHeld, Anchored, Applies
<1>5. man.result.kind # "no_change" => tip'[cur] # Base
  BY <1>2, <1>3, <1>4, NoLoop, ObjectsAssumption
<1> QED
  BY <1>2, <1>3, <1>4, <1>5 DEF RefHeld, Moving, Chosen

(* However often others interfere during an integration, as long as no private *)
(* ref is deleted by hand: a result with changes moves the target only to a *)
(* commit that the manifest on disk journals and a ref protects, and that is *)
(* the sealed patch on the pinned base.                                    *)
THEOREM ChangesJournaledFirst ==
  ASSUME "unprotect" \notin AgentMoves
  PROVE  Spec => [][ (Ours /\ tip' # tip /\ man.result.kind # "no_change")
                     => /\ man.state = "integrating"
                        /\ man.integration.after = tip'[cur]
                        /\ inRef = tip'[cur]
                        /\ Parent[tip'[cur]] = Base
                        /\ CommitDiff(Base, tip'[cur]) = man.result.patch ]_vars
<1>1. Init => AnchorHeld /\ RefHeld
  BY DEF Init, AnchorHeld, Anchored, RefHeld, Preparing, Moving, Decided, Unborn
<1>2. IInv /\ AnchorHeld /\ RefHeld /\ [Next]_vars
        => [ (Ours /\ tip' # tip /\ man.result.kind # "no_change")
             => /\ man.state = "integrating"
                /\ man.integration.after = tip'[cur]
                /\ inRef = tip'[cur]
                /\ Parent[tip'[cur]] = Base
                /\ CommitDiff(Base, tip'[cur]) = man.result.patch ]_vars
  BY MergeMoves
<1> QED
  BY <1>1, <1>2, AnchorStep, RefStep, Inductive, PTL DEF Spec

(* The target that was at the base when the locks were taken is there as long *)
(* as nobody has moved; if it was not when the commit of an empty result was *)
(* chosen, somebody has, and the target will not be found at the base again. *)
MergeHeld ==
  /\ pc \in Preparing /\ stir = 0 => tip[cur] = Base
  /\ pc \in Moving \ {"inMerge"} /\ cap.result.kind = "no_change" /\ Chosen # Base
       => stir # 0 /\ tip[cur] # Base
  /\ pc = "inMerge" => cap.result.kind # "no_change"

(* One interference is not enough to end that. *)
LEMMA MergeStep ==
  ASSUME MaxStir <= 1
  PROVE  IInv /\ AnchorHeld /\ MergeHeld /\ [Next]_vars => MergeHeld'
<1> SUFFICES ASSUME IInv, AnchorHeld, MergeHeld, [Next]_vars, pc' \in Preparing \cup Moving
             PROVE  MergeHeld'
  BY DEF MergeHeld, Moving, Preparing
<1>h. TypeOK
  BY DEF IInv
<1> USE IntegrationCopy DEF MergeHeld, Chosen, Preparing, Moving
<1>1. CASE InBegin
  BY <1>1 DEF InBegin, Begin, TargetReady, targetVars
<1>2. CASE IntegrationStep /\ ~Fail
  <2>s. stir' = stir
    BY <1>2, StepFrame DEF Step, envVars
  <2>1. CASE InStart
    BY <2>s, <2>1 DEF InStart, WriteAndGoto, Goto, targetVars
  <2>2. CASE InPrepare
    <3>1. PICK c \in Candidates(cap) : loc' = [loc EXCEPT !.next = c]
      BY <2>2 DEF InPrepare
    <3>2. /\ loc'.next = c /\ pc = "inPrepare" /\ pc' = "inCreateRef"
          /\ UNCHANGED <<cap, tip, cur>>
      BY <2>2, <3>1 DEF InPrepare, Goto, Locals, targetVars
    <3>3. cap.result.kind = "no_change" => c = tip[cur]
      BY <3>1 DEF Candidates
    <3> QED
      BY <2>s, <3>2, <3>3
  <2>3. CASE InCreateRef
    <3>1. /\ pc = "inCreateRef" /\ pc' = "inJournal" /\ cap' = Prepared(cap, loc.next)
          /\ UNCHANGED <<loc, tip, cur>>
      BY <1>2, <2>3 DEF InCreateRef, Goto, targetVars
    <3>2. cap.integration # None /\ cap.integration.before = Base
      BY <3>1, ManifestAssumption DEF AnchorHeld, Anchored
    <3>3. cap'.result = cap.result /\ cap'.integration.after = loc.next
      BY <3>1, <3>2, PreparedIs
    <3> QED
      BY <2>s, <3>1, <3>2, <3>3
  <2>4. CASE InJournal
    BY <2>s, <2>4 DEF InJournal, WriteAndGoto, Goto, targetVars, refVars
  <2>5. CASE InCheck
    <3>1. /\ pc = "inCheck" /\ pc' = "inMerge" /\ UNCHANGED <<cap, tip, cur, inRef>>
          /\ tip[cur] = cap.integration.before
          /\ cap.integration.after # cap.integration.before
      BY <1>2, <2>5 DEF InCheck, Goto, Moves, TargetIs, targetVars, refVars
    <3>2. cap.integration.before = Base
      BY <3>1 DEF AnchorHeld, Anchored
    <3> QED
      BY <2>s, <3>1, <3>2
  <2>6. CASE InAbort \/ InMerge \/ InDone \/ RiDecide \/ RiDeleteRef
    BY <1>2, <2>6 DEF InAbort, InMerge, InDone, RiDecide, RiDeleteRef, Goto
  <2> QED
    BY <1>2, <2>1, <2>2, <2>3, <2>4, <2>5, <2>6 DEF IntegrationStep
<1>3. CASE OutsideMove
  <2>1. UNCHANGED <<pc, loc, cap>> /\ stir = 0 /\ stir' # 0
    BY <1>h, <1>3, OutsideFrame, WorldAssumption DEF TypeOK
  <2> QED
    BY <2>1
<1>4. CASE UNCHANGED <<man, opVars, refVars, wtVars, disk, targetVars, stir>>
  BY <1>4 DEF opVars, refVars, targetVars
<1> QED
  BY <1>1, <1>2, <1>3, <1>4, IntegratePath

(* With at most one interference during an integration and no private ref     *)
(* deleted by hand: the target moves only to a commit that the manifest on *)
(* disk journals and a ref protects, and that is the sealed patch on the   *)
(* pinned base.  (The owner who moves the target while an empty result is   *)
(* prepared, and back again before it is checked, would have the target    *)
(* forwarded to his own commit.)                                           *)
THEOREM IntegrationJournaledFirstHolds ==
  ASSUME MaxStir <= 1, "unprotect" \notin AgentMoves
  PROVE  Spec => IntegrationJournaledFirst
<1>1. Init => AnchorHeld /\ RefHeld /\ MergeHeld
  BY DEF Init, AnchorHeld, Anchored, RefHeld, MergeHeld, Preparing, Moving, Decided, Unborn
<1>2. IInv /\ AnchorHeld /\ RefHeld /\ MergeHeld /\ [Next]_vars
        => [ (Ours /\ tip' # tip)
             => /\ man.state = "integrating"
                /\ man.integration.after = tip'[cur]
                /\ inRef = tip'[cur]
                /\ Parent[tip'[cur]] = Base
                /\ CommitDiff(Base, tip'[cur]) = man.result.patch ]_vars
  BY MergeMoves DEF MergeHeld
<1> QED
  BY <1>1, <1>2, AnchorStep, RefStep, MergeStep, Inductive, PTL
  DEF Spec, IntegrationJournaledFirst

------------------------------------------------------------------------------
(* How a journal of an integration is closed.                              *)

(* A result is there from the seal to the end of an integration, and a target *)
(* is where the journal has it.                                            *)
ResultThere == man.state \in {"closed", "integrating", "integrated"} => man.result # None

(* An operation neither drops a result nor opens an integration without one. *)
LEMMA ResultStep == IInv /\ ResultThere /\ [Next]_vars => ResultThere'
<1> SUFFICES ASSUME IInv, ResultThere, [Next]_vars, man' # man PROVE ResultThere'
  BY DEF ResultThere
<1>1. man' = cap /\ Evolves(man, cap)
  BY OnlyWrites DEF Writing, IInv, Held, CopyHeld
<1> QED
  BY <1>1, ManifestAssumption DEF ResultThere, Evolves, SameRecord, Edges

(* The target has the journaled commit, and the commit is the sealed result. *)
Has(m) ==
  /\ m.integration.after \in Anc[tip[m.integration.ref]]
  /\ MatchesResult(m, m.integration.after)

(* The target is where it was. *)
HasNot(m) == m.integration.after = None \/ tip[m.integration.ref] = Base

Settling == pc \in {"riDeleteRef", "write"} /\ man.state = "integrating"

(* As long as nobody has moved: the target and the files are what the         *)
(* operation found, and the verdict it is about to write is true.          *)
SettleHeld ==
  stir = 0 =>
    /\ pc \in Preparing \cup Moving \cup {"inDone"}
         => disk.patch = cap.result.patch /\ cur = cap.integration.ref
    /\ pc \in Preparing => tip[cur] = Base
    /\ pc \in Moving \cup {"inDone"} /\ cap.result.kind = "no_change" => Chosen = Base
    /\ pc = "inDone" => Chosen \in Anc[tip[cur]]
    /\ Settling /\ cap.state = "integrated" => Has(man)
    /\ Settling /\ cap.state = "closed" => HasNot(man)

(* What recover_integrating makes of a journal it can settle. *)
LEMMA VerdictIs ==
  ASSUME TypeOK, NEW m \in Manifests, Verdict(m) # None
  PROVE  /\ cur = m.integration.ref
         /\ \/ /\ Verdict(m) = RolledBack(m) /\ Verdict(m).state = "closed"
               /\ m.integration.after = None \/ tip[cur] = m.integration.before
            \/ /\ Verdict(m) = Landed(m) /\ Verdict(m).state = "integrated"
               /\ tip[cur] = m.integration.after
               /\ MatchesResult(m, m.integration.after)
<1>1. RolledBack(m).state = "closed" /\ Landed(m).state = "integrated"
  BY DEF RolledBack, Landed, Manifests
<1>2. CASE RollsBack(m)
  <2>1. /\ TargetIs(m.integration.ref)
        /\ tip[cur] = m.integration.before
    BY <1>2 DEF RollsBack
  <2>2. ~Lands(m)
    <3>1. tip[cur] # None
      BY ObjectsAssumption DEF TypeOK
    <3> QED
      BY <1>2, <2>1, <3>1 DEF RollsBack, Lands
  <2>3. Verdict(m) = RolledBack(m)
    BY <1>2, <2>2 DEF Verdict
  <2> QED
    BY <1>1, <2>1, <2>3 DEF TargetIs
<1>3. CASE ~RollsBack(m)
  <2>1. Lands(m)
    BY <1>3 DEF Verdict
  <2>2. Verdict(m) = Landed(m)
    BY <1>3, <2>1 DEF Verdict
  <2> QED
    BY <1>1, <2>1, <2>2 DEF Lands, TargetIs
<1> QED
  BY <1>2, <1>3

(* The integration that gets to its last write has landed the sealed result. *)
LEMMA LandedHas ==
  ASSUME IInv, AnchorHeld, KindHeld, ResultThere, SettleHeld, stir = 0, pc = "inDone"
  PROVE  Has(man)
<1>1. /\ cap = man /\ man.state = "integrating"
      /\ man.integration \in IntegrationJournal /\ man.integration.after \in Commit
      /\ man.result # None
  BY IntegrationCopy DEF IInv, Held, LocalsHeld, ResultThere
<1> DEFINE c == man.integration.after
<1>2. /\ disk.patch = man.result.patch /\ cur = man.integration.ref
      /\ man.result.kind = "no_change" => c = Base
      /\ c \in Anc[tip[cur]]
  BY <1>1 DEF SettleHeld, Chosen
<1>3. man.integration.before = Base
  BY <1>1 DEF AnchorHeld, Anchored
<1>4. man.result.kind # "no_change"
        => c # Base /\ Parent[c] = Base /\ CommitDiff(Base, c) = disk.patch
  BY <1>1, <1>2, NoLoop, ObjectsAssumption DEF AnchorHeld, Anchored, Applies
<1>5. man.result.kind = "no_change" => Empty(disk.patch)
  BY <1>1, <1>2 DEF KindHeld, KindTold
<1> QED
  BY <1>2, <1>3, <1>4, <1>5 DEF Has, MatchesResult


(* The last write of an integration is prepared by three of its steps alone. *)
LEMMA SettlePath ==
  ASSUME IInv, [Next]_vars, pc' = "write", man'.state = "integrating"
  PROVE  \/ IntegrationStep /\ ~Fail
         \/ OutsideMove
         \/ UNCHANGED <<man, opVars, refVars, wtVars, disk, targetVars, stir>>
<1> USE DEF Goto
<1>h. StateHeld /\ CopyHeld
  BY DEF IInv, Held
<1>1. CASE Fail
  BY <1>1 DEF Fail
<1>2. CASE Call
  BY <1>h, <1>2, CopyIsRead DEF Call, CrBegin, CrReplay, CkBegin, EvidenceStep, EvRecordRun,
     EvClaim, ClBegin, InBegin, DrBegin, DrResume, RcBegin, Begin, RecoveryOf, Idle
<1>3. CASE (CreationStep \/ CleanupStep \/ RecoveryStep) /\ ~Fail
  BY <1>h, <1>3 DEF StateHeld, CopyHeld, Creating, CreationStep, CrManifest, CrExamine,
     CreationRoute, CrAbandon, CrBranch, CrRegister, CrLink, CrCheckout, CrReset, CrActivate,
     WriteAndGoto, CleanupStep, DrJournal, CuCheck, CleanupRoute, CuRemove, CuRemoving,
     CuUnregister, CuPrune, CuBranch, CuCheckpointRef, CuIntegrationRef, RecoveryStep,
     RaExamine, RaNothing
<1>4. CASE (CheckpointStep \/ CloseStep) /\ ~Fail
  BY <1>h, <1>4 DEF StateHeld, CheckpointStep, CkSnapshot, CkCreateRef, CkJournal, CkFinish,
     ResumePoint, CkRecreateRef, CkAdvance, CkReset, CkDeleteRef, CkComplete, FinalWrite,
     WriteAndGoto, WriteAndReturn, CloseStep, ClSnapshot1, ClHead1, ClClean1, ClSnapshot2,
     ClHead2, ClClean2, ClPatch, ClResult
<1>5. CASE EvRun \/ EvLoseRun \/ Settle \/ UNCHANGED vars
  BY <1>5, IdleFrame
<1> QED
  BY <1>1, <1>2, <1>3, <1>4, <1>5 DEF Next, Step, Crash

(* Every step of an integration, and of its recovery, passes that on. *)
LEMMA SettleStep ==
  IInv /\ AnchorHeld /\ KindHeld /\ ResultThere /\ SettleHeld /\ [Next]_vars => SettleHeld'
<1> SUFFICES ASSUME IInv, AnchorHeld, KindHeld, ResultThere, SettleHeld, [Next]_vars,
                    stir' = 0
             PROVE  SettleHeld'
  BY DEF SettleHeld
<1>h. TypeOK
  BY DEF IInv
<1> USE IntegrationCopy DEF Preparing, Moving, Settling, Chosen
<1>1. CASE InBegin
  <2>1. /\ pc' = "inStart" /\ cap' = Started(cap) /\ cap = man /\ man.state = "closed"
        /\ tip[cur] = Base /\ disk.patch = man.result.patch
        /\ UNCHANGED <<man, disk, tip, cur>>
    BY <1>1, CopyIsRead DEF InBegin, Begin, Idle, TargetReady, EnsureSealed,
       SealedArtifacts, targetVars
  <2> QED
    BY <2>1, StartedIs DEF SettleHeld
<1>2. CASE IntegrationStep /\ ~Fail
  <2>s. stir = 0
    BY <1>2, StepFrame DEF Step, envVars
  <2>1. CASE InStart
    BY <2>s, <2>1 DEF InStart, WriteAndGoto, Goto, targetVars, SettleHeld
  <2>2. CASE InPrepare
    <3>1. PICK c \in Candidates(cap) : loc' = [loc EXCEPT !.next = c]
      BY <2>2 DEF InPrepare
    <3>2. /\ loc'.next = c /\ pc = "inPrepare" /\ pc' = "inCreateRef"
          /\ UNCHANGED <<man, cap, disk, tip, cur>>
      BY <2>2, <3>1 DEF InPrepare, Goto, Locals, targetVars
    <3>3. cap.result.kind = "no_change" => c = tip[cur]
      BY <3>1 DEF Candidates
    <3> QED
      BY <2>s, <3>2, <3>3 DEF SettleHeld
  <2>3. CASE InAbort
    <3>1. /\ pc = "inPrepare" /\ pc' = "write" /\ cap' = RolledBack(cap)
          /\ UNCHANGED <<man, disk, tip, cur>>
      BY <2>3 DEF InAbort, Goto, targetVars
    <3>2. man.integration.after = None
      BY <3>1 DEF AnchorHeld
    <3>3. cap'.state = "closed"
      BY <3>1 DEF RolledBack, Manifests
    <3> QED
      BY <3>1, <3>2, <3>3 DEF SettleHeld, HasNot
  <2>4. CASE InCreateRef
    <3>1. /\ pc = "inCreateRef" /\ pc' = "inJournal" /\ cap' = Prepared(cap, loc.next)
          /\ UNCHANGED <<man, loc, disk, tip, cur>>
      BY <1>2, <2>4 DEF InCreateRef, Goto, targetVars
    <3>2. cap.integration # None
      BY <3>1, ManifestAssumption
    <3>3. /\ cap'.result = cap.result /\ cap'.integration.after = loc.next
          /\ cap'.integration.ref = cap.integration.ref
      BY <3>1, <3>2, PreparedIs
    <3> QED
      BY <2>s, <3>1, <3>3 DEF SettleHeld
  <2>5. CASE InJournal
    BY <2>s, <2>5 DEF InJournal, WriteAndGoto, Goto, targetVars, SettleHeld
  <2>6. CASE InCheck
    <3>1. /\ pc = "inCheck" /\ UNCHANGED <<man, cap, disk, tip, cur>>
          /\ tip[cur] = cap.integration.before
          /\ pc' = IF Moves(cap.integration) THEN "inMerge" ELSE "inDone"
      BY <1>2, <2>6 DEF InCheck, Goto, TargetIs, targetVars
    <3>2. pc' = "inDone" => cap.integration.after \in Anc[tip[cur]]
      BY <3>1, Ancestry DEF Moves
    <3> QED
      BY <2>s, <3>1, <3>2 DEF SettleHeld
  <2>7. CASE InMerge
    <3> DEFINE c == cap.integration.after
    <3>1. /\ pc = "inMerge" /\ pc' = "inDone" /\ UNCHANGED <<man, cap, disk, cur>>
          /\ tip' = [tip EXCEPT ![cur] = IF FastForwards(tip[cur], c) THEN c ELSE tip[cur]]
          /\ FastForwards(tip[cur], c) \/ UpToDate(tip[cur], c)
      BY <1>2, <2>7 DEF InMerge, Goto
    <3>2. c \in Commit
      BY <3>1 DEF IInv, Held, LocalsHeld
    <3>3. c \in Anc[tip'[cur]]
      BY <3>1, <3>2, Ancestry DEF UpToDate
    <3> QED
      BY <2>s, <3>1, <3>3 DEF SettleHeld
  <2>8. CASE InDone
    <3>1. /\ pc = "inDone" /\ pc' = "write" /\ cap' = Landed(cap)
          /\ UNCHANGED <<man, disk, tip, cur>>
      BY <1>2, <2>8 DEF InDone, Goto, targetVars
    <3>2. cap'.state = "integrated"
      BY <3>1 DEF Landed, Manifests
    <3>3. Has(man)
      BY <2>s, <3>1, LandedHas
    <3> QED
      BY <3>1, <3>2, <3>3 DEF SettleHeld, Has, MatchesResult
  <2>9. CASE RiDecide
    <3>1. /\ pc = "riDecide" /\ pc' = "riDeleteRef" /\ cap = man
          /\ cap' = Verdict(man) /\ Verdict(man) # None
          /\ UNCHANGED <<man, disk, tip, cur>>
      BY <1>2, <2>9 DEF RiDecide, Goto, targetVars
    <3>2. man.integration.before = Base
      BY <3>1 DEF AnchorHeld, Anchored
    <3>3. CASE cap'.state = "closed"
      <4>1. HasNot(man)
        BY <1>h, <3>1, <3>2, <3>3, VerdictIs DEF HasNot
      <4> QED
        BY <3>1, <3>3, <4>1 DEF SettleHeld, HasNot
    <3>4. CASE cap'.state = "integrated"
      <4>1. Has(man)
        BY <1>h, <3>1, <3>4, VerdictIs, Ancestry DEF Has
      <4> QED
        BY <3>1, <3>4, <4>1 DEF SettleHeld, Has, MatchesResult
    <3> QED
      BY <1>h, <3>1, <3>3, <3>4, VerdictIs
  <2>10. CASE RiDeleteRef
    <3>1. /\ pc = "riDeleteRef" /\ pc' = "write" /\ UNCHANGED <<man, cap, disk, tip, cur>>
      BY <1>2, <2>10 DEF RiDeleteRef, Goto, targetVars
    <3> QED
      BY <2>s, <3>1 DEF SettleHeld, Has, HasNot, MatchesResult
  <2> QED
    BY <1>2, <2>1, <2>2, <2>3, <2>4, <2>5, <2>6, <2>7, <2>8, <2>9, <2>10
       DEF IntegrationStep
<1>3. CASE OutsideMove
  <2>1. pc' = "idle"
    BY <1>h, <1>3, OutsideFrame DEF TypeOK
  <2> QED
    BY <2>1 DEF SettleHeld
<1>4. CASE UNCHANGED <<man, opVars, refVars, wtVars, disk, targetVars, stir>>
  BY <1>4 DEF opVars, refVars, wtVars, targetVars, SettleHeld, Has, HasNot, MatchesResult
<1>5. CASE /\ pc' \notin Preparing \cup Moving \cup {"inDone", "riDeleteRef"}
           /\ ~(pc' = "write" /\ man'.state = "integrating")
  BY <1>5 DEF SettleHeld
<1> QED
  BY <1>1, <1>2, <1>3, <1>4, <1>5, IntegratePath, SettlePath

(* Unless somebody interferes under the very operation: an integration is    *)
(* recorded as landed only when the target's branch has the commit and the *)
(* commit is the sealed result, and as rolled back only when it has not.   *)
THEOREM IntegrationSettledTruthfullyHolds == Spec => IntegrationSettledTruthfully
<1> DEFINE Inv == IInv /\ AnchorHeld /\ KindHeld /\ ResultThere /\ SettleHeld
           Truthful ==
             (man.state = "integrating" /\ stir = 0) =>
               LET j == man.integration
                   history == Anc[tip[j.ref]]
               IN  /\ man'.state = "integrated" =>
                        j.after \in history /\ MatchesResult(man, j.after)
                   /\ man'.state = "closed" =>
                        \/ j.after \in {None, j.before} \/ man.result.kind = "no_change"
                        \/ j.after \notin history
<1>1. Init => Inv
  BY InitIInv DEF Init, AnchorHeld, Anchored, KindHeld, SealPending, ResultThere, SettleHeld,
     Preparing, Moving, Settling, Decided, Unborn
<1>2. Inv /\ [Next]_vars => Inv'
  BY NextIInv, AnchorStep, KindStep, ResultStep, SettleStep
<1>3. Inv /\ [Next]_vars => [Truthful]_vars
  <2> SUFFICES ASSUME Inv, [Next]_vars, man.state = "integrating", stir = 0,
                      man'.state \in {"integrated", "closed"}
               PROVE  Truthful
    OBVIOUS
  <2> DEFINE j == man.integration
  <2>1. man' = cap /\ pc \in Writing
    BY OnlyWrites
  <2>2. pc = "write"
    BY <2>1 DEF Writing, Decided, IInv, Held, StateHeld
  <2>3. CASE man'.state = "integrated"
    <3>1. Has(man)
      BY <2>1, <2>2, <2>3 DEF SettleHeld, Settling
    <3> QED
      BY <2>3, <3>1 DEF Has
  <2>4. CASE man'.state = "closed"
    <3>1. HasNot(man)
      BY <2>1, <2>2, <2>4 DEF SettleHeld, Settling
    <3>2. /\ j \in IntegrationJournal /\ j.before = Base
          /\ j.after # None => Applies(j.after, man.result)
      BY IntegrationCopy DEF AnchorHeld, Anchored
    <3>3. ASSUME j.after # None, man.result.kind # "no_change"
          PROVE  j.after \notin Anc[tip[j.ref]]
      <4>1. j.after \in Commit /\ Parent[j.after] = Base
        BY <3>2, <3>3 DEF IntegrationJournal, MaybeCommit, Applies
      <4> QED
        BY <3>1, <3>3, <4>1, NoLoop, ObjectsAssumption DEF HasNot
    <3> QED
      BY <2>4, <3>3
  <2> QED
    BY <2>3, <2>4
<1> QED
  BY <1>1, <1>2, <1>3, PTL DEF Spec, IntegrationSettledTruthfully
==============================================================================
