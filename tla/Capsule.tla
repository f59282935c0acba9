-------------------------------- MODULE Capsule --------------------------------
(***************************************************************************)
(* One capsule, whole: every operation of CapsuleManager that changes its  *)
(* state, recover, crashes between any two steps, and the outside world.   *)
(***************************************************************************)
EXTENDS Environment, Creation, Checkpoint, Integration, Cleanup

RecoveryOfJournals(state) ==  \* mutant: a creation is nobody's to resume
  CASE state = "checkpointing" -> "ckFinish"
    [] state = "active" -> "raExamine"
    [] state = "integrating" -> "riDecide"
    [] state = "dropping" -> "cuCheck"
    [] OTHER -> "none"

(* recover_capsule_locked: each journal state has its own continuation. *)
RecoveryOf(state) ==
  CASE state = "creating" -> "crExamine"
    [] state = "checkpointing" -> "ckFinish"
    [] state = "active" -> "raExamine"
    [] state = "integrating" -> "riDecide"
    [] state = "dropping" -> "cuCheck"
    [] OTHER -> "none"

RcBegin ==
  /\ RecoveryOf(man.state) # "none"
  /\ Begin("recover", RecoveryOf(man.state))
  /\ loc' = [NoLoc EXCEPT !.orphan = TRUE]
  /\ UNCHANGED <<man, cap, refVars, wtVars, disk, targetVars, run, calm>>

(* recover_active: a leftover checkpoint ref goes; a capsule whose worktree *)
(* is missing or foreign is orphaned.                                      *)
RaExamine ==
  /\ pc = "raExamine"
  /\ \/ /\ Owned(cap) /\ ckRef # None
        /\ ckRef' = None
        /\ UNCHANGED cap
     \/ /\ ~Owned(cap)
        /\ cap' = [cap EXCEPT !.state = "orphaned"]
        /\ UNCHANGED ckRef
  /\ Goto("write")
  /\ UNCHANGED <<man, loc, branch, inRef, wtVars, disk, targetVars, envVars>>

RaNothing == pc = "raExamine" /\ Owned(cap) /\ ckRef = None /\ Fail

RecoveryStep == RaExamine \/ RaNothing
------------------------------------------------------------------------------
Init ==
  /\ man = IF BornActive THEN [Unborn EXCEPT !.state = "active", !.gitDir = TRUE]
           ELSE Unborn
  /\ cap = man /\ pc = "idle" /\ loc = NoLoc
  /\ branch = (IF BornActive THEN Base ELSE None)
  /\ ckRef = None /\ inRef = None
  /\ path = (IF BornActive THEN "ours" ELSE "absent")
  /\ reg = BornActive /\ attached = BornActive
  /\ tree = (IF BornActive THEN TreeOf[Base] ELSE None)
  /\ stale = FALSE
  /\ disk = NoDisk
  /\ tip = [r \in Ref |-> Base] /\ cur \in Ref /\ dirty = FALSE
  /\ run = None /\ stir = 0 /\ calm = FALSE

(* An operation takes the locks. *)
Call ==
  \/ CrBegin \/ CrReplay \/ CkBegin \/ EvidenceStep \/ ClBegin \/ InBegin
  \/ DrBegin \/ DrResume \/ RcBegin

(* The operation under the locks takes its next step. *)
Step ==
  \/ CreationStep \/ CheckpointStep \/ CloseStep \/ IntegrationStep
  \/ CleanupStep \/ RecoveryStep

Next == Call \/ Step \/ EvRun \/ EvLoseRun \/ Crash \/ OutsideMove \/ Settle

Spec == Init /\ [][Next]_vars

(* A running operation goes on, and somebody runs recover after a crash. *)
FairSpec == Spec /\ WF_vars(Step) /\ WF_vars(RcBegin)
==============================================================================
