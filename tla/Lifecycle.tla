------------------------------- MODULE Lifecycle -------------------------------
(***************************************************************************)
(* What a capsule promises, with no journal, ref, lock or crash in sight:  *)
(* the lifecycle of docs/architecture.md, a record of checkpoints and      *)
(* evidence that only grows and only before the seal, and a seal that is   *)
(* made once, from that record, and then never changes.                    *)
(***************************************************************************)
EXTENDS FiniteSets

CONSTANTS
  Checkpoint,   \* what may be recorded as a checkpoint
  Attestation,  \* what may be recorded as evidence
  Seal,         \* records with, at least, checkpoints and evidence
  NoSeal

VARIABLES phase, checkpoints, evidence, seal

lifecycleVars == <<phase, checkpoints, evidence, seal>>
record == <<checkpoints, evidence>>

LifecycleInit ==
  /\ phase \in {"unborn", "active"}
  /\ checkpoints = {} /\ evidence = {}
  /\ seal = NoSeal

Move(from, to) == phase \in from /\ phase' = to

Create == Move({"unborn"}, "creating") /\ UNCHANGED <<record, seal>>
Activate == Move({"creating"}, "active") /\ UNCHANGED <<record, seal>>
Orphan == Move({"creating", "active"}, "orphaned") /\ UNCHANGED <<record, seal>>

StartCheckpoint == Move({"active"}, "checkpointing") /\ UNCHANGED <<record, seal>>

FinishCheckpoint ==
  /\ Move({"checkpointing"}, "active")
  /\ \E c \in Checkpoint \ checkpoints : checkpoints' = checkpoints \cup {c}
  /\ UNCHANGED <<evidence, seal>>

AddEvidence ==
  /\ Move({"active"}, "active")
  /\ \E e \in Attestation : evidence' = evidence \cup {e}
  /\ UNCHANGED <<checkpoints, seal>>

Close ==
  /\ Move({"active"}, "closed")
  /\ seal' \in Seal
  /\ seal'.checkpoints = checkpoints /\ seal'.evidence = evidence
  /\ UNCHANGED record

StartIntegration == Move({"closed"}, "integrating") /\ UNCHANGED <<record, seal>>
RollBack == Move({"integrating"}, "closed") /\ UNCHANGED <<record, seal>>
Land == Move({"integrating"}, "integrated") /\ UNCHANGED <<record, seal>>

StartDrop ==
  /\ phase \notin {"unborn", "dropping", "dropped"}
  /\ phase' = "dropping"
  /\ UNCHANGED <<record, seal>>

FinishDrop == Move({"dropping"}, "dropped") /\ UNCHANGED <<record, seal>>

LifecycleNext ==
  \/ Create \/ Activate \/ Orphan \/ StartCheckpoint \/ FinishCheckpoint
  \/ AddEvidence \/ Close \/ StartIntegration \/ RollBack \/ Land
  \/ StartDrop \/ FinishDrop

LifecycleSpec == LifecycleInit /\ [][LifecycleNext]_lifecycleVars
==============================================================================
