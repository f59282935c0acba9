------------------------------- MODULE Capacity -------------------------------
(***************************************************************************)
(* The manifest as so many bytes.  Every write of it is refused above a    *)
(* cap, and a transition writes it twice: once with its journal, and once, *)
(* after what it does in Git, without.  The model is of one capsule whose  *)
(* worktree and target nobody else touches; a crash is a transition that   *)
(* goes on as its recovery, which writes what the operation would have.    *)
(***************************************************************************)
EXTENDS Naturals

CONSTANTS
  Cap,           \* JSON_CAP
  Bare,          \* the fields every manifest has, but for the name of the state
  Messages,      \* the bytes of a checkpoint's message and author
  Records,       \* the bytes of an evidence record
  Results,       \* the bytes of a result reference
  Integrations   \* the bytes of an integration's journal when it is started

VARIABLES
  man,    \* the manifest on disk: its state, and the bytes of each part
  moved   \* the target has been fast-forwarded

vars == <<man, moved>>

(* The bytes of a part, in the pretty-printed JSON, with object identifiers  *)
(* of 40 digits and times of 10.  A checkpoint's journal repeats its record *)
(* and adds the parent and the digest of the patch.                        *)
NameLength ==
  [active |-> 6, checkpointing |-> 13, closed |-> 6, integrating |-> 11,
   integrated |-> 10, orphaned |-> 8, dropping |-> 8, dropped |-> 7]

Journal(n) == n + 336
CheckpointRecord(m, n) == n + IF m.checkpoints = 0 THEN 204 ELSE 181
ClosedAt == 32
HeadAfter == 69
IntegratedAt == 38
Cleanups == {82, 146}
DroppedAt == 33

Size(m) ==
  Bare + NameLength[m.state] + m.checkpoints + m.journal + m.evidence + m.result
    + m.integration + m.after + m.integrated + m.cleanup + m.dropped

Fits(m) == Size(m) <= Cap

(* write_capsule: what does not fit is not written. *)
Write(m) == Fits(m) /\ man' = m /\ UNCHANGED moved

Init ==
  /\ man = [state |-> "active", checkpoints |-> 0, journal |-> 0, evidence |-> 0,
            result |-> 0, integration |-> 0, after |-> 0, integrated |-> 0,
            cleanup |-> 0, dropped |-> 0]
  /\ Fits(man)
  /\ moved = FALSE

------------------------------------------------------------------------------
AddEvidence(r) ==
  man.state = "active" /\ Write([man EXCEPT !.evidence = @ + r])

Completed(m, n) ==
  [m EXCEPT !.state = "active", !.journal = 0, !.checkpoints = @ + CheckpointRecord(m, n)]

(* project_checkpoint: both manifests are tried before the first is written. *)
Checkpoint(n) ==
  /\ man.state = "active"
  /\ Fits(Completed(man, n))
  /\ Write([man EXCEPT !.state = "checkpointing", !.journal = Journal(n)])

FinishCheckpoint ==
  /\ man.state = "checkpointing"
  /\ \E n \in Messages : man.journal = Journal(n) /\ Write(Completed(man, n))

Close ==
  /\ man.state = "active"
  /\ \E r \in Results : Write([man EXCEPT !.state = "closed", !.result = r + ClosedAt])

Orphan == man.state = "active" /\ Write([man EXCEPT !.state = "orphaned"])

------------------------------------------------------------------------------
StartIntegration(i) ==
  man.state = "closed" /\ Write([man EXCEPT !.state = "integrating", !.integration = i])

PrepareIntegration ==
  /\ man.state = "integrating" /\ man.after = 0
  /\ Write([man EXCEPT !.after = HeadAfter])

(* The fast-forward, which nothing takes back.  A result without a change    *)
(* leaves the target where it is, and is done as well.                     *)
FastForward ==
  /\ man.state = "integrating" /\ man.after # 0 /\ ~moved
  /\ moved' = TRUE /\ UNCHANGED man

Integrated(m) == [m EXCEPT !.state = "integrated", !.integrated = IntegratedAt]

FinishIntegration == man.state = "integrating" /\ moved /\ Write(Integrated(man))

(* abort_integration, and recovery of one whose target has not moved. *)
Restored(m) == [m EXCEPT !.state = "closed", !.integration = 0, !.after = 0]

RestoreClosed == man.state = "integrating" /\ ~moved /\ Write(Restored(man))

------------------------------------------------------------------------------
Drop ==
  /\ man.state \notin {"dropping", "dropped"}
  /\ \E n \in Cleanups : Write([man EXCEPT !.state = "dropping", !.cleanup = n])

Cleaned(m) ==
  [m EXCEPT !.state = "dropped", !.journal = 0, !.cleanup = 0, !.dropped = DroppedAt]

FinishCleanup == man.state = "dropping" /\ Write(Cleaned(man))

------------------------------------------------------------------------------
Next ==
  \/ \E r \in Records : AddEvidence(r)
  \/ \E n \in Messages : Checkpoint(n)
  \/ FinishCheckpoint \/ Close \/ Orphan
  \/ \E i \in Integrations : StartIntegration(i)
  \/ PrepareIntegration \/ FastForward \/ FinishIntegration \/ RestoreClosed
  \/ Drop \/ FinishCleanup

Spec == Init /\ [][Next]_vars

------------------------------------------------------------------------------
(* state.rs:613-618: no transition takes an irreversible side effect in Git *)
(* that its own manifest cannot record, to be stuck in a journal state which*)
(* every retry fails to complete.                                          *)
CheckpointRecordable ==
  man.state = "checkpointing" =>
    \E n \in Messages : man.journal = Journal(n) /\ Fits(Completed(man, n))

CleanupRecordable == man.state = "dropping" => Fits(Cleaned(man))

IntegrationRecordable == man.state = "integrating" /\ moved => Fits(Integrated(man))

SideEffectsRecordable ==
  CheckpointRecordable /\ CleanupRecordable /\ IntegrationRecordable
==============================================================================
