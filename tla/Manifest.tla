------------------------------- MODULE Manifest -------------------------------
(***************************************************************************)
(* The durable manifest capsule.json: its fields, the rules a reader       *)
(* enforces on them, and what the journals inside it record.               *)
(***************************************************************************)
EXTENDS Objects

CONSTANT Ref   \* branches a target worktree may have checked out

States ==
  {"creating", "active", "checkpointing", "closed", "integrating",
   "integrated", "orphaned", "dropping", "dropped"}

(* CheckpointJournal, Integration and Cleanup: the three transition journals. *)
CheckpointJournal == [before : Commit, after : Commit, patch : Patch]
IntegrationJournal == [ref : Ref, before : Commit, after : MaybeCommit]
CleanupJournal == [head : MaybeCommit, sealed : BOOLEAN]

(* One evidence record.  `saw` is not stored by the code: it is the patch   *)
(* the command really ran on, kept to say what the record is worth.        *)
Evidence == [patch : Patch, passed : BOOLEAN, executed : BOOLEAN, saw : Patch]

(* CapsuleResult; the manifest's ResultRef pins it by digest, so the model  *)
(* lets the manifest hold the result itself.                               *)
Kinds == {"no_change", "commit", "patch"}
Results == [kind : Kinds, head : Commit, patch : Patch,
            evidence : SUBSET Evidence, checkpoints : SUBSET Commit]

Manifests ==
  [state : States \cup {"unborn"}, gitDir : BOOLEAN,
   checkpoints : SUBSET Commit, evidence : SUBSET Evidence,
   journal : CheckpointJournal \cup {None},
   result : Results \cup {None},
   integration : IntegrationJournal \cup {None},
   cleanup : CleanupJournal \cup {None}]

(* An absent journal or result is told apart from any that is there. *)
ASSUME ManifestAssumption ==
  /\ None \notin CheckpointJournal
  /\ None \notin IntegrationJournal
  /\ None \notin CleanupJournal
  /\ None \notin Results

(* No capsule directory holds a manifest yet. *)
Unborn ==
  [state |-> "unborn", gitDir |-> FALSE, checkpoints |-> {}, evidence |-> {},
   journal |-> None, result |-> None, integration |-> None, cleanup |-> None]

InitialCapsule == [Unborn EXCEPT !.state = "creating"]

------------------------------------------------------------------------------
(* read_capsule refuses a manifest that breaks one of these rules, and      *)
(* write_capsule does not test them.                                       *)
CheckpointConsistent(m) ==
  /\ m.journal # None => m.state \in {"checkpointing", "dropping"}
  /\ m.state = "checkpointing" => m.journal # None

IntegrationConsistent(m) ==
  /\ m.integration # None =>
       m.state \in {"integrating", "integrated", "dropping", "dropped"}
  /\ m.state \in {"integrating", "integrated"} => m.integration # None

CleanupConsistent(m) == m.state = "dropping" <=> m.cleanup # None

IdentityKnown(m) ==
  m.state \in {"active", "checkpointing", "closed", "integrating", "integrated"}
    => m.gitDir

Readable(m) ==
  /\ CheckpointConsistent(m)
  /\ IntegrationConsistent(m)
  /\ CleanupConsistent(m)
  /\ IdentityKnown(m)

(* A head the manifest itself names, so that a branch left there may go. *)
RecordedHead(m, head) ==
  \/ head = Base
  \/ head \in m.checkpoints
  \/ m.result # None /\ m.result.head = head
  \/ m.journal # None /\ head \in {m.journal.before, m.journal.after}
==============================================================================
