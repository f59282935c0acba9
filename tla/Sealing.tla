-------------------------------- MODULE Sealing --------------------------------
(***************************************************************************)
(* Evidence and close.  A command recorded as executed evidence runs with  *)
(* no lock held; close observes the workspace twice and seals only what    *)
(* both observations agree on.                                             *)
(***************************************************************************)
EXTENDS World

(* add_evidence runs the command, unlocked, in an owned active workspace.   *)
(* One command is in flight at a time.                                     *)
EvRun ==
  /\ "evidence" \in Operations
  /\ run = None
  /\ Readable(man) /\ man.state = "active" /\ Owned(man)
  /\ \E ok \in BOOLEAN : run' = [passed |-> ok, saw |-> Snapshot(Base)]
  /\ UNCHANGED <<man, opVars, refVars, wtVars, disk, targetVars, stir, calm>>

MayRecord(m) == Cardinality(m.evidence) < EvidenceCap

Recorded(m, passed, executed, saw) ==
  [m EXCEPT !.evidence = @ \cup {[patch |-> Snapshot(Base), passed |-> passed,
                                  executed |-> executed, saw |-> saw]}]

(* The record is bound to the patch found under the locks. *)
EvRecordRun ==
  /\ Begin("evidence", "write")
  /\ run # None
  /\ man.state = "active" /\ Owned(man) /\ MayRecord(man)
  /\ cap' = Recorded(cap, run.passed, TRUE, run.saw)
  /\ run' = None
  /\ UNCHANGED <<man, loc, refVars, wtVars, disk, targetVars, calm>>

(* ... and when the capsule has moved on meanwhile, the run is lost. *)
EvLoseRun ==
  /\ Idle /\ run # None
  /\ ~(man.state = "active" /\ Owned(man) /\ MayRecord(man))
  /\ run' = None
  /\ UNCHANGED <<man, opVars, refVars, wtVars, disk, targetVars, stir, calm>>

(* A claim: the caller's word, nothing is run. *)
EvClaim ==
  /\ Begin("evidence", "write")
  /\ man.state = "active" /\ Owned(man) /\ MayRecord(man)
  /\ \E ok \in BOOLEAN : cap' = Recorded(cap, ok, FALSE, Snapshot(Base))
  /\ UNCHANGED <<man, loc, refVars, wtVars, disk, targetVars, run, calm>>

EvidenceStep == EvRecordRun \/ EvClaim

------------------------------------------------------------------------------
(* The gates of close. *)

AllSuccessful(evidence) ==
  evidence # {} /\ \A e \in evidence : e.passed

SupportsAnyPatch(e, p, executed) ==  \* mutant: bound to whatever patch
  e.passed /\ (executed => e.executed)

(* A passing record, executed if required, bound to this patch. *)
Supports(e, p, executed) ==
  e.passed /\ (executed => e.executed) /\ e.patch = p

GateOpen(gate, evidence, p) ==
  CASE gate = "current" -> \E e \in evidence : Supports(e, p, FALSE)
    [] gate = "executed" -> \E e \in evidence : Supports(e, p, TRUE)
    [] OTHER -> TRUE

ClBegin ==
  /\ Begin("close", "clSnapshot1")
  /\ man.state = "active"
  /\ Owned(man)
  /\ \E gate \in Gates :
       /\ gate = "successful" => AllSuccessful(man.evidence)
       /\ loc' = [NoLoc EXCEPT !.gate = gate]
  /\ UNCHANGED <<man, cap, refVars, wtVars, disk, targetVars, run, calm>>

(* close_snapshot_transaction: the snapshot, the head and whether the        *)
(* workspace is clean, one after the other, twice.                         *)
ClSnapshot1 ==
  /\ pc = "clSnapshot1"
  /\ \/ /\ GitHere
        /\ loc' = [loc EXCEPT !.tree = tree]
        /\ Goto("clHead1")
        /\ UNCHANGED <<man, cap, refVars, wtVars, disk, targetVars, envVars>>
     \/ ~GitHere /\ Fail

HasHead == GitHere /\ branch # None

ClHead1 ==
  /\ pc = "clHead1"
  /\ \/ /\ HasHead
        /\ loc' = [loc EXCEPT !.head = branch]
        /\ Goto("clClean1")
        /\ UNCHANGED <<man, cap, refVars, wtVars, disk, targetVars, envVars>>
     \/ ~HasHead /\ Fail

ClClean1 ==
  /\ pc = "clClean1"
  /\ \/ /\ HasHead
        /\ loc' = [loc EXCEPT !.clean = Clean]
        /\ Goto("clSnapshot2")
        /\ UNCHANGED <<man, cap, refVars, wtVars, disk, targetVars, envVars>>
     \/ ~HasHead /\ Fail

(* require_stable_close_snapshot, its three comparisons; each is made here   *)
(* with the second reading, nothing happens between them in the code.      *)
StableContent == tree = loc.tree
StableHead == branch = loc.head
StableCleanAssumed == TRUE  \* mutant: only the second answer counts
StableClean == Clean = loc.clean

ClSnapshot2 ==
  /\ pc = "clSnapshot2"
  /\ \/ /\ GitHere /\ StableContent
        /\ Goto("clHead2")
        /\ UNCHANGED <<man, cap, loc, refVars, wtVars, disk, targetVars, envVars>>
     \/ ~(GitHere /\ StableContent) /\ Fail

KindOf(p, clean) ==
  IF Empty(p) THEN "no_change" ELSE IF clean THEN "commit" ELSE "patch"

Sealed(m, head, p, clean) ==
  [m EXCEPT !.state = "closed",
            !.result = [kind |-> KindOf(p, clean), head |-> head, patch |-> p,
                        evidence |-> m.evidence, checkpoints |-> m.checkpoints]]

ClHead2 ==
  /\ pc = "clHead2"
  /\ \/ /\ HasHead /\ StableHead
        /\ Goto("clClean2")
        /\ UNCHANGED <<man, cap, loc, refVars, wtVars, disk, targetVars, envVars>>
     \/ ~(HasHead /\ StableHead) /\ Fail

ClClean2 ==
  /\ pc = "clClean2"
  /\ LET p == Diff(Base, loc.tree)
         seal == HasHead /\ StableClean /\ GateOpen(loc.gate, cap.evidence, p)
     IN  \/ /\ seal
            /\ cap' = Sealed(cap, loc.head, p, Clean)
            /\ Goto("clPatch")
            /\ UNCHANGED <<man, loc, refVars, wtVars, disk, targetVars, envVars>>
         \/ ~seal /\ Fail

(* Mutant: a patch left by an earlier close is kept. *)
ClPatchNoClobber ==
  /\ pc = "clPatch"
  /\ disk' = IF disk.patch = None THEN [disk EXCEPT !.patch = cap.result.patch]
             ELSE disk
  /\ Goto("clResult")
  /\ UNCHANGED <<man, cap, loc, refVars, wtVars, targetVars, envVars>>

(* The artifacts are in place before the manifest names them. *)
ClPatch ==
  /\ pc = "clPatch"
  /\ disk' = [disk EXCEPT !.patch = cap.result.patch]
  /\ Goto("clResult")
  /\ UNCHANGED <<man, cap, loc, refVars, wtVars, targetVars, envVars>>

ClResult ==
  /\ pc = "clResult"
  /\ disk' = [disk EXCEPT !.result = cap.result]
  /\ Goto("write")
  /\ UNCHANGED <<man, cap, loc, refVars, wtVars, targetVars, envVars>>

CloseStep ==
  \/ ClSnapshot1 \/ ClHead1 \/ ClClean1 \/ ClSnapshot2 \/ ClHead2 \/ ClClean2
  \/ ClPatch \/ ClResult

------------------------------------------------------------------------------
(* sealed_artifact_snapshot: the files are the ones the manifest pinned. *)
SealedArtifacts(m) ==
  /\ m.result # None
  /\ disk.patch = m.result.patch
  /\ disk.result = m.result
  /\ m.result.checkpoints = m.checkpoints
  /\ m.result.evidence = m.evidence

(* ensure_sealed and seal_matches: besides, the live workspace still is     *)
(* what was sealed.                                                        *)
EnsureSealed(m) ==
  /\ SealedArtifacts(m)
  /\ Owned(m)
  /\ m.result.head = branch
  /\ m.result.patch = Snapshot(Base)
==============================================================================
