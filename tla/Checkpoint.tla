------------------------------ MODULE Checkpoint ------------------------------
(***************************************************************************)
(* CapsuleManager::checkpoint and finish_checkpoint.  The commit is built  *)
(* aside and protected by a ref, the manifest journals it, and only then   *)
(* does the branch move; finish_checkpoint is also how recover resumes.    *)
(***************************************************************************)
EXTENDS World

CkBegin ==
  /\ Begin("checkpoint", "ckSnapshot")
  /\ man.state = "active"
  /\ Owned(man)
  /\ loc' = [NoLoc EXCEPT !.head = branch]
  /\ UNCHANGED <<man, cap, refVars, wtVars, disk, targetVars, run, calm>>

(* The private-index commit of what the workspace holds, on the head read   *)
(* before; an empty change, or a full checkpoint list, is refused.         *)
CkSnapshot ==
  /\ pc = "ckSnapshot"
  /\ \/ /\ GitHere
        /\ Cardinality(cap.checkpoints) < CheckpointCap
        /\ ~Empty(Snapshot(loc.head))
        /\ \E c \in PatchCommits(loc.head, Snapshot(loc.head)) :
             loc' = [loc EXCEPT !.next = c]
        /\ Goto("ckCreateRef")
        /\ UNCHANGED <<man, cap, refVars, wtVars, disk, targetVars, envVars>>
     \/ Fail

Journaled(m, before, after) ==
  [m EXCEPT !.state = "checkpointing",
            !.journal = [before |-> before, after |-> after,
                         patch |-> CommitDiff(before, after)]]

(* Mutant: the commit is journaled but nothing keeps it alive. *)
CkCreateRefForgotten ==
  /\ pc = "ckCreateRef"
  /\ cap' = Journaled(cap, loc.head, loc.next)
  /\ Goto("ckJournal")
  /\ UNCHANGED <<man, loc, refVars, wtVars, disk, targetVars, envVars>>

(* create_ref fails if the ref exists. *)
CkCreateRef ==
  /\ pc = "ckCreateRef"
  /\ \/ /\ ckRef = None
        /\ ckRef' = loc.next
        /\ cap' = Journaled(cap, loc.head, loc.next)
        /\ Goto("ckJournal")
        /\ UNCHANGED <<man, loc, branch, inRef, wtVars, disk, targetVars, envVars>>
     \/ ckRef # None /\ Fail

(* Mutant: the journal is not written before the branch moves. *)
CkJournalLate ==
  /\ pc = "ckJournal" /\ Goto("ckFinish")
  /\ UNCHANGED <<man, cap, loc, refVars, wtVars, disk, targetVars, envVars>>

CkJournal == pc = "ckJournal" /\ WriteAndGoto("ckFinish")

------------------------------------------------------------------------------
(* finish_checkpoint *)

(* The journaled commit still is what the journal says. *)
JournalMatches(j) ==
  Parent[j.after] = j.before /\ CommitDiff(j.before, j.after) = j.patch

(* Mutants of ResumePoint: a moved branch keeps its old index; only the      *)
(* unmoved branch is resumed; any branch is taken to the journaled commit. *)
ResumePointNoReset(j) ==
  CASE branch = j.before /\ ckRef = j.after -> "ckAdvance"
    [] branch = j.before /\ ckRef = None -> "ckRecreateRef"
    [] branch = j.after /\ ckRef \in {None, j.after} -> "ckDeleteRef"
    [] OTHER -> "none"

ResumePointUnmoved(j) ==
  IF branch = j.before /\ ckRef = j.after THEN "ckAdvance" ELSE "none"

ResumePointAnywhere(j) ==
  IF branch = j.before /\ ckRef = j.after THEN "ckAdvance" ELSE "ckReset"

(* Where to resume: the branch has not moved, or it has and the index may   *)
(* lag, or it is somewhere else and nothing is touched.                    *)
ResumePoint(j) ==
  CASE branch = j.before /\ ckRef = j.after -> "ckAdvance"
    [] branch = j.before /\ ckRef = None -> "ckRecreateRef"
    [] branch = j.after /\ ckRef \in {None, j.after} -> "ckReset"
    [] OTHER -> "none"

CkFinish ==
  /\ pc = "ckFinish"
  /\ LET j == cap.journal
         resume == Owned(cap) /\ JournalMatches(j) /\ ResumePoint(j) # "none"
     IN  \/ /\ resume
            /\ Goto(ResumePoint(j))
            /\ loc' = [loc EXCEPT !.pending = ckRef]
            /\ UNCHANGED <<man, cap, refVars, wtVars, disk, targetVars, envVars>>
         \/ ~resume /\ Fail

CkRecreateRef ==
  /\ pc = "ckRecreateRef"
  /\ \/ /\ ckRef = None
        /\ ckRef' = cap.journal.after
        /\ Goto("ckAdvance")
        /\ UNCHANGED <<man, cap, loc, branch, inRef, wtVars, disk, targetVars, envVars>>
     \/ ckRef # None /\ Fail

(* update-ref <branch> after before: a compare and swap. *)
CkAdvance ==
  /\ pc = "ckAdvance"
  /\ LET j == cap.journal
         swap == GitHere /\ branch = j.before
     IN  \/ /\ swap
            /\ branch' = j.after
            /\ stale' = TRUE
            /\ Goto("ckReset")
            /\ UNCHANGED <<man, cap, loc, ckRef, inRef, path, reg, attached, tree,
                           disk, targetVars, envVars>>
         \/ ~swap /\ Fail

(* reset --mixed after: the index, and the branch HEAD names, go to after. *)
ResetMixed(commit) ==
  /\ branch' = IF attached THEN commit ELSE branch
  /\ stale' = FALSE
  /\ UNCHANGED <<path, reg, attached, tree>>

CkReset ==
  /\ pc = "ckReset"
  /\ \/ /\ GitHere
        /\ ResetMixed(cap.journal.after)
        /\ Goto("ckDeleteRef")
        /\ UNCHANGED <<man, cap, loc, ckRef, inRef, disk, targetVars, envVars>>
     \/ ~GitHere /\ Fail

(* The ref goes only if it was there when finish_checkpoint looked, and the *)
(* checkpoint is appended unless it is recorded already.                   *)
MayDrop(j) ==
  /\ GitHere
  /\ loc.pending = None \/ MayDelete(ckRef, j.after)

CompletedJournalKept(m) ==  \* mutant: the journal is not cleared
  [m EXCEPT !.state = "active", !.checkpoints = @ \cup {m.journal.after}]

Completed(m) ==
  [m EXCEPT !.state = "active", !.journal = None,
            !.checkpoints = @ \cup {m.journal.after}]

CkDeleteRef ==
  /\ pc = "ckDeleteRef"
  /\ LET j == cap.journal IN
     \/ /\ MayDrop(j)
        /\ ckRef' = IF loc.pending = None THEN ckRef ELSE None
        /\ Goto("ckComplete")
        /\ UNCHANGED <<man, cap, loc, branch, inRef, wtVars, disk, targetVars, envVars>>
     \/ ~MayDrop(j) /\ Fail

CkComplete ==
  /\ pc = "ckComplete"
  /\ \/ /\ cap.journal.after \notin cap.checkpoints
        /\ cap' = Completed(cap)
        /\ Goto("write")
        /\ UNCHANGED <<man, loc, refVars, wtVars, disk, targetVars, envVars>>
     \/ cap.journal.after \in cap.checkpoints /\ Fail

(* The last write_capsule of checkpoint, and of every operation whose last  *)
(* step it is.                                                             *)
FinalWrite == pc = "write" /\ WriteAndReturn

CheckpointStep ==
  \/ CkSnapshot \/ CkCreateRef \/ CkJournal \/ CkFinish \/ CkRecreateRef
  \/ CkAdvance \/ CkReset \/ CkDeleteRef \/ CkComplete \/ FinalWrite
==============================================================================
