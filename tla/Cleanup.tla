------------------------------- MODULE Cleanup -------------------------------
(***************************************************************************)
(* CapsuleManager::drop_capsule and finish_cleanup.  The decision to drop  *)
(* is journaled with the branch head it was made at and with whether the   *)
(* workspace must still equal its seal; removal then happens in steps any  *)
(* of which may be the last before a crash.                                *)
(***************************************************************************)
EXTENDS Sealing

Unforced == {"closed", "integrated", "orphaned"}

(* What is at workspace_path, or Git's record of it, is this capsule's.     *)
DropIdentified(m, sealed) ==
  \/ GitHere /\ Owned(m)
  \/ /\ Missing /\ ~sealed
     /\ IF reg THEN RegisteredRecord(branch)
        ELSE branch # None => RecordedHead(m, branch)

Dropping(m, sealed) ==
  [m EXCEPT !.state = "dropping",
            !.cleanup = [head |-> branch, sealed |-> sealed]]

(* A creation that died before it stored workspace_git_dir learns it here. *)
KnowingGitDir(m) ==
  [m EXCEPT !.gitDir = m.gitDir \/ (m.state = "creating" /\ GitHere)]

DrBegin ==
  /\ Begin("drop", "drJournal")
  /\ \E force \in BOOLEAN :
       LET sealed == man.state \in {"closed", "integrated"} /\ ~force
           m == KnowingGitDir(cap)
       IN  /\ man.state \in Unforced \/ (force /\ man.state \in States \ {"dropping", "dropped"})
           /\ sealed => EnsureSealed(man)
           /\ DropIdentified(m, sealed)
           /\ cap' = Dropping(m, sealed)
  /\ UNCHANGED <<man, loc, refVars, wtVars, disk, targetVars, run, calm>>

(* A drop that finds its own journal resumes it. *)
DrResume ==
  /\ Begin("drop", "cuCheck")
  /\ man.state = "dropping"
  /\ UNCHANGED <<man, cap, loc, refVars, wtVars, disk, targetVars, run, calm>>

DrJournal == pc = "drJournal" /\ WriteAndGoto("cuCheck")

------------------------------------------------------------------------------
(* finish_cleanup *)

(* The live worktree is owned, at the journaled head, and still sealed if   *)
(* the decision to drop rested on that.                                    *)
RemovalProvenOnce(m) ==  \* mutant: the seal was checked before the journal
  Owned(m) /\ branch = m.cleanup.head

RemovalProven(m) ==
  /\ Owned(m)
  /\ branch = m.cleanup.head
  /\ m.cleanup.sealed => EnsureSealed(m)

(* Mutants of CleanupRoute: what is not a worktree counts as missing; a      *)
(* cleanup that has removed the worktree is not resumed.                   *)
CleanupRouteLenient(m) ==
  CASE GitHere /\ RemovalProven(m) -> "cuRemove"
    [] ~GitHere /\ reg /\ RegisteredRecord(m.cleanup.head) -> "cuPrune"
    [] ~GitHere /\ ~reg -> "cuBranch"
    [] OTHER -> "none"

CleanupRouteRegistered(m) ==
  CASE GitHere /\ RemovalProven(m) -> "cuRemove"
    [] Missing /\ reg /\ RegisteredRecord(m.cleanup.head) -> "cuPrune"
    [] OTHER -> "none"

CleanupRoute(m) ==
  CASE GitHere /\ RemovalProven(m) -> "cuRemove"
    [] Missing /\ reg /\ RegisteredRecord(m.cleanup.head) -> "cuPrune"
    [] Missing /\ ~reg -> "cuBranch"
    [] OTHER -> "none"

CuCheck ==
  /\ pc = "cuCheck"
  /\ LET next == CleanupRoute(cap)
     IN  \/ /\ next # "none"
            /\ Goto(next)
            /\ UNCHANGED <<man, cap, loc, refVars, wtVars, disk, targetVars, envVars>>
         \/ next = "none" /\ Fail

(* `git worktree remove --force`: refuses what is not a worktree, deletes   *)
(* the files (a crash leaves a directory that no longer proves anything),  *)
(* then its record.                                                        *)
CuRemove ==
  /\ pc = "cuRemove"
  /\ \/ /\ GitHere /\ reg
        /\ path' = "foreign"
        /\ Goto("cuRemoving")
        /\ UNCHANGED <<man, cap, loc, refVars, reg, attached, tree, stale, disk,
                       targetVars, envVars>>
     \/ ~(GitHere /\ reg) /\ Fail

CuRemoving ==
  /\ pc = "cuRemoving"
  /\ path' = "absent"
  /\ Goto("cuUnregister")
  /\ UNCHANGED <<man, cap, loc, refVars, reg, attached, tree, stale, disk,
                 targetVars, envVars>>

CuUnregister ==
  /\ pc = "cuUnregister"
  /\ reg' = FALSE
  /\ Goto("cuBranch")
  /\ UNCHANGED <<man, cap, loc, refVars, path, attached, tree, stale, disk,
                 targetVars, envVars>>

(* `git worktree prune` forgets a record whose directory is not there. *)
CuPrune ==
  /\ pc = "cuPrune"
  /\ \/ /\ ~GitHere
        /\ reg' = FALSE
        /\ Goto("cuBranch")
        /\ UNCHANGED <<man, cap, loc, refVars, path, attached, tree, stale, disk,
                       targetVars, envVars>>
     \/ GitHere /\ Fail

(* delete_branch_if_matches, or the proof that there is no branch. *)
BranchMayGo(expected) ==
  \/ branch = None
  \/ expected # None /\ branch = expected /\ ~(reg /\ attached)

CuBranch ==
  /\ pc = "cuBranch"
  /\ \/ /\ BranchMayGo(cap.cleanup.head)
        /\ branch' = None
        /\ Goto("cuCheckpointRef")
        /\ UNCHANGED <<man, cap, loc, ckRef, inRef, wtVars, disk, targetVars, envVars>>
     \/ ~BranchMayGo(cap.cleanup.head) /\ Fail

(* Mutant: a checkpoint that never finished leaves its ref behind. *)
CuCheckpointRefKept ==
  /\ pc = "cuCheckpointRef"
  /\ reg' = (reg /\ GitHere)
  /\ Goto("cuIntegrationRef")
  /\ UNCHANGED <<man, cap, loc, refVars, path, attached, tree, stale, disk,
                 targetVars, envVars>>

(* The second prune, and the first of the pending refs. *)
CuCheckpointRef ==
  /\ pc = "cuCheckpointRef"
  /\ ckRef' = None
  /\ reg' = (reg /\ GitHere)
  /\ Goto("cuIntegrationRef")
  /\ UNCHANGED <<man, cap, loc, branch, inRef, path, attached, tree, stale, disk,
                 targetVars, envVars>>

CuIntegrationRef ==
  /\ pc = "cuIntegrationRef"
  /\ inRef' = None
  /\ cap' = [cap EXCEPT !.state = "dropped", !.journal = None, !.cleanup = None]
  /\ Goto("write")
  /\ UNCHANGED <<man, loc, branch, ckRef, wtVars, disk, targetVars, envVars>>

CleanupStep ==
  \/ DrJournal \/ CuCheck \/ CuRemove \/ CuRemoving \/ CuUnregister
  \/ CuPrune \/ CuBranch \/ CuCheckpointRef \/ CuIntegrationRef
==============================================================================
