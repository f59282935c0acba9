------------------------------- MODULE Creation -------------------------------
(***************************************************************************)
(* CapsuleManager::create and complete_creating.  The manifest comes       *)
(* first; `git worktree add` then works in several steps, and whoever      *)
(* finds the capsule still creating finishes it only if every trace of     *)
(* Git's work agrees with the reserved base.                               *)
(***************************************************************************)
EXTENDS World

(* A plain create fails where a reserved one, or recovery, marks orphaned. *)
CrBegin ==
  /\ Begin("create", "crManifest")
  /\ man.state = "unborn"
  /\ cap' = InitialCapsule
  /\ \E reserved \in BOOLEAN : loc' = [NoLoc EXCEPT !.orphan = reserved]
  /\ UNCHANGED <<man, refVars, wtVars, disk, targetVars, run, calm>>

(* A replayed reservation resumes the capsule it names. *)
CrReplay ==
  /\ Begin("create", "crExamine")
  /\ man.state = "creating"
  /\ loc' = [NoLoc EXCEPT !.orphan = TRUE]
  /\ UNCHANGED <<man, cap, refVars, wtVars, disk, targetVars, run, calm>>

CrManifest == pc = "crManifest" /\ WriteAndGoto("crExamine")

------------------------------------------------------------------------------
(* complete_creating *)

LearnGitDir(m) == [m EXCEPT !.gitDir = m.gitDir \/ GitHere]

(* is_unchecked_worktree_shape: nothing but the .git file. *)
Unchecked == tree = None

(* An existing worktree is adopted only at the reserved base, clean or not  *)
(* checked out yet.                                                        *)
AdoptableDirty(m) == Owned(LearnGitDir(m))  \* mutant: at any head, clean or not

Adoptable(m) ==
  /\ Owned(LearnGitDir(m))
  /\ branch = Base
  /\ Clean \/ Unchecked

Vacant == Missing /\ branch = None /\ ~reg

CreationRouteAsIs(m) ==  \* mutant: an adopted worktree is not reset
  CASE Vacant -> "crBranch"
    [] Adoptable(m) -> "crActivate"
    [] OTHER -> "crAbandon"

CreationRoute(m) ==
  CASE Vacant -> "crBranch"
    [] Adoptable(m) -> "crCheckout"
    [] OTHER -> "crAbandon"

CrExamine ==
  /\ pc = "crExamine"
  /\ cap' = LearnGitDir(cap)
  /\ loc' = [loc EXCEPT !.adopted = Adoptable(cap)]
  /\ Goto(CreationRoute(cap))
  /\ UNCHANGED <<man, refVars, wtVars, disk, targetVars, envVars>>

(* abandon_creation *)
CrAbandon ==
  /\ pc = "crAbandon"
  /\ \/ /\ loc.orphan
        /\ cap' = [cap EXCEPT !.state = "orphaned"]
        /\ Goto("write")
        /\ UNCHANGED <<man, loc, refVars, wtVars, disk, targetVars, envVars>>
     \/ ~loc.orphan /\ Fail

(* `git worktree add --no-checkout -b`: the branch, then the record and a   *)
(* directory that is not a worktree yet, then the link between the two.    *)
CrBranch ==
  /\ pc = "crBranch"
  /\ \/ /\ Vacant
        /\ branch' = Base
        /\ Goto("crRegister")
        /\ UNCHANGED <<man, cap, loc, ckRef, inRef, wtVars, disk, targetVars, envVars>>
     \/ ~Vacant /\ Fail

CrRegister ==
  /\ pc = "crRegister"
  /\ \/ /\ Missing /\ branch # None
        /\ path' = "foreign"
        /\ reg' = TRUE
        /\ Goto("crLink")
        /\ UNCHANGED <<man, cap, loc, refVars, attached, tree, stale, disk,
                       targetVars, envVars>>
     \/ ~(Missing /\ branch # None) /\ Fail

CrLink ==
  /\ pc = "crLink"
  /\ \/ /\ path = "foreign" /\ reg
        /\ path' = "ours"
        /\ attached' = TRUE
        /\ tree' = None
        /\ Goto("crCheckout")
        /\ UNCHANGED <<man, cap, loc, refVars, reg, stale, disk, targetVars, envVars>>
     \/ ~(path = "foreign" /\ reg) /\ Fail

(* reset --hard <base>, some of the files and then all of them. *)
CrCheckout ==
  /\ pc = "crCheckout"
  /\ \/ /\ GitHere
        /\ \E t \in Tree : tree' = t
        /\ stale' = TRUE
        /\ Goto("crReset")
        /\ UNCHANGED <<man, cap, loc, refVars, path, reg, attached, disk,
                       targetVars, envVars>>
     \/ ~GitHere /\ Fail

CrReset ==
  /\ pc = "crReset"
  /\ \/ /\ GitHere
        /\ branch' = IF attached THEN Base ELSE branch
        /\ tree' = TreeOf[Base]
        /\ stale' = FALSE
        /\ Goto("crActivate")
        /\ UNCHANGED <<man, cap, loc, ckRef, inRef, path, reg, attached, disk,
                       targetVars, envVars>>
     \/ ~GitHere /\ Fail

(* activate_created_capsule; a worktree just added proves its ownership     *)
(* first, an adopted one did before it was reset.                          *)
CrActivate ==
  /\ pc = "crActivate"
  /\ LET m == LearnGitDir(cap)
         proven == loc.adopted \/ Owned(m)
     IN  \/ /\ proven
            /\ cap' = [m EXCEPT !.state = "active"]
            /\ Goto("write")
            /\ UNCHANGED <<man, loc, refVars, wtVars, disk, targetVars, envVars>>
         \/ ~proven /\ Fail

CreationStep ==
  \/ CrManifest \/ CrExamine \/ CrAbandon \/ CrBranch \/ CrRegister
  \/ CrLink \/ CrCheckout \/ CrReset \/ CrActivate
==============================================================================
