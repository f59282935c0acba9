----------------------------- MODULE Environment -----------------------------
(***************************************************************************)
(* Everybody who takes no lock: the agent and the owner of the workspace,  *)
(* the owner of the integration target, and whoever can write the state    *)
(* root or the private refs.  Which of them act is a constant of the       *)
(* model; each moves at any time, at most MaxStir times while an operation *)
(* is in progress.                                                         *)
(***************************************************************************)
EXTENDS World

Outside(moves, move) ==
  /\ ~calm
  /\ move \in moves
  /\ Idle \/ stir < MaxStir
  /\ stir' = IF Idle THEN 0 ELSE stir + 1
  /\ UNCHANGED <<man, opVars, run, calm>>

------------------------------------------------------------------------------
(* The agent works in a workspace that has been checked out. *)

AtWork == GitHere /\ tree # None /\ branch # None

AgentEdit ==
  /\ Outside(AgentMoves, "edit") /\ AtWork
  /\ \E t \in Tree \ {tree} : tree' = t
  /\ UNCHANGED <<refVars, path, reg, attached, stale, disk, targetVars>>

(* git add -A; git commit *)
AgentCommit ==
  /\ Outside(AgentMoves, "commit") /\ AtWork /\ attached
  /\ tree # TreeOf[branch]
  /\ \E c \in PatchCommits(branch, Snapshot(branch)) : branch' = c
  /\ stale' = FALSE
  /\ UNCHANGED <<ckRef, inRef, path, reg, attached, tree, disk, targetVars>>

(* git reset --mixed HEAD^ *)
AgentRewind ==
  /\ Outside(AgentMoves, "rewind") /\ AtWork /\ attached
  /\ Parent[branch] # None
  /\ branch' = Parent[branch]
  /\ stale' = FALSE
  /\ UNCHANGED <<ckRef, inRef, path, reg, attached, tree, disk, targetVars>>

(* git checkout --detach, a rebase in progress, and back on the branch. *)
AgentDetach ==
  /\ Outside(AgentMoves, "detach") /\ AtWork
  /\ attached' = ~attached
  /\ UNCHANGED <<refVars, path, reg, tree, stale, disk, targetVars>>

------------------------------------------------------------------------------
(* The workspace directory is moved away, replaced, brought back; stale     *)
(* registrations are pruned by any `git gc`, and then a branch nobody has   *)
(* checked out can be deleted.                                             *)

WorkspaceMove ==
  /\ Outside(AgentMoves, "move")
  /\ \/ path = "ours" /\ path' \in {"moved", "absent", "foreign"}
     \/ path = "moved" /\ reg /\ path' = "ours"
     \/ Missing /\ man.state # "unborn" /\ path' = "foreign"
     \/ path = "foreign" /\ path' = "absent"
  /\ UNCHANGED <<refVars, reg, attached, tree, stale, disk, targetVars>>

OutsidePrune ==
  /\ Outside(AgentMoves, "prune") /\ ~GitHere /\ reg
  /\ reg' = FALSE
  /\ UNCHANGED <<refVars, path, attached, tree, stale, disk, targetVars>>

BranchDeleted ==
  /\ Outside(AgentMoves, "prune") /\ ~reg /\ branch # None
  /\ branch' = None
  /\ UNCHANGED <<ckRef, inRef, wtVars, disk, targetVars>>

(* A private ref is deleted by hand. *)
RefDeleted ==
  /\ Outside(AgentMoves, "unprotect")
  /\ \/ ckRef # None /\ ckRef' = None /\ UNCHANGED inRef
     \/ inRef # None /\ inRef' = None /\ UNCHANGED ckRef
  /\ UNCHANGED <<branch, wtVars, disk, targetVars>>

------------------------------------------------------------------------------
(* The target's owner commits, resets, switches branches and edits; the     *)
(* sealed files are damaged.                                               *)

UserCommit ==
  /\ Outside(UserMoves, "commit") /\ ~dirty
  /\ \E c \in Commit : Parent[c] = tip[cur] /\ tip' = [tip EXCEPT ![cur] = c]
  /\ UNCHANGED <<refVars, wtVars, disk, cur, dirty>>

UserRewind ==
  /\ Outside(UserMoves, "rewind") /\ ~dirty
  /\ Parent[tip[cur]] # None
  /\ tip' = [tip EXCEPT ![cur] = Parent[tip[cur]]]
  /\ UNCHANGED <<refVars, wtVars, disk, cur, dirty>>

UserSwitch ==
  /\ Outside(UserMoves, "switch") /\ ~dirty
  /\ \E r \in Ref \ {cur} : cur' = r
  /\ UNCHANGED <<refVars, wtVars, disk, tip, dirty>>

UserEdit ==
  /\ Outside(UserMoves, "edit")
  /\ dirty' = ~dirty
  /\ UNCHANGED <<refVars, wtVars, disk, tip, cur>>

Tamper ==
  /\ Outside(UserMoves, "tamper")
  /\ disk.patch # None
  /\ \E t \in Tree : disk' = [disk EXCEPT !.patch = Diff(Base, t)]
  /\ UNCHANGED <<refVars, wtVars, targetVars>>

------------------------------------------------------------------------------
(* From some moment on nothing fails and nobody interferes. *)
Settle ==
  /\ MaySettle /\ ~calm /\ Idle
  /\ calm' = TRUE
  /\ UNCHANGED <<man, opVars, refVars, wtVars, disk, targetVars, run, stir>>

OutsideMove ==
  \/ AgentEdit \/ AgentCommit \/ AgentRewind \/ AgentDetach
  \/ WorkspaceMove \/ OutsidePrune \/ BranchDeleted \/ RefDeleted
  \/ UserCommit \/ UserRewind \/ UserSwitch \/ UserEdit \/ Tamper
==============================================================================
