------------------------------ MODULE Integration ------------------------------
(***************************************************************************)
(* CapsuleManager::integrate and recover_integrating.  The commit that     *)
(* applies the sealed patch is prepared aside, protected by a ref and      *)
(* journaled; the target is looked at once more; then it fast-forwards.    *)
(***************************************************************************)
EXTENDS Sealing

(* What the manifest says of the target still holds; recovery asks the same. *)
TargetClean(ref) == ~dirty  \* mutant: whatever branch is checked out
TargetIs(ref) == cur = ref /\ ~dirty

StartedUnanchored(m) ==  \* mutant: where the target was is not recorded
  [m EXCEPT !.state = "integrating",
            !.integration = [ref |-> cur, before |-> None, after |-> None]]

Started(m) ==
  [m EXCEPT !.state = "integrating",
            !.integration = [ref |-> cur, before |-> tip[cur], after |-> None]]

Prepared(m, commit) == [m EXCEPT !.integration.after = commit]
RolledBackUnsealed(m) ==  \* mutant: rolled back too far
  [m EXCEPT !.state = "active", !.integration = None]
RolledBack(m) == [m EXCEPT !.state = "closed", !.integration = None]
Landed(m) == [m EXCEPT !.state = "integrated"]

(* Protected by inRef only when there is a commit to protect. *)
Moves(j) == j.after # j.before

(* validate_integration_target: clean, and still at the pinned base. *)
TargetReady == ~dirty /\ tip[cur] = Base

InBegin ==
  /\ Begin("integrate", "inStart")
  /\ man.state = "closed"
  /\ EnsureSealed(man)
  /\ TargetReady
  /\ cap' = Started(cap)
  /\ UNCHANGED <<man, loc, refVars, wtVars, disk, targetVars, run, calm>>

InStart == pc = "inStart" /\ WriteAndGoto("inPrepare")

(* prepare_integration: no commit for an empty result, else one commit on   *)
(* the pinned base that reproduces the sealed patch.                       *)
Candidates(m) ==
  IF m.result.kind = "no_change" THEN {tip[cur]}
  ELSE {c \in PatchCommits(Base, m.result.patch) :
          CommitDiff(Base, c) = m.result.patch}

InPrepare ==
  /\ pc = "inPrepare"
  /\ \E c \in Candidates(cap) : loc' = [loc EXCEPT !.next = c]
  /\ Goto("inCreateRef")
  /\ UNCHANGED <<man, cap, refVars, wtVars, disk, targetVars, envVars>>

(* abort_integration, when the commit cannot be prepared. *)
InAbort ==
  /\ pc = "inPrepare"
  /\ cap' = RolledBack(cap)
  /\ Goto("write")
  /\ UNCHANGED <<man, loc, refVars, wtVars, disk, targetVars, envVars>>

InCreateRef ==
  /\ pc = "inCreateRef"
  /\ LET needed == loc.next # cap.integration.before IN
     \/ /\ needed => inRef = None
        /\ inRef' = IF needed THEN loc.next ELSE inRef
        /\ cap' = Prepared(cap, loc.next)
        /\ Goto("inJournal")
        /\ UNCHANGED <<man, loc, branch, ckRef, wtVars, disk, targetVars, envVars>>
     \/ needed /\ inRef # None /\ Fail

(* Mutant: the prepared commit is not journaled before the target moves. *)
InJournalLate ==
  /\ pc = "inJournal" /\ Goto("inCheck")
  /\ UNCHANGED <<man, cap, loc, refVars, wtVars, disk, targetVars, envVars>>

InJournal == pc = "inJournal" /\ WriteAndGoto("inCheck")

(* The target is revalidated immediately before it is changed. *)
InCheck ==
  /\ pc = "inCheck"
  /\ LET j == cap.integration
         same == TargetIs(j.ref) /\ tip[cur] = j.before
     IN  \/ /\ same
            /\ Goto(IF Moves(j) THEN "inMerge" ELSE "inDone")
            /\ UNCHANGED <<man, cap, loc, refVars, wtVars, disk, targetVars, envVars>>
         \/ ~same /\ Fail

(* fast_forward, on whatever branch the target has checked out by now. *)
InMerge ==
  /\ pc = "inMerge"
  /\ LET c == cap.integration.after
         h == tip[cur]
         merged == FastForwards(h, c) \/ UpToDate(h, c)
     IN  \/ /\ merged
            /\ tip' = [tip EXCEPT ![cur] = IF FastForwards(h, c) THEN c ELSE h]
            /\ Goto("inDone")
            /\ UNCHANGED <<man, cap, loc, refVars, wtVars, disk, cur, dirty, envVars>>
         \/ ~merged /\ Fail

(* delete_ref_if_matches, then the manifest. *)
InDone ==
  /\ pc = "inDone"
  /\ LET j == cap.integration
         may == Moves(j) => MayDelete(inRef, j.after)
     IN  \/ /\ may
            /\ inRef' = IF Moves(j) THEN None ELSE inRef
            /\ cap' = Landed(cap)
            /\ Goto("write")
            /\ UNCHANGED <<man, loc, branch, ckRef, wtVars, disk, targetVars, envVars>>
         \/ ~may /\ Fail

------------------------------------------------------------------------------
(* recover_integrating *)

(* integration_matches_result *)
MatchesResult(m, head) ==
  IF head = m.integration.before
  THEN m.result.kind = "no_change" /\ Empty(disk.patch)
  ELSE /\ Parent[head] = m.integration.before
       /\ CommitDiff(m.integration.before, head) = disk.patch

(* Nothing has reached the target: no commit had been journaled, or the sealed *)
(* one is still protected by its ref.                                      *)
RollsBack(m) ==
  LET j == m.integration IN
  /\ TargetIs(j.ref) /\ tip[cur] = j.before
  /\ j.after # None => /\ SealedArtifacts(m) /\ j.after # j.before
                       /\ inRef = j.after

(* The target is at the journaled commit, and that is the sealed result.   *)
Lands(m) ==
  LET j == m.integration IN
  /\ TargetIs(j.ref) /\ tip[cur] = j.after
  /\ SealedArtifacts(m)
  /\ Moves(j) => inRef \in {None, j.after}
  /\ MatchesResult(m, j.after)

(* What recovery makes of an interrupted integration: the manifest it will  *)
(* write, or None when it leaves everything for inspection.                *)
Verdict(m) ==
  CASE RollsBack(m) -> RolledBack(m)
    [] Lands(m)     -> Landed(m)
    [] OTHER        -> None

RiDecide ==
  /\ pc = "riDecide"
  /\ \/ /\ Verdict(cap) # None
        /\ cap' = Verdict(cap)
        /\ loc' = [loc EXCEPT !.next = cap.integration.after,
                              !.head = cap.integration.before]
        /\ Goto("riDeleteRef")
        /\ UNCHANGED <<man, refVars, wtVars, disk, targetVars, envVars>>
     \/ Verdict(cap) = None /\ Fail

(* Whatever ref was prepared goes before the manifest is written. *)
RiDeleteRef ==
  /\ pc = "riDeleteRef"
  /\ LET drops == loc.next # loc.head
         may == (loc.next # None /\ drops) => MayDelete(inRef, loc.next)
     IN  \/ /\ may
            /\ inRef' = IF drops THEN None ELSE inRef
            /\ Goto("write")
            /\ UNCHANGED <<man, cap, loc, branch, ckRef, wtVars, disk, targetVars, envVars>>
         \/ ~may /\ Fail

IntegrationStep ==
  \/ InStart \/ InPrepare \/ InAbort \/ InCreateRef \/ InJournal \/ InCheck
  \/ InMerge \/ InDone \/ RiDecide \/ RiDeleteRef
==============================================================================
