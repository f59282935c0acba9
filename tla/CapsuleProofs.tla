----------------------------- MODULE CapsuleProofs -----------------------------
(***************************************************************************)
(* What holds of one capsule for every set of commits, trees and branches, *)
(* every choice of operations and outside moves, and every bound: each     *)
(* variable keeps its type, whatever is written can be read back, and the  *)
(* capsule implements its lifecycle.                                       *)
(*                                                                         *)
(* The manifest is only ever assigned from the copy an operation holds, so *)
(* the inductive invariant says what that copy is at each point of each    *)
(* operation: still the manifest, or the one next manifest decided on.     *)
(***************************************************************************)
EXTENDS CapsuleProperties, TLAPS

(* Where an operation is: finishing a creation, holding a manifest it has   *)
(* decided to write (and about to write it), or still holding the manifest *)
(* it read.                                                                *)
Creating ==
  {"crExamine", "crAbandon", "crBranch", "crRegister", "crLink",
   "crCheckout", "crReset", "crActivate"}
Decided ==
  {"write", "crManifest", "ckJournal", "clPatch", "clResult", "inStart",
   "inJournal", "riDeleteRef", "drJournal"}
Writing == Decided \ {"clPatch", "clResult", "riDeleteRef"}
Reading == PCs \ (Creating \cup Decided)

SameRecord(m, n) ==
  /\ n.checkpoints = m.checkpoints
  /\ n.evidence = m.evidence
  /\ n.result = m.result

Edges ==
  {<<"unborn", "creating">>, <<"creating", "active">>, <<"creating", "orphaned">>,
   <<"active", "active">>, <<"active", "orphaned">>, <<"active", "checkpointing">>,
   <<"closed", "integrating">>, <<"integrating", "integrating">>,
   <<"integrating", "closed">>, <<"integrating", "integrated">>,
   <<"dropping", "dropped">>}

(* What one write may turn manifest m into. *)
Evolves(m, n) ==
  \/ SameRecord(m, n) /\ <<m.state, n.state>> \in Edges
  \/ /\ SameRecord(m, n)
     /\ m.state \notin {"unborn", "dropping", "dropped"} /\ n.state = "dropping"
  \/ /\ m.state = "checkpointing" /\ n.state = "active"
     /\ n.evidence = m.evidence /\ n.result = m.result
     /\ \E c \in Commit \ m.checkpoints : n.checkpoints = m.checkpoints \cup {c}
  \/ /\ m.state = "active" /\ n.state = "active"
     /\ n.checkpoints = m.checkpoints /\ n.result = m.result
     /\ \E e \in Evidence : n.evidence = m.evidence \cup {e}
  \/ /\ m.state = "active" /\ n.state = "closed"
     /\ n.checkpoints = m.checkpoints /\ n.evidence = m.evidence
     /\ n.result \in Results
     /\ n.result.checkpoints = m.checkpoints /\ n.result.evidence = m.evidence

------------------------------------------------------------------------------
(* The inductive invariant, in parts. *)

CopyHeld ==
  /\ pc \in Reading => cap = man
  /\ pc \in Decided => Readable(cap) /\ Evolves(man, cap)
  /\ pc \in Creating =>
       /\ man.state = "creating"
       /\ cap = [man EXCEPT !.gitDir = cap.gitDir]
       /\ loc.adopted => cap.gitDir

(* The state an operation found, or the one it is about to write. *)
StateHeld ==
  /\ pc \in {"ckSnapshot", "ckCreateRef", "clSnapshot1", "clHead1", "clClean1",
             "clSnapshot2", "clHead2", "clClean2", "clPatch", "clResult", "ckJournal",
             "raExamine"} => man.state = "active"
  /\ pc \in {"ckFinish", "ckRecreateRef", "ckAdvance", "ckReset", "ckDeleteRef",
             "ckComplete"} => man.state = "checkpointing"
  /\ pc \in {"inPrepare", "inCreateRef", "inCheck", "inMerge", "inDone",
             "inJournal", "riDecide", "riDeleteRef"} => man.state = "integrating"
  /\ pc \in {"cuCheck", "cuRemove", "cuRemoving", "cuUnregister", "cuPrune",
             "cuBranch", "cuCheckpointRef", "cuIntegrationRef"}
       => man.state = "dropping"
  /\ pc = "crManifest" => man.state = "unborn" /\ cap.state = "creating" /\ ~loc.adopted
  /\ pc = "ckJournal" => cap.state = "checkpointing"
  /\ pc \in {"clPatch", "clResult"} => cap.state = "closed" /\ cap.result # None
  /\ pc \in {"inStart", "inJournal"} => cap.state = "integrating"
  /\ pc = "inStart" => man.state = "closed"
  /\ pc = "riDeleteRef" => cap.state \in {"closed", "integrated"}
  /\ pc = "drJournal" => cap.state = "dropping"
  /\ pc = "write" => cap.state \in {"active", "orphaned", "closed", "integrated", "dropped"}

(* Locals that an operation goes on to use have been set. *)
LocalsHeld ==
  /\ pc \in {"ckSnapshot", "ckCreateRef", "clClean1", "clSnapshot2", "clHead2",
             "clClean2"}
       => loc.head \in Commit
  /\ pc \in {"ckCreateRef", "inCreateRef"} => loc.next \in Commit
  /\ pc \in {"clHead1", "clClean1", "clSnapshot2", "clHead2", "clClean2"}
       => loc.tree \in Tree
  /\ pc = "inJournal" => cap.integration.after \in Commit
  /\ pc \in {"inCheck", "inMerge", "inDone"} => man.integration.after \in Commit

(* A workspace has content from the end of its creation on. *)
ContentHeld ==
  /\ man.state \in {"active", "checkpointing"} => tree \in Tree
  /\ pc \in {"crReset", "crActivate"} => tree \in Tree
  /\ pc \in Decided /\ cap.state \in {"active", "checkpointing"} => tree \in Tree

Blank == man.state = "unborn" => man = Unborn

Held ==
  /\ ManifestReadable
  /\ Blank
  /\ CopyHeld
  /\ StateHeld
  /\ LocalsHeld
  /\ ContentHeld

IInv == TypeOK /\ Held

(* A manifest that may be written in the place of m. *)
Good(m, n) == n \in Manifests /\ Readable(n) /\ Evolves(m, n)

------------------------------------------------------------------------------
(* Types of what the operations compute. *)

(* The values variables start from are typed. *)
LEMMA StartTypes ==
  NoLoc \in Locals /\ Unborn \in Manifests /\ InitialCapsule \in Manifests
BY DEF NoLoc, Locals, MaybeCommit, Gates, Unborn, InitialCapsule, Manifests, States

(* Every patch Capsule computes between commits and trees is one. *)
LEMMA PatchTypes ==
  ASSUME NEW c \in Commit
  PROVE  /\ TreeOf[c] \in Tree
         /\ \A t \in Tree : Diff(c, t) \in Patch
         /\ \A d \in Commit : CommitDiff(c, d) \in Patch
         /\ Parent[c] \in MaybeCommit
BY ObjectsAssumption DEF Diff, CommitDiff, Patch

------------------------------------------------------------------------------
(* Every next manifest an operation decides on is typed, readable, and one  *)
(* the lifecycle allows.                                                   *)

(* The manifest a creation publishes first. *)
LEMMA InitialGood == Good(Unborn, InitialCapsule) /\ InitialCapsule.state = "creating"
BY StartTypes DEF Good, Unborn, InitialCapsule, Readable, CheckpointConsistent,
   IntegrationConsistent, CleanupConsistent, IdentityKnown, Evolves, SameRecord, Edges

(* complete_creating ends in one of two states, and learns the Git dir. *)
LEMMA CreatedGood ==
  ASSUME NEW m \in Manifests, NEW n \in Manifests, Readable(m),
         m.state = "creating", n = [m EXCEPT !.gitDir = n.gitDir]
  PROVE  /\ Good(m, [n EXCEPT !.state = "orphaned"])
         /\ [n EXCEPT !.state = "orphaned"].state = "orphaned"
         /\ n.gitDir => Good(m, [n EXCEPT !.state = "active"])
BY DEF Good, Manifests, States, Readable, CheckpointConsistent,
   IntegrationConsistent, CleanupConsistent, IdentityKnown, Evolves, SameRecord, Edges

(* The workspace's Git dir is the only thing learnt on the way there. *)
LEMMA LearntGood ==
  ASSUME NEW m \in Manifests, NEW n \in Manifests, n = [m EXCEPT !.gitDir = n.gitDir]
  PROVE  /\ LearnGitDir(n) \in Manifests
         /\ LearnGitDir(n) = [m EXCEPT !.gitDir = LearnGitDir(n).gitDir]
         /\ n.gitDir => LearnGitDir(n).gitDir
<1> DEFINE g == n.gitDir \/ GitHere
<1>1. LearnGitDir(n) = [n EXCEPT !.gitDir = g] /\ g \in BOOLEAN /\ (n.gitDir => g)
  BY DEF LearnGitDir
<1> HIDE DEF g
<1> QED BY <1>1 DEF Manifests

(* recover and a resumed creation may orphan what they found. *)
LEMMA OrphanedGood ==
  ASSUME NEW m \in Manifests, Readable(m), m.state = "active"
  PROVE  /\ Good(m, m)
         /\ Good(m, [m EXCEPT !.state = "orphaned"])
         /\ [m EXCEPT !.state = "orphaned"].state = "orphaned"
BY DEF Good, Manifests, States, Readable, CheckpointConsistent,
   IntegrationConsistent, CleanupConsistent, IdentityKnown, Evolves, SameRecord, Edges

(* An active capsule journals a checkpoint, ... *)
LEMMA JournaledGood ==
  ASSUME NEW m \in Manifests, Readable(m), m.state = "active",
         NEW b \in Commit, NEW a \in Commit
  PROVE  Good(m, Journaled(m, b, a)) /\ Journaled(m, b, a).state = "checkpointing"
<1> DEFINE j == [before |-> b, after |-> a, patch |-> CommitDiff(b, a)]
<1>1. j \in CheckpointJournal /\ j # None
  BY PatchTypes, ManifestAssumption DEF CheckpointJournal
<1>2. Journaled(m, b, a) = [m EXCEPT !.state = "checkpointing", !.journal = j]
  BY DEF Journaled
<1> HIDE DEF j
<1> QED
  BY <1>1, <1>2 DEF Good, Manifests, States, Readable, CheckpointConsistent,
     IntegrationConsistent, CleanupConsistent, IdentityKnown, Evolves, SameRecord, Edges

(* ... and records it only if it is not recorded yet. *)
LEMMA CompletedGood ==
  ASSUME NEW m \in Manifests, Readable(m), m.state = "checkpointing",
         m.journal.after \notin m.checkpoints
  PROVE  Good(m, Completed(m)) /\ Completed(m).state = "active"
<1>1. m.journal.after \in Commit
  BY DEF Manifests, Readable, CheckpointConsistent, CheckpointJournal
<1> DEFINE a == m.journal.after
           n == [m EXCEPT !.state = "active", !.journal = None,
                          !.checkpoints = m.checkpoints \cup {a}]
<1>2. Completed(m) = n
  BY DEF Completed, Manifests
<1>3. n \in Manifests /\ n.state = "active"
  BY <1>1 DEF Manifests, States
<1>4. Readable(n)
  BY DEF Manifests, Readable, CheckpointConsistent, IntegrationConsistent,
     CleanupConsistent, IdentityKnown
<1>5. Evolves(m, n)
  BY <1>1 DEF Manifests, Evolves
<1> QED BY <1>2, <1>3, <1>4, <1>5 DEF Good

(* Evidence is added to what is there. *)
LEMMA RecordedGood ==
  ASSUME NEW m \in Manifests, Readable(m), m.state = "active", tree \in Tree,
         NEW ok \in BOOLEAN, NEW ran \in BOOLEAN, NEW saw \in Patch
  PROVE  Good(m, Recorded(m, ok, ran, saw)) /\ Recorded(m, ok, ran, saw).state = "active"
<1> DEFINE e == [patch |-> Snapshot(Base), passed |-> ok, executed |-> ran, saw |-> saw]
           n == [m EXCEPT !.evidence = m.evidence \cup {e}]
<1>1. e \in Evidence
  BY PatchTypes, ObjectsAssumption DEF Evidence, Snapshot
<1>2. Recorded(m, ok, ran, saw) = n
  BY DEF Recorded, Manifests
<1> HIDE DEF e
<1>3. n \in Manifests /\ n.state = "active" /\ Evolves(m, n)
  BY <1>1 DEF Manifests, Evolves
<1>4. Readable(n)
  BY DEF Manifests, Readable, CheckpointConsistent, IntegrationConsistent,
     CleanupConsistent, IdentityKnown
<1> QED BY <1>2, <1>3, <1>4 DEF Good

(* The seal is made once, of exactly what was recorded. *)
LEMMA SealedGood ==
  ASSUME NEW m \in Manifests, Readable(m), m.state = "active",
         NEW h \in Commit, NEW p \in Patch, NEW clean \in BOOLEAN
  PROVE  /\ Good(m, Sealed(m, h, p, clean))
         /\ Sealed(m, h, p, clean).state = "closed"
         /\ Sealed(m, h, p, clean).result # None
<1> DEFINE r == [kind |-> KindOf(p, clean), head |-> h, patch |-> p,
                 evidence |-> m.evidence, checkpoints |-> m.checkpoints]
           n == [m EXCEPT !.state = "closed", !.result = r]
<1>1. /\ r \in Results /\ r # None
      /\ r.checkpoints = m.checkpoints /\ r.evidence = m.evidence
  BY ManifestAssumption DEF Results, Kinds, KindOf, Manifests
<1>2. Sealed(m, h, p, clean) = n
  BY DEF Sealed
<1> HIDE DEF r
<1>3. n \in Manifests /\ n.state = "closed" /\ n.result # None
  BY <1>1 DEF Manifests, States
<1>4. Readable(n) /\ Evolves(m, n)
  BY <1>1 DEF Manifests, Readable, CheckpointConsistent, IntegrationConsistent,
     CleanupConsistent, IdentityKnown, Evolves
<1> QED BY <1>2, <1>3, <1>4 DEF Good

(* A closed capsule starts an integration, ... *)
LEMMA StartedGood ==
  ASSUME NEW m \in Manifests, Readable(m), m.state = "closed",
         cur \in Ref, tip \in [Ref -> Commit]
  PROVE  Good(m, Started(m)) /\ Started(m).state = "integrating"
<1> DEFINE j == [ref |-> cur, before |-> tip[cur], after |-> None]
<1>1. j \in IntegrationJournal /\ j # None
  BY ManifestAssumption DEF IntegrationJournal, MaybeCommit
<1>2. Started(m) = [m EXCEPT !.state = "integrating", !.integration = j]
  BY DEF Started
<1> HIDE DEF j
<1> QED
  BY <1>1, <1>2 DEF Good, Manifests, States, Readable, CheckpointConsistent,
     IntegrationConsistent, CleanupConsistent, IdentityKnown, Evolves, SameRecord, Edges

(* ... names the commit it prepared, ... *)
LEMMA PreparedGood ==
  ASSUME NEW m \in Manifests, Readable(m), m.state = "integrating", NEW c \in Commit
  PROVE  /\ Good(m, Prepared(m, c))
         /\ Prepared(m, c).state = "integrating"
         /\ Prepared(m, c).integration.after = c
<1> DEFINE j == [m.integration EXCEPT !.after = c]
<1>1. m.integration \in IntegrationJournal
  BY DEF Manifests, Readable, IntegrationConsistent
<1>2. j \in IntegrationJournal /\ j # None /\ j.after = c
  BY <1>1, ManifestAssumption DEF IntegrationJournal, MaybeCommit
<1>3. Prepared(m, c) = [m EXCEPT !.integration = j]
  BY <1>1 DEF Prepared, Manifests
<1> HIDE DEF j
<1> QED
  BY <1>2, <1>3 DEF Good, Manifests, States, Readable, CheckpointConsistent,
     IntegrationConsistent, CleanupConsistent, IdentityKnown, Evolves, SameRecord, Edges

(* ... and rolls the journal back or lands it, nothing else. *)
LEMMA SettledGood ==
  ASSUME NEW m \in Manifests, Readable(m), m.state = "integrating"
  PROVE  /\ Good(m, RolledBack(m)) /\ RolledBack(m).state = "closed"
         /\ Good(m, Landed(m)) /\ Landed(m).state = "integrated"
BY DEF RolledBack, Landed, Good, Manifests, States, Readable, CheckpointConsistent,
   IntegrationConsistent, CleanupConsistent, IdentityKnown, Evolves, SameRecord, Edges

(* Whatever its state, a capsule that is not being dropped may start to be, *)
(* also one that learns its Git dir on the way.                            *)
LEMMA DroppingGood ==
  ASSUME NEW m \in Manifests, Readable(m), branch \in MaybeCommit,
         m.state \notin {"unborn", "dropping", "dropped"}, NEW sealed \in BOOLEAN
  PROVE  /\ Good(m, Dropping(KnowingGitDir(m), sealed))
         /\ Dropping(KnowingGitDir(m), sealed).state = "dropping"
<1> DEFINE g == m.gitDir \/ (m.state = "creating" /\ GitHere)
           j == [head |-> branch, sealed |-> sealed]
<1>1. j \in CleanupJournal /\ j # None
  BY ManifestAssumption DEF CleanupJournal
<1>2. g \in BOOLEAN
  OBVIOUS
<1>3. Dropping(KnowingGitDir(m), sealed)
        = [m EXCEPT !.gitDir = g, !.state = "dropping", !.cleanup = j]
  BY DEF Dropping, KnowingGitDir, Manifests
<1> HIDE DEF g, j
<1> QED
  BY <1>1, <1>2, <1>3 DEF Good, Manifests, States, Readable, CheckpointConsistent,
     IntegrationConsistent, CleanupConsistent, IdentityKnown, Evolves, SameRecord, Edges

(* A finished cleanup closes its journal and any checkpoint's. *)
LEMMA DroppedGood ==
  ASSUME NEW m \in Manifests, Readable(m), m.state = "dropping"
  PROVE  LET n == [m EXCEPT !.state = "dropped", !.journal = None, !.cleanup = None]
         IN  Good(m, n) /\ n.state = "dropped"
BY DEF Good, Manifests, States, Readable, CheckpointConsistent,
   IntegrationConsistent, CleanupConsistent, IdentityKnown, Evolves, SameRecord, Edges

------------------------------------------------------------------------------
(* An error return keeps the invariant: the copy is the manifest again. *)
LEMMA FailKeeps == IInv /\ Fail => IInv'
<1> SUFFICES ASSUME IInv, Fail PROVE IInv'
  OBVIOUS
<1>1. TypeOK'
  BY StartTypes DEF IInv, TypeOK, Fail, PCs, refVars, wtVars, targetVars, envVars
<1>2. Held'
  BY DEF IInv, Held, ManifestReadable, Blank, CopyHeld, StateHeld, LocalsHeld,
         ContentHeld, Fail, Creating, Decided, Reading, wtVars
<1> QED BY <1>1, <1>2 DEF IInv

(* Writing what was decided on is what keeps the manifest readable. *)
LEMMA WriteKeeps ==
  ASSUME IInv, pc \in Decided, man' = cap
  PROVE  ManifestReadable' /\ Blank'
BY DEF IInv, Held, CopyHeld, ManifestReadable, Blank, Evolves, SameRecord, Edges

(* The last write of an operation. *)
LEMMA FinalWriteKeeps == IInv /\ FinalWrite => IInv'
<1> SUFFICES ASSUME IInv, FinalWrite PROVE IInv'
  OBVIOUS
<1>1. TypeOK'
  BY StartTypes DEF IInv, TypeOK, FinalWrite, WriteAndReturn, PCs, refVars, wtVars,
     targetVars, envVars
<1>2. ManifestReadable' /\ Blank'
  BY WriteKeeps DEF FinalWrite, WriteAndReturn, Decided
<1>3. CopyHeld' /\ StateHeld' /\ LocalsHeld' /\ ContentHeld'
  BY DEF IInv, Held, CopyHeld, StateHeld, LocalsHeld, ContentHeld, FinalWrite,
         WriteAndReturn, Creating, Decided, Reading, wtVars
<1> QED BY <1>1, <1>2, <1>3 DEF IInv, Held

------------------------------------------------------------------------------
(* checkpoint and finish_checkpoint keep the invariant. *)
LEMMA CheckpointKeeps == IInv /\ CheckpointStep => IInv'
<1> SUFFICES ASSUME IInv, CheckpointStep, ~Fail PROVE IInv'
  BY FailKeeps
<1> USE DEF IInv, Held, CopyHeld, StateHeld, LocalsHeld, ContentHeld, Blank,
            ManifestReadable, Reading, Creating, Decided, PCs, Goto,
            refVars, wtVars, targetVars, envVars
<1>t. TypeOK /\ man \in Manifests /\ Readable(man)
  BY DEF TypeOK
<1>j. man.state = "checkpointing" => man.journal \in CheckpointJournal
  BY <1>t DEF Readable, CheckpointConsistent, Manifests
<1>1. CASE CkSnapshot
  <2>1. TypeOK' BY <1>1 DEF TypeOK, CkSnapshot, Locals, PatchCommits, MaybeCommit
  <2>2. Held' BY <1>1, <1>t DEF TypeOK, CkSnapshot, Locals, PatchCommits
  <2> QED BY <2>1, <2>2
<1>2. CASE CkCreateRef
  <2>1. Good(man, cap') /\ cap'.state = "checkpointing"
    BY <1>2, <1>t, JournaledGood DEF CkCreateRef
  <2>2. TypeOK' BY <1>2, <2>1 DEF TypeOK, CkCreateRef, MaybeCommit, Good
  <2>3. Held' BY <1>2, <2>1 DEF CkCreateRef, Good
  <2> QED BY <2>2, <2>3
<1>3. CASE CkJournal
  <2>1. TypeOK' BY <1>3 DEF TypeOK, CkJournal, WriteAndGoto
  <2>2. ManifestReadable' /\ Blank'
    BY <1>3, WriteKeeps DEF CkJournal, WriteAndGoto
  <2>3. Held' BY <1>3, <2>2 DEF CkJournal, WriteAndGoto
  <2> QED BY <2>1, <2>3
<1>4. CASE CkFinish
  <2>1. ResumePoint(cap.journal) # "none"
           => ResumePoint(cap.journal) \in {"ckAdvance", "ckRecreateRef", "ckReset"}
    BY DEF ResumePoint
  <2>2. TypeOK' BY <1>4, <2>1 DEF TypeOK, CkFinish, Locals
  <2>3. Held' BY <1>4, <2>1 DEF CkFinish
  <2> QED BY <2>2, <2>3
<1>5. CASE CkRecreateRef
  <2>1. TypeOK' BY <1>5, <1>j DEF TypeOK, CkRecreateRef, CheckpointJournal, MaybeCommit
  <2>2. Held' BY <1>5 DEF CkRecreateRef
  <2> QED BY <2>1, <2>2
<1>6. CASE CkAdvance
  <2>1. cap = man /\ cap.journal.after \in MaybeCommit
    BY <1>6, <1>j DEF CkAdvance, CheckpointJournal, MaybeCommit
  <2>2. branch' \in MaybeCommit /\ stale' \in BOOLEAN /\ pc' \in PCs
    BY <1>6, <2>1 DEF CkAdvance
  <2>3. UNCHANGED <<man, cap, loc, ckRef, inRef, path, reg, attached, tree, disk,
                    targetVars, envVars>>
    BY <1>6 DEF CkAdvance
  <2>4. Held' BY <1>6 DEF CkAdvance
  <2> HIDE DEF PCs, Held
  <2>5. TypeOK' BY <1>t, <2>2, <2>3 DEF TypeOK
  <2> QED BY <2>4, <2>5
<1>7. CASE CkReset
  <2>1. cap = man /\ cap.journal.after \in MaybeCommit
    BY <1>7, <1>j DEF CkReset, CheckpointJournal, MaybeCommit
  <2>2. branch' \in MaybeCommit /\ stale' \in BOOLEAN /\ pc' \in PCs
    BY <1>7, <1>t, <2>1 DEF CkReset, ResetMixed, TypeOK
  <2>3. UNCHANGED <<man, cap, loc, ckRef, inRef, path, reg, attached, tree, disk,
                    targetVars, envVars>>
    BY <1>7 DEF CkReset, ResetMixed
  <2>4. Held' BY <1>7 DEF CkReset, ResetMixed
  <2> HIDE DEF PCs, Held
  <2>5. TypeOK' BY <1>t, <2>2, <2>3 DEF TypeOK
  <2> QED BY <2>4, <2>5
<1>8. CASE CkDeleteRef
  <2>1. TypeOK' BY <1>8 DEF TypeOK, CkDeleteRef, MaybeCommit
  <2>2. Held' BY <1>8 DEF CkDeleteRef
  <2> QED BY <2>1, <2>2
<1>9. CASE CkComplete
  <2>1. Good(man, cap') /\ cap'.state = "active"
    BY <1>9, <1>t, CompletedGood DEF CkComplete
  <2>2. TypeOK' BY <1>9, <2>1 DEF TypeOK, CkComplete, Good
  <2>3. Held' BY <1>9, <2>1 DEF CkComplete, Good
  <2> QED BY <2>2, <2>3
<1>10. CASE FinalWrite
  BY <1>10, FinalWriteKeeps
<1> QED
  BY <1>1, <1>2, <1>3, <1>4, <1>5, <1>6, <1>7, <1>8, <1>9, <1>10 DEF CheckpointStep

------------------------------------------------------------------------------
(* add_evidence, its unlocked run included. *)
LEMMA EvidenceKeeps == IInv /\ (EvidenceStep \/ EvRun \/ EvLoseRun) => IInv'
<1> SUFFICES ASSUME IInv, EvidenceStep \/ EvRun \/ EvLoseRun PROVE IInv'
  OBVIOUS
<1> USE DEF IInv, Held, CopyHeld, StateHeld, LocalsHeld, ContentHeld, Blank,
            ManifestReadable, Reading, Creating, Decided, PCs, Begin, Idle,
            opVars, refVars, wtVars, targetVars, envVars
<1>t. TypeOK /\ man \in Manifests /\ Readable(man)
  BY DEF TypeOK
<1>s. tree \in Tree => Snapshot(Base) \in Patch
  BY PatchTypes, ObjectsAssumption DEF Snapshot
<1>1. CASE EvRecordRun
  <2>1. run.passed \in BOOLEAN /\ run.saw \in Patch
    BY <1>1 DEF EvRecordRun, TypeOK
  <2>a. /\ man.state = "active" /\ tree \in Tree
        /\ cap' = Recorded(man, run.passed, TRUE, run.saw)
    BY <1>1 DEF EvRecordRun
  <2>2. Good(man, cap') /\ cap'.state = "active"
    BY <1>t, <2>1, <2>a, RecordedGood
  <2>3. TypeOK' BY <1>1, <2>2 DEF TypeOK, EvRecordRun, Good
  <2>4. Held' BY <1>1, <2>2 DEF EvRecordRun, Good
  <2> QED BY <2>3, <2>4
<1>2. CASE EvClaim
  <2>1. PICK ok \in BOOLEAN : cap' = Recorded(man, ok, FALSE, Snapshot(Base))
    BY <1>2 DEF EvClaim
  <2>2. Good(man, cap') /\ cap'.state = "active"
    BY <1>2, <1>t, <1>s, <2>1, RecordedGood DEF EvClaim
  <2>3. TypeOK'
    <3>1. stir' \in Nat /\ pc' \in PCs /\ cap' \in Manifests
      BY <1>2, <2>2 DEF EvClaim, Good
    <3>2. UNCHANGED <<man, loc, refVars, wtVars, disk, targetVars, run, calm>>
      BY <1>2 DEF EvClaim
    <3> QED BY <3>1, <3>2 DEF TypeOK
  <2>4. Held' BY <1>2, <2>2 DEF EvClaim, Good
  <2> QED BY <2>3, <2>4
<1>3. CASE EvRun
  <2>1. TypeOK' BY <1>3, <1>s DEF TypeOK, EvRun
  <2>2. Held' BY <1>3 DEF EvRun
  <2> QED BY <2>1, <2>2
<1>4. CASE EvLoseRun
  <2>1. TypeOK' BY <1>4 DEF TypeOK, EvLoseRun
  <2>2. Held' BY <1>4 DEF EvLoseRun
  <2> QED BY <2>1, <2>2
<1> QED BY <1>1, <1>2, <1>3, <1>4 DEF EvidenceStep

------------------------------------------------------------------------------
(* close. *)
LEMMA CloseKeeps == IInv /\ CloseStep => IInv'
<1> SUFFICES ASSUME IInv, CloseStep, ~Fail PROVE IInv'
  BY FailKeeps
<1> USE DEF IInv, Held, CopyHeld, StateHeld, LocalsHeld, ContentHeld, Blank,
            ManifestReadable, Reading, Creating, Decided, PCs, Goto,
            refVars, wtVars, targetVars, envVars
<1>t. TypeOK /\ man \in Manifests /\ Readable(man)
  BY DEF TypeOK
<1>1. CASE ClSnapshot1
  <2>1. TypeOK' BY <1>1 DEF TypeOK, ClSnapshot1, Locals
  <2>2. Held' BY <1>1, <1>t DEF ClSnapshot1, Locals, TypeOK
  <2> QED BY <2>1, <2>2
<1>2. CASE ClHead1
  <2>1. loc' = [loc EXCEPT !.head = branch] /\ branch \in Commit
    BY <1>2 DEF ClHead1, HasHead, TypeOK, MaybeCommit
  <2>2. /\ loc' \in Locals /\ loc'.head \in Commit
        /\ loc'.tree = loc.tree /\ loc'.next = loc.next /\ loc'.adopted = loc.adopted
    BY <2>1 DEF TypeOK, Locals, MaybeCommit
  <2>3. TypeOK' BY <1>2, <2>2 DEF TypeOK, ClHead1
  <2>4. Held' BY <1>2, <2>2 DEF ClHead1
  <2> QED BY <2>3, <2>4
<1>3. CASE ClClean1
  <2>1. loc' = [loc EXCEPT !.clean = Clean] /\ Clean \in BOOLEAN
    BY <1>3 DEF ClClean1, Clean
  <2>2. /\ loc' \in Locals /\ loc'.head = loc.head
        /\ loc'.tree = loc.tree /\ loc'.next = loc.next /\ loc'.adopted = loc.adopted
    BY <2>1 DEF TypeOK, Locals
  <2>3. TypeOK' BY <1>3, <2>2 DEF TypeOK, ClClean1
  <2>4. Held' BY <1>3, <2>2 DEF ClClean1
  <2> QED BY <2>3, <2>4
<1>4. CASE ClSnapshot2
  <2>1. TypeOK' BY <1>4 DEF TypeOK, ClSnapshot2
  <2>2. Held' BY <1>4 DEF ClSnapshot2
  <2> QED BY <2>1, <2>2
<1>5. CASE ClHead2
  <2>1. TypeOK' BY <1>5 DEF TypeOK, ClHead2
  <2>2. Held' BY <1>5 DEF ClHead2
  <2> QED BY <2>1, <2>2
<1>6. CASE ClClean2
  <2>1. Clean \in BOOLEAN /\ Diff(Base, loc.tree) \in Patch
    BY <1>6, PatchTypes, ObjectsAssumption DEF TypeOK, Locals, ClClean2, Clean
  <2>2. cap' = Sealed(man, loc.head, Diff(Base, loc.tree), Clean)
    BY <1>6 DEF ClClean2
  <2>3. Good(man, cap') /\ cap'.state = "closed" /\ cap'.result # None
    BY <1>6, <1>t, <2>1, <2>2, SealedGood DEF ClClean2
  <2>4. TypeOK' BY <1>6, <2>3 DEF TypeOK, ClClean2, Good
  <2>5. Held' BY <1>6, <2>3 DEF ClClean2, Good
  <2> QED BY <2>4, <2>5
<1>7. CASE ClPatch
  <2>1. cap.result \in Results
    BY <1>7 DEF TypeOK, Manifests, ClPatch
  <2>2. TypeOK' BY <1>7, <2>1 DEF TypeOK, ClPatch, Results
  <2>3. Held' BY <1>7 DEF ClPatch
  <2> QED BY <2>2, <2>3
<1>8. CASE ClResult
  <2>1. cap.result \in Results
    BY <1>8 DEF TypeOK, Manifests, ClResult
  <2>2. TypeOK' BY <1>8, <2>1 DEF TypeOK, ClResult, Results
  <2>3. Held' BY <1>8 DEF ClResult
  <2> QED BY <2>2, <2>3
<1> QED
  BY <1>1, <1>2, <1>3, <1>4, <1>5, <1>6, <1>7, <1>8 DEF CloseStep

------------------------------------------------------------------------------
(* integrate and recover_integrating. *)
LEMMA IntegrationKeeps == IInv /\ IntegrationStep => IInv'
<1> SUFFICES ASSUME IInv, IntegrationStep, ~Fail PROVE IInv'
  BY FailKeeps
<1> USE DEF IInv, Held, CopyHeld, StateHeld, LocalsHeld, ContentHeld, Blank,
            ManifestReadable, Reading, Creating, Decided, PCs, Goto,
            refVars, wtVars, targetVars, envVars
<1>t. TypeOK /\ man \in Manifests /\ Readable(man)
  BY DEF TypeOK
<1>j. man.state = "integrating" =>
         /\ man.integration \in IntegrationJournal
         /\ man.integration.before \in Commit /\ man.integration.after \in MaybeCommit
  BY <1>t DEF Readable, IntegrationConsistent, Manifests, IntegrationJournal
<1>1. CASE InStart
  <2>1. TypeOK' BY <1>1 DEF TypeOK, InStart, WriteAndGoto
  <2>2. ManifestReadable' /\ Blank'
    BY <1>1, WriteKeeps DEF InStart, WriteAndGoto
  <2>3. Held' BY <1>1, <2>2 DEF InStart, WriteAndGoto
  <2> QED BY <2>1, <2>3
<1>2. CASE InPrepare
  <2>1. PICK c \in Candidates(cap) : loc' = [loc EXCEPT !.next = c]
    BY <1>2 DEF InPrepare
  <2>2. c \in Commit
    BY <2>1 DEF Candidates, PatchCommits, TypeOK
  <2>3. TypeOK' BY <1>2, <2>1, <2>2 DEF TypeOK, InPrepare, Locals, MaybeCommit
  <2>4. Held' BY <1>2, <2>1, <2>2 DEF InPrepare, TypeOK, Locals
  <2> QED BY <2>3, <2>4
<1>3. CASE InAbort
  <2>1. Good(man, cap') /\ cap'.state = "closed"
    BY <1>3, <1>t, SettledGood DEF InAbort
  <2>2. TypeOK' BY <1>3, <2>1 DEF TypeOK, InAbort, Good
  <2>3. Held' BY <1>3, <2>1 DEF InAbort, Good
  <2> QED BY <2>2, <2>3
<1>4. CASE InCreateRef
  <2>1. cap' = Prepared(man, loc.next) /\ man.state = "integrating" /\ loc.next \in Commit
    BY <1>4 DEF InCreateRef
  <2>2. /\ Good(man, cap') /\ cap'.state = "integrating"
        /\ cap'.integration.after \in Commit
    BY <1>t, <2>1, PreparedGood
  <2>3. TypeOK' BY <1>4, <2>1, <2>2 DEF TypeOK, InCreateRef, Good, MaybeCommit
  <2>4. Held' BY <1>4, <2>2 DEF InCreateRef, Good
  <2> QED BY <2>3, <2>4
<1>5. CASE InJournal
  <2>1. TypeOK' BY <1>5 DEF TypeOK, InJournal, WriteAndGoto
  <2>2. ManifestReadable' /\ Blank'
    BY <1>5, WriteKeeps DEF InJournal, WriteAndGoto
  <2>3. Held' BY <1>5, <2>2 DEF InJournal, WriteAndGoto
  <2> QED BY <2>1, <2>3
<1>6. CASE InCheck
  <2>1. TypeOK' BY <1>6 DEF TypeOK, InCheck
  <2>2. Held' BY <1>6 DEF InCheck
  <2> QED BY <2>1, <2>2
<1>7. CASE InMerge
  <2>1. cap.integration.after \in Commit /\ cur \in Ref /\ tip \in [Ref -> Commit]
    BY <1>7 DEF InMerge, TypeOK
  <2>2. tip' \in [Ref -> Commit]
    BY <1>7, <2>1 DEF InMerge
  <2>3. TypeOK' BY <1>7, <2>2 DEF TypeOK, InMerge
  <2>4. Held' BY <1>7 DEF InMerge
  <2> QED BY <2>3, <2>4
<1>8. CASE InDone
  <2>1. Good(man, cap') /\ cap'.state = "integrated"
    BY <1>8, <1>t, SettledGood DEF InDone
  <2>2. TypeOK' BY <1>8, <2>1 DEF TypeOK, InDone, Good, MaybeCommit
  <2>3. Held' BY <1>8, <2>1 DEF InDone, Good
  <2> QED BY <2>2, <2>3
<1>9. CASE RiDecide
  <2>1. cap = man /\ cap' = Verdict(man) /\ Verdict(man) # None /\ man.state = "integrating"
    BY <1>9 DEF RiDecide
  <2>2. Verdict(man) \in {None, RolledBack(man), Landed(man)}
    BY DEF Verdict
  <2>3. Good(man, cap') /\ cap'.state \in {"closed", "integrated"}
    BY <1>t, <2>1, <2>2, SettledGood
  <2>4. loc' \in Locals
    <3>1. loc' = [loc EXCEPT !.next = man.integration.after,
                             !.head = man.integration.before]
      BY <1>9, <2>1 DEF RiDecide
    <3>2. man.integration.after \in MaybeCommit /\ man.integration.before \in MaybeCommit
      BY <1>j, <2>1 DEF MaybeCommit
    <3>3. loc \in Locals
      BY DEF TypeOK
    <3> HIDE DEF IInv
    <3> QED BY <3>1, <3>2, <3>3 DEF Locals
  <2>5. TypeOK' BY <1>9, <2>3, <2>4 DEF TypeOK, RiDecide, Good
  <2>6. Held' BY <1>9, <2>3 DEF RiDecide, Good
  <2> QED BY <2>5, <2>6
<1>10. CASE RiDeleteRef
  <2>1. TypeOK' BY <1>10 DEF TypeOK, RiDeleteRef, MaybeCommit
  <2>2. Held' BY <1>10 DEF RiDeleteRef
  <2> QED BY <2>1, <2>2
<1> QED
  BY <1>1, <1>2, <1>3, <1>4, <1>5, <1>6, <1>7, <1>8, <1>9, <1>10 DEF IntegrationStep

------------------------------------------------------------------------------
(* drop_capsule and finish_cleanup. *)
(* What each step of the removal does to the worktree and the refs is typed. *)
LEMMA CleanupTypes ==
  ASSUME TypeOK, ~Fail,
         \/ CuRemove \/ CuRemoving \/ CuUnregister \/ CuPrune
         \/ CuBranch \/ CuCheckpointRef
  PROVE  TypeOK'
<1> USE DEF TypeOK, PCs, Goto, refVars, wtVars, targetVars, envVars
<1>1. CASE CuRemove BY <1>1 DEF CuRemove, Paths
<1>2. CASE CuRemoving BY <1>2 DEF CuRemoving, Paths
<1>3. CASE CuUnregister
  <2>1. pc' \in PCs /\ reg' \in BOOLEAN
    BY <1>3 DEF CuUnregister
  <2>2. UNCHANGED <<man, cap, loc, disk, targetVars, envVars, refVars, path,
                    attached, tree, stale>>
    BY <1>3 DEF CuUnregister
  <2> QED BY <2>1, <2>2
<1>4. CASE CuPrune
  <2>1. pc' \in PCs /\ reg' \in BOOLEAN
    BY <1>4 DEF CuPrune
  <2>2. UNCHANGED <<man, cap, loc, disk, targetVars, envVars, refVars, path,
                    attached, tree, stale>>
    BY <1>4 DEF CuPrune
  <2> QED BY <2>1, <2>2
<1>5. CASE CuBranch BY <1>5 DEF CuBranch, MaybeCommit
<1>6. CASE CuCheckpointRef BY <1>6 DEF CuCheckpointRef, MaybeCommit, GitHere
<1> HIDE DEF TypeOK
<1> QED BY <1>1, <1>2, <1>3, <1>4, <1>5, <1>6

(* Every step of a drop keeps the invariant. *)
LEMMA CleanupKeeps == IInv /\ CleanupStep => IInv'
<1> SUFFICES ASSUME IInv, CleanupStep, ~Fail PROVE IInv'
  BY FailKeeps
<1> USE DEF IInv, Held, CopyHeld, StateHeld, LocalsHeld, ContentHeld, Blank,
            ManifestReadable, Reading, Creating, Decided, PCs, Goto,
            refVars, wtVars, targetVars, envVars
<1>t. TypeOK /\ man \in Manifests /\ Readable(man)
  BY DEF TypeOK
<1>1. CASE DrJournal
  <2>1. TypeOK' BY <1>1 DEF TypeOK, DrJournal, WriteAndGoto
  <2>2. ManifestReadable' /\ Blank'
    BY <1>1, WriteKeeps DEF DrJournal, WriteAndGoto
  <2>3. Held' BY <1>1, <2>2 DEF DrJournal, WriteAndGoto
  <2> QED BY <2>1, <2>3
<1>2. CASE CuCheck
  <2>1. CleanupRoute(cap) \in {"cuRemove", "cuPrune", "cuBranch", "none"}
    BY DEF CleanupRoute
  <2>2. TypeOK' BY <1>2, <2>1 DEF TypeOK, CuCheck
  <2>3. Held' BY <1>2, <2>1 DEF CuCheck
  <2> QED BY <2>2, <2>3
<1>3. CASE CuRemove
  <2>1. TypeOK' BY <1>t, <1>3, CleanupTypes
  <2>2. Held' BY <1>3 DEF CuRemove
  <2> QED BY <2>1, <2>2
<1>4. CASE CuRemoving
  <2>1. TypeOK' BY <1>t, <1>4, CleanupTypes
  <2>2. Held' BY <1>4 DEF CuRemoving
  <2> QED BY <2>1, <2>2
<1>5. CASE CuUnregister
  <2>1. TypeOK' BY <1>t, <1>5, CleanupTypes
  <2>2. Held' BY <1>5 DEF CuUnregister
  <2> QED BY <2>1, <2>2
<1>6. CASE CuPrune
  <2>1. TypeOK' BY <1>t, <1>6, CleanupTypes
  <2>2. Held' BY <1>6 DEF CuPrune
  <2> QED BY <2>1, <2>2
<1>7. CASE CuBranch
  <2>1. TypeOK' BY <1>t, <1>7, CleanupTypes
  <2>2. Held' BY <1>7 DEF CuBranch
  <2> QED BY <2>1, <2>2
<1>8. CASE CuCheckpointRef
  <2>1. TypeOK' BY <1>t, <1>8, CleanupTypes
  <2>2. Held' BY <1>8 DEF CuCheckpointRef
  <2> QED BY <2>1, <2>2
<1>9. CASE CuIntegrationRef
  <2>1. Good(man, cap') /\ cap'.state = "dropped"
    BY <1>9, <1>t, DroppedGood DEF CuIntegrationRef
  <2>2. TypeOK' BY <1>9, <2>1 DEF TypeOK, CuIntegrationRef, Good, MaybeCommit
  <2>3. Held' BY <1>9, <2>1 DEF CuIntegrationRef, Good
  <2> QED BY <2>2, <2>3
<1> QED
  BY <1>1, <1>2, <1>3, <1>4, <1>5, <1>6, <1>7, <1>8, <1>9 DEF CleanupStep

------------------------------------------------------------------------------
(* create and complete_creating. *)
(* What each Git step of a creation leaves is typed. *)
LEMMA CreationTypes ==
  ASSUME TypeOK, ~Fail,
         CrBranch \/ CrRegister \/ CrLink \/ CrCheckout \/ CrReset
  PROVE  TypeOK'
<1> USE DEF TypeOK, PCs, Goto, refVars, wtVars, targetVars, envVars
<1>b. Base \in Commit /\ TreeOf[Base] \in Tree
  BY ObjectsAssumption
<1>1. CASE CrBranch BY <1>1, <1>b DEF CrBranch, MaybeCommit
<1>2. CASE CrRegister
  <2>1. pc' \in PCs /\ path' \in Paths /\ reg' \in BOOLEAN
    BY <1>2 DEF CrRegister, Paths
  <2>2. UNCHANGED <<man, cap, loc, disk, targetVars, envVars, refVars, attached,
                    tree, stale>>
    BY <1>2 DEF CrRegister
  <2> QED BY <2>1, <2>2
<1>3. CASE CrLink
  <2>1. pc' \in PCs /\ path' \in Paths /\ attached' \in BOOLEAN /\ tree' = None
    BY <1>3 DEF CrLink, Paths
  <2>2. UNCHANGED <<man, cap, loc, disk, targetVars, envVars, refVars, reg, stale>>
    BY <1>3 DEF CrLink
  <2> QED BY <2>1, <2>2
<1>4. CASE CrCheckout
  <2>1. pc' \in PCs /\ tree' \in Tree /\ stale' \in BOOLEAN
    BY <1>4 DEF CrCheckout
  <2>2. UNCHANGED <<man, cap, loc, disk, targetVars, envVars, refVars, path, reg,
                    attached>>
    BY <1>4 DEF CrCheckout
  <2> QED BY <2>1, <2>2
<1>5. CASE CrReset
  <2>1. branch' \in MaybeCommit /\ tree' \in Tree
    BY <1>5, <1>b DEF CrReset, MaybeCommit
  <2>2. pc' \in PCs /\ stale' \in BOOLEAN
    BY <1>5 DEF CrReset
  <2>3. UNCHANGED <<man, cap, loc, disk, targetVars, envVars, ckRef, inRef, path, reg,
                    attached>>
    BY <1>5 DEF CrReset
  <2> QED BY <2>1, <2>2, <2>3
<1> HIDE DEF TypeOK
<1> QED BY <1>1, <1>2, <1>3, <1>4, <1>5

(* Every step of a creation keeps the invariant. *)
LEMMA CreationKeeps == IInv /\ CreationStep => IInv'
<1> SUFFICES ASSUME IInv, CreationStep, ~Fail PROVE IInv'
  BY FailKeeps
<1> USE DEF IInv, Held, CopyHeld, StateHeld, LocalsHeld, ContentHeld, Blank,
            ManifestReadable, Reading, Creating, Decided, PCs, Goto,
            refVars, wtVars, targetVars, envVars
<1>t. TypeOK /\ man \in Manifests /\ Readable(man)
  BY DEF TypeOK
<1>b. Base \in Commit /\ TreeOf[Base] \in Tree
  BY ObjectsAssumption
<1>l. pc \in Creating =>
        /\ LearnGitDir(cap) \in Manifests
        /\ LearnGitDir(cap) = [man EXCEPT !.gitDir = LearnGitDir(cap).gitDir]
        /\ cap.gitDir => LearnGitDir(cap).gitDir
  BY LearntGood DEF TypeOK
<1>1. CASE CrManifest
  <2>1. TypeOK' BY <1>1 DEF TypeOK, CrManifest, WriteAndGoto
  <2>2. ManifestReadable' /\ Blank'
    BY <1>1, WriteKeeps DEF CrManifest, WriteAndGoto
  <2>3. cap = [cap EXCEPT !.gitDir = cap.gitDir]
    BY DEF TypeOK, Manifests
  <2>4. Held' BY <1>1, <2>2, <2>3 DEF CrManifest, WriteAndGoto
  <2> QED BY <2>1, <2>4
<1>2. CASE CrExamine
  <2>1. CreationRoute(cap) \in {"crBranch", "crCheckout", "crAbandon"}
    BY DEF CreationRoute
  <2>2. Adoptable(cap) \in BOOLEAN /\ (Adoptable(cap) => LearnGitDir(cap).gitDir)
    BY DEF Adoptable, Owned
  <2>3. /\ loc' \in Locals /\ loc'.adopted = Adoptable(cap)
    BY <1>2, <2>2 DEF TypeOK, CrExamine, Locals
  <2>4. TypeOK' BY <1>2, <1>l, <2>1, <2>3 DEF TypeOK, CrExamine
  <2>5. Held' BY <1>2, <1>l, <2>1, <2>2, <2>3 DEF CrExamine
  <2> QED BY <2>4, <2>5
<1>3. CASE CrAbandon
  <2>1. /\ cap' = [cap EXCEPT !.state = "orphaned"]
        /\ cap \in Manifests /\ man.state = "creating"
        /\ cap = [man EXCEPT !.gitDir = cap.gitDir]
    BY <1>3 DEF CrAbandon, TypeOK
  <2>2. Good(man, cap') /\ cap'.state = "orphaned"
    BY <1>t, <2>1, CreatedGood
  <2>3. TypeOK' BY <1>3, <2>2 DEF TypeOK, CrAbandon, Good
  <2>4. Held' BY <1>3, <2>2 DEF CrAbandon, Good
  <2> QED BY <2>3, <2>4
<1>4. CASE CrBranch
  <2>1. TypeOK' BY <1>t, <1>4, CreationTypes
  <2>2. Held' BY <1>4 DEF CrBranch
  <2> QED BY <2>1, <2>2
<1>5. CASE CrRegister
  <2>1. TypeOK' BY <1>t, <1>5, CreationTypes
  <2>2. Held' BY <1>5 DEF CrRegister
  <2> QED BY <2>1, <2>2
<1>6. CASE CrLink
  <2>1. TypeOK' BY <1>t, <1>6, CreationTypes
  <2>2. Held' BY <1>6 DEF CrLink
  <2> QED BY <2>1, <2>2
<1>7. CASE CrCheckout
  <2>1. TypeOK' BY <1>t, <1>7, CreationTypes
  <2>2. Held' BY <1>7 DEF CrCheckout
  <2> QED BY <2>1, <2>2
<1>8. CASE CrReset
  <2>1. branch' \in MaybeCommit /\ tree' \in Tree
    BY <1>8, <1>b DEF CrReset, TypeOK, MaybeCommit
  <2>2. TypeOK' BY <1>t, <1>8, CreationTypes
  <2>3. Held' BY <1>8, <2>1 DEF CrReset
  <2> QED BY <2>2, <2>3
<1>9. CASE CrActivate
  <2>1. LearnGitDir(cap).gitDir
    BY <1>9, <1>l DEF CrActivate, Owned
  <2>2. cap' = [LearnGitDir(cap) EXCEPT !.state = "active"] /\ man.state = "creating"
    BY <1>9 DEF CrActivate
  <2>3. Good(man, cap') /\ cap'.state = "active"
    BY <1>9, <1>t, <1>l, <2>1, <2>2, CreatedGood DEF CrActivate, Manifests
  <2>4. TypeOK' BY <1>9, <2>3 DEF TypeOK, CrActivate, Good
  <2>5. Held' BY <1>9, <2>3 DEF CrActivate, Good
  <2> QED BY <2>4, <2>5
<1> QED
  BY <1>1, <1>2, <1>3, <1>4, <1>5, <1>6, <1>7, <1>8, <1>9 DEF CreationStep

------------------------------------------------------------------------------
(* recover_active; the other states recover through the steps above. *)
LEMMA RecoveryKeeps == IInv /\ RecoveryStep => IInv'
<1> SUFFICES ASSUME IInv, RecoveryStep, ~Fail PROVE IInv'
  BY FailKeeps
<1> USE DEF IInv, Held, CopyHeld, StateHeld, LocalsHeld, ContentHeld, Blank,
            ManifestReadable, Reading, Creating, Decided, PCs, Goto,
            refVars, wtVars, targetVars, envVars
<1>t. TypeOK /\ man \in Manifests /\ Readable(man)
  BY DEF TypeOK
<1>1. CASE RaExamine
  <2>1. Good(man, cap') /\ cap'.state \in {"active", "orphaned"}
    BY <1>1, <1>t, OrphanedGood DEF RaExamine
  <2>2. TypeOK' BY <1>1, <2>1 DEF TypeOK, RaExamine, Good, MaybeCommit
  <2>3. Held' BY <1>1, <2>1 DEF RaExamine, Good
  <2> QED BY <2>2, <2>3
<1>2. CASE RaNothing
  BY <1>2 DEF RaNothing
<1> QED BY <1>1, <1>2 DEF RecoveryStep

------------------------------------------------------------------------------
(* An operation that takes the locks. *)
LEMMA CallKeeps == IInv /\ Call => IInv'
<1> SUFFICES ASSUME IInv, Call PROVE IInv'
  OBVIOUS
<1> USE DEF IInv, Held, CopyHeld, StateHeld, LocalsHeld, ContentHeld, Blank,
            ManifestReadable, Reading, Creating, Decided, PCs, Begin, Idle,
            opVars, refVars, wtVars, targetVars, envVars
<1>t. TypeOK /\ man \in Manifests /\ Readable(man)
  BY DEF TypeOK
<1>l. \A o \in BOOLEAN : [NoLoc EXCEPT !.orphan = o] \in Locals
                        /\ ~[NoLoc EXCEPT !.orphan = o].adopted
  BY StartTypes DEF Locals, NoLoc
<1>1. CASE CrBegin
  <2>1. cap' = InitialCapsule /\ man = Unborn
    BY <1>1 DEF CrBegin
  <2>2. Good(man, cap') /\ cap'.state = "creating"
    BY <2>1, InitialGood
  <2>3. loc' \in Locals /\ ~loc'.adopted
    BY <1>1, <1>l DEF CrBegin
  <2>4. TypeOK' BY <1>1, <2>2, <2>3 DEF TypeOK, CrBegin, Good
  <2>5. Held' BY <1>1, <2>2, <2>3 DEF CrBegin, Good
  <2> QED BY <2>4, <2>5
<1>2. CASE CrReplay
  <2>1. loc' \in Locals /\ ~loc'.adopted
    BY <1>2, <1>l DEF CrReplay
  <2>2. man = [man EXCEPT !.gitDir = man.gitDir]
    BY <1>t DEF Manifests
  <2>3. TypeOK' BY <1>2, <2>1 DEF TypeOK, CrReplay
  <2>4. Held' BY <1>2, <2>1, <2>2 DEF CrReplay
  <2> QED BY <2>3, <2>4
<1>3. CASE CkBegin
  <2>1. loc' = [NoLoc EXCEPT !.head = branch] /\ branch \in Commit
    BY <1>3 DEF CkBegin, Owned, TypeOK, MaybeCommit
  <2>2. loc' \in Locals /\ loc'.head \in Commit
    BY <2>1, StartTypes DEF Locals, NoLoc, MaybeCommit
  <2>3. TypeOK' BY <1>3, <2>2 DEF TypeOK, CkBegin
  <2>4. Held' BY <1>3, <2>2 DEF CkBegin
  <2> QED BY <2>3, <2>4
<1>4. CASE EvidenceStep
  BY <1>4, EvidenceKeeps
<1>5. CASE ClBegin
  <2>1. PICK gate \in Gates : loc' = [NoLoc EXCEPT !.gate = gate]
    BY <1>5 DEF ClBegin
  <2>2. loc' \in Locals
    BY <2>1, StartTypes DEF Locals, NoLoc
  <2>3. TypeOK' BY <1>5, <2>2 DEF TypeOK, ClBegin
  <2>4. Held' BY <1>5 DEF ClBegin
  <2> QED BY <2>3, <2>4
<1>6. CASE InBegin
  <2>1. Good(man, cap') /\ cap'.state = "integrating"
    BY <1>6, <1>t, StartedGood DEF InBegin, TypeOK
  <2>2. TypeOK' BY <1>6, <2>1 DEF TypeOK, InBegin, Good
  <2>3. Held' BY <1>6, <2>1 DEF InBegin, Good
  <2> QED BY <2>2, <2>3
<1>7. CASE DrBegin
  <2>1. PICK sealed \in BOOLEAN : cap' = Dropping(KnowingGitDir(man), sealed)
    BY <1>7 DEF DrBegin
  <2>2. man.state \notin {"unborn", "dropping", "dropped"}
    BY <1>7 DEF DrBegin, Unforced, States
  <2>3. Good(man, cap') /\ cap'.state = "dropping"
    BY <1>t, <2>1, <2>2, DroppingGood DEF TypeOK
  <2>4. TypeOK' BY <1>7, <2>3 DEF TypeOK, DrBegin, Good
  <2>5. Held' BY <1>7, <2>3 DEF DrBegin, Good
  <2> QED BY <2>4, <2>5
<1>8. CASE DrResume
  <2>1. TypeOK' BY <1>8 DEF TypeOK, DrResume
  <2>2. Held' BY <1>8 DEF DrResume
  <2> QED BY <2>1, <2>2
<1>9. CASE RcBegin
  <2>1. loc' \in Locals /\ ~loc'.adopted
    BY <1>9, <1>l DEF RcBegin
  <2>2. /\ pc' = RecoveryOf(man.state) /\ pc' # "none"
        /\ pc' \in {"crExamine", "ckFinish", "raExamine", "riDecide", "cuCheck", "none"}
        /\ pc' = "crExamine" => man.state = "creating"
        /\ pc' = "ckFinish" => man.state = "checkpointing"
        /\ pc' = "raExamine" => man.state = "active"
        /\ pc' = "riDecide" => man.state = "integrating"
        /\ pc' = "cuCheck" => man.state = "dropping"
    BY <1>9 DEF RcBegin, RecoveryOf
  <2>3. man = [man EXCEPT !.gitDir = man.gitDir]
    BY <1>t DEF Manifests
  <2>4. TypeOK' BY <1>9, <2>1, <2>2 DEF TypeOK, RcBegin
  <2>5. Held' BY <1>9, <2>1, <2>2, <2>3 DEF RcBegin
  <2> QED BY <2>4, <2>5
<1> QED
  BY <1>1, <1>2, <1>3, <1>4, <1>5, <1>6, <1>7, <1>8, <1>9 DEF Call

------------------------------------------------------------------------------
(* The outside world has no hand in the manifest, and gives the workspace   *)
(* content only.                                                           *)
LEMMA OutsideKeeps == IInv /\ (OutsideMove \/ Settle) => IInv'
<1> SUFFICES ASSUME IInv, OutsideMove \/ Settle PROVE IInv'
  OBVIOUS
<1>1. UNCHANGED <<man, cap, pc, loc>> /\ (tree' \in Tree \/ tree' = tree)
  BY DEF OutsideMove, Settle, Outside, opVars, refVars, wtVars, targetVars, envVars,
     AgentEdit, AgentCommit, AgentRewind, AgentDetach, WorkspaceMove, OutsidePrune,
     BranchDeleted, RefDeleted, UserCommit, UserRewind, UserSwitch, UserEdit, Tamper
<1>2. Held'
  BY <1>1 DEF IInv, Held, CopyHeld, StateHeld, LocalsHeld, ContentHeld, Blank,
     ManifestReadable
<1>3. TypeOK'
  <2> USE DEF IInv, TypeOK, Outside, Idle, opVars, refVars, wtVars, targetVars, envVars
  <2>0. CASE Settle BY <2>0 DEF Settle
  <2>1. CASE AgentEdit BY <2>1 DEF AgentEdit
  <2>2. CASE AgentCommit
    <3>1. branch' \in MaybeCommit /\ stale' = FALSE
      BY <2>2 DEF AgentCommit, PatchCommits, MaybeCommit
    <3>2. UNCHANGED <<man, cap, pc, loc, ckRef, inRef, path, reg, attached, tree,
                      disk, tip, cur, dirty, run, calm>>
      BY <2>2 DEF AgentCommit
    <3>3. stir' \in Nat
      BY <2>2 DEF AgentCommit
    <3> QED BY <3>1, <3>2, <3>3
  <2>3. CASE AgentRewind
    <3>1. branch \in Commit /\ Parent[branch] \in MaybeCommit
      BY <2>3, ObjectsAssumption DEF AgentRewind, AtWork, MaybeCommit
    <3>2. branch' \in MaybeCommit /\ stale' = FALSE
      BY <2>3, <3>1 DEF AgentRewind
    <3>3. UNCHANGED <<man, cap, pc, loc, ckRef, inRef, path, reg, attached, tree,
                      disk, tip, cur, dirty, run, calm>>
      BY <2>3 DEF AgentRewind
    <3>4. stir' \in Nat
      BY <2>3 DEF AgentRewind
    <3> QED BY <3>2, <3>3, <3>4
  <2>4. CASE AgentDetach BY <2>4 DEF AgentDetach
  <2>5. CASE WorkspaceMove BY <2>5 DEF WorkspaceMove, Paths
  <2>6. CASE OutsidePrune
    <3>1. reg' \in BOOLEAN
      BY <2>6 DEF OutsidePrune
    <3> QED BY <2>6, <3>1 DEF OutsidePrune
  <2>7. CASE BranchDeleted BY <2>7 DEF BranchDeleted, MaybeCommit
  <2>8. CASE RefDeleted BY <2>8 DEF RefDeleted, MaybeCommit
  <2>9. CASE UserCommit
    <3>1. tip' \in [Ref -> Commit]
      BY <2>9 DEF UserCommit
    <3> QED BY <2>9, <3>1 DEF UserCommit
  <2>10. CASE UserRewind
    <3>1. Parent[tip[cur]] \in Commit
      BY <2>10, ObjectsAssumption DEF UserRewind, MaybeCommit
    <3>2. tip' \in [Ref -> Commit]
      BY <2>10, <3>1 DEF UserRewind
    <3> QED BY <2>10, <3>2 DEF UserRewind
  <2>11. CASE UserSwitch BY <2>11 DEF UserSwitch
  <2>12. CASE UserEdit BY <2>12 DEF UserEdit
  <2>13. CASE Tamper
    <3>1. \A t \in Tree : Diff(Base, t) \in Patch
      BY PatchTypes, ObjectsAssumption
    <3>2. PICK t \in Tree : disk' = [disk EXCEPT !.patch = Diff(Base, t)]
      BY <2>13 DEF Tamper
    <3>3. disk' \in [patch : Patch \cup {None}, result : Results \cup {None}]
      BY <3>1, <3>2
    <3> QED BY <2>13, <3>3 DEF Tamper
  <2> QED
    BY <2>0, <2>1, <2>2, <2>3, <2>4, <2>5, <2>6, <2>7, <2>8, <2>9, <2>10, <2>11,
       <2>12, <2>13 DEF OutsideMove
<1> QED BY <1>2, <1>3 DEF IInv

------------------------------------------------------------------------------
(* The invariant is inductive. *)
(* It holds at the start, *)
LEMMA InitIInv == Init => IInv
<1> SUFFICES ASSUME Init PROVE IInv
  OBVIOUS
<1> DEFINE active == [Unborn EXCEPT !.state = "active", !.gitDir = TRUE]
<1>1. man \in {Unborn, active} /\ cap = man /\ pc = "idle" /\ tree \in {TreeOf[Base], None}
  BY DEF Init
<1>2. active \in Manifests /\ active.state = "active" /\ Readable(active)
  BY ManifestAssumption
  DEF Unborn, Manifests, States, Readable, CheckpointConsistent,
      IntegrationConsistent, CleanupConsistent, IdentityKnown
<1>3. Readable(Unborn) /\ Unborn.state = "unborn"
  BY DEF Unborn, Readable, CheckpointConsistent, IntegrationConsistent,
         CleanupConsistent, IdentityKnown
<1>4. Base \in Commit /\ TreeOf[Base] \in Tree
  BY ObjectsAssumption
<1>5. man.state = "active" => tree \in Tree
  BY <1>3, <1>4 DEF Init
<1> HIDE DEF active
<1>6. TypeOK
  <2>1. /\ man \in Manifests /\ cap \in Manifests /\ loc \in Locals /\ pc \in PCs
    BY <1>1, <1>2, StartTypes DEF Init, PCs
  <2>2. /\ branch \in MaybeCommit /\ ckRef \in MaybeCommit /\ inRef \in MaybeCommit
        /\ tree \in Tree \cup {None}
    BY <1>1, <1>4 DEF Init, MaybeCommit
  <2>3. path \in Paths /\ reg \in BOOLEAN /\ attached \in BOOLEAN /\ stale \in BOOLEAN
    BY WorldAssumption DEF Init, Paths
  <2>4. /\ disk \in [patch : Patch \cup {None}, result : Results \cup {None}]
        /\ tip \in [Ref -> Commit] /\ cur \in Ref /\ dirty \in BOOLEAN
        /\ run \in [passed : BOOLEAN, saw : Patch] \cup {None}
        /\ stir \in Nat /\ calm \in BOOLEAN
    BY <1>4 DEF Init, NoDisk
  <2> QED BY <2>1, <2>2, <2>3, <2>4 DEF TypeOK
<1>7. Held
  BY <1>1, <1>2, <1>3, <1>5
  DEF Held, ManifestReadable, Blank, CopyHeld, StateHeld, LocalsHeld, ContentHeld,
      Reading, Creating, Decided, PCs
<1> QED BY <1>6, <1>7 DEF IInv

(* every step keeps it, *)
LEMMA NextIInv == IInv /\ [Next]_vars => IInv'
<1> SUFFICES ASSUME IInv, [Next]_vars PROVE IInv'
  OBVIOUS
<1>1. CASE Call BY <1>1, CallKeeps
<1>2. CASE Step
  BY <1>2, CreationKeeps, CheckpointKeeps, CloseKeeps, IntegrationKeeps, CleanupKeeps,
     RecoveryKeeps DEF Step
<1>3. CASE EvRun \/ EvLoseRun BY <1>3, EvidenceKeeps
<1>4. CASE Crash BY <1>4, FailKeeps DEF Crash
<1>5. CASE OutsideMove \/ Settle BY <1>5, OutsideKeeps
<1>6. CASE UNCHANGED vars
  <2>1. TypeOK'
    BY <1>6 DEF vars, opVars, refVars, wtVars, targetVars, envVars, IInv, TypeOK
  <2>2. Held'
    BY <1>6 DEF vars, opVars, refVars, wtVars, targetVars, envVars, IInv, Held,
       ManifestReadable, Blank, CopyHeld, StateHeld, LocalsHeld, ContentHeld
  <2> QED BY <2>1, <2>2 DEF IInv
<1> QED BY <1>1, <1>2, <1>3, <1>4, <1>5, <1>6 DEF Next

(* so it holds throughout. *)
LEMMA Inductive == Spec => []IInv
<1>1. Init => IInv BY InitIInv
<1>2. IInv /\ [Next]_vars => IInv' BY NextIInv
<1> QED BY <1>1, <1>2, PTL DEF Spec

------------------------------------------------------------------------------
(* Every variable keeps its type, whatever the operations, crashes and      *)
(* outside moves: the model never reads a journal or a result that is not  *)
(* there.                                                                  *)
THEOREM TypeCorrect == Spec => []TypeOK
<1>1. IInv => TypeOK BY DEF IInv
<1> QED BY <1>1, Inductive, PTL

(* No sequence of operations, crashes, recoveries and outside moves writes  *)
(* a manifest that read_capsule would refuse, although write_capsule never *)
(* checks.                                                                 *)
THEOREM AlwaysReadable == Spec => []ManifestReadable
<1>1. IInv => ManifestReadable BY DEF IInv, Held
<1> QED BY <1>1, Inductive, PTL

------------------------------------------------------------------------------
(* What kinds of steps leave alone, for the proofs that are about one part   *)
(* of the state.                                                           *)

(* Taking the locks changes nothing but the operation itself. *)
LEMMA CallFrame ==
  Call => /\ pc = "idle" /\ stir' = 0
          /\ UNCHANGED <<man, refVars, wtVars, disk, targetVars>>
          /\ pc' \in {"crManifest", "crExamine", "ckSnapshot", "write", "clSnapshot1",
                      "inStart", "drJournal", "cuCheck", "ckFinish", "raExamine",
                      "riDecide"}
<1>1. RecoveryOf(man.state) \in {"crExamine", "ckFinish", "raExamine", "riDecide", "cuCheck",
                                 "none"}
  BY DEF RecoveryOf
<1> QED
  BY <1>1 DEF Call, CrBegin, CrReplay, CkBegin, EvidenceStep, EvRecordRun, EvClaim, ClBegin,
              InBegin, DrBegin, DrResume, RcBegin, Begin, Idle

(* An operation that starts, or has only looked so far, holds what it read. *)
LEMMA CopyIsRead == IInv /\ pc \in {"idle", "raExamine"} => cap = man
BY DEF IInv, Held, CopyHeld, Reading, PCs, Creating, Decided

(* Whoever acts from outside during an operation is counted, and has no hand  *)
(* in the operation.                                                       *)
LEMMA OutsideFrame ==
  ASSUME stir \in Nat, OutsideMove
  PROVE  /\ UNCHANGED <<man, cap, pc, loc, run>>
         /\ pc # "idle" => stir < MaxStir /\ stir' = stir + 1 /\ stir' # 0
BY DEF OutsideMove, Outside, opVars, Idle, AgentEdit, AgentCommit, AgentRewind, AgentDetach,
       WorkspaceMove, OutsidePrune, BranchDeleted, RefDeleted, UserCommit, UserRewind,
       UserSwitch, UserEdit, Tamper

(* A step of an operation is not an outside move, and the last one does      *)
(* nothing but write.                                                      *)
LEMMA StepFrame ==
  Step => /\ UNCHANGED envVars
          /\ pc # "idle"
          /\ pc = "write" => UNCHANGED <<refVars, wtVars, disk, targetVars>>
<1>1. CASE CreationStep
  BY <1>1 DEF CreationStep, CrManifest, CrExamine, CrAbandon, CrBranch, CrRegister,
     CrLink, CrCheckout, CrReset, CrActivate, Fail, WriteAndGoto
<1>2. CASE CheckpointStep
  BY <1>2 DEF CheckpointStep, CkSnapshot, CkCreateRef, CkJournal, CkFinish,
     CkRecreateRef, CkAdvance, CkReset, CkDeleteRef, CkComplete, FinalWrite, Fail,
     WriteAndGoto, WriteAndReturn
<1>3. CASE CloseStep
  BY <1>3 DEF CloseStep, ClSnapshot1, ClHead1, ClClean1, ClSnapshot2, ClHead2,
     ClClean2, ClPatch, ClResult, Fail
<1>4. CASE IntegrationStep
  BY <1>4 DEF IntegrationStep, InStart, InPrepare, InAbort, InCreateRef, InJournal,
     InCheck, InMerge, InDone, RiDecide, RiDeleteRef, Fail, WriteAndGoto
<1>5. CASE CleanupStep
  BY <1>5 DEF CleanupStep, DrJournal, CuCheck, CuRemove, CuRemoving, CuUnregister,
     CuPrune, CuBranch, CuCheckpointRef, CuIntegrationRef, Fail, WriteAndGoto
<1>6. CASE RecoveryStep
  BY <1>6 DEF RecoveryStep, RaExamine, RaNothing, Fail
<1> QED
  BY <1>1, <1>2, <1>3, <1>4, <1>5, <1>6 DEF Step

(* Steps that touch nothing of the capsule. *)
LEMMA IdleFrame ==
  EvRun \/ EvLoseRun \/ Settle \/ UNCHANGED vars
    => UNCHANGED <<man, opVars, refVars, wtVars, disk, targetVars, stir>>
BY DEF EvRun, EvLoseRun, Settle, vars, envVars

------------------------------------------------------------------------------
(* Capsule writes the manifest from its copy, or not at all. *)
LEMMA OnlyWrites ==
  IInv /\ [Next]_vars =>
    man' = man \/ (pc \in Writing /\ man' = cap /\ UNCHANGED <<refVars, wtVars, disk, targetVars>>)
<1> SUFFICES ASSUME [Next]_vars
             PROVE  \/ man' = man
                    \/ /\ pc \in Writing /\ man' = cap
                       /\ UNCHANGED <<refVars, wtVars, disk, targetVars>>
  OBVIOUS
<1> USE DEF Writing
<1>1. CASE Call
  BY <1>1 DEF Call, CrBegin, CrReplay, CkBegin, EvidenceStep, EvRecordRun, EvClaim,
     ClBegin, InBegin, DrBegin, DrResume, RcBegin
<1>2. CASE CreationStep
  BY <1>2 DEF CreationStep, CrManifest, CrExamine, CrAbandon, CrBranch, CrRegister,
     CrLink, CrCheckout, CrReset, CrActivate, Fail, WriteAndGoto, Decided
<1>3. CASE CheckpointStep
  BY <1>3 DEF CheckpointStep, CkSnapshot, CkCreateRef, CkJournal, CkFinish,
     CkRecreateRef, CkAdvance, CkReset, CkDeleteRef, CkComplete, FinalWrite, Fail,
     WriteAndGoto, WriteAndReturn, Decided
<1>4. CASE CloseStep
  BY <1>4 DEF CloseStep, ClSnapshot1, ClHead1, ClClean1, ClSnapshot2, ClHead2,
     ClClean2, ClPatch, ClResult, Fail
<1>5. CASE IntegrationStep
  BY <1>5 DEF IntegrationStep, InStart, InPrepare, InAbort, InCreateRef, InJournal,
     InCheck, InMerge, InDone, RiDecide, RiDeleteRef, Fail, WriteAndGoto, Decided
<1>6. CASE CleanupStep
  BY <1>6 DEF CleanupStep, DrJournal, CuCheck, CuRemove, CuRemoving, CuUnregister,
     CuPrune, CuBranch, CuCheckpointRef, CuIntegrationRef, Fail, WriteAndGoto, Decided
<1>7. CASE RecoveryStep BY <1>7 DEF RecoveryStep, RaExamine, RaNothing, Fail
<1>8. CASE EvRun \/ EvLoseRun \/ Crash
  BY <1>8 DEF EvRun, EvLoseRun, Crash, Fail
<1>9. CASE OutsideMove \/ Settle
  BY <1>9 DEF OutsideMove, Settle, Outside, AgentEdit, AgentCommit, AgentRewind,
     AgentDetach, WorkspaceMove, OutsidePrune, BranchDeleted, RefDeleted, UserCommit,
     UserRewind, UserSwitch, UserEdit, Tamper
<1>10. CASE UNCHANGED vars BY <1>10 DEF vars
<1> QED
  BY <1>1, <1>2, <1>3, <1>4, <1>5, <1>6, <1>7, <1>8, <1>9, <1>10 DEF Next, Step

(* One write is one step of the lifecycle, or none. *)
LEMMA EvolvesIsStep ==
  ASSUME Evolves(man, cap), man' = cap
  PROVE  [Abstract!LifecycleNext]_(Abstract!lifecycleVars)
<1> USE DEF Abstract!LifecycleNext, Abstract!lifecycleVars, Abstract!Move, Abstract!record,
        Abstract!Create, Abstract!Activate, Abstract!Orphan, Abstract!StartCheckpoint,
        Abstract!FinishCheckpoint, Abstract!AddEvidence, Abstract!Close,
        Abstract!StartIntegration, Abstract!RollBack, Abstract!Land,
        Abstract!StartDrop, Abstract!FinishDrop
<1>1. CASE SameRecord(man, cap) /\ <<man.state, cap.state>> \in Edges
  BY <1>1 DEF SameRecord, Edges
<1>2. CASE /\ SameRecord(man, cap)
           /\ man.state \notin {"unborn", "dropping", "dropped"} /\ cap.state = "dropping"
  BY <1>2 DEF SameRecord
<1>3. CASE /\ man.state = "checkpointing" /\ cap.state = "active"
           /\ cap.evidence = man.evidence /\ cap.result = man.result
           /\ \E c \in Commit \ man.checkpoints :
                cap.checkpoints = man.checkpoints \cup {c}
  BY <1>3
<1>4. CASE /\ man.state = "active" /\ cap.state = "active"
           /\ cap.checkpoints = man.checkpoints /\ cap.result = man.result
           /\ \E e \in Evidence : cap.evidence = man.evidence \cup {e}
  BY <1>4
<1>5. CASE /\ man.state = "active" /\ cap.state = "closed"
           /\ cap.checkpoints = man.checkpoints /\ cap.evidence = man.evidence
           /\ cap.result \in Results
           /\ cap.result.checkpoints = man.checkpoints
           /\ cap.result.evidence = man.evidence
  BY <1>5
<1> QED BY <1>1, <1>2, <1>3, <1>4, <1>5 DEF Evolves

(* For all commits, trees, operations and faults: the capsule takes only    *)
(* the edges of its lifecycle, never loses a checkpoint or an evidence     *)
(* record, and never touches a seal once made.                             *)
THEOREM Refinement == Spec => ImplementsLifecycle
<1>1. Init => Abstract!LifecycleInit
  BY DEF Init, Abstract!LifecycleInit, Unborn
<1>2. IInv /\ [Next]_vars => [Abstract!LifecycleNext]_(Abstract!lifecycleVars)
  <2> SUFFICES ASSUME IInv, [Next]_vars
               PROVE  [Abstract!LifecycleNext]_(Abstract!lifecycleVars)
    OBVIOUS
  <2>1. CASE man' = man BY <2>1 DEF Abstract!lifecycleVars
  <2>2. CASE pc \in Decided /\ man' = cap
    BY <2>2, EvolvesIsStep DEF IInv, Held, CopyHeld
  <2> QED BY <2>1, <2>2, OnlyWrites DEF Writing
<1> QED
  BY <1>1, <1>2, Inductive, PTL DEF Spec, ImplementsLifecycle, Abstract!LifecycleSpec
==============================================================================
