---------------------------- MODULE CapacityProofs ----------------------------
(***************************************************************************)
(* Of the three transitions that write a manifest twice, two can always be *)
(* completed, whatever their texts take and however full the manifest is.  *)
(***************************************************************************)
EXTENDS Capacity, TLAPS

Manifests ==
  [state : DOMAIN NameLength, checkpoints : Nat, journal : Nat, evidence : Nat,
   result : Nat, integration : Nat, after : Nat, integrated : Nat, cleanup : Nat,
   dropped : Nat]

(* A journal is there in its own state only, and what the cap let in stays   *)
(* within it.                                                              *)
IInv ==
  /\ man \in Manifests
  /\ Fits(man)
  /\ man.state = "checkpointing" => \E n \in Messages : man.journal = Journal(n)
  /\ man.state = "dropping" => man.cleanup \in Cleanups

Sizes ==
  /\ Cap \in Nat /\ Bare \in Nat
  /\ Messages \subseteq Nat /\ Records \subseteq Nat /\ Results \subseteq Nat
  /\ Integrations \subseteq Nat

(* A completed checkpoint takes less than its journal, and a finished drop   *)
(* less than the journal of its cleanup.                                   *)
LEMMA CompletedIsSmaller ==
  ASSUME Sizes, NEW m \in Manifests, NEW n \in Messages,
         m.state = "checkpointing", m.journal = Journal(n)
  PROVE  Completed(m, n) \in Manifests /\ Size(Completed(m, n)) <= Size(m)
<1> DEFINE c == Completed(m, n)
<1> USE DEF Sizes, Manifests
<1>1. CheckpointRecord(m, n) \in Nat /\ CheckpointRecord(m, n) <= n + 204
  BY DEF CheckpointRecord
<1>2. c \in Manifests
  <2> DEFINE k == m.checkpoints + CheckpointRecord(m, n)
  <2>1. c = [m EXCEPT !.state = "active", !.journal = 0, !.checkpoints = k]
    BY DEF Completed
  <2>2. k \in Nat /\ "active" \in DOMAIN NameLength
    BY <1>1 DEF NameLength
  <2> HIDE DEF k, c
  <2> QED
    BY <2>1, <2>2
<1>3. /\ c.state = "active" /\ c.journal = 0
      /\ c.checkpoints = m.checkpoints + CheckpointRecord(m, n)
      /\ c.evidence = m.evidence /\ c.result = m.result
      /\ c.integration = m.integration /\ c.after = m.after
      /\ c.integrated = m.integrated /\ c.cleanup = m.cleanup /\ c.dropped = m.dropped
  BY DEF Completed
<1>4. NameLength["active"] = 6 /\ NameLength["checkpointing"] = 13
  BY DEF NameLength
<1>5. /\ m.checkpoints \in Nat /\ m.journal = n + 336 /\ n \in Nat /\ m.evidence \in Nat
      /\ m.result \in Nat /\ m.integration \in Nat /\ m.after \in Nat
      /\ m.integrated \in Nat /\ m.cleanup \in Nat /\ m.dropped \in Nat
  BY DEF Journal
<1>6. Size(c) <= Size(m)
  <2> HIDE DEF c, Manifests
  <2> QED
    BY <1>1, <1>3, <1>4, <1>5 DEF Size
<1> QED
  BY <1>2, <1>6

LEMMA CleanedIsSmaller ==
  ASSUME Sizes, NEW m \in Manifests, m.state = "dropping", m.cleanup \in Cleanups
  PROVE  Cleaned(m) \in Manifests /\ Size(Cleaned(m)) <= Size(m)
<1> DEFINE c == Cleaned(m)
<1> USE DEF Sizes, Manifests
<1>1. c \in Manifests
  BY DEF Cleaned, DroppedAt, NameLength
<1>2. /\ c.state = "dropped" /\ c.journal = 0 /\ c.cleanup = 0 /\ c.dropped = 33
      /\ c.checkpoints = m.checkpoints /\ c.evidence = m.evidence
      /\ c.result = m.result /\ c.integration = m.integration /\ c.after = m.after
      /\ c.integrated = m.integrated
  BY DEF Cleaned, DroppedAt
<1>3. NameLength["dropping"] = 8 /\ NameLength["dropped"] = 7
  BY DEF NameLength
<1>4. Size(c) <= Size(m)
  BY <1>2, <1>3 DEF Size, Cleanups
<1> QED
  BY <1>1, <1>4

LEMMA SizeType ==
  ASSUME Sizes, NEW m \in Manifests
  PROVE  Size(m) \in Nat
BY DEF Sizes, Manifests, Size, NameLength

LEMMA StepKeeps ==
  ASSUME Sizes, IInv, [Next]_vars
  PROVE  IInv'
<1> USE DEF Sizes, IInv, Manifests, Write, Fits, NameLength
<1>1. ASSUME NEW r \in Records, AddEvidence(r)
      PROVE  IInv'
  BY <1>1 DEF AddEvidence
<1>2. ASSUME NEW n \in Messages, Checkpoint(n)
      PROVE  IInv'
  <2>1. Journal(n) \in Nat
    BY DEF Journal
  <2>2. man' = [man EXCEPT !.state = "checkpointing", !.journal = Journal(n)] /\ Fits(man')
    BY <1>2 DEF Checkpoint
  <2>3. man' \in Manifests /\ man'.state = "checkpointing" /\ man'.journal = Journal(n)
    BY <2>1, <2>2
  <2> QED
    BY <2>2, <2>3
<1>3. CASE FinishCheckpoint
  <2>1. PICK n \in Messages : man.journal = Journal(n) /\ Write(Completed(man, n))
    BY <1>3 DEF FinishCheckpoint
  <2>2. Completed(man, n) \in Manifests /\ Completed(man, n).state = "active"
    BY <1>3, <2>1, CompletedIsSmaller DEF FinishCheckpoint, Completed
  <2> QED
    BY <2>1, <2>2
<1>4. CASE Close
  <2>1. PICK r \in Results : Write([man EXCEPT !.state = "closed", !.result = r + ClosedAt])
    BY <1>4 DEF Close
  <2>2. r + ClosedAt \in Nat
    BY DEF ClosedAt
  <2>3. man' \in Manifests /\ man'.state = "closed"
    BY <2>1, <2>2
  <2> QED
    BY <2>1, <2>3
<1>5. CASE Orphan
  BY <1>5 DEF Orphan
<1>6. ASSUME NEW i \in Integrations, StartIntegration(i)
      PROVE  IInv'
  BY <1>6 DEF StartIntegration
<1>7. CASE PrepareIntegration
  BY <1>7 DEF PrepareIntegration, HeadAfter
<1>8. CASE FastForward
  BY <1>8 DEF FastForward, Size
<1>9. CASE FinishIntegration
  BY <1>9 DEF FinishIntegration, Integrated, IntegratedAt
<1>10. CASE RestoreClosed
  BY <1>10 DEF RestoreClosed, Restored
<1>11. CASE Drop
  <2>1. PICK n \in Cleanups : Write([man EXCEPT !.state = "dropping", !.cleanup = n])
    BY <1>11 DEF Drop
  <2>2. n \in Nat
    BY DEF Cleanups
  <2>3. man' \in Manifests /\ man'.state = "dropping" /\ man'.cleanup = n
    BY <2>1, <2>2
  <2> QED
    BY <2>1, <2>3
<1>12. CASE FinishCleanup
  BY <1>12 DEF FinishCleanup, Cleaned, DroppedAt
<1>13. CASE UNCHANGED vars
  BY <1>13 DEF vars, Size
<1> QED
  BY <1>1, <1>2, <1>3, <1>4, <1>5, <1>6, <1>7, <1>8, <1>9, <1>10, <1>11, <1>12, <1>13
  DEF Next

LEMMA IInvHolds ==
  ASSUME Sizes
  PROVE  Spec => []IInv
<1>1. Init => IInv
  BY DEF Init, IInv, Manifests, NameLength
<1>2. IInv /\ [Next]_vars => IInv'
  BY StepKeeps
<1> QED
  BY <1>1, <1>2, PTL DEF Spec

(* project_checkpoint says that its journaled form is the larger of the two: *)
(* once that is written the branch may move, the completion will fit.      *)
THEOREM CheckpointCompletes ==
  ASSUME Sizes
  PROVE  Spec => []CheckpointRecordable
<1>1. IInv => CheckpointRecordable
  <2> SUFFICES ASSUME IInv, man.state = "checkpointing"
               PROVE  \E n \in Messages : man.journal = Journal(n) /\ Fits(Completed(man, n))
    BY DEF CheckpointRecordable
  <2>1. PICK n \in Messages : man.journal = Journal(n)
    BY DEF IInv
  <2>2. Completed(man, n) \in Manifests /\ Size(Completed(man, n)) <= Size(man)
    BY <2>1, CompletedIsSmaller DEF IInv
  <2>3. Fits(Completed(man, n))
    BY <2>2, SizeType DEF IInv, Fits, Sizes
  <2> QED
    BY <2>1, <2>3
<1> QED
  BY <1>1, IInvHolds, PTL

(* A drop that has journaled its cleanup can always record the end of it.   *)
THEOREM CleanupCompletes ==
  ASSUME Sizes
  PROVE  Spec => []CleanupRecordable
<1>1. IInv => CleanupRecordable
  <2> SUFFICES ASSUME IInv, man.state = "dropping"
               PROVE  Fits(Cleaned(man))
    BY DEF CleanupRecordable
  <2>1. Cleaned(man) \in Manifests /\ Size(Cleaned(man)) <= Size(man)
    BY CleanedIsSmaller DEF IInv
  <2> QED
    BY <2>1, SizeType DEF IInv, Fits, Sizes
<1> QED
  BY <1>1, IInvHolds, PTL
==============================================================================
