--------------------------- MODULE SharedRootProofs ---------------------------
(***************************************************************************)
(* What SharedRoot keeps true for any number of processes, capsules and    *)
(* faults: its types, the completeness of what a check captured, and that  *)
(* neither an acknowledged manifest nor a seal can be lost.                *)
(***************************************************************************)
EXTENDS SharedRoot, TLAPS

USE StoreAssumption, ExecAssumption, SharedRootAssumption

LEMMA AnyCapsuleIn == AnyCapsule \in Capsule
BY DEF AnyCapsule

------------------------------------------------------------------------------
(* The execution of a check. *)

(* What the readers have kept, what the pipes hold and what was written add  *)
(* up as long as the cap is not passed; a reader is done only when nobody   *)
(* can write any more.                                                     *)
ReaderInv(s) ==
  /\ reader[s] = "taking" => got[s] <= OutputCap
  /\ reader[s] = "draining" => got[s] = KeepUpTo
  /\ got[s] <= OutputCap => wrote[s] = got[s] + pipe[s]
  /\ reader[s] = "done" => pipe[s] = 0 /\ ~Open
  /\ wrote[s] + left[s] <= MaxOut

ExecInv ==
  /\ \A s \in Stream : ReaderInv(s)
  /\ run = "none" => NoExecution
  /\ run \in {"joining", "captured"} => child = "exited"
  /\ run = "captured" => \A s \in Stream : reader[s] = "done" /\ got[s] <= OutputCap

LEMMA NoExecutionHolds ==
  ASSUME NoExecution
  PROVE  ExecTypes /\ ExecInv
<1>1. {holds, hangs} \subseteq BOOLEAN
  BY Zenon DEF NoExecution
<1>2. ExecTypes
  BY <1>1 DEF NoExecution, ExecTypes, Nothing
<1>3. ExecInv
  BY DEF NoExecution, ExecInv, ReaderInv, Nothing, KeepUpTo, Open
<1> QED
  BY <1>2, <1>3

LEMMA ForgetHolds ==
  ASSUME Forget
  PROVE  (ExecTypes /\ ExecInv)'
<1>1. {holds', hangs'} \subseteq BOOLEAN
  BY Zenon DEF Forget
<1>2. ExecTypes'
  BY <1>1 DEF Forget, ExecTypes, Nothing
<1>3. ExecInv'
  BY DEF Forget, NoExecution, ExecInv, ReaderInv, Nothing, KeepUpTo, Open
<1> QED
  BY <1>2, <1>3

LEMMA SpawnHolds ==
  ASSUME ExecTypes, ExecInv, Spawn
  PROVE  (ExecTypes /\ ExecInv)'
BY DEF Spawn, NoExecution, ExecTypes, ExecInv, ReaderInv, Nothing, Stream, KeepUpTo,
       Open, Total

LEMMA ExecStepHolds ==
  ASSUME ExecTypes, ExecInv, ExecStep
  PROVE  (ExecTypes /\ ExecInv)'
<1> USE DEF ExecTypes, ExecInv, ReaderInv, Open, KeepUpTo, ioVars, waitVars
<1>1. ASSUME NEW s \in Stream, Write(s)
      PROVE  (ExecTypes /\ ExecInv)'
  BY <1>1 DEF Write, NoExecution
<1>2. CASE LeaveBehind
  BY <1>2 DEF LeaveBehind, NoExecution
<1>3. CASE LastOneOut
  BY <1>3 DEF LastOneOut, NoExecution
<1>4. CASE Exit
  BY <1>4 DEF Exit, NoExecution
<1>5. ASSUME NEW s \in Stream, Take(s)
      PROVE  (ExecTypes /\ ExecInv)'
  BY <1>5 DEF Take, NoExecution
<1>6. ASSUME NEW s \in Stream, Drain(s)
      PROVE  (ExecTypes /\ ExecInv)'
  BY <1>6 DEF Drain, NoExecution
<1>7. ASSUME NEW s \in Stream, EndOfFile(s)
      PROVE  (ExecTypes /\ ExecInv)'
  BY <1>7 DEF EndOfFile, NoExecution
<1>8. CASE SeeExit
  BY <1>8 DEF SeeExit, NoExecution
<1>9. CASE SeeRunning
  BY <1>9 DEF SeeRunning, NoExecution
<1>10. CASE Expire
  BY <1>10 DEF Expire, NoExecution
<1>11. CASE Nap
  BY <1>11 DEF Nap, NoExecution
<1>12. CASE Join
  BY <1>12 DEF Join, NoExecution, Total, Stream
<1> QED
  BY <1>1, <1>2, <1>3, <1>4, <1>5, <1>6, <1>7, <1>8, <1>9, <1>10, <1>11, <1>12
  DEF ExecStep, Command, Reading, Waiting

------------------------------------------------------------------------------
(* Types. *)

LEMMA NoFileIn == NoFile \in Contents
BY DEF NoFile, Contents, Phases

LEMMA InitTypes == Init => TypeOK
<1> SUFFICES ASSUME Init PROVE TypeOK
  OBVIOUS
<1> USE DEF Init
<1>1. ExecTypes
  BY NoExecutionHolds
<1>2. now \in [File -> Contents]
  BY DEF NoFile, Contents, Phases
<1>3. StoreTypes
  BY <1>2 DEF StoreTypes
<1>4. acked \in [Capsule -> Contents]
  BY <1>2 DEF File, Manifest
<1>5. calls \in 0..use.calls /\ faults \in 0..use.faults
  BY DEF UsesOf
<1> QED
  BY <1>1, <1>3, <1>4, <1>5, NoFileIn, AnyCapsuleIn DEF TypeOK, Operations

LEMMA FreshType ==
  ASSUME TypeOK, NEW c \in Capsule, Readable(c)
  PROVE  now[Manifest(c)] \in Contents
BY DEF TypeOK, StoreTypes, Readable, Manifest, File

LEMMA ReturnTypes ==
  ASSUME TypeOK, NEW p \in Process, Return(p)
  PROVE  /\ pc' \in [Process -> {"idle", "check", "exec", "show", "first", "second",
                                "look", "next", "read", "journal", "result", "manifest"}]
         /\ op' \in [Process -> Operations] /\ on' \in [Process -> Capsule]
         /\ mem' \in [Process -> Contents] /\ todo' \in [Process -> SUBSET Capsule]
BY NoFileIn, AnyCapsuleIn DEF TypeOK, Return, Goto, Operations

LEMMA AbandonTypes ==
  ASSUME TypeOK, NEW p \in Process, Abandon(p)
  PROVE  StoreTypes'
BY DEF TypeOK, StoreTypes, Abandon, Release, ReleaseProjects, fileVars

LEMMA RefuseTypes ==
  ASSUME TypeOK, NEW p \in Process, Refuse(p)
  PROVE  TypeOK'
<1>1. StoreTypes'
  BY AbandonTypes DEF Refuse
<1> QED
  BY <1>1, ReturnTypes DEF Refuse, TypeOK, ExecTypes, execVars, outsideVars

LEMMA SaveTypes ==
  ASSUME TypeOK, NEW p \in Process, NEW m \in Contents,
         NEW l \in {"journal", "result", "manifest"}, Save(p, m, l)
  PROVE  TypeOK'
BY DEF TypeOK, StoreTypes, ExecTypes, Save, Goto, storeVars, lockVars, fileVars, execVars,
       outsideVars

LEMMA ExecTypesKept ==
  ASSUME TypeOK, ExecInv, UNCHANGED execVars
  PROVE  (ExecTypes /\ ExecInv)'
BY DEF TypeOK, ExecTypes, ExecInv, ReaderInv, NoExecution, Open, execVars

LEMMA OwnTypes ==
  ASSUME TypeOK, ExecInv, NEW p \in Process, Own(p)
  PROVE  TypeOK' /\ ExecInv'
<1> USE DEF TypeOK
<1>1. CASE Check(p)
  <2>1. ExecTypes' /\ ExecInv'
    BY <1>1, SpawnHolds DEF Check
  <2> QED
    BY <1>1, <2>1 DEF Check, Goto, StoreTypes, storeVars, lockVars, fileVars, outsideVars
<1>2. CASE CheckRefused(p)
  BY <1>2, RefuseTypes, ExecTypesKept DEF CheckRefused, Refuse
<1>3. CASE Captured(p)
  <2>1. ExecTypes' /\ ExecInv'
    BY <1>3, ForgetHolds DEF Captured
  <2> QED
    BY <1>3, <2>1 DEF Captured, Goto, StoreTypes, storeVars, lockVars, fileVars, outsideVars
<1>4. CASE NotCaptured(p)
  <2>1. ExecTypes' /\ ExecInv'
    BY <1>4, ForgetHolds DEF NotCaptured
  <2>2. StoreTypes'
    BY <1>4, AbandonTypes DEF NotCaptured
  <2> QED
    BY <1>4, <2>1, <2>2, ReturnTypes DEF NotCaptured, outsideVars
<1>5. CASE Show(p)
  <2>1. now[Manifest(on[p])] \in Contents
    BY <1>5, FreshType DEF Show
  <2> QED
    BY <1>5, <2>1, ExecTypesKept
    DEF Show, Goto, StoreTypes, storeVars, lockVars, fileVars, outsideVars
<1>6. CASE ShowRefused(p)
  BY <1>6, RefuseTypes, ExecTypesKept DEF ShowRefused, Refuse
<1>7. CASE FirstLock(p)
  BY <1>7, ExecTypesKept DEF FirstLock, Lock, LockGlobal, LockProject, Goto, StoreTypes,
     fileVars, outsideVars
<1>8. CASE SecondLock(p)
  BY <1>8, ExecTypesKept DEF SecondLock, Lock, LockGlobal, LockProject, Goto, StoreTypes,
     fileVars, outsideVars
<1>9. CASE Look(p)
  BY <1>9, ExecTypesKept DEF Look, Subject, Goto, StoreTypes, storeVars, lockVars,
     fileVars, outsideVars
<1>10. CASE Listed(p)
  BY <1>10, RefuseTypes, ExecTypesKept DEF Listed, Refuse
<1>11. CASE LookRefused(p)
  BY <1>11, RefuseTypes, ExecTypesKept DEF LookRefused, Refuse
<1>12. CASE NextCapsule(p)
  BY <1>12, ExecTypesKept DEF NextCapsule, Goto, StoreTypes, storeVars, lockVars,
     fileVars, outsideVars
<1>13. CASE Swept(p)
  BY <1>13, RefuseTypes, ExecTypesKept DEF Swept, Refuse
<1>14. CASE Record(p)
  <2>1. Fresh(p) \in Contents
    BY <1>14, FreshType DEF Record, Fresh
  <2>2. /\ Noted(Fresh(p), p) \in Contents
        /\ [Noted(Fresh(p), p) EXCEPT !.phase = "pending"] \in Contents
        /\ [Fresh(p) EXCEPT !.phase = "closed"] \in Contents
    BY <2>1 DEF Noted, Contents, Phases
  <2>3. TypeOK'
    BY <1>14, <2>2, SaveTypes DEF Record
  <2> QED
    BY <1>14, <2>3, ExecTypesKept DEF Record, Save
<1>15. CASE Reconcile(p)
  <2>1. Fresh(p) \in Contents
    BY <1>15, FreshType DEF Reconcile, Fresh
  <2>2. /\ [Fresh(p) EXCEPT !.phase = "active"] \in Contents
        /\ [Fresh(p) EXCEPT !.phase = "orphaned"] \in Contents
    BY <2>1 DEF Contents, Phases
  <2>3. TypeOK'
    BY <1>15, <2>2, SaveTypes DEF Reconcile
  <2> QED
    BY <1>15, <2>3, ExecTypesKept DEF Reconcile, Save
<1>16. CASE Settled(p)
  BY <1>16, ExecTypesKept DEF Settled, ReleaseProjects, Goto, StoreTypes, fileVars,
     outsideVars
<1>17. CASE ReadRefused(p)
  BY <1>17, RefuseTypes, ExecTypesKept DEF ReadRefused, Refuse
<1>18. CASE Prepare(p)
  BY <1>18, ExecTypesKept DEF Prepare, Stage, Staged, StoreTypes, lockVars, fileVars,
     localVars, outsideVars
<1>19. CASE Replace(p)
  BY <1>19, ExecTypesKept DEF Replace, Rename, Target, Manifest, Result, File, StoreTypes,
     lockVars, localVars, outsideVars
<1>20. CASE HalfWritten(p)
  <2>1. StoreTypes'
    BY <1>20 DEF HalfWritten, SyncDirectory, Survivors, Target, Manifest, Result, File,
       StoreTypes, lockVars
  <2>2. [mem[p] EXCEPT !.phase = "active"] \in Contents
    BY DEF Contents, Phases
  <2>3. acked' \in [Capsule -> Contents] /\ mem' \in [Process -> Contents]
    BY <1>20, <2>2 DEF HalfWritten, Acknowledged
  <2> QED
    BY <1>20, <2>1, <2>3, ExecTypesKept DEF HalfWritten, Goto
<1>21. CASE Recorded(p)
  <2>1. StoreTypes'
    BY <1>21 DEF Recorded, SyncDirectory, Survivors, Target, Manifest, Result, File,
       StoreTypes, Release, ReleaseProjects
  <2>2. acked' \in [Capsule -> Contents]
    BY <1>21 DEF Recorded, Acknowledged
  <2> QED
    BY <1>21, <2>1, <2>2, ReturnTypes, ExecTypesKept DEF Recorded
<1>22. CASE Reconciled(p)
  BY <1>22, ExecTypesKept DEF Reconciled, SyncDirectory, Survivors, Acknowledged, Target,
     Manifest, Result, File, StoreTypes, ReleaseProjects, Goto
<1> QED
  BY <1>1, <1>2, <1>3, <1>4, <1>5, <1>6, <1>7, <1>8, <1>9, <1>10, <1>11, <1>12, <1>13,
     <1>14, <1>15, <1>16, <1>17, <1>18, <1>19, <1>20, <1>21, <1>22
  DEF Own

LEMMA StepTypes ==
  ASSUME TypeOK, ExecInv, [Next]_vars
  PROVE  TypeOK' /\ ExecInv'
<1> USE DEF TypeOK
<1>1. ASSUME NEW p \in Process, Own(p)
      PROVE  TypeOK' /\ ExecInv'
  BY <1>1, OwnTypes
<1>2. ASSUME NEW p \in Process, Fail(p)
      PROVE  TypeOK' /\ ExecInv'
  <2>1. ExecTypes' /\ ExecInv'
    BY <1>2, ForgetHolds, ExecTypesKept DEF Fail
  <2>2. StoreTypes'
    BY <1>2, AbandonTypes DEF Fail
  <2> QED
    BY <1>2, <2>1, <2>2, ReturnTypes DEF Fail, Fault, UsesOf
<1>3. ASSUME NEW p \in Process, NEW o \in Operations, NEW c \in Capsule, Call(p, o, c)
      PROVE  TypeOK' /\ ExecInv'
  <2>1. calls' \in 0..use.calls
    BY <1>3 DEF Call, UsesOf
  <2>2. (ExecTypes /\ ExecInv)' /\ StoreTypes'
    BY <1>3, ExecTypesKept DEF Call, StoreTypes, storeVars, lockVars, fileVars
  <2> QED
    BY <1>3, <2>1, <2>2 DEF Call, Goto
<1>4. CASE Running
  <2>1. ExecTypes' /\ ExecInv'
    BY <1>4, ExecStepHolds DEF Running
  <2> QED
    BY <1>4, <2>1 DEF Running, StoreTypes, storeVars, lockVars, fileVars, localVars,
       outsideVars
<1>5. CASE Blackout
  <2>1. ExecTypes' /\ ExecInv'
    BY <1>5, ForgetHolds DEF Blackout
  <2>2. \A f \in File : now'[f] \in Content \cup {Torn}
    BY <1>5 DEF Blackout, PowerLoss, StoreTypes
  <2>3. StoreTypes'
    BY <1>5, <2>2 DEF Blackout, PowerLoss, StoreTypes
  <2> QED
    BY <1>5, <2>1, <2>3, NoFileIn, AnyCapsuleIn DEF Blackout, Fault, UsesOf, Operations
<1>6. ASSUME NEW c \in Capsule, Spoil(c) \/ Lose(c)
      PROVE  TypeOK' /\ ExecInv'
  BY <1>6, ExecTypesKept DEF Spoil, Lose, StoreTypes, storeVars, lockVars, fileVars,
     localVars
<1>7. CASE UNCHANGED vars
  <2>1. ExecTypes' /\ ExecInv'
    BY <1>7, ExecTypesKept DEF vars
  <2> QED
    BY <1>7, <2>1 DEF vars, StoreTypes, storeVars, lockVars, fileVars, localVars, outsideVars
<1> QED
  BY <1>1, <1>2, <1>3, <1>4, <1>5, <1>6, <1>7 DEF Next

(* Every variable keeps its type. *)
THEOREM TypesHold == Spec => [](TypeOK /\ ExecInv)
<1>1. Init => TypeOK /\ ExecInv
  BY InitTypes, NoExecutionHolds DEF Init
<1>2. TypeOK /\ ExecInv /\ [Next]_vars => (TypeOK /\ ExecInv)'
  BY StepTypes
<1> QED
  BY <1>1, <1>2, PTL DEF Spec

(* In particular, every variable keeps its type. *)
THEOREM TypeOKHolds == Spec => []TypeOK
BY TypesHold, PTL

(* A check that is captured has ended, nobody can write to its pipes any    *)
(* more, and all that was written is what is digested.                     *)
THEOREM CaptureCompleteHolds == Spec => []CaptureComplete
<1>1. TypeOK /\ ExecInv => CaptureComplete
  <2> SUFFICES ASSUME TypeOK, ExecInv, run = "captured"
               PROVE  child = "exited" /\ ~holds /\ got = wrote
    BY DEF CaptureComplete
  <2>1. \A s \in Stream : pipe[s] = 0 /\ ~Open /\ wrote[s] = got[s] + pipe[s]
    BY DEF ExecInv, ReaderInv
  <2>2. ~Open
    BY <2>1 DEF Stream
  <2>3. child = "exited" /\ ~holds
    BY <2>2 DEF ExecInv, Open
  <2>4. got = wrote
    BY <2>1 DEF TypeOK, ExecTypes
  <2> QED
    BY <2>3, <2>4
<1> QED
  BY <1>1, TypesHold, PTL

------------------------------------------------------------------------------
(* Durability. *)

(* An operation that reads or writes under locks holds the global one, and  *)
(* only one that writes has a temporary file.                              *)
LockInv(p) ==
  pc[p] \in {"look", "next", "second", "read", "journal", "result", "manifest"}
    => globalLock = p

TempInv(p) == temp[p] # "none" => Writing(p)

(* The disk.  What a power loss may leave of a manifest goes on from what   *)
(* was acknowledged; if it is sealed it is what everybody reads, and the    *)
(* result it seals is there for good.                                      *)
FileInv(f) == now[f] \in kept[f] /\ Torn \notin kept[f]

DiskInv(c) ==
  \A x \in kept[Manifest(c)] :
    /\ Follows(acked[c], x)
    /\ x.phase = "closed" => now[Manifest(c)] = x /\ kept[Result(c)] = {x}

(* A writer's copy goes on from what was acknowledged, and until it renames *)
(* that copy into place the manifest is one that may change.               *)
WriterInv(p) ==
  Writing(p) =>
    /\ Follows(acked[on[p]], mem[p])
    /\ pc[p] = "journal" => mem[p].phase = "pending"
    /\ pc[p] = "result" => mem[p].phase = "closed"
    /\ pc[p] = "manifest" /\ mem[p].phase = "closed" => kept[Result(on[p])] = {mem[p]}
    /\ temp[p] = "renamed" => now[Target(p)] = mem[p]
    /\ pc[p] = "result" \/ temp[p] # "renamed"
         => now[Manifest(on[p])].phase \in {"active", "pending"}

ProcessInv(p) == LockInv(p) /\ TempInv(p) /\ WriterInv(p)

StoreInv ==
  /\ \A p \in Process : ProcessInv(p)
  /\ \A f \in File : FileInv(f)
  /\ \A c \in Capsule : DiskInv(c)

(* What a step of p leaves to the others. *)
OthersKept(p) ==
  \A q \in Process \ {p} :
    /\ pc'[q] = pc[q] /\ on'[q] = on[q] /\ mem'[q] = mem[q] /\ temp'[q] = temp[q]
    /\ globalLock = q => globalLock' = q

LEMMA QuietStep ==
  ASSUME StoreInv, NEW p \in Process, UNCHANGED <<now, kept, acked>>, OthersKept(p),
         ProcessInv(p)'
  PROVE  StoreInv'
<1>1. ASSUME NEW q \in Process \ {p}
      PROVE  ProcessInv(q)'
  BY DEF StoreInv, OthersKept, ProcessInv, LockInv, TempInv, WriterInv, Writing, Target
<1>2. \A f \in File : FileInv(f)'
  BY DEF StoreInv, FileInv
<1>3. \A c \in Capsule : DiskInv(c)'
  BY DEF StoreInv, DiskInv
<1> QED
  BY <1>1, <1>2, <1>3 DEF StoreInv

LEMMA WriteStep ==
  ASSUME StoreInv, NEW p \in Process, Writing(p), OthersKept(p), ProcessInv(p)',
         \A f \in File : FileInv(f)', \A c \in Capsule : DiskInv(c)'
  PROVE  StoreInv'
<1>1. ASSUME NEW q \in Process \ {p}
      PROVE  ProcessInv(q)'
  BY DEF StoreInv, OthersKept, ProcessInv, LockInv, TempInv, WriterInv, Writing
<1> QED
  BY <1>1 DEF StoreInv

(* The end of an operation, or of its process. *)
LEMMA ReturnStep ==
  ASSUME StoreInv, TypeOK, NEW p \in Process, Return(p), Abandon(p), UNCHANGED acked
  PROVE  StoreInv'
<1>1. OthersKept(p)
  BY DEF OthersKept, Return, Abandon, Goto, Release, TypeOK, StoreTypes
<1>2. ProcessInv(p)'
  BY DEF ProcessInv, LockInv, TempInv, WriterInv, Writing, Return, Abandon, Goto, TypeOK,
     StoreTypes
<1> QED
  BY <1>1, <1>2, QuietStep DEF Abandon, fileVars

LEMMA RefuseStep ==
  ASSUME StoreInv, TypeOK, NEW p \in Process, Refuse(p)
  PROVE  StoreInv'
BY ReturnStep DEF Refuse, outsideVars

(* A process moves on, and what it moves to is not a write. *)
LEMMA MoveStep ==
  ASSUME StoreInv, TypeOK, NEW p \in Process, NEW l, Goto(p, l),
         l \notin {"journal", "result", "manifest"}, ~Writing(p),
         UNCHANGED <<now, kept, acked, temp>>,
         l \in {"look", "next", "second", "read"} => globalLock' = p,
         \A q \in Process \ {p} :
           /\ on'[q] = on[q] /\ mem'[q] = mem[q]
           /\ globalLock = q => globalLock' = q
  PROVE  StoreInv'
<1>1. OthersKept(p)
  BY DEF OthersKept, Goto, TypeOK
<1>2. pc'[p] = l
  BY DEF Goto, TypeOK
<1>3. ProcessInv(p)'
  BY <1>2 DEF ProcessInv, LockInv, TempInv, WriterInv, Writing, StoreInv
<1> QED
  BY <1>1, <1>3, QuietStep

(* It has decided what to write, under the global lock. *)
LEMMA SaveStep ==
  ASSUME StoreInv, TypeOK, NEW p \in Process, NEW m, NEW l, Save(p, m, l),
         pc[p] = "read", l \in {"journal", "result", "manifest"},
         Follows(acked[on[p]], m),
         l = "journal" => m.phase = "pending",
         l = "result" => m.phase = "closed",
         l = "manifest" => m.phase # "closed",
         now[Manifest(on[p])].phase \in {"active", "pending"}
  PROVE  StoreInv'
<1> USE DEF Save, storeVars, lockVars, fileVars, outsideVars
<1>1. OthersKept(p)
  BY DEF OthersKept, Goto, TypeOK
<1>2. pc'[p] = l /\ mem'[p] = m
  BY DEF Goto, TypeOK
<1>3. temp[p] = "none"
  BY DEF StoreInv, ProcessInv, TempInv, Writing
<1>4. ProcessInv(p)'
  BY <1>2, <1>3 DEF ProcessInv, LockInv, TempInv, WriterInv, Writing, StoreInv
<1> QED
  BY <1>1, <1>4, QuietStep

(* What it has read goes on from what was acknowledged. *)
LEMMA FreshFollows ==
  ASSUME StoreInv, TypeOK, NEW c \in Capsule
  PROVE  Follows(acked[c], now[Manifest(c)])
BY DEF StoreInv, FileInv, DiskInv, Manifest, File

LEMMA RecordStep ==
  ASSUME StoreInv, TypeOK, NEW p \in Process, Record(p)
  PROVE  StoreInv'
<1> DEFINE m == Fresh(p)
<1>1. m \in Contents /\ m.phase = "active" /\ on[p] \in Capsule
  BY FreshType DEF Record, Admitted, TypeOK, Fresh
<1>2. Follows(acked[on[p]], m) /\ acked[on[p]] \in Contents
  BY <1>1, FreshFollows DEF Fresh, TypeOK
<1>3. acked[on[p]].phase \notin {"closed", "orphaned"}
  BY <1>1, <1>2 DEF Follows
<1>4. \A n \in Contents : m.notes \subseteq n.notes => Follows(acked[on[p]], n)
  BY <1>2, <1>3 DEF Follows
<1>5. Noted(m, p) \in Contents /\ Noted(m, p).phase = "active"
      /\ m.notes \subseteq Noted(m, p).notes
  BY <1>1 DEF Noted, Contents
<1>6. CASE Save(p, Noted(m, p), "manifest")
  BY <1>1, <1>4, <1>5, <1>6, SaveStep DEF Record, Fresh
<1>7. CASE Save(p, [Noted(m, p) EXCEPT !.phase = "pending"], "journal")
  <2> DEFINE n == [Noted(m, p) EXCEPT !.phase = "pending"]
  <2>1. n \in Contents /\ n.phase = "pending" /\ m.notes \subseteq n.notes
    BY <1>5 DEF Contents, Phases
  <2>2. Follows(acked[on[p]], n)
    BY <1>4, <2>1
  <2> QED
    BY <1>1, <1>7, <2>1, <2>2, SaveStep DEF Record, Fresh
<1>8. CASE Save(p, [m EXCEPT !.phase = "closed"], "result")
  <2> DEFINE n == [m EXCEPT !.phase = "closed"]
  <2>1. n \in Contents /\ n.phase = "closed" /\ m.notes \subseteq n.notes
    BY <1>1 DEF Contents, Phases
  <2>2. Follows(acked[on[p]], n)
    BY <1>4, <2>1
  <2> QED
    BY <1>1, <1>8, <2>1, <2>2, SaveStep DEF Record, Fresh
<1> QED
  BY <1>6, <1>7, <1>8 DEF Record

LEMMA ReconcileStep ==
  ASSUME StoreInv, TypeOK, NEW p \in Process, Reconcile(p)
  PROVE  StoreInv'
<1> DEFINE m == Fresh(p)
<1>1. m \in Contents /\ m.phase \in {"active", "pending"} /\ on[p] \in Capsule
  BY FreshType DEF Reconcile, TypeOK, Fresh
<1>2. Follows(acked[on[p]], m) /\ acked[on[p]] \in Contents
  BY <1>1, FreshFollows DEF Fresh, TypeOK
<1>3. \A n \in Contents : m.notes \subseteq n.notes => Follows(acked[on[p]], n)
  BY <1>1, <1>2 DEF Follows
<1>4. ASSUME NEW l \in {"active", "orphaned"}, Save(p, [m EXCEPT !.phase = l], "manifest")
      PROVE  StoreInv'
  <2> DEFINE n == [m EXCEPT !.phase = l]
  <2>1. n \in Contents /\ n.phase = l /\ m.notes \subseteq n.notes
    BY <1>1 DEF Contents, Phases
  <2>2. Follows(acked[on[p]], n)
    BY <1>3, <2>1
  <2> QED
    BY <1>1, <1>4, <2>1, <2>2, SaveStep DEF Reconcile, Fresh
<1> QED
  BY <1>4 DEF Reconcile

(* The writes. *)

LEMMA ReplaceStep ==
  ASSUME StoreInv, TypeOK, NEW p \in Process, Replace(p)
  PROVE  StoreInv'
<1> DEFINE c0 == on[p]
<1> USE DEF Replace, Rename, localVars, lockVars, outsideVars
<1>1. OthersKept(p)
  BY DEF OthersKept, TypeOK, StoreTypes
<1>2. temp[p] = "synced" /\ temp'[p] = "renamed" /\ c0 \in Capsule /\ mem[p] \in Contents
  BY DEF TypeOK, StoreTypes
<1>3. ProcessInv(p)
  BY DEF StoreInv
<1>4. Target(p) \in File /\ mem[p] # Torn
  BY <1>2 DEF Target, Manifest, Result, File
<1>5. /\ now' = [now EXCEPT ![Target(p)] = mem[p]]
      /\ kept' = [kept EXCEPT ![Target(p)] = @ \cup {mem[p]}]
  BY <1>2
<1>6. now'[Target(p)] = mem[p] /\ kept'[Target(p)] = kept[Target(p)] \cup {mem[p]}
  BY <1>4, <1>5 DEF TypeOK, StoreTypes
<1>7. \A f \in File : f # Target(p) => now'[f] = now[f] /\ kept'[f] = kept[f]
  BY <1>5 DEF TypeOK, StoreTypes
<1>8. \A f \in File : FileInv(f)'
  BY <1>4, <1>6, <1>7 DEF FileInv, StoreInv
<1>9. Follows(acked[c0], mem[p]) /\ now[Manifest(c0)].phase \in {"active", "pending"}
  BY <1>2, <1>3 DEF ProcessInv, WriterInv
<1>10. \A x \in kept[Manifest(c0)] : Follows(acked[c0], x) /\ x.phase # "closed"
  BY <1>2, <1>9 DEF StoreInv, DiskInv
<1>11. Manifest(c0) \in File /\ Result(c0) \in File /\ Manifest(c0) # Result(c0)
  BY <1>2 DEF Manifest, Result, File
<1>12. CASE pc[p] = "result"
  <2>1. Target(p) = Result(c0)
    BY <1>12 DEF Target
  <2>2. ProcessInv(p)'
    BY <1>2, <1>3, <1>6, <1>7, <1>11, <1>12, <2>1
    DEF ProcessInv, LockInv, TempInv, WriterInv, Writing, Target
  <2>3. DiskInv(c0)'
    BY <1>7, <1>10, <1>11, <2>1 DEF DiskInv
  <2>4. ASSUME NEW c \in Capsule, c # c0
        PROVE  DiskInv(c)'
    <3>1. Manifest(c) \in File \ {Target(p)} /\ Result(c) \in File \ {Target(p)}
      BY <2>1, <2>4 DEF Manifest, Result, File
    <3> QED
      BY <1>7, <3>1 DEF StoreInv, DiskInv
  <2> QED
    BY <1>1, <1>8, <2>2, <2>3, <2>4, WriteStep
<1>13. CASE pc[p] # "result"
  <2>1. Target(p) = Manifest(c0)
    BY <1>13 DEF Target
  <2>2. ProcessInv(p)'
    BY <1>2, <1>3, <1>6, <1>7, <1>11, <1>13, <2>1
    DEF ProcessInv, LockInv, TempInv, WriterInv, Writing, Target
  <2>3. mem[p].phase = "closed" => kept[Result(c0)] = {mem[p]}
    BY <1>3, <1>13 DEF ProcessInv, WriterInv, Writing
  <2>4. DiskInv(c0)'
    BY <1>6, <1>7, <1>9, <1>10, <1>11, <2>1, <2>3 DEF DiskInv
  <2>5. ASSUME NEW c \in Capsule, c # c0
        PROVE  DiskInv(c)'
    <3>1. Manifest(c) \in File \ {Target(p)} /\ Result(c) \in File \ {Target(p)}
      BY <2>1, <2>5 DEF Manifest, Result, File
    <3> QED
      BY <1>7, <3>1 DEF StoreInv, DiskInv
  <2> QED
    BY <1>1, <1>8, <2>2, <2>4, <2>5, WriteStep
<1> QED
  BY <1>12, <1>13

LEMMA SyncKeepsDisk ==
  ASSUME StoreInv, TypeOK, NEW p \in Process, Writing(p), SyncDirectory(p, Target(p)),
         IF pc[p] = "result" THEN UNCHANGED acked ELSE Acknowledged(p)
  PROVE  /\ \A f \in File : FileInv(f)'
         /\ \A c \in Capsule : DiskInv(c)'
         /\ pc[p] = "result" => kept'[Result(on[p])] = {mem[p]}
<1> DEFINE c0 == on[p]
<1> USE DEF SyncDirectory, Survivors
<1>1. c0 \in Capsule /\ mem[p] \in Contents /\ ProcessInv(p)
  BY DEF TypeOK, StoreInv
<1>2. Manifest(c0) \in File /\ Result(c0) \in File /\ Manifest(c0) # Result(c0)
      /\ Target(p) \in File
  BY <1>1 DEF Manifest, Result, File, Target
<1>3. now[Target(p)] = mem[p]
  BY <1>1 DEF ProcessInv, WriterInv
<1>4. kept'[Target(p)] = {mem[p]}
  BY <1>2, <1>3 DEF TypeOK, StoreTypes, StoreInv, FileInv
<1>5. \A f \in File \ {Target(p)} : kept'[f] = kept[f]
  BY DEF TypeOK, StoreTypes
<1>6. mem[p] # Torn
  BY <1>1
<1>7. \A f \in File : FileInv(f)'
  BY <1>3, <1>4, <1>5, <1>6 DEF StoreInv, FileInv
<1>8. ASSUME NEW c \in Capsule, c # c0
      PROVE  DiskInv(c)'
  <2>1. Manifest(c) \in File \ {Target(p)} /\ Result(c) \in File \ {Target(p)}
    BY <1>8 DEF Manifest, Result, File, Target
  <2>2. acked'[c] = acked[c]
    BY <1>8 DEF Acknowledged, TypeOK
  <2> QED
    BY <1>5, <2>1, <2>2 DEF StoreInv, DiskInv
<1>9. CASE pc[p] = "result"
  <2>1. Target(p) = Result(c0)
    BY <1>9 DEF Target
  <2>2. now[Manifest(c0)].phase \in {"active", "pending"}
    BY <1>1, <1>9 DEF ProcessInv, WriterInv, Writing
  <2>3. ASSUME NEW c \in Capsule, c = c0
        PROVE  DiskInv(c)'
    BY <1>1, <1>2, <1>5, <1>9, <2>1, <2>2, <2>3 DEF StoreInv, DiskInv
  <2> QED
    BY <1>4, <1>7, <1>8, <2>1, <2>3
<1>10. CASE pc[p] # "result"
  <2>1. Target(p) = Manifest(c0)
    BY <1>10 DEF Target
  <2>2. acked'[c0] = mem[p]
    BY <1>1, <1>10 DEF Acknowledged, TypeOK
  <2>3. mem[p].phase = "closed" => kept[Result(c0)] = {mem[p]}
    BY <1>1, <1>10 DEF ProcessInv, WriterInv, Writing
  <2>4. ASSUME NEW c \in Capsule, c = c0
        PROVE  DiskInv(c)'
    BY <1>2, <1>3, <1>4, <1>5, <2>1, <2>2, <2>3, <2>4 DEF DiskInv, Follows
  <2> QED
    BY <1>7, <1>8, <1>10, <2>4
<1> QED
  BY <1>9, <1>10

LEMMA HalfWrittenStep ==
  ASSUME StoreInv, TypeOK, NEW p \in Process, HalfWritten(p)
  PROVE  StoreInv'
<1> USE DEF HalfWritten
<1>1. OthersKept(p)
  BY DEF OthersKept, Goto, SyncDirectory, lockVars, TypeOK, StoreTypes
<1>2. Writing(p) /\ ProcessInv(p)
  BY DEF Writing, StoreInv
<1>3. /\ \A f \in File : FileInv(f)'
      /\ \A c \in Capsule : DiskInv(c)'
      /\ pc[p] = "result" => kept'[Result(on[p])] = {mem[p]}
  BY <1>2, SyncKeepsDisk
<1>4. /\ pc'[p] = "manifest" /\ temp'[p] = "none" /\ globalLock' = globalLock
      /\ now' = now /\ on' = on /\ on[p] \in Capsule
  BY DEF Goto, SyncDirectory, lockVars, TypeOK, StoreTypes
<1>5. now[Target(p)] = mem[p]
  BY <1>2 DEF SyncDirectory, ProcessInv, WriterInv
<1>6. CASE pc[p] = "result"
  <2>1. mem' = mem /\ acked' = acked
    BY <1>6
  <2>2. ProcessInv(p)'
    BY <1>2, <1>3, <1>4, <1>6, <2>1
    DEF ProcessInv, LockInv, TempInv, WriterInv, Writing, Target
  <2> QED
    BY <1>1, <1>2, <1>3, <2>2, WriteStep
<1>7. CASE pc[p] = "journal"
  <2>1. mem[p] \in Contents /\ mem[p].phase = "pending"
    BY <1>2, <1>7 DEF ProcessInv, WriterInv, TypeOK
  <2>2. acked'[on[p]] = mem[p] /\ mem'[p] = [mem[p] EXCEPT !.phase = "active"]
    BY <1>4, <1>7 DEF Acknowledged, TypeOK
  <2>3. mem'[p].phase = "active" /\ mem'[p].notes = mem[p].notes
    BY <2>1, <2>2 DEF Contents
  <2>4. Follows(acked'[on[p]], mem'[p])
    BY <2>1, <2>2, <2>3 DEF Follows
  <2>5. now[Manifest(on[p])].phase = "pending"
    BY <1>5, <1>7, <2>1 DEF Target
  <2>6. ProcessInv(p)'
    BY <1>2, <1>4, <1>7, <2>3, <2>4, <2>5
    DEF ProcessInv, LockInv, TempInv, WriterInv, Writing
  <2> QED
    BY <1>1, <1>2, <1>3, <2>6, WriteStep
<1> QED
  BY <1>6, <1>7

LEMMA RecordedStep ==
  ASSUME StoreInv, TypeOK, NEW p \in Process, Recorded(p)
  PROVE  StoreInv'
<1> USE DEF Recorded
<1>1. OthersKept(p)
  BY DEF OthersKept, Return, Goto, SyncDirectory, Release, TypeOK, StoreTypes
<1>2. Writing(p)
  BY DEF Writing
<1>3. (\A f \in File : FileInv(f)') /\ (\A c \in Capsule : DiskInv(c)')
  BY <1>2, SyncKeepsDisk
<1>4. ProcessInv(p)'
  BY DEF ProcessInv, LockInv, TempInv, WriterInv, Writing, Return, Goto, SyncDirectory,
     TypeOK, StoreTypes
<1> QED
  BY <1>1, <1>2, <1>3, <1>4, WriteStep

LEMMA ReconciledStep ==
  ASSUME StoreInv, TypeOK, NEW p \in Process, Reconciled(p)
  PROVE  StoreInv'
<1> USE DEF Reconciled
<1>1. OthersKept(p)
  BY DEF OthersKept, Goto, SyncDirectory, TypeOK, StoreTypes
<1>2. Writing(p)
  BY DEF Writing
<1>3. (\A f \in File : FileInv(f)') /\ (\A c \in Capsule : DiskInv(c)')
  BY <1>2, SyncKeepsDisk
<1>4. ProcessInv(p)'
  BY DEF StoreInv, ProcessInv, LockInv, TempInv, WriterInv, Writing, Goto, SyncDirectory,
     TypeOK, StoreTypes
<1> QED
  BY <1>1, <1>2, <1>3, <1>4, WriteStep

LEMMA OwnStep ==
  ASSUME StoreInv, TypeOK, NEW p \in Process, Own(p)
  PROVE  StoreInv'
<1> USE DEF storeVars, lockVars, fileVars, outsideVars
<1>1. CASE Check(p)
  BY <1>1, MoveStep DEF Check, Writing
<1>2. CASE Captured(p)
  BY <1>2, MoveStep DEF Captured, Writing
<1>3. CASE NotCaptured(p)
  BY <1>3, ReturnStep DEF NotCaptured
<1>4. CASE Show(p)
  <2>1. OthersKept(p)
    BY <1>4 DEF Show, OthersKept, Goto, TypeOK
  <2>2. ProcessInv(p)'
    BY <1>4 DEF Show, ProcessInv, LockInv, TempInv, WriterInv, Writing, Goto, TypeOK,
       StoreInv
  <2> QED
    BY <1>4, <2>1, <2>2, QuietStep DEF Show
<1>5. CASE FirstLock(p)
  <2>1. globalLock' = p /\ \A q \in Process : globalLock # q
    BY <1>5 DEF FirstLock, Lock, LockGlobal, Order
  <2> QED
    BY <1>5, <2>1, MoveStep DEF FirstLock, Writing
<1>6. CASE SecondLock(p)
  <2>1. globalLock' = p /\ globalLock = p
    BY <1>6 DEF SecondLock, Lock, LockProject, Order, StoreInv, ProcessInv, LockInv
  <2> QED
    BY <1>6, <2>1, MoveStep DEF SecondLock, Writing
<1>7. CASE Look(p)
  <2>1. globalLock = p
    BY <1>7 DEF Look, StoreInv, ProcessInv, LockInv
  <2> QED
    BY <1>7, <2>1, MoveStep DEF Look, Writing
<1>8. CASE NextCapsule(p)
  <2>1. globalLock = p
    BY <1>8 DEF NextCapsule, StoreInv, ProcessInv, LockInv
  <2>2. \A q \in Process \ {p} : on'[q] = on[q]
    BY <1>8 DEF NextCapsule, TypeOK
  <2> QED
    BY <1>8, <2>1, <2>2, MoveStep DEF NextCapsule, Writing
<1>9. CASE Settled(p)
  <2>1. globalLock = p
    BY <1>9 DEF Settled, StoreInv, ProcessInv, LockInv
  <2> QED
    BY <1>9, <2>1, MoveStep DEF Settled, Writing
<1>10. CASE Prepare(p)
  <2>1. OthersKept(p)
    BY <1>10 DEF Prepare, Stage, OthersKept, localVars, TypeOK, StoreTypes
  <2>2. temp[p] = "none" /\ temp'[p] = "synced"
    BY <1>10 DEF Prepare, Stage, Staged, TypeOK, StoreTypes
  <2>3. ProcessInv(p)'
    BY <1>10, <2>2 DEF Prepare, Stage, ProcessInv, LockInv, TempInv, WriterInv, Writing,
       localVars, StoreInv
  <2> QED
    BY <1>10, <2>1, <2>3, QuietStep DEF Prepare, Stage
<1>11. CASE CheckRefused(p) \/ ShowRefused(p) \/ Listed(p) \/ LookRefused(p)
            \/ Swept(p) \/ ReadRefused(p)
  BY <1>11, RefuseStep
  DEF CheckRefused, ShowRefused, Listed, LookRefused, Swept, ReadRefused
<1> QED
  BY <1>1, <1>2, <1>3, <1>4, <1>5, <1>6, <1>7, <1>8, <1>9, <1>10, <1>11, RecordStep,
     ReconcileStep, ReplaceStep, HalfWrittenStep, RecordedStep, ReconciledStep
  DEF Own

LEMMA BlackoutStep ==
  ASSUME StoreInv, TypeOK, Blackout
  PROVE  StoreInv'
<1> USE DEF Blackout, PowerLoss
<1>1. \A f \in File : now'[f] \in kept[f] /\ kept'[f] = {now'[f]}
  OBVIOUS
<1>2. \A f \in File : FileInv(f)'
  BY <1>1 DEF StoreInv, FileInv
<1>3. ASSUME NEW c \in Capsule
      PROVE  DiskInv(c)'
  <2>1. Manifest(c) \in File /\ Result(c) \in File
    BY DEF Manifest, Result, File
  <2> QED
    BY <1>1, <2>1 DEF StoreInv, DiskInv
<1>4. ASSUME NEW p \in Process
      PROVE  ProcessInv(p)'
  BY DEF ProcessInv, LockInv, TempInv, WriterInv, Writing
<1> QED
  BY <1>2, <1>3, <1>4 DEF StoreInv

LEMMA StoreStep ==
  ASSUME StoreInv, TypeOK, [Next]_vars
  PROVE  StoreInv'
<1> USE DEF storeVars, lockVars, fileVars, localVars, outsideVars
<1>1. ASSUME UNCHANGED <<now, kept, acked, pc, on, mem, temp, globalLock>>
      PROVE  StoreInv'
  BY <1>1 DEF StoreInv, ProcessInv, LockInv, TempInv, WriterInv, FileInv, DiskInv, Writing,
     Target
<1>2. ASSUME NEW p \in Process, Fail(p)
      PROVE  StoreInv'
  BY <1>2, ReturnStep DEF Fail
<1>3. ASSUME NEW p \in Process, NEW o \in Operations, NEW c \in Capsule, Call(p, o, c)
      PROVE  StoreInv'
  <2>1. OthersKept(p)
    BY <1>3 DEF Call, OthersKept, Goto, TypeOK
  <2>2. pc[p] = "idle" /\ pc'[p] \in {"check", "show", "first"}
    BY <1>3 DEF Call, Goto, TypeOK
  <2>3. ProcessInv(p)'
    BY <1>3, <2>2 DEF Call, ProcessInv, LockInv, TempInv, WriterInv, Writing, StoreInv
  <2> QED
    BY <1>3, <2>1, <2>3, QuietStep DEF Call
<1> QED
  BY <1>1, <1>2, <1>3, OwnStep, BlackoutStep DEF Next, Running, Spoil, Lose, vars

LEMMA InitStore == Init => StoreInv
<1> SUFFICES ASSUME Init PROVE StoreInv
  OBVIOUS
<1> USE DEF Init
<1>1. ASSUME NEW c \in Capsule
      PROVE  DiskInv(c)
  BY DEF DiskInv, Follows, Manifest, NoFile, File
<1>2. ASSUME NEW f \in File
      PROVE  FileInv(f)
  <2>1. now[f] \in Contents
    BY DEF NoFile, Contents, Phases
  <2> QED
    BY <2>1 DEF FileInv
<1>3. ASSUME NEW p \in Process
      PROVE  ProcessInv(p)
  BY DEF ProcessInv, LockInv, TempInv, WriterInv, Writing
<1> QED
  BY <1>1, <1>2, <1>3 DEF StoreInv

LEMMA StoreHolds == Spec => []StoreInv
<1>1. TypeOK /\ StoreInv /\ [Next]_vars => StoreInv'
  BY StoreStep
<1> QED
  BY <1>1, InitStore, TypeOKHolds, PTL DEF Spec

(* Once write_capsule has returned, no crash, failed write, power loss or    *)
(* other process takes back what it recorded.                              *)
THEOREM AcknowledgedIsDurableHolds == Spec => []AcknowledgedIsDurable
<1>1. StoreInv => AcknowledgedIsDurable
  BY DEF StoreInv, DiskInv, FileInv, AcknowledgedIsDurable, Manifest, File
<1> QED
  BY <1>1, StoreHolds, PTL

(* A power loss leaves no closed capsule without the result it sealed.      *)
THEOREM SealSurvivesHolds == Spec => []SealSurvives
<1>1. StoreInv => SealSurvives
  BY DEF StoreInv, DiskInv, SealSurvives
<1> QED
  BY <1>1, StoreHolds, PTL
==============================================================================
