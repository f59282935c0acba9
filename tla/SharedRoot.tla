------------------------------ MODULE SharedRoot ------------------------------
(***************************************************************************)
(* Several processes of Capsule on one state root.  Each reads a manifest, *)
(* takes the locks, reads it again, and replaces files of the capsule; one *)
(* of them runs commands for evidence, under no lock; recovery sweeps all  *)
(* capsules in the order of their identifiers.  What an operation does in  *)
(* Git is the lifecycle modules'; what is told apart here is what the      *)
(* manifest promises and whether it can be lost.                           *)
(***************************************************************************)
EXTENDS StateStore, Exec, FiniteSets

CONSTANTS
  ProjectOf,   \* the project of each capsule
  Uses         \* what the processes may be used for, and what may befall them

Phases == {"absent", "active", "pending", "closed", "orphaned"}

(* A manifest, by the phase it is in and who has added a record to it; a    *)
(* result, by the records it seals.                                        *)
Contents == [phase : Phases, notes : SUBSET Process]

NoFile == [phase |-> "absent", notes |-> {}]

Operations ==
  {"claim", "run", "checkpoint", "close", "recover", "sweep", "list"}

(* The operations that show a capsule first and then lock. *)
Records == {"claim", "run", "checkpoint", "close"}

(* The operations each process is used for, and on which capsules; and the   *)
(* bounds: how many operations are called, sweeps and listings aside; how   *)
(* many processes die, writes fail and power losses occur; how many         *)
(* manifests and worktrees are damaged.                                    *)
UsesOf == [ops : [Process -> SUBSET Operations], ids : SUBSET Capsule,
           calls : Nat, faults : Nat, harm : Nat]

ASSUME SharedRootAssumption ==
  /\ Capsule \subseteq Nat /\ Capsule # {}
  /\ Content = Contents
  /\ ProjectOf \in [Capsule -> Project]
  /\ Uses \subseteq UsesOf
  /\ \A u \in Uses, p, q \in Process : "run" \in u.ops[p] \cap u.ops[q] => p = q

VARIABLES
  use,      \* which of the uses this is
  pc,       \* where each process is
  op, on,   \* its operation and the capsule that is about
  mem,      \* its copy of that capsule's manifest
  todo,     \* the capsules a sweep has listed and not come to
  bad,      \* capsules whose manifest this build cannot read
  lost,     \* capsules whose worktree is gone
  acked,    \* history: the last manifest a process knows it wrote
  calls, faults

localVars == <<pc, op, on, mem, todo>>
outsideVars == <<use, bad, lost, acked, calls, faults>>
vars == <<storeVars, execVars, localVars, outsideVars>>

(* What an idle process, a sweep or a listing is said to be about. *)
AnyCapsule == CHOOSE c \in Capsule : TRUE

Goto(p, l) == pc' = [pc EXCEPT ![p] = l]
Manifest(c) == <<c, "manifest">>
Result(c) == <<c, "result">>

(* read_capsule *)
Readable(c) == c \notin bad /\ now[Manifest(c)] # Torn

Init ==
  /\ globalLock = Nobody /\ projectLock = [j \in Project |-> Nobody]
  /\ now = [f \in File |-> IF f[2] = "manifest" THEN [NoFile EXCEPT !.phase = "active"]
                           ELSE NoFile]
  /\ kept = [f \in File |-> {now[f]}]
  /\ temp = [p \in Process |-> "none"]
  /\ NoExecution
  /\ use \in Uses
  /\ pc = [p \in Process |-> "idle"]
  /\ op = [p \in Process |-> "list"] /\ on = [p \in Process |-> AnyCapsule]
  /\ mem = [p \in Process |-> NoFile]
  /\ todo = [p \in Process |-> {}]
  /\ bad = {} /\ lost = {}
  /\ acked = [c \in Capsule |-> now[Manifest(c)]]
  /\ calls = 0 /\ faults = 0

------------------------------------------------------------------------------
(* The end of an operation, well or not: its locks are released. *)
Return(p) ==
  /\ Goto(p, "idle")
  /\ mem' = [mem EXCEPT ![p] = NoFile]
  /\ todo' = [todo EXCEPT ![p] = {}]
  /\ op' = [op EXCEPT ![p] = "list"] /\ on' = [on EXCEPT ![p] = AnyCapsule]

Refuse(p) ==
  /\ Return(p)
  /\ Abandon(p)
  /\ UNCHANGED <<execVars, outsideVars>>

Call(p, o, c) ==
  /\ pc[p] = "idle" /\ o \in use.ops[p]
  /\ IF o \in {"sweep", "list"} THEN c = AnyCapsule /\ UNCHANGED calls
     ELSE c \in use.ids /\ calls < use.calls /\ calls' = calls + 1
  /\ Goto(p, CASE o = "run" -> "check" [] o \in Records \ {"run"} -> "show"
               [] OTHER -> "first")
  /\ op' = [op EXCEPT ![p] = o] /\ on' = [on EXCEPT ![p] = c]
  /\ UNCHANGED <<storeVars, execVars, mem, todo, use, bad, lost, acked, faults>>

(* A check is run on an active capsule whose worktree is there; no lock is  *)
(* held from here until it is over.                                        *)
Runnable(c) == Readable(c) /\ now[Manifest(c)].phase = "active" /\ c \notin lost

Check(p) ==
  /\ pc[p] = "check" /\ Runnable(on[p])
  /\ Spawn
  /\ Goto(p, "exec")
  /\ UNCHANGED <<storeVars, op, on, mem, todo, outsideVars>>

CheckRefused(p) == pc[p] = "check" /\ ~Runnable(on[p]) /\ Refuse(p)

(* The command is over.  Its readers may still be there; nothing is recorded *)
(* of what they read from now on.                                          *)
Captured(p) ==
  /\ pc[p] = "exec" /\ run = "captured"
  /\ Forget
  /\ Goto(p, "show")
  /\ UNCHANGED <<storeVars, op, on, mem, todo, outsideVars>>

NotCaptured(p) ==
  /\ pc[p] = "exec" /\ run = "failed"
  /\ Forget
  /\ Return(p) /\ Abandon(p)
  /\ UNCHANGED outsideVars

(* show: the manifest is read under no lock, for the project to lock. *)
Show(p) ==
  /\ pc[p] = "show" /\ Readable(on[p])
  /\ mem' = [mem EXCEPT ![p] = now[Manifest(on[p])]]
  /\ Goto(p, "first")
  /\ UNCHANGED <<storeVars, execVars, op, on, todo, outsideVars>>

ShowRefused(p) == pc[p] = "show" /\ ~Readable(on[p]) /\ Refuse(p)

(* Every operation takes the global lock before its capsule's project's.     *)
OrderByUse(o) ==  \* mutant: a record locks the project it is about first
  IF o \in Records THEN <<"project", "global">> ELSE <<"global", "project">>

Order(o) == <<"global", "project">>

Lock(p, which) ==
  \/ which = "global" /\ LockGlobal(p) /\ UNCHANGED projectLock
  \/ which = "project" /\ LockProject(p, ProjectOf[on[p]]) /\ UNCHANGED globalLock

FirstLock(p) ==
  /\ pc[p] = "first"
  /\ Lock(p, Order(op[p])[1])
  /\ Goto(p, IF op[p] \in Records THEN "second" ELSE "look")
  /\ UNCHANGED <<fileVars, temp, execVars, op, on, mem, todo, outsideVars>>

SecondLock(p) ==
  /\ pc[p] = "second"
  /\ Lock(p, Order(op[p])[2])
  /\ Goto(p, "read")
  /\ UNCHANGED <<fileVars, temp, execVars, op, on, mem, todo, outsideVars>>

(* recover_capsule reads the capsule, recover and list read them all: the   *)
(* first that cannot be read fails the listing.                            *)
Subject(p) == IF op[p] = "recover" THEN {on[p]} ELSE Capsule

Look(p) ==
  /\ pc[p] = "look" /\ op[p] # "list"
  /\ \A c \in Subject(p) : Readable(c)
  /\ todo' = [todo EXCEPT ![p] = Subject(p)]
  /\ Goto(p, "next")
  /\ UNCHANGED <<storeVars, execVars, op, on, mem, outsideVars>>

Listed(p) == pc[p] = "look" /\ op[p] = "list" /\ Refuse(p)

LookRefused(p) ==
  /\ pc[p] = "look"
  /\ \E c \in Subject(p) : ~Readable(c)
  /\ Refuse(p)

(* The next capsule of the sweep, in the order of their identifiers, which   *)
(* number them here; and the end of it.                                    *)
NextCapsule(p) ==
  /\ pc[p] = "next"
  /\ \E c \in todo[p] :
       /\ \A d \in todo[p] : c <= d
       /\ on' = [on EXCEPT ![p] = c]
       /\ todo' = [todo EXCEPT ![p] = @ \ {c}]
  /\ Goto(p, "second")
  /\ UNCHANGED <<storeVars, execVars, op, mem, outsideVars>>

Swept(p) == pc[p] = "next" /\ todo[p] = {} /\ Refuse(p)

------------------------------------------------------------------------------
(* Under both locks: the manifest is read again, and what the operation     *)
(* makes of it is written.                                                 *)
FreshOrShown(p) == mem[p]  \* mutant: the copy shown before the locks is used
Fresh(p) == now[Manifest(on[p])]

(* require_state and validate_owned_worktree *)
Admitted(p) == Fresh(p).phase = "active" /\ on[p] \notin lost

Noted(m, p) == [m EXCEPT !.notes = @ \cup {p}]

Save(p, m, l) ==
  /\ mem' = [mem EXCEPT ![p] = m]
  /\ Goto(p, l)
  /\ UNCHANGED <<storeVars, execVars, op, on, todo, outsideVars>>

Record(p) ==
  /\ pc[p] = "read" /\ op[p] \in Records
  /\ Readable(on[p]) /\ Admitted(p)
  /\ \/ op[p] \in {"claim", "run"} /\ Save(p, Noted(Fresh(p), p), "manifest")
     \/ op[p] = "checkpoint"
        /\ Save(p, [Noted(Fresh(p), p) EXCEPT !.phase = "pending"], "journal")
     \/ op[p] = "close" /\ Save(p, [Fresh(p) EXCEPT !.phase = "closed"], "result")

(* recover_capsule_locked.  A pending checkpoint is finished; one whose     *)
(* worktree cannot be proved is an error, which ends a sweep; an active     *)
(* capsule without its worktree is orphaned.                               *)
UnprovableWhenLost(c) == c \in lost  \* mutant: an active one is not orphaned
Unprovable(c) == now[Manifest(c)].phase = "pending" /\ c \in lost

Reconcile(p) ==
  /\ pc[p] = "read" /\ op[p] \notin Records
  /\ Readable(on[p]) /\ ~Unprovable(on[p])
  /\ \/ /\ Fresh(p).phase = "pending"
        /\ Save(p, [Fresh(p) EXCEPT !.phase = "active"], "manifest")
     \/ /\ Fresh(p).phase = "active" /\ on[p] \in lost
        /\ Save(p, [Fresh(p) EXCEPT !.phase = "orphaned"], "manifest")

(* Nothing to reconcile: the project lock is dropped, the global one kept. *)
Settled(p) ==
  /\ pc[p] = "read" /\ op[p] \notin Records
  /\ Readable(on[p])
  /\ \/ Fresh(p).phase \notin {"pending", "active"}
     \/ Fresh(p).phase = "active" /\ on[p] \notin lost
  /\ Goto(p, "next") /\ ReleaseProjects(p)
  /\ UNCHANGED <<globalLock, fileVars, temp, execVars, op, on, mem, todo, outsideVars>>

ReadRefused(p) ==
  /\ pc[p] = "read"
  /\ \/ ~Readable(on[p])
     \/ IF op[p] \in Records THEN ~Admitted(p) ELSE Unprovable(on[p])
  /\ Refuse(p)

------------------------------------------------------------------------------
Writing(p) == pc[p] \in {"journal", "result", "manifest"}

Target(p) == IF pc[p] = "result" THEN Result(on[p]) ELSE Manifest(on[p])

Prepare(p) ==
  /\ Writing(p)
  /\ Stage(p)
  /\ UNCHANGED <<execVars, localVars, outsideVars>>

Replace(p) ==
  /\ Writing(p)
  /\ Rename(p, Target(p), mem[p])
  /\ UNCHANGED <<execVars, localVars, outsideVars>>

(* A write returns: what the manifest says is now known to be there.        *)
Acknowledged(p) == acked' = [acked EXCEPT ![on[p]] = mem[p]]

(* The pending checkpoint becomes a recorded one; the seal gets its manifest. *)
HalfWritten(p) ==
  /\ pc[p] \in {"journal", "result"}
  /\ SyncDirectory(p, Target(p))
  /\ \/ pc[p] = "journal" /\ Acknowledged(p) /\ mem' = [mem EXCEPT ![p].phase = "active"]
     \/ pc[p] = "result" /\ UNCHANGED <<acked, mem>>
  /\ Goto(p, "manifest")
  /\ UNCHANGED <<lockVars, execVars, op, on, todo, use, bad, lost, calls, faults>>

Recorded(p) ==
  /\ pc[p] = "manifest" /\ op[p] \in Records
  /\ SyncDirectory(p, Target(p)) /\ Acknowledged(p)
  /\ Return(p) /\ Release(p)
  /\ UNCHANGED <<execVars, use, bad, lost, calls, faults>>

(* A sweep goes on to the next capsule under the same global lock. *)
Reconciled(p) ==
  /\ pc[p] = "manifest" /\ op[p] \notin Records
  /\ SyncDirectory(p, Target(p)) /\ Acknowledged(p)
  /\ Goto(p, "next") /\ ReleaseProjects(p)
  /\ UNCHANGED <<globalLock, execVars, op, on, mem, todo, use, bad, lost, calls, faults>>

------------------------------------------------------------------------------
(* Faults, and what others do to the state root. *)

Fault == faults < use.faults /\ faults' = faults + 1

(* The process dies, or a call it makes fails. *)
Fail(p) ==
  /\ pc[p] # "idle" /\ Fault
  /\ Return(p) /\ Abandon(p)
  /\ IF pc[p] = "exec" THEN Forget ELSE UNCHANGED execVars
  /\ UNCHANGED <<use, bad, lost, acked, calls>>

Blackout ==
  /\ Fault
  /\ PowerLoss
  /\ Forget
  /\ pc' = [p \in Process |-> "idle"]
  /\ mem' = [p \in Process |-> NoFile] /\ todo' = [p \in Process |-> {}]
  /\ op' = [p \in Process |-> "list"] /\ on' = [p \in Process |-> AnyCapsule]
  /\ UNCHANGED <<use, bad, lost, acked, calls>>

(* A manifest is damaged or replaced by one of a newer schema; a worktree   *)
(* is removed.                                                             *)
Harm == Cardinality(bad) + Cardinality(lost) < use.harm

Spoil(c) ==
  /\ Harm
  /\ bad' = bad \cup {c}
  /\ UNCHANGED <<storeVars, execVars, localVars, use, lost, acked, calls, faults>>

Lose(c) ==
  /\ Harm
  /\ lost' = lost \cup {c}
  /\ UNCHANGED <<storeVars, execVars, localVars, use, bad, acked, calls, faults>>

------------------------------------------------------------------------------
Own(p) ==
  \/ Check(p) \/ CheckRefused(p) \/ Captured(p) \/ NotCaptured(p)
  \/ Show(p) \/ ShowRefused(p)
  \/ FirstLock(p) \/ SecondLock(p)
  \/ Look(p) \/ Listed(p) \/ LookRefused(p) \/ NextCapsule(p) \/ Swept(p)
  \/ Record(p) \/ Reconcile(p) \/ Settled(p) \/ ReadRefused(p)
  \/ Prepare(p) \/ Replace(p)
  \/ HalfWritten(p) \/ Recorded(p) \/ Reconciled(p)

Running == ExecStep /\ UNCHANGED <<storeVars, localVars, outsideVars>>

Next ==
  \/ \E p \in Process : Own(p) \/ Fail(p) \/ \E o \in Operations, c \in Capsule : Call(p, o, c)
  \/ Running \/ Blackout
  \/ \E c \in Capsule : Spoil(c) \/ Lose(c)

Spec == Init /\ [][Next]_vars

Quietly(A) == A /\ UNCHANGED <<storeVars, localVars, outsideVars>>

(* flock serves every waiter in the end, threads and clocks run on, and a   *)
(* command that does not hang says what it has to say and exits.  Somebody  *)
(* keeps sweeping.                                                         *)
Fairness ==
  /\ \A p \in Process : SF_vars(Own(p))
  /\ WF_vars(Quietly(Progress)) /\ SF_vars(Quietly(Expire))
  /\ SF_vars(\E p \in Process : Call(p, "sweep", AnyCapsule))

FairSpec == Spec /\ Fairness

------------------------------------------------------------------------------
TypeOK ==
  /\ StoreTypes /\ ExecTypes
  /\ pc \in [Process -> {"idle", "check", "exec", "show", "first", "second", "look",
                         "next", "read", "journal", "result", "manifest"}]
  /\ use \in Uses
  /\ op \in [Process -> Operations] /\ on \in [Process -> Capsule]
  /\ mem \in [Process -> Contents]
  /\ todo \in [Process -> SUBSET Capsule]
  /\ bad \subseteq Capsule /\ lost \subseteq Capsule
  /\ acked \in [Capsule -> Contents]
  /\ calls \in 0..use.calls /\ faults \in 0..use.faults

(* What a manifest may go on to say once it has said m: records are only    *)
(* added, and a seal or an orphan is final.                                *)
Follows(m, n) ==
  /\ m.notes \subseteq n.notes
  /\ m.phase \in {"closed", "orphaned"} => n = m

(* write_capsule has returned: whatever happens to the machine or to the    *)
(* other processes, that record is in the manifest from then on.           *)
AcknowledgedIsDurable ==
  \A c \in Capsule : \A x \in kept[Manifest(c)] :
    x # Torn /\ Follows(acked[c], x)

(* The artifacts reach the disk before the manifest that seals them can:    *)
(* no power loss leaves a closed capsule without its result.               *)
SealSurvives ==
  \A c \in Capsule : \A x \in kept[Manifest(c)] :
    (x # Torn /\ x.phase = "closed") => kept[Result(c)] = {x}

(* The output digested is all the command wrote: a bound that is reached,   *)
(* a reader that is late or a process left behind cannot shorten it.       *)
CaptureComplete ==
  run = "captured" => child = "exited" /\ ~holds /\ got = wrote

(* Every operation comes to its end, except one that waits for a command    *)
(* that hangs without a timeout, or for a process the command left behind. *)
Waits(p) == pc[p] = "exec" /\ ((hangs /\ run = "waiting") \/ holds)

OperationsEnd == \A p \in Process : pc[p] # "idle" ~> pc[p] = "idle" \/ Waits(p)

(* Recovery of a whole state root settles every interrupted checkpoint that *)
(* no manifest it cannot read, and no earlier capsule it cannot prove,      *)
(* keeps it from.                                                          *)
Pending(c) == now[Manifest(c)].phase = "pending"

Obstructed(c) == bad # {} \/ \E d \in Capsule : d <= c /\ Pending(d) /\ d \in lost

SweepSettles == \A c \in Capsule : Pending(c) ~> ~Pending(c) \/ Obstructed(c)
==============================================================================
