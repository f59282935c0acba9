------------------------------ MODULE StateStore ------------------------------
(***************************************************************************)
(* src/state.rs: the files of a state root on a disk that can lose power,  *)
(* and the advisory locks the processes that share it take.  A file is     *)
(* replaced as a whole: a temporary file is written and synced, renamed    *)
(* over the old one, and the directory is synced.                          *)
(***************************************************************************)
EXTENDS Naturals

CONSTANTS
  Process,
  Capsule,
  Project,
  Nobody,
  Content,   \* what a manifest or a result can say
  Torn       \* a file whose data never reached the disk

ASSUME StoreAssumption == Nobody \notin Process /\ Torn \notin Content

VARIABLES
  globalLock,   \* locks/global.lock: its holder, or Nobody
  projectLock,  \* locks/project-<key>.lock, for each project
  now,          \* capsules/<id>/<file> as a process reads it
  kept,         \* [file -> what a power loss may leave there]
  temp          \* how far each process is with the file it replaces

lockVars == <<globalLock, projectLock>>
fileVars == <<now, kept>>
storeVars == <<lockVars, fileVars, temp>>

File == Capsule \X {"manifest", "result"}

StoreTypes ==
  /\ globalLock \in Process \cup {Nobody}
  /\ projectLock \in [Project -> Process \cup {Nobody}]
  /\ now \in [File -> Content \cup {Torn}]
  /\ kept \in [File -> SUBSET (Content \cup {Torn})]
  /\ temp \in [Process -> {"none", "synced", "renamed"}]

------------------------------------------------------------------------------
(* lock_file: exclusive, and waits.  A lock goes with the StateLock that    *)
(* holds it, at the latest when the process dies.                          *)
LockGlobal(p) ==
  /\ globalLock = Nobody
  /\ globalLock' = p

LockProject(p, j) ==
  /\ projectLock[j] = Nobody
  /\ projectLock' = [projectLock EXCEPT ![j] = p]

ReleaseProjects(p) ==
  projectLock' = [j \in Project |-> IF projectLock[j] = p THEN Nobody ELSE projectLock[j]]

Release(p) ==
  /\ globalLock' = IF globalLock = p THEN Nobody ELSE globalLock
  /\ ReleaseProjects(p)

------------------------------------------------------------------------------
(* write_bytes_atomic *)

StagedOnly == "written"  \* mutant: no sync_all
Staged == "synced"

(* The temporary file is written and synced: nobody reads it before that,   *)
(* or finds it if the process dies.                                        *)
Stage(p) ==
  /\ temp[p] = "none"
  /\ temp' = [temp EXCEPT ![p] = Staged]
  /\ UNCHANGED <<lockVars, fileVars>>

(* The new name is seen at once; whether it or the old one survives a power *)
(* loss is open, and of a file that was not synced only the name may.      *)
Rename(p, file, v) ==
  /\ temp[p] \in {"written", "synced"}
  /\ now' = [now EXCEPT ![file] = v]
  /\ kept' = [kept EXCEPT ![file] =
                @ \cup IF temp[p] = "synced" THEN {v} ELSE {v, Torn}]
  /\ temp' = [temp EXCEPT ![p] = "renamed"]
  /\ UNCHANGED lockVars

SurvivorsUnsynced(file) == kept[file]  \* mutant: the directory is not synced

Survivors(file) == kept[file] \cap {now[file], Torn}

SyncDirectory(p, file) ==
  /\ temp[p] = "renamed"
  /\ kept' = [kept EXCEPT ![file] = Survivors(file)]
  /\ temp' = [temp EXCEPT ![p] = "none"]
  /\ UNCHANGED now

------------------------------------------------------------------------------
(* The process dies or the call it is in fails: its temporary file goes.    *)
Abandon(p) ==
  /\ Release(p)
  /\ temp' = [temp EXCEPT ![p] = "none"]
  /\ UNCHANGED fileVars

(* The machine goes down with all of them. *)
PowerLoss ==
  /\ globalLock' = Nobody
  /\ projectLock' = [j \in Project |-> Nobody]
  /\ temp' = [p \in Process |-> "none"]
  /\ now' \in [File -> UNION {kept[f] : f \in File}]
  /\ \A f \in File : now'[f] \in kept[f]
  /\ kept' = [f \in File |-> {now'[f]}]
==============================================================================
