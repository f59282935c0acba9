------------------------------ MODULE Reservations ------------------------------
(***************************************************************************)
(* Idempotent creation.  A key is reserved for one capsule identity by a   *)
(* record that is published before anything else of the capsule exists;   *)
(* every later call with the key resumes or returns that capsule.  Creates *)
(* run under the locks, lookups under none.  What a `creating` capsule     *)
(* still has to do in Git is module Creation's; here it is one step.       *)
(***************************************************************************)
EXTENDS FiniteSets

CONSTANTS
  None,
  Process,    \* callers, each a process of its own
  Key,        \* idempotency keys, known by their digests
  Selector,   \* base selectors: HEAD, a branch, a commit id
  Label,      \* labels and links
  Commit,
  Id,         \* capsule identities
  MaySettle   \* whether faults may stop

VARIABLES
  meaning,    \* the commit each selector resolves to now
  records,    \* the reservation of each key, or None
  dir,        \* capsules/<id>: what there is of it
  manifest,   \* capsules/<id>/capsule.json, or None
  lock,       \* the process that holds the locks, or None
  pc, loc,    \* where each process is, and its variables
  answers,    \* every capsule a create returned, with what was asked for
  calm        \* faults have stopped

storeVars == <<records, dir, manifest>>
vars == <<meaning, storeVars, lock, pc, loc, answers, calm>>

Records == [id : Id, sel : Selector, label : Label, base : Commit]
Manifests ==
  [label : Label, base : Commit,
   state : {"creating", "active", "orphaned", "dropped"}]

ASSUME ReservationAssumption ==
  /\ MaySettle \in BOOLEAN
  /\ None \notin Process \cup Records \cup Manifests \cup {"reserved"}

(* A directory is made, then made private; the manifest is written to a     *)
(* temporary file in it, which is then renamed.                            *)
Dirs == {"absent", "open", "private", "staged", "published"}

Requests == [key : Key, sel : Selector, label : Label]
NoLoc == [req |-> None, rec |-> None, told |-> None]

Answers == [key : Key, label : Label, id : Id, base : Commit]

Holds(p) == lock = p

Goto(p, l) == pc' = [pc EXCEPT ![p] = l]
Remember(p, rec) == loc' = [loc EXCEPT ![p].rec = rec]

ReturnHolding(p) ==  \* mutant: an error path that keeps the locks
  /\ Goto(p, "idle")
  /\ lock' = lock
  /\ loc' = [loc EXCEPT ![p] = NoLoc]

Return(p) ==
  /\ Goto(p, "idle")
  /\ lock' = IF Holds(p) THEN None ELSE lock
  /\ loc' = [loc EXCEPT ![p] = NoLoc]

(* Any error: the locks are released, what was done stays done. *)
Refuse(p) == Return(p) /\ UNCHANGED <<meaning, storeVars, answers, calm>>

Answered(p, rec, m) ==
  /\ answers' = answers \cup {[key |-> loc[p].req.key, label |-> loc[p].req.label,
                               id |-> rec.id, base |-> m.base]}
  /\ Return(p)

------------------------------------------------------------------------------
(* create_idempotent *)

CrCall(p, req) ==
  /\ pc[p] = "idle"
  /\ loc' = [loc EXCEPT ![p].req = req]
  /\ Goto(p, "lock")
  /\ UNCHANGED <<meaning, storeVars, lock, answers, calm>>

CrLock(p) ==
  /\ pc[p] = "lock" /\ lock = None
  /\ lock' = p
  /\ Goto(p, "read")
  /\ UNCHANGED <<meaning, storeVars, loc, answers, calm>>

(* validate_replayed_request: the selector may have moved since, or be      *)
(* another one that means the reserved commit; the rest must be the same.  *)
ReplayableAnyLabel(req, rec) ==  \* mutant: the request's digest is not compared
  req.sel = rec.sel \/ meaning[req.sel] = rec.base

Replayable(req, rec) ==
  /\ req.sel = rec.sel \/ meaning[req.sel] = rec.base
  /\ req.label = rec.label

ReplayedRetargeted(req, rec) ==  \* mutant: the selector is resolved again
  [rec EXCEPT !.base = meaning[req.sel]]

(* The reservation to work on: the recorded one, its base included. *)
Replayed(req, rec) == rec

CrRead(p) ==
  /\ pc[p] = "read"
  /\ LET req == loc[p].req
         rec == records[req.key]
     IN  \/ /\ rec = None
            /\ Goto(p, "resolve")
            /\ UNCHANGED <<meaning, storeVars, lock, loc, answers, calm>>
         \/ /\ rec # None /\ Replayable(req, rec)
            /\ Remember(p, Replayed(req, rec))
            /\ Goto(p, "materialize")
            /\ UNCHANGED <<meaning, storeVars, lock, answers, calm>>
         \/ rec # None /\ ~Replayable(req, rec) /\ Refuse(p)

Fresh == Id \ {records[k].id : k \in {j \in Key : records[j] # None}}

(* The base is pinned and a new identity drawn ... *)
CrResolve(p) ==
  /\ pc[p] = "resolve"
  /\ \E id \in Fresh :
       Remember(p, [id |-> id, sel |-> loc[p].req.sel, label |-> loc[p].req.label,
                    base |-> meaning[loc[p].req.sel]])
  /\ Goto(p, "reserve")
  /\ UNCHANGED <<meaning, storeVars, lock, answers, calm>>

(* ... and the record published, without overwriting another. *)
CrReserve(p) ==
  /\ pc[p] = "reserve"
  /\ LET k == loc[p].req.key
     IN  \/ /\ records[k] = None
            /\ records' = [records EXCEPT ![k] = loc[p].rec]
            /\ Goto(p, "materialize")
            /\ UNCHANGED <<meaning, dir, manifest, lock, loc, answers, calm>>
         \/ records[k] # None /\ Refuse(p)

------------------------------------------------------------------------------
(* materialize_idempotency_record *)

Agrees(rec, m) == m.label = rec.label /\ m.base = rec.base

(* validate_unmaterialized_capsule: no directory, or an empty private one. *)
Unmaterialized(id) == dir[id] \in {"absent", "private"}

CrMaterialize(p) ==
  /\ pc[p] = "materialize"
  /\ LET rec == loc[p].rec
         m == manifest[rec.id]
     IN  \/ /\ m # None /\ Agrees(rec, m) /\ m.state = "creating"
            /\ Goto(p, "complete")
            /\ UNCHANGED <<meaning, storeVars, lock, loc, answers, calm>>
         \/ /\ m # None /\ Agrees(rec, m) /\ m.state # "creating"
            /\ Answered(p, rec, m)
            /\ UNCHANGED <<meaning, storeVars, calm>>
         \/ /\ m = None /\ Unmaterialized(rec.id)
            /\ Goto(p, "prepare")
            /\ UNCHANGED <<meaning, storeVars, lock, loc, answers, calm>>
         \/ /\ IF m # None THEN ~Agrees(rec, m) ELSE ~Unmaterialized(rec.id)
            /\ Refuse(p)

ResumableNever(id) == FALSE  \* mutant: prepare_capsule, as for a plain create

(* prepare_reserved_capsule goes on with the empty directory of a call that *)
(* did not get further.                                                    *)
Resumable(id) == dir[id] = "private"

CrPrepare(p) ==
  /\ pc[p] = "prepare"
  /\ LET id == loc[p].rec.id
     IN  \/ /\ dir[id] = "absent"
            /\ dir' = [dir EXCEPT ![id] = "open"]
            /\ Goto(p, "secure")
            /\ UNCHANGED <<meaning, records, manifest, lock, loc, answers, calm>>
         \/ /\ dir[id] # "absent" /\ Resumable(id)
            /\ Goto(p, "stage")
            /\ UNCHANGED <<meaning, storeVars, lock, loc, answers, calm>>
         \/ dir[id] # "absent" /\ ~Resumable(id) /\ Refuse(p)

CrSecure(p) ==
  /\ pc[p] = "secure"
  /\ dir' = [dir EXCEPT ![loc[p].rec.id] = "private"]
  /\ Goto(p, "stage")
  /\ UNCHANGED <<meaning, records, manifest, lock, loc, answers, calm>>

(* write_bytes_atomic *)
CrStage(p) ==
  /\ pc[p] = "stage"
  /\ dir' = [dir EXCEPT ![loc[p].rec.id] = "staged"]
  /\ Goto(p, "publish")
  /\ UNCHANGED <<meaning, records, manifest, lock, loc, answers, calm>>

CrPublish(p) ==
  /\ pc[p] = "publish"
  /\ LET rec == loc[p].rec
     IN  /\ dir' = [dir EXCEPT ![rec.id] = "published"]
         /\ manifest' = [manifest EXCEPT ![rec.id] =
              [label |-> rec.label, base |-> rec.base, state |-> "creating"]]
  /\ Goto(p, "complete")
  /\ UNCHANGED <<meaning, records, lock, loc, answers, calm>>

(* A write that fails takes its temporary file along. *)
CrPublishFails(p) ==
  /\ pc[p] = "publish" /\ ~calm
  /\ dir' = [dir EXCEPT ![loc[p].rec.id] = "private"]
  /\ Return(p)
  /\ UNCHANGED <<meaning, records, manifest, answers, calm>>

(* complete_creating, orphans allowed *)
CrComplete(p) ==
  /\ pc[p] = "complete"
  /\ \E s \in {"active", "orphaned"} :
       LET rec == loc[p].rec
           m == [manifest[rec.id] EXCEPT !.state = s]
       IN  /\ manifest' = [manifest EXCEPT ![rec.id] = m]
           /\ Answered(p, rec, m)
  /\ UNCHANGED <<meaning, records, dir, calm>>

CrCompleteFails(p) == pc[p] = "complete" /\ Refuse(p)

CreateStep(p) ==
  \/ CrRead(p) \/ CrResolve(p) \/ CrReserve(p) \/ CrMaterialize(p)
  \/ CrPrepare(p) \/ CrSecure(p) \/ CrStage(p) \/ CrPublish(p)
  \/ CrPublishFails(p) \/ CrComplete(p) \/ CrCompleteFails(p)

------------------------------------------------------------------------------
(* lookup_idempotency_key: the record, whether there is a manifest, and then *)
(* the manifest or a proof that there is none.  No lock is taken.          *)

LkCall(p, k) ==
  /\ pc[p] = "idle"
  /\ records[k] # None   \* else idempotency_not_found, at once
  /\ loc' = [loc EXCEPT ![p] = [req |-> k, rec |-> records[k], told |-> None]]
  /\ Goto(p, "lkManifest")
  /\ UNCHANGED <<meaning, storeVars, lock, answers, calm>>

LkManifest(p) ==
  /\ pc[p] = "lkManifest"
  /\ Goto(p, IF manifest[loc[p].rec.id] # None THEN "lkLoad" ELSE "lkVacant")
  /\ UNCHANGED <<meaning, storeVars, lock, loc, answers, calm>>

Tell(p, status) ==
  /\ loc' = [loc EXCEPT ![p].told = status]
  /\ Goto(p, "told")
  /\ UNCHANGED <<meaning, storeVars, lock, answers, calm>>

LkLoad(p) ==
  /\ pc[p] = "lkLoad"
  /\ Tell(p, IF Agrees(loc[p].rec, manifest[loc[p].rec.id])
             THEN "materialized" ELSE "unsafe")

LkVacantLenient(p) ==  \* mutant: the directory is not looked at again
  pc[p] = "lkVacant" /\ Tell(p, "reserved")

LkVacant(p) ==
  /\ pc[p] = "lkVacant"
  /\ Tell(p, IF Unmaterialized(loc[p].rec.id) THEN "reserved" ELSE "unsafe")

LkReturn(p) == pc[p] = "told" /\ Refuse(p)

LookupStep(p) == LkManifest(p) \/ LkLoad(p) \/ LkVacant(p) \/ LkReturn(p)

------------------------------------------------------------------------------
(* The rest of the world. *)

Crash(p) == pc[p] # "idle" /\ ~calm /\ Refuse(p)

MoveBase(s) ==
  /\ \E c \in Commit : meaning' = [meaning EXCEPT ![s] = c]
  /\ UNCHANGED <<storeVars, lock, pc, loc, answers, calm>>

Progress(id, s) ==
  /\ lock = None
  /\ manifest' = [manifest EXCEPT ![id].state = s]
  /\ UNCHANGED <<meaning, records, dir, lock, pc, loc, answers, calm>>

(* recover finishes an interrupted creation too, ... *)
Recover(id) ==
  /\ manifest[id] # None /\ manifest[id].state = "creating"
  /\ \E s \in {"active", "orphaned"} : Progress(id, s)

(* ... and a capsule is dropped, which keeps its manifest. *)
Drop(id) ==
  /\ manifest[id] # None /\ manifest[id].state \in {"active", "orphaned"}
  /\ Progress(id, "dropped")

Settle ==
  /\ MaySettle /\ ~calm
  /\ calm' = TRUE
  /\ UNCHANGED <<meaning, storeVars, lock, pc, loc, answers>>

------------------------------------------------------------------------------
Init ==
  /\ meaning \in [Selector -> Commit]
  /\ records = [k \in Key |-> None]
  /\ dir = [i \in Id |-> "absent"]
  /\ manifest = [i \in Id |-> None]
  /\ lock = None
  /\ pc = [p \in Process |-> "idle"]
  /\ loc = [p \in Process |-> NoLoc]
  /\ answers = {}
  /\ calm = FALSE

(* What a coordinator does after a timeout: the identical create again. *)
Retry(p, k) ==
  /\ records[k] # None
  /\ CrCall(p, [key |-> k, sel |-> records[k].sel, label |-> records[k].label])

Next ==
  \/ \E p \in Process :
       \/ \E req \in Requests : CrCall(p, req)
       \/ CrLock(p) \/ CreateStep(p)
       \/ \E k \in Key : LkCall(p, k)
       \/ LookupStep(p) \/ Crash(p)
  \/ \E s \in Selector : MoveBase(s)
  \/ \E id \in Id : Recover(id) \/ Drop(id)
  \/ Settle

Spec == Init /\ [][Next]_vars

(* Running calls go on, a blocked one gets the locks in its turn, and a key *)
(* that was reserved is retried.                                           *)
FairSpec ==
  /\ Spec
  /\ \A p \in Process :
       WF_vars(CreateStep(p)) /\ WF_vars(LookupStep(p)) /\ SF_vars(CrLock(p))
  /\ \A k \in Key : SF_vars(\E p \in Process : Retry(p, k))
------------------------------------------------------------------------------
Locked == {"read", "resolve", "reserve", "materialize", "prepare", "secure",
           "stage", "publish", "complete"}

PCs == Locked \cup {"idle", "lock", "lkManifest", "lkLoad", "lkVacant", "told"}

(* Types; and the locks are held by the one create that is past them.      *)
TypeOK ==
  /\ meaning \in [Selector -> Commit]
  /\ records \in [Key -> Records \cup {None}]
  /\ dir \in [Id -> Dirs]
  /\ manifest \in [Id -> Manifests \cup {None}]
  /\ lock \in Process \cup {None}
  /\ pc \in [Process -> PCs]
  /\ \A p \in Process : pc[p] \in Locked <=> lock = p
  /\ loc \in [Process ->
                [req : Requests \cup Key \cup {None},
                 rec : Records \cup {None},
                 told : {None, "reserved", "materialized", "unsafe"}]]
  /\ answers \subseteq Answers
  /\ calm \in BOOLEAN

(* docs/protocol.md: the same key and request always resolve to the same    *)
(* capsule: whatever calls, crashes and moves of the base came between, two *)
(* creates that succeeded with one key got one identity on one base, and    *)
(* had asked for the same.                                                 *)
OneCapsulePerKey ==
  \A a, b \in answers : a.key = b.key => a = b

(* "A durable reservation is published before any capsule identity or       *)
(* worktree side effect" (create.rs), and what is then published under the  *)
(* identity is what was reserved: base and label, never a newer HEAD.      *)
ReservedFirst ==
  \A i \in Id : dir[i] # "absent" =>
    \E k \in Key :
      /\ records[k] # None /\ records[k].id = i
      /\ manifest[i] # None => Agrees(records[k], manifest[i])

(* A lookup that answers `reserved`, without locks, is right when it        *)
(* answers: no create has returned that capsule to anybody.                *)
ReservedMeansNotReturned ==
  [][ \A p \in Process :
        (loc[p].told = None /\ loc'[p].told = "reserved")
        => \A a \in answers : a.id # loc[p].rec.id ]_vars

(* Retries resume a reservation wherever the crashes left it, except in the *)
(* two windows in which its directory is neither empty and private nor has  *)
(* a manifest.                                                             *)
RetryResumesUnlessLittered ==
  \A k \in Key :
    (calm /\ records[k] # None /\ dir[records[k].id] \in {"absent", "private"})
    ~> (records[k] # None /\ manifest[records[k].id] # None)

(* docs/protocol.md: "retries after a timeout or process crash return or    *)
(* resume that same identity".                                             *)
RetryResumes ==
  \A k \in Key :
    (calm /\ records[k] # None)
    ~> (records[k] # None /\ manifest[records[k].id] # None)
==============================================================================
