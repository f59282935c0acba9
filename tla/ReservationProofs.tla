--------------------------- MODULE ReservationProofs ---------------------------
(***************************************************************************)
(* What holds of idempotent creation for any number of callers, keys and   *)
(* requests.  The inductive invariant ties what a create under the locks   *)
(* holds to what is on disk, and every answer ever given to the record of  *)
(* its key: records never change, so neither does what they promised.      *)
(***************************************************************************)
EXTENDS Reservations, TLAPS

(* A create that works on a reservation which is on disk. *)
Bound == {"materialize", "prepare", "secure", "stage", "publish", "complete"}

Looking == {"lkManifest", "lkLoad", "lkVacant", "told"}

RequestHeld ==
  \A p \in Process : pc[p] \in Locked \cup {"lock"} => loc[p].req \in Requests

(* The reservation a create is about to publish, or has published. *)
RecordHeld ==
  \A p \in Process :
    /\ pc[p] = "reserve" =>
         /\ loc[p].rec \in Records
         /\ loc[p].rec.id \in Fresh
         /\ loc[p].rec.label = loc[p].req.label
    /\ pc[p] \in Bound =>
         /\ loc[p].rec \in Records
         /\ records[loc[p].req.key] = loc[p].rec
         /\ loc[p].rec.label = loc[p].req.label
    /\ pc[p] \in Looking => loc[p].rec \in Records

Distinct ==
  \A j, k \in Key :
    (records[j] # None /\ records[k] # None /\ records[j].id = records[k].id)
    => j = k

(* How far the directory of a create under way has come. *)
PlaceHeld ==
  \A p \in Process :
    /\ pc[p] = "secure" => dir[loc[p].rec.id] = "open"
    /\ pc[p] = "stage" => dir[loc[p].rec.id] = "private"
    /\ pc[p] = "publish" => dir[loc[p].rec.id] = "staged"
    /\ pc[p] = "complete" => manifest[loc[p].rec.id] # None

Published == \A i \in Id : manifest[i] # None <=> dir[i] = "published"

AnswersHeld ==
  \A a \in answers :
    /\ records[a.key] \in Records
    /\ a.id = records[a.key].id
    /\ a.label = records[a.key].label
    /\ a.base = records[a.key].base
    /\ manifest[a.id] # None

IInv ==
  /\ TypeOK
  /\ RequestHeld
  /\ RecordHeld
  /\ Distinct
  /\ PlaceHeld
  /\ Published
  /\ ReservedFirst
  /\ AnswersHeld

------------------------------------------------------------------------------
(* Steps that leave the disk alone: a caller goes from one point to another. *)
LEMMA CallSteps ==
  ASSUME IInv, NEW p \in Process,
         \/ \E req \in Requests : CrCall(p, req)
         \/ CrLock(p)
  PROVE  IInv'
<1> USE DEF Goto, Locked, PCs, Bound, Looking
<1>1. CASE \E req \in Requests : CrCall(p, req)
  <2>1. PICK req \in Requests : CrCall(p, req) BY <1>1
  <2>2. TypeOK' BY <2>1 DEF IInv, TypeOK, CrCall, storeVars
  <2>3. RequestHeld' BY <2>1 DEF IInv, TypeOK, CrCall, RequestHeld
  <2>4. RecordHeld' BY <2>1 DEF IInv, TypeOK, CrCall, RecordHeld, storeVars, Fresh
  <2>5. PlaceHeld' BY <2>1 DEF IInv, TypeOK, CrCall, PlaceHeld, storeVars
  <2>6. Distinct' /\ Published' /\ ReservedFirst' /\ AnswersHeld'
    BY <2>1 DEF IInv, CrCall, storeVars, Distinct, Published, ReservedFirst, AnswersHeld
  <2> QED BY <2>2, <2>3, <2>4, <2>5, <2>6 DEF IInv
<1>2. CASE CrLock(p)
  <2>2. TypeOK' BY <1>2, ReservationAssumption DEF IInv, TypeOK, CrLock, storeVars
  <2>3. RequestHeld' BY <1>2 DEF IInv, TypeOK, CrLock, RequestHeld
  <2>4. RecordHeld' BY <1>2 DEF IInv, TypeOK, CrLock, RecordHeld, storeVars, Fresh
  <2>5. PlaceHeld' BY <1>2 DEF IInv, TypeOK, CrLock, PlaceHeld, storeVars
  <2>6. Distinct' /\ Published' /\ ReservedFirst' /\ AnswersHeld'
    BY <1>2 DEF IInv, CrLock, storeVars, Distinct, Published, ReservedFirst, AnswersHeld
  <2> QED BY <2>2, <2>3, <2>4, <2>5, <2>6 DEF IInv
<1> QED BY <1>1, <1>2

(* An error, or a crash, gives the locks back and forgets the call. *)
LEMMA RefuseKeeps ==
  ASSUME IInv, NEW p \in Process, Refuse(p)
  PROVE  IInv'
<1> USE DEF Goto, Locked, PCs, Bound, Looking, Refuse, Return, NoLoc, Holds
<1>1. TypeOK' BY ReservationAssumption DEF IInv, TypeOK, storeVars
<1>2. RequestHeld' BY DEF IInv, TypeOK, RequestHeld
<1>3. RecordHeld' BY DEF IInv, TypeOK, RecordHeld, storeVars, Fresh
<1>4. PlaceHeld' BY DEF IInv, TypeOK, PlaceHeld, storeVars
<1>5. Distinct' /\ Published' /\ ReservedFirst' /\ AnswersHeld'
  BY DEF IInv, storeVars, Distinct, Published, ReservedFirst, AnswersHeld
<1> QED BY <1>1, <1>2, <1>3, <1>4, <1>5 DEF IInv

(* The call returns a capsule that is on disk as its record says. *)
LEMMA AnswerKeeps ==
  ASSUME IInv, NEW p \in Process, pc[p] \in Bound,
         NEW m \in Manifests, Agrees(loc[p].rec, m),
         Answered(p, loc[p].rec, m),
         manifest[loc[p].rec.id] # None,
         manifest' = [manifest EXCEPT ![loc[p].rec.id] = m],
         UNCHANGED <<meaning, records, dir, calm>>
  PROVE  IInv'
<1> USE DEF Goto, Locked, PCs, Bound, Looking, Answered, Return, NoLoc, Holds
<1>t. /\ loc[p].req \in Requests /\ loc[p].rec \in Records
      /\ records[loc[p].req.key] = loc[p].rec
      /\ loc[p].rec.label = loc[p].req.label
  BY DEF IInv, RequestHeld, RecordHeld
<1>1. TypeOK'
  BY <1>t, ReservationAssumption DEF IInv, TypeOK, Answers, Requests, Records, Manifests
<1>2. RequestHeld' BY DEF IInv, TypeOK, RequestHeld
<1>3. RecordHeld' BY DEF IInv, TypeOK, RecordHeld, Fresh
<1>4. PlaceHeld'
  BY <1>t, ReservationAssumption DEF IInv, TypeOK, PlaceHeld, Records
<1>5. Distinct' BY DEF IInv, Distinct
<1>6. Published' BY <1>t, ReservationAssumption DEF IInv, TypeOK, Published, Records
<1>7. ReservedFirst'
  <2> SUFFICES ASSUME NEW i \in Id, dir[i] # "absent"
               PROVE  \E k \in Key :
                        /\ records[k] # None /\ records[k].id = i
                        /\ manifest'[i] # None => Agrees(records[k], manifest'[i])
    BY DEF ReservedFirst, Agrees
  <2>1. PICK k \in Key : /\ records[k] # None /\ records[k].id = i
                         /\ manifest[i] # None => Agrees(records[k], manifest[i])
    BY DEF IInv, ReservedFirst
  <2>2. CASE i = loc[p].rec.id
    <3>1. loc[p].req.key \in Key /\ loc[p].rec # None
      BY <1>t, ReservationAssumption DEF Requests
    <3>2. records[k] = loc[p].rec
      BY <1>t, <2>1, <2>2, <3>1 DEF IInv, Distinct
    <3>3. manifest'[i] = m
      BY <2>2 DEF IInv, TypeOK
    <3> QED BY <2>1, <3>2, <3>3
  <2>3. CASE i # loc[p].rec.id
    <3>1. manifest'[i] = manifest[i] BY <2>3 DEF IInv, TypeOK
    <3> QED BY <2>1, <3>1
  <2> QED BY <2>2, <2>3
<1>8. AnswersHeld'
  BY <1>t, ReservationAssumption DEF IInv, TypeOK, AnswersHeld, Agrees, Records, Answers
<1> QED BY <1>1, <1>2, <1>3, <1>4, <1>5, <1>6, <1>7, <1>8 DEF IInv

(* The steps that find or make the reservation. *)
LEMMA ReadKeeps ==
  ASSUME IInv, NEW p \in Process, CrRead(p)
  PROVE  IInv'
<1> USE DEF Goto, Remember, Locked, PCs, Bound, Looking
<1> DEFINE req == loc[p].req
           rec == records[req.key]
<1>t. pc[p] = "read" /\ lock = p /\ req \in Requests /\ req.key \in Key
  BY DEF IInv, TypeOK, RequestHeld, Requests, CrRead
<1>1. CASE rec = None /\ Goto(p, "resolve")
           /\ UNCHANGED <<meaning, storeVars, lock, loc, answers, calm>>
  <2>1. TypeOK' BY <1>t, <1>1, ReservationAssumption DEF IInv, TypeOK, CrRead, storeVars
  <2>2. RequestHeld' BY <1>t, <1>1 DEF IInv, TypeOK, CrRead, RequestHeld, storeVars
  <2>3. RecordHeld' BY <1>t, <1>1 DEF IInv, TypeOK, CrRead, RecordHeld, storeVars, Fresh
  <2>4. PlaceHeld' BY <1>t, <1>1 DEF IInv, TypeOK, CrRead, PlaceHeld, storeVars
  <2>5. Distinct' /\ AnswersHeld' BY <1>t, <1>1 DEF IInv, TypeOK, CrRead, storeVars, Distinct, AnswersHeld
  <2>6. Published' BY <1>t, <1>1 DEF IInv, TypeOK, CrRead, storeVars, Published
  <2>7. ReservedFirst' BY <1>t, <1>1 DEF IInv, TypeOK, CrRead, storeVars, ReservedFirst
  <2> QED BY <2>1, <2>2, <2>3, <2>4, <2>5, <2>6, <2>7 DEF IInv
<1>2. CASE rec # None /\ Replayable(req, rec) /\ Remember(p, Replayed(req, rec))
           /\ Goto(p, "materialize")
           /\ UNCHANGED <<meaning, storeVars, lock, answers, calm>>
  <2>a. rec \in Records /\ rec.label = req.label
    BY <1>2, <1>t DEF IInv, TypeOK, Replayable
  <2>1. TypeOK' BY <1>t, <1>2, <2>a, ReservationAssumption DEF IInv, TypeOK, Replayed, storeVars
  <2>2. RequestHeld' BY <1>t, <1>2, <2>a DEF IInv, TypeOK, Replayed, RequestHeld, storeVars
  <2>b. /\ loc' = [loc EXCEPT ![p].rec = rec] /\ records' = records
        /\ pc' = [pc EXCEPT ![p] = "materialize"] /\ Fresh' = Fresh
    BY <1>2 DEF Replayed, storeVars, Fresh
  <2>3. RecordHeld' BY <1>t, <2>a, <2>b DEF IInv, TypeOK, RecordHeld
  <2>4. PlaceHeld' BY <1>t, <1>2, <2>a DEF IInv, TypeOK, Replayed, PlaceHeld, storeVars
  <2>5. Distinct' /\ AnswersHeld' BY <1>t, <1>2, <2>a DEF IInv, TypeOK, Replayed, storeVars, Distinct, AnswersHeld
  <2>6. Published' BY <1>t, <1>2, <2>a DEF IInv, TypeOK, Replayed, storeVars, Published
  <2>7. ReservedFirst' BY <1>t, <1>2, <2>a DEF IInv, TypeOK, Replayed, storeVars, ReservedFirst
  <2> QED BY <2>1, <2>2, <2>3, <2>4, <2>5, <2>6, <2>7 DEF IInv
<1>3. CASE Refuse(p)
  BY <1>3, RefuseKeeps
<1> QED BY <1>1, <1>2, <1>3 DEF CrRead

(* A new reservation is drawn, ... *)
LEMMA ResolveKeeps ==
  ASSUME IInv, NEW p \in Process, CrResolve(p)
  PROVE  IInv'
<1> USE DEF Goto, Remember, Locked, PCs, Bound, Looking
<1>t. pc[p] = "resolve" /\ lock = p /\ loc[p].req \in Requests
  BY DEF IInv, TypeOK, RequestHeld, CrResolve
<1>1. PICK rec \in Records :
        /\ rec.id \in Fresh /\ rec.label = loc[p].req.label
        /\ loc' = [loc EXCEPT ![p].rec = rec]
  <2>1. PICK id \in Fresh :
          loc' = [loc EXCEPT ![p].rec =
                    [id |-> id, sel |-> loc[p].req.sel, label |-> loc[p].req.label,
                     base |-> meaning[loc[p].req.sel]]]
    BY DEF CrResolve
  <2>2. id \in Id /\ loc[p].req.sel \in Selector /\ loc[p].req.label \in Label
        /\ meaning[loc[p].req.sel] \in Commit
    BY <1>t DEF Fresh, IInv, TypeOK, Requests
  <2> QED BY <2>1, <2>2 DEF Records
<1>2. /\ pc' = [pc EXCEPT ![p] = "reserve"]
      /\ UNCHANGED <<meaning, records, dir, manifest, lock, answers, calm>>
  BY DEF CrResolve, storeVars
<1>11. TypeOK' BY <1>t, <1>1, <1>2, ReservationAssumption DEF IInv, TypeOK, Agrees, storeVars
<1>12. RequestHeld' BY <1>t, <1>1, <1>2 DEF IInv, TypeOK, Agrees, RequestHeld, storeVars
<1>13. RecordHeld' BY <1>t, <1>1, <1>2 DEF IInv, TypeOK, Agrees, RecordHeld, storeVars, Fresh
<1>14. PlaceHeld' BY <1>t, <1>1, <1>2 DEF IInv, TypeOK, Agrees, PlaceHeld, storeVars
<1>15. Distinct' /\ AnswersHeld' BY <1>t, <1>1, <1>2 DEF IInv, TypeOK, Agrees, storeVars, Distinct, AnswersHeld
<1>16. Published' BY <1>t, <1>1, <1>2 DEF IInv, TypeOK, Agrees, storeVars, Published
<1>17. ReservedFirst' BY <1>t, <1>1, <1>2 DEF IInv, TypeOK, Agrees, storeVars, ReservedFirst
<1> QED BY <1>11, <1>12, <1>13, <1>14, <1>15, <1>16, <1>17 DEF IInv

(* ... and published: the next of these records is not that of another key. *)
LEMMA ReserveKeeps ==
  ASSUME IInv, NEW p \in Process, CrReserve(p)
  PROVE  IInv'
<1> USE DEF Goto, Remember, Locked, PCs, Bound, Looking
<1> DEFINE k == loc[p].req.key
           rec == loc[p].rec
<1>t. /\ pc[p] = "reserve" /\ lock = p /\ loc[p].req \in Requests /\ k \in Key
      /\ rec \in Records /\ rec # None /\ rec.id \in Fresh
      /\ rec.label = loc[p].req.label
  BY ReservationAssumption DEF IInv, TypeOK, RequestHeld, RecordHeld, Requests, CrReserve
<1>1. CASE /\ records[k] = None /\ records' = [records EXCEPT ![k] = rec]
           /\ Goto(p, "materialize")
           /\ UNCHANGED <<meaning, dir, manifest, lock, loc, answers, calm>>
  <2>1. TypeOK' BY <1>t, <1>1, ReservationAssumption DEF IInv, TypeOK, CrReserve, storeVars
  <2>2. RequestHeld' BY <1>t, <1>1 DEF IInv, TypeOK, CrReserve, RequestHeld, storeVars
  <2>3. RecordHeld' BY <1>t, <1>1 DEF IInv, TypeOK, CrReserve, RecordHeld, storeVars, Fresh
  <2>4. PlaceHeld' BY <1>t, <1>1 DEF IInv, TypeOK, CrReserve, PlaceHeld, storeVars
  <2>5. Distinct' /\ AnswersHeld'
    <3>1. \A j \in Key : records'[j] = IF j = k THEN rec ELSE records[j]
      BY <1>1, <1>t DEF IInv, TypeOK
    <3>2. \A j \in Key : records[j] # None => records[j].id # rec.id
      BY <1>t DEF Fresh
    <3>3. Distinct' BY <3>1, <3>2 DEF IInv, Distinct
    <3>4. \A a \in answers : a.key \in Key /\ a.key # k
      BY <1>1, ReservationAssumption DEF IInv, TypeOK, AnswersHeld, Answers
    <3>5. AnswersHeld' BY <1>1, <3>1, <3>4 DEF IInv, AnswersHeld
    <3> QED BY <3>3, <3>5
  <2>6. Published' BY <1>t, <1>1 DEF IInv, TypeOK, CrReserve, storeVars, Published
  <2>7. ReservedFirst' BY <1>t, <1>1 DEF IInv, TypeOK, CrReserve, storeVars, ReservedFirst
  <2> QED BY <2>1, <2>2, <2>3, <2>4, <2>5, <2>6, <2>7 DEF IInv
<1>2. CASE Refuse(p)
  BY <1>2, RefuseKeeps
<1> QED BY <1>1, <1>2 DEF CrReserve

(* A capsule that exists already is resumed or returned. *)
LEMMA MaterializeKeeps ==
  ASSUME IInv, NEW p \in Process, CrMaterialize(p)
  PROVE  IInv'
<1> USE DEF Goto, Locked, PCs, Bound, Looking
<1> DEFINE rec == loc[p].rec
           id == rec.id
<1>t. /\ pc[p] = "materialize" /\ lock = p /\ loc[p].req \in Requests
      /\ loc[p].req.key \in Key /\ rec \in Records /\ id \in Id
      /\ records[loc[p].req.key] = rec /\ records[loc[p].req.key] # None
      /\ rec.label = loc[p].req.label
  <2>1. pc[p] = "materialize" /\ lock = p
    BY DEF IInv, TypeOK, CrMaterialize
  <2>2. loc[p].req \in Requests BY <2>1 DEF IInv, RequestHeld
  <2>3. rec \in Records /\ records[loc[p].req.key] = rec /\ rec.label = loc[p].req.label
    BY <2>1 DEF IInv, RecordHeld
  <2> QED BY <2>1, <2>2, <2>3, ReservationAssumption DEF Requests, Records
<1>1. CASE /\ manifest[id] # None /\ Goto(p, "complete")
           /\ UNCHANGED <<meaning, storeVars, lock, loc, answers, calm>>
  <2>1. TypeOK' BY <1>t, <1>1, ReservationAssumption DEF IInv, TypeOK, storeVars
  <2>2. RequestHeld' BY <1>t, <1>1 DEF IInv, TypeOK, RequestHeld, storeVars
  <2>3. RecordHeld' BY <1>t, <1>1 DEF IInv, TypeOK, RecordHeld, storeVars, Fresh
  <2>4. PlaceHeld' BY <1>t, <1>1 DEF IInv, TypeOK, PlaceHeld, storeVars
  <2>5. Distinct' /\ AnswersHeld' BY <1>t, <1>1 DEF IInv, TypeOK, storeVars, Distinct, AnswersHeld
  <2>6. Published' BY <1>t, <1>1 DEF IInv, TypeOK, storeVars, Published
  <2>7. ReservedFirst' BY <1>t, <1>1 DEF IInv, TypeOK, storeVars, ReservedFirst, Agrees
  <2> QED BY <2>1, <2>2, <2>3, <2>4, <2>5, <2>6, <2>7 DEF IInv
<1>2. CASE /\ manifest[id] # None /\ Agrees(rec, manifest[id])
           /\ Answered(p, rec, manifest[id])
           /\ UNCHANGED <<meaning, storeVars, calm>>
  <2>1. manifest[id] \in Manifests BY <1>t, <1>2 DEF IInv, TypeOK
  <2>2. manifest' = [manifest EXCEPT ![id] = manifest[id]]
    BY <1>2 DEF IInv, TypeOK, storeVars
  <2> QED BY <1>t, <1>2, <2>1, <2>2, AnswerKeeps DEF storeVars
<1>3. CASE /\ Goto(p, "prepare")
           /\ UNCHANGED <<meaning, storeVars, lock, loc, answers, calm>>
  <2>1. TypeOK' BY <1>t, <1>3, ReservationAssumption DEF IInv, TypeOK, storeVars
  <2>2. RequestHeld' BY <1>t, <1>3 DEF IInv, TypeOK, RequestHeld, storeVars
  <2>3. RecordHeld' BY <1>t, <1>3 DEF IInv, TypeOK, RecordHeld, storeVars, Fresh
  <2>4. PlaceHeld' BY <1>t, <1>3 DEF IInv, TypeOK, PlaceHeld, storeVars
  <2>5. Distinct' /\ AnswersHeld' BY <1>t, <1>3 DEF IInv, TypeOK, storeVars, Distinct, AnswersHeld
  <2>6. Published' BY <1>t, <1>3 DEF IInv, TypeOK, storeVars, Published
  <2>7. ReservedFirst' BY <1>t, <1>3 DEF IInv, TypeOK, storeVars, ReservedFirst, Agrees
  <2> QED BY <2>1, <2>2, <2>3, <2>4, <2>5, <2>6, <2>7 DEF IInv
<1>4. CASE Refuse(p)
  BY <1>4, RefuseKeeps
<1> QED BY <1>1, <1>2, <1>3, <1>4 DEF CrMaterialize

(* The reserved directory goes through its shapes while there is no manifest. *)
LEMMA DirectoryKeeps ==
  ASSUME IInv, NEW p \in Process, pc[p] \in Bound, lock = p,
         dir[loc[p].rec.id] # "published",
         \/ Goto(p, "secure") /\ dir' = [dir EXCEPT ![loc[p].rec.id] = "open"]
         \/ Goto(p, "stage") /\ dir' = [dir EXCEPT ![loc[p].rec.id] = "private"]
         \/ Goto(p, "publish") /\ dir' = [dir EXCEPT ![loc[p].rec.id] = "staged"],
         UNCHANGED <<meaning, records, manifest, lock, loc, answers, calm>>
  PROVE  IInv'
<1> USE DEF Goto, Locked, PCs, Bound, Looking
<1> DEFINE rec == loc[p].rec
           id == rec.id
<1>t. /\ loc[p].req \in Requests /\ loc[p].req.key \in Key
      /\ rec \in Records /\ id \in Id
      /\ records[loc[p].req.key] = rec /\ records[loc[p].req.key] # None
      /\ rec.label = loc[p].req.label
  BY ReservationAssumption DEF IInv, TypeOK, RequestHeld, RecordHeld, Requests, Records
<1>n. manifest[id] = None
  BY <1>t DEF IInv, Published
<1>d. /\ \A i \in Id : i # id => dir'[i] = dir[i]
      /\ dir'[id] \in {"open", "private", "staged"}
      /\ pc'[p] = "secure" => dir'[id] = "open"
      /\ pc'[p] = "stage" => dir'[id] = "private"
      /\ pc'[p] = "publish" => dir'[id] = "staged"
      /\ pc'[p] \in {"secure", "stage", "publish"}
  BY <1>t DEF IInv, TypeOK
<1>1. TypeOK' BY <1>t, ReservationAssumption DEF IInv, TypeOK, Dirs
<1>2. RequestHeld' BY DEF IInv, TypeOK, RequestHeld
<1>3. RecordHeld' BY <1>t DEF IInv, TypeOK, RecordHeld, Fresh
<1>4. PlaceHeld' BY <1>t, <1>d DEF IInv, TypeOK, PlaceHeld
<1>5. Distinct' /\ AnswersHeld' BY DEF IInv, Distinct, AnswersHeld
<1>6. Published' BY <1>n, <1>d DEF IInv, Published
<1>7. ReservedFirst'
  <2> SUFFICES ASSUME NEW i \in Id, dir'[i] # "absent"
               PROVE  \E k \in Key :
                        /\ records[k] # None /\ records[k].id = i
                        /\ manifest[i] # None => Agrees(records[k], manifest[i])
    BY DEF ReservedFirst, Agrees
  <2>1. CASE i = id BY <2>1, <1>t, <1>n
  <2>2. CASE i # id BY <2>2, <1>d DEF IInv, ReservedFirst
  <2> QED BY <2>1, <2>2
<1> QED BY <1>1, <1>2, <1>3, <1>4, <1>5, <1>6, <1>7 DEF IInv

(* It is made, or found empty and private, then made private, and then the  *)
(* manifest is staged in it.                                               *)
LEMMA PrepareKeeps ==
  ASSUME IInv, NEW p \in Process, CrPrepare(p) \/ CrSecure(p) \/ CrStage(p)
  PROVE  IInv'
<1> USE DEF Goto, Locked, PCs, Bound, Looking
<1> DEFINE rec == loc[p].rec
           id == rec.id
<1>1. CASE CrPrepare(p)
  <2>t. /\ pc[p] = "prepare" /\ lock = p /\ loc[p].req \in Requests
        /\ rec \in Records /\ records[loc[p].req.key] = rec
        /\ rec.label = loc[p].req.label
    BY <1>1 DEF IInv, TypeOK, RequestHeld, RecordHeld, CrPrepare
  <2>1. CASE dir[id] = "absent" /\ dir' = [dir EXCEPT ![id] = "open"]
             /\ Goto(p, "secure")
             /\ UNCHANGED <<meaning, records, manifest, lock, loc, answers, calm>>
    BY <2>t, <2>1, DirectoryKeeps
  <2>2. CASE /\ dir[id] = "private" /\ Goto(p, "stage")
             /\ UNCHANGED <<meaning, storeVars, lock, loc, answers, calm>>
    <3>1. TypeOK' BY <2>t, <2>2, ReservationAssumption DEF IInv, TypeOK, storeVars
    <3>2. RequestHeld' BY <2>t, <2>2 DEF IInv, TypeOK, RequestHeld, storeVars
    <3>3. RecordHeld' BY <2>t, <2>2 DEF IInv, TypeOK, RecordHeld, storeVars, Fresh
    <3>4. PlaceHeld' BY <2>t, <2>2 DEF IInv, TypeOK, PlaceHeld, storeVars
    <3>5. Distinct' /\ AnswersHeld' BY <2>t, <2>2 DEF IInv, TypeOK, storeVars, Distinct, AnswersHeld
    <3>6. Published' BY <2>t, <2>2 DEF IInv, TypeOK, storeVars, Published
    <3>7. ReservedFirst' BY <2>t, <2>2 DEF IInv, TypeOK, storeVars, ReservedFirst
    <3> QED BY <3>1, <3>2, <3>3, <3>4, <3>5, <3>6, <3>7 DEF IInv
  <2>3. CASE Refuse(p)
    BY <2>3, RefuseKeeps
  <2> QED BY <1>1, <2>1, <2>2, <2>3 DEF CrPrepare, Resumable
<1>2. CASE CrSecure(p)
  BY <1>2, DirectoryKeeps DEF CrSecure, IInv, TypeOK, PlaceHeld
<1>3. CASE CrStage(p)
  BY <1>3, DirectoryKeeps DEF CrStage, IInv, TypeOK, PlaceHeld
<1> QED BY <1>1, <1>2, <1>3

(* The manifest appears, and says what was reserved. *)
LEMMA PublishKeeps ==
  ASSUME IInv, NEW p \in Process, CrPublish(p)
  PROVE  IInv'
<1> USE DEF Goto, Locked, PCs, Bound, Looking
<1> DEFINE rec == loc[p].rec
           id == rec.id
<1>t. /\ pc[p] = "publish" /\ lock = p /\ loc[p].req \in Requests
      /\ loc[p].req.key \in Key /\ rec \in Records /\ id \in Id
      /\ records[loc[p].req.key] = rec /\ records[loc[p].req.key] # None
  BY ReservationAssumption
     DEF IInv, TypeOK, RequestHeld, RecordHeld, Requests, Records, CrPublish
<1> DEFINE m == [label |-> rec.label, base |-> rec.base, state |-> "creating"]
<1>m. m \in Manifests /\ m # None /\ Agrees(rec, m)
  BY <1>t, ReservationAssumption DEF Records, Manifests, Agrees
<1> HIDE DEF m
<1>a. /\ dir' = [dir EXCEPT ![id] = "published"]
      /\ manifest' = [manifest EXCEPT ![id] = m]
      /\ pc' = [pc EXCEPT ![p] = "complete"]
      /\ UNCHANGED <<meaning, records, lock, loc, answers, calm>>
  BY DEF CrPublish, m
<1>d. \A i \in Id : /\ dir'[i] = IF i = id THEN "published" ELSE dir[i]
                    /\ manifest'[i] = IF i = id THEN m ELSE manifest[i]
  BY <1>a DEF IInv, TypeOK
<1>1. TypeOK' BY <1>t, <1>m, <1>a, ReservationAssumption DEF IInv, TypeOK, Dirs
<1>2. RequestHeld' BY <1>a, <1>t DEF IInv, TypeOK, RequestHeld
<1>3. RecordHeld' BY <1>a, <1>t DEF IInv, TypeOK, RecordHeld, Fresh
<1>4. PlaceHeld' BY <1>a, <1>t, <1>m DEF IInv, TypeOK, PlaceHeld
<1>5. Distinct' BY <1>a DEF IInv, Distinct
<1>6. Published' BY <1>d, <1>m DEF IInv, Published
<1>7. ReservedFirst'
  <2> SUFFICES ASSUME NEW i \in Id, dir'[i] # "absent"
               PROVE  \E k \in Key :
                        /\ records[k] # None /\ records[k].id = i
                        /\ manifest'[i] # None => Agrees(records[k], manifest'[i])
    BY <1>a DEF ReservedFirst, Agrees
  <2>1. CASE i = id BY <2>1, <1>t, <1>m, <1>d
  <2>2. CASE i # id BY <2>2, <1>d DEF IInv, ReservedFirst
  <2> QED BY <2>1, <2>2
<1>8. AnswersHeld' BY <1>a, <1>d, <1>m DEF IInv, TypeOK, AnswersHeld, Answers
<1> QED BY <1>1, <1>2, <1>3, <1>4, <1>5, <1>6, <1>7, <1>8 DEF IInv

(* A manifest that could not be written leaves the directory empty.         *)
LEMMA PublishFailsKeeps ==
  ASSUME IInv, NEW p \in Process, CrPublishFails(p)
  PROVE  IInv'
<1> USE DEF Goto, Locked, PCs, Bound, Looking, Return, NoLoc, Holds
<1> DEFINE rec == loc[p].rec
           id == rec.id
<1>t. /\ pc[p] = "publish" /\ lock = p /\ loc[p].req \in Requests
      /\ loc[p].req.key \in Key /\ rec \in Records /\ id \in Id
      /\ records[loc[p].req.key] = rec /\ records[loc[p].req.key] # None
  BY ReservationAssumption
     DEF IInv, TypeOK, RequestHeld, RecordHeld, Requests, Records, CrPublishFails
<1>n. manifest[id] = None
  BY <1>t DEF IInv, PlaceHeld, Published
<1>a. /\ dir' = [dir EXCEPT ![id] = "private"]
      /\ UNCHANGED <<meaning, records, manifest, answers, calm>>
      /\ lock' = None
      /\ pc' = [pc EXCEPT ![p] = "idle"] /\ loc' = [loc EXCEPT ![p] = NoLoc]
  BY <1>t DEF CrPublishFails
<1>d. \A i \in Id : dir'[i] = IF i = id THEN "private" ELSE dir[i]
  BY <1>a DEF IInv, TypeOK
<1>1. TypeOK' BY <1>t, <1>a, ReservationAssumption DEF IInv, TypeOK, Dirs
<1>2. RequestHeld' BY <1>a DEF IInv, TypeOK, RequestHeld
<1>3. RecordHeld' BY <1>a DEF IInv, TypeOK, RecordHeld, Fresh
<1>4. PlaceHeld' BY <1>a, <1>t DEF IInv, TypeOK, PlaceHeld
<1>5. Distinct' /\ AnswersHeld' BY <1>a DEF IInv, Distinct, AnswersHeld
<1>6. Published' BY <1>a, <1>n, <1>d DEF IInv, Published
<1>7. ReservedFirst'
  <2> SUFFICES ASSUME NEW i \in Id, dir'[i] # "absent"
               PROVE  \E k \in Key :
                        /\ records[k] # None /\ records[k].id = i
                        /\ manifest[i] # None => Agrees(records[k], manifest[i])
    BY <1>a DEF ReservedFirst, Agrees
  <2>1. CASE i = id BY <2>1, <1>t, <1>n
  <2>2. CASE i # id BY <2>2, <1>d DEF IInv, ReservedFirst
  <2> QED BY <2>1, <2>2
<1> QED BY <1>1, <1>2, <1>3, <1>4, <1>5, <1>6, <1>7 DEF IInv

(* A completed creation is still the one that was reserved.                 *)
LEMMA CompleteKeeps ==
  ASSUME IInv, NEW p \in Process, CrComplete(p)
  PROVE  IInv'
<1> DEFINE rec == loc[p].rec
           id == rec.id
<1>t. /\ pc[p] = "complete" /\ pc[p] \in Bound
      /\ loc[p].req.key \in Key /\ rec \in Records /\ id \in Id
      /\ records[loc[p].req.key] = rec /\ records[loc[p].req.key] # None
      /\ manifest[id] # None /\ manifest[id] \in Manifests
  BY ReservationAssumption
     DEF IInv, TypeOK, RequestHeld, RecordHeld, PlaceHeld, Requests, Records,
         CrComplete, Bound, Locked
<1>g. Agrees(rec, manifest[id])
  <2>1. dir[id] # "absent" BY <1>t DEF IInv, Published
  <2>2. PICK k \in Key : /\ records[k] # None /\ records[k].id = id
                         /\ Agrees(records[k], manifest[id])
    BY <2>1, <1>t DEF IInv, ReservedFirst
  <2>3. k = loc[p].req.key BY <2>2, <1>t DEF IInv, Distinct
  <2> QED BY <2>2, <2>3, <1>t
<1>1. PICK s \in {"active", "orphaned"} :
        /\ manifest' = [manifest EXCEPT ![id] = [manifest[id] EXCEPT !.state = s]]
        /\ Answered(p, rec, [manifest[id] EXCEPT !.state = s])
  BY DEF CrComplete
<1> DEFINE m == [manifest[id] EXCEPT !.state = s]
<1>m. m \in Manifests /\ Agrees(rec, m)
  BY <1>t, <1>g DEF Manifests, Agrees
<1>2. UNCHANGED <<meaning, records, dir, calm>>
  BY DEF CrComplete
<1> HIDE DEF m
<1>3. manifest' = [manifest EXCEPT ![id] = m] /\ Answered(p, rec, m)
  BY <1>1 DEF m
<1> QED BY <1>t, <1>m, <1>2, <1>3, AnswerKeeps

------------------------------------------------------------------------------
(* A lookup changes nothing but what it knows.                              *)
LEMMA LookupKeeps ==
  ASSUME IInv, NEW p \in Process,
         (\E k \in Key : LkCall(p, k)) \/ LookupStep(p)
  PROVE  IInv'
<1> USE DEF Goto, Locked, PCs, Bound, Looking
<1>1. CASE LkReturn(p)
  BY <1>1, RefuseKeeps DEF LkReturn
<1>2. ASSUME NEW k \in Key, LkCall(p, k) PROVE IInv'
  <2>r. records[k] \in Records BY <1>2 DEF IInv, TypeOK, LkCall
  <2>1. TypeOK' BY <1>2, <2>r, ReservationAssumption DEF IInv, TypeOK, LkCall, storeVars
  <2>2. RequestHeld' BY <1>2 DEF IInv, TypeOK, RequestHeld, LkCall
  <2>3. RecordHeld' BY <1>2, <2>r DEF IInv, TypeOK, RecordHeld, Fresh, LkCall, storeVars
  <2>4. PlaceHeld' BY <1>2 DEF IInv, TypeOK, PlaceHeld, LkCall, storeVars
  <2>5. Distinct' /\ Published' /\ ReservedFirst' /\ AnswersHeld'
    BY <1>2 DEF IInv, LkCall, storeVars, Distinct, Published, ReservedFirst, AnswersHeld
  <2> QED BY <2>1, <2>2, <2>3, <2>4, <2>5 DEF IInv
<1>3. CASE LkManifest(p) \/ LkLoad(p) \/ LkVacant(p)
  <2>a. /\ pc[p] \in {"lkManifest", "lkLoad", "lkVacant"}
        /\ \E l \in Looking : pc' = [pc EXCEPT ![p] = l]
        /\ \/ loc' = loc
           \/ \E t \in {"reserved", "materialized", "unsafe"} :
                loc' = [loc EXCEPT ![p].told = t]
        /\ UNCHANGED <<meaning, storeVars, lock, answers, calm>>
    BY <1>3 DEF LkManifest, LkLoad, LkVacant, Tell
  <2>1. TypeOK' BY <2>a, ReservationAssumption DEF IInv, TypeOK, storeVars
  <2>2. RequestHeld' BY <2>a DEF IInv, TypeOK, RequestHeld
  <2>3. RecordHeld' BY <2>a DEF IInv, TypeOK, RecordHeld, Fresh, storeVars
  <2>4. PlaceHeld' BY <2>a DEF IInv, TypeOK, PlaceHeld, storeVars
  <2>5. Distinct' /\ Published' /\ ReservedFirst' /\ AnswersHeld'
    BY <2>a DEF IInv, storeVars, Distinct, Published, ReservedFirst, AnswersHeld
  <2> QED BY <2>1, <2>2, <2>3, <2>4, <2>5 DEF IInv
<1> QED BY <1>1, <1>2, <1>3 DEF LookupStep

(* What others do to a capsule, under the locks, keeps what it was born as.  *)
LEMMA ProgressKeeps ==
  ASSUME IInv, NEW i \in Id, Recover(i) \/ Drop(i)
  PROVE  IInv'
<1>1. PICK s \in {"active", "orphaned", "dropped"} :
        manifest[i] # None /\ Progress(i, s)
  BY DEF Recover, Drop
<1> DEFINE m == [manifest[i] EXCEPT !.state = s]
<1>m. m \in Manifests /\ m # None
      /\ m.label = manifest[i].label /\ m.base = manifest[i].base
  BY <1>1, ReservationAssumption DEF IInv, TypeOK, Manifests
<1>a. /\ manifest' = [manifest EXCEPT ![i] = m] /\ lock = None
      /\ UNCHANGED <<meaning, records, dir, lock, pc, loc, answers, calm>>
  BY <1>1 DEF Progress
<1> HIDE DEF m
<1>d. \A j \in Id : manifest'[j] = IF j = i THEN m ELSE manifest[j]
  BY <1>a DEF IInv, TypeOK
<1>1a. TypeOK' BY <1>a, <1>m DEF IInv, TypeOK
<1>2. RequestHeld' BY <1>a DEF IInv, RequestHeld
<1>3. RecordHeld' BY <1>a DEF IInv, RecordHeld, Fresh
<1>4. PlaceHeld' BY <1>a, ReservationAssumption DEF IInv, TypeOK, PlaceHeld, Locked
<1>5. Distinct' BY <1>a DEF IInv, Distinct
<1>6. Published' BY <1>a, <1>d, <1>m, <1>1 DEF IInv, Published
<1>7. ReservedFirst' BY <1>a, <1>d, <1>m, <1>1 DEF IInv, ReservedFirst, Agrees
<1>8. AnswersHeld' BY <1>a, <1>d, <1>m DEF IInv, TypeOK, AnswersHeld, Answers
<1> QED BY <1>1a, <1>2, <1>3, <1>4, <1>5, <1>6, <1>7, <1>8 DEF IInv

(* Whatever a selector comes to mean, nothing that is reserved depends on it. *)
LEMMA WorldKeeps ==
  ASSUME IInv, (\E s \in Selector : MoveBase(s)) \/ Settle
  PROVE  IInv'
<1>1. /\ meaning' \in [Selector -> Commit] /\ calm' \in BOOLEAN
      /\ UNCHANGED <<storeVars, lock, pc, loc, answers>>
  BY DEF MoveBase, Settle, IInv, TypeOK
<1>2. TypeOK' BY <1>1 DEF IInv, TypeOK, storeVars
<1>3. RequestHeld' /\ RecordHeld' /\ PlaceHeld'
  BY <1>1 DEF IInv, RequestHeld, RecordHeld, PlaceHeld, Fresh, storeVars
<1>4. Distinct' /\ Published' /\ ReservedFirst' /\ AnswersHeld'
  BY <1>1 DEF IInv, storeVars, Distinct, Published, ReservedFirst, AnswersHeld
<1> QED BY <1>2, <1>3, <1>4 DEF IInv

------------------------------------------------------------------------------
(* Nothing is reserved, made or promised at first. *)
LEMMA InitIInv == Init => IInv
<1> SUFFICES ASSUME Init PROVE IInv OBVIOUS
<1> USE DEF Init, NoLoc
<1>1. TypeOK BY ReservationAssumption DEF TypeOK, PCs, Locked, Dirs
<1>2. RequestHeld /\ RecordHeld /\ PlaceHeld
  BY DEF RequestHeld, RecordHeld, PlaceHeld, Locked, Bound, Looking
<1>3. Distinct /\ Published /\ ReservedFirst /\ AnswersHeld
  BY DEF Distinct, Published, ReservedFirst, AnswersHeld
<1> QED BY <1>1, <1>2, <1>3 DEF IInv

(* Every step keeps the invariant. *)
LEMMA NextIInv == IInv /\ [Next]_vars => IInv'
<1> SUFFICES ASSUME IInv, [Next]_vars PROVE IInv' OBVIOUS
<1>1. ASSUME NEW p \in Process, CreateStep(p) PROVE IInv'
  BY <1>1, ReadKeeps, ResolveKeeps, ReserveKeeps, MaterializeKeeps, PrepareKeeps,
     PublishKeeps, PublishFailsKeeps, CompleteKeeps, RefuseKeeps
     DEF CreateStep, CrCompleteFails
<1>2. ASSUME NEW p \in Process,
             (\E req \in Requests : CrCall(p, req)) \/ CrLock(p)
      PROVE  IInv'
  BY <1>2, CallSteps
<1>3. ASSUME NEW p \in Process, (\E k \in Key : LkCall(p, k)) \/ LookupStep(p)
      PROVE  IInv'
  BY <1>3, LookupKeeps
<1>4. ASSUME NEW p \in Process, Crash(p) PROVE IInv'
  BY <1>4, RefuseKeeps DEF Crash
<1>5. CASE UNCHANGED vars
  BY <1>5 DEF vars, storeVars, IInv, TypeOK, RequestHeld, RecordHeld, Fresh, PlaceHeld,
     Distinct, Published, ReservedFirst, Agrees, AnswersHeld
<1> QED BY <1>1, <1>2, <1>3, <1>4, <1>5, ProgressKeeps, WorldKeeps DEF Next

(* Hence it always holds. *)
LEMMA Inductive == Spec => []IInv
BY InitIInv, NextIInv, PTL DEF Spec

(* Types are kept, and the locks belong to the one create that is past them. *)
THEOREM ReservationTypes == Spec => []TypeOK
<1>1. IInv => TypeOK BY DEF IInv
<1> QED BY <1>1, Inductive, PTL

(* However many callers, crashes and moves of the base: one key, one capsule, *)
(* one base, one request.                                                  *)
THEOREM OneCapsule == Spec => []OneCapsulePerKey
<1>1. IInv => OneCapsulePerKey
  BY DEF IInv, TypeOK, AnswersHeld, OneCapsulePerKey, Answers
<1> QED BY <1>1, Inductive, PTL

(* No trace of a capsule is on disk that its key does not lead to.          *)
THEOREM ReservedBeforeAll == Spec => []ReservedFirst
<1>1. IInv => ReservedFirst BY DEF IInv
<1> QED BY <1>1, Inductive, PTL

(* A lookup never denies a capsule that somebody was given.                 *)
THEOREM LookupHonest == Spec => ReservedMeansNotReturned
<1>1. IInv /\ [Next]_vars =>
        \A p \in Process :
          (loc[p].told = None /\ loc'[p].told = "reserved")
          => \A a \in answers : a.id # loc[p].rec.id
  <2> SUFFICES ASSUME IInv, [Next]_vars, NEW p \in Process,
                      loc[p].told = None, loc'[p].told = "reserved",
                      NEW a \in answers, a.id = loc[p].rec.id
               PROVE  FALSE
    OBVIOUS
  <2>1. LkVacant(p) /\ Unmaterialized(loc[p].rec.id)
    <3> USE ReservationAssumption DEF IInv, TypeOK, NoLoc, Goto, Remember, Return, Refuse, Answered
    <3>1. ASSUME NEW q \in Process, CreateStep(q) PROVE FALSE
      <4>1. \/ loc' = loc
            \/ \E rec : loc' = [loc EXCEPT ![q].rec = rec]
            \/ loc' = [loc EXCEPT ![q] = NoLoc]
        <5>1. CASE CrRead(q) BY <5>1 DEF CrRead
        <5>2. CASE CrResolve(q) BY <5>2 DEF CrResolve
        <5>3. CASE CrReserve(q) \/ CrPrepare(q) \/ CrSecure(q) \/ CrStage(q)
          BY <5>3 DEF CrReserve, CrPrepare, CrSecure, CrStage
        <5>4. CASE CrMaterialize(q) BY <5>4 DEF CrMaterialize
        <5>5. CASE CrPublish(q) \/ CrPublishFails(q) BY <5>5 DEF CrPublish, CrPublishFails
        <5>6. CASE CrComplete(q) \/ CrCompleteFails(q)
          BY <5>6 DEF CrComplete, CrCompleteFails
        <5> QED BY <3>1, <5>1, <5>2, <5>3, <5>4, <5>5, <5>6 DEF CreateStep
      <4> QED BY <4>1
    <3>2. ASSUME NEW q \in Process,
                 \/ \E req \in Requests : CrCall(q, req)
                 \/ CrLock(q) \/ Crash(q) \/ LkReturn(q) \/ LkManifest(q)
                 \/ \E k \in Key : LkCall(q, k)
          PROVE  FALSE
      BY <3>2 DEF CrCall, CrLock, Crash, LkReturn, LkManifest, LkCall
    <3>3. ASSUME NEW q \in Process, LkLoad(q) PROVE FALSE
      BY <3>3 DEF LkLoad, Tell
    <3>4. ASSUME NEW q \in Process, LkVacant(q)
          PROVE  LkVacant(p) /\ Unmaterialized(loc[p].rec.id)
      <4>1. p = q
        BY <3>4 DEF LkVacant, Tell
      <4>2. loc'[p].told = IF Unmaterialized(loc[p].rec.id) THEN "reserved" ELSE "unsafe"
        BY <3>4, <4>1 DEF LkVacant, Tell
      <4> QED BY <3>4, <4>1, <4>2
    <3>5. ASSUME \/ \E s \in Selector : MoveBase(s)
                 \/ \E id \in Id : Recover(id) \/ Drop(id)
                 \/ Settle
                 \/ UNCHANGED vars
          PROVE  FALSE
      BY <3>5 DEF MoveBase, Recover, Drop, Progress, Settle, vars
    <3> QED BY <3>1, <3>2, <3>3, <3>4, <3>5 DEF Next, LookupStep
  <2>2. a.id \in Id /\ manifest[a.id] # None
    BY DEF IInv, TypeOK, AnswersHeld, Answers
  <2>3. dir[a.id] = "published" BY <2>2 DEF IInv, Published
  <2> QED BY <2>1, <2>3 DEF Unmaterialized
<1> QED BY <1>1, Inductive, PTL DEF Spec, ReservedMeansNotReturned
==============================================================================
