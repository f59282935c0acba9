-------------------------------- MODULE Receipts --------------------------------
(***************************************************************************)
(* Receipts: a sealed result is exported to a directory file by file, the  *)
(* bundle that completes it last, and verified there by somebody who has   *)
(* nothing else.  Close runs under the global lock; exports read the       *)
(* capsule and write the receipt under none, and verifications read it     *)
(* whatever else goes on.  A digest is modelled by the value it is of.     *)
(***************************************************************************)
EXTENDS FiniteSets, Naturals

CONSTANTS
  None,
  Capsule,
  Patch,        \* complete changes against the base
  Empty,        \* the one that changes nothing
  Evidence,     \* records of checks: patch, passed, executed, output
  GateSets,     \* the combinations of evidence requirements callers use
  Destination,
  Exporter,
  Verifier,
  MaxAtWork,    \* bound: how many exports and verifications go on at once
  MaxMishap     \* how often a close fails, a file is altered, or the clock set back

VARIABLES
  manifest,   \* what each capsule.json says: evidence, and the seal if closed
  stored,     \* result.json and result.patch of each capsule
  closing,    \* the close under way, or None: the global lock
  required,   \* history: what was required of each capsule when it was closed
  dest,       \* each destination: None, or its three files
  touched,    \* whether the receipt that is there was altered
  signature,  \* the bundle the trusted key has signed, or None
  pc, loc,    \* exporters and verifiers; `gone`: what it reads was removed
  mishaps

storeVars == <<manifest, stored, closing, required>>
vars == <<storeVars, dest, touched, signature, pc, loc, mishaps>>

Kinds == {"no_change", "change"}
(* early: sealed at a time before the capsule was created. *)
Results == [capsule : Capsule, kind : Kinds, patch : Patch, evidence : SUBSET Evidence,
            early : BOOLEAN]
Bundles == [capsule : Capsule, result : Results, patch : Patch]
Files == [result : Results \cup {None}, patch : Patch \cup {None},
          bundle : Bundles \cup {None}]
Manifests == [evidence : SUBSET Evidence, seal : Results \cup {None}]
Process == Exporter \cup Verifier

ASSUME ReceiptAssumption ==
  /\ Empty \in Patch
  /\ MaxMishap \in Nat /\ MaxAtWork \in Nat
  /\ Evidence \subseteq [patch : Patch, passed : BOOLEAN, executed : BOOLEAN,
                         output : BOOLEAN]
  /\ GateSets \subseteq SUBSET {"successful", "current", "executed"}
  /\ Exporter \cap Verifier = {}
  /\ None \notin Capsule \cup Destination \cup Patch \cup Results \cup Bundles \cup Files

NoFiles == [result |-> None, patch |-> None, bundle |-> None]

NoLoc == [capsule |-> None, seal |-> None, result |-> None, patch |-> None,
          bundle |-> None, at |-> None, key |-> FALSE, gone |-> FALSE]

(* One more export or verification may begin. *)
Starts(p) ==
  /\ pc[p] = "idle"
  /\ Cardinality({q \in Process : pc[q] # "idle"}) < MaxAtWork

Goto(p, l) == pc' = [pc EXCEPT ![p] = l]

Return(p) == Goto(p, "idle") /\ loc' = [loc EXCEPT ![p] = NoLoc]

Refuse(p) == Return(p) /\ UNCHANGED <<storeVars, dest, touched, signature, mishaps>>

------------------------------------------------------------------------------
(* add_evidence and close, as far as the artifacts are concerned. *)

AddEvidence(c) ==
  /\ closing = None
  /\ manifest[c].seal = None
  /\ \E e \in Evidence :
       /\ e.output = e.executed
       /\ manifest' = [manifest EXCEPT ![c].evidence = @ \cup {e}]
  /\ UNCHANGED <<stored, closing, required, dest, touched, signature, pc, loc, mishaps>>

CloseGateAnyPatch(gates, evidence, p) ==  \* mutant: the binding is not checked
  /\ "successful" \in gates => evidence # {} /\ \A e \in evidence : e.passed
  /\ "current" \in gates => \E e \in evidence : e.passed
  /\ "executed" \in gates => \E e \in evidence : e.executed /\ e.passed

CloseGate(gates, evidence, p) ==
  /\ "successful" \in gates => evidence # {} /\ \A e \in evidence : e.passed
  /\ "current" \in gates => \E e \in evidence : e.passed /\ e.patch = p
  /\ "executed" \in gates => \E e \in evidence : e.executed /\ e.passed /\ e.patch = p

(* Whether a change is a commit or a patch is module Sealing's. *)
KindOf(p) == IF p = Empty THEN "no_change" ELSE "change"

(* The time of the seal is the wall clock's, which may have been set back    *)
(* since the capsule was created; nothing compares the two.                *)

ClBegin(c) ==
  /\ closing = None
  /\ manifest[c].seal = None
  /\ \E p \in Patch, gates \in GateSets, early \in BOOLEAN :
       /\ CloseGate(gates, manifest[c].evidence, p)
       /\ early => mishaps < MaxMishap
       /\ mishaps' = IF early THEN mishaps + 1 ELSE mishaps
       /\ closing' = [step |-> "patch", gates |-> gates,
                      result |-> [capsule |-> c, kind |-> KindOf(p), patch |-> p,
                                  evidence |-> manifest[c].evidence, early |-> early]]
  /\ UNCHANGED <<manifest, stored, required, dest, touched, signature, pc, loc>>

ClStep(step, next) ==
  /\ closing # None /\ closing.step = step
  /\ closing' = [closing EXCEPT !.step = next]
  /\ UNCHANGED <<manifest, required, dest, touched, signature, pc, loc, mishaps>>

ClPatch ==
  /\ ClStep("patch", "result")
  /\ stored' = [stored EXCEPT ![closing.result.capsule].patch = closing.result.patch]

ClResult ==
  /\ ClStep("result", "manifest")
  /\ stored' = [stored EXCEPT ![closing.result.capsule].result = closing.result]

ClManifest ==
  /\ closing # None /\ closing.step = "manifest"
  /\ manifest' = [manifest EXCEPT ![closing.result.capsule].seal = closing.result]
  /\ required' = [required EXCEPT ![closing.result.capsule] = closing.gates]
  /\ closing' = None
  /\ UNCHANGED <<stored, dest, touched, signature, pc, loc, mishaps>>

(* A crash, or a write that fails, leaves the files that were written. *)
ClFail ==
  /\ mishaps < MaxMishap /\ mishaps' = mishaps + 1
  /\ closing # None
  /\ closing' = None
  /\ UNCHANGED <<manifest, stored, required, dest, touched, signature, pc, loc>>

------------------------------------------------------------------------------
(* export_artifacts: first artifact_snapshot, which reads the manifest and   *)
(* both artifacts without a lock ...                                       *)

ExShow(x, c, d) ==
  /\ Starts(x)
  /\ manifest[c].seal # None   \* else refused: not sealed
  /\ loc' = [loc EXCEPT ![x] = [NoLoc EXCEPT !.capsule = c, !.at = d,
                                             !.seal = manifest[c]]]
  /\ Goto(x, "exResult")
  /\ UNCHANGED <<storeVars, dest, touched, signature, mishaps>>

ExResult(x) ==
  /\ pc[x] = "exResult"
  /\ loc' = [loc EXCEPT ![x].result = stored[loc[x].capsule].result]
  /\ Goto(x, "exPatch")
  /\ UNCHANGED <<storeVars, dest, touched, signature, mishaps>>

MatchesByPatch(m, res, p) ==  \* mutant: only the patch is compared
  res # None /\ p = m.seal.patch

(* sealed_artifact_snapshot: both files are what the manifest pinned. *)
Matches(m, res, p) ==
  /\ res = m.seal
  /\ p = m.seal.patch
  /\ res.evidence = m.evidence

BundleOf(res) == [capsule |-> res.capsule, result |-> res, patch |-> res.patch]

ExPatch(x) ==
  /\ pc[x] = "exPatch"
  /\ LET l == loc[x]
         p == stored[l.capsule].patch
     IN  \/ /\ Matches(l.seal, l.result, p)
            /\ loc' = [loc EXCEPT ![x].patch = p, ![x].bundle = BundleOf(l.result)]
            /\ Goto(x, "exTarget")
            /\ UNCHANGED <<storeVars, dest, touched, signature, mishaps>>
         \/ ~Matches(l.seal, l.result, p) /\ Refuse(x)

(* ... then the three files are staged beside the destination, if it is not  *)
(* there yet, ...                                                          *)
ExTarget(x) ==
  /\ pc[x] = "exTarget"
  /\ \/ /\ dest[loc[x].at] = None
        /\ Goto(x, "exReserve")
        /\ UNCHANGED <<storeVars, dest, touched, signature, loc, mishaps>>
     \/ dest[loc[x].at] # None /\ Refuse(x)

ReserveShared(d) == TRUE  \* mutant: create_dir_all, a directory that is there will do

(* create_dir fails on a directory that came into being meanwhile. *)
Reserve(d) == dest[d] = None

ExReserve(x) ==
  /\ pc[x] = "exReserve"
  /\ LET d == loc[x].at
     IN  \/ /\ Reserve(d)
            /\ dest' = [dest EXCEPT ![d] = IF @ = None THEN NoFiles ELSE @]
            /\ Goto(x, "exMove")
            /\ UNCHANGED <<storeVars, touched, signature, loc, mishaps>>
         \/ ~Reserve(d) /\ Refuse(x)

(* ... and moved into it one by one, by name, the marker last.             *)
ToMoveByName(staged) ==  \* mutant: the marker is moved in its turn
  IF staged.bundle # None THEN "bundle"
  ELSE IF staged.result # None THEN "result" ELSE "patch"

ToMove(staged) ==
  IF staged.result # None THEN "result"
  ELSE IF staged.patch # None THEN "patch" ELSE "bundle"

ExMove(x) ==
  /\ pc[x] = "exMove"
  /\ LET l == loc[x]
         f == ToMove(l)
         rest == [l EXCEPT ![f] = None]
     IN  /\ dest' = [dest EXCEPT ![l.at][f] = l[f]]
         /\ IF {rest.result, rest.patch, rest.bundle} # {None}
            THEN Goto(x, "exMove") /\ loc' = [loc EXCEPT ![x] = rest]
            ELSE Return(x)
  /\ UNCHANGED <<storeVars, touched, signature, mishaps>>

ExFail(x) == x \in Exporter /\ pc[x] # "idle" /\ Refuse(x)

ExportStep(x) ==
  \/ \E c \in Capsule, d \in Destination : ExShow(x, c, d)
  \/ ExResult(x) \/ ExPatch(x) \/ ExTarget(x) \/ ExReserve(x) \/ ExMove(x)
  \/ ExFail(x)

------------------------------------------------------------------------------
(* sign_bundle *)
Sign(d) ==
  /\ signature = None   \* else refused: it would be overwritten
  /\ dest[d] # None /\ dest[d].bundle # None
  /\ signature' = dest[d].bundle
  /\ UNCHANGED <<storeVars, dest, touched, pc, loc, mishaps>>

(* verify_bundle, and verify_authenticated_bundle with the trusted key: the  *)
(* bundle is read once, and first.                                         *)
VfBundle(v, d) ==
  /\ Starts(v)
  /\ dest[d] # None /\ dest[d].bundle # None   \* else refused: cannot read it
  /\ \E key \in BOOLEAN :
       /\ key => dest[d].bundle = signature
       /\ loc' = [loc EXCEPT ![v] = [NoLoc EXCEPT !.at = d, !.bundle = dest[d].bundle,
                                                  !.key = key]]
  /\ Goto(v, "vfResult")
  /\ UNCHANGED <<storeVars, dest, touched, signature, mishaps>>

FileAt(d, f) == IF dest[d] = None THEN None ELSE dest[d][f]

VfResult(v) ==
  /\ pc[v] = "vfResult"
  /\ loc' = [loc EXCEPT ![v].result = FileAt(loc[v].at, "result")]
  /\ Goto(v, "vfPatch")
  /\ UNCHANGED <<storeVars, dest, touched, signature, mishaps>>

DescribedUnchecked(b, res, p) ==  \* mutant: descriptors are not compared
  res # None /\ p # None

(* check_descriptor, of both artifacts; a missing file cannot be read. *)
Described(b, res, p) == b.result = res /\ b.patch = p

(* verify_result_consistency, what of it does not concern encodings. *)
Consistent(b, res, p) ==
  /\ res.capsule = b.capsule
  /\ res.patch = p
  /\ ~res.early
  /\ \A e \in res.evidence : e.output = e.executed
  /\ (res.kind = "no_change") = (p = Empty)

VerifyGate(gates, res) ==
  /\ "successful" \in gates => res.evidence # {} /\ \A e \in res.evidence : e.passed
  /\ "current" \in gates => \E e \in res.evidence : e.passed /\ e.patch = res.patch
  /\ "executed" \in gates =>
       \E e \in res.evidence : e.executed /\ e.passed /\ e.patch = res.patch

SnapshotReread(v) ==  \* mutant: the bundle is opened again after the signature check
  FileAt(loc[v].at, "bundle")

(* The bytes that were authenticated are the ones the checks use. *)
Snapshot(v) == loc[v].bundle

Verdict(b, res, p, gates) ==
  CASE b = None \/ ~Described(b, res, p) -> "contents"
    [] b # None /\ Described(b, res, p) /\ ~Consistent(b, res, p) -> "contents"
    [] OTHER -> IF VerifyGate(gates, res) THEN "passed" ELSE "evidence"

(* What a verification tells that has come to the patch; which evidence it    *)
(* requires is its caller's choice.                                        *)
Report(v, gates) ==
  LET b == Snapshot(v)
      res == loc[v].result
      p == FileAt(loc[v].at, "patch")
  IN  [bundle |-> b, result |-> res, patch |-> p, why |-> Verdict(b, res, p, gates)]

VfPatch(v) == pc[v] = "vfPatch" /\ Refuse(v)

VerifyStep(v) ==
  \/ \E d \in Destination : VfBundle(v, d)
  \/ VfResult(v) \/ VfPatch(v)

------------------------------------------------------------------------------
(* Files are damaged, edited or taken from elsewhere, one at a time.        *)

OtherResults(res) ==
  ({[res EXCEPT !.patch = p] : p \in Patch}
   \cup {[res EXCEPT !.evidence = {e}] : e \in Evidence}
   \cup {[res EXCEPT !.early = ~@]}
   \cup {manifest[c].seal : c \in Capsule}) \ {res}

AlterStored(c) ==
  /\ mishaps < MaxMishap /\ mishaps' = mishaps + 1
  /\ manifest[c].seal # None
  /\ \/ /\ stored[c].result # None
        /\ \E res \in OtherResults(stored[c].result) :
             stored' = [stored EXCEPT ![c].result = res]
     \/ \E p \in Patch \ {stored[c].patch} : stored' = [stored EXCEPT ![c].patch = p]
  /\ UNCHANGED <<manifest, closing, required, dest, touched, signature, pc, loc>>

AlterReceipt(d) ==
  /\ mishaps < MaxMishap /\ mishaps' = mishaps + 1
  /\ dest[d] # None /\ dest[d].bundle # None
  /\ touched' = [touched EXCEPT ![d] = TRUE]
  /\ \/ /\ dest[d].result # None
        /\ \E res \in OtherResults(dest[d].result) \cup {None} :
             dest' = [dest EXCEPT ![d].result = res]
     \/ \E p \in (Patch \cup {None}) \ {dest[d].patch} : dest' = [dest EXCEPT ![d].patch = p]
     \/ \E res \in OtherResults(dest[d].bundle.result) \ {None} :
          dest' = [dest EXCEPT ![d].bundle = BundleOf(res)]
  /\ UNCHANGED <<storeVars, signature, pc, loc>>

(* A receipt is thrown away, not while an export fills it. *)
Remove(d) ==
  /\ dest[d] # None
  /\ \A x \in Exporter : pc[x] = "exMove" => loc[x].at # d
  /\ dest' = [dest EXCEPT ![d] = None]
  /\ touched' = [touched EXCEPT ![d] = FALSE]
  /\ loc' = [p \in Process |->
               IF p \in Verifier /\ loc[p].at = d THEN [loc[p] EXCEPT !.gone = TRUE]
               ELSE loc[p]]
  /\ UNCHANGED <<storeVars, signature, pc, mishaps>>

------------------------------------------------------------------------------
Init ==
  /\ manifest = [c \in Capsule |-> [evidence |-> {}, seal |-> None]]
  /\ stored = [c \in Capsule |-> [result |-> None, patch |-> None]]
  /\ closing = None
  /\ required = [c \in Capsule |-> {}]
  /\ dest = [d \in Destination |-> None]
  /\ touched = [d \in Destination |-> FALSE]
  /\ signature = None
  /\ pc = [p \in Process |-> "idle"]
  /\ loc = [p \in Process |-> NoLoc]
  /\ mishaps = 0

Next ==
  \/ \E c \in Capsule : AddEvidence(c) \/ ClBegin(c) \/ AlterStored(c)
  \/ ClPatch \/ ClResult \/ ClManifest \/ ClFail
  \/ \E x \in Exporter : ExportStep(x)
  \/ \E v \in Verifier : VerifyStep(v)
  \/ \E d \in Destination : Sign(d) \/ AlterReceipt(d) \/ Remove(d)

Spec == Init /\ [][Next]_vars
------------------------------------------------------------------------------
PCs == {"idle", "exResult", "exPatch", "exTarget", "exReserve", "exMove",
        "vfResult", "vfPatch"}

Locs == [capsule : Capsule \cup {None}, seal : Manifests \cup {None},
         result : Results \cup {None}, patch : Patch \cup {None},
         bundle : Bundles \cup {None}, at : Destination \cup {None},
         key : BOOLEAN, gone : BOOLEAN]

(* Types; and a destination is filled by one export at a time. *)
TypeOK ==
  /\ manifest \in [Capsule -> Manifests]
  /\ stored \in [Capsule -> [result : Results \cup {None}, patch : Patch \cup {None}]]
  /\ closing \in [step : {"patch", "result", "manifest"}, result : Results,
                  gates : GateSets] \cup {None}
  /\ required \in [Capsule -> GateSets \cup {{}}]
  /\ dest \in [Destination -> Files \cup {None}]
  /\ touched \in [Destination -> BOOLEAN]
  /\ signature \in Bundles \cup {None}
  /\ pc \in [Process -> PCs]
  /\ loc \in [Process -> Locs]
  /\ \A x, y \in Exporter :
       (pc[x] = "exMove" /\ pc[y] = "exMove" /\ loc[x].at = loc[y].at) => x = y
  /\ mishaps \in 0..MaxMishap

(* Bundles that an export may have written. *)
Published == {BundleOf(manifest[c].seal) : c \in {k \in Capsule : manifest[k].seal # None}}

(* docs/security.md: a destination without its marker is incomplete.  The   *)
(* other way round: one that has it is the whole receipt of one sealed      *)
(* result, whichever exports, crashes and closes came between.             *)
CompleteIsWhole ==
  \A d \in Destination :
    (dest[d] # None /\ dest[d].bundle # None /\ ~touched[d])
    => /\ dest[d].bundle \in Published
       /\ Described(dest[d].bundle, dest[d].result, dest[d].patch)

(* Export never overwrites: a file of a receipt stays what it is until       *)
(* somebody alters or removes the receipt.                                 *)
NeverOverwritten ==
  [][ \A d \in Destination :
        (dest[d] # None /\ dest'[d] # None /\ mishaps' = mishaps)
        => \A f \in {"result", "patch", "bundle"} :
             dest[d][f] # None => dest'[d][f] = dest[d][f] ]_vars

(* What a verification would tell now, if it has come so far. *)
Told(v, why, choices) ==
  IF pc[v] = "vfPatch"
  THEN {r \in {Report(v, gates) : gates \in choices} : r.why = why}
  ELSE {}

(* A verification that passes on a bundle some export wrote reports the     *)
(* sealed result and its patch, wherever the other files came from.        *)
ReportedAsSealed ==
  \A v \in Verifier : \A r \in Told(v, "passed", GateSets) :
    r.bundle \in Published
    => /\ r.result = manifest[r.bundle.capsule].seal
       /\ r.patch = r.result.patch

(* docs/protocol.md: authenticated verification applies both checks to one   *)
(* snapshot: what it reports is what the key signed.                       *)
AuthenticatedAsSigned ==
  \A v \in Verifier : \A r \in Told(v, "passed", GateSets) :
    loc[v].key => r.result = signature.result /\ r.patch = signature.patch

(* A receipt that nobody altered or removed is refused for its contents only *)
(* if the clock was set back before its capsule was closed, however early  *)
(* somebody verifies it while it is being exported.                        *)
ExportedVerifies ==
  \A v \in Verifier : \A r \in Told(v, "contents", GateSets) :
    touched[loc[v].at] \/ loc[v].gone \/ r.bundle.result.early

(* What was required of the evidence when a capsule was closed can be       *)
(* required of its receipt: the two gates are written twice in the code.   *)
GateCarriesOver ==
  \A v \in Verifier, gates \in GateSets :
    \A r \in Told(v, "evidence", {gates}) :
      r.bundle \in Published => ~(gates \subseteq required[r.bundle.capsule])
==============================================================================
