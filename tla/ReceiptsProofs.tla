----------------------------- MODULE ReceiptsProofs -----------------------------
(***************************************************************************)
(* What Receipts promises, for any number of capsules, destinations,        *)
(* exports, verifications and mishaps.                                     *)
(***************************************************************************)
EXTENDS Receipts, TLAPS

(* A capsule is sealed once, under its own name, with consistent evidence     *)
(* that passed the gates of its close; a close under way is as good.        *)
Sound(res, c, gates) ==
  /\ res.capsule = c
  /\ res.kind = KindOf(res.patch)
  /\ \A e \in res.evidence : e.output = e.executed
  /\ CloseGate(gates, res.evidence, res.patch)

SealsHeld ==
  /\ \A c \in Capsule : manifest[c].seal # None => Sound(manifest[c].seal, c, required[c])
  /\ \A c \in Capsule : \A e \in manifest[c].evidence : e.output = e.executed
  /\ closing # None => /\ Sound(closing.result, closing.result.capsule, closing.gates)
                       /\ manifest[closing.result.capsule].seal = None

(* What the export of x took from the store. *)
Seal(x) == manifest[loc[x].capsule].seal

(* What the receipt looks like while x moves its files into it. *)
Moved(x) ==
  [result |-> IF loc[x].result = None THEN Seal(x) ELSE None,
   patch |-> IF loc[x].patch = None THEN Seal(x).patch ELSE None,
   bundle |-> None]

Exports(x) ==
  /\ pc[x] = "idle" => loc[x] = NoLoc
  /\ pc[x] # "idle" =>
       /\ pc[x] \in {"exResult", "exPatch", "exTarget", "exReserve", "exMove"}
       /\ loc[x].capsule \in Capsule /\ loc[x].at \in Destination
       /\ loc[x].seal = manifest[loc[x].capsule] /\ Seal(x) # None
  /\ pc[x] \in {"exResult", "exPatch"} => loc[x].patch = None /\ loc[x].bundle = None
  /\ pc[x] = "exResult" => loc[x].result = None
  /\ pc[x] \in {"exTarget", "exReserve"} =>
       /\ loc[x].result = Seal(x) /\ loc[x].patch = Seal(x).patch
       /\ loc[x].bundle = BundleOf(Seal(x))
  /\ pc[x] = "exMove" =>
       /\ loc[x].result \in {Seal(x), None} /\ loc[x].patch \in {Seal(x).patch, None}
       /\ loc[x].result # None => loc[x].patch # None
       /\ loc[x].bundle = BundleOf(Seal(x))
       /\ dest[loc[x].at] = Moved(x)

(* Only a complete receipt is altered. *)
Receipt(d) ==
  /\ (dest[d] = None \/ dest[d].bundle = None) => ~touched[d]
  /\ (dest[d] # None /\ dest[d].bundle # None /\ ~touched[d])
     => /\ dest[d].bundle \in Published
        /\ Described(dest[d].bundle, dest[d].result, dest[d].patch)

(* What a verification has read is still there, or the receipt was touched. *)
Verifies(v) ==
  /\ pc[v] = "idle" => loc[v] = NoLoc
  /\ pc[v] # "idle" =>
       /\ pc[v] \in {"vfResult", "vfPatch"}
       /\ loc[v].at \in Destination /\ loc[v].bundle \in Bundles
       /\ loc[v].key => loc[v].bundle = signature
       /\ (~touched[loc[v].at] /\ ~loc[v].gone)
          => /\ dest[loc[v].at] # None /\ dest[loc[v].at].bundle = loc[v].bundle
             /\ pc[v] = "vfPatch" => loc[v].result = dest[loc[v].at].result

IInv ==
  /\ TypeOK
  /\ SealsHeld
  /\ \A x \in Exporter : Exports(x)
  /\ \A d \in Destination : Receipt(d)
  /\ \A v \in Verifier : Verifies(v)

(* Steps of close, and mishaps to what it stored: no receipt and nobody who   *)
(* reads or writes one is touched.                                         *)
CloseStep ==
  \/ \E c \in Capsule : AddEvidence(c) \/ ClBegin(c) \/ AlterStored(c)
  \/ ClPatch \/ ClResult \/ ClManifest \/ ClFail

ReceiptStep == \E d \in Destination : Sign(d) \/ AlterReceipt(d) \/ Remove(d)

(* All of it holds at the start. *)
LEMMA InitIInv == Init => IInv
<1> SUFFICES ASSUME Init PROVE IInv
  OBVIOUS
<1> USE ReceiptAssumption DEF Init
<1>1. NoLoc \in Locs
  BY DEF NoLoc, Locs
<1>2. TypeOK
  BY <1>1 DEF TypeOK, Manifests, PCs, Files, Process
<1>3. SealsHeld
  BY DEF SealsHeld
<1>4. \A x \in Exporter : Exports(x)
  BY DEF Exports, Process
<1>5. \A d \in Destination : Receipt(d)
  BY DEF Receipt, TypeOK
<1>6. \A v \in Verifier : Verifies(v)
  BY DEF Verifies, Process
<1> QED
  BY <1>2, <1>3, <1>4, <1>5, <1>6 DEF IInv

(* What a sound seal says is in a bundle's form and passes every check that   *)
(* A result that was edited, or taken from another capsule, is one still.      *)
LEMMA OtherResultsType ==
  ASSUME manifest \in [Capsule -> Manifests], NEW r \in Results
  PROVE  OtherResults(r) \subseteq Results \cup {None}
<1>1. \A p \in Patch : [r EXCEPT !.patch = p] \in Results
  BY DEF Results
<1>2. \A e \in Evidence : [r EXCEPT !.evidence = {e}] \in Results
  BY DEF Results
<1>3. [r EXCEPT !.early = ~@] \in Results
  BY DEF Results
<1>4. \A c \in Capsule : manifest[c].seal \in Results \cup {None}
  BY DEF Manifests
<1> QED
  BY <1>1, <1>2, <1>3, <1>4 DEF OtherResults

(* is made of contents.                                                    *)
LEMMA BundleOfType ==
  ASSUME NEW res \in Results
  PROVE  /\ BundleOf(res) \in Bundles /\ BundleOf(res) # None
         /\ BundleOf(res).result = res /\ BundleOf(res).patch = res.patch
         /\ BundleOf(res).capsule = res.capsule
BY ReceiptAssumption DEF BundleOf, Bundles, Results

(* Types are kept by a capsule being worked on, closed and altered, ... *)
LEMMA CloseTypes ==
  ASSUME TypeOK, CloseStep
  PROVE  TypeOK'
<1> USE ReceiptAssumption DEF TypeOK
<1>1. ASSUME NEW c \in Capsule, AddEvidence(c)
      PROVE  TypeOK'
  BY <1>1 DEF AddEvidence, Manifests
<1>2. ASSUME NEW c \in Capsule, ClBegin(c)
      PROVE  TypeOK'
  <2>1. PICK p \in Patch, gates \in GateSets, early \in BOOLEAN :
          /\ early => mishaps < MaxMishap
          /\ mishaps' = IF early THEN mishaps + 1 ELSE mishaps
          /\ closing' = [step |-> "patch", gates |-> gates,
                         result |-> [capsule |-> c, kind |-> KindOf(p), patch |-> p,
                                     evidence |-> manifest[c].evidence, early |-> early]]
    BY <1>2 DEF ClBegin
  <2>2. mishaps' \in 0..MaxMishap
    BY <2>1
  <2>3. closing'.result \in Results
    BY <2>1 DEF Manifests, Results, Kinds, KindOf
  <2>4. closing' \in [step : {"patch", "result", "manifest"}, result : Results, gates : GateSets]
    BY <2>1, <2>3
  <2> QED
    BY <1>2, <2>2, <2>4 DEF ClBegin
<1>3. ASSUME NEW c \in Capsule, AlterStored(c)
      PROVE  TypeOK'
  <2>1. manifest[c].seal \in Results
    BY <1>3 DEF AlterStored, Manifests
  <2>2. ASSUME NEW res \in OtherResults(stored[c].result), stored[c].result # None
        PROVE  res \in Results \cup {None}
    <3> stored[c].result \in Results
      BY <2>2
    <3> QED
      BY <2>2, OtherResultsType
  <2>3. mishaps' \in 0..MaxMishap
    BY <1>3 DEF AlterStored
  <2>4. stored' \in [Capsule -> [result : Results \cup {None}, patch : Patch \cup {None}]]
    BY <1>3, <2>2 DEF AlterStored
  <2> QED
    BY <1>3, <2>3, <2>4 DEF AlterStored
<1>4. CASE ClPatch
  BY <1>4 DEF ClPatch, ClStep, Results
<1>5. CASE ClResult
  BY <1>5 DEF ClResult, ClStep, Results
<1>6. CASE ClManifest
  BY <1>6 DEF ClManifest, Results, Manifests
<1>7. CASE ClFail
  BY <1>7 DEF ClFail
<1> QED
  BY <1>1, <1>2, <1>3, <1>4, <1>5, <1>6, <1>7 DEF CloseStep

(* The local state of an export or a verification keeps its type when one     *)
(* field of it changes.                                                     *)
LEMMA LocTypes ==
  ASSUME NEW l \in Locs
  PROVE  /\ \A r \in Results \cup {None} :
              [l EXCEPT !.result = r] \in Locs
         /\ \A p \in Patch \cup {None} : [l EXCEPT !.patch = p] \in Locs
         /\ \A b \in Bundles \cup {None} : [l EXCEPT !.bundle = b] \in Locs
         /\ \A p \in Patch, b \in Bundles :
              [l EXCEPT !.patch = p, !.bundle = b] \in Locs
         /\ [l EXCEPT !.gone = TRUE] \in Locs
BY DEF Locs

(* The locals of an idle call are typed. *)
LEMMA NoLocType == NoLoc \in Locs
BY DEF NoLoc, Locs

(* ... by a refusal, ... *)
LEMMA RefuseTypes ==
  ASSUME TypeOK, NEW p \in Process, Refuse(p)
  PROVE  TypeOK'
BY NoLocType DEF TypeOK, Refuse, Return, Goto, PCs, Process, storeVars

(* ... by any step that only goes on with new locals, ... *)
LEMMA MoveTypes ==
  ASSUME TypeOK, NEW p \in Process, NEW l \in Locs, NEW s \in PCs, s # "exMove",
         pc' = [pc EXCEPT ![p] = s], loc' = [loc EXCEPT ![p] = l],
         UNCHANGED <<storeVars, dest, touched, signature, mishaps>>
  PROVE  TypeOK'
BY DEF TypeOK, Process, storeVars

(* Two fields of one process are set at once. *)
LEMMA TwoFields ==
  ASSUME NEW f, DOMAIN f = Process, NEW x \in Process, NEW p, NEW q
  PROVE  [f EXCEPT ![x].patch = p, ![x].bundle = q]
           = [f EXCEPT ![x] = [f[x] EXCEPT !.patch = p, !.bundle = q]]
OBVIOUS

(* An export that is under way exports a sealed result.                      *)
LEMMA ExportsSealed ==
  ASSUME IInv, NEW x \in Exporter, pc[x] # "idle"
  PROVE  /\ loc[x] \in Locs /\ loc[x].at \in Destination /\ loc[x].capsule \in Capsule
         /\ Seal(x) \in Results /\ Seal(x).patch \in Patch
         /\ Moved(x) \in Files /\ Moved(x) # None
<1>1. /\ loc[x] \in Locs /\ loc[x].at \in Destination /\ loc[x].capsule \in Capsule
      /\ Seal(x) # None
  BY DEF IInv, TypeOK, Exports, Process
<1>2. Seal(x) \in Results
  BY <1>1 DEF IInv, TypeOK, Seal, Manifests
<1>3. Seal(x).patch \in Patch
  BY <1>2 DEF Results
<1>4. Moved(x) \in Files
  <2> HIDE DEF Seal
  <2> QED
    BY <1>2, <1>3 DEF Moved, Files
<1> QED
  BY <1>1, <1>2, <1>3, <1>4, ReceiptAssumption

(* An export goes on in a directory that it made itself, so that no two are    *)
(* ever in one.                                                            *)
LEMMA ExportTypes ==
  ASSUME IInv, NEW x \in Exporter, ExportStep(x)
  PROVE  TypeOK'
<1> x \in Process
  BY DEF Process
<1> USE ReceiptAssumption DEF Goto
<1>1. ASSUME NEW c \in Capsule, NEW d \in Destination, ExShow(x, c, d)
      PROVE  TypeOK'
  <2>1. [NoLoc EXCEPT !.capsule = c, !.at = d, !.seal = manifest[c]] \in Locs
    BY DEF NoLoc, Locs, IInv, TypeOK
  <2> QED
    BY <1>1, <2>1 DEF ExShow, IInv, TypeOK, storeVars, PCs
<1>2. CASE ExResult(x)
  <2>1. stored[loc[x].capsule].result \in Results \cup {None}
    BY <1>2 DEF ExResult, IInv, TypeOK, Exports
  <2> QED
    <3> DEFINE l == [loc[x] EXCEPT !.result = stored[loc[x].capsule].result]
    <3>0. \A r \in Results \cup {None} : [loc[x] EXCEPT !.result = r] \in Locs
      BY <1>2, LocTypes, ExportsSealed DEF ExResult
    <3>1. l \in Locs
      BY <3>0, <2>1
    <3>2. /\ loc' = [loc EXCEPT ![x] = l] /\ pc' = [pc EXCEPT ![x] = "exPatch"]
          /\ UNCHANGED <<storeVars, dest, touched, signature, mishaps>>
      BY <1>2 DEF ExResult
    <3> HIDE DEF l
    <3> QED
      BY <3>1, <3>2, MoveTypes DEF IInv, PCs
<1>3. CASE ExPatch(x)
  <2>1. CASE Refuse(x)
    BY <2>1, RefuseTypes DEF IInv
  <2>2. CASE ~Refuse(x)
    <3> DEFINE p == stored[loc[x].capsule].patch
    <3>1. Matches(loc[x].seal, loc[x].result, p)
      BY <1>3, <2>2 DEF ExPatch
    <3>2. /\ loc' = [loc EXCEPT ![x] = [loc[x] EXCEPT !.patch = p,
                                                   !.bundle = BundleOf(loc[x].result)]]
          /\ pc' = [pc EXCEPT ![x] = "exTarget"]
          /\ UNCHANGED <<storeVars, dest, touched, signature, mishaps>>
      <4> DEFINE b == BundleOf(loc[x].result)
      <4>1. /\ loc' = [loc EXCEPT ![x].patch = p, ![x].bundle = b]
            /\ pc' = [pc EXCEPT ![x] = "exTarget"]
            /\ UNCHANGED <<storeVars, dest, touched, signature, mishaps>>
        BY <1>3, <2>2 DEF ExPatch, Goto
      <4>2. DOMAIN loc = Process /\ x \in Process
        BY DEF IInv, TypeOK, Process
      <4> HIDE DEF p, b
      <4>3. loc' = [loc EXCEPT ![x] = [loc[x] EXCEPT !.patch = p, !.bundle = b]]
        BY <4>1, <4>2, TwoFields
      <4> QED
        BY <4>1, <4>3 DEF b
    <3>3. loc[x].result \in Results /\ loc[x].result.patch = p /\ p \in Patch
      BY <1>3, <3>1 DEF ExPatch, Matches, IInv, TypeOK, Exports, Seal, Manifests, Results
    <3> QED
      <4>1. BundleOf(loc[x].result) \in Bundles /\ loc[x] \in Locs
        BY <1>3, <3>3, BundleOfType, ExportsSealed DEF ExPatch
      <4> HIDE DEF p
      <4>2. [loc[x] EXCEPT !.patch = p, !.bundle = BundleOf(loc[x].result)] \in Locs
        BY <3>3, <4>1, LocTypes
      <4> QED
        BY <3>2, <4>2, MoveTypes DEF IInv, PCs
  <2> QED
    BY <2>1, <2>2
<1>4. CASE ExTarget(x)
  <2>1. CASE Refuse(x)
    BY <2>1, RefuseTypes DEF IInv
  <2>2. CASE ~Refuse(x)
    <3>1. /\ pc' = [pc EXCEPT ![x] = "exReserve"]
          /\ UNCHANGED <<storeVars, dest, touched, signature, loc, mishaps>>
      BY <1>4, <2>2 DEF ExTarget
    <3> QED
      BY <3>1 DEF IInv, TypeOK, storeVars, PCs, Process
  <2> QED
    BY <2>1, <2>2
<1>5. CASE ExReserve(x)
  <2>1. CASE Refuse(x)
    BY <2>1, RefuseTypes DEF IInv
  <2>2. CASE ~Refuse(x)
    <3> DEFINE d == loc[x].at
    <3>1. /\ dest[d] = None /\ d \in Destination
          /\ pc' = [pc EXCEPT ![x] = "exMove"]
          /\ UNCHANGED <<storeVars, touched, signature, loc, mishaps>>
          /\ dest' = [dest EXCEPT ![d] = NoFiles]
      BY <1>5, <2>2 DEF ExReserve, Reserve, IInv, Exports
    <3>2. NoFiles \in Files
      BY DEF NoFiles, Files
    <3>3. \A y \in Exporter : pc[y] = "exMove" => loc[y].at # d
      <4> SUFFICES ASSUME NEW y \in Exporter, pc[y] = "exMove", loc[y].at = d PROVE FALSE
        OBVIOUS
      <4>1. dest[d] = Moved(y) /\ Exports(y)
        BY DEF IInv, Exports
      <4>2. Moved(y) \in Files
        BY ExportsSealed
      <4> QED
        BY <3>1, <4>1, <4>2 DEF Exports
    <3> HIDE DEF d
    <3>4. pc' \in [Process -> PCs]
      BY <3>1 DEF IInv, TypeOK, PCs
    <3>5. \A y, z \in Exporter :
            (pc'[y] = "exMove" /\ pc'[z] = "exMove" /\ loc[y].at = loc[z].at) => y = z
      BY <3>1, <3>3 DEF IInv, TypeOK, Process, d
    <3> QED
      BY <3>1, <3>2, <3>4, <3>5 DEF IInv, TypeOK, storeVars
  <2> QED
    BY <2>1, <2>2
<1>6. CASE ExMove(x)
  <2> DEFINE l == loc[x]
             f == ToMove(l)
             rest == [l EXCEPT ![f] = None]
  <2>1. l \in Locs /\ l.at \in Destination
    BY <1>6 DEF ExMove, IInv, TypeOK, Exports
  <2>2. f \in {"result", "patch", "bundle"}
    BY DEF ToMove
  <2>3. rest \in Locs /\ rest.at = l.at
    BY <2>1, <2>2 DEF Locs
  <2>4. dest[l.at] \in Files
    BY <1>6, <2>1, ExportsSealed DEF ExMove, IInv, Exports
  <2>5. [dest[l.at] EXCEPT ![f] = l[f]] \in Files
    BY <2>1, <2>2, <2>4 DEF Locs, Files
  <2>6. dest' = [dest EXCEPT ![l.at] = [dest[l.at] EXCEPT ![f] = l[f]]]
    BY <1>6 DEF ExMove
  <2>7. dest' \in [Destination -> Files \cup {None}]
    BY <2>1, <2>5, <2>6 DEF IInv, TypeOK
  <2>8. CASE Return(x)
    BY <1>6, <2>7, <2>8, NoLocType DEF ExMove, Return, IInv, TypeOK, storeVars, PCs, Process
  <2>9. CASE ~Return(x)
    <3>1. pc' = [pc EXCEPT ![x] = "exMove"] /\ loc' = [loc EXCEPT ![x] = rest]
          /\ pc[x] = "exMove"
          /\ UNCHANGED <<storeVars, touched, signature, mishaps>>
      BY <1>6, <2>9 DEF ExMove
    <3> HIDE DEF rest, l, f
    <3> QED
      BY <3>1, <2>3, <2>7 DEF IInv, TypeOK, storeVars, PCs, Process, l
  <2> QED
    BY <2>8, <2>9
<1>7. CASE ExFail(x)
  BY <1>7, RefuseTypes DEF ExFail, IInv
<1> QED
  BY <1>1, <1>2, <1>3, <1>4, <1>5, <1>6, <1>7 DEF ExportStep

(* ... by the steps of a verification ... *)
LEMMA VerifyTypes ==
  ASSUME IInv, NEW v \in Verifier, VerifyStep(v)
  PROVE  TypeOK'
<1> v \in Process
  BY DEF Process
<1> USE ReceiptAssumption DEF Goto
<1>1. ASSUME NEW d \in Destination, VfBundle(v, d)
      PROVE  TypeOK'
  <2>1. PICK key \in BOOLEAN :
          loc' = [loc EXCEPT ![v] = [NoLoc EXCEPT !.at = d, !.bundle = dest[d].bundle,
                                                  !.key = key]]
    BY <1>1 DEF VfBundle
  <2>2. dest[d].bundle \in Bundles
    BY <1>1 DEF VfBundle, IInv, TypeOK, Files
  <2> DEFINE l == [NoLoc EXCEPT !.at = d, !.bundle = dest[d].bundle, !.key = key]
  <2>3. l \in Locs
    BY <2>2 DEF NoLoc, Locs
  <2> HIDE DEF l
  <2> QED
    BY <1>1, <2>1, <2>3, MoveTypes DEF VfBundle, IInv, PCs, l
<1>2. CASE VfResult(v)
  <2> DEFINE l == [loc[v] EXCEPT !.result = FileAt(loc[v].at, "result")]
  <2>1. loc[v] \in Locs /\ loc[v].at \in Destination
    BY <1>2 DEF VfResult, IInv, TypeOK, Verifies
  <2>2. FileAt(loc[v].at, "result") \in Results \cup {None}
    BY <2>1 DEF FileAt, IInv, TypeOK, Files
  <2>3. l \in Locs
    BY <2>1, <2>2, LocTypes
  <2>4. /\ loc' = [loc EXCEPT ![v] = l] /\ pc' = [pc EXCEPT ![v] = "vfPatch"]
        /\ UNCHANGED <<storeVars, dest, touched, signature, mishaps>>
    BY <1>2 DEF VfResult
  <2> HIDE DEF l
  <2> QED
    BY <2>3, <2>4, MoveTypes DEF IInv, PCs
<1>3. CASE VfPatch(v)
  BY <1>3, RefuseTypes DEF VfPatch, IInv
<1> QED
  BY <1>1, <1>2, <1>3 DEF VerifyStep

(* An altered receipt is one that was complete, and keeps a bundle. *)
LEMMA AlteredReceipt ==
  ASSUME IInv, NEW d \in Destination, AlterReceipt(d)
  PROVE  \E g \in Files : /\ g.bundle # None
                          /\ dest' = [dest EXCEPT ![d] = g]
<1>1. dest[d] \in Files /\ dest[d].bundle \in Bundles
  BY DEF AlterReceipt, IInv, TypeOK, Files
<1>2. dest[d].bundle.result \in Results
  BY <1>1 DEF Bundles
<1>3. ASSUME NEW r \in Results
      PROVE  OtherResults(r) \subseteq Results \cup {None}
  BY OtherResultsType DEF IInv, TypeOK
<1>4. ASSUME NEW r \in OtherResults(dest[d].result) \cup {None}, dest[d].result # None
      PROVE  [dest[d] EXCEPT !.result = r] \in Files
  <2>1. dest[d].result \in Results
    BY <1>1, <1>4 DEF Files
  <2>2. r \in Results \cup {None}
    BY <2>1, <1>3
  <2> QED
    BY <2>2, <1>1 DEF Files
<1>5. ASSUME NEW p \in Patch \cup {None}
      PROVE  [dest[d] EXCEPT !.patch = p] \in Files
  BY <1>1 DEF Files
<1>6. ASSUME NEW r \in OtherResults(dest[d].bundle.result) \ {None}
      PROVE  /\ [dest[d] EXCEPT !.bundle = BundleOf(r)] \in Files
             /\ BundleOf(r) # None
  <2>1. BundleOf(r) \in Bundles /\ BundleOf(r) # None
    BY <1>2, <1>3, BundleOfType
  <2> QED
    BY <1>1, <2>1 DEF Files
<1>7. dest[d].bundle # None
  BY DEF AlterReceipt
<1>8. CASE \E r \in OtherResults(dest[d].result) \cup {None} :
             /\ dest[d].result # None
             /\ dest' = [dest EXCEPT ![d] = [dest[d] EXCEPT !.result = r]]
  <2>1. PICK r \in OtherResults(dest[d].result) \cup {None} :
             /\ dest[d].result # None
             /\ dest' = [dest EXCEPT ![d] = [dest[d] EXCEPT !.result = r]]
    BY <1>8
  <2>2. [dest[d] EXCEPT !.result = r].bundle = dest[d].bundle
    BY <1>1 DEF Files
  <2> QED
    BY <2>1, <2>2, <1>4, <1>7
<1>9. CASE \E p \in Patch \cup {None} :
             dest' = [dest EXCEPT ![d] = [dest[d] EXCEPT !.patch = p]]
  <2>1. PICK p \in Patch \cup {None} :
             dest' = [dest EXCEPT ![d] = [dest[d] EXCEPT !.patch = p]]
    BY <1>9
  <2>2. [dest[d] EXCEPT !.patch = p].bundle = dest[d].bundle
    BY <1>1 DEF Files
  <2> QED
    BY <2>1, <2>2, <1>5, <1>7
<1>10. CASE \E r \in OtherResults(dest[d].bundle.result) \ {None} :
              dest' = [dest EXCEPT ![d] = [dest[d] EXCEPT !.bundle = BundleOf(r)]]
  <2>1. PICK r \in OtherResults(dest[d].bundle.result) \ {None} :
              dest' = [dest EXCEPT ![d] = [dest[d] EXCEPT !.bundle = BundleOf(r)]]
    BY <1>10
  <2>2. [dest[d] EXCEPT !.bundle = BundleOf(r)].bundle = BundleOf(r)
    BY <1>1 DEF Files
  <2> QED
    BY <2>1, <2>2, <1>6
<1> QED
  BY <1>8, <1>9, <1>10 DEF AlterReceipt

(* ... and by what happens to receipts from outside. *)
LEMMA ReceiptTypes ==
  ASSUME IInv, ReceiptStep
  PROVE  TypeOK'
<1> USE ReceiptAssumption
<1>1. ASSUME NEW d \in Destination, Sign(d)
      PROVE  TypeOK'
  BY <1>1 DEF Sign, IInv, TypeOK, Files, storeVars
<1>2. ASSUME NEW d \in Destination, AlterReceipt(d)
      PROVE  TypeOK'
  <2>4. dest' \in [Destination -> Files \cup {None}]
    BY <1>2, AlteredReceipt DEF IInv, TypeOK
  <2>5. mishaps' \in 0..MaxMishap /\ touched' \in [Destination -> BOOLEAN]
    BY <1>2 DEF AlterReceipt, IInv, TypeOK
  <2> QED
    BY <1>2, <2>4, <2>5 DEF AlterReceipt, IInv, TypeOK, storeVars
<1>3. ASSUME NEW d \in Destination, Remove(d)
      PROVE  TypeOK'
  <2>1. loc' \in [Process -> Locs]
    <3>1. \A p \in Process : loc[p] \in Locs /\ [loc[p] EXCEPT !.gone = TRUE] \in Locs
      BY LocTypes DEF IInv, TypeOK
    <3> QED
      BY <1>3, <3>1 DEF Remove
  <2>2. \A x \in Exporter : loc'[x] = loc[x]
    BY <1>3 DEF Remove, Process
  <2>3. dest' = [dest EXCEPT ![d] = None] /\ touched' = [touched EXCEPT ![d] = FALSE]
        /\ UNCHANGED <<storeVars, signature, pc, mishaps>>
    BY <1>3 DEF Remove
  <2>4. dest' \in [Destination -> Files \cup {None}] /\ touched' \in [Destination -> BOOLEAN]
    BY <2>3 DEF IInv, TypeOK
  <2> QED
    BY <2>1, <2>2, <2>3, <2>4 DEF IInv, TypeOK, storeVars
<1> QED
  BY <1>1, <1>2, <1>3 DEF ReceiptStep

------------------------------------------------------------------------------
(* The seals.                                                              *)

(* A seal that is there stays, with the evidence and the requirements of its   *)
(* close; every step that is not of a close leaves all of them alone.       *)
SealsKept ==
  \A c \in Capsule :
    manifest[c].seal # None => manifest'[c] = manifest[c] /\ required'[c] = required[c]

(* Exports, verifications and what happens to receipts leave the capsules alone. *)
LEMMA OtherStepsKeepStore ==
  ASSUME (\E x \in Exporter : ExportStep(x)) \/ (\E v \in Verifier : VerifyStep(v)) \/ ReceiptStep
  PROVE  UNCHANGED storeVars
<1>1. ASSUME NEW x \in Exporter, ExportStep(x)
      PROVE  UNCHANGED storeVars
  BY <1>1 DEF ExportStep, ExShow, ExResult, ExPatch, ExTarget, ExReserve, ExMove, ExFail,
              Refuse
<1>2. ASSUME NEW v \in Verifier, VerifyStep(v)
      PROVE  UNCHANGED storeVars
  BY <1>2 DEF VerifyStep, VfBundle, VfResult, VfPatch, Refuse
<1>3. ASSUME ReceiptStep
      PROVE  UNCHANGED storeVars
  BY <1>3 DEF ReceiptStep, Sign, AlterReceipt, Remove
<1> QED
  BY <1>1, <1>2, <1>3

(* A seal that is there stays as it is, with the evidence that was required. *)
LEMMA SealsStep ==
  ASSUME IInv, [Next]_vars
  PROVE  SealsHeld' /\ SealsKept
<1> USE DEF IInv, TypeOK, SealsKept
<1>1. ASSUME UNCHANGED storeVars
      PROVE  SealsHeld' /\ SealsKept
  BY <1>1 DEF storeVars, SealsHeld
<1>2. ASSUME NEW c \in Capsule, AddEvidence(c)
      PROVE  SealsHeld' /\ SealsKept
  <2>1. PICK e \in Evidence :
          /\ e.output = e.executed
          /\ manifest' = [manifest EXCEPT ![c].evidence = @ \cup {e}]
    BY <1>2 DEF AddEvidence
  <2>2. closing = None /\ manifest[c].seal = None /\ UNCHANGED <<closing, required>>
    BY <1>2 DEF AddEvidence
  <2>3. /\ \A k \in Capsule : manifest'[k].seal = manifest[k].seal
        /\ \A k \in Capsule \ {c} : manifest'[k] = manifest[k]
        /\ manifest'[c].evidence = manifest[c].evidence \cup {e}
    BY <2>1 DEF Manifests
  <2> QED
    BY <2>1, <2>2, <2>3 DEF SealsHeld
<1>3. ASSUME NEW c \in Capsule, ClBegin(c)
      PROVE  SealsHeld' /\ SealsKept
  <2>1. PICK p \in Patch, gates \in GateSets, early \in BOOLEAN :
          /\ CloseGate(gates, manifest[c].evidence, p)
          /\ closing' = [step |-> "patch", gates |-> gates,
                         result |-> [capsule |-> c, kind |-> KindOf(p), patch |-> p,
                                     evidence |-> manifest[c].evidence, early |-> early]]
    BY <1>3 DEF ClBegin
  <2>2. UNCHANGED <<manifest, required>> /\ manifest[c].seal = None
    BY <1>3 DEF ClBegin
  <2>3. Sound(closing'.result, c, gates)
    BY <2>1 DEF Sound, SealsHeld
  <2> QED
    BY <2>1, <2>2, <2>3 DEF SealsHeld, Sound
<1>4. ASSUME NEW c \in Capsule, AlterStored(c)
      PROVE  SealsHeld' /\ SealsKept
  BY <1>4 DEF AlterStored, SealsHeld
<1>5. ASSUME ClPatch \/ ClResult
      PROVE  SealsHeld' /\ SealsKept
  <2>1. /\ closing # None /\ closing'.result = closing.result /\ closing'.gates = closing.gates
        /\ UNCHANGED <<manifest, required>>
    BY <1>5 DEF ClPatch, ClResult, ClStep
  <2> QED
    BY <2>1 DEF SealsHeld
<1>6. CASE ClManifest
  <2> DEFINE k == closing.result.capsule
  <2>1. /\ closing # None /\ closing.result \in Results /\ k \in Capsule
        /\ manifest[k].seal = None /\ closing' = None
        /\ Sound(closing.result, k, closing.gates)
    BY <1>6 DEF ClManifest, SealsHeld, Results
  <2>2. /\ \A c \in Capsule \ {k} : manifest'[c] = manifest[c] /\ required'[c] = required[c]
        /\ manifest'[k].seal = closing.result /\ manifest'[k].evidence = manifest[k].evidence
        /\ required'[k] = closing.gates
    BY <1>6, <2>1 DEF ClManifest, Manifests
  <2> HIDE DEF k
  <2> QED
    BY <2>1, <2>2 DEF SealsHeld
<1>7. CASE ClFail
  BY <1>7 DEF ClFail, SealsHeld
<1> QED
  BY <1>1, <1>2, <1>3, <1>4, <1>5, <1>6, <1>7, OtherStepsKeepStore DEF Next, vars, ReceiptStep

------------------------------------------------------------------------------
(* The exports.                                                            *)

(* An export is what it was if nobody moves its files or fills its directory. *)
LEMMA ExportsKept ==
  ASSUME IInv, SealsKept, NEW x \in Exporter,
         pc'[x] = pc[x], loc'[x] = loc[x],
         pc[x] = "exMove" => dest'[loc[x].at] = dest[loc[x].at]
  PROVE  Exports(x)'
<1>1. CASE pc[x] = "idle"
  BY <1>1 DEF IInv, Exports
<1>2. CASE pc[x] # "idle"
  <2>1. Exports(x) /\ Seal(x) # None /\ loc[x].capsule \in Capsule
    BY <1>2 DEF IInv, Exports
  <2>2. manifest'[loc[x].capsule] = manifest[loc[x].capsule] /\ Seal(x)' = Seal(x)
    BY <2>1 DEF SealsKept, Seal
  <2>3. Moved(x)' = Moved(x)
    BY <2>2 DEF Moved
  <2> HIDE DEF Seal, Moved
  <2> QED
    BY <1>2, <2>1, <2>2, <2>3 DEF Exports
<1> QED
  BY <1>1, <1>2

(* An export that has returned promises nothing any more. *)
LEMMA ReturnedExports ==
  ASSUME TypeOK, NEW x \in Exporter, Return(x)
  PROVE  Exports(x)'
BY DEF Return, Goto, Exports, TypeOK, Process

(* An export that refuses, ends or moves a file leaves the others alone.       *)
LEMMA OthersExports ==
  ASSUME IInv, SealsKept, NEW x \in Exporter, ExportStep(x), NEW y \in Exporter, y # x
  PROVE  Exports(y)'
<1> x \in Process /\ y \in Process
  BY DEF Process
<1>1. pc'[y] = pc[y] /\ loc'[y] = loc[y]
  BY DEF ExportStep, ExShow, ExResult, ExPatch, ExTarget, ExReserve, ExMove, ExFail,
         Refuse, Return, Goto, IInv, TypeOK
<1>2. ASSUME pc[y] = "exMove"
      PROVE  dest'[loc[y].at] = dest[loc[y].at]
  <2>1. dest[loc[y].at] # None /\ loc[y].at \in Destination
    BY <1>2, ExportsSealed DEF IInv, Exports
  <2>2. CASE UNCHANGED dest
    BY <2>2
  <2>3. CASE ExReserve(x)
    BY <2>1, <2>3 DEF ExReserve, Reserve, Refuse, IInv, TypeOK
  <2>4. CASE ExMove(x)
    <3>1. loc[x].at # loc[y].at
      BY <1>2, <2>4 DEF ExMove, IInv, TypeOK
    <3> QED
      BY <2>4, <3>1 DEF ExMove, IInv, TypeOK
  <2> QED
    BY <2>2, <2>3, <2>4 DEF ExportStep, ExShow, ExResult, ExPatch, ExTarget, ExFail, Refuse
<1> QED
  BY <1>1, <1>2, ExportsKept

(* The files an export moves next is one it still has.                       *)
LEMMA ToMoveNext ==
  ASSUME IInv, NEW x \in Exporter, pc[x] = "exMove"
  PROVE  LET f == ToMove(loc[x])
         IN  /\ f \in {"result", "patch", "bundle"}
             /\ loc[x][f] # None /\ dest[loc[x].at][f] = None
             /\ f = "patch" => loc[x].result = None
             /\ f = "bundle" => loc[x].result = None /\ loc[x].patch = None
<1>1. Exports(x) /\ dest[loc[x].at] = Moved(x)
  BY DEF IInv, Exports
<1>2. loc[x].bundle # None
  BY <1>1, ExportsSealed, BundleOfType DEF Exports
<1> QED
  BY <1>1, <1>2 DEF ToMove, Moved

(* An export's own steps keep what it has read in agreement with the seal. *)
LEMMA OwnExports ==
  ASSUME IInv, SealsKept, NEW x \in Exporter, ExportStep(x)
  PROVE  Exports(x)'
<1> x \in Process
  BY DEF Process
<1> USE ReceiptAssumption DEF Goto
<1>0. CASE Refuse(x)
  BY <1>0, ReturnedExports DEF Refuse, IInv
<1>0a. UNCHANGED storeVars
  BY OtherStepsKeepStore
<1>1. ASSUME NEW c \in Capsule, NEW d \in Destination, ExShow(x, c, d)
      PROVE  Exports(x)'
  <2>1. /\ loc'[x] = [NoLoc EXCEPT !.capsule = c, !.at = d, !.seal = manifest[c]]
        /\ pc'[x] = "exResult" /\ manifest[c].seal # None
        /\ manifest' = manifest
    BY <1>1, <1>0a DEF ExShow, IInv, TypeOK, storeVars
  <2> QED
    BY <2>1 DEF Exports, NoLoc, Seal
<1>2. CASE ExResult(x)
  <2>1. /\ loc'[x] = [loc[x] EXCEPT !.result = stored[loc[x].capsule].result]
        /\ pc[x] = "exResult" /\ pc'[x] = "exPatch" /\ manifest' = manifest
    BY <1>2, <1>0a DEF ExResult, IInv, TypeOK, storeVars
  <2>2. loc[x] \in Locs /\ Exports(x)
    BY <2>1 DEF IInv, TypeOK
  <2> QED
    BY <2>1, <2>2 DEF Exports, Seal, Locs
<1>3. CASE ExPatch(x) /\ ~Refuse(x)
  <2> DEFINE p == stored[loc[x].capsule].patch
  <2>1. /\ Matches(loc[x].seal, loc[x].result, p)
        /\ loc'[x] = [loc[x] EXCEPT !.patch = p, !.bundle = BundleOf(loc[x].result)]
        /\ pc[x] = "exPatch" /\ pc'[x] = "exTarget" /\ manifest' = manifest
    <3>1. /\ Matches(loc[x].seal, loc[x].result, p)
          /\ loc' = [loc EXCEPT ![x] = [loc[x] EXCEPT !.patch = p,
                                                   !.bundle = BundleOf(loc[x].result)]]
          /\ pc[x] = "exPatch" /\ pc' = [pc EXCEPT ![x] = "exTarget"]
      <4>1. loc \in [Process -> Locs] /\ x \in Process
        BY DEF IInv, TypeOK, Process
      <4>2. /\ Matches(loc[x].seal, loc[x].result, p)
            /\ loc' = [loc EXCEPT ![x].patch = p, ![x].bundle = BundleOf(loc[x].result)]
            /\ pc[x] = "exPatch" /\ pc' = [pc EXCEPT ![x] = "exTarget"]
        BY <1>3 DEF ExPatch, Goto
      <4> HIDE DEF p
      <4> QED
        BY <4>1, <4>2 DEF Locs
    <3>2. manifest' = manifest
      BY <1>0a DEF storeVars
    <3>3. loc \in [Process -> Locs] /\ pc \in [Process -> PCs] /\ x \in Process
      BY DEF IInv, TypeOK, Process
    <3> HIDE DEF p
    <3> QED
      BY <3>1, <3>2, <3>3
  <2>2. loc[x] \in Locs /\ Exports(x)
    BY <2>1 DEF IInv, TypeOK
  <2>3. loc[x].result = Seal(x) /\ p = Seal(x).patch
    BY <2>1, <2>2 DEF Matches, Exports, Seal
  <2>4. /\ loc'[x].result = loc[x].result /\ loc'[x].patch = p
        /\ loc'[x].bundle = BundleOf(loc[x].result) /\ loc'[x].capsule = loc[x].capsule
        /\ loc'[x].at = loc[x].at /\ loc'[x].seal = loc[x].seal
    BY <2>1, <2>2 DEF Locs
  <2>5. Seal(x)' = Seal(x)
    BY <2>1, <2>4 DEF Seal
  <2> HIDE DEF p, Seal
  <2> QED
    BY <2>1, <2>2, <2>3, <2>4, <2>5 DEF Exports
<1>4. CASE ExTarget(x) /\ ~Refuse(x)
  <2>1. /\ loc' = loc /\ pc[x] = "exTarget" /\ pc'[x] = "exReserve" /\ manifest' = manifest
    BY <1>4, <1>0a DEF ExTarget, IInv, TypeOK, storeVars
  <2> QED
    BY <2>1 DEF IInv, Exports, Seal
<1>5. CASE ExReserve(x) /\ ~Refuse(x)
  <2>1. /\ loc' = loc /\ pc[x] = "exReserve" /\ pc'[x] = "exMove" /\ manifest' = manifest
        /\ dest[loc[x].at] = None /\ loc[x].at \in Destination
        /\ dest'[loc[x].at] = NoFiles
    BY <1>5, <1>0a, ExportsSealed DEF ExReserve, Reserve, IInv, TypeOK, storeVars
  <2>2. Seal(x)' = Seal(x) /\ Seal(x) # None /\ Seal(x).patch # None /\ Exports(x)
    BY <2>1, ExportsSealed DEF Seal, IInv
  <2>3. Moved(x)' = NoFiles
    <3> HIDE DEF Seal
    <3> QED
      BY <2>1, <2>2 DEF Moved, NoFiles, Exports
  <2> HIDE DEF Seal, Moved
  <2> QED
    BY <2>1, <2>2, <2>3 DEF Exports
<1>6. CASE ExMove(x) /\ ~Refuse(x)
  <2> DEFINE l == loc[x]
             f == ToMove(l)
             rest == [l EXCEPT ![f] = None]
  <2>1. CASE Return(x)
    BY <2>1, ReturnedExports DEF IInv
  <2>2. CASE ~Return(x)
    <3>1. /\ pc[x] = "exMove" /\ pc'[x] = "exMove" /\ loc'[x] = rest /\ manifest' = manifest
          /\ {rest.result, rest.patch, rest.bundle} # {None}
          /\ dest'[l.at] = [dest[l.at] EXCEPT ![f] = l[f]]
      <4>1. /\ pc[x] = "exMove" /\ pc' = [pc EXCEPT ![x] = "exMove"]
            /\ loc' = [loc EXCEPT ![x] = rest]
            /\ {rest.result, rest.patch, rest.bundle} # {None}
            /\ dest' = [dest EXCEPT ![l.at] = [dest[l.at] EXCEPT ![f] = l[f]]]
        BY <1>6, <2>2 DEF ExMove
      <4>2. manifest' = manifest /\ l.at \in Destination
        BY <1>0a, <4>1, ExportsSealed DEF storeVars
      <4>3. /\ loc \in [Process -> Locs] /\ pc \in [Process -> PCs] /\ x \in Process
            /\ dest \in [Destination -> Files \cup {None}]
        BY DEF IInv, TypeOK, Process
      <4> HIDE DEF rest, f
      <4> QED
        BY <4>1, <4>2, <4>3
    <3>2. l \in Locs /\ Exports(x) /\ dest[l.at] = Moved(x) /\ Seal(x) # None /\ Seal(x).patch # None
      BY <3>1, ExportsSealed DEF IInv, Exports
    <3>3. CASE f = "result"
      <4>1. /\ rest.result = None /\ rest.patch = l.patch /\ rest.bundle = l.bundle
            /\ rest.capsule = l.capsule /\ rest.at = l.at /\ rest.seal = l.seal
            /\ l.result # None
        BY <3>1, <3>2, <3>3, ToMoveNext DEF Locs
      <4>2. Seal(x)' = Seal(x)
        BY <3>1, <4>1 DEF Seal
      <4>3. dest'[l.at] = Moved(x)'
        <5> HIDE DEF Seal
        <5> QED
          BY <3>1, <3>2, <3>3, <4>1, <4>2 DEF Moved, Exports
      <4> HIDE DEF Seal, Moved, rest, f
      <4> QED
        BY <3>1, <3>2, <4>1, <4>2, <4>3 DEF Exports
    <3>4. CASE f = "patch"
      <4>1. /\ rest.result = l.result /\ rest.patch = None /\ rest.bundle = l.bundle
            /\ rest.capsule = l.capsule /\ rest.at = l.at /\ rest.seal = l.seal
            /\ l.result = None /\ l.patch # None
        BY <3>1, <3>2, <3>4, ToMoveNext DEF Locs
      <4>2. Seal(x)' = Seal(x)
        BY <3>1, <4>1 DEF Seal
      <4>3. dest'[l.at] = Moved(x)'
        <5> HIDE DEF Seal
        <5> QED
          BY <3>1, <3>2, <3>4, <4>1, <4>2 DEF Moved, Exports
      <4> HIDE DEF Seal, Moved, rest, f
      <4> QED
        BY <3>1, <3>2, <4>1, <4>2, <4>3 DEF Exports
    <3>5. CASE f = "bundle"
      BY <3>1, <3>2, <3>5, ToMoveNext DEF Locs
    <3> QED
      BY <3>3, <3>4, <3>5, <3>1, ToMoveNext
  <2> QED
    BY <2>1, <2>2
<1> QED
  BY <1>0, <1>1, <1>2, <1>3, <1>4, <1>5, <1>6 DEF ExportStep, ExFail

(* What is done to one receipt is not done to another. *)
LEMMA OtherReceipts ==
  ASSUME TypeOK, NEW d \in Destination, Sign(d) \/ AlterReceipt(d) \/ Remove(d),
         NEW k \in Destination \ {d}
  PROVE  dest'[k] = dest[k] /\ touched'[k] = touched[k]
<1>1. CASE Sign(d)
  BY <1>1 DEF Sign
<1>2. CASE AlterReceipt(d)
  BY <1>2 DEF AlterReceipt, TypeOK
<1>3. CASE Remove(d)
  BY <1>3 DEF Remove, TypeOK
<1> QED
  BY <1>1, <1>2, <1>3

(* So does every other step. *)
LEMMA ExportsStep ==
  ASSUME IInv, [Next]_vars, NEW y \in Exporter
  PROVE  Exports(y)'
<1> y \in Process
  BY DEF Process
<1>0. SealsKept
  BY SealsStep
<1>1. ASSUME UNCHANGED <<dest, pc, loc>>
      PROVE  Exports(y)'
  BY <1>0, <1>1, ExportsKept
<1>2. ASSUME NEW x \in Exporter, ExportStep(x)
      PROVE  Exports(y)'
  BY <1>0, <1>2, OwnExports, OthersExports
<1>3. ASSUME NEW v \in Verifier, VerifyStep(v)
      PROVE  Exports(y)'
  <2>1. v # y /\ v \in Process
    BY ReceiptAssumption DEF Process
  <2>2. pc'[y] = pc[y] /\ loc'[y] = loc[y] /\ dest' = dest
    BY <1>3, <2>1 DEF VerifyStep, VfBundle, VfResult, VfPatch, Refuse, Return, Goto, IInv, TypeOK
  <2> QED
    BY <1>0, <2>2, ExportsKept
<1>4. ASSUME NEW d \in Destination, Sign(d) \/ AlterReceipt(d) \/ Remove(d)
      PROVE  Exports(y)'
  <2>1. pc' = pc /\ loc'[y] = loc[y]
    BY <1>4, ReceiptAssumption DEF Sign, AlterReceipt, Remove, Process
  <2>2. ASSUME pc[y] = "exMove"
        PROVE  dest'[loc[y].at] = dest[loc[y].at]
    <3>1. dest[loc[y].at].bundle = None
      <4>1. dest[loc[y].at] = Moved(y) /\ loc[y].at \in Destination
        BY <2>2, ExportsSealed DEF IInv, Exports
      <4> QED
        BY <4>1 DEF Moved
    <3>2. loc[y].at # d \/ dest' = dest
      <4>1. CASE Sign(d)
        BY <4>1 DEF Sign
      <4>2. CASE AlterReceipt(d)
        <5>1. dest[d].bundle # None
          BY <4>2 DEF AlterReceipt
        <5> QED
          BY <5>1, <3>1
      <4>3. CASE Remove(d)
        BY <2>2, <4>3 DEF Remove
      <4> QED
        BY <1>4, <4>1, <4>2, <4>3
    <3>3. loc[y].at \in Destination
      BY <2>2, ExportsSealed
    <3> QED
      BY <1>4, <3>2, <3>3, OtherReceipts DEF IInv
  <2> QED
    BY <1>0, <2>1, <2>2, ExportsKept
<1>5. ASSUME CloseStep
      PROVE  UNCHANGED <<dest, touched, signature, pc, loc>>
  BY <1>5 DEF CloseStep, AddEvidence, ClBegin, AlterStored, ClPatch, ClResult, ClStep, ClManifest,
              ClFail
<1> QED
  BY <1>1, <1>2, <1>3, <1>4, <1>5 DEF Next, CloseStep, vars

------------------------------------------------------------------------------
(* The receipts.                                                           *)

(* What could be published can be published ever after. *)
LEMMA StillPublished ==
  ASSUME SealsKept, NEW b \in Published
  PROVE  b \in Published'
BY DEF Published, SealsKept

(* A receipt that is left as it is stays complete. *)
LEMMA ReceiptKept ==
  ASSUME IInv, SealsKept, NEW d \in Destination,
         dest'[d] = dest[d], touched'[d] = touched[d]
  PROVE  Receipt(d)'
BY StillPublished DEF IInv, Receipt, Described

(* Every step leaves a receipt absent, incomplete, touched or whole. *)
LEMMA ReceiptStepKeeps ==
  ASSUME IInv, [Next]_vars, NEW k \in Destination
  PROVE  Receipt(k)'
<1>0. SealsKept
  BY SealsStep
<1>1. ASSUME UNCHANGED <<dest, touched>>
      PROVE  Receipt(k)'
  BY <1>0, <1>1, ReceiptKept
<1>2. ASSUME NEW x \in Exporter, ExReserve(x)
      PROVE  Receipt(k)'
  <2> DEFINE d == loc[x].at
  <2>1. d \in Destination
    BY <1>2, ExportsSealed DEF ExReserve
  <2>2. CASE UNCHANGED dest \/ k # d
    BY <1>0, <1>2, <2>1, <2>2, ReceiptKept DEF ExReserve, Refuse, IInv, TypeOK
  <2>3. CASE k = d /\ dest' # dest
    <3>1. dest[d] = None /\ dest'[d] = NoFiles /\ touched' = touched
      BY <1>2, <2>1, <2>3 DEF ExReserve, Reserve, Refuse, IInv, TypeOK
    <3> QED
      BY <2>3, <3>1 DEF Receipt, NoFiles, IInv
  <2> QED
    BY <2>2, <2>3
<1>3. ASSUME NEW x \in Exporter, ExMove(x)
      PROVE  Receipt(k)'
  <2> DEFINE l == loc[x]
             f == ToMove(l)
  <2>1. /\ pc[x] = "exMove" /\ l.at \in Destination /\ touched' = touched
        /\ dest' = [dest EXCEPT ![l.at] = [dest[l.at] EXCEPT ![f] = l[f]]]
        /\ manifest' = manifest
    BY <1>3, ExportsSealed DEF ExMove, storeVars
  <2>2. CASE k # l.at
    BY <1>0, <2>1, <2>2, ReceiptKept DEF IInv, TypeOK
  <2>3. CASE k = l.at
    <3>1. /\ Exports(x) /\ dest[k] = Moved(x) /\ ~touched[k] /\ Seal(x) \in Results
          /\ Seal(x) # None
      BY <2>1, <2>3, ExportsSealed, ReceiptAssumption DEF IInv, Exports, Receipt, Moved
    <3>2. dest'[k] = [dest[k] EXCEPT ![f] = l[f]]
      BY <2>1, <2>3 DEF IInv, TypeOK
    <3>3. CASE f = "bundle"
      <4>1. l.result = None /\ l.patch = None /\ l.bundle = BundleOf(Seal(x))
        BY <2>1, <3>1, <3>3, ToMoveNext DEF Exports
      <4>2. /\ dest'[k].bundle = BundleOf(Seal(x)) /\ dest'[k].result = Seal(x)
            /\ dest'[k].patch = Seal(x).patch
        <5> HIDE DEF Seal
        <5> QED
          BY <3>1, <3>2, <3>3, <4>1 DEF Moved
      <4>3. BundleOf(Seal(x)) \in Published'
        <5>1. loc[x].capsule \in Capsule /\ manifest'[loc[x].capsule].seal = Seal(x)
          BY <2>1, ExportsSealed DEF Seal
        <5> HIDE DEF Seal
        <5> QED
          BY <3>1, <5>1 DEF Published
      <4> HIDE DEF Seal
      <4> QED
        BY <2>1, <3>1, <4>2, <4>3, BundleOfType DEF Receipt, Described
    <3>4. CASE f # "bundle"
      <4>1. dest'[k].bundle = None
        BY <2>1, <3>1, <3>2, <3>4, ToMoveNext DEF Moved
      <4> QED
        BY <2>1, <3>1, <4>1 DEF Receipt
    <3> QED
      BY <3>3, <3>4
  <2> QED
    BY <2>2, <2>3
<1>4. ASSUME NEW d \in Destination, Sign(d) \/ AlterReceipt(d) \/ Remove(d)
      PROVE  Receipt(k)'
  <2>1. CASE k # d
    BY <1>0, <1>4, <2>1, OtherReceipts, ReceiptKept DEF IInv
  <2>2. CASE Sign(d)
    BY <1>0, <2>2, ReceiptKept DEF Sign
  <2>3. CASE k = d /\ AlterReceipt(d)
    <3>1. touched'[d] /\ dest[d] # None /\ dest[d].bundle # None
      BY <2>3 DEF AlterReceipt, IInv, TypeOK
    <3>3. dest'[d] # None /\ dest'[d].bundle # None
      <4>1. PICK g \in Files : g.bundle # None /\ dest' = [dest EXCEPT ![d] = g]
        BY <2>3, AlteredReceipt
      <4> QED
        BY <4>1, ReceiptAssumption DEF IInv, TypeOK
    <3> QED
      BY <2>3, <3>1, <3>3 DEF Receipt
  <2>4. CASE k = d /\ Remove(d)
    BY <2>4 DEF Remove, Receipt, IInv, TypeOK
  <2> QED
    BY <1>4, <2>1, <2>2, <2>3, <2>4
<1> QED
  BY <1>1, <1>2, <1>3, <1>4
     DEF Next, vars, AddEvidence, ClBegin, AlterStored, ClPatch, ClResult, ClStep, ClManifest,
         ClFail, ExportStep, ExShow, ExResult, ExPatch, ExTarget, ExFail, Refuse,
         VerifyStep, VfBundle, VfResult, VfPatch

------------------------------------------------------------------------------
(* The verifications.                                                      *)

(* A complete receipt which is not touched by this step stays what it is. *)
Steady(d) ==
  ~touched'[d] => /\ ~touched[d]
                  /\ dest[d] # None /\ dest[d].bundle # None => dest'[d] = dest[d]

(* A complete receipt nobody touches stays as it is, unless it is removed. *)
LEMMA SteadyStep ==
  ASSUME IInv, [Next]_vars, NEW k \in Destination, ~Remove(k)
  PROVE  Steady(k)
<1>1. ASSUME UNCHANGED <<dest, touched>>
      PROVE  Steady(k)
  BY <1>1 DEF Steady
<1>2. ASSUME NEW x \in Exporter, ExReserve(x)
      PROVE  Steady(k)
  BY <1>2, ExportsSealed DEF ExReserve, Reserve, Refuse, Steady, IInv, TypeOK
<1>3. ASSUME NEW x \in Exporter, ExMove(x)
      PROVE  Steady(k)
  <2>1. dest[loc[x].at].bundle = None /\ touched' = touched /\ loc[x].at \in Destination
    <3>1. dest[loc[x].at] = Moved(x) /\ touched' = touched /\ loc[x].at \in Destination
      BY <1>3, ExportsSealed DEF ExMove, IInv, Exports
    <3> QED
      BY <3>1 DEF Moved
  <2>2. k # loc[x].at => dest'[k] = dest[k]
    BY <1>3, <2>1 DEF ExMove, IInv, TypeOK
  <2> QED
    BY <2>1, <2>2 DEF Steady
<1>4. ASSUME NEW d \in Destination, Sign(d) \/ AlterReceipt(d) \/ Remove(d)
      PROVE  Steady(k)
  <2>1. CASE k # d
    BY <1>4, <2>1, OtherReceipts DEF Steady, IInv
  <2>2. CASE Sign(d)
    BY <2>2 DEF Sign, Steady
  <2>3. CASE k = d /\ AlterReceipt(d)
    <3>1. touched'[k]
      BY <2>3 DEF AlterReceipt, IInv, TypeOK
    <3> QED
      BY <3>1 DEF Steady
  <2> QED
    BY <1>4, <2>1, <2>2, <2>3
<1> QED
  BY <1>1, <1>2, <1>3, <1>4
     DEF Next, vars, AddEvidence, ClBegin, AlterStored, ClPatch, ClResult, ClStep, ClManifest,
         ClFail, ExportStep, ExShow, ExResult, ExPatch, ExTarget, ExFail, Refuse,
         VerifyStep, VfBundle, VfResult, VfPatch

(* A verification that does not move has what it had. *)
LEMMA VerifiesKept ==
  ASSUME IInv, NEW v \in Verifier, pc'[v] = pc[v], loc'[v] = loc[v],
         signature # None => signature' = signature,
         pc[v] # "idle" => Steady(loc[v].at)
  PROVE  Verifies(v)'
<1>1. CASE pc[v] = "idle"
  BY <1>1 DEF IInv, Verifies
<1>2. CASE pc[v] # "idle"
  <2> DEFINE d == loc[v].at
  <2>1. Verifies(v) /\ d \in Destination /\ loc[v].bundle \in Bundles /\ loc[v].bundle # None
    BY <1>2, ReceiptAssumption DEF IInv, Verifies
  <2>2. loc[v].key => loc[v].bundle = signature'
    BY <1>2, <2>1 DEF Verifies
  <2>3. ASSUME ~touched'[d], ~loc[v].gone
        PROVE  /\ dest'[d] # None /\ dest'[d].bundle = loc[v].bundle
               /\ pc[v] = "vfPatch" => loc[v].result = dest'[d].result
    BY <1>2, <2>1, <2>3 DEF Verifies, Steady
  <2> QED
    BY <1>2, <2>1, <2>2, <2>3 DEF Verifies
<1> QED
  BY <1>1, <1>2

(* The signature is made once. *)
LEMMA SignedOnce ==
  ASSUME [Next]_vars, signature # None
  PROVE  signature' = signature
BY DEF Next, vars, AddEvidence, ClBegin, AlterStored, ClPatch, ClResult, ClStep, ClManifest,
       ClFail, ExportStep, ExShow, ExResult, ExPatch, ExTarget, ExReserve, ExMove, ExFail, Refuse,
       VerifyStep, VfBundle, VfResult, VfPatch, Sign, AlterReceipt, Remove

(* Every step keeps what a verification has read in agreement with the receipt. *)
LEMMA VerifiesStep ==
  ASSUME IInv, [Next]_vars, NEW v \in Verifier
  PROVE  Verifies(v)'
<1> v \in Process
  BY DEF Process
<1>1. ASSUME NEW d \in Destination, Remove(d)
      PROVE  Verifies(v)'
  <2>1. CASE loc[v].at = d
    <3>1. loc'[v] = [loc[v] EXCEPT !.gone = TRUE] /\ pc' = pc /\ signature' = signature
      BY <1>1, <2>1 DEF Remove
    <3>2. loc[v] \in Locs /\ Verifies(v)
      BY DEF IInv, TypeOK
    <3>3. pc[v] # "idle"
      BY <2>1, <3>2, ReceiptAssumption DEF Verifies, NoLoc
    <3> QED
      BY <3>1, <3>2, <3>3 DEF Verifies, Locs
  <2>2. CASE loc[v].at # d
    <3>1. loc'[v] = loc[v] /\ pc' = pc /\ signature' = signature
      BY <1>1, <2>2 DEF Remove
    <3>2. ASSUME pc[v] # "idle"
          PROVE  Steady(loc[v].at)
      <4>1. loc[v].at \in Destination
        BY <3>2 DEF IInv, Verifies
      <4> QED
        BY <1>1, <2>2, <4>1, OtherReceipts DEF Steady, IInv
    <3> QED
      BY <3>1, <3>2, VerifiesKept
  <2> QED
    BY <2>1, <2>2
<1>2. ASSUME \A d \in Destination : ~Remove(d), pc'[v] = pc[v], loc'[v] = loc[v]
      PROVE  Verifies(v)'
  <2>1. ASSUME pc[v] # "idle"
        PROVE  Steady(loc[v].at)
    BY <1>2, <2>1, SteadyStep DEF IInv, Verifies
  <2> QED
    BY <1>2, <2>1, SignedOnce, VerifiesKept
<1>3. ASSUME NEW d \in Destination, VfBundle(v, d)
      PROVE  Verifies(v)'
  <2>1. PICK key \in BOOLEAN :
          /\ key => dest[d].bundle = signature
          /\ loc'[v] = [NoLoc EXCEPT !.at = d, !.bundle = dest[d].bundle, !.key = key]
    BY <1>3 DEF VfBundle, IInv, TypeOK
  <2>2. /\ dest[d] # None /\ dest[d].bundle \in Bundles /\ pc'[v] = "vfResult"
        /\ UNCHANGED <<dest, touched, signature>>
    BY <1>3 DEF VfBundle, Goto, IInv, TypeOK, Files
  <2>3. /\ loc'[v].at = d /\ loc'[v].bundle = dest[d].bundle /\ loc'[v].key = key
    BY <2>1 DEF NoLoc
  <2> QED
    BY <2>1, <2>2, <2>3 DEF Verifies
<1>4. CASE VfResult(v)
  <2>1. /\ pc[v] = "vfResult" /\ pc'[v] = "vfPatch" /\ UNCHANGED <<dest, touched, signature>>
        /\ loc'[v] = [loc[v] EXCEPT !.result = FileAt(loc[v].at, "result")]
    BY <1>4 DEF VfResult, Goto, IInv, TypeOK
  <2>2. loc[v] \in Locs /\ Verifies(v)
    BY DEF IInv, TypeOK
  <2>3. /\ loc'[v].at = loc[v].at /\ loc'[v].bundle = loc[v].bundle
        /\ loc'[v].key = loc[v].key /\ loc'[v].gone = loc[v].gone
        /\ loc'[v].result = FileAt(loc[v].at, "result")
    BY <2>1, <2>2 DEF Locs
  <2> QED
    BY <2>1, <2>2, <2>3 DEF Verifies, FileAt
<1>5. CASE VfPatch(v)
  BY <1>5 DEF VfPatch, Refuse, Return, Goto, Verifies, IInv, TypeOK
<1>6. ASSUME NEW x \in Exporter, ExportStep(x)
      PROVE  pc'[v] = pc[v] /\ loc'[v] = loc[v]
  <2>1. x # v /\ x \in Process
    BY ReceiptAssumption DEF Process
  <2> QED
    BY <1>6, <2>1
       DEF ExportStep, ExShow, ExResult, ExPatch, ExTarget, ExReserve, ExMove, ExFail,
           Refuse, Return, Goto, IInv, TypeOK
<1>7. ASSUME NEW w \in Verifier, w # v, VerifyStep(w)
      PROVE  pc'[v] = pc[v] /\ loc'[v] = loc[v]
  BY <1>7 DEF VerifyStep, VfBundle, VfResult, VfPatch, Refuse, Return, Goto, IInv, TypeOK, Process
<1>8. ASSUME CloseStep \/ UNCHANGED vars \/ \E d \in Destination : Sign(d) \/ AlterReceipt(d)
      PROVE  pc'[v] = pc[v] /\ loc'[v] = loc[v]
  BY <1>8 DEF CloseStep, AddEvidence, ClBegin, AlterStored, ClPatch, ClResult, ClStep,
              ClManifest, ClFail, vars, Sign, AlterReceipt
<1> QED
  BY <1>1, <1>2, <1>3, <1>4, <1>5, <1>6, <1>7, <1>8 DEF Next, VerifyStep, CloseStep

------------------------------------------------------------------------------
(* Together.                                                               *)

(* Every step keeps all of it. *)
LEMMA NextIInv == IInv /\ [Next]_vars => IInv'
<1> SUFFICES ASSUME IInv, [Next]_vars PROVE IInv'
  OBVIOUS
<1>1. TypeOK'
  <2>1. CASE UNCHANGED vars
    BY <2>1 DEF vars, storeVars, IInv, TypeOK
  <2> QED
    BY <2>1, CloseTypes, ExportTypes, VerifyTypes, ReceiptTypes
       DEF Next, CloseStep, ReceiptStep, IInv
<1> QED
  BY <1>1, SealsStep, ExportsStep, ReceiptStepKeeps, VerifiesStep DEF IInv

(* So all of it always holds. *)
LEMMA Inductive == Spec => []IInv
BY InitIInv, NextIInv, PTL DEF Spec

(* Every state has the declared types, and two exports never fill one         *)
(* destination, for any number of them.                                    *)
THEOREM ReceiptTypesHold == Spec => []TypeOK
BY Inductive, PTL DEF IInv

(* However many exports, closes and failures there are, a destination with    *)
(* its marker is the whole receipt of one sealed result until it is altered. *)
THEOREM CompleteIsWholeHolds == Spec => []CompleteIsWhole
<1>1. IInv => CompleteIsWhole
  BY DEF IInv, Receipt, CompleteIsWhole
<1> QED
  BY Inductive, <1>1, PTL

(* No export overwrites a file of a receipt: what is there stays until          *)
(* somebody alters or removes it.                                          *)
THEOREM NeverOverwrittenHolds == Spec => NeverOverwritten
<1> DEFINE Stays(d) == \A f \in {"result", "patch", "bundle"} :
                         dest[d][f] # None => dest'[d][f] = dest[d][f]
           Step == \A d \in Destination :
                     (dest[d] # None /\ dest'[d] # None /\ mishaps' = mishaps) => Stays(d)
<1>1. ASSUME IInv, [Next]_vars
      PROVE  Step
  <2> SUFFICES ASSUME NEW k \in Destination, dest[k] # None, dest'[k] # None, mishaps' = mishaps
               PROVE  Stays(k)
    OBVIOUS
  <2>1. CASE dest'[k] = dest[k]
    BY <2>1
  <2>2. ASSUME NEW x \in Exporter, ExReserve(x)
        PROVE  dest'[k] = dest[k]
    BY <1>1, <2>2, ExportsSealed DEF ExReserve, Reserve, Refuse, IInv, TypeOK
  <2>3. ASSUME NEW x \in Exporter, ExMove(x)
        PROVE  Stays(k)
    <3> DEFINE l == loc[x]
               g == ToMove(l)
    <3>1. /\ pc[x] = "exMove" /\ l.at \in Destination
          /\ dest' = [dest EXCEPT ![l.at] = [dest[l.at] EXCEPT ![g] = l[g]]]
      BY <1>1, <2>3, ExportsSealed DEF ExMove
    <3>2. dest[l.at][g] = None
      BY <1>1, <3>1, ToMoveNext
    <3>3. dest[k] \in Files
      BY <1>1 DEF IInv, TypeOK
    <3>4. CASE k # l.at
      BY <1>1, <3>1, <3>4 DEF IInv, TypeOK
    <3>5. CASE k = l.at
      <4>1. dest'[k] = [dest[k] EXCEPT ![g] = l[g]]
        BY <1>1, <3>1, <3>5 DEF IInv, TypeOK
      <4> HIDE DEF g
      <4> QED
        BY <3>2, <3>3, <3>5, <4>1 DEF Files
    <3> QED
      BY <3>4, <3>5
  <2>4. ASSUME NEW d \in Destination, Sign(d) \/ AlterReceipt(d) \/ Remove(d)
        PROVE  dest'[k] = dest[k]
    <3>1. CASE k # d
      BY <1>1, <2>4, <3>1, OtherReceipts DEF IInv
    <3>2. ~AlterReceipt(d)
      <4>1. mishaps \in Nat
        BY <1>1, ReceiptAssumption DEF IInv, TypeOK
      <4> QED
        BY <4>1 DEF AlterReceipt
    <3>3. CASE k = d /\ Remove(d)
      BY <1>1, <3>3 DEF Remove, IInv, TypeOK
    <3> QED
      BY <2>4, <3>1, <3>2, <3>3 DEF Sign
  <2> QED
    BY <1>1, <2>1, <2>2, <2>3, <2>4
       DEF Next, vars, AddEvidence, ClBegin, AlterStored, ClPatch, ClResult, ClStep, ClManifest,
           ClFail, ExportStep, ExShow, ExResult, ExPatch, ExTarget, ExFail, Refuse,
           VerifyStep, VfBundle, VfResult, VfPatch
<1> QED
  BY <1>1, Inductive, PTL DEF Spec, NeverOverwritten

(* What a verdict says of the contents. *)
LEMMA Verdicts ==
  ASSUME NEW b, NEW res, NEW p, NEW gates
  PROVE  /\ Verdict(b, res, p, gates) # "contents"
            => b # None /\ Described(b, res, p) /\ Consistent(b, res, p)
         /\ Verdict(b, res, p, gates) = "contents"
            => b = None \/ ~Described(b, res, p) \/ ~Consistent(b, res, p)
         /\ Verdict(b, res, p, gates) = "evidence" => ~VerifyGate(gates, res)
BY DEF Verdict

(* Bundles of a sealed result: they name the capsule it was sealed for, and     *)
(* pass every check that is made of contents but that of their times.       *)
LEMMA PublishedIsSound ==
  ASSUME IInv, NEW b \in Published
  PROVE  /\ b.capsule \in Capsule /\ b.result = manifest[b.capsule].seal
         /\ b.result \in Results /\ b.patch = b.result.patch
         /\ Sound(b.result, b.capsule, required[b.capsule])
         /\ b.result.early \/ Consistent(b, b.result, b.patch)
<1>1. PICK c \in Capsule : manifest[c].seal # None /\ b = BundleOf(manifest[c].seal)
  BY DEF Published
<1>2. manifest[c].seal \in Results /\ Sound(manifest[c].seal, c, required[c])
  BY <1>1 DEF IInv, TypeOK, Manifests, SealsHeld
<1>3. b.capsule = c /\ b.result = manifest[c].seal /\ b.patch = b.result.patch
  BY <1>1, <1>2, BundleOfType DEF Sound
<1>4. b.result.early \/ Consistent(b, b.result, b.patch)
  BY <1>2, <1>3 DEF Sound, Consistent, KindOf
<1> QED
  BY <1>1, <1>2, <1>3, <1>4

(* What is told of a verification that has come to the patch. *)
LEMMA ToldIs ==
  ASSUME NEW v, NEW why, NEW choices, NEW r \in Told(v, why, choices)
  PROVE  /\ pc[v] = "vfPatch"
         /\ \E gates \in choices :
              /\ r = Report(v, gates)
              /\ why = Verdict(r.bundle, r.result, r.patch, gates)
         /\ r.bundle = loc[v].bundle /\ r.result = loc[v].result
         /\ r.patch = FileAt(loc[v].at, "patch")
BY DEF Told, Report, Snapshot

(* A verification that passes on a bundle some export wrote reports the sealed  *)
(* result and its patch, whatever was done to the other files.              *)
THEOREM ReportedAsSealedHolds == Spec => []ReportedAsSealed
<1>1. IInv => ReportedAsSealed
  <2> SUFFICES ASSUME IInv, NEW v \in Verifier, NEW r \in Told(v, "passed", GateSets),
                      r.bundle \in Published
               PROVE  /\ r.result = manifest[r.bundle.capsule].seal
                      /\ r.patch = r.result.patch
    BY DEF ReportedAsSealed
  <2>1. Described(r.bundle, r.result, r.patch)
    BY ToldIs, Verdicts
  <2> QED
    BY <2>1, PublishedIsSound DEF Described
<1> QED
  BY Inductive, <1>1, PTL

(* An authenticated verification that passes reports what the key signed. *)
THEOREM AuthenticatedAsSignedHolds == Spec => []AuthenticatedAsSigned
<1>1. IInv => AuthenticatedAsSigned
  <2> SUFFICES ASSUME IInv, NEW v \in Verifier, NEW r \in Told(v, "passed", GateSets),
                      loc[v].key
               PROVE  r.result = signature.result /\ r.patch = signature.patch
    BY DEF AuthenticatedAsSigned
  <2>1. Described(r.bundle, r.result, r.patch) /\ pc[v] = "vfPatch" /\ r.bundle = loc[v].bundle
    BY ToldIs, Verdicts
  <2>2. loc[v].bundle = signature
    BY <2>1 DEF IInv, Verifies
  <2> QED
    BY <2>1, <2>2 DEF Described
<1> QED
  BY Inductive, <1>1, PTL

(* A receipt that nobody altered or removed, of a result that was not sealed    *)
(* before its capsule was created, is never refused for its contents.      *)
THEOREM ExportedVerifiesHolds == Spec => []ExportedVerifies
<1>1. IInv => ExportedVerifies
  <2> SUFFICES ASSUME IInv, NEW v \in Verifier, NEW r \in Told(v, "contents", GateSets),
                      ~touched[loc[v].at], ~loc[v].gone, ~r.bundle.result.early
               PROVE  FALSE
    BY DEF ExportedVerifies
  <2> DEFINE d == loc[v].at
  <2>1. /\ pc[v] = "vfPatch" /\ r.bundle = loc[v].bundle /\ r.result = loc[v].result
        /\ r.patch = FileAt(d, "patch")
        /\ (r.bundle = None \/ ~Described(r.bundle, r.result, r.patch)
            \/ ~Consistent(r.bundle, r.result, r.patch))
    BY ToldIs, Verdicts
  <2>2. /\ d \in Destination /\ dest[d] # None /\ dest[d].bundle = r.bundle
        /\ r.bundle # None /\ r.result = dest[d].result /\ r.patch = dest[d].patch
    BY <2>1, ReceiptAssumption DEF IInv, Verifies, FileAt
  <2>3. r.bundle \in Published /\ Described(r.bundle, r.result, r.patch)
    BY <2>2 DEF IInv, Receipt
  <2> QED
    BY <2>1, <2>2, <2>3, PublishedIsSound DEF Described
<1> QED
  BY Inductive, <1>1, PTL

(* What close required of the evidence can be required of the receipt: the two  *)
(* gates, written twice in the code, agree on sealed results.               *)
THEOREM GateCarriesOverHolds == Spec => []GateCarriesOver
<1>1. IInv => GateCarriesOver
  <2> SUFFICES ASSUME IInv, NEW v \in Verifier, NEW gates \in GateSets,
                      NEW r \in Told(v, "evidence", {gates}), r.bundle \in Published,
                      gates \subseteq required[r.bundle.capsule]
               PROVE  FALSE
    BY DEF GateCarriesOver
  <2>1. Described(r.bundle, r.result, r.patch) /\ ~VerifyGate(gates, r.result)
    BY ToldIs, Verdicts
  <2>2. /\ r.result = r.bundle.result
        /\ CloseGate(required[r.bundle.capsule], r.result.evidence, r.result.patch)
    BY <2>1, PublishedIsSound DEF Described, Sound
  <2>3. VerifyGate(gates, r.result)
    BY <2>2 DEF CloseGate, VerifyGate
  <2> QED
    BY <2>1, <2>3
<1> QED
  BY Inductive, <1>1, PTL
==============================================================================
