SPECIFICATION Spec
CONSTANTS
  None = None
  change = change
  nothing = nothing
  Patch <- MCPatch
  Empty <- MCEmpty
  Evidence <- MCEvidence
  GateSets <- MCGateSets
  Capsule = {c1, c2}
  Destination = {d1}
  Exporter = {x1, x2}
  Verifier = {v1}
  MaxAtWork = 2
  MaxMishap = 1
SYMMETRY Symmetry
INVARIANTS TypeOK CompleteIsWhole ReportedAsSealed AuthenticatedAsSigned GateCarriesOver ExportedVerifies
PROPERTIES NeverOverwritten
CHECK_DEADLOCK FALSE
