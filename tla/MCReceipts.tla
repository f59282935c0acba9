------------------------------- MODULE MCReceipts -------------------------------
(* Two patches; a run recorded before the change was made, and a record that *)
(* only an edited receipt can hold: executed, and nothing captured.        *)
EXTENDS Receipts, TLC

CONSTANTS change, nothing

MCPatch == {change, nothing}
MCEmpty == nothing

RunBefore == [patch |-> nothing, passed |-> TRUE, executed |-> TRUE, output |-> TRUE]
Upgraded == [patch |-> change, passed |-> TRUE, executed |-> TRUE, output |-> FALSE]

MCEvidence == {RunBefore, Upgraded}
MCGateSets == {{}, {"successful", "current", "executed"}}

Symmetry == Permutations(Capsule) \cup Permutations(Exporter)
==============================================================================
