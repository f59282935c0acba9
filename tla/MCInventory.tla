------------------------------ MODULE MCInventory ------------------------------
(* An ignored directory and an ignored file beside it; files are empty or of *)
(* two blocks that differ, so that what is read while one is written is none. *)
(* A patch or none, at one of two commits.                                 *)
EXTENDS Inventory, TLC

CONSTANTS build, log, a, b, kind, x, y, patch, empty, base, next, clean, dirty

MCRootOf == a :> build @@ b :> log

MCFile(u, v) == 0 :> kind @@ 1 :> u @@ 2 :> v

MCContent == {Absent, MCFile(None, None), MCFile(x, y), MCFile(y, x)}

(* The base as it was checked out, edited, and committed. *)
MCTracked ==
  {<<empty, base, clean>>, <<patch, base, dirty>>, <<patch, next, clean>>}

MCSymmetry == Permutations({x, y})
==============================================================================
