----------------------------- MODULE MCSharedRoot -----------------------------
(* Two capsules of two projects, and two processes: they record and seal,   *)
(* with sweeps in between; one of them recovers what the other leaves; one  *)
(* runs a check while the other seals; one runs a check and much goes wrong.*)
EXTENDS SharedRoot

CONSTANTS p1, p2, j1, j2

MCContent == Contents
MCProjectOf == [c \in Capsule |-> IF c = 1 THEN j1 ELSE j2]

Use(first, second, ids, c, f, h) ==
  [ops |-> [p \in Process |-> IF p = p1 THEN first ELSE second], ids |-> ids,
   calls |-> c, faults |-> f, harm |-> h]

MCUses ==
  {Use({"claim", "checkpoint"}, {"close", "sweep"}, {1}, 3, 1, 1),
   Use({"checkpoint"}, {"sweep", "recover", "list"}, {1, 2}, 2, 2, 1),
   Use({"close"}, {"run"}, {1}, 2, 0, 0),
   Use({}, {"run"}, {1}, 1, 1, 1)}
==============================================================================
