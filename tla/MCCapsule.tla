------------------------------- MODULE MCCapsule -------------------------------
(***************************************************************************)
(* Small instances of the capsule.  A commit is the list of trees (each    *)
(* with a stamp, for what else a commit hashes) from the base to itself.   *)
(***************************************************************************)
EXTENDS CapsuleProperties, Sequences

CONSTANTS
  Depth,    \* commits on top of the base
  Stamps    \* different commits with the same parent and tree

BaseCommit == <<<<"t0", 1>>>>

AllCommits ==
  {s \in UNION {[1..n -> Tree \X Stamps] : n \in 1..(Depth + 1)} :
     /\ s[1] = BaseCommit[1]
     /\ \A i \in 2..Len(s) : s[i][1] # s[i - 1][1]}

ParentMap == [c \in AllCommits |->
                IF Len(c) = 1 THEN None ELSE SubSeq(c, 1, Len(c) - 1)]
TreeMap == [c \in AllCommits |-> c[Len(c)][1]]
AncestorMap == [c \in AllCommits |-> {SubSeq(c, 1, n) : n \in 1..Len(c)}]
==============================================================================
