------------------------------- MODULE Objects -------------------------------
(***************************************************************************)
(* The Git object store as change-capsule sees it: commits are content     *)
(* addressed, so the set of commits, the parent and the tree of each are   *)
(* constants, and a commit "is created" by naming a member of Commit with  *)
(* the right parent and tree.  A patch is what `git diff --binary` prints  *)
(* between two trees; the pair of trees determines it and, with the        *)
(* pre-image pinned, is determined by it.                                  *)
(***************************************************************************)
EXTENDS FiniteSets

CONSTANTS
  Commit,   \* commit identifiers
  Tree,     \* contents of a whole working tree
  Base,     \* the commit the capsule is pinned to
  None,     \* an absent commit, journal, result or file
  Parent,   \* [Commit -> Commit \cup {None}]
  TreeOf,   \* [Commit -> Tree]
  Anc       \* [Commit -> SUBSET Commit], a commit and all its ancestors

MaybeCommit == Commit \cup {None}

ASSUME ObjectsAssumption ==
  /\ Base \in Commit
  /\ None \notin Commit
  /\ None \notin Tree
  /\ Parent \in [Commit -> MaybeCommit]
  /\ TreeOf \in [Commit -> Tree]
  /\ Anc \in [Commit -> SUBSET Commit]
  /\ \A c \in Commit :
       Anc[c] = {c} \cup (IF Parent[c] = None THEN {} ELSE Anc[Parent[c]])

(* A commit names its parent by the hash of what the parent is, so that no   *)
(* history runs in a circle.                                               *)
ASSUME HistoryAssumption ==
  \A c \in Commit : Parent[c] # None => c \notin Anc[Parent[c]]

Patch == Tree \X Tree

(* `git diff <commit>` of a tree, and of another commit. *)
Diff(c, t) == <<TreeOf[c], t>>
CommitDiff(c, d) == Diff(c, TreeOf[d])
Empty(p) == p[1] = p[2]

(* What `commit-tree -p parent` may return after `read-tree parent` and     *)
(* `apply --cached` of patch p: one parent, and the tree the patch yields. *)
(* Several commits qualify because author, message and time are hashed.    *)
PatchCommits(parent, p) ==
  {c \in Commit : Parent[c] = parent /\ TreeOf[c] = p[2] /\ p[1] = TreeOf[parent]}

(* `git merge --ff-only c` from head h. *)
FastForwards(h, c) == h \in Anc[c]
UpToDate(h, c) == c \in Anc[h]
==============================================================================
