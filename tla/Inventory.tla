------------------------------- MODULE Inventory -------------------------------
(***************************************************************************)
(* close_snapshot_transaction (lifecycle.rs) with the inventories of       *)
(* ignored content around it: Git lists the ignored paths, each is walked, *)
(* and each file is read block by block, while anybody writes to the       *)
(* workspace.  The close goes on if two inventories and the two looks at   *)
(* the tracked content agree.  Their own steps are Sealing's.              *)
(***************************************************************************)
EXTENDS Naturals, FiniteSets

CONSTANTS
  Root,        \* ignored paths as Git lists them, directories collapsed
  Directory,   \* those which are directories
  File,        \* what lies under them
  RootOf,      \* the listed path of each file
  Size,        \* the number of blocks of the largest file
  Block,       \* what a block can say; and what kind a file is
  Content,     \* the files there can be, Absent among them
  Parts,       \* how many parts the rest has, in the order a look reads them:
               \* the snapshot (file by file, if one likes), HEAD, cleanliness
  Value,       \* what a part can be
  Tracked,     \* what all of them can be at once
  None,
  MaxMoves     \* bound: how often the workspace changes during the close

Index == 0..Size
Part == 1..Parts

(* A file by its blocks: block 0 is its kind, None is past its end. *)
Absent == [i \in Index |-> None]

ASSUME InventoryAssumption ==
  /\ Size \in Nat /\ MaxMoves \in Nat /\ Parts \in Nat \ {0}
  /\ Directory \subseteq Root
  /\ RootOf \in [File -> Root]
  /\ None \notin Block \cup File \cup Value
  /\ Tracked \subseteq [Part -> Value]
  /\ Absent \in Content
  /\ Content \subseteq [Index -> Block \cup {None}]
  /\ \A x \in Content, i, j \in Index : i < j /\ x[i] = None => x[j] = None

VARIABLES
  data,       \* the ignored files
  tracked,    \* everything else the close looks at
  pc,         \* where the close is
  walk,       \* the inventory it takes, the first or the second
  inventory,  \* what that has so far: listed paths, and files read
  todo,       \* listed paths to visit
  queue,      \* files of the path visited, to read
  reader,     \* the file being read
  initial,    \* initial_ignored
  looks,      \* the two looks at the tracked content, part by part
  part,       \* the part that is looked at next
  sealed,     \* what close goes on with
  past,       \* history: every state of the workspace since the close began
  recurred,   \* history: some block has returned to what it was before
  reworked,   \* history: some part of the tracked content has
  moves

workVars == <<data, tracked, past, recurred, reworked, moves>>
walkVars == <<inventory, todo, queue, reader>>
lookVars == <<initial, looks, part, sealed>>
vars == <<workVars, pc, walk, walkVars, lookVars>>

NoReader == [file |-> None, held |-> Absent, linked |-> FALSE, size |-> 0,
             at |-> 0, got |-> Absent]

Unread == [paths |-> {}, files |-> [f \in File |-> Absent]]
Unseen == [p \in Part |-> None]

World == [data |-> data, tracked |-> tracked]

Init ==
  /\ data \in [File -> Content] /\ tracked \in Tracked
  /\ pc = "list" /\ walk = 1
  /\ inventory = Unread /\ todo = {} /\ queue = {} /\ reader = NoReader
  /\ initial = Unread /\ looks = <<Unseen, Unseen>> /\ part = 1 /\ sealed = None
  /\ past = {World} /\ recurred = FALSE /\ reworked = FALSE /\ moves = 0

------------------------------------------------------------------------------
(* The workspace. *)

Present(f) == data[f][0] # None

Returns(f, x) ==
  \E i \in Index : x[i] # data[f][i] /\ \E w \in past : w.data[f][i] = x[i]

Moved ==
  /\ pc \notin {"done", "refused"}
  /\ moves < MaxMoves /\ moves' = moves + 1
  /\ past' = past \cup {World'}
  /\ UNCHANGED <<pc, walk, inventory, todo, queue, lookVars>>

(* A file is written in place, which a reader that has it open sees. *)
Rewrite(f) ==
  /\ Present(f)
  /\ \E x \in Content \ {Absent, data[f]} :
       /\ data' = [data EXCEPT ![f] = x]
       /\ recurred' = (recurred \/ Returns(f, x))
       /\ reader' = IF reader.file = f /\ reader.linked THEN [reader EXCEPT !.held = x]
                    ELSE reader
  /\ UNCHANGED <<tracked, reworked>>
  /\ Moved

(* A file is created, removed, or replaced by another: a reader keeps the   *)
(* one it has open.                                                        *)
Swap(f) ==
  /\ \E x \in Content \ {data[f]} :
       /\ data' = [data EXCEPT ![f] = x]
       /\ recurred' = (recurred \/ Returns(f, x))
  /\ reader' = IF reader.file = f THEN [reader EXCEPT !.linked = FALSE] ELSE reader
  /\ UNCHANGED <<tracked, reworked>>
  /\ Moved

Restores(t) ==
  \E p \in Part : t[p] # tracked[p] /\ \E w \in past : w.tracked[p] = t[p]

(* An edit, a commit, a reset: any parts change together. *)
Work ==
  /\ \E t \in Tracked \ {tracked} :
       /\ tracked' = t
       /\ reworked' = (reworked \/ Restores(t))
  /\ UNCHANGED <<data, recurred, reader>>
  /\ Moved

------------------------------------------------------------------------------
(* ignored_content_inventory.  The order of the visits is sorted; nothing    *)
(* depends on it, so that any is taken here.                               *)
Under(r) == {f \in File : RootOf[f] = r /\ Present(f)}

Listed == {r \in Root : Under(r) # {}}

List ==
  /\ pc = "list"
  /\ inventory' = [Unread EXCEPT !.paths = Listed]
  /\ todo' = Listed
  /\ pc' = "walk"
  /\ UNCHANGED <<workVars, walk, queue, reader, lookVars>>

(* inventory_path.  A directory that is still there may have become empty;  *)
(* a file that is gone ends the close.                                     *)
Visit(r) ==
  /\ pc = "walk" /\ queue = {} /\ reader.file = None
  /\ r \in todo
  /\ r \in Directory \/ Under(r) # {}
  /\ todo' = todo \ {r}
  /\ queue' = Under(r)
  /\ UNCHANGED <<workVars, pc, walk, inventory, reader, lookVars>>

Length(x) == Cardinality({i \in Index \ {0} : x[i] # None})

Open(f) ==
  /\ pc = "walk" /\ reader.file = None
  /\ f \in queue /\ Present(f)
  /\ queue' = queue \ {f}
  /\ reader' = [file |-> f, held |-> data[f], linked |-> TRUE, size |-> Length(data[f]),
                at |-> 1, got |-> [Absent EXCEPT ![0] = data[f][0]]]
  /\ UNCHANGED <<workVars, pc, walk, inventory, todo, lookVars>>

AtEnd == reader.at \in Index => reader.held[reader.at] = None

(* Never past the length the file had when it was opened. *)
ReadBlock ==
  /\ pc = "walk" /\ reader.file # None /\ ~AtEnd
  /\ reader.at <= reader.size
  /\ reader' = [reader EXCEPT !.at = @ + 1, !.got[reader.at] = reader.held[reader.at]]
  /\ UNCHANGED <<workVars, pc, walk, inventory, todo, queue, lookVars>>

(* All of it has been read, and it still has that length. *)
CloseFile ==
  /\ pc = "walk" /\ reader.file # None /\ AtEnd
  /\ reader.at = reader.size + 1 /\ Length(reader.held) = reader.size
  /\ inventory' = [inventory EXCEPT !.files[reader.file] = reader.got]
  /\ reader' = NoReader
  /\ UNCHANGED <<workVars, pc, walk, todo, queue, lookVars>>

(* Any step can fail: a file is gone, its length has changed.  What was      *)
(* looked at goes with the call.                                           *)
Refuse ==
  /\ pc \notin {"done", "refused"}
  /\ pc' = "refused" /\ walk' = 1
  /\ inventory' = Unread /\ todo' = {} /\ queue' = {} /\ reader' = NoReader
  /\ initial' = Unread /\ looks' = <<Unseen, Unseen>> /\ part' = 1
  /\ UNCHANGED <<workVars, sealed>>

------------------------------------------------------------------------------
(* close_snapshot_transaction *)

Walked == pc = "walk" /\ todo = {} /\ queue = {} /\ reader.file = None

FirstWalked ==
  /\ Walked /\ walk = 1
  /\ initial' = inventory
  /\ pc' = "look"
  /\ UNCHANGED <<workVars, walk, walkVars, looks, part, sealed>>

(* Each part is read by a call of Git of its own, when anything can have     *)
(* changed since the last.                                                 *)
Last == part = Parts
NextPart == part' = IF Last THEN 1 ELSE part + 1

Look ==
  /\ pc = "look"
  /\ looks' = [looks EXCEPT ![1][part] = tracked[part]]
  /\ NextPart
  /\ pc' = IF Last THEN "again" ELSE "look"
  /\ UNCHANGED <<workVars, walk, walkVars, initial, sealed>>

LookAgain ==
  /\ pc = "again"
  /\ looks' = [looks EXCEPT ![2][part] = tracked[part]]
  /\ NextPart
  /\ pc' = IF Last THEN "list" ELSE "again"
  /\ walk' = IF Last THEN 2 ELSE 1
  /\ UNCHANGED <<workVars, walkVars, initial, sealed>>

(* require_stable_close_snapshot, require_stable_ignored_content *)
SamePaths == inventory.paths = initial.paths  \* mutant: the paths alone are compared
Stable == inventory = initial

Decide ==
  /\ Walked /\ walk = 2
  /\ looks[1] = looks[2] /\ Stable
  /\ sealed' = [data |-> inventory.files, tracked |-> looks[2]]
  /\ pc' = "done"
  /\ UNCHANGED <<workVars, walk, walkVars, initial, looks, part>>

------------------------------------------------------------------------------
Step ==
  \/ List \/ (\E r \in Root : Visit(r)) \/ (\E f \in File : Open(f))
  \/ ReadBlock \/ CloseFile \/ Refuse
  \/ FirstWalked \/ Look \/ LookAgain \/ Decide

Change == Work \/ \E f \in File : Rewrite(f) \/ Swap(f)

Next == Step \/ Change

Spec == Init /\ [][Next]_vars

------------------------------------------------------------------------------
Worlds == [data : [File -> Content], tracked : Tracked]
Reading == [Index -> Block \cup {None}]
Seen == [Part -> Value \cup {None}]
Inventories == [paths : SUBSET Root, files : [File -> Reading]]

TypeOK ==
  /\ World \in Worlds /\ past \subseteq Worlds
  /\ recurred \in BOOLEAN /\ reworked \in BOOLEAN /\ moves \in 0..MaxMoves
  /\ pc \in {"list", "walk", "look", "again", "done", "refused"} /\ walk \in {1, 2}
  /\ inventory \in Inventories /\ initial \in Inventories
  /\ todo \subseteq Root /\ queue \subseteq File
  /\ reader \in [file : File \cup {None}, held : Content, linked : BOOLEAN,
                 size : 0..Size, at : 0..Size + 1, got : Reading]
  /\ looks \in Seen \X Seen /\ part \in Part
  /\ sealed \in {None} \cup [data : [File -> Reading], tracked : Seen]

(* Every ignored file close seals was, to the last block, what the workspace *)
(* had at one instant of the close, unless a block left and came back to    *)
(* an earlier value while the close was looking; and the snapshot, HEAD and *)
(* cleanliness it goes on with are those of the same instant, unless one of *)
(* them came back too.  None of it was read at once.                       *)
SealedAtOneInstant ==
  sealed # None /\ ~recurred =>
    \E w \in past : /\ sealed.data = w.data
                    /\ ~reworked => sealed.tracked = w.tracked
==============================================================================
