---------------------------- MODULE InventoryProofs ----------------------------
(***************************************************************************)
(* Two equal inventories around the looks at the tracked content are one    *)
(* state of the workspace, for any number of files, blocks and changes.    *)
(***************************************************************************)
EXTENDS Inventory, TLAPS, FiniteSetTheorems

USE InventoryAssumption

(* What is still to be read of the inventory that is being taken. *)
Pending(f) == RootOf[f] \in todo \/ f \in queue \/ reader.file = f

Places ==
  /\ \A f \in queue : RootOf[f] \notin todo
  /\ reader.file # None => RootOf[reader.file] \notin todo /\ reader.file \notin queue
  /\ pc # "walk" => reader.file = None /\ queue = {}
  /\ pc \in {"walk", "list", "done"} \/ walk = 1
  /\ pc \in {"look", "again"} \/ part = 1
  /\ sealed # None => pc = "done"

(* The first look is over: w is the workspace as it was then. *)
Fixed == pc = "again" \/ walk = 2

(* A block read was there once; and from then on it is not what the first   *)
(* inventory has unless the workspace w had that.                          *)
Once(f, i, v) == \E k \in past : k.data[f][i] = v

Apart(w, f, i, v) ==
  initial.files[f][i] = w.data[f][i] \/ v # initial.files[f][i]

Sound(w, f, i, v) == Once(f, i, v) /\ (Fixed => Apart(w, f, i, v))

ReaderSound(w) ==
  reader.file # None =>
    \A i \in Index :
      /\ Sound(w, reader.file, i, reader.held[i])
      /\ i < reader.at => Sound(w, reader.file, i, reader.got[i])
      /\ i >= reader.at => reader.got[i] = None

WalkSound(w) ==
  pc = "walk" =>
    \A f \in File :
      /\ Pending(f) => inventory.files[f] = Absent
      /\ ~Pending(f) => \A i \in Index : Sound(w, f, i, inventory.files[f][i])

InitialSound ==
  pc = "look" \/ Fixed =>
    \A f \in File, i \in Index : Once(f, i, initial.files[f][i])

Collected(w) ==
  /\ w \in past
  /\ InitialSound
  /\ \A f \in File, i \in Index : Sound(w, f, i, data[f][i])
  /\ ReaderSound(w)
  /\ WalkSound(w)

(* The same of the parts of the tracked content: those the first look has    *)
(* read, and those there are or that the second look has read.             *)
FirstRead(p) == Fixed \/ (pc = "look" /\ p < part)
SecondRead(p) == walk = 2 \/ (pc = "again" /\ p < part)

ApartPart(w, p, v) == looks[1][p] = w.tracked[p] \/ v # looks[1][p]

Looked(w) ==
  /\ \A p \in Part : FirstRead(p) => \E k \in past : k.tracked[p] = looks[1][p]
  /\ Fixed /\ ~reworked =>
       \A p \in Part :
         /\ ApartPart(w, p, tracked[p])
         /\ SecondRead(p) => ApartPart(w, p, looks[2][p])

Collecting ==
  ~recurred /\ pc \notin {"done", "refused"} =>
    \E w \in past : Collected(w) /\ Looked(w)

IInv ==
  /\ TypeOK /\ Places
  /\ World \in past
  /\ Collecting
  /\ SealedAtOneInstant

------------------------------------------------------------------------------
(* A file has at most Size blocks. *)
LEMMA LengthBounded ==
  ASSUME NEW x
  PROVE  Length(x) \in 0..Size
<1> DEFINE S == {i \in Index \ {0} : x[i] # None}
<1>1. IsFiniteSet(1..Size) /\ Cardinality(1..Size) = Size
  BY FS_Interval
<1>2. S \subseteq 1..Size
  BY DEF Index
<1>3. IsFiniteSet(S) /\ Cardinality(S) <= Size
  BY <1>1, <1>2, FS_Subset
<1>4. Cardinality(S) \in Nat
  BY <1>3, FS_CardinalityType
<1> QED
  BY <1>3, <1>4 DEF Length

(* A file that is not there has no blocks. *)
LEMMA GoneIsAbsent ==
  ASSUME NEW x \in Content, x[0] = None
  PROVE  x = Absent
<1>1. x \in [Index -> Block \cup {None}] /\ 0 \in Index
  BY DEF Index
<1>2. \A i \in Index : x[i] = None
  <2> SUFFICES ASSUME NEW i \in Index, i # 0
               PROVE  x[i] = None
    OBVIOUS
  <2> QED
    BY <1>1 DEF Index
<1> QED
  BY <1>1, <1>2 DEF Absent

(* Nothing read is a reading. *)
LEMMA AbsentIn == Absent \in Reading /\ Unread \in Inventories /\ Unseen \in Seen
BY DEF Absent, Reading, Unread, Inventories, Unseen, Seen

(* Nor is the file that is not open any other kind of thing. *)
LEMMA NoReaderIn ==
  NoReader \in [file : File \cup {None}, held : Content, linked : BOOLEAN,
                size : 0..Size, at : 0..Size + 1, got : Reading]
BY AbsentIn DEF NoReader

(* The types when the close begins. *)
LEMMA InitTypes == Init => TypeOK
<1> SUFFICES ASSUME Init PROVE TypeOK
  OBVIOUS
<1> USE DEF Init
<1>1. World \in Worlds
  BY DEF World, Worlds
<1>2. moves \in 0..MaxMoves
  OBVIOUS
<1>3. looks \in Seen \X Seen /\ part \in Part
  BY AbsentIn DEF Part
<1>4. past \subseteq Worlds
  BY <1>1
<1>5. recurred \in BOOLEAN /\ reworked \in BOOLEAN
  BY Zenon
<1> QED
  BY <1>1, <1>2, <1>3, <1>4, <1>5, AbsentIn, NoReaderIn DEF TypeOK

(* A change of the workspace leaves the close where it is. *)
LEMMA MovedTypes ==
  ASSUME TypeOK, Moved, World' \in Worlds, recurred' \in BOOLEAN, reworked' \in BOOLEAN,
         reader' \in [file : File \cup {None}, held : Content, linked : BOOLEAN,
                      size : 0..Size, at : 0..Size + 1, got : Reading]
  PROVE  TypeOK'
BY DEF TypeOK, Moved, lookVars, Worlds, Inventories

(* The types, over every step of the close and every change. *)
LEMMA StepTypes ==
  ASSUME TypeOK, Places, [Next]_vars
  PROVE  TypeOK'
<1> USE DEF TypeOK, World
<1>1. ASSUME NEW f \in File, Rewrite(f)
      PROVE  TypeOK'
  <2>1. PICK x \in Content :
          /\ data' = [data EXCEPT ![f] = x]
          /\ recurred' = (recurred \/ Returns(f, x))
          /\ reader' = IF reader.file = f /\ reader.linked
                       THEN [reader EXCEPT !.held = x] ELSE reader
    BY <1>1 DEF Rewrite
  <2>2. World' \in Worlds
    BY <1>1, <2>1 DEF Rewrite, Worlds
  <2>3. recurred' \in BOOLEAN
    BY <2>1, Zenon DEF Returns
  <2> QED
    BY <1>1, <2>1, <2>2, <2>3, MovedTypes DEF Rewrite
<1>2. ASSUME NEW f \in File, Swap(f)
      PROVE  TypeOK'
  <2>1. PICK x \in Content :
          /\ data' = [data EXCEPT ![f] = x]
          /\ recurred' = (recurred \/ Returns(f, x))
    BY <1>2 DEF Swap
  <2>2. World' \in Worlds
    BY <1>2, <2>1 DEF Swap, Worlds
  <2>3. recurred' \in BOOLEAN
    BY <2>1, Zenon DEF Returns
  <2> QED
    BY <1>2, <2>2, <2>3, MovedTypes DEF Swap
<1>3. CASE Work
  <2>1. PICK t \in Tracked : tracked' = t /\ reworked' = (reworked \/ Restores(t))
    BY <1>3 DEF Work
  <2>2. World' \in Worlds
    BY <1>3, <2>1 DEF Work, Worlds
  <2>3. reworked' \in BOOLEAN
    BY <2>1, Zenon DEF Restores
  <2> QED
    BY <1>3, <2>2, <2>3, MovedTypes DEF Work
<1> USE DEF workVars, lookVars, walkVars
<1>4. CASE List
  BY <1>4, AbsentIn DEF List, Listed, Unread, Inventories
<1>5. ASSUME NEW r \in Root, Visit(r)
      PROVE  TypeOK'
  BY <1>5 DEF Visit, Under
<1>6. ASSUME NEW f \in File, Open(f)
      PROVE  TypeOK'
  <2>1. data[f] \in Content /\ data[f][0] \in Block \cup {None} /\ 0 \in Index
    BY DEF Worlds, Index
  <2>2. [Absent EXCEPT ![0] = data[f][0]] \in Reading
    BY <2>1, AbsentIn DEF Reading
  <2>3. reader' \in [file : File \cup {None}, held : Content, linked : BOOLEAN,
                     size : 0..Size, at : 0..Size + 1, got : Reading]
    BY <1>6, <2>1, <2>2, LengthBounded DEF Open
  <2> QED
    BY <1>6, <2>3 DEF Open
<1>7. CASE ReadBlock
  <2>1. reader.at \in Index /\ reader.held[reader.at] \in Block \cup {None}
    BY <1>7 DEF ReadBlock, AtEnd
  <2>2. [reader.got EXCEPT ![reader.at] = reader.held[reader.at]] \in Reading
    BY <2>1 DEF Reading
  <2>3. reader.at + 1 \in 0..Size + 1
    BY <2>1 DEF Index
  <2>4. reader' = [reader EXCEPT !.at = reader.at + 1,
                                 !.got = [reader.got EXCEPT ![reader.at] = reader.held[reader.at]]]
    BY <1>7 DEF ReadBlock
  <2>5. reader' \in [file : File \cup {None}, held : Content, linked : BOOLEAN,
                     size : 0..Size, at : 0..Size + 1, got : Reading]
    BY <2>2, <2>3, <2>4
  <2> QED
    BY <1>7, <2>5 DEF ReadBlock
<1>8. CASE CloseFile
  <2>1. inventory' \in Inventories
    BY <1>8 DEF CloseFile, Inventories
  <2> QED
    BY <1>8, <2>1, NoReaderIn DEF CloseFile
<1>9. CASE Refuse
  BY <1>9, AbsentIn, NoReaderIn DEF Refuse, Part
<1>10. CASE FirstWalked
  BY <1>10 DEF FirstWalked
<1>11. ASSUME NEW n \in 1..2
       PROVE  [looks EXCEPT ![n][part] = tracked[part]] \in Seen \X Seen
  <2>1. tracked[part] \in Value /\ looks[n] \in Seen
    BY DEF Worlds
  <2>2. [looks[n] EXCEPT ![part] = tracked[part]] \in Seen
    BY <2>1 DEF Seen
  <2> QED
    BY <2>2
<1>12. CASE Look \/ LookAgain
  <2>1. part' \in Part
    BY <1>12 DEF Look, LookAgain, NextPart, Last, Part
  <2>2. looks' \in Seen \X Seen
    BY <1>11, <1>12 DEF Look, LookAgain
  <2> QED
    BY <1>12, <2>1, <2>2 DEF Look, LookAgain
<1>13. CASE Decide
  <2>1. looks[2] \in Seen /\ inventory.files \in [File -> Reading]
    BY DEF Inventories
  <2>2. sealed' \in [data : [File -> Reading], tracked : Seen]
    BY <1>13, <2>1 DEF Decide
  <2> QED
    BY <1>13, <2>2 DEF Decide
<1>14. CASE UNCHANGED vars
  BY <1>14 DEF vars
<1> QED
  BY <1>1, <1>2, <1>3, <1>4, <1>5, <1>6, <1>7, <1>8, <1>9, <1>10, <1>12, <1>13, <1>14
  DEF Next, Step, Change

(* Where the close is. *)
LEMMA StepPlaces ==
  ASSUME TypeOK, Places, [Next]_vars
  PROVE  Places'
<1> USE DEF Places, workVars, walkVars, lookVars
<1>1. CASE Change
  BY <1>1 DEF TypeOK, Change, Rewrite, Swap, Work, Moved
<1>2. CASE List
  BY <1>2 DEF List, TypeOK
<1>3. ASSUME NEW r \in Root, Visit(r)
      PROVE  Places'
  BY <1>3 DEF Visit, Under
<1>4. ASSUME NEW f \in File, Open(f)
      PROVE  Places'
  BY <1>4 DEF Open
<1>5. CASE ReadBlock
  BY <1>5 DEF ReadBlock, TypeOK
<1>6. CASE CloseFile
  BY <1>6 DEF CloseFile, NoReader
<1>7. CASE Refuse
  BY <1>7 DEF Refuse, NoReader
<1>8. CASE FirstWalked \/ Look \/ LookAgain \/ Decide
  BY <1>8 DEF FirstWalked, Look, LookAgain, Decide, Walked, NextPart, Last, TypeOK
<1>9. CASE UNCHANGED vars
  BY <1>9 DEF vars
<1> QED
  BY <1>1, <1>2, <1>3, <1>4, <1>5, <1>6, <1>7, <1>8, <1>9 DEF Next, Step

------------------------------------------------------------------------------
(* A listed path, or a directory, without a file has none of its blocks. *)
LEMMA NothingThere ==
  ASSUME TypeOK, NEW f \in File, ~Present(f)
  PROVE  data[f] = Absent
BY GoneIsAbsent DEF TypeOK, World, Worlds, Present

(* The block a change leaves behind does not come back, so that one which   *)
(* the first inventory has, and the workspace no longer, stays away.       *)
LEMMA ChangeKeeps ==
  ASSUME TypeOK, Places, World \in past, NEW w \in past, Collected(w),
         NEW f \in File, NEW x \in Content,
         pc \notin {"done", "refused"},
         data' = [data EXCEPT ![f] = x], Moved,
         ~Returns(f, x),
         \/ reader' = reader
         \/ reader' = [reader EXCEPT !.linked = FALSE]
         \/ reader.file = f /\ reader' = [reader EXCEPT !.held = x]
  PROVE  Collected(w)'
<1> USE DEF Collected, Moved, lookVars
<1>1. past \subseteq past' /\ World' \in past' /\ (Fixed' <=> Fixed)
  BY DEF Fixed
<1>2. ASSUME NEW g, NEW i, NEW v, Once(g, i, v)
      PROVE  Once(g, i, v)'
  BY <1>1, <1>2 DEF Once
<1>3. ASSUME NEW g, NEW i, NEW v, Sound(w, g, i, v)
      PROVE  Sound(w, g, i, v)'
  BY <1>1, <1>2, <1>3 DEF Sound, Apart
<1>4. ASSUME NEW i \in Index
      PROVE  Sound(w, f, i, x[i])'
  <2>1. data'[f] = x
    BY DEF TypeOK, World, Worlds
  <2>2. Once(f, i, x[i])'
    BY <1>1, <2>1 DEF Once, World
  <2>3. ASSUME Fixed
        PROVE  Apart(w, f, i, x[i])
    <3>1. CASE x[i] = data[f][i]
      BY <2>3, <3>1 DEF Sound
    <3>2. CASE x[i] # data[f][i]
      <4>1. \A k \in past : k.data[f][i] # x[i]
        BY <3>2 DEF Returns
      <4>2. PICK k \in past : k.data[f][i] = initial.files[f][i]
        BY <2>3 DEF InitialSound, Once
      <4>3. x[i] # initial.files[f][i]
        BY <4>1, <4>2
      <4> QED
        BY <4>3 DEF Apart
    <3> QED
      BY <3>1, <3>2
  <2> QED
    BY <1>1, <2>2, <2>3 DEF Sound, Apart
<1>5. \A g \in File, i \in Index : Sound(w, g, i, data[g][i])'
  <2> TAKE g \in File, i \in Index
  <2>1. data'[g] = IF g = f THEN x ELSE data[g]
    BY DEF TypeOK, World, Worlds
  <2> QED
    BY <1>1, <1>3, <1>4, <2>1 DEF Sound, Once, Apart
<1>6. InitialSound'
  BY <1>1, <1>2 DEF InitialSound, Once
<1>7. ReaderSound(w)'
  <2>1. reader'.file = reader.file /\ reader'.at = reader.at /\ reader'.got = reader.got
    BY DEF TypeOK
  <2>2. reader'.held = reader.held \/ (reader.file = f /\ reader'.held = x)
    BY DEF TypeOK
  <2> QED
    BY <1>1, <1>3, <1>4, <2>1, <2>2 DEF ReaderSound, Sound, Once, Apart
<1>8. WalkSound(w)'
  <2>1. reader'.file = reader.file
    BY DEF TypeOK
  <2>2. \A g \in File : Pending(g)' <=> Pending(g)
    BY <2>1 DEF Pending
  <2> QED
    BY <1>1, <1>3, <2>2 DEF WalkSound, Sound, Once, Apart
<1> QED
  BY <1>1, <1>5, <1>6, <1>7, <1>8

(* Work elsewhere changes no ignored file. *)
LEMMA WorkKeeps ==
  ASSUME TypeOK, NEW w \in past, Collected(w), Work
  PROVE  Collected(w)'
<1> USE DEF Work, Moved, lookVars
<1>1. past \subseteq past' /\ (Fixed' <=> Fixed)
  BY DEF Fixed
<1>2. ASSUME NEW g, NEW i, NEW v, Sound(w, g, i, v)
      PROVE  Sound(w, g, i, v)'
  BY <1>1, <1>2 DEF Sound, Once, Apart
<1>3. InitialSound'
  BY <1>1 DEF Collected, InitialSound, Once
<1>4. \A g \in File, i \in Index : Sound(w, g, i, data[g][i])'
  BY <1>2 DEF Collected
<1>5. ReaderSound(w)'
  BY <1>1, <1>2 DEF Collected, ReaderSound, Sound, Once, Apart
<1>6. WalkSound(w)'
  BY <1>1, <1>2 DEF Collected, WalkSound, Pending, Sound, Once, Apart
<1> QED
  BY <1>1, <1>3, <1>4, <1>5, <1>6 DEF Collected

(* What the inventory takes in is what the workspace, or the file that is    *)
(* open, has to say.                                                       *)
LEMMA WalkKeeps ==
  ASSUME TypeOK, Places, NEW w \in past, Collected(w), UNCHANGED workVars,
         \/ List \/ (\E r \in Root : Visit(r)) \/ (\E f \in File : Open(f))
         \/ ReadBlock \/ CloseFile
  PROVE  Collected(w)'
<1> USE DEF workVars, lookVars
<1>1. /\ walk' = walk /\ initial' = initial
      /\ pc' = pc \/ (pc = "list" /\ pc' = "walk")
      /\ Fixed' <=> Fixed
  BY DEF List, Visit, Open, ReadBlock, CloseFile, Fixed
<1>2. \A g, i, v : Sound(w, g, i, v)' <=> Sound(w, g, i, v)
  BY <1>1 DEF Sound, Once, Apart
<1>3. InitialSound'
  BY <1>1 DEF Collected, InitialSound, Once
<1>4. \A g \in File, i \in Index : Sound(w, g, i, data[g][i])'
  BY <1>2 DEF Collected
<1>5. ASSUME NEW g \in File, ~Present(g)
      PROVE  \A i \in Index : Sound(w, g, i, Absent[i])
  BY <1>5, NothingThere DEF Collected
<1> SUFFICES ReaderSound(w)' /\ WalkSound(w)'
  BY <1>1, <1>3, <1>4 DEF Collected
<1>6. CASE List
  <2>1. reader'.file = None
    BY <1>6 DEF List, Places
  <2>2. inventory'.files = [f \in File |-> Absent] /\ todo' = Listed /\ queue' = {}
    BY <1>6 DEF List, Unread, Places
  <2>3. \A f \in File : Pending(f)' <=> RootOf[f] \in Listed
    BY <2>1, <2>2 DEF Pending
  <2>4. \A f \in File : RootOf[f] \notin Listed => ~Present(f)
    BY DEF Listed, Under
  <2>5. WalkSound(w)'
    BY <1>2, <1>5, <2>2, <2>3, <2>4 DEF WalkSound
  <2> QED
    BY <2>1, <2>5 DEF ReaderSound
<1>7. ASSUME NEW r \in Root, Visit(r)
      PROVE  ReaderSound(w)' /\ WalkSound(w)'
  <2>1. reader'.file = None /\ inventory' = inventory /\ pc' = pc /\ pc = "walk"
    BY <1>7 DEF Visit
  <2>2. \A f \in File : Pending(f)' => Pending(f)
    BY <1>7 DEF Visit, Pending, Under
  <2>3. \A f \in File : Pending(f) /\ ~Pending(f)' => ~Present(f)
    BY <1>7 DEF Visit, Pending, Under
  <2>4. WalkSound(w)'
    BY <1>2, <1>5, <2>1, <2>2, <2>3 DEF Collected, WalkSound
  <2> QED
    BY <2>1, <2>4 DEF ReaderSound
<1>8. ASSUME NEW f \in File, Open(f)
      PROVE  ReaderSound(w)' /\ WalkSound(w)'
  <2>1. inventory' = inventory /\ pc' = pc /\ todo' = todo
    BY <1>8 DEF Open
  <2>2. \A g \in File : Pending(g)' <=> Pending(g)
    BY <1>8, <2>1 DEF Open, Pending
  <2>3. WalkSound(w)'
    BY <1>2, <2>1, <2>2 DEF Collected, WalkSound
  <2>4. /\ reader'.file = f /\ reader'.held = data[f] /\ reader'.at = 1
        /\ \A i \in Index : reader'.got[i] = IF i = 0 THEN data[f][0] ELSE None
    BY <1>8 DEF Open, Absent, Index
  <2>5. ReaderSound(w)'
    BY <1>2, <2>4 DEF Collected, ReaderSound, Index
  <2> QED
    BY <2>3, <2>5
<1>9. CASE ReadBlock
  <2>1. inventory' = inventory /\ pc' = pc /\ todo' = todo /\ queue' = queue
    BY <1>9 DEF ReadBlock
  <2>2. /\ reader.file # None /\ reader'.file = reader.file /\ reader'.held = reader.held
        /\ reader.at \in Index /\ reader'.at = reader.at + 1
        /\ \A i \in Index : reader'.got[i] = IF i = reader.at THEN reader.held[i]
                                             ELSE reader.got[i]
    BY <1>9 DEF ReadBlock, AtEnd, TypeOK, Reading
  <2>3. WalkSound(w)'
    BY <1>2, <2>1, <2>2 DEF Collected, WalkSound, Pending
  <2>4. ReaderSound(w)'
    BY <1>2, <2>2 DEF Collected, ReaderSound, Index
  <2> QED
    BY <2>3, <2>4
<1>10. CASE CloseFile
  <2>1. reader'.file = None /\ pc' = pc /\ todo' = todo /\ queue' = queue /\ pc = "walk"
    BY <1>10 DEF CloseFile, NoReader
  <2>2. reader.file \in File /\ reader.held \in Content /\ reader.at \in Nat
    BY <1>10 DEF CloseFile, TypeOK
  <2>3. \A i \in Index : Sound(w, reader.file, i, reader.got[i])
    <3> SUFFICES ASSUME NEW i \in Index, i >= reader.at
                 PROVE  Sound(w, reader.file, i, reader.got[i])
      BY <1>10, <2>2 DEF Collected, ReaderSound, CloseFile, Index
    <3>1. reader.at \in Index
      BY <2>2 DEF Index
    <3>2. reader.held[i] = None
      BY <1>10, <2>2, <3>1 DEF CloseFile, AtEnd, Index
    <3>3. reader.got[i] = None /\ Sound(w, reader.file, i, reader.held[i])
      BY <1>10 DEF Collected, ReaderSound, CloseFile
    <3> QED
      BY <3>2, <3>3
  <2>4. \A f \in File : inventory'.files[f] = IF f = reader.file THEN reader.got
                                              ELSE inventory.files[f]
    BY <1>10, <2>2 DEF CloseFile, TypeOK, Inventories
  <2> PICK h \in File : h = reader.file
    BY <2>2
  <2>5. ~Pending(h)' /\ \A f \in File \ {h} : Pending(f)' <=> Pending(f)
    BY <1>10, <2>1, <2>2 DEF CloseFile, Pending, Places
  <2>6. WalkSound(w)'
    BY <1>2, <2>1, <2>3, <2>4, <2>5 DEF Collected, WalkSound
  <2> QED
    BY <2>1, <2>6 DEF ReaderSound
<1> QED
  BY <1>6, <1>7, <1>8, <1>9, <1>10

(* Between the two inventories. *)
LEMMA FirstWalkedKeeps ==
  ASSUME TypeOK, NEW w \in past, Collected(w), FirstWalked, walk = 1, pc = "walk"
  PROVE  Collected(w)'
<1> USE DEF FirstWalked, workVars, walkVars, Fixed
<1>1. \A f \in File : ~Pending(f)
  BY DEF Walked, Pending
<1>2. \A g, i, v : Sound(w, g, i, v)' <=> Sound(w, g, i, v)
  BY DEF Sound, Once
<1>3. InitialSound'
  BY <1>1 DEF Collected, WalkSound, InitialSound, Sound, Once
<1>4. \A g \in File, i \in Index : Sound(w, g, i, data[g][i])'
  BY <1>2 DEF Collected
<1>5. ReaderSound(w)' /\ WalkSound(w)'
  BY DEF Walked, ReaderSound, WalkSound
<1> QED
  BY <1>3, <1>4, <1>5 DEF Collected

(* The looks read no ignored content.  Its instant is fixed when the first   *)
(* look ends: the second inventory has not begun.                          *)
LEMMA LookKeeps ==
  ASSUME TypeOK, Places, NEW w \in past, Collected(w), Look \/ LookAgain,
         Fixed \/ ~Fixed' \/ w = World
  PROVE  Collected(w)'
<1> USE DEF Look, LookAgain, workVars, walkVars
<1>1. pc \in {"look", "again"} /\ pc' # "walk" /\ (Fixed => Fixed')
  BY DEF Fixed
<1>2. InitialSound'
  BY <1>1 DEF Collected, InitialSound, Once, Fixed
<1>3. \A g \in File, i \in Index : Sound(w, g, i, data[g][i])'
  BY <1>1 DEF Collected, Sound, Once, Apart, World
<1>4. ReaderSound(w)' /\ WalkSound(w)'
  BY <1>1 DEF Places, ReaderSound, WalkSound
<1> QED
  BY <1>2, <1>3, <1>4 DEF Collected

(* The part a change leaves behind does not come back either.              *)
LEMMA WorkLooked ==
  ASSUME TypeOK, World \in past, NEW w \in past, Looked(w), Work
  PROVE  Looked(w)'
<1> USE DEF Work, Moved, lookVars
<1>1. /\ past \subseteq past' /\ (Fixed' <=> Fixed)
      /\ \A p \in Part : (FirstRead(p)' <=> FirstRead(p)) /\ (SecondRead(p)' <=> SecondRead(p))
  BY DEF Fixed, FirstRead, SecondRead
<1>2. \A p \in Part : FirstRead(p)' => \E k \in past' : k.tracked[p] = looks'[1][p]
  BY <1>1 DEF Looked
<1>3. ASSUME Fixed, ~reworked', NEW p \in Part
      PROVE  ApartPart(w, p, tracked'[p]) /\ (SecondRead(p) => ApartPart(w, p, looks[2][p]))
  <2>1. PICK t \in Tracked : tracked' = t /\ reworked' = (reworked \/ Restores(t))
    OBVIOUS
  <2>2. ~reworked /\ ~Restores(t)
    BY <1>3, <2>1
  <2>3. PICK k \in past : k.tracked[p] = looks[1][p]
    BY <1>3 DEF Looked, FirstRead
  <2>4. t[p] = tracked[p] \/ t[p] # looks[1][p]
    BY <2>2, <2>3 DEF Restores
  <2> QED
    BY <1>3, <2>1, <2>2, <2>4 DEF Looked, ApartPart
<1> QED
  BY <1>1, <1>2, <1>3 DEF Looked, ApartPart

(* Nothing else but a look changes what the looks have read.               *)
LEMMA OthersLooked ==
  ASSUME NEW w, Looked(w), past \subseteq past', reworked => reworked',
         UNCHANGED <<tracked, looks, part, walk>>,
         \/ pc' = pc
         \/ pc \in {"list", "walk"} /\ (pc' = "walk" \/ (pc' = "look" /\ part = 1)),
         part \in Part
  PROVE  Looked(w)'
<1>1. Fixed' <=> Fixed
  BY DEF Fixed
<1>2. ASSUME NEW p \in Part
      PROVE  (FirstRead(p)' => FirstRead(p)) /\ (SecondRead(p)' => SecondRead(p))
  BY <1>1 DEF FirstRead, SecondRead, Part
<1>3. \A p \in Part : FirstRead(p)' => \E k \in past' : k.tracked[p] = looks'[1][p]
  BY <1>2 DEF Looked
<1> QED
  BY <1>1, <1>2, <1>3 DEF Looked, ApartPart

(* What a look reads is there; at the end of the first look all of it has    *)
(* been read, and none of it by the second.                                *)
LEMMA LookLooked ==
  ASSUME TypeOK, Places, World \in past, NEW w \in past, Looked(w), Look,
         ~Last \/ w = World
  PROVE  Looked(w)'
<1> USE DEF Look, workVars, NextPart
<1>1. walk = 1 /\ ~Fixed
  BY DEF Places, Fixed
<1>2. part \in Part /\ looks \in Seen \X Seen
  BY DEF TypeOK
<1>3. /\ \A p \in Part : looks'[1][p] = IF p = part THEN tracked[part] ELSE looks[1][p]
      /\ looks'[2] = looks[2]
  BY <1>2 DEF Seen
<1>4. \A p \in Part : FirstRead(p)' => FirstRead(p) \/ p = part
  BY <1>1, <1>2 DEF FirstRead, Fixed, Last, Part
<1>5. \A p \in Part : FirstRead(p)' => \E k \in past' : k.tracked[p] = looks'[1][p]
  BY <1>3, <1>4 DEF Looked, World
<1>6. ASSUME Fixed', NEW p \in Part
      PROVE  /\ ApartPart(w, p, tracked[p])'
             /\ ~SecondRead(p)'
  <2>1. Last /\ w = World /\ part' = 1
    BY <1>1, <1>6 DEF Fixed
  <2>2. w.tracked = tracked
    BY <2>1 DEF World
  <2> QED
    BY <1>1, <2>1, <2>2 DEF ApartPart, SecondRead, Part
<1> QED
  BY <1>5, <1>6 DEF Looked

(* What the second look reads is apart from the first as the workspace is. *)
LEMMA LookAgainLooked ==
  ASSUME TypeOK, Places, NEW w \in past, Looked(w), LookAgain
  PROVE  Looked(w)'
<1> USE DEF LookAgain, workVars, NextPart
<1>1. Fixed /\ Fixed' /\ walk = 1
  BY DEF Places, Fixed
<1>2. part \in Part /\ looks \in Seen \X Seen
  BY DEF TypeOK
<1>3. /\ \A p \in Part : looks'[2][p] = IF p = part THEN tracked[part] ELSE looks[2][p]
      /\ looks'[1] = looks[1]
  BY <1>2 DEF Seen
<1>4. \A p \in Part : SecondRead(p)' => SecondRead(p) \/ p = part
  BY <1>1, <1>2 DEF SecondRead, Last, Part
<1>5. \A p \in Part : FirstRead(p)' => \E k \in past' : k.tracked[p] = looks'[1][p]
  BY <1>1, <1>3 DEF Looked, FirstRead
<1> QED
  BY <1>1, <1>3, <1>4, <1>5 DEF Looked, ApartPart

(* Two inventories agree: each block is what the workspace had at that       *)
(* instant, since it is not apart from the first.                          *)
LEMMA DecideSealsData ==
  ASSUME TypeOK, NEW w \in past, Collected(w), Decide
  PROVE  sealed'.data = w.data
<1> USE DEF Decide
<1>1. /\ \A f \in File : ~Pending(f)
      /\ Fixed
  BY DEF Walked, Pending, Fixed
<1>2. w \in Worlds /\ inventory.files \in [File -> Reading]
  BY DEF TypeOK, Inventories
<1>3. ASSUME NEW f \in File, NEW i \in Index
      PROVE  inventory.files[f][i] = w.data[f][i]
  <2>1. Apart(w, f, i, inventory.files[f][i])
    BY <1>1 DEF Walked, Collected, WalkSound, Sound
  <2>2. inventory.files[f][i] = initial.files[f][i]
    BY DEF Stable
  <2> QED
    BY <2>1, <2>2 DEF Apart
<1>4. ASSUME NEW f \in File
      PROVE  inventory.files[f] = w.data[f]
  <2>1. inventory.files[f] \in [Index -> Block \cup {None}]
    BY <1>2 DEF Reading
  <2>2. w.data[f] \in [Index -> Block \cup {None}]
    BY <1>2 DEF Worlds
  <2> QED
    BY <1>3, <2>1, <2>2
<1>5. inventory.files = w.data
  BY <1>2, <1>4 DEF Worlds
<1> QED
  BY <1>5

(* Two looks agree: so is each part of the tracked content.                *)
LEMMA DecideSealsTracked ==
  ASSUME TypeOK, NEW w \in past, Looked(w), Decide, ~reworked
  PROVE  sealed'.tracked = w.tracked
<1> USE DEF Decide
<1>1. Fixed
  BY DEF Fixed
<1>2. w.tracked \in [Part -> Value] /\ looks[2] \in Seen
  BY DEF TypeOK, Worlds
<1>3. ASSUME NEW p \in Part
      PROVE  looks[2][p] = w.tracked[p]
  BY <1>1 DEF Looked, SecondRead, ApartPart
<1>4. looks[2] = w.tracked
  BY <1>2, <1>3 DEF Seen
<1> QED
  BY <1>4

------------------------------------------------------------------------------
(* The invariant when the close begins: the workspace is what it is. *)
LEMMA InitHolds == Init => IInv
<1> SUFFICES ASSUME Init PROVE IInv
  OBVIOUS
<1> USE DEF Init
<1>1. TypeOK
  BY InitTypes
<1>2. Places
  BY DEF Places, NoReader
<1>3. World \in past
  OBVIOUS
<1>4. \A f \in File, i \in Index : Sound(World, f, i, data[f][i])
  BY DEF Sound, Once, World, Fixed
<1>5. Collected(World) /\ Looked(World)
  BY <1>4 DEF Collected, InitialSound, ReaderSound, WalkSound, NoReader, Looked,
     FirstRead, Fixed
<1> QED
  BY <1>1, <1>2, <1>3, <1>5 DEF IInv, Collecting, SealedAtOneInstant

(* The invariant, over every step of the close and every change. *)
LEMMA StepHolds == IInv /\ [Next]_vars => IInv'
<1> SUFFICES ASSUME IInv, [Next]_vars PROVE IInv'
  OBVIOUS
<1> USE DEF IInv
<1>1. TypeOK' /\ Places'
  BY StepTypes, StepPlaces
<1>2. (World \in past)' /\ past \subseteq past' /\ (recurred => recurred')
      /\ (reworked => reworked')
  <2>1. CASE Change
    <3>1. Moved
      BY <2>1 DEF Change, Rewrite, Swap, Work
    <3>2. ASSUME NEW f \in File, NEW x \in Content, recurred' = (recurred \/ Returns(f, x))
          PROVE  recurred => recurred'
      BY <3>2, Zenon
    <3>3. recurred => recurred'
      BY <2>1, <3>2 DEF Change, Rewrite, Swap, Work
    <3>4. ASSUME NEW t \in Tracked, reworked' = (reworked \/ Restores(t))
          PROVE  reworked => reworked'
      BY <3>4, Zenon
    <3>5. reworked => reworked'
      BY <2>1, <3>4 DEF Change, Rewrite, Swap, Work
    <3> QED
      BY <3>1, <3>3, <3>5 DEF Moved
  <2>2. CASE Step \/ UNCHANGED vars
    BY <2>2 DEF Step, List, Visit, Open, ReadBlock, CloseFile, Refuse, FirstWalked, Look,
       LookAgain, Decide, vars, workVars, World
  <2> QED
    BY <2>1, <2>2 DEF Next
<1>3. Collecting'
  <2> SUFFICES ASSUME ~recurred', pc' \notin {"done", "refused"}
               PROVE  \E w \in past' : Collected(w)' /\ Looked(w)'
    BY DEF Collecting
  <2>1. pc \notin {"done", "refused"}
    BY DEF Next, Step, Change, List, Visit, Open, ReadBlock, CloseFile, Refuse,
       FirstWalked, Look, LookAgain, Decide, Rewrite, Swap, Work, Moved, Walked, vars
  <2>2. PICK w \in past : Collected(w) /\ Looked(w)
    BY <1>2, <2>1 DEF Collecting
  <2>3. part \in Part
    BY DEF TypeOK
  <2>4. ASSUME NEW f \in File, Rewrite(f) \/ Swap(f)
        PROVE  Collected(w)' /\ Looked(w)'
    <3>1. PICK x \in Content : data' = [data EXCEPT ![f] = x] /\ ~Returns(f, x)
                               /\ (Rewrite(f) => reader' = IF reader.file = f /\ reader.linked
                                                 THEN [reader EXCEPT !.held = x] ELSE reader)
      BY <2>4 DEF Rewrite, Swap
    <3>2. tracked' = tracked /\ Moved
      BY <2>4 DEF Rewrite, Swap
    <3>3. \/ reader' = reader
          \/ reader' = [reader EXCEPT !.linked = FALSE]
          \/ reader.file = f /\ reader' = [reader EXCEPT !.held = x]
      BY <2>4, <3>1 DEF Swap
    <3>4. Looked(w)'
      BY <1>2, <2>2, <2>3, <3>2, OthersLooked DEF Moved, lookVars
    <3> QED
      BY <2>1, <2>2, <3>1, <3>2, <3>3, <3>4, ChangeKeeps
  <2>5. CASE Work
    BY <1>2, <2>2, <2>5, WorkKeeps, WorkLooked
  <2>6. CASE \/ List \/ (\E r \in Root : Visit(r)) \/ (\E f \in File : Open(f))
             \/ ReadBlock \/ CloseFile
    <3>1. UNCHANGED workVars
      BY <2>6 DEF List, Visit, Open, ReadBlock, CloseFile
    <3>2. /\ UNCHANGED <<tracked, looks, part, walk>>
          /\ pc' = pc \/ (pc = "list" /\ pc' = "walk")
      BY <2>6, <3>1 DEF List, Visit, Open, ReadBlock, CloseFile, workVars, lookVars
    <3>3. Looked(w)'
      BY <1>2, <2>2, <2>3, <3>2, OthersLooked
    <3> QED
      BY <1>2, <2>2, <2>6, <3>1, <3>3, WalkKeeps
  <2>7. CASE FirstWalked
    <3>1. UNCHANGED <<tracked, looks, part, walk>> /\ part = 1 /\ pc = "walk"
          /\ pc' = "look"
      BY <2>7 DEF FirstWalked, Walked, workVars, Places
    <3>2. Looked(w)'
      BY <1>2, <2>2, <2>3, <3>1, OthersLooked
    <3> QED
      BY <1>2, <2>2, <2>7, <3>2, FirstWalkedKeeps DEF FirstWalked, Walked
  <2>8. CASE Look /\ ~Last
    <3>1. ~Fixed'
      BY <2>8 DEF Look, Fixed, Places
    <3> QED
      BY <1>2, <2>2, <2>8, <3>1, LookKeeps, LookLooked
  <2>9. CASE Look /\ Last
    <3> PICK k \in past : k = World
      OBVIOUS
    <3>1. Collected(k) /\ Looked(k)
      <4>1. ~Fixed
        BY <2>9 DEF Look, Fixed, Places
      <4>2. \A g \in File, i \in Index : Sound(k, g, i, data[g][i])
        BY <2>2, <4>1 DEF Collected, Sound
      <4>3. ReaderSound(k) /\ WalkSound(k)
        BY <2>9 DEF Look, Places, ReaderSound, WalkSound
      <4> QED
        BY <2>2, <4>1, <4>2, <4>3 DEF Collected, Looked
    <3>2. Collected(k)' /\ Looked(k)'
      BY <2>9, <3>1, LookKeeps, LookLooked
    <3> QED
      BY <1>2, <3>2
  <2>10. CASE LookAgain
    <3>1. Fixed
      BY <2>10 DEF LookAgain, Fixed
    <3> QED
      BY <1>2, <2>2, <2>10, <3>1, LookKeeps, LookAgainLooked
  <2>11. CASE Refuse \/ Decide
    BY <2>11 DEF Refuse, Decide
  <2>12. CASE UNCHANGED vars
    <3>1. Collected(w)'
      BY <2>2, <2>12 DEF vars, workVars, walkVars, lookVars, Collected, InitialSound,
         ReaderSound, WalkSound, Pending, Sound, Once, Apart, Fixed
    <3>2. Looked(w)'
      BY <1>2, <2>2, <2>3, <2>12, OthersLooked DEF vars, workVars, lookVars
    <3> QED
      BY <1>2, <2>12, <3>1, <3>2
  <2> QED
    BY <1>2, <2>2, <2>4, <2>5, <2>6, <2>7, <2>8, <2>9, <2>10, <2>11, <2>12
    DEF Next, Step, Change
<1>4. SealedAtOneInstant'
  <2>1. CASE Decide /\ ~recurred
    <3>1. PICK w \in past : Collected(w) /\ Looked(w)
      BY <2>1 DEF Collecting, Decide, Walked
    <3>2. w \in past' /\ sealed'.data = w.data
      BY <1>2, <2>1, <3>1, DecideSealsData
    <3>3. ~reworked' => sealed'.tracked = w.tracked
      BY <1>2, <2>1, <3>1, DecideSealsTracked
    <3> QED
      BY <3>2, <3>3 DEF SealedAtOneInstant
  <2>2. CASE Decide /\ recurred
    BY <1>2, <2>2 DEF SealedAtOneInstant
  <2>3. CASE sealed' = sealed
    BY <1>2, <2>3 DEF SealedAtOneInstant
  <2>4. Decide \/ sealed' = sealed
    BY DEF Next, Step, Change, List, Visit, Open, ReadBlock, CloseFile, Refuse,
       FirstWalked, Look, LookAgain, Rewrite, Swap, Work, Moved, vars, lookVars
  <2> QED
    BY <2>1, <2>2, <2>3, <2>4
<1> QED
  BY <1>1, <1>2, <1>3, <1>4

(* Types, for any workspace and any number of changes. *)
THEOREM InventoryTypes == Spec => []TypeOK
<1>1. IInv => TypeOK
  BY DEF IInv
<1> QED
  BY InitHolds, StepHolds, <1>1, PTL DEF Spec

(* What close seals was the workspace at one instant, whatever is written   *)
(* while it looks, unless a block comes back to what it was.               *)
THEOREM SealedAsItWas == Spec => []SealedAtOneInstant
<1>1. IInv => SealedAtOneInstant
  BY DEF IInv
<1> QED
  BY InitHolds, StepHolds, <1>1, PTL DEF Spec
==============================================================================
