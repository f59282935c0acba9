# A TLA+ model of change-capsule

change-capsule isolates a piece of work (usually an agent's) in a Git worktree
of its own, records checkpoints and check evidence about it, seals the finished
change as a patch, integrates it into a target worktree by fast-forward, and
exports a receipt that somebody else can verify. Everything it knows about one
capsule is one JSON manifest, replaced atomically; everything it does to Git is
journaled in that manifest first, so that another process can finish or undo it
after a crash. This directory holds TLA+ modules of that machinery, the TLC
configurations that check them on small instances, and TLAPS proofs.

Paths below are relative to the repository (`src/` is its crate).

## 1. Inventory

| part | code | state it keeps | operations |
|---|---|---|---|
| Git objects and snapshots | `src/git.rs` | the object database, refs, worktree registrations, index and files of a worktree | diff, prepared commits, compare-and-swap of refs, fast-forward merge, reset, worktree add/remove/prune |
| Capsule manifest | `src/model.rs`, `src/state.rs` | `capsule.json`: lifecycle state, recorded checkpoints and evidence, three transition journals, the pinned result | read with validation, write without it |
| Creation | `src/manager/create.rs` | the manifest in `creating`, branch, worktree | create, resume or abandon a half-made capsule |
| Checkpoint | `src/manager/lifecycle.rs`, `recover.rs` | `checkpoint_journal`, the pending ref | checkpoint, its recovery |
| Evidence and sealing | `src/manager/lifecycle.rs`, `query.rs`, `mod.rs` | evidence records, `result.patch`, `result.json`, the result in the manifest | add_evidence (recorded and executed), close with its gates |
| Integration | `src/manager/lifecycle.rs`, `recover.rs` | `integration` journal, the integration ref, the target's branch | integrate, completion or rollback by recovery |
| Cleanup | `src/manager/lifecycle.rs`, `recover.rs` | `cleanup` journal | drop, its recovery |
| Recovery | `src/manager/recover.rs` | none of its own | recover one capsule or all |
| Idempotent creation | `src/idempotency.rs`, `create.rs` | one reservation record per key digest, the capsule's directory | create_idempotent, lookup |
| Receipts | `src/manager/artifacts.rs`, `src/artifact.rs`, `src/verify.rs`, `src/signature.rs` | the destination directory with `result.patch`, `result.json`, `bundle.json`; a detached signature | export, sign, verify |
| State store | `src/state.rs` | lock files, temporary files, what of a file has reached the disk | lock, write atomically, list |
| Check execution | `src/exec.rs` | the child process, its pipes, the captured output, two reader threads | run a command, with a deadline or without |
| Queries, attestation, command line | `query.rs`, `attestation.rs`, `main.rs`, ... | none | read and format |

**Interaction.** Every operation that writes shows the capsule first, to
learn its project, then takes the global state lock and after it the project's
lock (both exclusive, both waiting), then reads the manifest again: what it
did before taking the locks is discarded or re-checked. `list` takes the global
lock only. A sweep of `recover` holds the global lock throughout and takes the
lock of one project after the other. So at most one operation works on a
capsule at a time, and a crash is an operation that ends early with nothing but
its writes left; after a power loss some of those may be missing, too. Three parties take no lock:
the agent in the workspace (it edits, commits, rewinds, detaches; the directory
can be moved or replaced), the owner of the integration target (commits,
resets, switches branches), and readers: lookup, export and verification. The
command of an executed check runs with no lock held either. The parts
communicate through the file system and Git only: journals in the manifest,
refs that keep commits alive, artifacts whose digests the manifest pins.

**What is hard**, with the properties that answer it (the list with source
lines is `hazards` in `PROJECT.json`):

- a crash between journal, ref, branch update, index reset and final write
  (checkpoint, integrate, drop, create, export);
- state observed before the operation took the locks, or observed by several
  Git calls while the agent goes on working (close, checkpoint, cleanup);
- a close that reads the ignored files block by block while they are written;
- recovery that itself crashes and is run again;
- one recovery path that depends on a ref another one deletes;
- retries of a create whose first attempt may or may not have happened, with a
  base selector that moves;
- lock-free readers of directories that are being published file by file;
- a power loss between a rename and the synchronisation of its directory, and
  artifacts that must reach the disk before the manifest that names them;
- several processes on one state root: a copy read before the locks, two locks,
  a sweep that meets a capsule it cannot recover;
- a command that hangs, fills a pipe, writes more than the bound, or leaves a
  process behind that still holds its pipes;
- a manifest near its size limit, which a transition writes twice.

**What makes each part correct.**

- *Manifest*: whatever is written can be read back (`ManifestReadable`), and it
  moves only along the documented lifecycle (`ImplementsLifecycle`).
- *Creation*: an active capsule starts at its base (`BornAtBase`); resuming
  throws nothing away (`ResumedCreationKeepsWork`); it settles (`CreationSettles`).
- *Checkpoint*: the branch moves only after the journal (`CheckpointJournaledFirst`)
  and only forward (`BranchOnlyAdvances`); the commit stays reachable
  (`CheckpointProtected`); the index follows (`IndexCaughtUp`); `CheckpointSettles`.
- *Sealing*: the files named are there (`SealOnDisk`), the patch is one real
  state of the worktree (`SealNotTorn`), gates mean something (`ExecutedGateHolds`),
  and the ignored files are those of one instant of the workspace, with patch,
  HEAD and cleanliness of the same instant if none of these came back to an
  earlier value (`SealedAtOneInstant`).
- *Integration*: the target only gets journaled, protected commits that are the
  sealed patch on the base (`IntegrationJournaledFirst`); the journal is closed
  as what happened (`IntegrationSettledTruthfully`).
- *Cleanup*: no work that the seal does not contain is removed unforced
  (`UnsealedWorkKept`), no foreign directory (`CleanupRefusesForeign`), nothing
  is left (`DroppedLeavesNothing`), it settles (`CleanupSettles`).
- *Idempotent creation*: `OneCapsulePerKey`, `ReservedFirst`,
  `ReservedMeansNotReturned`, `RetryResumesUnlessLittered`.
- *State store*: what a caller was told is recorded stays recorded
  (`AcknowledgedIsDurable`), a closed manifest never survives without its result
  (`SealSurvives`), and nobody waits for ever on a lock (`OperationsEnd`).
- *Check execution*: output that is digested is complete (`CaptureComplete`),
  and a run ends (`OperationsEnd`).
- *Recovery sweep*: it settles what nothing obstructs (`SweepSettles`).
- *Manifest size*: what is begun can be recorded (`SideEffectsRecordable`,
  which integration breaks; proved for checkpoint and cleanup).
- *Receipts*: `CompleteIsWhole`, `NeverOverwritten`, `ReportedAsSealed`,
  `AuthenticatedAsSigned`, `GateCarriesOver`, `ExportedVerifies`.

## 2. Modules

    Objects <- Manifest <- World <- Environment, Creation, Checkpoint, Sealing
    Sealing <- Integration, Cleanup
    Environment, Creation, Checkpoint, Integration, Cleanup <- Capsule
    Capsule <- CapsuleProperties (INSTANCE Lifecycle) <- MCCapsule, CapsuleProofs
    CapsuleProofs <- WorkspaceProofs <- SealingProofs
    Reservations <- ReservationProofs
    Receipts <- MCReceipts, ReceiptsProofs
    StateStore, Exec <- SharedRoot <- MCSharedRoot, SharedRootProofs
    Capacity <- CapacityProofs
    Inventory <- MCInventory, InventoryProofs

`<-` reads "is extended by". `map` in `PROJECT.json` gives the source lines of
every definition.

**Objects** is Git's object database as constants. Commits are content
addressed, so the set of commits with their parents, trees and ancestors is
fixed, and to create one is to name a member. Several commits may have the same
parent and tree, for what else a commit hashes. A patch is the pair of trees
between which it leads. **Manifest** is `capsule.json` and the rules that
`validate_capsule_manifest` enforces on its journals (`Readable`).

**World** declares the state of one capsule and the frame of an operation:
`man` is the manifest on disk, `cap` the copy the operation under the locks
holds, `pc` and `loc` its place and locals. `branch`, `ckRef` and `inRef` are
refs; `path`, `reg`, `attached`, `tree`, `stale` the workspace, its registration
and index; `disk` the two artifacts; `tip`, `cur`, `dirty` the target. `Begin`
takes the locks and reads the manifest, `Fail` is an error return, `Crash` is
the same seen from outside: the copy and the locals are lost, the writes stay.
Taking the locks and reading, and a validation with the read it guards, are one
step; every write, every ref update and every Git command that changes
something is a step of its own. Reads that the agent can come between are
separate too (the two observations of close, the steps of a checkpoint).

**Environment** is everybody who takes no lock. Each configuration chooses the
moves it needs (`AgentMoves`, `UserMoves`). While no operation is in progress
they are unlimited; during one operation at most `MaxStir` happen (`stir`
counts). `Settle` turns on `calm`: from then on no crash and no outside move.

**Creation**, **Checkpoint**, **Sealing**, **Integration** and **Cleanup** have
one action per durable step of the operation of that name, named with a prefix
(`Cr`, `Ck`, `Ev` and `Cl`, `In`, `Dr` and `Cu`; `Ri` recovers an integration);
the continuation that `recover` uses after a crash shares its steps with the
operation wherever the code does. **Capsule** adds the dispatch of
`recover_capsule_locked`, the examination of an active capsule, and the whole
next-state relation. **Lifecycle** is the abstract specification: the lifecycle
graph of `docs/architecture.md`, records that only grow and only before the
seal, a seal made once. `CapsuleProperties!ImplementsLifecycle` is its image
under the mapping phase = `man.state`, seal = `man.result`.

**Reservations** is `create_idempotent` and lookup: one record per key digest,
the capsule's directory as it passes from nothing over made, private and staged
to published, and its manifest; callers are processes that take the locks in
turn; lookups read without them. Git's part of a creation is one step here.
Keys interact only through fresh ids and the locks.

**Receipts** is export, signing and verification, with as much of close as they
can observe: its two artifact writes and the manifest write, each a step, under
the global lock (`closing`). A close takes its time from the wall clock, which
may have been set back before the creation: the result it writes is then
`early` (a choice of `ClBegin` that counts as a mishap), and the verifier
refuses it. An exporter reads manifest, result and patch, then
stages, reserves the destination and renames file by file, `bundle.json` last;
a verifier reads bundle, result and patch one after the other, with a signature
check on the bundle it has read. What it tells is `Report`, a function of the
state in which it reads the patch, for each choice of requirements. `required` and `touched` are history variables
for the properties. Destinations can be removed and altered by others. The
destination is removed only while no export is filling it: otherwise the
export's later renames land in whatever stands there next, which is the doing
of the one who removed it and which a verification reports.

**StateStore** is the disk and the locks. For each file, `now` is what a process
reads and `kept` the set of contents that a power loss may leave: `Rename` adds
the new content to both (and `Torn`, a file without its data, if the temporary
file was not synced), `SyncDirectory` takes the old one out of `kept`,
`PowerLoss` chooses. `temp` is how far a process is with the file it replaces.
**Exec** is `exec::run`: the child and what it leaves behind write to two
pipes of bounded size, a reader thread per pipe keeps one byte more than the
bound and drains the rest, the caller polls against a deadline or just waits,
kills, and joins the readers.

**SharedRoot** puts both under several processes. An operation shows the
manifest, locks, reads it again, and replaces files; `mem` is its copy. A
manifest is reduced to its phase and to who has added a record to it. What
differs between operations is only what the locks and the disk can see of them:
`claim` is add_evidence of a recorded claim, `run` of an executed check, with
the execution before any lock; `checkpoint` stands for every transition that
writes a journal first and the completed manifest after; `close` writes its
result and then its manifest (the patch goes the way of the result before it,
and is not told apart from it); `recover` and `sweep` reconcile one capsule or
all, in the order of their identifiers; `list` reads. A process can die or have
a write fail at any point (`Fail`), the machine can lose power (`Blackout`), a
manifest can be damaged or of a newer schema (`bad`) and a worktree can
disappear (`lost`). `acked` is a history variable: the last manifest whose write
returned. The code performs the writes of one `write_bytes_atomic` in the order
`Prepare`, `Replace`, and one of `HalfWritten`, `Recorded`, `Reconciled`, which
synchronise the directory and return.

**Capacity** is the manifest as a number of bytes per part, with every
transition that writes it. The costs of names, journals and times are the real
ones of the pretty-printed JSON, for object ids of 40 digits and times of 10;
the sizes of free text are constants, as is the cap. It tells nothing else
apart: no crash is needed, since an operation whose second write is refused and
a recovery that tries the same write again are the same.

**Inventory** is `close_snapshot_transaction` with the two inventories of
ignored content around its two looks at everything else. Git lists the ignored
paths with directories collapsed, each is walked, and each file under it is
opened and read block by block, never past the length it had when it was
opened. A file is a sequence of blocks, of which the first is its kind; a
symbolic link is a file with one more block. The digest is the record of what
was read. Anybody may change the workspace between two steps: `Rewrite`
writes a file in place, which a reader that has it open sees (`held`); `Swap`
creates, removes or replaces it, and a reader keeps the file it has open;
`Work` changes any parts of the tracked content together, as a commit or a reset
does. That content is a tuple of `Parts` values, and a look (`Look`,
`LookAgain`) reads one part in a step, in the order of the calls of Git: the
snapshot, HEAD, cleanliness. The values mean nothing here; how they hang
together is in *Sealing*. Each call is one step: that `git add -A` reads
a snapshot file by file is covered by giving it more parts, that `git status`
reads many files for its one answer is not. The code visits entries in sorted
order, the model in any, so the result does not depend on it. `past` (every
state of the workspace since the close began), `recurred` (some block has
returned to an earlier value) and `reworked` (some part of the tracked content
has) are history variables for `SealedAtOneInstant`.

## 3. Runs

Bounds are the configuration's constants. A commit in `MCCapsule` is the list
of (tree, stamp) pairs from the base, at most `Depth` on top of it.

| run | module, cfg | instance | what it shows |
|---|---|---|---|
| whole | MCCapsule, MCWhole | 2 trees, 1 commit on the base, 1 checkpoint; from before the create; between operations the agent edits, commits and rewinds, directories are moved or pruned, a protecting ref is deleted by hand, the target is committed to, artifacts are tampered with; fairness | all operations together with crashes anywhere: the manifest stays readable and on the lifecycle, creation and cleanup lose nothing; once faults stop, every journal is ended by recovery |
| seal | MCCapsule, MCSeal | 2 trees, depth 2, 1 move during an operation (edit, commit, detach), 2 checkpoints, 1 evidence record | checkpoint and close interrupted and recovered against edits, commits and a detached HEAD; executed evidence |
| integrate | MCCapsule, MCIntegrate | 3 trees, 2 stamps, 2 target branches, 1 move | integration against a target that is committed to, rewound, switched and edited |
| reserve | Reservations, MCReserve | 2 callers, 1 key, 2 selectors, 2 labels, 2 commits, 2 ids; fairness | one capsule per key through crashes, retries and a moving base |
| receipts | MCReceipts, MCReceipts | 2 exporters and 1 verifier, of which 2 are at work at once; 2 capsules, 1 destination, 1 mishap | a complete destination is whole and never overwritten; what passes is what was sealed and signed; what nobody touched passes, unless the clock was set back |
| store | MCSharedRoot, MCSharedRoot | 2 processes, 2 capsules of 2 projects, 4 uses (`MCUses`) with at most 3 calls, 2 faults, 1 harm; output bound 1, pipe 1, output 2; fairness | no record or seal is lost to another process, a crash or a power loss; captured output is complete; nobody waits for ever; a sweep settles what is not obstructed |
| inventory | MCInventory, MCInventory | an ignored directory and an ignored file beside it, empty files and 2 files of 2 blocks, 3 states of patch, HEAD and cleanliness, 2 changes; symmetry of the values; its types are proved | the ignored files that close goes on with are those of one instant; patch, HEAD and cleanliness too if none of them came back |
| rollback, executed, strand, wedge, capacity | violations | smallest instance that shows the point | section 6 |

**Why the bounds are enough for the questions.** One capsule in `MCCapsule`:
operations of different capsules share only locks and the target. Two trees
give an empty and a non-empty change, and a tree that two commits of one chain
share; the three of `MCIntegrate` add an unrelated change. Depth 2 gives a checkpoint on a checkpoint; a
commit on the base is something to rewind. Two stamps give a commit that equals the prepared one in
everything but its id. Two target branches let the target be somewhere else
than journaled. Crashes are unlimited. In `MCReserve` one key is enough since
calls with different keys meet only at the locks and at fresh ids; two ids are
there for a second identity to be handed out wrongly. In `Receipts` two
capsules and two patches are enough to mix files of different receipts, the races
are between two exports or between one and a verification, and
the mishap is a close that fails between its writes, one alteration, or a clock that
was set back before the capsule is closed.
In `MCSharedRoot` two processes suffice to lose an update or to wait on each
other, and two capsules of different projects to have two locks and a sweep that
stops before the second. The four uses keep apart what need not be multiplied:
records, seals and sweeps of one capsule with a fault; checkpoints of two that
are swept, recovered and listed with two faults (a crash that leaves a pending
checkpoint, and a power loss of its recovery); an executed check against a
close without faults; an executed check with everything that can happen to it.
An output of two bytes against a bound and a pipe of one makes every case of
`exec.rs`: the bound met exactly by one stream, exceeded by one stream, exceeded
by both together, and a writer that blocks. The theorems hold for all of these
numbers; only the liveness properties depend on the instance. `MCCapacity` has
two sizes of each text, so that the cap is missed and met by a few bytes.
In `MCInventory` two blocks, always different, make a file that can be torn into
one that nobody wrote, two files one that is read while the other is written,
and two changes a mixture that a single inventory would take: one file read before the first change, the other after the
second. The antecedent `~recurred` is about longer histories: without it TLC
finds a mixture that both inventories see, with files of one block, from four
changes on and not before; such a pair of inventories is what no double look can tell
from one state. The antecedent `~reworked` is needed at once: without it TLC finds, with
two changes, a workspace that is edited at the base, committed between HEAD and
cleanliness of the first look, and reset to the base between snapshot and HEAD
of the second. Both looks then tell of the patch on the base in a clean
workspace, which never was: HEAD has come back. Cleanliness has two values only,
so a second change of it is a return. What can be wrong then is in
*Sealing*, where `SealNotTorn` bounds the interferences; the ignored files are
of one instant all the same. The theorem holds for any number of all these.

**MaxStir matters and is stated, not hidden.** Some properties are about
optimistic reads and hold for a limited number of moves racing one operation.
`SealNotTorn` is proved for up to two and fails with three: close asks twice
whether the workspace is clean, and an edit made before each question and undone
in between is not seen. `IntegrationJournaledFirst` is proved for one and fails
with two, though only for an empty result: its journal names whatever head the target has by
then, so an owner who moves the target before that and back before the last
check has it forwarded to his own commit. With `MaxStir = 3`, and
`MaxStir = 2`, TLC finds these two in the instances of `seal` and `integrate`.
The antecedent `stir = 0` of `BranchOnlyAdvances` (but for the compare-and-swap), `IntegrationSettledTruthfully`,
`BornAtBase`, `ResumedCreationKeepsWork`, `UnsealedWorkKept` and
`CleanupRefusesForeign` excludes the operation during which somebody else
changes the very thing the operation is about, between its last look and its
next Git command: `reset --mixed` after the compare-and-swap of the branch
rewinds a commit the agent made in that instant, a file can be written after the
last validation and before `git worktree remove`, a directory can appear after
the last look at its path. What happened before the locks were taken, the steps
of an operation that crashed included, is not excluded. The agent does not rewind in
`seal`: a rewind after the pending ref is gone and before the manifest is
completed leaves the commit of the checkpoint to nobody, by the agent's own
hand, and `CheckpointProtected` says that Capsule does not. Moves *between*
operations, and between a crash and its recovery, are always allowed.

**Fairness.** `Capsule!FairSpec` is weak fairness of a running operation's
steps (a process that is not killed goes on) and of `RcBegin` (somebody
eventually runs `recover`, which README.md tells the user to do). Nothing makes
the agent or the user act. The liveness properties start from `calm`: crashes
and interference have stopped. `Reservations!FairSpec` adds strong fairness of
`CrLock`, as waiters on `flock` get their turn, and of a retry of a reserved
key. `SharedRoot!FairSpec` has strong fairness of each process's own steps (a
process that is not killed goes on, and a waiter on `flock` gets its turn), weak
fairness of the reader threads, of looking at the child and of a command that
does not hang (`Progress`), strong fairness of `Expire` (a polled deadline
passes) and of somebody calling the sweep. Nothing makes a hanging command end
or a process left behind close its pipes; `Waits` names these two cases. Deadlock is not checked: a dropped capsule, or a set of callers who have
all been answered, really has nothing left to do.

## 4. Proofs

`CapsuleProofs` proves, for every object database, set of moves and bound:

- `TypeCorrect`: `Spec => []TypeOK`;
- `AlwaysReadable`: `Spec => []ManifestReadable`, no sequence of operations,
  crashes, recoveries and outside moves writes a manifest its own reader
  refuses;
- `Refinement`: `Spec => ImplementsLifecycle`.

`write_capsule` does not validate, so readability is not local to any step: it
depends on what the copy `cap` holds when it is written, several steps after it
was changed. The inductive invariant is `IInv == TypeOK /\ Held`. `Held` says,
for the operation in progress, how `cap` is related to `man`: the two are equal
until the step that prepares the write, and at a write point `cap` is a
readable manifest that *evolves* from `man` by one edge of the lifecycle. Its
parts also keep what the preparation relied on: the states in which an
operation can be at each point (`StateHeld`), what its locals then hold
(`LocalsHeld`), that a workspace has content once its creation is over
(`ContentHeld`), and that there is nothing in a manifest nobody has written
(`Blank`). One lemma per kind of change (`JournaledGood`,
`CompletedGood`, `SealedGood`, ...) shows that it makes a good copy; one lemma
per operation (`CheckpointKeeps`, ...) goes through its actions. `OnlyWrites`
states that the manifest changes in write steps only, and with `EvolvesIsStep`
it gives the refinement: a write is a step of `Lifecycle`, everything else
stutters.

`WorkspaceProofs` extends this to the capsule's worktree, branch and refs. Each
theorem has an invariant of its own beside `IInv`, about the few program points
at which the thing is in motion:

- `IndexCaughtUpHolds`: `Spec => []IndexCaughtUp` (`IndexHeld`: whoever is about
  to write `active` has reset the index);
- `BranchOnlyAdvancesHolds`: `Spec => BranchOnlyAdvances` (`JournalHeld`: the
  journaled commit is a child of the head the journal started from, which the
  compare-and-swap demands). The instance of `seal` has one stamp, so that one interference
  can commit only what the checkpoint did; with `Stamps = {1, 2}` TLC finds at
  once that without the comparison an agent's commit would be lost;
- `CheckpointJournaledFirstHolds`: `CheckpointJournaledFirst`, if nobody rewinds
  the branch or deletes the ref by hand (`ProtectedHeld`);
- `CheckpointProtectedHolds`: `Spec => []CheckpointProtected`, if besides nobody
  deletes the branch after pruning its worktree (`ReachableHeld`);
- `DroppedLeavesNothingHolds`: `Spec => []DroppedLeavesNothing` (`CleanupHeld`:
  what each step of a cleanup has removed does not come back);
- `BornAtBaseHolds`, `ResumedCreationKeepsWorkHolds`, `UnsealedWorkKeptHolds`,
  `CleanupRefusesForeignHolds`: the action properties of these names
  (`QuietHeld`: what creation and cleanup have validated is still so as long as
  `stir = 0`).

The hypotheses are on `AgentMoves` and each names an act that no program can
undo: a commit whose only ref somebody deletes, or whose branch somebody rewinds
after Capsule has dropped the ref, is not protected by anything. The frame lemmas they share
are at the end of `CapsuleProofs`: which steps write the manifest and that these
touch nothing else (`OnlyWrites`), what taking the locks, an operation's step
and an outside move leave alone (`CallFrame`, `StepFrame`, `OutsideFrame`), and
who moves what (`BranchMoves`, `CkRefMoves`, `WorktreeMoves`, `TargetMoves`).
`Ancestry` is the lemma about histories: a parent's history is within the
child's and without the child, by `HistoryAssumption` (no commit is its own
ancestor, since it names its parent by a hash).

`SealingProofs` goes from the first look of close to the end of an integration:

- `ExecutedGate`: `Spec => ExecutedGateHolds`;
- `SealOnDiskHolds`: `Spec => []SealOnDisk`, if nobody tampers with the files.
  `DiskHeld` follows the two artifacts through a close; the property is not
  inductive, since a close that crashed leaves artifacts behind which the next
  one must replace before its manifest names them;
- `SealNotTornHolds`: `Spec => []SealNotTorn`, for `MaxStir <= 2`. `LookHeld`
  counts: after a clean answer that does not fit what was read, somebody has
  moved once and the workspace is what was found clean, or twice, and then
  nobody is left to move;
- `ChangesJournaledFirst`: what `IntegrationJournaledFirst` says, of every result
  that is not empty, for any number of interferences but no ref deleted by hand.
  `AnchorHeld`: a journal starts at the base, and its commit is the sealed patch
  on it, whatever else happens; `RefHeld`: that commit is protected;
- `IntegrationJournaledFirstHolds`: `Spec => IntegrationJournaledFirst`, empty
  results included, for `MaxStir <= 1` besides. `MergeHeld`: a target that was
  moved before the empty result was prepared is not found at the base again;
- `IntegrationSettledTruthfullyHolds`: `Spec => IntegrationSettledTruthfully`,
  without a hypothesis. `SettleHeld` carries the verdict of the operation or of
  its recovery to the write that records it.

`ReservationProofs` proves, for any number of callers, keys, ids and crashes:

- `ReservationTypes`: `Spec => []TypeOK`, mutual exclusion of creates included;
- `OneCapsule`: `Spec => []OneCapsulePerKey`;
- `ReservedBeforeAll`: `Spec => []ReservedFirst`;
- `LookupHonest`: `Spec => ReservedMeansNotReturned`.

Its `IInv` adds to those: a create under the locks holds the record of its own
key or knows that there is none (`RecordHeld`, `RequestHeld`), ids of records
are distinct (`Distinct`), the place of a create agrees with what its directory
has become (`PlaceHeld`), a directory is published exactly when there is a manifest
(`Published`), and every answer given agrees with the record of its key (`AnswersHeld`).
`OneCapsule` is not inductive without the last two: two answers are compared
through the record, which must never be replaced.

`SharedRootProofs` proves, for any number of processes, capsules, projects,
calls and faults, and for every bound on output and pipes:

- `TypeOKHolds`: `Spec => []TypeOK`;
- `AcknowledgedIsDurableHolds`: `Spec => []AcknowledgedIsDurable`;
- `SealSurvivesHolds`: `Spec => []SealSurvives`;
- `CaptureCompleteHolds`: `Spec => []CaptureComplete`.

Neither durability property is inductive, since both speak of the disk only and
a writer changes the disk from a copy it took earlier. `StoreInv` therefore has
three parts. `ProcessInv` ties a process to its place: it holds the global lock
there (`LockInv`), only a writer has a temporary file (`TempInv`), and its copy
fits the files (`WriterInv`: the copy follows from what was acknowledged; the
result of a seal about to be written is on disk for good; before the rename the
manifest may still change, afterwards the file is the copy). `FileInv` says that
what is read may survive and that nothing torn can. `DiskInv` says that all
that may survive of a manifest follows from `acked`, and that a closed one is
what everybody reads and has its result. The global lock is what makes the
writer of a file unique, which is where the proof uses that every operation
takes it. `CaptureComplete` rests on `ExecInv`: as long as the bound is not
passed, what was written is what was kept and what is in the pipe, a reader is
done only when nobody can write any more (`ReaderInv`), and a joined run has
exited.

`CapacityProofs` proves, for texts, records and caps of any size:

- `CheckpointCompletes`: `Spec => []CheckpointRecordable`;
- `CleanupCompletes`: `Spec => []CleanupRecordable`.

The first holds because `project_checkpoint` tries the completed manifest before
the journaled one is written, the second because a cleanup's journal costs more
than the end of the cleanup. That the sizes are natural numbers is the
hypothesis `Sizes` of the two theorems.

`InventoryProofs` proves, for any number of paths, files, blocks, parts and
changes:

- `InventoryTypes`: `Spec => []TypeOK`;
- `SealedAsItWas`: `Spec => []SealedAtOneInstant`.

The instant is the end of the first look at the tracked content. The property
speaks of the end only; `Collected(w)`, which is inductive, says of the
workspace `w` of that instant what every part of an inventory in progress knows
of it. A block that has been read, is held open, or is in the workspace now was
there once, and from that instant on it is `Apart`: the first inventory
has what `w` has, or this block is not what the first inventory has. A change
preserves it since a block that has left does not come back; this is where
`~recurred` is used. At the end both inventories agree, so every block is
that of `w`. `Looked(w)` is the same for the parts of the tracked content, with
`ApartPart` and `~reworked`. `Places` keeps the visits disjoint: a file is still to be listed,
in the queue, open, or done, so that none is taken in twice or forgotten.

`ReceiptsProofs` proves, for any number of exporters, verifiers, capsules and
destinations, and however often closes fail, files are altered and clocks set
back:

- `ReceiptTypesHold`: `Spec => []TypeOK`, one export per destination included;
- `CompleteIsWholeHolds`: `Spec => []CompleteIsWhole`;
- `NeverOverwrittenHolds`: `Spec => NeverOverwritten`;
- `ReportedAsSealedHolds`: `Spec => []ReportedAsSealed`;
- `AuthenticatedAsSignedHolds`: `Spec => []AuthenticatedAsSigned`;
- `ExportedVerifiesHolds`: `Spec => []ExportedVerifies`;
- `GateCarriesOverHolds`: `Spec => []GateCarriesOver`.

A reader takes no lock, so its `IInv` must say what each has in hand after each
read. `SealsHeld`: a seal agrees with itself, and once made it never changes
(`SealsStep`), which is what makes a stale copy of one harmless. `Exports`: what
an exporter has read is the seal or is missing, the destination it fills has the
files moved so far, and it is alone there. `Receipt`: a destination is absent,
incomplete, touched, or whole. `Verifies`: what a verifier has read is what is
there, unless the receipt was touched or has gone.

Assumptions are the named `ASSUME`s of the modules (types of constants, `None`
is no other value, `Anc` is the reflexive ancestor relation); TLC evaluates all
of them in the runs.

**What the proofs changed.** Four attempts failed for a reason, each now in the
modules. The verdict of `recover_integrating` was written as a `CASE` whose arms
overlap, which TLC reads in order and TLA+ does not define; it is now two
disjoint predicates, `RollsBack` and `Lands`. `IntegrationSettledTruthfully` did
not except the rollback of an empty result, whose journal names a commit the
target has anyway; the instance of `integrate` has no commit before the base and cannot show it. `IntegrationJournaledFirst` and
`SealNotTorn` had no stated bound on the interferences. The four properties about
creation and cleanup held in `whole` because nobody interferes there during an operation; they
now say so.

**Only model-checked.** The liveness properties (`CreationSettles`,
`CheckpointSettles`, `IntegrationSettlesUnlessRefLost`, `CleanupSettles`,
`RetryResumesUnlessLittered`, `OperationsEnd`, `SweepSettles`): liveness under
fairness and `ENABLED` are out of the prover's reach. Every safety property that
a run checks is a theorem, under the hypotheses above.

## 5. What is not modelled

- *Bytes.* Encodings, digests (a digest is the value it stands for), patch
  text, wording, file modes and redaction. `Evidence` is a set of records, so
  duplicates are one. Of the limits, the manifest's size (`Capacity`) and the
  output of a command (`Exec`) are modelled; the maximal numbers of checkpoints
  and evidence records, and the sizes of other artifacts, are refusals before
  anything is done.
- *Git itself.* Modelled as the code uses it: compare-and-swap of a ref,
  `merge --ff-only`, `worktree` commands, `reset`. Hooks, filters and the
  environment handling of `src/git.rs` are left out.
- *A source repository that is gone* (`src/manager/create.rs:275-288`): a
  resumed creation whose source repository cannot be opened, or is another one,
  is abandoned like one whose worktree is not its own; `Creation` has the latter
  only.
- *Results of earlier versions*: verification refuses a result without the
  digest of ignored content, which this `close` always records.
- *Private permissions and links* (`src/state.rs`): that directories are private
  and no component is a symbolic link is checked before use and assumed here.
  That the parent of a new capsule's directory is never synchronised is below.
- *Verification in a repository* (`src/verify.rs:407-447`, re-deriving the
  patch), attestations, artifact streams: they change nothing.
- What status and list report (that list waits for a lock and fails on an
  unreadable manifest is in `SharedRoot`; the reporting variant of list differs
  only in what it returns), configuration, the command line.
- The branch of recovery for an orphaned capsule with an integration journal
  (`src/manager/recover.rs:234-239`) is unreachable: such a manifest is not
  readable. Recovery writes an activated manifest twice in a row; the model
  writes it once. A lookup may report `unsafe_state` while a create publishes
  the directory; that is a refusal, and no property forbids it.

## 6. Where the code and its documents part

Five runs are expected to end in a violation, each of a sentence of the
repository; `findings` in `PROJECT.json` quotes it.

- **rollback** (`src/manager/recover.rs:316`): rolling an integration back
  deletes the protecting ref, then writes the manifest. A crash in between
  leaves an `integrating` capsule whose every later recovery demands the ref.
  `whole` checks that this is the only way (`IntegrationSettlesUnlessRefLost`).
- **executed** (`src/manager/lifecycle.rs:123`): the command of an executed
  check runs before the snapshot to which its record is bound, so an edit in
  between is credited with a run it never had.
- **strand** (`src/manager/lifecycle.rs:68`): a checkpoint repeated after a
  reset in the same second is the same commit; the journal is written, and the
  manifest cannot record it a second time. With the antecedent that excludes
  it, `CheckpointSettles` holds.
- **wedge** (`src/state.rs:136`): a crash between making the reserved directory
  and publishing the manifest in it leaves a shape that validation refuses, so
  no retry with the key succeeds. `docs/protocol.md:383` qualifies the directory
  whose private shape cannot be proven; a manifest staged in it, not yet renamed,
  is qualified nowhere. `RetryResumesUnlessLittered` shows that
  without such litter retries do.
- **capacity** (`src/manager/lifecycle.rs:369`): the comment of
  `ensure_manifest_capacity` asks that a transition try what it will persist before
  its irreversible step in Git. `checkpoint` does (`CheckpointCompletes`);
  `integrate` does not, and its completion adds `integrated_at_unix`. A manifest
  within a few bytes of the cap is left `integrating` with the target advanced,
  and no recovery can record it. Such a capsule cannot always be dropped either,
  as the journal of the cleanup has to fit too.

Further observations, for which no document promises otherwise:

- `close` takes the time of the seal from the wall clock
  (`src/manager/lifecycle.rs:266`) and nothing compares it with the time of
  creation until verification does (`src/verify.rs:343`). If the clock is set back
  in between, the capsule closes and exports as ever, and its receipt is refused
  by everybody. That is `early` in `Receipts`, and the exception of
  `ExportedVerifies`, which TLC finds violated without it.
- Recovery takes one look at the workspace, so an active capsule whose HEAD is
  detached at that moment (in a rebase) is demoted to orphaned for good
  (`RaExamine`).
- A sweep fails on a manifest it cannot read before it touches any capsule, and
  stops at one it cannot prove (`src/manager/recover.rs:14`, `:71`); `docs/protocol.md`
  371-373 says as much. That is `Obstructed` in `SweepSettles`.
- The deadline bounds the wait for the child, not the join of the readers: a
  process that the command left behind with a pipe open holds the run, and the
  operation, for as long as it likes (`src/exec.rs:82`). That is `Waits` in
  `OperationsEnd`.
- The message of a refused checkpoint (`src/state.rs:627`) advises to close the
  capsule; close adds a result reference, which need not fit either.
- The directory of a new capsule is made in `capsules/`, which is not
  synchronised after (`src/state.rs:136`), and the renames of an export are not
  ordered on disk (`src/state.rs:807`): a power loss can undo a create that
  returned, or leave a marker without its files, which verification refuses.
- When the synchronisation of the directory fails after the rename, the caller
  gets an error though the new file is visible (`Fail` after `Replace`).

## 7. Plan

Done, in this order: `Objects`, `Manifest`, `World`, the five operations,
`Environment`, `Capsule`, `Lifecycle` and the proofs about them; `Reservations`
and its proofs; `Receipts`; `StateStore`, `Exec` and `SharedRoot` (locks, atomic
writes, executed checks, the sweep) and its proofs; `Capacity` and its proofs;
`Inventory` and its proofs.

What is left to model: the re-derivation of a patch in a repository
(`src/verify.rs:407`), the power-loss order of an export. Attestation and the
command line are input and output only.

`WorkspaceProofs`, `SealingProofs` and `ReceiptsProofs` have the safety
properties of the modules they are about.

Next theorems: that a reservation or a receipt refines an abstract
specification of its own, as the capsule does; the steps toward liveness that are safety
(after `calm`, an open journal in a shape that recovery accepts keeps it);
`SealNotTorn` for more interferences, with the shape of the exceptions in place
of the bound.
