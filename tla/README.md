# A TLA+ verification of fstx

fstx commits changes to many files and directories of one root directory atomically. This
directory holds a model of it in TLA+, the TLC runs that check the model on small instances,
and proofs, checked by TLAPS, of what the commit and recovery protocol guarantees for every
plan, what staging guarantees for every tree, and what the parts around them guarantee for any
number of users, calls, records and changes by others. Paths below are relative to the repository: `src/recover.rs` is the library's file.

## The system

| Part | State | Operations | What must be right |
|---|---|---|---|
| `path.rs` | none | relative paths: parents, prefixes, overlap | the algebra the plan is checked with |
| `sim.rs`, `vfs.rs` | entries and contents, visible and durable; pending operations | the calls of `Vfs`; kill, power loss | the contract C1-C5 of DESIGN.md section 5 |
| `overlay.rs` | `placed`, `detached`, `next_dir` | write, create_dir_all, rename, remove, remove_dir_all, read | the view is what a real tree would be |
| `plan.rs` | a plan: tokens and waves | compile, validate | the plan yields the view, and is one recovery can undo |
| `transaction.rs` | overlay, blobs, the lock | begin, staging, commit (prepare, apply, COMMITTED), drop | all or nothing, durable when Ok |
| `state.rs` | the files of `.fstx/tx-*` | markers, gc | markers are durable before they are acted on |
| `recover.rs` | positions found on disk | decide, preflight, stabilize, undo, settle | always the before- or the after-state; no refusal after crashes alone |
| `journal.rs`, `progress.rs` | none | encode, decode, parse | damage is noticed, a torn record hides nothing |
| `caps.rs` | a cache per process | probe | leaves nothing behind |
| `inspect.rs` | none | inspect | announces what recover will do |
| `sys/linux.rs` | descriptors, the lock file | the `Vfs` calls | made in the recorded directory or not at all; one process at a time |
| `cli/` | a change set, a source tree | apply, sync, recover, inspect | all of it or nothing, and the exit code says which |
| `bindings/node/` | a handle whose transaction is taken | transaction(), commit, commitAsync, discard | the lock goes with the transaction, every call settles |

`Transaction` calls `Overlay` for every staged operation and reads the base tree through the
`Vfs` each time; `commit` hands the overlay to `compile`, writes the plan to the journal,
moves tokens wave by wave, and calls `recover::rollback` itself when that fails. `begin` calls
`recover_locked` first. The process and its successors communicate through `.fstx` only:
journal, progress log, three markers, and where the tokens are. The command line and the
bindings are callers: the one stages a change set or a source tree into one transaction, the
other shares one event loop among several.

The library has no threads of its own. What is hard is that a process can die between any two
calls, that a power loss then picks which of the pending operations survive, that recovery can
die as well, that any call can fail, that other users of fstx queue for the root, and that
other programs write to the same tree. PROJECT.json lists each such place, `hazards`, with the
properties about it.

## Modules

| Module | Models | Correspondence |
|---|---|---|
| `Paths` | `path.rs` | a path is the sequence of its components |
| `SimFs` | `sim.rs`, `vfs.rs` | a file system is a record; `Can`/`Do` are the calls of `Vfs`; `Record`, `SyncDir`, `ApplyOp`, `Survivors`, `PowerLoss` are `record`, `fold`, `apply_op`, `power_loss` |
| `Plan` | `plan.rs` validate, `recover.rs` classify to barrier | tokens, locations and waves numbered from 1 |
| `Overlay` | `overlay.rs`, `plan.rs` compile | an overlay is a record; `CanX` are the early errors of operation X, the operator beside it its effect |
| `DirectTree` | the reference of `tests/model.rs` | each operation acts on a map from paths to nodes: the abstract specification of staging |
| `Staging` | an open transaction | one action per operation; `view` is what the caller sees |
| `CaseStaging` | the same on a file system that folds case | the two checks of `overlay.rs` that ask for `case_insensitive`, as refusals before an operation |
| `Journal` | `journal.rs` | `encode` and `decode` with every check; bytes are pieces |
| `PlanLemmas` | DESIGN.md section 3 | every state a crash of apply can leave of every plan `Staging` compiles |
| `Transaction` | `transaction.rs`, `recover.rs`, `state.rs`, `caps.rs`, `recover_on` | `pc` is the phase, `todo` the file system calls it has still to make, `mem` the memory of the process |
| `Inspect` | `inspect.rs` | `InspectCall` at any point of `Transaction`; `ghost.announced` is what it said, until something overtakes it |
| `RootLock` | the lock, `begin_on`, `recover_on`, `inspect_on` of several users | `holds` is flock, `entries` the names in `.fstx`; one action per step that touches what users share |
| `WaveCommit` | the protocol of `Transaction` for an arbitrary plan | a token's position is the last wave it moved in; `may` is every place a power loss can leave it at |
| `AtomicCommit` | what `lib.rs` promises | the abstract specification of `WaveCommit`: one outcome, decided once, true of the tree |
| `RecordLog` | what those who use `progress.rs` rely on | a set of records, part of it durable; implemented by `WaveCommit` and by `ProgressLog` |
| `ProgressLog` | `progress.rs`, `append_progress`, `read_progress` | the file as symbols, three to a record; a write can stop anywhere |
| `LinuxFs` | `sys/linux.rs` | a path is walked entry by entry, then one system call is made; another program acts in between |
| `Cli`, `Sync` | `cli/src/main.rs`, `changes.rs` | `pc` is the phase of the command; the library is `Staging`; `Sync` walks a source tree in the place of expectations and operations, and has the specification of both commands |
| `NodeBinding` | `bindings/node/index.js` and its `src/lib.rs` | `loop` is the event loop, `worker` the thread pool, `inner` the handles that still have a transaction |
| `WaveCommitProofs`, `RootLockProofs`, `NodeBindingProofs`, `LinuxFsProofs`, `ProgressLogProofs`, `StagingProofs` | | theorems about the module they are named for; `StagingProofs` is about `Cli` and `Sync` too, which stage by its actions |
| `OverlayLemmas`, `FoldLemmas` | | what the operators of `SimFs`, `Overlay`, `Plan` and `Staging` compute, for every tree and every sound overlay; induction over `FoldLeft` |
| `MC*` | | the trees, plans, scenarios and change sets of the runs |

How they are put together: `Plan` EXTENDS `SimFs` and `Paths`; `Overlay` EXTENDS `Plan`;
`Staging` and `Transaction` EXTEND `Overlay`. `Cli` EXTENDS `Staging`, `Sync` EXTENDS `Cli`,
`Inspect` EXTENDS `Transaction`, and `MCStaging` joins `CaseStaging` and `PlanLemmas`. Three
refinements are stated with INSTANCE: `Staging` (and `Transaction`, for its history variable
`ghost.want`, the tree that was promised) instantiate `DirectTree`; `WaveCommit` instantiates
`AtomicCommit`, under the mapping `Outcome`, and `RecordLog`; `ProgressLog` instantiates
`RecordLog`. `RootLock` is `Transaction` seen from the outside, by several users: what is one
step there is a phase here.

A definition whose comment begins with "Slip" is a plausible mistake in one near it,
used nowhere: it is put in its place to see that a property notices (PROJECT.json,
`mutants`).

### How Transaction executes the code

A phase reads the file system, computes the calls it will make, and `Step` makes them one at
a time; when none is left, the next action is enabled. This is how the code is: between two
decisions it makes a fixed sequence of calls. Each call can fail (`Failing`, with the reaction
of each phase in an action of its own), the process can be killed, and power can be lost.
A rollback in `commit` and one in `recover` are the same actions, told apart by `mem.role`
where the code does (what an error becomes).

`scenario` is chosen at the start and holds the tree, the operations staged, the file system's
profile and the bounds on crashes, failing calls and other programs. `ghost` is history: the
tree before the transaction, the tree promised, the outcome that was reported, what a refusal
must not change, and the file another program made.

### What the models leave out

* Permission bits, special files and `.gitignore` are absent; symlinks only in `Sync` and
  `LinuxFs`, which is where code looks at them. Names fold case only in `CaseStaging`.
* In `Transaction` the journal's text is a name: it is intact or it is not (`Journal` has the
  decoder). The log is the set of its records, which is all `check_progress` uses; `ProgressLog`
  shows that the file gives that. Garbage that happens to carry a right checksum is left out.
* The probe makes, syncs and removes its directory; the files inside, and what `run_probe`
  learns from them, are left out. At a power loss the contents of gc-* and probe-* directories
  are dropped: they are only deleted again. `delete_tree` deletes deepest first, where the code
  goes depth-first.
* A crash is considered before each call and, while staging, between operations. Crashes
  between two computations without a call in between leave the same disk.
* In `Transaction`, `recover` is called once after whatever left the root unsettled, and again
  after a crash or a fault in it, by one process at a time; `RootLock` is about several, and
  shows why one at a time is right once the lock is held.
* `RootLock` has no power loss and no file system: what a call does in a transaction directory
  is one step. A user is a thread; the kernel drops its lock when it is killed.
* `WaveCommit` has one transaction and no file system: a barrier makes the moves of its wave
  durable, gc's deletions are one step, `stabilize` settles everything visible. `Transaction`
  is where those steps are calls.
* A power loss in `WaveCommit` leaves each token anywhere in `may`, independently; this is
  more than a queue of pending operations allows.
* In `Cli` and `NodeBinding` a commit of the library is one step that succeeds, is refused,
  or has an unknown outcome; its parts are in `Transaction`.

## Runs

| Run | Instance | Shows |
|---|---|---|
| `wave_commit` | 3 tokens, 4 waves (a written file, a directory that moves, a file one level deeper; two can have both names); any number of crashes and failures | `Atomic`, `NeverRefuses`, `PotentialNeverRises`, `Settles`; that it implements `AtomicCommit` and `RecordLog`; and `IInv`, before it is proved |
| `staging` | three levels of directories, a name in two spellings; 4 operations | the view is the tree (`ViewIsTheTree`, `AcceptsWhatATreeAccepts`); the plan yields the view but for finding 1 (`CommitYieldsTheRest`), moves only what changed, is read back from its journal, meets no other spelling; every state a crash of its apply leaves is classified and rolled back |
| `transaction` | sixteen instances of seven scenarios, in four groups, below | atomic, final, never refused, `.fstx` clean, nothing deleted and no name reused too early |
| `inspect` | a file replaced, 2 crashes; a file below a directory replaced, 1 crash and 1 file put in the way or a damaged journal | what inspect says is what recovery does; refusals change nothing; foreign files survive |
| `root_lock` | 2 users, 2 calls each (begin, recover or inspect), killed at any point | one transaction at a time and alone with the tree, nothing vanishes, an inspection is a snapshot, every call returns |
| `progress_log` | 2 records, 3 appends, 2 power losses, 4 symbols behind the last sync | acknowledged records are found, none is invented; implements `RecordLog` |
| `linux_fs` | 2 calls out of six, 3 moves or links of another program | calls change only the recorded directories, at the path if the tree is left alone; a probe answers for the recorded directory |
| `cli` | 149 change sets, sync of 3 sources; 2 edits, 1 failing call, 1 vanishing entry | the exit code is true, what was applied is what was asked for, nothing saved by others is lost |
| `node_binding` | 3 calls, 2 roots, another process | no lock leaks, outcomes are true, every call settles |
| `resurrect` | the tree of `staging`, lower-case paths | finding 1 |
| `hard_links` | two links to a file, 1 crash | finding 2 |
| `private_dir` | first use, 2 crashes | finding 3 |

The scenarios of `MCTransaction`: a file replaced (`Replace`, `ReplaceBelow` one level down),
two files swapped (`Swap`: each token has three locations), a directory moved with a change
inside (`MoveDir`: a parent that is a token), a tree replaced by a file and a file by a
directory (`Retype`), operations without a net change, then another transaction (`Twice`), and
a file replaced by another program before commit (`Disturbed`). The run `transaction` takes them

| Group | Scenarios | Begins | Crashes | Failing calls | For |
|---|---|---|---|---|---|
| `CrashTwice` | `MoveDir`, `.fstx` there, profile Weak | 1 | 2 | 0 | crashes in recovery, a rename left with both names |
| `FirstUse` | all seven, no `.fstx` yet, Weak | 2 | 1 | 0 | the first transaction of a root, and one after a crash |
| `Faults` | all seven, `.fstx` there | 2 | 0 | 2 | what calls report when a call and its clean-up fail |
| `CrashAndFault` | `ReplaceBelow`, `.fstx` there | 1 | 1 | 1 | the two kinds of rollback meet |

Bounds. `MaxOps` = 4 in staging: one operation more than any interaction of two slots needs
(the shortest counterexample of finding 1 has 3). `MaxBegins` = 2 so that a transaction meets
what another left. `MaxCrashes` = 2: one in commit and one in the recovery after it; a third
would start from a state like the one after the second, and `wave_commit` and the proofs have
no bound on crashes. `MaxFaults` = 2: the call and its clean-up. `MaxIntrusions` = 1. In
`RootLock` two users with two calls each meet in every phase, and the proofs have any number.
`MaxAppends` = 3 puts a torn record between two whole ones, `MaxTail` = 4 lets a power loss
leave more than one record of garbage. In `linux_fs` three moves make room for a directory
moved away, another put in its place, and a link; two calls, for one that must be refused after
one that was not. `MaxEdits` = 2 in `cli`: a file that was expected and one that was not.
`MaxRuns` in `Transaction` follows from the other bounds. `DepthBound` = 8 is longer than any path of
the instances; `Fits` is the bound it puts on a staged rename. Between them the passing runs take every action of every next-state relation.

Deadlock is checked in `wave_commit`, `transaction`, `inspect`, `node_binding` and the two runs
of `Transaction` that expect a violation. In
`Transaction`, `Rest` is the one state in which nothing more is called: the root is settled,
or recovery asked for a human. So a phase that could neither go on nor fail would be reported.
In the other runs the caller, or the bounds, may end a behaviour.

### Fairness

* `WaveCommit`: weak fairness of `Forward`, what the process does by itself, including that
  `recover` is called after a crash. The code waits for nothing and makes one call after the
  other, so a step that stays possible is taken; calling recovery is what DESIGN.md's guarantee
  assumes ("followed by one completed `recover`"). Crashes and failing calls are owed nothing,
  and `Settles` speaks only of behaviours in which crashes stop.
* `RootLock`: weak fairness of each user's work once it is inside a call, an open transaction
  being committed or dropped by its caller included. Nothing is assumed of the order in which
  flock serves those who wait; that nobody waits for ever follows from the bound on calls, so
  `CallsReturn` shows the absence of deadlock and of a lock left behind by a kill, not that
  flock does not starve anybody.
* `NodeBinding`: weak fairness of the loop, the workers, the functions given to
  `transaction()` and the other process's release of its lock; strong fairness of getting the
  lock, which another process may take again and again: here the kernel is assumed not to
  starve a waiter.
* `Transaction`, `Cli`, `ProgressLog`, `LinuxFs` and the staging runs check no liveness and state no fairness.

## Findings

1. `compile` leaves a removed entry out of the plan if any directory above its base path is
   removed, although one in between may have been moved out and carry it along:
   `remove(a/b/c); rename(a/b, e); remove_dir_all(a)` commits and `e/c` is there. If `e/c` was
   also written, commit fails. `tests/model.rs` demands an exact match; its random sequences
   can produce this one, but only when three particular operations meet in order. `staging`
   shows that nothing else is wrong on the same tree: `LeftBehind` describes the cases exactly
   as far as the instance goes.
2. `classify` knows a token by its FileId. With two links of one file in a plan, a crash can
   leave the token "found at several locations", and recovery refuses; Lemma 2 of DESIGN.md
   says classification always succeeds.
3. The root is synced only by the call that creates `.fstx`. If that process dies before the
   sync, later transactions put backups into a directory whose own entry is not durable.
   The other crash runs start with a durable `.fstx`, or have one crash only.

### Observations

What the models show that contradicts no sentence of the repository outright, or is a matter of
wording. No run is about these. What is more than wording is in the models, and a property it
would break says what it leaves out.

* Two processes that begin on a fresh root at once: both find no `.fstx`, and the slower one's
  mkdir fails with AlreadyExists (`transaction.rs:82`), although the lock that is to
  coordinate fstx users (`README.md:181`) is one step away. The action is `MakePrivate` of
  `RootLock`; nobody else is harmed.
* `inspect` without a lock file goes on without a lock (`sys/linux.rs:303`), and may then report
  a transaction that is being committed beside it as one to roll back (`lib.rs:80`).
  `InspectionIsSnapshot` is about inspections that got the lock.
* `inspect` announces RollBack after classification alone (`inspect.rs:118`); after another
  program or damage has changed the root, recovery's further checks may refuse. `AnnouncedHappens`
  claims what follows a RollBack only of roots no other program has touched.
* Expectations are checked once, when the transaction is open (`changes.rs:179`). A file edited
  in place afterwards keeps its identity and is replaced by the commit. `OnlySeenIsRemoved` is
  about files that are saved anew, which the commit notices.
* The command prints "nothing was changed" for every error (`main.rs:84`), CommitOutcomeUnknown
  and RollbackFailed included; its exit code tells them apart.
* Two overlapping calls of `transaction()` on one root, the first ended by `commitAsync`: the
  second's begin waits for the lock on the event loop (`index.js:58`) that would deliver the first's `fn`
  (`index.js:55`). With `Overlapping = TRUE`, `CallsSettle` fails; the safety
  properties do not, and are proved of overlapping calls too.
* The entry that finding 1 leaves behind can sit where a token is to go. The commit then fails
  at it, and `classify` takes it for a foreign entry, so the rollback is refused as well
  (`plan.rs:125` against DESIGN.md, Lemma 2); hence `ClassifiedUnlessLeftBehind`.
* A directory moved while the library holds it takes the call with it: the change is made in the
  directory the journal recorded, wherever that is by then. This is the residual risk DESIGN.md
  section 6 names, and why `AtThePath` is about trees left alone during the call.

## Proofs

For every value of the constants that the assumptions named in the modules allow:

| Module | Theorem | Statement |
|---|---|---|
| `WaveCommitProofs` | `Inductive` | `Spec => []IInv` |
| | `TypeCorrect` | `Spec => []TypeOK` |
| | `Atomicity` | `Spec => []Atomic`: what can be garbage has left a whole tree |
| | `NoRefusal` | `Spec => []NeverRefuses`: Lemma 2 and its use |
| | `MarkersNeverContradict`, `MarkersTruth` | COMMITTED and the rollback markers exclude each other and are true of every tree that may be left |
| | `RollbackIsFinal` | `Spec => PotentialNeverRises`: Lemma 3 |
| | `CommitIsAtomic` | `Spec` implements `AtomicCommit` |
| | `LogIsARecordLog` | its log is a `RecordLog` |
| `RootLockProofs` | `Isolation` | `Spec => []OpenIsAlone` |
| | `NoInterference` | `Spec => []NobodyInterferes` |
| | `InspectionUnderLock` | `Spec => []InspectionIsSnapshot` |
| `NodeBindingProofs` | `NodeTypes` | `Spec => []TypeOK` |
| | `LocksFollowTransactions` | `Spec => []NoLockIsLeaked` |
| | `OutcomesAreTrue` | `Spec => []ResultIsTrue` |
| `LinuxFsProofs` | `OwnEntriesOnly` | `Spec => OnlyItsOwn`: a call changes its own entries in the recorded directories, and no other |
| | `ProbeAnswersForTheRecorded` | `Spec => ProbeIsOfTheRecorded`: a probe answers for the recorded directory |
| | `FollowsThePath` | `Spec => AtThePath`: and that is the one at the path, if nobody interferes |
| `ProgressLogProofs` | `RecordsAreFound` | `Spec => []FindsTheRecords`: torn writes hide nothing and invent nothing |
| | `FileImplementsRecordLog` | the file is a `RecordLog` |
| `StagingProofs` | `OverlayImplementsTree` | `Spec => ViewIsTheTree`: the overlay implements `DirectTree` |
| | `AcceptedAlike` | `Spec => []AcceptsWhatATreeAccepts`: and refuses what `DirectTree` refuses, nothing else |
| | `TypeCorrect` | `Spec => []TypeOK`: the overlay keeps its shape |
| | `ViewInvariance` | `Spec => []DInv`, from which the three above follow |
| | `OneSpellingOfEachName` | `CaseSpec => []WellFormed`: where names fold, nothing staged shows one name in two spellings |
| | `JournalReadBack` | `Spec => []JournalIsReadBack`: the compiled plan passes `validate`, and the journal decodes to it |
| | `OnlyNetDifference` | `Spec => []PlanIsNetDifference`: the plan moves nothing that is back where it began |
| | `HeldInvariance` | `Spec => []HInv`, from which the two above follow |
| | `NoTrace` | `SSpec => []NoTraceUnlessApplied`, of apply and of sync |
| `OverlayLemmas` | `SameTree` | two file systems that differ below `.fstx` only have one tree |

**The protocol** (`PlanAssumption`: N is a natural number, `Moves` gives each token a set of
waves, `BothNames` is a set of tokens). None of the properties is inductive by itself. That
recovery is never refused needs to know, of every place a power loss may leave a token at, not
of the place it is seen at: (`TreeInv`) at most one wave is mixed, and which one in each phase;
(`MarkInv`) what each marker and the journal, visible or durable, implies of the tree; and
(`LogInv`) that the log is a lower bound of all those trees. The last one holds the subtle
part: a record of apply speaks for its wave only below the lowest record of undo that is
*durable*, less one wave, because the undo of the next wave may have begun with nothing logged.
`IInv` is the conjunction, checked by TLC in `wave_commit` and then proved by one lemma per
conjunct (`TypeStep`, `PlacesStep`, `TreeStep`, `MarkStep`, `LogStep`, `RefusesStep`), each
with one step per action of `Next`.

**The refinement.** `Outcome` reads the durable markers: a transaction is committed or rolled
back once its marker is durable, being taken back once ROLLING_BACK is, closed when the
directory is gone, open otherwise; `before` and `after` are "every tree a power loss may leave
is the before-tree, or the after-tree". A marker that is only visible changes nothing yet,
which is why a failed sync of COMMITTED has no known outcome. Each action of `Next` is a step
of `AtomicCommit` under this mapping (`StepsImplement`); that the tree is the one promised at
those steps is `MarkInv` and `TreeInv`.

**The lock** (users and calls are arbitrary). Mutual exclusion (`LockInv`) is the easy part.
`OpenIsAlone` and `NobodyInterferes` also need what the holder knows of `.fstx` while it works:
that its list of names is still the whole of it (`WorkOf`), which calls can be in which phase
(`RoleOf`), that names are not used twice (`NameOf`), and what a half-done transaction left by
a killed user looks like to the next one (`EntryInv`). `SnapshotStep` does the same for an
inspection: while one has the shared lock nobody writes.

**The binding** (`NodeAssumption`; calls may overlap). `CallInv` says where a native transaction
is: in the handle, with a worker, or dropped, and never in two of these; with `LockInv` this
gives both properties.

**The Linux back end** (`LinuxAssumption`; `CallAssumption`: which operations record a parent).
What is checked in one step is used in another, with other programs in between. `Compared` is
what survives their changes: every directory held was found to be the recorded one, if one was
recorded. This mentions no entry, so a move cannot break it. `Undisturbed` is the rest of the invariant, for calls that nobody disturbs: the
directories held, and the one the walk has reached, are where the path leads to. That a path
leads somewhere is a fold over its components, and the lemmas on folds carry it along the walk.

**The progress log** (`BoundAssumption`: the bounds are natural numbers). `parse` is a recursive
function from the end of the file to its start. `ParseFindsAll` says, by induction, what it
finds: every record that stands anywhere in the file, whatever lies before it. So a torn record
cannot hide the next, and since a record ends in a checksum no other symbol equals, no write,
stopped anywhere, completes a record that was not begun (`StandingAppended`). The invariant adds
what a power loss needs: what was acknowledged stands in the durable part (`KeptIsDurable`).

**Staging** (`StagingAssumption`: operations name paths outside `.fstx` shorter than the view
looks for; `NamesAssumption`: names are strings, which the provers do not know of literals, and no
two blobs have the same; `TreeAssumption`: the tree has nothing in `.fstx`, everything in a
directory, and fits the view). The overlay records what was placed and what left its base path;
`DirectTree` is a map from paths to nodes. What relates them is what `resolve` finds. So every
operation is first described by that alone (`OverlayLemmas`): at which paths the entry is another
afterwards, and which (`SetsShow`, `CutsShow`, `MovesLeave`, `MovesBring`). These hold of *sound* overlays: each
slot, one that says "absent" too, is in a directory that is shown, and an entry of the base that
is placed elsewhere is recorded as gone from where it was, and placed once. Without the first,
what was below a removed directory comes back when one is made in its place; without the second, a
moved directory shows its old contents twice. TLC checks both as part of `TypeOK` (`InShape`), and
they are proved to be kept by induction over paths (`PathInduction`), a moved slot with all that
travels with it being the long case. `DInv` adds what a read needs: the view is the tree that is
shown (`ViewIsTree`, an induction over the levels `list` is called on), the file system is that of
an open transaction, and what was given out once, a blob's number, a directory's, an inode, is not
given out again (`Accounted`), so that a new blob changes no text shown elsewhere (`BlobTree`). The run `staging` takes the
steps of `Spec` that `CaseStaging` does not refuse, the theorems about `Spec` all of them. Each
action of `Next` is then the action of `DirectTree` on the view (`WriteStep`, `MkdirStep`,
`RenameStep`, `RemoveStep`, `RemoveAllStep`); `create_dir_all` and its counterpart are two folds
over one chain of prefixes and are proved to agree prefix by prefix (`MadeNext`).

**Case folding** (`FoldAssumption`: folding twice is folding once; `SpellingAssumption`: a file
system that folds case holds no tree with two spellings of a name). The overlay compares names
byte for byte and asks two questions at the path an operation names: does the base have it in
another spelling, and does a new name fold onto a sibling. That this is enough is not plain: a rename
carries a whole tree along, and a removal can uncover nothing. `Spelled` says, of the paths of
the tree that is shown, what `NoTwoSpellings` says of the view; `FreeAt` is what `Clear` gives at
one path, and each operation changes the tree at such a path, or moves what was spelled once as a whole.

**What commit compiles** (nothing more is assumed). `HInv` is what commit can count on, and is kept by
every operation: a directory is found at one path only and no path is longer than the view looks
for (`Prepared`), the staged file of each new entry is there and was given out once, an entry
that is placed has a base path nobody else has, and everything that left its place is noted (`Held`).
From it follows that what `compile` reads is in order once `prepare` has made the staged
directories (`ReadyIs`, `AlwaysCompilable`). `compile` is three nested folds: the sorted list of attached
and of detached entries, the tokens they make, and the waves these move in. `CompiledIsSane`
says of the result what does not mention them: every token goes from its slot by way of at
most one backup to another slot; two tokens never have a location in common but that one leaves
it in an earlier wave than the other takes it; a parent is moved in when its own location
says so. `SanePlanIsValid` is the other half: each check of `validate` passes for any such plan, and
`decode` undoes `encode` for any valid one.

**The net difference.** An attached entry whose slot was its base path is left out of the plan
(`Noop`) only if the directory above is the same one on disk. If a token's base path and
all above it are shown as the same inodes as on disk, then, from the root down, each
is where it was and was not moved (`StillThere`, `SameNoops`), so the token would have been left
out. The property speaks of inodes, `compile` of paths; the two agree but for hard links, where
the same file is shown under another of its names (`HasOtherName`).

**The command line** (the same assumptions, and `CliAssumption`: others write to paths outside
`.fstx`). A refusal makes no call, so the property is that everything before the
commit, the blobs written to `.fstx/tx-*/staged` included, is invisible in `TreeOf`. `TreeOf` is
by levels, a fold over path lengths, and a tree could change under `.fstx` and show elsewhere
through a hard link or a directory found twice. The invariant `Untraced` excludes that: the inodes
below `.fstx` are a zone (`IsZone`) that no entry outside leads into, what is given out next is
new (`Fresh`), and `staged` is where begin made it. `SameTree` then says that two file systems
that differ in the zone have one tree. The constants' initial tree is proved to be of this kind
item by item (`StartIsOpen`), every staging step to keep it (`StageStep`), and every edit of the
other program as well (`EditStep`), which is what makes `outside` equal to the tree until the end.

**Induction.** The provers cannot instantiate the library's induction rules. What is needed here
is proved from the least element of a set of natural numbers (`FoldLemmas`), and the lemmas on
`FoldLeft` are stated for a constant operator that `INSTANCE` replaces by the one folded.

Only model-checked:

* liveness (`Settles`, `CallsReturn`, `CallsSettle`), which is out of TLAPS's reach here;
* of staging, what the calls of the compiled plan do to the tree: `CommitYieldsTheRest`,
  `CommitMeetsNoSpelling`, and of `PlanLemmas` `ClassifiedUnlessLeftBehind` and `RollbackRestores`.
  The proofs say which plan is compiled and that it is valid; these say what each of its renames
  finds on disk, and would have to carry finding 1 along (`LeftBehind`);
* `Transaction` and `Inspect`, whose steps are the calls these folds return. Their protocol is
  `WaveCommit`, where the same properties are proved. That `WaveCommit`'s assumptions about
  barriers are what `SimFs` provides is checked by the agreement of the two, not proved;
* of `Cli` and `Sync`, what depends on what a plan does to the tree: `ApplyIsEverything`,
  `SyncCopiesTheSource`, `OnlySeenIsRemoved`.

## Not modelled

* `error.rs`: a type and its wording.
* `component_ok` and the byte and JSON encodings of paths; the lexical rules of change sets.
* Permission bits and their inheritance, file modes, `.gitignore`.
* What `run_probe` finds out, and a file system exchanged under a running process
  (`caps.rs:36`): facts about file systems, which the model takes as its profile.
* `read_dir`, `statfs` and `fsync` in `sys/linux.rs`; what fsync does is the contract, `SimFs`.
* `recover` and `inspect` of the command line, which call the library and print; the output
  formats; the options' parsing.
* Fuzz targets, examples, the platforms without a back end.

## What is left

In order of what it would add: that the compiled plan, run on the base, yields the tree that is
shown but for finding 1 (`CommitYieldsTheRest`), for which `CompiledIsSane` has the order of its
moves; directories nested in moved directories with crashes; which syncs of `stabilize` are
needed; `WaveCommit` shown to be what `Transaction` does, by a refinement mapping from its file
system; with `OverlayLemmas`, proofs about what the phases of `Transaction` do to the tree.
