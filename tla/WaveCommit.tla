----------------------------- MODULE WaveCommit -----------------------------
(* The commit and recovery protocol for every plan.  Transaction executes     *)
(* given plans call by call; here a plan is only what the protocol knows of   *)
(* it (src/src/plan.rs): which tokens move in which wave.  A token's position *)
(* is the last wave whose move it has made, 0 at the start.                   *)
(*                                                                            *)
(* The disk is described by what a power loss may leave: `may` holds every    *)
(* position a token can be found at afterwards, and an entry of the           *)
(* transaction directory is absent, visible or durable.                       *)
EXTENDS Integers

CONSTANTS
  Token,      \* the tokens of the plan
  N,          \* the number of waves
  Moves,      \* Moves[t]: the waves in which token t moves
  BothNames   \* the tokens whose rename may persist with both names

ASSUME PlanAssumption ==
  /\ N \in Nat
  /\ Moves \in [Token -> SUBSET (1 .. N)]
  /\ BothNames \subseteq Token

VARIABLES
  pc,         \* what the process does next
  wave,       \* the wave it is at
  pos,        \* where each token is seen
  may,        \* where each token may be after a power loss
  journal,    \* the entries of the transaction directory
  committed, rolling, rolled,
  log,        \* the progress records that are visible
  durLog,     \* the progress records that are durable
  dir         \* the transaction directory: "tx", "moving" to gc-*, "gone"

tree == <<pos, may>>
marks == <<journal, committed, rolling, rolled>>
logs == <<log, durLog>>
vars == <<pc, wave, pos, may, journal, committed, rolling, rolled, log, durLog, dir>>

-----------------------------------------------------------------------------
(* Positions. *)

Where(t) == {0} \union Moves[t]

\* Found at lo and at hi: the same place, or, with both names, neighbours.
Place == [lo : 0 .. N, hi : 0 .. N]
At(w) == [lo |-> w, hi |-> w]
Between(v, w) == [lo |-> v, hi |-> w]

\* v is where token t is just before its move in wave w.
IsPrev(t, v, w) ==
  /\ v \in Where(t) /\ w \in Moves[t] /\ v < w
  /\ \A u \in Where(t) : ~ (v < u /\ u < w)

\* step_state: the move of wave w is done, or not begun, at place p.
Post(p, w) == p.lo >= w
Pre(p, w) == p.hi < w

\* What a pending rename of t from v to w, or back, may leave besides its ends.
Halfway(t, v, w) == IF t \in BothNames THEN {Between(v, w)} ELSE {}

Before == \A t \in Token : \A p \in may[t] : p = At(0)
After == \A t \in Token : \A p \in may[t] : \A w \in Moves[t] : Post(p, w)

-----------------------------------------------------------------------------
(* Entries and records. *)

Levels == {"absent", "visible", "durable"}
Seen(x) == x # "absent"
Synced(x) == IF x = "visible" THEN "durable" ELSE x
\* What a power loss makes of an entry.
Left(x) == IF x = "visible" THEN {"absent", "durable"} ELSE {x}

ApplyDone(w) == [kind |-> "apply", wave |-> w]
UndoDone(w) == [kind |-> "undo", wave |-> w]
Records == [kind : {"apply", "undo"}, wave : 1 .. N]

-----------------------------------------------------------------------------
(* Preflight, on what recovery sees. *)

\* check_shape.
ShapeOk ==
  \A s, t \in Token : \A v \in Moves[s], w \in Moves[t] :
    v < w => Post(pos[s], v) \/ Pre(pos[t], w)

\* check_progress: below the lowest wave logged as undone, what is logged as applied
\* is seen applied, but for the one wave an undo may have begun on.
ProgressOk ==
  /\ \A u \in 1 .. N : UndoDone(u) \in log =>
       \A t \in Token : \A w \in Moves[t] : w >= u => Pre(pos[t], w)
  /\ \A a \in 1 .. N : ApplyDone(a) \in log =>
       \A t \in Token : \A w \in Moves[t] :
         (/\ w <= a /\ w < N
          /\ \A u \in 1 .. N : UndoDone(u) \in log => w + 1 < u) => Post(pos[t], w)

Preflight == ShapeOk /\ ProgressOk

-----------------------------------------------------------------------------
Init ==
  /\ pc = "prepare" /\ wave = 1
  /\ pos = [t \in Token |-> At(0)] /\ may = [t \in Token |-> {At(0)}]
  /\ journal = "absent" /\ committed = "absent" /\ rolling = "absent" /\ rolled = "absent"
  /\ log = {} /\ durLog = {} /\ dir = "tx"

\* prepare: everything else is durable; the journal gets its name.
PublishJournal ==
  /\ pc = "prepare" /\ pc' = "publish" /\ journal' = "visible"
  /\ UNCHANGED <<wave, tree, committed, rolling, rolled, logs, dir>>

SyncJournal ==
  /\ pc = "publish" /\ pc' = "apply" /\ journal' = "durable" /\ wave' = 1
  /\ UNCHANGED <<tree, committed, rolling, rolled, logs, dir>>

\* A prepare that fails collects the directory; so does a dropped transaction.
PrepareFails ==
  /\ pc \in {"prepare", "publish"} /\ pc' = "gc"
  /\ UNCHANGED <<wave, tree, marks, logs, dir>>

\* apply: one rename of the current wave.
ApplyMove(t) ==
  /\ pc = "apply"
  /\ \E v \in Where(t) :
       /\ IsPrev(t, v, wave) /\ pos[t] = At(v)
       /\ pos' = [pos EXCEPT ![t] = At(wave)]
       /\ may' = [may EXCEPT ![t] = @ \union {At(wave)} \union Halfway(t, v, wave)]
  /\ UNCHANGED <<pc, wave, marks, logs, dir>>

\* Slip: the directories of the wave are not synced.
ApplyBarrierUnsynced ==
  /\ pc = "apply" /\ wave <= N
  /\ \A t \in Token : wave \in Moves[t] => Post(pos[t], wave)
  /\ pc' = "log"
  /\ UNCHANGED <<wave, tree, marks, logs, dir>>

\* The barrier: what the wave moved is durable.
ApplyBarrier ==
  /\ pc = "apply" /\ wave <= N
  /\ \A t \in Token : wave \in Moves[t] => Post(pos[t], wave)
  /\ may' = [t \in Token |-> IF wave \in Moves[t] THEN {pos[t]} ELSE may[t]]
  /\ pc' = "log"
  /\ UNCHANGED <<wave, pos, marks, logs, dir>>

LogApply ==
  /\ pc = "log" /\ pc' = "logged" /\ log' = log \union {ApplyDone(wave)}
  /\ UNCHANGED <<wave, tree, marks, durLog, dir>>

SyncApplyLog ==
  /\ pc = "logged" /\ pc' = "apply" /\ wave' = wave + 1 /\ durLog' = log
  /\ UNCHANGED <<tree, marks, log, dir>>

\* A failed call of apply starts the rollback in the same process.
ApplyFails ==
  /\ pc \in {"apply", "log", "logged"} /\ wave <= N /\ pc' = "preflight"
  /\ UNCHANGED <<wave, tree, marks, logs, dir>>

\* Slip: one wave too early.
MarkCommittedEarly ==
  /\ pc = "apply" /\ wave >= N /\ pc' = "mark" /\ committed' = "visible"
  /\ UNCHANGED <<wave, tree, journal, rolling, rolled, logs, dir>>

MarkCommitted ==
  /\ pc = "apply" /\ wave = N + 1 /\ pc' = "mark" /\ committed' = "visible"
  /\ UNCHANGED <<wave, tree, journal, rolling, rolled, logs, dir>>

SyncCommitted ==
  /\ pc = "mark" /\ pc' = "gc" /\ committed' = "durable"
  /\ UNCHANGED <<wave, tree, journal, rolling, rolled, logs, dir>>

-----------------------------------------------------------------------------
(* Recovery. *)

Deciding == pc = "idle" /\ dir = "tx"
RollbackMarked == Seen(rolling) \/ Seen(rolled)
Moved == \E t \in Token : pos[t] # At(0)

\* Slip: recovery resumes a transaction it has found prepared.
DecisionResumes ==
  CASE Seen(committed) \/ Seen(rolled) \/ ~ Seen(journal) -> "gc"
    [] OTHER -> "apply"

\* decide(): what recovery does with the directory it finds.
Decision ==
  CASE Seen(committed) /\ RollbackMarked -> "refused"
    [] Seen(committed) /\ ~ RollbackMarked -> "gc"
    [] ~ Seen(committed) /\ Seen(rolled) -> "gc"
    [] ~ Seen(committed) /\ ~ Seen(rolled) /\ Seen(journal) -> "preflight"
    \* Never prepared: only the garbage is left, unless there is more than garbage.
    [] OTHER -> IF Seen(rolling) \/ Moved THEN "refused" ELSE "gc"

Decide ==
  /\ Deciding /\ pc' = Decision
  /\ UNCHANGED <<wave, tree, marks, logs, dir>>

CheckPreflight ==
  /\ pc = "preflight" /\ pc' = IF Preflight THEN "stabilize" ELSE "refused"
  /\ UNCHANGED <<wave, tree, marks, logs, dir>>

\* Everything seen is durable before the first change.
Stabilize ==
  /\ pc = "stabilize" /\ pc' = "mark_rolling"
  /\ may' = [t \in Token |-> {pos[t]}]
  /\ journal' = Synced(journal) /\ rolling' = Synced(rolling)
  /\ UNCHANGED <<wave, pos, committed, rolled, logs, dir>>

MarkRollingBack ==
  /\ pc = "mark_rolling" /\ pc' = "rolling"
  /\ rolling' = IF Seen(rolling) THEN rolling ELSE "visible"
  /\ UNCHANGED <<wave, tree, journal, committed, rolled, logs, dir>>

SyncRollingBack ==
  /\ pc = "rolling" /\ pc' = "undo" /\ wave' = N /\ rolling' = Synced(rolling)
  /\ UNCHANGED <<tree, journal, committed, rolled, logs, dir>>

\* The undo of one move, done or half done.
UndoMove(t) ==
  /\ pc = "undo"
  /\ \E v \in Where(t) :
       /\ IsPrev(t, v, wave) /\ pos[t] \in {At(wave), Between(v, wave)}
       /\ pos' = [pos EXCEPT ![t] = At(v)]
       /\ may' = [may EXCEPT ![t] = @ \union {At(v)} \union Halfway(t, v, wave)]
  /\ UNCHANGED <<pc, wave, marks, logs, dir>>

\* The wave is undone and its directories are synced.  A token past the wave is one
\* undo cannot bring back: RecoveryRequired.
PastWave(t) == wave \in Moves[t] /\ pos[t].hi > wave
\* Slip: the directories of the undone wave are not synced.
UndoBarrierUnsynced ==
  /\ pc = "undo" /\ wave >= 1
  /\ \A t \in Token : wave \in Moves[t] => Pre(pos[t], wave)
  /\ pc' = "undo_log"
  /\ UNCHANGED <<wave, tree, marks, logs, dir>>

UndoBarrier ==
  /\ pc = "undo" /\ wave >= 1
  /\ \A t \in Token : wave \in Moves[t] => Pre(pos[t], wave) \/ PastWave(t)
  /\ IF \E t \in Token : PastWave(t)
     THEN pc' = "refused" /\ UNCHANGED may
     ELSE /\ pc' = "undo_log"
          /\ may' = [t \in Token |-> IF wave \in Moves[t] THEN {pos[t]} ELSE may[t]]
  /\ UNCHANGED <<wave, pos, marks, logs, dir>>

\* Slip: the file is opened for writing from its start.
LogUndoOverwrites ==
  /\ pc = "undo_log" /\ pc' = "undo_logged" /\ log' = {UndoDone(wave)}
  /\ UNCHANGED <<wave, tree, marks, durLog, dir>>

LogUndo ==
  /\ pc = "undo_log" /\ pc' = "undo_logged" /\ log' = log \union {UndoDone(wave)}
  /\ UNCHANGED <<wave, tree, marks, durLog, dir>>

SyncUndoLog ==
  /\ pc = "undo_logged" /\ pc' = "undo" /\ wave' = wave - 1 /\ durLog' = log
  /\ UNCHANGED <<tree, marks, log, dir>>

MarkRolledBack ==
  /\ pc = "undo" /\ wave = 0 /\ pc' = "rolled" /\ rolled' = "visible"
  /\ UNCHANGED <<wave, tree, journal, committed, rolling, logs, dir>>

SyncRolledBack ==
  /\ pc = "rolled" /\ pc' = "gc" /\ rolled' = "durable"
  /\ UNCHANGED <<wave, tree, journal, committed, rolling, logs, dir>>

-----------------------------------------------------------------------------
(* gc, and crashes. *)

\* The directory is renamed to gc-*, and nothing is deleted until that is durable.
RenameToGc ==
  /\ pc = "gc" /\ pc' = "sync_gc" /\ dir' = "moving"
  /\ UNCHANGED <<wave, tree, marks, logs>>

SyncGc ==
  /\ pc = "sync_gc" /\ pc' = "idle" /\ dir' = "gone"
  /\ UNCHANGED <<wave, tree, marks, logs>>

\* Slip: recovery passes over gc-* directories.
SweepGarbageSkips ==
  /\ pc = "idle" /\ dir = "moving"
  /\ UNCHANGED vars

\* Recovery finds a gc-* directory whose rename may not be durable yet.
SweepGarbage ==
  /\ pc = "idle" /\ dir = "moving" /\ dir' = "gone"
  /\ UNCHANGED <<pc, wave, tree, marks, logs>>

\* The process is killed, or a call returns an error that ends it: the kernel keeps
\* what is visible.
Kill ==
  /\ pc \notin {"idle", "refused"} /\ pc' = "idle"
  /\ UNCHANGED <<wave, tree, marks, logs, dir>>

PowerLoss ==
  /\ pc' = "idle"
  /\ pos' \in [Token -> Place] /\ \A t \in Token : pos'[t] \in may[t]
  /\ may' = [t \in Token |-> {pos'[t]}]
  /\ journal' \in Left(journal) /\ committed' \in Left(committed)
  /\ rolling' \in Left(rolling) /\ rolled' \in Left(rolled)
  /\ log' \in SUBSET log /\ durLog \subseteq log' /\ durLog' = log'
  /\ dir' \in (IF dir = "moving" THEN {"tx", "gone"} ELSE {dir})
  /\ UNCHANGED wave

-----------------------------------------------------------------------------
Apply == PublishJournal \/ SyncJournal \/ PrepareFails \/ ApplyBarrier \/ LogApply
           \/ SyncApplyLog \/ ApplyFails \/ MarkCommitted \/ SyncCommitted
           \/ \E t \in Token : ApplyMove(t)

Recover == Decide \/ CheckPreflight \/ Stabilize \/ MarkRollingBack \/ SyncRollingBack
             \/ UndoBarrier \/ LogUndo \/ SyncUndoLog \/ MarkRolledBack \/ SyncRolledBack
             \/ \E t \in Token : UndoMove(t)

Collect == RenameToGc \/ SyncGc \/ SweepGarbage

Crash == Kill \/ PowerLoss

Next == Apply \/ Recover \/ Collect \/ Kill \/ PowerLoss

Spec == Init /\ [][Next]_vars

\* What the process does by itself: it waits for nothing, and after a crash recovery is
\* called.  That a call fails is never owed.
Forward ==
  \/ PublishJournal \/ SyncJournal \/ ApplyBarrier \/ LogApply \/ SyncApplyLog
  \/ MarkCommitted \/ SyncCommitted \/ Recover \/ Collect
  \/ \E t \in Token : ApplyMove(t)

FairSpec == Spec /\ WF_vars(Forward)

-----------------------------------------------------------------------------
(* Properties. *)

Phases ==
  {"prepare", "publish", "apply", "log", "logged", "mark", "gc", "sync_gc", "idle",
   "preflight", "stabilize", "mark_rolling", "rolling", "undo", "undo_log",
   "undo_logged", "rolled", "refused"}

\* Every variable has its type; a wave counter stays inside the plan while it counts.
TypeOK ==
  /\ pc \in Phases
  /\ wave \in 0 .. N + 1
  /\ pos \in [Token -> Place]
  /\ may \in [Token -> SUBSET Place]
  /\ {journal, committed, rolling, rolled} \subseteq Levels
  /\ log \in SUBSET Records /\ durLog \in SUBSET log
  /\ dir \in {"tx", "moving", "gone"}

\* Once the transaction directory may be garbage, the tree is the before-tree or the
\* after-tree, and so is every tree a power loss can leave (recover.rs, state.rs gc).
Atomic == dir # "tx" => Before \/ After

\* Recovery never refuses: no kill, power loss or failed call at any point, however
\* often, leaves a state that decide, preflight or undo cannot interpret (DESIGN.md,
\* Lemma 2; recover.rs).
NeverRefuses == pc # "refused"

\* COMMITTED and the rollback markers are never both there, whatever subset of the
\* unsynced entries a power loss keeps (recover.rs, decide).
MarkersExclusive == Seen(committed) => ~ Seen(rolling) /\ ~ Seen(rolled)

\* Each marker tells the truth about every tree that may be left.
MarkersTruthful == (Seen(committed) => After) /\ (Seen(rolled) => Before)

\* Once ROLLING_BACK is durable the tokens only go back: no step, and no power loss in
\* whatever recovery follows, leaves one further on than it could already be (DESIGN.md,
\* Lemma 3, "the potential never increases"; tests/crash_sim.rs, phi).
PotentialNeverRises ==
  [][rolling = "durable" =>
       \A t \in Token : \A p \in may'[t] : \E q \in may[t] : p.hi <= q.hi]_vars

\* Liveness, which needs no bound on crashes: once they stop, recovery comes to an end,
\* the directory is gone and the tree is the before- or the after-tree (recover.rs).
Settles == <>[][~ Crash]_vars => <>[](dir = "gone" /\ (Before \/ After))

-----------------------------------------------------------------------------
(* What it implements. *)

\* The outcome is what the durable markers say, until the directory is gone for good.
Outcome ==
  CASE dir = "gone" -> "closed"
    [] dir # "gone" /\ committed = "durable" -> "committed"
    [] dir # "gone" /\ committed # "durable" /\ rolled = "durable" -> "rolled back"
    [] dir # "gone" /\ committed # "durable" /\ rolled # "durable" /\ rolling = "durable" ->
         "aborting"
    [] OTHER -> "open"

\* A durable COMMITTED or ROLLED_BACK is final, one that is only visible is not; a durable
\* ROLLING_BACK is never followed by a commit; and nothing is closed half done, whatever is
\* killed, lost or refused on the way (lib.rs; transaction.rs commit; recover.rs decide).
A == INSTANCE AtomicCommit WITH outcome <- Outcome, before <- Before, after <- After
ImplementsAtomicCommit == A!ASpec

\* The log is used the way ProgressLog is shown to provide it: records are added, made durable
\* by a sync, and lost only when they were not.
L == INSTANCE RecordLog
ImplementsRecordLog == L!RSpec

-----------------------------------------------------------------------------
(* The inductive invariant behind them. *)

\* Every place that may be left: moves before wave k are made, moves after it are not.
Shape(k) ==
  \A t \in Token : \A p \in may[t] : \A w \in Moves[t] :
    (w < k => Post(p, w)) /\ (w > k => Pre(p, w))
DoneTo(k) == \A t \in Token : \A p \in may[t] : \A w \in Moves[t] : w <= k => Post(p, w)
UndoneFrom(k) == \A t \in Token : \A p \in may[t] : \A w \in Moves[t] : w >= k => Pre(p, w)

\* A token is seen where it may be, and only ever at its own locations.
PlacesInv ==
  \A t \in Token :
    /\ pos[t] \in may[t]
    /\ \A p \in may[t] : p.lo \in Where(t) /\ p.hi \in Where(t) /\ p.lo <= p.hi

\* At most one wave is mixed, and each phase knows which.
TreeInv ==
  /\ \E k \in 0 .. N + 1 : Shape(k)
  /\ pc \in {"prepare", "publish", "rolled"} => Before
  /\ pc = "apply" => wave >= 1 /\ Shape(wave)
  /\ pc \in {"log", "logged"} => wave \in 1 .. N /\ DoneTo(wave) /\ UndoneFrom(wave + 1)
  /\ pc = "mark" => After
  /\ pc \in {"gc", "sync_gc"} => Before \/ After
  /\ pc = "undo" => wave <= N /\ UndoneFrom(wave + 1)
  /\ pc \in {"undo_log", "undo_logged"} => wave \in 1 .. N /\ UndoneFrom(wave)
  /\ dir # "tx" => Before \/ After

Undoing == {"undo", "undo_log", "undo_logged"}
RollingBack == {"preflight", "stabilize", "mark_rolling", "rolling"} \union Undoing

\* What each marker and the journal say about the tree, and each phase about them.
MarkInv ==
  /\ Seen(committed) => After /\ ~ Seen(rolling) /\ ~ Seen(rolled)
  /\ Seen(rolled) => Before
  /\ Seen(rolled) \/ pc = "rolled" => rolling = "durable"
  /\ Seen(rolling) => journal = "durable"
  /\ journal # "durable" => Before
  /\ pc \in {"prepare", "publish", "apply", "log", "logged"} =>
       ~ Seen(committed) /\ ~ Seen(rolling) /\ ~ Seen(rolled)
  /\ pc = "mark" => ~ Seen(rolling) /\ ~ Seen(rolled)
  /\ pc \in {"apply", "log", "logged", "mark", "mark_rolling", "rolling", "rolled"}
              \union Undoing => journal = "durable"
  /\ pc \in RollingBack => ~ Seen(committed) /\ ~ Seen(rolled) /\ Seen(journal)
  /\ pc = "rolled" => ~ Seen(committed)
  /\ pc = "rolling" => Seen(rolling)
  /\ pc \in Undoing => rolling = "durable"
  /\ dir = "moving" => pc \in {"sync_gc", "idle"}
  /\ dir = "gone" => pc = "idle"
  /\ pc = "sync_gc" => dir = "moving"

\* The progress log is a lower bound of every place that may be left.
LogInv ==
  /\ \A u \in 1 .. N : UndoDone(u) \in log => rolling = "durable" /\ UndoneFrom(u)
  /\ \A a \in 1 .. N : ApplyDone(a) \in log =>
       \A t \in Token : \A p \in may[t] : \A w \in Moves[t] :
         (/\ w <= a /\ w < N
          /\ \A u \in 1 .. N : UndoDone(u) \in durLog => w + 1 < u) => Post(p, w)
  /\ pc = "undo" => wave = N \/ UndoDone(wave + 1) \in durLog
  /\ pc = "undo_logged" => UndoDone(wave) \in log

IInv == TypeOK /\ PlacesInv /\ TreeInv /\ MarkInv /\ LogInv /\ NeverRefuses
=============================================================================
