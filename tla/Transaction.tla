---------------------------- MODULE Transaction ----------------------------
(* One root, the process that works on it, and the crashes of both: the whole *)
(* life of a transaction (src/src/transaction.rs), of recovery                *)
(* (src/src/recover.rs) and of the transaction directory (src/src/state.rs),  *)
(* one file system call per step.                                             *)
(*                                                                            *)
(* A phase computes, from what it reads, the calls it is going to make        *)
(* (`todo`) and they are then made one at a time; the next phase starts when  *)
(* none is left.  Between two calls the process can be killed, the machine    *)
(* can lose power, and a call can fail.                                       *)
EXTENDS Overlay

CONSTANT Scenarios
  (* What to run:                                                                *)
  (*   items, scripts                    the starting tree, the operations      *)
  (*   profile                           the simulator's profile, in Profiles   *)
  (*   begins, crashes, faults, intrusions                                      *)
  (*     bounds: the transactions begun, the kills and power losses, the calls  *)
  (*     that fail although they could succeed, and the files another program   *)
  (*     puts in the way                                                        *)

ASSUME ScenarioAssumption ==
  \A s \in Scenarios :
    /\ s.profile \in Profiles
    /\ {s.begins, s.crashes, s.faults, s.intrusions} \subseteq Nat

VARIABLES
  fs,        \* the file system
  pc,        \* what the process is doing, "idle" outside begin/commit/recover
  todo,      \* the calls the current phase still has to make
  mem,       \* the memory of the process, lost when it dies
  result,    \* what the last public call returned
  spent,     \* the bounded events so far
  scenario,  \* the scenario of this behaviour
  ghost      \* history: the trees the transaction may leave, and its outcome

vars == <<fs, pc, todo, mem, result, spent, scenario, ghost>>

Profile == scenario.profile
MaxBegins == scenario.begins
MaxCrashes == scenario.crashes
MaxFaults == scenario.faults
MaxIntrusions == scenario.intrusions

-----------------------------------------------------------------------------
(* Names (state.rs). *)

TxName(i) == "tx-" \o ToString(i)
Private == <<PrivateDir>>
TxDir(i) == <<PrivateDir, TxName(i)>>
GcDir(i) == <<PrivateDir, "gc-" \o TxName(i)>>
ProbeDir(k) == <<PrivateDir, "probe-" \o ToString(k)>>
InTx(i, name) == Append(TxDir(i), name)

Markers == {"COMMITTED", "ROLLING_BACK", "ROLLED_BACK"}
HasMarker(i, m) == Stat(fs, InTx(i, m)) # NoIno

\* The process starts a bounded number of times: every start follows a begin, a
\* crash, a fault or an intrusion.
MaxRuns == MaxBegins + MaxCrashes + MaxFaults + MaxIntrusions + 1

\* Recovery visits the entries of .fstx in the order of their names.
RecoveryOrder ==
  [i \in 1 .. MaxBegins |-> GcDir(i)] \o [i \in 1 .. MaxRuns |-> ProbeDir(i)]
    \o [i \in 1 .. MaxBegins |-> TxDir(i)]
IsTx(d) == \E i \in 1 .. MaxBegins : d = TxDir(i)

-----------------------------------------------------------------------------
(* What the transaction promises. *)

Tree == TreeOf(fs)

NewIno == NoIno
Promise == INSTANCE DirectTree
             WITH tree <- ghost.want, UserPaths <- {}, Texts <- {}

\* Whether tree t is the promised tree w: same paths, kinds, contents, and the
\* same inodes for everything the transaction did not create.
Matches(t, w) ==
  /\ DOMAIN t = DOMAIN w
  /\ \A p \in DOMAIN w :
       /\ t[p].kind = w[p].kind /\ t[p].text = w[p].text
       /\ w[p].ino \in {NewIno, t[p].ino}

-----------------------------------------------------------------------------
(* Calls made up of several file system calls. *)

\* set_marker: create (an existing marker is fine), then sync the directory.
SetMarker(i, m) ==
  (IF HasMarker(i, m) THEN <<>> ELSE <<Create(InTx(i, m), Blank)>>) \o <<FsyncDir(TxDir(i))>>

\* delete_tree(d), children first, with every path below d moved below `at`.
DeleteTree(d, at) ==
  LET paths == {p \in PathsOf(fs.vol) : p = d \/ IsAncestorOf(d, p)}
      byDepth == [n \in 1 .. DepthBound |->
                    Listing({p \in paths : Len(p) = DepthBound + 1 - n})]
      order == FlattenSeq(byDepth)
  IN  [n \in DOMAIN order |->
         IF IsDir(fs, order[n]) THEN Rmdir(Rebase(order[n], d, at))
         ELSE Unlink([path |-> Rebase(order[n], d, at), parent |-> AnyParent])]

Unguarded(p) == [path |-> p, parent |-> AnyParent]

\* Slip: what is garbage is not deleted.
GcKeeps(i) == <<Rename(Unguarded(TxDir(i)), Unguarded(GcDir(i))), FsyncDir(Private)>>

\* gc(): one rename makes the directory garbage, which is then deleted.
Gc(i) ==
  <<Rename(Unguarded(TxDir(i)), Unguarded(GcDir(i))), FsyncDir(Private)>>
    \o DeleteTree(TxDir(i), GcDir(i)) \o <<FsyncDir(Private)>>

AppendProgress(i, rec) == <<AppendLog(InTx(i, "progress"), rec), FsyncFile(InTx(i, "progress"))>>

ProgressLog(i) ==
  IF Stat(fs, InTx(i, "progress")) = NoIno THEN {}
  ELSE fs.data[Stat(fs, InTx(i, "progress"))].log

\* What rollback makes durable before it changes anything.
Stabilize(i, plan) ==
  LET parents == SyncParents(fs, FlattenSeq([t \in DOMAIN plan.tokens |-> plan.tokens[t].locs]))
      own == SelectSeq(<<InTx(i, "staged"), InTx(i, "backup"), TxDir(i), Private>>,
                       LAMBDA d : FsyncDir(d) \notin Range(parents) /\ Stat(fs, d) # NoIno)
  IN  parents \o [n \in DOMAIN own |-> FsyncDir(own[n])]

\* prepare(): everything the journal refers to is durable before the journal is.
Journal(i, plan) == [Text(TxName(i)) EXCEPT !.plan = plan]
Prepare(i, plan) ==
  LET staged == SelectSeq(plan.tokens, LAMBDA t : t.kind = "file" /\ IsPrivate(t.locs[1].path))
  IN  [n \in DOMAIN staged |-> FsyncFile(staged[n].locs[1].path)]
      \o <<FsyncDir(InTx(i, "staged")), FsyncDir(InTx(i, "backup")),
           Create(InTx(i, "progress"), Blank), FsyncFile(InTx(i, "progress")),
           FsyncDir(TxDir(i)), FsyncDir(Private),
           Create(InTx(i, "journal.tmp"), Journal(i, plan)), FsyncFile(InTx(i, "journal.tmp")),
           Rename(Unguarded(InTx(i, "journal.tmp")), Unguarded(InTx(i, "journal"))),
           FsyncDir(TxDir(i))>>

\* decide(): what recovery does with a transaction directory.
Decide(i) ==
  LET committed == HasMarker(i, "COMMITTED")
      rolling == HasMarker(i, "ROLLING_BACK")
      rolled == HasMarker(i, "ROLLED_BACK")
      journal == Stat(fs, InTx(i, "journal"))
      backupUsed == Names(fs, InTx(i, "backup")) # {} /\ Stat(fs, InTx(i, "backup")) # NoIno
      valid == fs.data[journal].text = TxName(i) /\ Validate(fs.data[journal].plan)
  IN  CASE committed /\ (rolling \/ rolled) -> "required"
        [] committed /\ ~ rolling /\ ~ rolled -> "committed"
        [] ~ committed /\ rolled -> "rolled_back"
        [] ~ committed /\ ~ rolled /\ journal = NoIno ->
             IF backupUsed \/ rolling THEN "required" ELSE "discard"
        [] OTHER -> IF valid THEN "roll_back" ELSE "required"

-----------------------------------------------------------------------------
(* The process. *)

\* A process that is doing nothing.  `cached` says it has probed this root.
Fresh(cached) ==
  [role |-> "none", tx |-> 0, ov |-> EmptyOverlay, script |-> <<>>, blobs |-> 0,
   plan |-> NoPlan, wave |-> 0, pos |-> <<>>, queue |-> <<>>, refused |-> FALSE,
   cached |-> cached]

\* What inspect has announced (module Inspect), before it is asked.  An announcement is about
\* the root as it was: a power loss, another program and the next transaction overtake it,
\* the death of the process that recovers does not.
Unasked == [txs |-> <<>>, tree |-> <<>>, garbage |-> {}, asked |-> FALSE]
Overtaken == [ghost EXCEPT !.announced = Unasked]

Init ==
  /\ scenario \in Scenarios
  /\ fs = FsWith(scenario.items)
  /\ pc = "idle" /\ todo = <<>> /\ mem = Fresh(FALSE)
  /\ result = "none"
  /\ spent = [begins |-> 0, crashes |-> 0, faults |-> 0, intrusions |-> 0, runs |-> 0]
  /\ ghost = [before |-> Tree, want |-> Tree, outcome |-> "before", found |-> <<>>,
              foreign |-> NoIno, announced |-> Unasked]

\* The process goes on to a phase, with the calls it makes there.
Goto(phase, calls) == pc' = phase /\ todo' = calls
\* The public call returns, and its lock is released.
Return(r) == Goto("idle", <<>>) /\ mem' = Fresh(mem.cached) /\ result' = r
At0(phase) == pc = phase /\ todo = <<>>

\* One call of the current phase succeeds.
Step ==
  /\ todo # <<>> /\ Can(fs, Head(todo))
  /\ fs' = Do(fs, Head(todo)) /\ todo' = Tail(todo)
  /\ UNCHANGED <<pc, mem, result, spent, scenario, ghost>>

\* ensure_private_dir, the first thing begin does.
BeginCall ==
  /\ At0("idle") /\ spent.begins < MaxBegins /\ spent.runs < MaxRuns
  /\ spent.begins < Len(scenario.scripts)
  /\ Goto("ensure", IF Stat(fs, Private) # NoIno THEN <<>>
                    ELSE <<Mkdir(Private), FsyncDir(Root)>>)
  /\ mem' = [Fresh(mem.cached) EXCEPT !.role = "begin"]
  /\ spent' = [spent EXCEPT !.runs = @ + 1]
  /\ ghost' = Overtaken
  /\ UNCHANGED <<fs, result, scenario>>

\* Nothing is called any more: the root is settled, or recovery asked for a human.
Settled == At0("idle") /\ result \in {"ok", "err", "recovered", "refused"}

\* recover_on.  It is called once after whatever left the root unsettled.
Unsettled == At0("idle") /\ spent.runs < MaxRuns /\ ~ Settled

\* What recovery must not change when it refuses: the tree, the transaction's files.
Evidence(f) ==
  [p \in {q \in PathsOf(f.vol) : ~ IsPrivate(q) \/ (Len(q) > 1 /\ IsTx(SubSeq(q, 1, 2)))} |->
     <<Stat(f, p), f.kind[Stat(f, p)], f.data[Stat(f, p)]>>]

\* The outcome the tree now shows, for the history variable.
Shown == IF Matches(Tree, ghost.want) THEN "after" ELSE "before"

\* Without .fstx there is nothing to recover.
RecoverNothing ==
  /\ Unsettled /\ Stat(fs, Private) = NoIno
  /\ Return("recovered")
  /\ ghost' = [ghost EXCEPT !.outcome = IF @ = "open" THEN Shown ELSE @]
  /\ UNCHANGED <<fs, spent, scenario>>

RecoverCall ==
  /\ Unsettled /\ Stat(fs, Private) # NoIno
  /\ Goto("ensure", <<>>)
  /\ mem' = [Fresh(mem.cached) EXCEPT !.role = "recover"]
  /\ spent' = [spent EXCEPT !.runs = @ + 1]
  /\ ghost' = [ghost EXCEPT !.found = IF spent.intrusions = 0 THEN @ ELSE Evidence(fs)]
  /\ UNCHANGED <<fs, result, scenario>>

\* caps::probe, unless this process has already probed the root.
ProbeCaps ==
  /\ At0("ensure")
  /\ Goto("probe", IF mem.cached THEN <<>>
                   ELSE <<Mkdir(ProbeDir(spent.runs)), FsyncDir(ProbeDir(spent.runs)),
                          Rmdir(ProbeDir(spent.runs))>>)
  /\ UNCHANGED <<fs, mem, result, spent, scenario, ghost>>

\* recover_locked reads the names once.
ReadNames ==
  /\ At0("probe")
  /\ Goto("scan", <<>>)
  /\ mem' = [mem EXCEPT !.cached = TRUE,
                        !.queue = SelectSeq(RecoveryOrder, LAMBDA d : Stat(fs, d) # NoIno)]
  /\ UNCHANGED <<fs, result, spent, scenario, ghost>>

NextName == Head(mem.queue)
TxOf(d) == CHOOSE i \in 1 .. MaxBegins : TxDir(i) = d
Scanning == At0("scan") /\ mem.queue # <<>>

\* gc-* and probe-*: make the rename durable, then delete.
SweepGarbage ==
  /\ Scanning /\ ~ IsTx(NextName)
  /\ Goto("sweep", <<FsyncDir(Private)>> \o DeleteTree(NextName, NextName) \o <<FsyncDir(Private)>>)
  /\ mem' = [mem EXCEPT !.queue = Tail(@)]
  /\ UNCHANGED <<fs, result, spent, scenario, ghost>>

\* A transaction that never touched the tree, or whose outcome is on record.
SettleTx ==
  /\ Scanning /\ IsTx(NextName)
  /\ Decide(TxOf(NextName)) \in {"discard", "committed", "rolled_back"}
  /\ Goto("sweep", Gc(TxOf(NextName)))
  /\ mem' = [mem EXCEPT !.queue = Tail(@)]
  /\ UNCHANGED <<fs, result, spent, scenario, ghost>>

\* A directory recovery cannot interpret is left alone.
RefuseTx ==
  /\ Scanning /\ IsTx(NextName)
  /\ Decide(TxOf(NextName)) = "required"
  /\ mem' = [mem EXCEPT !.queue = Tail(@), !.refused = TRUE]
  /\ UNCHANGED <<fs, pc, todo, result, spent, scenario, ghost>>

\* A prepared transaction that is not committed is rolled back.
RollBackTx ==
  /\ Scanning /\ IsTx(NextName)
  /\ Decide(TxOf(NextName)) = "roll_back"
  /\ Goto("preflight", <<>>)
  /\ mem' = [mem EXCEPT !.queue = Tail(@), !.tx = TxOf(NextName),
                        !.plan = fs.data[Stat(fs, InTx(TxOf(NextName), "journal"))].plan]
  /\ UNCHANGED <<fs, result, spent, scenario, ghost>>

SweepDone ==
  /\ At0("sweep") /\ mem.role \in {"begin", "recover"}
  /\ Goto("scan", <<>>)
  /\ UNCHANGED <<fs, mem, result, spent, scenario, ghost>>

\* recover_locked is done: recover returns, begin goes on unless it refused.
RecoveryReturns ==
  /\ At0("scan") /\ mem.queue = <<>> /\ (mem.role = "recover" \/ mem.refused)
  /\ Return(IF mem.refused THEN "refused" ELSE "recovered")
  /\ ghost' = IF mem.refused \/ ghost.outcome # "open" THEN ghost
              ELSE [ghost EXCEPT !.outcome = Shown]
  /\ UNCHANGED <<fs, spent, scenario>>

\* begin: the new transaction's directories.
MakeTxDirs ==
  /\ At0("scan") /\ mem.queue = <<>> /\ mem.role = "begin" /\ ~ mem.refused
  /\ spent' = [spent EXCEPT !.begins = @ + 1]
  /\ LET i == spent.begins + 1
     IN  /\ Goto("open", <<Mkdir(TxDir(i)), Mkdir(InTx(i, "staged")), Mkdir(InTx(i, "backup"))>>)
         /\ mem' = [mem EXCEPT !.tx = i, !.script = scenario.scripts[i]]
  /\ ghost' = [ghost EXCEPT !.before = Tree, !.want = Tree, !.outcome = "open"]
  /\ UNCHANGED <<fs, result, scenario>>

-----------------------------------------------------------------------------
(* Staging. *)

Staging == At0("open") \/ At0("stage")
StagingReady == Staging /\ mem.script # <<>>
Cmd == Head(mem.script)
Stage(ov) == mem' = [mem EXCEPT !.ov = ov, !.script = Tail(@)]

Accepted ==
  CASE Cmd.op = "write" -> CanWrite(fs, mem.ov, Cmd.path)
    [] Cmd.op = "create_dir_all" -> CanCreateDirAll(fs, mem.ov, Cmd.path)
    [] Cmd.op = "rename" -> CanRename(fs, mem.ov, Cmd.path, Cmd.to)
    [] Cmd.op = "remove" -> CanRemove(fs, mem.ov, Cmd.path)
    [] Cmd.op = "remove_dir_all" -> CanRemoveDirAll(fs, mem.ov, Cmd.path)
    [] Cmd.op = "outside" -> TRUE

\* write(): the data becomes blob n, then the overlay records it.
StageWrite ==
  /\ StagingReady /\ Cmd.op = "write" /\ Accepted
  /\ LET blob == Create(StagedPath(TxDir(mem.tx), Blob(mem.blobs)), Text(Cmd.text))
     IN  /\ Can(fs, blob) /\ fs' = Do(fs, blob)
         /\ Goto("stage", <<>>)
         /\ mem' = [mem EXCEPT !.ov = Write(fs, @, Cmd.path, mem.blobs),
                               !.blobs = @ + 1, !.script = Tail(@)]
  /\ ghost' = [ghost EXCEPT !.want = Promise!Write(@, Cmd.path, Cmd.text)]
  /\ UNCHANGED <<result, spent, scenario>>

StageCreateDirAll ==
  /\ StagingReady /\ Cmd.op = "create_dir_all" /\ Accepted
  /\ Goto("stage", <<>>) /\ Stage(CreateDirAll(fs, mem.ov, Cmd.path))
  /\ ghost' = [ghost EXCEPT !.want = Promise!Mkdirs(@, Cmd.path)]
  /\ UNCHANGED <<fs, result, spent, scenario>>

StageRename ==
  /\ StagingReady /\ Cmd.op = "rename" /\ Accepted
  /\ Goto("stage", <<>>) /\ Stage(RenameTo(fs, mem.ov, Cmd.path, Cmd.to))
  /\ ghost' = [ghost EXCEPT !.want = Promise!Rename(@, Cmd.path, Cmd.to)]
  /\ UNCHANGED <<fs, result, spent, scenario>>

StageRemove ==
  /\ StagingReady /\ Cmd.op \in {"remove", "remove_dir_all"} /\ Accepted
  /\ Goto("stage", <<>>) /\ Stage(Removed(fs, mem.ov, Cmd.path))
  /\ ghost' = [ghost EXCEPT !.want = Promise!Cut(@, Cmd.path)]
  /\ UNCHANGED <<fs, result, spent, scenario>>

\* An operation is refused: the transaction goes on without it.
StageRejected ==
  /\ StagingReady /\ ~ Accepted
  /\ Goto("stage", <<>>) /\ Stage(mem.ov)
  /\ UNCHANGED <<fs, result, spent, scenario, ghost>>

\* The data of a write cannot be stored: its blob number is used up.
StageWriteFails ==
  /\ StagingReady /\ Cmd.op = "write" /\ Accepted /\ spent.faults < MaxFaults
  /\ spent' = [spent EXCEPT !.faults = @ + 1]
  /\ Goto("stage", <<>>)
  /\ mem' = [mem EXCEPT !.blobs = @ + 1, !.script = Tail(@)]
  /\ UNCHANGED <<fs, result, scenario, ghost>>

\* Another program, which knows nothing of fstx, replaces a file of the root; the
\* view shows its file wherever it showed the old one.
OutsideReplaces ==
  /\ StagingReady /\ Cmd.op = "outside"
  /\ fs' = PutItem(fs, AFile(Cmd.path, Cmd.text))
  /\ Goto("stage", <<>>) /\ Stage(mem.ov)
  /\ ghost' = [ghost EXCEPT !.before = Tree',
                  !.want = [p \in DOMAIN @ |-> IF @[p].ino = Stat(fs, Cmd.path)
                                               THEN Tree'[Cmd.path] ELSE @[p]]]
  /\ UNCHANGED <<result, spent, scenario>>

-----------------------------------------------------------------------------
(* commit(). *)

CommitReady == Staging /\ mem.script = <<>>

\* The caller commits once the script is staged.  compile first checks that what it
\* will move is still there, then creates the staged directories.
CommitCall ==
  /\ CommitReady
  /\ ~ Conflict(fs, mem.ov)
  /\ Goto("compile", StagedDirs(fs, mem.ov, TxDir(mem.tx)))
  /\ mem' = [mem EXCEPT !.role = "commit"]
  /\ UNCHANGED <<fs, result, spent, scenario, ghost>>

\* Error::Conflict: the transaction is dropped.
CommitConflicts ==
  /\ CommitReady
  /\ Conflict(fs, mem.ov)
  /\ Goto("abandon", Gc(mem.tx))
  /\ mem' = [mem EXCEPT !.role = "commit"]
  /\ UNCHANGED <<fs, result, spent, scenario, ghost>>

\* A transaction dropped without commit.
DropTx ==
  /\ Staging
  /\ Goto("abandon", Gc(mem.tx))
  /\ mem' = [mem EXCEPT !.role = "commit"]
  /\ UNCHANGED <<fs, result, spent, scenario, ghost>>

CompilePlan ==
  /\ At0("compile")
  /\ \E plan \in {Compile(fs, mem.ov, TxDir(mem.tx))} :
         /\ IF plan.waves = <<>> THEN Goto("noop", Gc(mem.tx))
            ELSE Goto("prepare", Prepare(mem.tx, plan))
         /\ mem' = [mem EXCEPT !.plan = plan, !.wave = 1]
  /\ UNCHANGED <<fs, result, spent, scenario, ghost>>

\* apply: the renames of the next wave.
ApplyWave ==
  /\ At0("prepare") \/ At0("applied")
  /\ mem.wave <= Len(mem.plan.waves)
  /\ Goto("apply", ApplyCalls(mem.plan, mem.wave))
  /\ UNCHANGED <<fs, mem, result, spent, scenario, ghost>>

\* Slip: the record names the next wave.
ApplyBarrierLogsNext ==
  /\ At0("apply")
  /\ Goto("applied", BarrierCalls(fs, mem.plan, mem.wave)
                       \o AppendProgress(mem.tx, ApplyDone(mem.wave + 1)))
  /\ mem' = [mem EXCEPT !.wave = @ + 1]
  /\ UNCHANGED <<fs, result, spent, scenario, ghost>>

\* apply: the barrier after a wave, then its progress record.
ApplyBarrier ==
  /\ At0("apply")
  /\ Goto("applied", BarrierCalls(fs, mem.plan, mem.wave)
                       \o AppendProgress(mem.tx, ApplyDone(mem.wave)))
  /\ mem' = [mem EXCEPT !.wave = @ + 1]
  /\ UNCHANGED <<fs, result, spent, scenario, ghost>>

MarkCommitted ==
  /\ At0("applied") /\ mem.wave > Len(mem.plan.waves)
  /\ Goto("mark", SetMarker(mem.tx, "COMMITTED"))
  /\ UNCHANGED <<fs, mem, result, spent, scenario, ghost>>

CollectCommitted ==
  /\ At0("mark")
  /\ Goto("gc", Gc(mem.tx))
  /\ ghost' = [ghost EXCEPT !.outcome = "after"]
  /\ UNCHANGED <<fs, mem, result, spent, scenario>>

CommitReturns ==
  /\ At0("gc") \/ At0("noop")
  /\ Return("ok")
  /\ ghost' = [ghost EXCEPT !.outcome = "after"]
  /\ UNCHANGED <<fs, spent, scenario>>

\* The transaction is gone without having touched the tree.
AbandonReturns ==
  /\ At0("abandon") \/ At0("undo_gc")
  /\ Return("err")
  /\ ghost' = [ghost EXCEPT !.outcome = "before"]
  /\ UNCHANGED <<fs, spent, scenario>>

-----------------------------------------------------------------------------
(* rollback(), in recovery and in a commit whose apply failed. *)

InRecovery == mem.role \in {"begin", "recover"}

RollbackStart ==
  /\ At0("preflight") /\ Preflight(fs, mem.plan, ProgressLog(mem.tx))
  /\ Goto("stabilize", Stabilize(mem.tx, mem.plan))
  /\ mem' = [mem EXCEPT !.pos = Positions(fs, mem.plan), !.wave = Len(mem.plan.waves)]
  /\ UNCHANGED <<fs, result, spent, scenario, ghost>>

\* RecoveryRequired, which recovery notes before it goes on with the next name; from
\* commit RollbackFailed, named apart here from the one an I/O error causes.
Refuse ==
  /\ IF InRecovery
     THEN Goto("scan", <<>>) /\ mem' = [mem EXCEPT !.refused = TRUE] /\ UNCHANGED result
     ELSE Return("rollback_refused")
  /\ UNCHANGED <<fs, spent, scenario, ghost>>

RollbackRefused ==
  /\ At0("preflight") /\ ~ Preflight(fs, mem.plan, ProgressLog(mem.tx))
  /\ Refuse

MarkRollingBack ==
  /\ At0("stabilize")
  /\ Goto("rolling", SetMarker(mem.tx, "ROLLING_BACK"))
  /\ UNCHANGED <<fs, mem, result, spent, scenario, ghost>>

\* The undo of a wave, from the positions preflight found; a token it cannot bring
\* back would be one more reason to refuse.
UndoWave ==
  /\ At0("rolling") \/ At0("undone")
  /\ mem.wave > 0
  /\ IF Undoable(mem.plan, mem.wave, mem.pos)
     THEN /\ Goto("undo", UndoCalls(mem.plan, mem.wave, mem.pos))
          /\ mem' = [mem EXCEPT !.pos = UndonePos(mem.plan, mem.wave, @)]
          /\ UNCHANGED <<fs, result, spent, scenario, ghost>>
     ELSE Refuse

\* Slip: the directories of the undone wave are not synced.
UndoBarrierUnsynced ==
  /\ At0("undo")
  /\ Goto("undone", AppendProgress(mem.tx, UndoDone(mem.wave)))
  /\ mem' = [mem EXCEPT !.wave = @ - 1]
  /\ UNCHANGED <<fs, result, spent, scenario, ghost>>

UndoBarrier ==
  /\ At0("undo")
  /\ Goto("undone", BarrierCalls(fs, mem.plan, mem.wave)
                      \o AppendProgress(mem.tx, UndoDone(mem.wave)))
  /\ mem' = [mem EXCEPT !.wave = @ - 1]
  /\ UNCHANGED <<fs, result, spent, scenario, ghost>>

MarkRolledBack ==
  /\ At0("rolling") \/ At0("undone")
  /\ mem.wave = 0
  /\ Goto("rolled", SetMarker(mem.tx, "ROLLED_BACK"))
  /\ UNCHANGED <<fs, mem, result, spent, scenario, ghost>>

CollectRolledBack ==
  /\ At0("rolled")
  /\ Goto(IF InRecovery THEN "sweep" ELSE "undo_gc", Gc(mem.tx))
  /\ UNCHANGED <<fs, mem, result, spent, scenario, ghost>>

-----------------------------------------------------------------------------
(* A call that fails: because it cannot succeed, or by an I/O error. *)

Failing ==
  /\ todo # <<>>
  /\ \/ ~ Can(fs, Head(todo)) /\ UNCHANGED spent
     \/ /\ Can(fs, Head(todo)) /\ spent.faults < MaxFaults
        /\ spent' = [spent EXCEPT !.faults = @ + 1]

\* begin and recover return the error; so does a rollback inside them.
RecoveryFails ==
  /\ Failing /\ InRecovery
  /\ pc # "unprobe" /\ (pc = "probe" => Head(todo).call = "mkdir")
  /\ Return("error")
  /\ UNCHANGED <<fs, scenario, ghost>>

\* The probe cleans up after an error, and ignores an error of the cleaning up.
ProbeFails ==
  /\ Failing /\ pc \in {"probe", "unprobe"} /\ Head(todo).call # "mkdir"
  /\ IF Head(todo).call = "rmdir" THEN Goto(pc, <<>>)
     ELSE Goto("unprobe", <<Rmdir(ProbeDir(spent.runs))>>)
  /\ UNCHANGED <<fs, mem, result, scenario, ghost>>

ProbeFailed ==
  /\ At0("unprobe")
  /\ Return("error")
  /\ UNCHANGED <<fs, spent, scenario, ghost>>

\* Nothing in the tree was touched yet: the directory goes, errors ignored.
PrepareFails ==
  /\ Failing /\ pc \in {"compile", "prepare"}
  /\ Goto("abandon", Gc(mem.tx))
  /\ UNCHANGED <<fs, mem, result, scenario, ghost>>

ApplyFails ==
  /\ Failing /\ pc \in {"apply", "applied"}
  /\ Goto("preflight", <<>>)
  /\ UNCHANGED <<fs, mem, result, scenario, ghost>>

\* Slip: a marker that may be there is reported as a transaction that did not happen.
MarkFailsDenies ==
  /\ Failing /\ pc = "mark"
  /\ Return("err") /\ ghost' = [ghost EXCEPT !.outcome = "before"]
  /\ UNCHANGED <<fs, scenario>>

\* The marker may or may not survive: CommitOutcomeUnknown.
MarkFails ==
  /\ Failing /\ pc = "mark"
  /\ Return("unknown")
  /\ UNCHANGED <<fs, scenario, ghost>>

RollbackFails ==
  /\ Failing /\ mem.role = "commit"
  /\ pc \in {"stabilize", "rolling", "undo", "undone", "rolled", "undo_gc"}
  /\ Return("rollback_failed")
  /\ UNCHANGED <<fs, scenario, ghost>>

\* The garbage of a decided transaction is left to the next recovery.
GcFails ==
  /\ Failing /\ pc \in {"gc", "abandon"}
  /\ Goto(pc, <<>>)
  /\ UNCHANGED <<fs, mem, result, scenario, ghost>>

\* A transaction that changes nothing reports that it could not be collected.
NoopFails ==
  /\ Failing /\ pc = "noop"
  /\ Return("err")
  /\ UNCHANGED <<fs, scenario, ghost>>

-----------------------------------------------------------------------------
(* Crashes. *)

\* A crash inside a phase's own computation is one before its first call.
Interruptible == todo # <<>> \/ pc \in {"idle", "stage"}

Crashing ==
  /\ spent.crashes < MaxCrashes
  /\ spent' = [spent EXCEPT !.crashes = @ + 1]
  /\ pc' = "idle" /\ todo' = <<>> /\ mem' = Fresh(FALSE) /\ result' = "none"
  /\ UNCHANGED scenario

\* The process dies between two calls; the kernel and its caches survive.
Kill ==
  /\ pc # "idle" /\ Interruptible
  /\ Crashing
  /\ UNCHANGED <<fs, ghost>>

\* What is inside a gc- or probe- directory is only ever deleted.
Garbage(img) ==
  {InoAt(img, d) : d \in {RecoveryOrder[n] : n \in DOMAIN RecoveryOrder}
                          \ {TxDir(i) : i \in 1 .. MaxBegins}} \ {NoIno}
WithoutGarbage(img) ==
  LET deleted == Garbage(img) IN Restrict(img, {s \in DOMAIN img : s[1] \notin deleted})

PowerFails ==
  /\ fs.pending # <<>> \/ fs.dirty # {}
  /\ Interruptible
  /\ Crashing
  /\ ghost' = Overtaken
  /\ \E img \in {WithoutGarbage(i) : i \in Survivors(fs, Profile)}, tear \in Tears :
       fs' = PowerLoss(fs, img, tear)

-----------------------------------------------------------------------------
(* Other programs, which do not take part in the protocol (DESIGN.md, section *)
(* 6, "Residual risk"; src/tests/recovery_decisions.rs).                      *)

Intruding ==
  /\ spent.begins > 0 /\ Stat(fs, TxDir(spent.begins)) # NoIno
  /\ spent.intrusions < MaxIntrusions
  /\ spent' = [spent EXCEPT !.intrusions = @ + 1]

JournalOf(i) == Stat(fs, InTx(i, "journal"))

\* Where a file would be in the way: at the locations of the plan and, while no process
\* works on the root, at any place recovery looks at.
IntrusionPlaces(i) ==
  LET tokens == IF JournalOf(i) = NoIno THEN <<>> ELSE fs.data[JournalOf(i)].plan.tokens
      planned == UNION {{loc.path : loc \in Range(tokens[t].locs)} : t \in DOMAIN tokens}
  IN  IF pc = "idle"
      THEN planned \union {InTx(i, m) : m \in Markers} \union {Append(InTx(i, "backup"), "0")}
      ELSE {p \in planned : ~ IsPrivate(p)}

OutsideCreates ==
  /\ Intruding
  /\ UNCHANGED <<pc, todo, mem, result, scenario>>
  /\ \E p \in IntrusionPlaces(spent.begins) :
       LET file == Create(p, Text("theirs"))
       IN  /\ Can(fs, file)
           /\ \E f \in {Do(fs, file)} :
                /\ fs' = f
                /\ ghost' = [Overtaken EXCEPT !.found = Evidence(f),
                                              !.foreign = IF IsPrivate(p) THEN @ ELSE fs.next]

\* An entry of the plan is moved from one of its places to another.
OutsideMoves ==
  /\ Intruding
  /\ UNCHANGED <<pc, todo, mem, result, scenario>>
  /\ pc = "idle" /\ JournalOf(spent.begins) # NoIno
  /\ \E n \in DOMAIN fs.data[JournalOf(spent.begins)].plan.tokens :
       LET locs == Range(fs.data[JournalOf(spent.begins)].plan.tokens[n].locs)
       IN  \E from, to \in locs :
             LET move == Rename(Unguarded(from.path), Unguarded(to.path))
             IN  /\ from # to /\ Can(fs, move)
                 /\ \E f \in {Do(fs, move)} :
                      fs' = f /\ ghost' = [Overtaken EXCEPT !.found = Evidence(f)]

\* The journal no longer has the checksum it was written with.
JournalDamaged ==
  /\ Intruding
  /\ pc = "idle" /\ JournalOf(spent.begins) # NoIno
  /\ fs' = [fs EXCEPT !.data[JournalOf(spent.begins)].text = "torn",
                      !.ddata[JournalOf(spent.begins)].text = "torn"]
  /\ ghost' = Overtaken
  /\ UNCHANGED <<pc, todo, mem, result, scenario>>

-----------------------------------------------------------------------------
\* What the process does by itself, once it has been asked to begin, and recovery
\* after whatever left the root unsettled.
Progress ==
  \/ Step
  \/ RecoverNothing \/ RecoverCall \/ ProbeCaps \/ ReadNames
  \/ SweepGarbage \/ SettleTx \/ RefuseTx \/ RollBackTx \/ SweepDone
  \/ RecoveryReturns \/ MakeTxDirs
  \/ StageWrite \/ StageCreateDirAll \/ StageRename \/ StageRemove \/ StageRejected
  \/ CommitCall \/ CommitConflicts \/ DropTx \/ CompilePlan \/ ApplyWave \/ ApplyBarrier
  \/ MarkCommitted \/ CollectCommitted \/ CommitReturns \/ AbandonReturns
  \/ RollbackStart \/ RollbackRefused \/ MarkRollingBack \/ UndoWave \/ UndoBarrier
  \/ MarkRolledBack \/ CollectRolledBack \/ ProbeFailed

\* What happens to it.
Environment ==
  \/ BeginCall \/ OutsideReplaces \/ OutsideCreates \/ OutsideMoves \/ JournalDamaged
  \/ StageWriteFails \/ RecoveryFails \/ ProbeFails \/ PrepareFails \/ ApplyFails
  \/ MarkFails \/ RollbackFails \/ GcFails \/ NoopFails
  \/ Kill \/ PowerFails

\* The root rests.
Rest == Settled /\ UNCHANGED vars

Next == Progress \/ Environment \/ Rest

Spec == Init /\ [][Next]_vars

-----------------------------------------------------------------------------
(* Properties. *)

Phases ==
  {"idle", "ensure", "probe", "unprobe", "scan", "sweep", "open", "stage", "compile",
   "prepare", "apply", "applied", "mark", "gc", "noop", "abandon", "preflight",
   "stabilize", "rolling", "undo", "undone", "rolled", "undo_gc"}

\* The variables keep their shape: phases, calls that exist, a wave counter inside
\* the plan, directory entries that lead to inodes of known kind.
TypeOK ==
  /\ pc \in Phases
  /\ mem.role \in {"none", "begin", "recover", "commit"}
  /\ mem.wave \in 0 .. Len(mem.plan.waves) + 1
  /\ result \in {"none", "ok", "err", "error", "unknown", "rollback_failed",
                  "rollback_refused", "recovered", "refused"}
  /\ ghost.outcome \in {"open", "before", "after"}
  /\ Range(fs.vol) \subseteq DOMAIN fs.kind
  /\ spent.begins <= MaxBegins /\ spent.crashes <= MaxCrashes /\ spent.faults <= MaxFaults
  /\ spent.intrusions <= MaxIntrusions

\* Recovery has gone through every name and refused nothing.
RecoveryComplete ==
  \/ At0("scan") /\ mem.queue = <<>> /\ ~ mem.refused
  \/ At0("idle") /\ result = "recovered"

\* Leftovers of a transaction or of the probe in .fstx.
Leftovers == {n \in DOMAIN RecoveryOrder : Stat(fs, RecoveryOrder[n]) # NoIno}

\* Atomicity.  Whatever was interrupted, where and how often, a recovery that
\* completes leaves the whole before-tree or the whole after-tree.
RecoveredIsAtomic ==
  RecoveryComplete => Matches(Tree, ghost.before) \/ Matches(Tree, ghost.want)

\* Nothing is left behind in .fstx, by a recovery that completes, and by a call that
\* returns with the root settled unless an I/O error kept it from cleaning up (tests:
\* private_leftovers).
SettledIsClean ==
  /\ RecoveryComplete => Leftovers = {}
  /\ (Settled /\ spent.faults = 0) => Leftovers = {} /\ ghost.outcome # "open"

\* Durability and finality.  Once commit returned Ok, or an error that promises the
\* before-state, or a recovery has reported, no crash, fault or later recovery turns
\* the tree into anything else.
OutcomeIsFinal ==
  /\ ghost.outcome = "after" => Matches(Tree, ghost.want)
  /\ ghost.outcome = "before" => Matches(Tree, ghost.before)

\* Recovery never refuses what crashes alone have left (Lemma 2 of DESIGN.md).
NeverRefuses == ~ mem.refused /\ result \notin {"refused", "rollback_refused"}

\* Until the after-tree is in place, nothing of the before-tree is deleted: each of its
\* files and directories still has a name, in the tree or in the backups.
NothingLost ==
  \/ {ghost.before[p].ino : p \in DOMAIN ghost.before} \subseteq Range(fs.vol)
  \/ Matches(Tree, ghost.want)

\* No name is given to a new inode while the removal of its old owner may still be
\* lost (sim.rs, record).
NoNameReuse == ~ fs.broken

\* The markers of a transaction never contradict each other, now or after a power
\* loss that keeps any of the pending operations.
MarkersExclusive ==
  \A i \in 1 .. MaxBegins :
    HasMarker(i, "COMMITTED") => ~ HasMarker(i, "ROLLING_BACK") /\ ~ HasMarker(i, "ROLLED_BACK")

\* What holds of the file system at every single call, also halfway through a recovery,
\* and also if no recovery ever follows.
EveryStateIsSound ==
  TypeOK /\ NothingLost /\ NoNameReuse /\ MarkersExclusive

\* Classification finds every token, after any sequence of crashes (DESIGN.md, Lemma 2).
TokensAreFound ==
  At0("preflight") => \A n \in Tokens(mem.plan) : Classify(fs, mem.plan, n) # Anomaly

\* A recovery that refuses has changed nothing: not the tree, and nothing of the
\* transaction it could not interpret (README.md, "Refuses rather than guesses").
RefusalTouchesNothing ==
  (mem.refused \/ result = "refused") /\ spent.intrusions > 0 => ghost.found = Evidence(fs)

\* No call of a transaction or of recovery overwrites or removes a file another program
\* put into the tree, wherever in its way (DESIGN.md, section 6, "never overwrites").
IntruderKept ==
  [][(spent'.crashes = spent.crashes /\ ghost.foreign \in Range(fs.vol))
       => ghost.foreign \in Range(fs'.vol)]_vars
=============================================================================
