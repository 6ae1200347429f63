-------------------------------- MODULE Cli --------------------------------
(* The command fstx apply (src/cli/src/main.rs, changes.rs): a change set is read, its expectations  *)
(* are checked, its operations staged one after the other, the transaction committed, or dropped on  *)
(* a dry run, and the exit code and the message say what became of it.  Staging is the library's,    *)
(* module Staging with the plan it compiles; another program may change the tree at every point      *)
(* before the commit.                                                                                *)
EXTENDS Staging

CONSTANTS
  ChangeSets,  \* what may be asked for: [sync, parses, dry, expect, ops]
  EditPaths,   \* the files another program writes
  MaxEdits,    \* bound: how often it does
  MaxFaults    \* bound: calls of the library that fail for a reason of their own

\* What another program writes is not in .fstx.
ASSUME CliAssumption == \A p \in EditPaths : p \in Seq(STRING) /\ UserPath(p)

VARIABLES
  cs,       \* the change set
  pc,       \* "start", "walk", "expect", "stage", "replace" (its file was read), "commit", "done"
  unmet,    \* the expectations not yet checked
  code,     \* the exit code
  outside,  \* the tree as it would be without this program
  first,    \* the tree begin found
  spent,    \* edits and faults so far
  \* The walk of fstx sync (module Sync); apply leaves it alone.
  source,   \* the source tree
  stack,    \* the directories still to be listed
  todo,     \* the entries of the listed directory, as paths
  stated,   \* the file whose metadata was read and whose data was not; Root if none
  skipped,  \* what was neither a file nor a directory
  lost      \* entries gone so far

cli == <<cs, pc, unmet, code>>
walk == <<source, stack, todo, stated, skipped, lost>>
cvars == <<vars, cli, outside, first, spent, walk>>

-----------------------------------------------------------------------------
(* Failures: FailKind::exit_code, Failure::from_fstx and fail. *)

exit_code == [refused |-> 1, invalid_input |-> 2, io |-> 3]

\* Slip: a failed rollback is not in the list.
from_fstxNoRollback(e) ==
  IF e \in {"Io", "RecoveryRequired", "CommitOutcomeUnknown", "UnsupportedFilesystem",
            "UnsupportedPlatform"} THEN "io" ELSE "refused"

from_fstx(e) ==
  IF e \in {"Io", "RecoveryRequired", "CommitOutcomeUnknown", "RollbackFailed",
            "UnsupportedFilesystem", "UnsupportedPlatform"} THEN "io" ELSE "refused"

Exit(c) == pc' = "done" /\ code' = c /\ UNCHANGED <<cs, unmet, first>>

\* The transaction is dropped.
Fail(kind) == Exit(exit_code[kind])

Untouched == UNCHANGED <<vars, outside, spent, walk>>
Fault == spent.faults < MaxFaults /\ spent' = [spent EXCEPT !.faults = @ + 1]

-----------------------------------------------------------------------------
CInit ==
  /\ Init
  /\ cs \in ChangeSets /\ pc = "start" /\ unmet = cs.expect /\ code = 0
  /\ outside = TreeOf(fs) /\ first = outside /\ spent = [edits |-> 0, faults |-> 0]

\* read_changes: no JSON, or a field or an operation that does not exist.
Malformed == pc = "start" /\ ~ cs.parses /\ Fail("invalid_input") /\ Untouched

\* run_tx: begin takes the lock, probes and recovers the root; `first` is what it leaves.
Begin ==
  /\ pc = "start" /\ cs.parses /\ first' = TreeOf(fs)
  /\ pc' = IF cs.sync THEN "walk" ELSE "expect"
  /\ UNCHANGED <<vars, cs, unmet, code, outside, spent, walk>>

BeginFails ==
  /\ pc = "start" /\ cs.parses /\ Fault
  /\ Fail(from_fstx("RecoveryRequired")) /\ UNCHANGED <<vars, outside, walk>>

(* check_expectations: each path against what the transaction shows before any operation. *)
TextAt(p) == ReadText(fs, Resolve(fs, ov, p))
Holds(x, kind, text) ==
  /\ x.exists # "any" => (x.exists = "yes" <=> kind # "none")
  /\ x.text # "any" => kind = "file" /\ text = x.text
Met(x) == Holds(x, Resolve(fs, ov, x.path).kind, TextAt(x.path))

Expect ==
  /\ pc = "expect" /\ unmet # <<>>
  /\ IF Met(Head(unmet))
     THEN unmet' = Tail(unmet) /\ UNCHANGED <<cs, pc, code, first>>
     ELSE Fail("refused")
  /\ Untouched

Expected ==
  /\ pc = "expect" /\ unmet = <<>> /\ pc' = "stage"
  /\ UNCHANGED <<cs, unmet, code, first>> /\ Untouched

-----------------------------------------------------------------------------
(* stage: the operations in order. *)

Cmd == cs.ops[ops + 1]
Staged == ops = Len(cs.ops)
Up(kind) == pc = "stage" /\ ~ Staged /\ Cmd.op = kind

\* An operation is staged and the next one is up.
Onward ==
  /\ pc' = "stage" /\ UNCHANGED <<cs, unmet, code, first, outside, spent, walk>>

OpWrite == Up("write") /\ StageWrite(Cmd.path, Cmd.text) /\ Onward
OpMkdir == Up("mkdir") /\ StageCreateDirAll(Cmd.path) /\ Onward
OpRename == Up("rename") /\ StageRename(Cmd.path, Cmd.to) /\ Onward
OpRemove == Up("remove") /\ StageRemove(Cmd.path) /\ Onward
OpRemoveAll == Up("remove_all") /\ StageRemoveDirAll(Cmd.path) /\ Onward

\* replace reads the file, and looks for the text in it, before it writes.
Found == Resolve(fs, ov, Cmd.path).kind = "file" /\ TextAt(Cmd.path) = Cmd.find
OpReplaceRead ==
  /\ Up("replace") /\ Found /\ pc' = "replace"
  /\ UNCHANGED <<cs, unmet, code, first>> /\ Untouched

OpReplaceWrite == pc = "replace" /\ StageWrite(Cmd.path, Cmd.text) /\ Onward

\* A mode, an encoding or a choice of contents that makes no sense: found when it is this
\* operation's turn.
BadInput == Up("bad") /\ Fail("invalid_input") /\ Untouched

Possible ==
  CASE Cmd.op = "write" -> CanWrite(fs, ov, Cmd.path)
    [] Cmd.op = "mkdir" -> CanCreateDirAll(fs, ov, Cmd.path)
    [] Cmd.op = "rename" -> CanRename(fs, ov, Cmd.path, Cmd.to)
    [] Cmd.op = "remove" -> CanRemove(fs, ov, Cmd.path)
    [] Cmd.op = "remove_all" -> CanRemoveDirAll(fs, ov, Cmd.path)
    [] Cmd.op = "replace" -> IF pc = "stage" THEN Found ELSE CanWrite(fs, ov, Cmd.path)
    [] Cmd.op = "bad" -> TRUE

\* Slip: an operation that cannot be staged is passed over.
RefusedPassesOver ==
  /\ pc \in {"stage", "replace"} /\ ~ Staged /\ ~ Possible
  /\ Onward /\ ops' = ops + 1 /\ UNCHANGED <<fs, ov, blobs, view>>

\* The first operation that cannot be staged ends it.
Refused == pc \in {"stage", "replace"} /\ ~ Staged /\ ~ Possible /\ Fail("refused") /\ Untouched

-----------------------------------------------------------------------------
(* The end of run_tx: the transaction is dropped on a dry run, or committed. *)

AllStaged ==
  /\ pc = "stage" /\ Staged /\ pc' = "commit"
  /\ UNCHANGED <<cs, unmet, code, first>> /\ Untouched

DryRun == pc = "commit" /\ cs.dry /\ Exit(0) /\ Untouched

Committing == pc = "commit" /\ ~ cs.dry

\* The file system the commit leaves: the tree, with fs before it and `to` after it.
Leaves(to) == fs' = to /\ UNCHANGED <<ov, blobs, ops, view, outside, walk>>

CommitOk ==
  /\ Committing /\ ~ Conflict(fs, ov) /\ Compiled.run.ok
  /\ Leaves(Compiled.run.fs) /\ Exit(0) /\ UNCHANGED spent

CommitConflicts == Committing /\ Conflict(fs, ov) /\ Fail(from_fstx("Conflict")) /\ Untouched

\* A rename finds its destination taken: the tree is rolled back, and the error is the cause.
CommitBlocked ==
  /\ Committing /\ ~ Conflict(fs, ov) /\ ~ Compiled.run.ok /\ Fail(from_fstx("Io")) /\ Untouched

CommitFails ==
  /\ Committing /\ ~ Conflict(fs, ov) /\ Fault
  /\ Fail(from_fstx("Io")) /\ UNCHANGED <<vars, outside, walk>>

\* Everything is in place and COMMITTED cannot be synced.
CommitUnknown ==
  /\ Committing /\ ~ Conflict(fs, ov) /\ Compiled.run.ok /\ Compiled.plan.waves # <<>> /\ Fault
  /\ Leaves(Compiled.run.fs) /\ Fail(from_fstx("CommitOutcomeUnknown"))

\* Some waves are applied, a call fails, and so does the first call of the rollback.
RollbackFails ==
  /\ Committing /\ ~ Conflict(fs, ov) /\ Fault
  /\ \E c \in {Compiled} : \E n \in Waves(c.plan) :
       Leaves(Run(Run(fs, StagedDirs(fs, ov, Tx)).fs,
                  FlattenSeq([w \in 1 .. n |-> ApplyCalls(c.plan, w)])).fs)
  /\ Fail(from_fstx("RollbackFailed"))

-----------------------------------------------------------------------------
(* The other program. *)

Edited ==
  /\ view' = View(fs', ov) /\ outside' = TreeOf(fs')
  /\ spent' = [spent EXCEPT !.edits = @ + 1]
  /\ UNCHANGED <<ov, blobs, ops, cs, pc, unmet, code, first, walk>>
MayEdit == pc # "done" /\ spent.edits < MaxEdits

\* It writes into a file, or saves a new one in its place.
EditInPlace(p, text) ==
  /\ MayEdit /\ Stat(fs, p) # NoIno /\ ~ IsDir(fs, p) /\ fs.data[Stat(fs, p)].text # text
  /\ fs' = [fs EXCEPT !.data[Stat(fs, p)] = Text(text), !.ddata[Stat(fs, p)] = Text(text)]
  /\ Edited
Save(p, text) ==
  /\ MayEdit /\ IsDir(fs, Parent(p)) /\ ~ IsDir(fs, p)
  /\ fs' = PutItem(fs, AFile(p, text))
  /\ Edited

Finish ==
  \/ DryRun \/ CommitOk \/ CommitConflicts \/ CommitBlocked \/ CommitFails \/ CommitUnknown
  \/ RollbackFails
Edit == \E p \in EditPaths : EditInPlace(p, "edit") \/ Save(p, "edit")

CNext ==
  \/ Malformed \/ Begin \/ BeginFails \/ Expect \/ Expected
  \/ OpWrite \/ OpMkdir \/ OpRename \/ OpRemove \/ OpRemoveAll \/ OpReplaceRead \/ OpReplaceWrite
  \/ BadInput \/ Refused \/ AllStaged
  \/ Finish \/ Edit

-----------------------------------------------------------------------------
(* Properties. *)

Done == pc = "done"
Alone == spent.edits = 0 /\ spent.faults = 0

\* What the exit code promises of the tree (the table of src/cli/README.md): refused, invalid, or
\* a dry run, and the tree is as if the program had not been run.
NoTraceUnlessApplied ==
  Done /\ (code \in {1, 2} \/ cs.dry) => TreeOf(fs) = outside

(* The change set run on a tree, operation by operation, with nothing staged (src/tests/model.rs). *)
Directly(r, c) ==
  LET can == CASE c.op = "write" -> Direct!CanWrite(r.tree, c.path)
               [] c.op = "replace" -> /\ c.path \in DOMAIN r.tree
                                      /\ r.tree[c.path].kind = "file"
                                      /\ r.tree[c.path].text = c.find
               [] c.op = "mkdir" -> Direct!CanMkdirs(r.tree, c.path)
               [] c.op = "rename" -> Direct!CanRename(r.tree, c.path, c.to)
               [] c.op = "remove" -> Direct!CanRemove(r.tree, c.path)
               [] c.op = "remove_all" -> Direct!CanRemoveAll(r.tree, c.path)
               [] c.op = "bad" -> FALSE
      then == CASE c.op \in {"write", "replace"} -> Direct!Write(r.tree, c.path, c.text)
                [] c.op = "mkdir" -> Direct!Mkdirs(r.tree, c.path)
                [] c.op = "rename" -> Direct!Rename(r.tree, c.path, c.to)
                [] OTHER -> Direct!Cut(r.tree, c.path)
  IN  IF r.ok /\ can THEN [ok |-> TRUE, tree |-> then] ELSE [r EXCEPT !.ok = FALSE]
Shows(x, tree) ==
  IF x.path \in DOMAIN tree THEN Holds(x, tree[x.path].kind, tree[x.path].text)
  ELSE Holds(x, "none", "")
AllDirectly ==
  FoldLeft(Directly,
           [ok |-> cs.parses /\ \A x \in Range(cs.expect) : Shows(x, first), tree |-> first],
           cs.ops)

Same(s, t) == DOMAIN s = DOMAIN t /\ \A p \in DOMAIN s : s[p].kind = t[p].kind /\ s[p].text = t[p].text

\* Left alone, a change set is applied exactly if every expectation holds of the tree before it and
\* every operation is possible after the ones before it, and then with all of them
\* (changes.rs, stage: "Ops run in order", "if any op fails, nothing is changed").
ApplyIsEverything ==
  ~ cs.sync /\ Done /\ Alone =>
    /\ code = 0 <=> AllDirectly.ok
    /\ code = 0 /\ ~ cs.dry => Same(TreeOf(fs), AllDirectly.tree)

\* A file somebody else saved is not removed by a commit that never saw it: every file of theirs is
\* still in the tree, or is one an operation took away, alone or with its directory
\* (plan.rs, Conflict; the no-replace renames of transaction.rs).
OnlySeenIsRemoved ==
  Done /\ code = 0 =>
    \A p \in DOMAIN outside :
      \/ \E q \in DOMAIN TreeOf(fs) : TreeOf(fs)[q].ino = outside[p].ino
      \/ \E q \in {p} \union Range(ProperPrefixes(p)) : \E d \in DOMAIN ov.detached :
           ov.detached[d].id = outside[q].ino
=============================================================================
