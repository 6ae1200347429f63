------------------------------ MODULE RootLock ------------------------------
(* Several fstx users of one root: the advisory lock in .fstx and what it     *)
(* keeps apart (src/src/sys/linux.rs, lock; src/src/transaction.rs, begin_on; *)
(* src/src/lib.rs, recover_on; src/src/inspect.rs).                           *)
(*                                                                            *)
(* A user is a thread of some process.  It begins transactions, recovers and  *)
(* inspects, and may be killed at any moment; the kernel then drops its lock. *)
(* What a call does inside a transaction directory is one step here and many  *)
(* in module Transaction; the steps that users could take in between are the  *)
(* ones that touch what they share: the entries of .fstx, and the tree.       *)
EXTENDS Naturals, FiniteSets

CONSTANTS
  Proc,      \* the users
  MaxCalls   \* bound: calls made by each of them

VARIABLES
  private,   \* .fstx exists
  lockfile,  \* .fstx/lock exists
  holds,     \* how each user holds the lock: "none", "shared" or "exclusive"
  entries,   \* the tx-*, gc-* and probe-* directories in .fstx
  journal,   \* the transactions that have a journal
  done,      \* the transactions that have the marker COMMITTED
  half,      \* the transactions whose renames are in the tree without being committed
  pc,        \* where each user is, "idle" outside fstx
  role,      \* what it called; "owner" once its transaction is open
  target,    \* the entry it works on
  queue,     \* the entries it has read in .fstx and not dealt with
  report,    \* what its inspection says so far
  calls,     \* the calls it has made
  result,    \* what its last call returned
  base       \* history: `done` when its transaction was opened

vars == <<private, lockfile, holds, entries, journal, done, half,
          pc, role, target, queue, report, calls, result, base>>
shared == <<private, lockfile, entries, journal, done, half>>

-----------------------------------------------------------------------------
(* Names.  tx_name() never gives the same name twice: it is made of the time, *)
(* the process and a counter.                                                 *)

Tx == Proc \X Nat
Entry == {"tx", "gc", "probe"} \X Tx
TxDir(t) == <<"tx", t>>
GcDir(t) == <<"gc", t>>
ProbeDir(t) == <<"probe", t>>
IsTx(e) == e[1] = "tx"
TxOf(e) == e[2]

\* The name of whatever p creates in its current call.
Name(p) == <<p, calls[p]>>
Mine(p) == TxDir(Name(p))

Init ==
  /\ private \in BOOLEAN /\ lockfile \in BOOLEAN /\ (lockfile => private)
  /\ holds = [p \in Proc |-> "none"]
  /\ entries = {} /\ journal = {} /\ done = {} /\ half = {}
  /\ pc = [p \in Proc |-> "idle"] /\ role = [p \in Proc |-> "begin"]
  /\ target = [p \in Proc |-> TxDir(<<p, 0>>)]
  /\ queue = [p \in Proc |-> {}] /\ report = [p \in Proc |-> {}]
  /\ calls = [p \in Proc |-> 0] /\ result = [p \in Proc |-> "none"]
  /\ base = [p \in Proc |-> {}]

At(p, phase) == pc[p] = phase
Goto(p, phase) == pc' = [pc EXCEPT ![p] = phase]
Keep(p) == UNCHANGED <<role, target, queue, report, calls, result, base>>

\* The call returns; whatever it holds of the lock goes with it.
Return(p, r) ==
  /\ Goto(p, "idle")
  /\ result' = [result EXCEPT ![p] = r]
  /\ holds' = [holds EXCEPT ![p] = "none"]

-----------------------------------------------------------------------------
(* Getting to the lock. *)

Call(p, r) ==
  /\ At(p, "idle") /\ calls[p] < MaxCalls
  /\ calls' = [calls EXCEPT ![p] = @ + 1]
  /\ role' = [role EXCEPT ![p] = r]
  /\ report' = [report EXCEPT ![p] = {}]
  /\ result' = [result EXCEPT ![p] = "none"]
  /\ UNCHANGED <<shared, holds, target, queue, base>>

\* begin looks for .fstx, and makes it when there is none.
BeginCall(p) == Call(p, "begin") /\ Goto(p, IF private THEN "enter" ELSE "mkdir")

\* recover and inspect have nothing to do when there is none.
RecoverCall(p) == Call(p, "recover") /\ Goto(p, IF private THEN "enter" ELSE "idle")
InspectCall(p) == Call(p, "inspect") /\ Goto(p, IF private THEN "enter" ELSE "idle")

\* ensure_private_dir: another user may have made it since.  mkdir then fails and so
\* does begin.
MakePrivate(p) ==
  /\ At(p, "mkdir")
  /\ private' = TRUE
  /\ IF private THEN Return(p, "exists") ELSE Goto(p, "enter") /\ UNCHANGED <<result, holds>>
  /\ UNCHANGED <<lockfile, entries, journal, done, half, role, target, queue, report, calls, base>>

\* The lock file is created by the first one to lock for writing.  A reader that finds
\* none goes on without a lock.
OpenLock(p) ==
  /\ At(p, "enter")
  /\ lockfile' = (lockfile \/ role[p] # "inspect")
  /\ Goto(p, IF lockfile' THEN "wait" ELSE "read")
  /\ UNCHANGED <<private, holds, entries, journal, done, half>> /\ Keep(p)

\* Slip: recovery takes the lock the way inspection does.
AcquireSharedToRecover(p) ==
  /\ At(p, "wait")
  /\ IF role[p] # "begin"
     THEN /\ \A q \in Proc : holds[q] # "exclusive"
          /\ holds' = [holds EXCEPT ![p] = "shared"]
     ELSE /\ \A q \in Proc : holds[q] = "none"
          /\ holds' = [holds EXCEPT ![p] = "exclusive"]
  /\ Goto(p, IF role[p] = "inspect" THEN "read" ELSE "probe")
  /\ UNCHANGED shared /\ Keep(p)

\* Slip: inspection locks without waiting for the one who writes.
AcquireSharedAtOnce(p) ==
  /\ At(p, "wait")
  /\ IF role[p] = "inspect"
     THEN holds' = [holds EXCEPT ![p] = "shared"]
     ELSE /\ \A q \in Proc : holds[q] = "none"
          /\ holds' = [holds EXCEPT ![p] = "exclusive"]
  /\ Goto(p, IF role[p] = "inspect" THEN "read" ELSE "probe")
  /\ UNCHANGED shared /\ Keep(p)

\* flock blocks until nobody stands in the way.
Acquire(p) ==
  /\ At(p, "wait")
  /\ IF role[p] = "inspect"
     THEN /\ \A q \in Proc : holds[q] # "exclusive"
          /\ holds' = [holds EXCEPT ![p] = "shared"]
     ELSE /\ \A q \in Proc : holds[q] = "none"
          /\ holds' = [holds EXCEPT ![p] = "exclusive"]
  /\ Goto(p, IF role[p] = "inspect" THEN "read" ELSE "probe")
  /\ UNCHANGED shared /\ Keep(p)

-----------------------------------------------------------------------------
(* With the lock: the probe, and recovery of what is in .fstx. *)

\* caps::probe works in a directory of its own, unless its result is cached.
Probe(p) ==
  /\ At(p, "probe")
  /\ \/ entries' = entries \union {ProbeDir(Name(p))} /\ Goto(p, "probed")
     \/ UNCHANGED entries /\ Goto(p, "read")
  /\ UNCHANGED <<private, lockfile, holds, journal, done, half>> /\ Keep(p)

\* The probe deletes its directory, whether or not it is still there.
ProbeEnds(p) ==
  /\ At(p, "probed")
  /\ entries' = entries \ {ProbeDir(Name(p))}
  /\ Goto(p, "read")
  /\ UNCHANGED <<private, lockfile, holds, journal, done, half>> /\ Keep(p)

ReadNames(p) ==
  /\ At(p, "read")
  /\ queue' = [queue EXCEPT ![p] = entries]
  /\ Goto(p, "scan")
  /\ UNCHANGED <<shared, holds, role, target, report, calls, result, base>>

\* decide(), on what crashes leave (module Transaction has the rest).
Decide(e) ==
  CASE ~ IsTx(e) -> "garbage"
    [] IsTx(e) /\ TxOf(e) \in done -> "clean_up"
    [] IsTx(e) /\ TxOf(e) \notin done /\ TxOf(e) \in journal -> "roll_back"
    [] OTHER -> "discard"

NextName(p, e) ==
  /\ At(p, "scan") /\ e \in queue[p]
  /\ queue' = [queue EXCEPT ![p] = @ \ {e}]

\* inspect: one more line of the report.  A directory that is gone looks like one that
\* was never prepared.
Inspect(p) ==
  /\ role[p] = "inspect"
  /\ \E e \in queue[p] :
       /\ NextName(p, e)
       /\ report' = [report EXCEPT ![p] = @ \union
                       {<<e, IF e \in entries \/ ~ IsTx(e) THEN Decide(e) ELSE "discard">>}]
  /\ UNCHANGED <<shared, holds, pc, role, target, calls, result, base>>

\* recover_locked: the next entry is deleted, settled, or rolled back first.
Recover(p) ==
  /\ role[p] \in {"begin", "recover"}
  /\ \E e \in queue[p] :
       /\ NextName(p, e)
       /\ target' = [target EXCEPT ![p] = e]
       /\ Goto(p, CASE Decide(e) = "garbage" -> "delete"
                    [] Decide(e) = "roll_back" -> "undo"
                    [] OTHER -> "collect")
  /\ UNCHANGED <<shared, holds, role, report, calls, result, base>>

\* inspect and recover are done with the last entry.
ScanReturns(p) ==
  /\ At(p, "scan") /\ queue[p] = {} /\ role[p] # "begin"
  /\ Return(p, "ok")
  /\ UNCHANGED <<shared, role, target, queue, report, calls, base>>

\* The renames of a transaction are taken back, by recovery or by a commit that failed.
Undo(p) ==
  /\ At(p, "undo")
  /\ half' = half \ {TxOf(target[p])}
  /\ Goto(p, "collect")
  /\ UNCHANGED <<private, lockfile, holds, entries, journal, done>> /\ Keep(p)

\* gc(): the directory becomes garbage in one rename.
Collect(p) ==
  /\ At(p, "collect")
  /\ IF target[p] \in entries
     THEN /\ entries' = (entries \ {target[p]}) \union {GcDir(TxOf(target[p]))}
          /\ target' = [target EXCEPT ![p] = GcDir(TxOf(target[p]))]
          /\ Goto(p, "delete") /\ UNCHANGED <<result, holds>>
     ELSE Return(p, "vanished") /\ UNCHANGED <<entries, target>>
  /\ UNCHANGED <<private, lockfile, journal, done, half, role, queue, report, calls, base>>

\* delete_tree.  It fails when somebody else takes away what it has read the names of.
Delete(p) ==
  /\ At(p, "delete")
  /\ IF target[p] \in entries
     THEN /\ entries' = entries \ {target[p]}
          /\ Goto(p, IF role[p] = "owner" THEN "unlock" ELSE "scan")
          /\ UNCHANGED <<result, holds>>
     ELSE Return(p, "vanished") /\ UNCHANGED entries
  /\ UNCHANGED <<private, lockfile, journal, done, half, role, target, queue, report, calls, base>>

-----------------------------------------------------------------------------
(* The transaction of a user. *)

\* Slip: begin drops the guard of the lock when it returns.
MakeTxUnlocks(p) ==
  /\ At(p, "scan") /\ queue[p] = {} /\ role[p] = "begin"
  /\ entries' = entries \union {Mine(p)}
  /\ role' = [role EXCEPT ![p] = "owner"]
  /\ target' = [target EXCEPT ![p] = Mine(p)]
  /\ base' = [base EXCEPT ![p] = done]
  /\ Goto(p, "open")
  /\ holds' = [holds EXCEPT ![p] = "none"]
  /\ UNCHANGED <<private, lockfile, journal, done, half, queue, report, calls, result>>

\* begin returns with the lock held.
MakeTx(p) ==
  /\ At(p, "scan") /\ queue[p] = {} /\ role[p] = "begin"
  /\ entries' = entries \union {Mine(p)}
  /\ role' = [role EXCEPT ![p] = "owner"]
  /\ target' = [target EXCEPT ![p] = Mine(p)]
  /\ base' = [base EXCEPT ![p] = done]
  /\ Goto(p, "open")
  /\ UNCHANGED <<private, lockfile, holds, journal, done, half, queue, report, calls, result>>

\* Dropped, in conflict, empty, or not prepared: the tree was not touched.
Abandon(p) ==
  /\ At(p, "open")
  /\ Goto(p, "collect")
  /\ UNCHANGED <<shared, holds>> /\ Keep(p)

Prepare(p) ==
  /\ At(p, "open")
  /\ journal' = journal \union {Name(p)}
  /\ Goto(p, "apply")
  /\ UNCHANGED <<private, lockfile, holds, entries, done, half>> /\ Keep(p)

Apply(p) ==
  /\ At(p, "apply")
  /\ half' = half \union {Name(p)}
  /\ Goto(p, "mark")
  /\ UNCHANGED <<private, lockfile, holds, entries, journal, done>> /\ Keep(p)

\* Some renames were made before one failed.
ApplyFails(p) ==
  /\ At(p, "apply")
  /\ half' = half \union {Name(p)}
  /\ Goto(p, "undo")
  /\ UNCHANGED <<private, lockfile, holds, entries, journal, done>> /\ Keep(p)

Committed(p) == done' = done \union {Name(p)} /\ half' = half \ {Name(p)}

MarkCommitted(p) ==
  /\ At(p, "mark")
  /\ Committed(p) /\ Goto(p, "collect")
  /\ UNCHANGED <<private, lockfile, holds, entries, journal>> /\ Keep(p)

\* CommitOutcomeUnknown: the marker is visible or it is not.
MarkFails(p) ==
  /\ At(p, "mark")
  /\ Committed(p) \/ UNCHANGED <<done, half>>
  /\ Return(p, "unknown")
  /\ UNCHANGED <<private, lockfile, entries, journal, role, target, queue, report, calls, base>>

\* RollbackFailed, or a recovery that ends with an error.
UndoFails(p) ==
  /\ At(p, "undo")
  /\ Return(p, "undo_failed")
  /\ UNCHANGED <<shared, role, target, queue, report, calls, base>>

\* The fields of the transaction are dropped, its lock among them.
Unlock(p) ==
  /\ At(p, "unlock")
  /\ Return(p, "ok")
  /\ UNCHANGED <<shared, role, target, queue, report, calls, base>>

\* Slip: a killed user's lock stays behind.
KillKeepsLock(p) ==
  /\ pc[p] # "idle"
  /\ Goto(p, "idle") /\ result' = [result EXCEPT ![p] = "killed"]
  /\ UNCHANGED <<shared, holds, role, target, queue, report, calls, base>>

\* The user dies; the kernel closes its lock file.
Kill(p) ==
  /\ pc[p] # "idle"
  /\ Return(p, "killed")
  /\ UNCHANGED <<shared, role, target, queue, report, calls, base>>

-----------------------------------------------------------------------------
Work(p) ==
  \/ MakePrivate(p) \/ OpenLock(p) \/ Acquire(p) \/ Probe(p) \/ ProbeEnds(p) \/ ReadNames(p)
  \/ Inspect(p) \/ Recover(p) \/ ScanReturns(p) \/ Undo(p) \/ Collect(p) \/ Delete(p)
  \/ MakeTx(p) \/ Abandon(p) \/ Prepare(p) \/ Apply(p) \/ ApplyFails(p) \/ MarkCommitted(p)
  \/ MarkFails(p) \/ UndoFails(p) \/ Unlock(p)

Does(p) == BeginCall(p) \/ RecoverCall(p) \/ InspectCall(p) \/ Work(p) \/ Kill(p)

Next == \E p \in Proc : Does(p)

Spec == Init /\ [][Next]_vars

\* A user inside fstx runs; the caller commits or drops the transaction it opened.
FairSpec == Spec /\ \A p \in Proc : WF_vars(Work(p))

-----------------------------------------------------------------------------
(* Properties. *)

Critical ==
  {"probe", "probed", "delete", "undo", "collect", "open", "apply", "mark", "unlock"}
Phases == Critical \union {"idle", "mkdir", "enter", "wait", "read", "scan"}

\* The variables keep their shape.
TypeOK ==
  /\ private \in BOOLEAN /\ lockfile \in BOOLEAN
  /\ holds \in [Proc -> {"none", "shared", "exclusive"}]
  /\ entries \subseteq Entry
  /\ journal \subseteq Tx /\ done \subseteq Tx /\ half \subseteq Tx
  /\ pc \in [Proc -> Phases] /\ role \in [Proc -> {"begin", "recover", "inspect", "owner"}]
  /\ target \in [Proc -> Entry] /\ queue \in [Proc -> SUBSET Entry]
  /\ report \in [Proc -> SUBSET (Entry \X {"garbage", "clean_up", "roll_back", "discard"})]
  /\ calls \in [Proc -> Nat] /\ base \in [Proc -> SUBSET Tx]
  /\ result \in [Proc -> {"none", "ok", "exists", "vanished", "unknown", "undo_failed", "killed"}]

\* p has a transaction that it has neither committed nor given up.
Open(p) == role[p] = "owner" /\ pc[p] \in {"open", "apply", "mark"}

\* Nobody but its owner settles, rolls back or deletes a transaction that is open, and
\* the tree it stages against and renames in is the one it found: no other transaction
\* commits in between, and none is half applied (lib.rs, "takes the root's lock").
OpenIsAlone ==
  \A p \in Proc : Open(p) =>
    /\ Mine(p) \in entries
    /\ done = base[p] /\ half \subseteq {Name(p)}
    /\ Name(p) \in half => At(p, "mark")

\* There is never more than one transaction directory: a begin settles the one it finds
\* before it makes its own, and recovery has only one to decide about.
OneTransaction == \A e, f \in entries : IsTx(e) /\ IsTx(f) => e = f

\* What a call has read in .fstx is still there when it gets to it, and what it is
\* working on is not taken away.
NothingVanishes == \A p \in Proc : result[p] # "vanished"

\* Users do not get into each other's way in .fstx: there is one transaction at most, and
\* nothing goes missing.
NobodyInterferes == TypeOK /\ OneTransaction /\ NothingVanishes

\* An inspection that got its lock reports one state of .fstx, the one at its end.
InspectionIsSnapshot ==
  \A p \in Proc :
    At(p, "scan") /\ role[p] = "inspect" /\ holds[p] = "shared" /\ queue[p] = {}
      => report[p] = {<<e, Decide(e)>> : e \in entries}

\* Every call returns, however the users compete for the lock and whoever is killed.
CallsReturn == \A p \in Proc : pc[p] # "idle" ~> At(p, "idle")

-----------------------------------------------------------------------------
(* The inductive invariant behind OpenIsAlone, OneTransaction and             *)
(* NothingVanishes (module RootLockProofs).                                   *)

\* p is past the lock and may write.
Locked(p) == pc[p] \in Critical \/ (pc[p] \in {"read", "scan"} /\ role[p] # "inspect")
Handling == {"open", "apply", "mark", "undo", "collect", "delete"}

LockInv ==
  /\ \A p \in Proc : Locked(p) => holds[p] = "exclusive"
  /\ \A p, q \in Proc : p # q /\ holds[p] = "exclusive" => holds[q] = "none"

\* Which calls have which phases.
RoleOf(p) ==
  /\ pc[p] \in {"open", "apply", "mark", "unlock"} => role[p] = "owner"
  /\ pc[p] \in {"mkdir", "probe", "probed"} => role[p] \in {"begin", "recover"}
  /\ pc[p] \in {"enter", "wait", "read", "scan"} => role[p] # "owner"
  /\ pc[p] \in {"undo", "collect", "delete"} => role[p] # "inspect"

\* What .fstx says of the tree.
EntryInv ==
  /\ OneTransaction
  /\ \A t \in Tx : TxDir(t) \in entries => GcDir(t) \notin entries
  /\ \A t \in half : TxDir(t) \in entries /\ t \in journal /\ t \notin done

\* What the one who holds the lock knows of .fstx.
WorkOf(p) ==
  /\ pc[p] = "scan" /\ role[p] # "inspect" => queue[p] = entries
  /\ pc[p] \in Handling =>
       entries = queue[p] \union {target[p]} /\ target[p] \notin queue[p]
  /\ pc[p] \in Handling /\ role[p] = "owner" => queue[p] = {}
  /\ pc[p] \in {"open", "apply", "mark"} => target[p] = Mine(p) /\ base[p] = done
  /\ pc[p] \in {"open", "apply"} => half = {}
  /\ pc[p] \in {"apply", "mark"} => Name(p) \in journal
  /\ pc[p] \in {"undo", "collect"} => IsTx(target[p])
  /\ pc[p] = "collect" => TxOf(target[p]) \notin half
  /\ pc[p] = "delete" => ~ IsTx(target[p])

\* A transaction is committed under the name its owner made up for it.
NameOf(p) ==
  /\ \A n \in Nat : n > calls[p] => <<p, n>> \notin done
  /\ Name(p) \in done => role[p] = "owner" /\ pc[p] \notin {"open", "apply", "mark"}

\* An inspection with its lock has reported what it no longer has to look at.
SnapshotOf(p) ==
  /\ pc[p] \in {"mkdir", "enter", "wait", "probe", "probed", "read"} => report[p] = {}
  /\ pc[p] = "scan" /\ role[p] = "inspect" /\ holds[p] = "shared"
       => queue[p] \subseteq entries
          /\ report[p] = {<<e, Decide(e)>> : e \in entries \ queue[p]}

IInv ==
  /\ TypeOK /\ LockInv /\ EntryInv
  /\ \A p \in Proc : RoleOf(p) /\ WorkOf(p) /\ NameOf(p)
  /\ NothingVanishes
=============================================================================
