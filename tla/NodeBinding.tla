---------------------------- MODULE NodeBinding ----------------------------
(* transaction() of the Node.js binding (src/bindings/node/index.js, over src/lib.rs there).  One   *)
(* event loop runs all of a program's JavaScript: the calls of transaction(), the functions given   *)
(* to them, and what follows when a promise settles.  begin waits for the lock of the root on that  *)
(* loop; commitAsync hands the native transaction to a worker thread.  A lock is that of the whole  *)
(* root: it is taken by a native transaction, of this process or another, until that is dropped.    *)
EXTENDS FiniteSets

CONSTANTS
  Call,       \* calls of transaction()
  Root,       \* the directories they are on
  RootOf,     \* the directory of each
  Overlapping \* whether a call is made on a root while an earlier one on it has not settled

ASSUME NodeAssumption == 
  /\ RootOf \in [Call -> Root] /\ Overlapping \in BOOLEAN
  /\ "free" \notin Call /\ "other" \notin Call /\ "none" \notin Call

VARIABLES
  loop,    \* the call whose begin has the event loop, or "free"
  at,      \* how far each call is
  inner,   \* the calls whose handle still has its native transaction
  worker,  \* the native transactions given to the worker threads and not yet committed
  asked,   \* the calls whose native transaction the helper's own commitAsync has taken
  done,    \* the outcome of its commitAsync, until the loop has delivered it
  lock,    \* who has the lock of each root: a call, "other" or "none"
  landed,  \* the calls whose changes are in the tree
  result   \* what the caller got

vars == <<loop, at, inner, worker, asked, done, lock, landed, result>>

-----------------------------------------------------------------------------
Free(r) == lock[r] = "none"
Loop == loop = "free"
Release(c) == lock' = [lock EXCEPT ![RootOf[c]] = "none"]
Settle(c, r) == at' = [at EXCEPT ![c] = "settled"] /\ result' = [result EXCEPT ![c] = r]

\* A commit by the library: in the tree, refused and the tree as before, or not known to be either.
\* Whichever it is, the transaction is dropped and its lock with it.
Commit(c) ==
  \E out \in {"ok", "refused", "unknown"} :
    /\ landed' \in {landed} \union (IF out # "refused" THEN {landed \union {c}} ELSE {})
    /\ out = "ok" => c \in landed'
    /\ done' = [done EXCEPT ![c] = IF c \in asked THEN out ELSE @]
    /\ Release(c)

Init ==
  /\ loop = "free" /\ at = [c \in Call |-> "new"] /\ inner = {} /\ worker = {} /\ asked = {}
  /\ done = [c \in Call |-> "none"] /\ lock = [r \in Root |-> "none"]
  /\ landed = {} /\ result = [c \in Call |-> "none"]

-----------------------------------------------------------------------------
(* transaction(root, fn): on the loop. *)

MayCall(c) ==
  \A b \in Call \ {c} : RootOf[b] = RootOf[c] => Overlapping \/ at[b] \in {"new", "settled"}

\* Transaction._begin: it has the loop until it has the lock.
Begin(c) ==
  /\ Loop /\ at[c] = "new" /\ MayCall(c)
  /\ loop' = c /\ at' = [at EXCEPT ![c] = "beginning"]
  /\ UNCHANGED <<inner, worker, asked, done, lock, landed, result>>

BeginThrows(c) ==
  /\ loop = c /\ at[c] = "beginning" /\ Free(RootOf[c])
  /\ loop' = "free" /\ Settle(c, "unbegun")
  /\ UNCHANGED <<inner, worker, asked, done, lock, landed>>

\* The lock is taken; fn runs, and has the loop until it returns or throws.
Locked(c) ==
  /\ loop = c /\ at[c] = "beginning" /\ Free(RootOf[c])
  /\ lock' = [lock EXCEPT ![RootOf[c]] = c]
  /\ inner' = inner \union {c} /\ at' = [at EXCEPT ![c] = "running"]
  /\ UNCHANGED <<loop, worker, asked, done, landed, result>>

Drop(c) ==
  IF c \in inner THEN inner' = inner \ {c} /\ Release(c) ELSE UNCHANGED <<inner, lock>>

Ends(c) == loop = c /\ at[c] = "running" /\ loop' = "free"

\* fn returns a promise: the rest of the program runs until it settles.
FnAwaits(c) ==
  /\ Ends(c) /\ at' = [at EXCEPT ![c] = "pending"]
  /\ UNCHANGED <<inner, worker, asked, done, lock, landed, result>>

\* fn returns anything else: commit() before transaction() returns.
FnReturns(c) ==
  /\ Ends(c) /\ Drop(c)
  /\ IF c \in inner
     THEN \/ landed' = landed \union {c} /\ Settle(c, "ok")
          \/ UNCHANGED landed /\ Settle(c, "refused")
          \/ landed' \in {landed, landed \union {c}} /\ Settle(c, "unknown")
     ELSE UNCHANGED landed /\ Settle(c, "finished")
  /\ UNCHANGED <<worker, asked, done>>

\* fn throws: discard, which does nothing to what a worker has.
FnThrows(c) ==
  /\ Ends(c) /\ Drop(c) /\ Settle(c, "thrown")
  /\ UNCHANGED <<worker, asked, done, landed>>

-----------------------------------------------------------------------------
(* What fn may do to the transaction it was given, before it returns and before its promise        *)
(* settles: finish it itself.                                                                       *)

FnHasIt(c) == \/ loop = c /\ at[c] = "running"
              \/ Loop /\ at[c] = "pending"

FnDiscards(c) ==
  /\ FnHasIt(c) /\ c \in inner /\ Drop(c)
  /\ UNCHANGED <<loop, at, worker, asked, done, landed, result>>

FnCommits(c) ==
  /\ FnHasIt(c) /\ c \in inner /\ inner' = inner \ {c} /\ Commit(c)
  /\ UNCHANGED <<loop, at, worker, asked, result>>

\* commitAsync that fn does not wait for.
FnCommitsAsync(c) ==
  /\ FnHasIt(c) /\ c \in inner /\ inner' = inner \ {c} /\ worker' = worker \union {c}
  /\ UNCHANGED <<loop, at, asked, done, lock, landed, result>>

-----------------------------------------------------------------------------
(* The promise of fn settles. *)

\* Slip: the rejection is passed on, and the transaction left open.
FnRejectsOpen(c) ==
  /\ Loop /\ at[c] = "pending" /\ Settle(c, "thrown")
  /\ UNCHANGED <<loop, inner, worker, asked, done, lock, landed>>

\* The promise of fn is rejected: discard, which does nothing to what a worker has.
FnRejects(c) ==
  /\ Loop /\ at[c] = "pending" /\ Drop(c) /\ Settle(c, "thrown")
  /\ UNCHANGED <<loop, worker, asked, done, landed>>

\* Slip: the helper resolves as soon as the commit is under way.
FnResolvesAtOnce(c) ==
  /\ Loop /\ at[c] = "pending" /\ c \in inner /\ Settle(c, "ok")
  /\ inner' = inner \ {c} /\ worker' = worker \union {c}
  /\ UNCHANGED <<loop, asked, done, lock, landed>>

\* It is resolved: commitAsync takes the native transaction, if it is still there.
FnResolves(c) ==
  /\ Loop /\ at[c] = "pending" /\ at' = [at EXCEPT ![c] = "committing"]
  /\ IF c \in inner
     THEN /\ inner' = inner \ {c} /\ worker' = worker \union {c} /\ asked' = asked \union {c}
          /\ UNCHANGED done
     ELSE done' = [done EXCEPT ![c] = "finished"] /\ UNCHANGED <<inner, worker, asked>>
  /\ UNCHANGED <<loop, lock, landed, result>>

\* CommitTask::compute, on a worker thread.
Work(c) ==
  /\ c \in worker /\ worker' = worker \ {c} /\ Commit(c)
  /\ UNCHANGED <<loop, at, inner, asked, result>>

\* CommitTask::resolve, on the loop, and what commitAsync makes of the outcome.
Deliver(c) ==
  /\ Loop /\ at[c] = "committing" /\ done[c] # "none" /\ Settle(c, done[c])
  /\ UNCHANGED <<loop, inner, worker, asked, done, lock, landed>>

-----------------------------------------------------------------------------
(* Another process. *)

OtherLocks(r) ==
  /\ Free(r) /\ lock' = [lock EXCEPT ![r] = "other"]
  /\ UNCHANGED <<loop, at, inner, worker, asked, done, landed, result>>

OtherUnlocks(r) ==
  /\ lock[r] = "other" /\ lock' = [lock EXCEPT ![r] = "none"]
  /\ UNCHANGED <<loop, at, inner, worker, asked, done, landed, result>>

Beginning(c) == BeginThrows(c) \/ Locked(c)
FnEnds(c) == FnAwaits(c) \/ FnReturns(c) \/ FnThrows(c)
Settling(c) == FnRejects(c) \/ FnResolves(c)

Next ==
  \/ \E c \in Call :
       \/ Begin(c) \/ Beginning(c) \/ FnEnds(c) \/ FnDiscards(c) \/ FnCommits(c) \/ FnCommitsAsync(c)
       \/ Settling(c) \/ Work(c) \/ Deliver(c)
  \/ \E r \in Root : OtherLocks(r) \/ OtherUnlocks(r)

Spec == Init /\ [][Next]_vars

\* The loop and the workers go on, every fn ends and its promise settles, and the other process lets go of
\* a lock.  A begin that waits gets the lock if it is free again and again; that a call is made at
\* all is not owed.
Fairness ==
  /\ \A c \in Call : /\ SF_vars(Beginning(c)) /\ WF_vars(FnEnds(c)) /\ WF_vars(Settling(c))
                       /\ WF_vars(Work(c)) /\ WF_vars(Deliver(c))
  /\ \A r \in Root : WF_vars(OtherUnlocks(r))
FairSpec == Spec /\ Fairness

-----------------------------------------------------------------------------
(* Properties. *)

Outcomes == {"ok", "refused", "unknown", "finished"}

\* Every variable has its type; one call has the loop, and a lock is had by a call on that root.
TypeOK ==
  /\ loop \in Call \union {"free"}
  /\ at \in [Call -> {"new", "beginning", "running", "pending", "committing", "settled"}]
  /\ inner \in SUBSET Call /\ worker \in SUBSET Call /\ asked \in SUBSET Call
  /\ done \in [Call -> Outcomes \union {"none"}] /\ lock \in [Root -> Call \union {"other", "none"}]
  /\ landed \in SUBSET Call
  /\ result \in [Call -> Outcomes \union {"unbegun", "thrown", "none"}]
  /\ \A r \in Root : lock[r] \in Call => RootOf[lock[r]] = r

\* Every native transaction that is not dropped has the lock of its root, and no lock outlives its
\* transaction: when a call has settled, whichever way, only a commit that fn itself gave to a
\* worker still has it (index.js: "discards if it throws"; index.d.ts: the lock is held "until
\* committed or discarded").
NoLockIsLeaked ==
  /\ \A c \in inner \union worker : lock[RootOf[c]] = c
  /\ \A r \in Root : lock[r] \in Call =>
       lock[r] \in worker \/ (lock[r] \in inner /\ at[lock[r]] \in {"running", "pending"})

\* The strengthening the proofs use.  A native transaction is in the handle or with a worker, has its
\* lock and has not landed; fn has it only before its call is decided.  An outcome other than
\* "thrown" and "finished" is that of a transaction that is dropped.
CallInv(c) ==
  /\ c \in inner \union worker =>
       lock[RootOf[c]] = c /\ c \notin landed /\ done[c] \in {"none", "finished"}
         /\ result[c] \in {"none", "thrown", "finished"}
  /\ c \in inner => c \notin worker /\ at[c] \in {"running", "pending"}
  /\ at[c] \in {"new", "beginning"} => c \notin worker \union landed
  /\ at[c] \in {"new", "beginning", "running", "pending"} =>
       c \notin asked /\ done[c] = "none" /\ result[c] = "none"
  /\ loop = c <=> at[c] \in {"beginning", "running"}
  /\ result[c] = "ok" \/ done[c] = "ok" => c \in landed
  /\ result[c] \in {"refused", "unbegun"} \/ done[c] = "refused" => c \notin landed
LockInv == \A r \in Root : lock[r] \in Call => lock[r] \in inner \union worker
IInv == TypeOK /\ LockInv /\ \A c \in Call : CallInv(c)

\* What the caller is told is so: resolved, and the changes are there; refused or not begun, and
\* they are not.  Only fn itself, by finishing its transaction early, makes changes land whose call
\* then throws or ends in TRANSACTION_FINISHED.
ResultIsTrue ==
  \A c \in Call :
    /\ result[c] = "ok" => c \in landed
    /\ result[c] \in {"refused", "unbegun"} => c \notin landed

\* A call of transaction() settles: begin gets its lock, a commit ends and its outcome is delivered
\* (index.js:55, "commits if it returns (or its promise resolves), discards if it throws").  This is
\* so with Overlapping = FALSE, when no two calls on one root overlap; calls on other roots may.  With
\* TRUE it fails: a begin that waits on the event loop keeps the first call from being ended.
CallsSettle == \A c \in Call : at[c] # "new" ~> at[c] = "settled"
=============================================================================
