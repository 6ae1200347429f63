--------------------------- MODULE RootLockProofs ---------------------------
(* Proofs about RootLock, for any number of users, any number of calls and    *)
(* kills at any moment.                                                       *)
EXTENDS RootLock, TLAPS

-----------------------------------------------------------------------------
(* Names of entries. *)

\* What an entry is made of.
LEMMA EntryFacts ==
  /\ \A t \in Tx : TxDir(t) \in Entry /\ IsTx(TxDir(t)) /\ TxOf(TxDir(t)) = t
  /\ \A t \in Tx : GcDir(t) \in Entry /\ ~ IsTx(GcDir(t))
  /\ \A t \in Tx : ProbeDir(t) \in Entry /\ ~ IsTx(ProbeDir(t))
  /\ \A e \in Entry : TxOf(e) \in Tx /\ (IsTx(e) => e = TxDir(TxOf(e)))
  /\ \A t, u \in Tx : GcDir(t) # ProbeDir(u) /\ GcDir(t) # TxDir(u) /\ ProbeDir(t) # TxDir(u)
  /\ \A t, u \in Tx : GcDir(t) = GcDir(u) => t = u
BY DEF Entry, TxDir, GcDir, ProbeDir, IsTx, TxOf

\* What a name is made of.
LEMMA NameFacts ==
  ASSUME TypeOK, NEW p \in Proc
  PROVE  Name(p) \in Tx /\ Mine(p) \in Entry /\ IsTx(Mine(p)) /\ TxOf(Mine(p)) = Name(p)
         /\ Mine(p) = TxDir(Name(p))
<1>1. Name(p) \in Tx
  BY DEF TypeOK, Name, Tx
<1> QED BY <1>1, EntryFacts DEF Mine

-----------------------------------------------------------------------------
(* Who is alone. *)

\* Only one user at a time is past the lock.
LEMMA Alone ==
  ASSUME LockInv, NEW p \in Proc, NEW q \in Proc, p # q, Locked(p)
  PROVE  ~ Locked(q)
BY DEF LockInv

\* A step of p is no step of anybody else.
LEMMA OthersKeep ==
  ASSUME TypeOK, NEW p \in Proc, NEW q \in Proc, p # q, Does(p)
  PROVE  /\ pc'[q] = pc[q] /\ role'[q] = role[q] /\ holds'[q] = holds[q]
         /\ target'[q] = target[q] /\ queue'[q] = queue[q] /\ calls'[q] = calls[q]
         /\ base'[q] = base[q] /\ result'[q] = result[q]
<1> USE DEF TypeOK, Goto, Keep, Return, At
<1>1. CASE BeginCall(p) \/ RecoverCall(p) \/ InspectCall(p) \/ Kill(p)
  BY <1>1 DEF BeginCall, RecoverCall, InspectCall, Call, Kill
<1>2. CASE MakePrivate(p) \/ OpenLock(p) \/ Acquire(p) \/ Probe(p) \/ ProbeEnds(p)
  BY <1>2 DEF MakePrivate, OpenLock, Acquire, Probe, ProbeEnds
<1>3. CASE ReadNames(p) \/ Inspect(p) \/ Recover(p) \/ ScanReturns(p) \/ Undo(p)
  BY <1>3 DEF ReadNames, Inspect, Recover, ScanReturns, Undo, NextName
<1>4. CASE Collect(p) \/ Delete(p) \/ MakeTx(p) \/ Abandon(p) \/ Prepare(p) \/ Apply(p)
  BY <1>4 DEF Collect, Delete, MakeTx, Abandon, Prepare, Apply
<1>5. CASE ApplyFails(p) \/ MarkCommitted(p) \/ MarkFails(p) \/ UndoFails(p) \/ Unlock(p)
  BY <1>5 DEF ApplyFails, MarkCommitted, MarkFails, UndoFails, Unlock
<1> QED BY <1>1, <1>2, <1>3, <1>4, <1>5 DEF Does, Work

\* Whoever changes what the users share, .fstx itself and the lock file apart, has the lock.
LEMMA WritersAreLocked ==
  ASSUME IInv, NEW p \in Proc, Does(p), ~ UNCHANGED <<entries, journal, done, half>>
  PROVE  Locked(p)
<1> USE DEF shared, Locked, Critical, At
<1>1. CASE BeginCall(p) \/ RecoverCall(p) \/ InspectCall(p) \/ Kill(p)
  BY <1>1 DEF BeginCall, RecoverCall, InspectCall, Call, Kill
<1>2. CASE MakePrivate(p) \/ OpenLock(p) \/ Acquire(p) \/ Probe(p) \/ ProbeEnds(p)
  BY <1>2 DEF MakePrivate, OpenLock, Acquire, Probe, ProbeEnds
<1>3. CASE ReadNames(p) \/ Inspect(p) \/ Recover(p) \/ ScanReturns(p) \/ Undo(p)
  BY <1>3 DEF ReadNames, Inspect, Recover, ScanReturns, Undo
<1>4. CASE Collect(p) \/ Delete(p) \/ MakeTx(p) \/ Abandon(p) \/ Prepare(p) \/ Apply(p)
  BY <1>4 DEF Collect, Delete, MakeTx, Abandon, Prepare, Apply
<1>5. CASE ApplyFails(p) \/ MarkCommitted(p) \/ MarkFails(p) \/ UndoFails(p) \/ Unlock(p)
  BY <1>5 DEF ApplyFails, MarkCommitted, MarkFails, UndoFails, Unlock
<1> QED BY <1>1, <1>2, <1>3, <1>4, <1>5 DEF Does, Work

-----------------------------------------------------------------------------
(* Each part of the invariant is kept by each step. *)

\* Every action keeps the types.
LEMMA TypeStep ==
  ASSUME IInv, NEW p \in Proc, Does(p)
  PROVE  TypeOK'
<1>0. TypeOK /\ Name(p) \in Tx /\ Mine(p) \in Entry
  BY NameFacts DEF IInv
<1> USE <1>0 DEF TypeOK, Goto, Keep, Return, At, shared, Phases, Critical
<1>1. CASE BeginCall(p) \/ RecoverCall(p) \/ InspectCall(p) \/ Kill(p)
  BY <1>1 DEF BeginCall, RecoverCall, InspectCall, Call, Kill
<1>2. CASE MakePrivate(p)
  BY <1>2 DEF MakePrivate
<1>12. CASE OpenLock(p)
  <2>1. lockfile' \in BOOLEAN
    BY <1>12 DEF OpenLock
  <2>2. pc' \in [Proc -> Phases]
    BY <1>12 DEF OpenLock
  <2> QED BY <1>12, <2>1, <2>2 DEF OpenLock
<1>13. CASE Acquire(p)
  BY <1>13 DEF Acquire
<1>3. CASE Probe(p) \/ ProbeEnds(p) \/ ReadNames(p)
  BY <1>3, EntryFacts DEF Probe, ProbeEnds, ReadNames
<1>4. CASE Inspect(p)
  <2>1. PICK e \in queue[p] :
          /\ queue' = [queue EXCEPT ![p] = @ \ {e}]
          /\ report' = [report EXCEPT ![p] = @ \union
                          {<<e, IF e \in entries \/ ~ IsTx(e) THEN Decide(e) ELSE "discard">>}]
    BY <1>4 DEF Inspect, NextName
  <2>2. Decide(e) \in {"garbage", "clean_up", "roll_back", "discard"}
    BY DEF Decide
  <2>3. e \in Entry
    BY <1>4, <2>1
  <2>4. queue' \in [Proc -> SUBSET Entry]
    BY <2>1
  <2>5. report' \in [Proc -> SUBSET (Entry \X {"garbage", "clean_up", "roll_back", "discard"})]
    BY <2>1, <2>2, <2>3
  <2> QED BY <1>4, <2>4, <2>5 DEF Inspect
<1>5. CASE Recover(p)
  BY <1>5 DEF Recover, NextName
<1>6. CASE ScanReturns(p) \/ Undo(p) \/ Unlock(p) \/ UndoFails(p) \/ Abandon(p)
  BY <1>6 DEF ScanReturns, Undo, Unlock, UndoFails, Abandon
<1>7. CASE Collect(p)
  <2>1. target[p] \in Entry /\ GcDir(TxOf(target[p])) \in Entry
    BY EntryFacts
  <2> QED BY <1>7, <2>1 DEF Collect
<1>8. CASE Delete(p)
  BY <1>8 DEF Delete
<1>9. CASE MakeTx(p)
  BY <1>9 DEF MakeTx
<1>10. CASE Prepare(p) \/ Apply(p) \/ ApplyFails(p)
  BY <1>10 DEF Prepare, Apply, ApplyFails
<1>11. CASE MarkCommitted(p) \/ MarkFails(p)
  BY <1>11 DEF MarkCommitted, MarkFails, Committed
<1> QED
  BY <1>1, <1>2, <1>3, <1>4, <1>5, <1>6, <1>7, <1>8, <1>9, <1>10, <1>11, <1>12, <1>13
  DEF Does, Work

\* The exclusive lock has one holder, and nobody shares it.
LEMMA LockStep ==
  ASSUME IInv, NEW p \in Proc, Does(p)
  PROVE  LockInv'
<1>0. TypeOK /\ LockInv /\ RoleOf(p)
  BY DEF IInv
<1>a. ASSUME NEW q \in Proc, q # p
      PROVE  /\ holds'[q] = holds[q]
             /\ Locked(q)' => Locked(q)
  BY <1>0, <1>a, OthersKeep DEF Locked
<1>1. \/ holds'[p] = "none"
      \/ holds'[p] = holds[p]
      \/ holds'[p] = "shared" /\ \A q \in Proc : holds[q] # "exclusive"
      \/ holds'[p] = "exclusive" /\ \A q \in Proc : holds[q] = "none"
  <2> USE <1>0 DEF TypeOK, Goto, Keep, Return, At, shared
  <2>1. CASE BeginCall(p) \/ RecoverCall(p) \/ InspectCall(p) \/ Kill(p)
    BY <2>1 DEF BeginCall, RecoverCall, InspectCall, Call, Kill
  <2>2. CASE MakePrivate(p) \/ OpenLock(p) \/ Acquire(p) \/ Probe(p) \/ ProbeEnds(p)
    BY <2>2 DEF MakePrivate, OpenLock, Acquire, Probe, ProbeEnds
  <2>3. CASE ReadNames(p) \/ Inspect(p) \/ Recover(p) \/ ScanReturns(p) \/ Undo(p)
    BY <2>3 DEF ReadNames, Inspect, Recover, ScanReturns, Undo
  <2>4. CASE Collect(p) \/ Delete(p) \/ MakeTx(p) \/ Abandon(p) \/ Prepare(p) \/ Apply(p)
    BY <2>4 DEF Collect, Delete, MakeTx, Abandon, Prepare, Apply
  <2>5. CASE ApplyFails(p) \/ MarkCommitted(p) \/ MarkFails(p) \/ UndoFails(p) \/ Unlock(p)
    BY <2>5 DEF ApplyFails, MarkCommitted, MarkFails, UndoFails, Unlock
  <2> QED BY <2>1, <2>2, <2>3, <2>4, <2>5 DEF Does, Work
<1>2. Locked(p)' => holds'[p] = "exclusive"
  <2>0. Locked(p) => holds[p] = "exclusive"
    BY <1>0 DEF LockInv
  <2> USE <1>0, <2>0 DEF TypeOK, Goto, Keep, Return, At, shared, Locked, Critical, RoleOf
  <2>1. CASE BeginCall(p) \/ RecoverCall(p) \/ InspectCall(p) \/ Kill(p)
    BY <2>1 DEF BeginCall, RecoverCall, InspectCall, Call, Kill
  <2>2. CASE MakePrivate(p) \/ Acquire(p) \/ Probe(p) \/ ProbeEnds(p)
    BY <2>2 DEF MakePrivate, Acquire, Probe, ProbeEnds
  <2>8. CASE OpenLock(p)
    <3>1. role[p] # "inspect" => pc'[p] = "wait"
      BY <2>8 DEF OpenLock
    <3>2. pc'[p] \in {"wait", "read"} /\ role' = role
      BY <2>8 DEF OpenLock
    <3> QED BY <3>1, <3>2
  <2>3. CASE ReadNames(p) \/ ScanReturns(p) \/ Undo(p)
    BY <2>3 DEF ReadNames, ScanReturns, Undo
  <2>6. CASE Inspect(p)
    BY <2>6 DEF Inspect, NextName
  <2>7. CASE Recover(p)
    <3>1. pc[p] = "scan" /\ role[p] # "inspect" /\ holds' = holds
      BY <2>7 DEF Recover, NextName
    <3> QED BY <3>1
  <2>4. CASE Collect(p) \/ Delete(p) \/ MakeTx(p) \/ Abandon(p) \/ Prepare(p) \/ Apply(p)
    BY <2>4 DEF Collect, Delete, MakeTx, Abandon, Prepare, Apply
  <2>5. CASE ApplyFails(p) \/ MarkCommitted(p) \/ MarkFails(p) \/ UndoFails(p) \/ Unlock(p)
    BY <2>5 DEF ApplyFails, MarkCommitted, MarkFails, UndoFails, Unlock
  <2> QED BY <2>1, <2>2, <2>3, <2>4, <2>5, <2>6, <2>7, <2>8 DEF Does, Work
<1>3. \A q \in Proc : Locked(q)' => holds'[q] = "exclusive"
  BY <1>0, <1>a, <1>2 DEF LockInv
<1>4. \A q, r \in Proc : q # r /\ holds'[q] = "exclusive" => holds'[r] = "none"
  <2> SUFFICES ASSUME NEW q \in Proc, NEW r \in Proc, q # r, holds'[q] = "exclusive"
               PROVE  holds'[r] = "none"
    OBVIOUS
  <2>1. CASE q # p /\ r # p
    BY <1>0, <1>a, <2>1 DEF LockInv
  <2>2. CASE q = p
    BY <1>0, <1>a, <1>1, <2>2 DEF LockInv
  <2>3. CASE r = p
    BY <1>0, <1>a, <1>1, <2>3 DEF LockInv
  <2> QED BY <2>1, <2>2, <2>3
<1> QED BY <1>3, <1>4 DEF LockInv, Locked

\* A user is only ever in a phase of the call it has made.
LEMMA RoleStep ==
  ASSUME IInv, NEW p \in Proc, Does(p)
  PROVE  \A q \in Proc : RoleOf(q)'
<1>0. TypeOK /\ RoleOf(p)
  BY DEF IInv
<1>a. ASSUME NEW q \in Proc, q # p PROVE RoleOf(q)'
  BY <1>0, <1>a, OthersKeep DEF IInv, RoleOf
<1>b. RoleOf(p)'
  <2> USE <1>0 DEF TypeOK, Goto, Keep, Return, At, shared, RoleOf
  <2>1. CASE BeginCall(p) \/ RecoverCall(p) \/ InspectCall(p) \/ Kill(p)
    BY <2>1 DEF BeginCall, RecoverCall, InspectCall, Call, Kill
  <2>2. CASE MakePrivate(p) \/ OpenLock(p) \/ Acquire(p) \/ Probe(p) \/ ProbeEnds(p)
    BY <2>2 DEF MakePrivate, OpenLock, Acquire, Probe, ProbeEnds
  <2>3. CASE ReadNames(p) \/ Inspect(p) \/ Recover(p) \/ ScanReturns(p) \/ Undo(p)
    BY <2>3 DEF ReadNames, Inspect, Recover, ScanReturns, Undo, NextName
  <2>4. CASE Collect(p) \/ Delete(p) \/ MakeTx(p) \/ Abandon(p) \/ Prepare(p) \/ Apply(p)
    BY <2>4 DEF Collect, Delete, MakeTx, Abandon, Prepare, Apply
  <2>5. CASE ApplyFails(p) \/ MarkCommitted(p) \/ MarkFails(p) \/ UndoFails(p) \/ Unlock(p)
    BY <2>5 DEF ApplyFails, MarkCommitted, MarkFails, UndoFails, Unlock
  <2> QED BY <2>1, <2>2, <2>3, <2>4, <2>5 DEF Does, Work
<1> QED BY <1>a, <1>b

\* What .fstx says of the tree stays true.  The steps of interest are those of the one
\* who holds the lock.
LEMMA EntryStep ==
  ASSUME IInv, NEW p \in Proc, Does(p)
  PROVE  EntryInv'
<1>0. TypeOK /\ EntryInv /\ RoleOf(p) /\ WorkOf(p) /\ NameOf(p)
  BY DEF IInv
<1>n. Name(p) \in Tx /\ Mine(p) \in Entry /\ IsTx(Mine(p)) /\ Mine(p) = TxDir(Name(p))
  BY <1>0, NameFacts
<1>t. target[p] \in Entry /\ TxOf(target[p]) \in Tx
      /\ (IsTx(target[p]) => target[p] = TxDir(TxOf(target[p])))
  BY <1>0, EntryFacts DEF TypeOK
<1>1. CASE UNCHANGED <<entries, journal, done, half>>
  BY <1>0, <1>1 DEF EntryInv, OneTransaction
<1>2. CASE Probe(p) \/ ProbeEnds(p)
  <2>1. /\ UNCHANGED <<journal, done, half>>
        /\ \A e \in Entry : e # ProbeDir(Name(p)) => (e \in entries' <=> e \in entries)
        /\ entries' \subseteq Entry
    BY <1>0, <1>2, <1>n, EntryFacts DEF Probe, ProbeEnds, TypeOK
  <2> QED BY <1>0, <1>n, <2>1, EntryFacts DEF EntryInv, OneTransaction, TypeOK
<1>3. CASE Undo(p)
  BY <1>0, <1>3 DEF Undo, EntryInv, OneTransaction
<1>4. CASE Collect(p)
  <2>1. CASE target[p] \notin entries
    BY <1>0, <1>4, <2>1 DEF Collect, EntryInv, OneTransaction
  <2>2. CASE target[p] \in entries
    <3>1. /\ entries' = (entries \ {target[p]}) \union {GcDir(TxOf(target[p]))}
          /\ UNCHANGED <<journal, done, half>>
          /\ target[p] = TxDir(TxOf(target[p])) /\ TxOf(target[p]) \notin half
      BY <1>0, <1>4, <1>t, <2>2 DEF Collect, WorkOf, At, Handling
    <3>2. OneTransaction'
      BY <1>0, <1>t, <3>1, EntryFacts DEF EntryInv, OneTransaction
    <3>3. ASSUME NEW t \in Tx, TxDir(t) \in entries' PROVE GcDir(t) \notin entries'
      <4>1. TxDir(t) \in entries /\ t # TxOf(target[p])
        BY <1>t, <3>1, <3>3, EntryFacts
      <4> QED BY <1>0, <1>t, <3>1, <4>1, EntryFacts DEF EntryInv
    <3>4. ASSUME NEW t \in half' PROVE TxDir(t) \in entries' /\ t \in journal' /\ t \notin done'
      <4>1. t \in Tx /\ t # TxOf(target[p])
        BY <1>0, <3>1, <3>4 DEF TypeOK
      <4>2. TxDir(t) # target[p]
        BY <1>t, <3>1, <4>1, EntryFacts
      <4> QED BY <1>0, <3>1, <4>2 DEF EntryInv
    <3> QED BY <3>2, <3>3, <3>4 DEF EntryInv
  <2> QED BY <2>1, <2>2
<1>5. CASE Delete(p)
  <2>1. /\ UNCHANGED <<journal, done, half>> /\ entries' \subseteq entries
        /\ \A e \in entries : IsTx(e) => e \in entries'
    BY <1>0, <1>5 DEF Delete, WorkOf, At, Handling
  <2> QED BY <1>0, <2>1, EntryFacts DEF EntryInv, OneTransaction, TypeOK
<1>6. CASE MakeTx(p)
  <2>1. entries = {} /\ entries' = {Mine(p)} /\ UNCHANGED <<journal, done, half>>
    BY <1>0, <1>6 DEF MakeTx, WorkOf, At
  <2>2. half = {}
    BY <1>0, <2>1 DEF EntryInv
  <2> QED BY <1>n, <2>1, <2>2, EntryFacts DEF EntryInv, OneTransaction
<1>7. CASE Prepare(p)
  BY <1>0, <1>7 DEF Prepare, EntryInv, OneTransaction
<1>8. CASE Apply(p) \/ ApplyFails(p)
  <2>1. /\ half' = half \union {Name(p)} /\ UNCHANGED <<entries, journal, done>>
        /\ Mine(p) \in entries /\ Name(p) \in journal /\ Name(p) \notin done
    BY <1>0, <1>8 DEF Apply, ApplyFails, WorkOf, NameOf, At, Handling
  <2> QED BY <1>0, <1>n, <2>1 DEF EntryInv, OneTransaction
<1>9. CASE MarkCommitted(p) \/ MarkFails(p)
  <2>1. /\ Committed(p) \/ UNCHANGED <<done, half>> 
        /\ UNCHANGED <<entries, journal>>
    BY <1>9 DEF MarkCommitted, MarkFails
  <2> QED BY <1>0, <2>1 DEF EntryInv, OneTransaction, Committed
<1>10. CASE BeginCall(p) \/ RecoverCall(p) \/ InspectCall(p) \/ Kill(p) \/ MakePrivate(p)
            \/ OpenLock(p) \/ Acquire(p) \/ ReadNames(p) \/ Inspect(p) \/ Recover(p)
            \/ ScanReturns(p) \/ Abandon(p) \/ UndoFails(p) \/ Unlock(p)
  BY <1>1, <1>10 DEF BeginCall, RecoverCall, InspectCall, Call, Kill, MakePrivate, OpenLock,
     Acquire, ReadNames, Inspect, Recover, ScanReturns, Abandon, UndoFails, Unlock, shared, Keep
<1> QED
  BY <1>2, <1>3, <1>4, <1>5, <1>6, <1>7, <1>8, <1>9, <1>10 DEF Does, Work

\* A name is taken by one user, and never given again.
LEMMA NameStep ==
  ASSUME IInv, NEW p \in Proc, Does(p)
  PROVE  \A q \in Proc : NameOf(q)'
<1>0. TypeOK /\ RoleOf(p) /\ NameOf(p)
  BY DEF IInv
<1>1. done' = done \/ (done' = done \union {Name(p)} /\ (MarkCommitted(p) \/ MarkFails(p)))
  <2> USE DEF Keep, shared
  <2>1. CASE BeginCall(p) \/ RecoverCall(p) \/ InspectCall(p) \/ Kill(p)
    BY <2>1 DEF BeginCall, RecoverCall, InspectCall, Call, Kill
  <2>2. CASE MakePrivate(p) \/ OpenLock(p) \/ Acquire(p) \/ Probe(p) \/ ProbeEnds(p)
    BY <2>2 DEF MakePrivate, OpenLock, Acquire, Probe, ProbeEnds
  <2>3. CASE ReadNames(p) \/ Inspect(p) \/ Recover(p) \/ ScanReturns(p) \/ Undo(p)
    BY <2>3 DEF ReadNames, Inspect, Recover, ScanReturns, Undo
  <2>4. CASE Collect(p) \/ Delete(p) \/ MakeTx(p) \/ Abandon(p) \/ Prepare(p) \/ Apply(p)
    BY <2>4 DEF Collect, Delete, MakeTx, Abandon, Prepare, Apply
  <2>5. CASE ApplyFails(p) \/ MarkCommitted(p) \/ MarkFails(p) \/ UndoFails(p) \/ Unlock(p)
    BY <2>5 DEF ApplyFails, MarkCommitted, MarkFails, UndoFails, Unlock, Committed
  <2> QED BY <2>1, <2>2, <2>3, <2>4, <2>5 DEF Does, Work
<1>2. ASSUME NEW q \in Proc, q # p PROVE NameOf(q)'
  <2>1. Name(q)' = Name(q) /\ \A n : <<q, n>> # Name(p)
    BY <1>0, <1>2, OthersKeep DEF Name
  <2> QED BY <1>0, <1>1, <1>2, <2>1, OthersKeep DEF IInv, NameOf, Name
<1>3. NameOf(p)'
  <2>1. CASE BeginCall(p) \/ RecoverCall(p) \/ InspectCall(p)
    <3>1. calls'[p] = calls[p] + 1 /\ done' = done
      BY <1>0, <2>1 DEF BeginCall, RecoverCall, InspectCall, Call, TypeOK, shared
    <3> QED BY <1>0, <3>1 DEF NameOf, Name, TypeOK
  <2>2. CASE MarkCommitted(p) \/ MarkFails(p)
    <3>1. /\ calls' = calls /\ role'[p] = "owner"
          /\ pc'[p] \in {"collect", "idle"}
      BY <1>0, <2>2 DEF MarkCommitted, MarkFails, Keep, Goto, Return, At, RoleOf, TypeOK
    <3> QED BY <1>0, <1>1, <3>1 DEF NameOf, Name, TypeOK
  <2>3. CASE MakeTx(p)
    <3>1. role[p] = "begin" /\ calls' = calls /\ done' = done
      BY <2>3 DEF MakeTx
    <3> QED BY <1>0, <3>1 DEF NameOf, Name
  <2>4. CASE Prepare(p) \/ Apply(p)
    <3>1. /\ calls' = calls /\ done' = done /\ role' = role
          /\ pc[p] \in {"open", "apply"} 
      BY <2>4 DEF Prepare, Apply, Keep, At
    <3> QED BY <1>0, <3>1 DEF NameOf, Name
  <2>5. CASE Kill(p) \/ MakePrivate(p) \/ OpenLock(p) \/ Acquire(p) \/ Probe(p)
             \/ ProbeEnds(p) \/ ReadNames(p) \/ Inspect(p) \/ Recover(p) \/ ScanReturns(p)
    <3>1. calls' = calls /\ done' = done /\ role' = role
          /\ pc'[p] \notin {"open", "apply", "mark"}
      <4> USE <1>0 DEF Keep, shared, Goto, Return, At, TypeOK
      <4>1. CASE Kill(p) \/ MakePrivate(p) \/ OpenLock(p) \/ Acquire(p) \/ Probe(p)
        BY <4>1 DEF Kill, MakePrivate, OpenLock, Acquire, Probe
      <4>2. CASE ProbeEnds(p) \/ ReadNames(p) \/ ScanReturns(p)
        BY <4>2 DEF ProbeEnds, ReadNames, ScanReturns
      <4>3. CASE Inspect(p)
        BY <4>3 DEF Inspect, NextName
      <4>4. CASE Recover(p)
        BY <4>4 DEF Recover, NextName
      <4> QED BY <2>5, <4>1, <4>2, <4>3, <4>4
    <3> QED BY <1>0, <3>1 DEF NameOf, Name
  <2>6. CASE Undo(p) \/ Collect(p) \/ Delete(p) \/ Abandon(p) \/ ApplyFails(p)
             \/ UndoFails(p) \/ Unlock(p)
    <3>1. calls' = calls /\ done' = done /\ role' = role
          /\ pc'[p] \notin {"open", "apply", "mark"}
      BY <1>0, <2>6 DEF Undo, Collect, Delete, Abandon, ApplyFails, UndoFails, Unlock,
         Keep, shared, Goto, Return, At, TypeOK
    <3> QED BY <1>0, <3>1 DEF NameOf, Name
  <2> QED BY <2>1, <2>2, <2>3, <2>4, <2>5, <2>6 DEF Does, Work
<1> QED BY <1>2, <1>3

\* What the holder of the lock knows of .fstx stays true: nobody else changes it.
LEMMA WorkStep ==
  ASSUME IInv, NEW p \in Proc, Does(p)
  PROVE  \A q \in Proc : WorkOf(q)'
<1>0. TypeOK /\ LockInv /\ EntryInv /\ RoleOf(p) /\ WorkOf(p) /\ NameOf(p)
  BY DEF IInv
<1>1. ASSUME NEW q \in Proc, q # p PROVE WorkOf(q)'
  <2>1. /\ Name(q)' = Name(q) /\ Mine(q)' = Mine(q)
        /\ pc'[q] = pc[q] /\ role'[q] = role[q] /\ target'[q] = target[q]
        /\ queue'[q] = queue[q] /\ base'[q] = base[q]
    BY <1>0, <1>1, OthersKeep DEF Name, Mine
  <2>2. CASE UNCHANGED <<entries, journal, done, half>>
    BY <2>1, <2>2 DEF IInv, WorkOf
  <2>3. CASE ~ UNCHANGED <<entries, journal, done, half>>
    <3>1. ~ Locked(q)
      BY <1>0, <1>1, <2>3, WritersAreLocked, Alone
    <3> QED BY <2>1, <3>1 DEF Locked, Critical, Handling, WorkOf
  <2> QED BY <2>2, <2>3
<1>n. Name(p) \in Tx /\ Mine(p) \in Entry /\ IsTx(Mine(p)) /\ TxOf(Mine(p)) = Name(p)
      /\ Mine(p) = TxDir(Name(p))
  BY <1>0, NameFacts
<1>t. target[p] \in Entry /\ TxOf(target[p]) \in Tx
      /\ (IsTx(target[p]) => target[p] = TxDir(TxOf(target[p])))
  BY <1>0, EntryFacts DEF TypeOK
<1>2. WorkOf(p)'
  <2> USE DEF Handling
  <2>1. CASE pc'[p] \in {"idle", "mkdir", "enter", "wait", "probe", "probed", "read", "unlock"}
    BY <2>1 DEF WorkOf
  <2>2. CASE BeginCall(p) \/ RecoverCall(p) \/ InspectCall(p) \/ MakePrivate(p) \/ OpenLock(p)
             \/ Acquire(p) \/ Probe(p) \/ ProbeEnds(p)
    <3> USE <1>0 DEF TypeOK, Goto, Return
    <3>1. pc'[p] \in {"idle", "mkdir", "enter", "wait", "probe", "probed", "read"}
      BY <2>2 DEF BeginCall, RecoverCall, InspectCall, MakePrivate, OpenLock, Acquire,
         Probe, ProbeEnds
    <3> QED BY <2>1, <3>1
  <2>3. CASE ScanReturns(p) \/ MarkFails(p) \/ UndoFails(p) \/ Unlock(p) \/ Kill(p)
    <3>1. pc'[p] = "idle"
      BY <1>0, <2>3 DEF ScanReturns, MarkFails, UndoFails, Unlock, Kill, TypeOK, Goto, Return
    <3> QED BY <2>1, <3>1
  <2>4. CASE ReadNames(p)
    <3>1. pc'[p] = "scan" /\ queue'[p] = entries /\ entries' = entries
      BY <1>0, <2>4 DEF ReadNames, Goto, TypeOK, shared
    <3> QED BY <3>1 DEF WorkOf
  <2>5. CASE Inspect(p)
    <3>1. pc'[p] = "scan" /\ role'[p] = "inspect"
      BY <2>5 DEF Inspect, NextName, At
    <3> QED BY <3>1 DEF WorkOf
  <2>6. CASE Recover(p)
    <3>1. PICK e \in queue[p] :
            /\ pc[p] = "scan" /\ role[p] \in {"begin", "recover"}
            /\ queue'[p] = queue[p] \ {e} /\ target'[p] = e /\ role' = role
            /\ pc'[p] = CASE Decide(e) = "garbage" -> "delete"
                          [] Decide(e) = "roll_back" -> "undo"
                          [] OTHER -> "collect"
            /\ UNCHANGED shared
      BY <1>0, <2>6 DEF Recover, NextName, At, Goto, TypeOK
    <3>2. entries' = queue'[p] \union {target'[p]} /\ target'[p] \notin queue'[p]
      BY <1>0, <3>1 DEF WorkOf, shared
    <3>3. pc'[p] \in {"delete", "undo", "collect"} /\ role'[p] # "owner"
      BY <3>1
    <3>4. pc'[p] = "delete" => ~ IsTx(e)
      BY <3>1 DEF Decide
    <3>5. pc'[p] \in {"undo", "collect"} => IsTx(e)
      BY <3>1 DEF Decide
    <3>6. pc'[p] = "collect" => TxOf(e) \notin half
      BY <1>0, <3>1, <3>5 DEF Decide, EntryInv
    <3> QED BY <3>1, <3>2, <3>3, <3>4, <3>5, <3>6 DEF WorkOf, shared
  <2>7. CASE Undo(p)
    <3>1. /\ pc[p] = "undo" /\ pc'[p] = "collect" /\ half' = half \ {TxOf(target[p])}
          /\ UNCHANGED <<entries, queue, target, role>>
      BY <1>0, <2>7 DEF Undo, At, Goto, Keep, TypeOK
    <3> QED BY <1>0, <3>1 DEF WorkOf
  <2>8. CASE Collect(p)
    <3>1. pc[p] = "collect" /\ target[p] \in entries
      BY <1>0, <2>8 DEF Collect, WorkOf, At
    <3>2. /\ pc'[p] = "delete" /\ target'[p] = GcDir(TxOf(target[p]))
          /\ entries' = (entries \ {target[p]}) \union {target'[p]}
          /\ UNCHANGED <<role, queue>>
      BY <1>0, <2>8, <3>1 DEF Collect, At, Goto, TypeOK
    <3>3. target'[p] \notin queue[p] /\ ~ IsTx(target'[p])
      BY <1>0, <1>t, <3>1, <3>2, EntryFacts DEF WorkOf, EntryInv
    <3> QED BY <1>0, <3>1, <3>2, <3>3 DEF WorkOf
  <2>9. CASE Delete(p)
    <3>1. pc[p] = "delete" /\ target[p] \in entries
      BY <1>0, <2>9 DEF Delete, WorkOf, At
    <3>2. /\ pc'[p] \in {"scan", "unlock"} /\ entries' = entries \ {target[p]}
          /\ UNCHANGED <<role, queue>>
      BY <1>0, <2>9, <3>1 DEF Delete, At, Goto, TypeOK
    <3> QED BY <1>0, <3>1, <3>2 DEF WorkOf
  <2>10. CASE MakeTx(p)
    <3>1. /\ pc'[p] = "open" /\ target'[p] = Mine(p) /\ base'[p] = done
          /\ role'[p] = "owner" /\ Mine(p)' = Mine(p)
          /\ UNCHANGED <<journal, done, half, queue>>
      BY <1>0, <2>10 DEF MakeTx, Goto, TypeOK, Mine, Name
    <3>2. entries = {} /\ queue[p] = {} /\ entries' = {Mine(p)}
      BY <1>0, <2>10 DEF MakeTx, WorkOf, At
    <3>3. half = {}
      BY <1>0, <3>2 DEF EntryInv
    <3> QED BY <3>1, <3>2, <3>3 DEF WorkOf
  <2>11. CASE Abandon(p)
    <3>1. /\ pc[p] = "open" /\ pc'[p] = "collect"
          /\ UNCHANGED <<entries, half, queue, target, role>>
      BY <1>0, <2>11 DEF Abandon, At, Goto, Keep, TypeOK, shared
    <3> QED BY <1>0, <1>n, <3>1 DEF WorkOf
  <2>12. CASE Prepare(p)
    <3>1. /\ pc[p] = "open" /\ pc'[p] = "apply" /\ journal' = journal \union {Name(p)}
          /\ UNCHANGED <<entries, half, done, queue, target, role, base>>
          /\ Mine(p)' = Mine(p) /\ Name(p)' = Name(p)
      BY <1>0, <2>12 DEF Prepare, At, Goto, Keep, TypeOK, Mine, Name
    <3> QED BY <1>0, <3>1 DEF WorkOf
  <2>13. CASE Apply(p) \/ ApplyFails(p)
    <3>1. /\ pc[p] = "apply" /\ pc'[p] \in {"mark", "undo"}
          /\ UNCHANGED <<entries, journal, done, queue, target, role, base>>
          /\ Mine(p)' = Mine(p) /\ Name(p)' = Name(p)
      BY <1>0, <2>13 DEF Apply, ApplyFails, At, Goto, Keep, TypeOK, Mine, Name
    <3> QED BY <1>0, <1>n, <3>1 DEF WorkOf
  <2>14. CASE MarkCommitted(p)
    <3>1. /\ pc[p] = "mark" /\ pc'[p] = "collect" /\ half' = half \ {Name(p)}
          /\ UNCHANGED <<entries, queue, target, role>>
      BY <1>0, <2>14 DEF MarkCommitted, Committed, At, Goto, Keep, TypeOK
    <3> QED BY <1>0, <1>n, <3>1 DEF WorkOf
  <2> QED
    BY <2>2, <2>3, <2>4, <2>5, <2>6, <2>7, <2>8, <2>9, <2>10, <2>11, <2>12, <2>13, <2>14
    DEF Does, Work
<1> QED BY <1>1, <1>2

\* No call finds gone what it has read.
LEMMA VanishStep ==
  ASSUME IInv, NEW p \in Proc, Does(p)
  PROVE  NothingVanishes'
<1>0. TypeOK /\ WorkOf(p) /\ NothingVanishes
  BY DEF IInv
<1>1. result'[p] # "vanished"
  <2> USE <1>0 DEF TypeOK, Goto, Keep, Return, At, shared, NothingVanishes
  <2>1. CASE BeginCall(p) \/ RecoverCall(p) \/ InspectCall(p) \/ Kill(p)
    BY <2>1 DEF BeginCall, RecoverCall, InspectCall, Call, Kill
  <2>2. CASE MakePrivate(p) \/ OpenLock(p) \/ Acquire(p) \/ Probe(p) \/ ProbeEnds(p)
    BY <2>2 DEF MakePrivate, OpenLock, Acquire, Probe, ProbeEnds
  <2>3. CASE ReadNames(p) \/ Inspect(p) \/ Recover(p) \/ ScanReturns(p) \/ Undo(p)
    BY <2>3 DEF ReadNames, Inspect, Recover, ScanReturns, Undo
  <2>4. CASE MakeTx(p) \/ Abandon(p) \/ Prepare(p) \/ Apply(p)
    BY <2>4 DEF MakeTx, Abandon, Prepare, Apply
  <2>5. CASE ApplyFails(p) \/ MarkCommitted(p) \/ MarkFails(p) \/ UndoFails(p) \/ Unlock(p)
    BY <2>5 DEF ApplyFails, MarkCommitted, MarkFails, UndoFails, Unlock
  <2>6. CASE Collect(p) \/ Delete(p)
    <3>1. target[p] \in entries
      BY <2>6 DEF Collect, Delete, WorkOf, Handling
    <3> QED BY <2>6, <3>1 DEF Collect, Delete
  <2> QED BY <2>1, <2>2, <2>3, <2>4, <2>5, <2>6 DEF Does, Work
<1> QED BY <1>0, <1>1, OthersKeep DEF NothingVanishes

-----------------------------------------------------------------------------
(* The invariant, and what follows from it. *)

\* At first nobody is inside a call.
LEMMA InitInv == Init => IInv
<1> SUFFICES ASSUME Init PROVE IInv
  OBVIOUS
<1>1. TypeOK
  BY DEF Init, TypeOK, Entry, Tx, TxDir, Phases
<1>2. LockInv /\ EntryInv /\ NothingVanishes
  BY DEF Init, LockInv, EntryInv, OneTransaction, NothingVanishes, Locked, Critical
<1>3. \A p \in Proc : RoleOf(p) /\ WorkOf(p) /\ NameOf(p)
  BY DEF Init, RoleOf, WorkOf, NameOf, Handling
<1> QED BY <1>1, <1>2, <1>3 DEF IInv

\* Every step keeps the invariant.
LEMMA StepInv == IInv /\ [Next]_vars => IInv'
<1> SUFFICES ASSUME IInv, [Next]_vars PROVE IInv'
  OBVIOUS
<1>1. CASE Next
  <2>1. PICK p \in Proc : Does(p)
    BY <1>1 DEF Next
  <2> QED
    BY <2>1, TypeStep, LockStep, RoleStep, EntryStep, NameStep, WorkStep, VanishStep DEF IInv
<1>2. CASE UNCHANGED vars
  <2>1. TypeOK' /\ LockInv' /\ EntryInv' /\ NothingVanishes'
    BY <1>2 DEF vars, IInv, TypeOK, LockInv, Locked, EntryInv, OneTransaction, NothingVanishes
  <2>2. \A p \in Proc : RoleOf(p)' /\ WorkOf(p)' /\ NameOf(p)'
    BY <1>2 DEF vars, IInv, RoleOf, WorkOf, NameOf, Name, Mine
  <2> QED BY <2>1, <2>2 DEF IInv
<1> QED BY <1>1, <1>2

\* The inductive invariant holds of every reachable state, for any users and calls.
LEMMA Inductive == Spec => []IInv
BY InitInv, StepInv, PTL DEF Spec

\* An open transaction is alone: its directory stays its owner's, nothing else is half
\* applied, and no other transaction commits before it does.
THEOREM Isolation == Spec => []OpenIsAlone
<1>1. IInv => OpenIsAlone
  <2> SUFFICES ASSUME IInv, NEW p \in Proc, Open(p)
               PROVE  /\ Mine(p) \in entries
                      /\ done = base[p] /\ half \subseteq {Name(p)}
                      /\ Name(p) \in half => At(p, "mark")
    BY DEF OpenIsAlone
  <2>1. entries = {Mine(p)} /\ done = base[p]
    BY DEF IInv, Open, WorkOf, Handling
  <2>2. \A t \in half : t = Name(p)
    BY <2>1, NameFacts, EntryFacts DEF IInv, EntryInv, TypeOK
  <2>3. pc[p] \in {"open", "apply"} => half = {}
    BY DEF IInv, WorkOf
  <2> QED BY <2>1, <2>2, <2>3 DEF Open, At
<1> QED BY <1>1, Inductive, PTL

\* There is at most one transaction directory, whatever was killed and when, and no call
\* loses to another what it has read in .fstx.
THEOREM NoInterference == Spec => []NobodyInterferes
<1>1. IInv => NobodyInterferes
  BY DEF IInv, EntryInv, NobodyInterferes
<1> QED BY <1>1, Inductive, PTL

-----------------------------------------------------------------------------
(* Inspection under the shared lock. *)

\* While an inspection has the shared lock, nobody writes.
LEMMA SnapshotStep ==
  ASSUME IInv, \A q \in Proc : SnapshotOf(q), [Next]_vars, NEW p \in Proc
  PROVE  SnapshotOf(p)'
<1>0. TypeOK /\ LockInv /\ SnapshotOf(p)
  BY DEF IInv
<1>1. CASE UNCHANGED vars
  BY <1>0, <1>1 DEF vars, SnapshotOf, Decide
<1>2. ASSUME NEW q \in Proc, Does(q), q # p PROVE SnapshotOf(p)'
  <2>1. /\ pc'[p] = pc[p] /\ role'[p] = role[p] /\ holds'[p] = holds[p]
        /\ queue'[p] = queue[p]
    BY <1>0, <1>2, OthersKeep
  <2>2. report'[p] = report[p]
    <3> USE <1>0, <1>2 DEF TypeOK, Keep
    <3>1. CASE BeginCall(q) \/ RecoverCall(q) \/ InspectCall(q) \/ Kill(q)
      BY <3>1 DEF BeginCall, RecoverCall, InspectCall, Call, Kill
    <3>2. CASE MakePrivate(q) \/ OpenLock(q) \/ Acquire(q) \/ Probe(q) \/ ProbeEnds(q)
      BY <3>2 DEF MakePrivate, OpenLock, Acquire, Probe, ProbeEnds
    <3>3. CASE ReadNames(q) \/ Inspect(q) \/ Recover(q) \/ ScanReturns(q) \/ Undo(q)
      BY <3>3 DEF ReadNames, Inspect, Recover, ScanReturns, Undo
    <3>4. CASE Collect(q) \/ Delete(q) \/ MakeTx(q) \/ Abandon(q) \/ Prepare(q) \/ Apply(q)
      BY <3>4 DEF Collect, Delete, MakeTx, Abandon, Prepare, Apply
    <3>5. CASE ApplyFails(q) \/ MarkCommitted(q) \/ MarkFails(q) \/ UndoFails(q) \/ Unlock(q)
      BY <3>5 DEF ApplyFails, MarkCommitted, MarkFails, UndoFails, Unlock
    <3> QED BY <1>2, <3>1, <3>2, <3>3, <3>4, <3>5 DEF Does, Work
  <2>3. CASE UNCHANGED <<entries, journal, done, half>>
    BY <1>0, <2>1, <2>2, <2>3 DEF SnapshotOf, Decide
  <2>4. CASE ~ UNCHANGED <<entries, journal, done, half>>
    <3>1. holds[p] = "none"
      BY <1>0, <1>2, <2>4, WritersAreLocked DEF LockInv
    <3> QED BY <1>0, <2>1, <2>2, <3>1 DEF SnapshotOf
  <2> QED BY <2>3, <2>4
<1>3. ASSUME Does(p) PROVE SnapshotOf(p)'
  <2> USE <1>0 DEF TypeOK, Goto, Keep, Return, At, shared
  <2>1. CASE BeginCall(p) \/ RecoverCall(p) \/ InspectCall(p)
    <3>1. report'[p] = {} /\ pc'[p] # "scan"
      BY <2>1 DEF BeginCall, RecoverCall, InspectCall, Call
    <3> QED BY <3>1 DEF SnapshotOf
  <2>2. CASE MakePrivate(p) \/ OpenLock(p) \/ Acquire(p)
    <3>1. pc[p] \in {"mkdir", "enter", "wait"} /\ report' = report /\ pc'[p] # "scan"
      BY <2>2 DEF MakePrivate, OpenLock, Acquire
    <3> QED BY <3>1 DEF SnapshotOf
  <2>3. CASE ReadNames(p)
    <3>1. report'[p] = {} /\ queue'[p] = entries' /\ pc'[p] = "scan"
      BY <2>3 DEF ReadNames, SnapshotOf
    <3> QED BY <3>1 DEF SnapshotOf
  <2>4. CASE Inspect(p)
    <3>1. PICK e \in queue[p] :
            /\ pc[p] = "scan" /\ role[p] = "inspect"
            /\ queue'[p] = queue[p] \ {e}
            /\ report'[p] = report[p] \union
                 {<<e, IF e \in entries \/ ~ IsTx(e) THEN Decide(e) ELSE "discard">>}
      BY <2>4 DEF Inspect, NextName
    <3>2. /\ pc' = pc /\ role' = role /\ holds' = holds
          /\ UNCHANGED <<entries, journal, done>>
      BY <2>4 DEF Inspect
    <3>3. \A f : Decide(f)' = Decide(f)
      BY <3>2 DEF Decide
    <3>4. CASE holds[p] = "shared"
      <4>1. e \in entries /\ queue[p] \subseteq entries
            /\ report[p] = {<<f, Decide(f)>> : f \in entries \ queue[p]}
        BY <3>1, <3>4 DEF SnapshotOf
      <4>2. report'[p] = {<<f, Decide(f)>> : f \in entries \ queue'[p]}
        BY <3>1, <4>1
      <4> QED BY <3>1, <3>2, <3>3, <4>1, <4>2 DEF SnapshotOf
    <3>5. CASE holds[p] # "shared"
      BY <3>1, <3>2, <3>5 DEF SnapshotOf
    <3> QED BY <3>4, <3>5
  <2>5. CASE Recover(p)
    <3>1. pc'[p] \in {"delete", "undo", "collect"}
      BY <2>5 DEF Recover, NextName
    <3> QED BY <3>1 DEF SnapshotOf
  <2>6. CASE Probe(p) \/ ProbeEnds(p)
    <3>1. role[p] # "inspect" /\ report' = report
      BY <2>6 DEF Probe, ProbeEnds, IInv, RoleOf
    <3>2. pc[p] \in {"probe", "probed"} /\ role' = role /\ pc'[p] \in {"probed", "read"}
      BY <2>6 DEF Probe, ProbeEnds
    <3>3. report'[p] = {}
      BY <3>1, <3>2 DEF SnapshotOf
    <3> QED BY <3>1, <3>3, <3>2 DEF SnapshotOf
  <2>7. CASE ScanReturns(p) \/ MarkFails(p) \/ UndoFails(p) \/ Unlock(p) \/ Kill(p)
    <3>1. pc'[p] = "idle"
      BY <2>7 DEF ScanReturns, MarkFails, UndoFails, Unlock, Kill
    <3> QED BY <3>1 DEF SnapshotOf
  <2>8. CASE Delete(p)
    <3>1. pc'[p] \in {"idle", "scan", "unlock"} /\ role'[p] # "inspect"
      BY <2>8 DEF Delete, IInv, RoleOf
    <3> QED BY <3>1 DEF SnapshotOf
  <2>9. CASE Undo(p) \/ Collect(p) \/ MakeTx(p) \/ Abandon(p) \/ Prepare(p) \/ Apply(p)
             \/ ApplyFails(p) \/ MarkCommitted(p)
    <3>1. pc'[p] \notin {"mkdir", "enter", "wait", "probe", "probed", "read", "scan"}
      BY <2>9 DEF Undo, Collect, MakeTx, Abandon, Prepare, Apply, ApplyFails, MarkCommitted
    <3> QED BY <3>1 DEF SnapshotOf
  <2> QED
    BY <1>3, <2>1, <2>2, <2>3, <2>4, <2>5, <2>6, <2>7, <2>8, <2>9 DEF Does, Work
<1> QED BY <1>1, <1>2, <1>3 DEF Next

\* An inspection that found the lock file reports one state of .fstx.
THEOREM InspectionUnderLock == Spec => []InspectionIsSnapshot
<1> DEFINE SInv == IInv /\ \A p \in Proc : SnapshotOf(p)
<1>1. Init => SInv
  BY InitInv DEF Init, SnapshotOf
<1>2. SInv /\ [Next]_vars => SInv'
  BY StepInv, SnapshotStep
<1>3. SInv => InspectionIsSnapshot
  BY DEF InspectionIsSnapshot, SnapshotOf, At
<1> HIDE DEF SInv
<1> QED BY <1>1, <1>2, <1>3, PTL DEF Spec
=============================================================================
