-------------------------- MODULE NodeBindingProofs --------------------------
(* Proofs about NodeBinding, for any calls on any roots, overlapping or not: the two halves of      *)
(* transaction() that safety is about.  That every call settles is checked by TLC.                  *)
EXTENDS NodeBinding, TLAPS

Does(c) ==
  \/ Begin(c) \/ Beginning(c) \/ FnEnds(c) \/ FnDiscards(c) \/ FnCommits(c) \/ FnCommitsAsync(c)
  \/ Settling(c) \/ Work(c) \/ Deliver(c)

-----------------------------------------------------------------------------
(* One step of one call. *)

\* Every action keeps the types.
LEMMA TypeStep ==
  ASSUME TypeOK, NEW c \in Call, Does(c)
  PROVE  TypeOK'
<1> USE NodeAssumption DEF TypeOK, Outcomes, Release, Settle, Free, Loop
<1>1. CASE Begin(c)
  BY <1>1 DEF Begin
<1>2. CASE BeginThrows(c)
  BY <1>2 DEF BeginThrows
<1>3. CASE Locked(c)
  BY <1>3 DEF Locked
<1>4. CASE FnAwaits(c)
  BY <1>4 DEF FnAwaits, Ends
<1>5. CASE FnReturns(c)
  BY <1>5 DEF FnReturns, Ends, Drop
<1>6. CASE FnThrows(c)
  BY <1>6 DEF FnThrows, Ends, Drop
<1>7. CASE FnDiscards(c)
  BY <1>7 DEF FnDiscards, FnHasIt, Drop
<1>8. CASE FnCommits(c)
  BY <1>8 DEF FnCommits, FnHasIt, Commit
<1>9. CASE FnCommitsAsync(c)
  BY <1>9 DEF FnCommitsAsync, FnHasIt
<1>10. CASE FnRejects(c)
  <2>1. CASE c \in inner
    <3>1. inner' = inner \ {c} /\ lock' = [lock EXCEPT ![RootOf[c]] = "none"]
      BY <1>10, <2>1 DEF FnRejects, Drop
    <3>2. /\ inner' \in SUBSET Call /\ lock' \in [Root -> Call \union {"other", "none"}]
          /\ \A r \in Root : lock'[r] \in Call => RootOf[lock'[r]] = r
      BY <3>1
    <3>3. /\ loop' \in Call \union {"free"} /\ worker' \in SUBSET Call /\ asked' \in SUBSET Call
          /\ landed' \in SUBSET Call /\ done' \in [Call -> Outcomes \union {"none"}]
      BY <1>10 DEF FnRejects
    <3>4. /\ at' \in [Call -> {"new", "beginning", "running", "pending", "committing", "settled"}]
          /\ result' \in [Call -> Outcomes \union {"unbegun", "thrown", "none"}]
      BY <1>10 DEF FnRejects
    <3> QED BY <3>2, <3>3, <3>4
  <2>2. CASE c \notin inner
    BY <1>10, <2>2 DEF FnRejects, Drop
  <2> QED BY <2>1, <2>2
<1>11. CASE FnResolves(c)
  <2>1. CASE c \in inner
    <3>1. inner' = inner \ {c} /\ worker' = worker \union {c} /\ asked' = asked \union {c}
      BY <1>11, <2>1 DEF FnResolves
    <3>2. inner' \in SUBSET Call /\ worker' \in SUBSET Call /\ asked' \in SUBSET Call
      BY <3>1
    <3>3. /\ at' = [at EXCEPT ![c] = "committing"] /\ UNCHANGED <<loop, done, lock, landed, result>>
      BY <1>11, <2>1 DEF FnResolves
    <3> QED BY <3>2, <3>3
  <2>2. CASE c \notin inner
    <3>1. UNCHANGED <<loop, inner, worker, asked, lock, landed, result>>
      BY <1>11, <2>2 DEF FnResolves
    <3>2. at' = [at EXCEPT ![c] = "committing"]
      BY <1>11 DEF FnResolves
    <3>3. done' = [done EXCEPT ![c] = "finished"]
      BY <1>11, <2>2 DEF FnResolves
    <3> QED BY <3>1, <3>2, <3>3
  <2> QED BY <2>1, <2>2
<1>12. CASE Work(c)
  BY <1>12 DEF Work, Commit
<1>13. CASE Deliver(c)
  BY <1>13 DEF Deliver
<1> QED BY <1>1, <1>2, <1>3, <1>4, <1>5, <1>6, <1>7, <1>8, <1>9, <1>10, <1>11, <1>12, <1>13
      DEF Does, Beginning, FnEnds, Settling

\* The step leaves the state of every other call alone, and what that call has in the lock table.
LEMMA OthersKeep ==
  ASSUME IInv, NEW c \in Call, Does(c), NEW b \in Call, b # c
  PROVE  /\ at'[b] = at[b] /\ done'[b] = done[b] /\ result'[b] = result[b]
         /\ (b \in inner' <=> b \in inner) /\ (b \in worker' <=> b \in worker)
         /\ (b \in asked' <=> b \in asked) /\ (b \in landed' <=> b \in landed)
         /\ lock[RootOf[b]] = b => lock'[RootOf[b]] = b
         /\ (loop' = b <=> loop = b)
<1> USE NodeAssumption DEF IInv, TypeOK, CallInv, Release, Settle, Free, Loop
<1>1. CASE Begin(c)
  BY <1>1 DEF Begin
<1>2. CASE BeginThrows(c)
  BY <1>2 DEF BeginThrows
<1>3. CASE Locked(c)
  BY <1>3 DEF Locked
<1>4. CASE FnAwaits(c)
  BY <1>4 DEF FnAwaits, Ends
<1>5. CASE FnReturns(c)
  BY <1>5 DEF FnReturns, Ends, Drop
<1>6. CASE FnThrows(c)
  BY <1>6 DEF FnThrows, Ends, Drop
<1>7. CASE FnDiscards(c)
  BY <1>7 DEF FnDiscards, FnHasIt, Drop
<1>8. CASE FnCommits(c)
  BY <1>8 DEF FnCommits, FnHasIt, Commit
<1>9. CASE FnCommitsAsync(c)
  BY <1>9 DEF FnCommitsAsync, FnHasIt
<1>10. CASE FnRejects(c)
  BY <1>10 DEF FnRejects, Drop
<1>11. CASE FnResolves(c)
  BY <1>11 DEF FnResolves
<1>12. CASE Work(c)
  BY <1>12 DEF Work, Commit
<1>13. CASE Deliver(c)
  BY <1>13 DEF Deliver
<1> QED BY <1>1, <1>2, <1>3, <1>4, <1>5, <1>6, <1>7, <1>8, <1>9, <1>10, <1>11, <1>12, <1>13
      DEF Does, Beginning, FnEnds, Settling

\* No step puts a native transaction in two places, or loses one.
LEMMA OwnStep ==
  ASSUME IInv, NEW c \in Call, Does(c)
  PROVE  CallInv(c)'
<1> USE NodeAssumption DEF IInv, TypeOK, CallInv, Release, Settle, Free, Loop
<1>1. CASE Begin(c)
  BY <1>1 DEF Begin
<1>2. CASE BeginThrows(c)
  BY <1>2 DEF BeginThrows
<1>3. CASE Locked(c)
  BY <1>3 DEF Locked
<1>4. CASE FnAwaits(c)
  BY <1>4 DEF FnAwaits, Ends
<1>5. CASE FnReturns(c)
  BY <1>5 DEF FnReturns, Ends, Drop
<1>6. CASE FnThrows(c)
  BY <1>6 DEF FnThrows, Ends, Drop
<1>7. CASE FnDiscards(c)
  BY <1>7 DEF FnDiscards, FnHasIt, Drop
<1>8. CASE FnCommits(c)
  BY <1>8 DEF FnCommits, FnHasIt, Commit
<1>9. CASE FnCommitsAsync(c)
  BY <1>9 DEF FnCommitsAsync, FnHasIt
<1>10. CASE FnRejects(c)
  BY <1>10 DEF FnRejects, Drop
<1>11. CASE FnResolves(c)
  BY <1>11 DEF FnResolves
<1>12. CASE Work(c)
  BY <1>12 DEF Work, Commit
<1>13. CASE Deliver(c)
  <2>1. /\ at[c] = "committing" /\ at'[c] = "settled" /\ result'[c] = done[c] /\ done[c] # "none"
        /\ loop' = loop /\ loop = "free"
        /\ UNCHANGED <<inner, worker, asked, done, lock, landed>>
    BY <1>13 DEF Deliver
  <2>2. c \notin inner
    BY <2>1
  <2>3. c \in worker => lock[RootOf[c]] = c /\ c \notin landed /\ result'[c] \in {"none", "finished"}
    BY <2>1
  <2>4. /\ result'[c] = "ok" \/ done[c] = "ok" => c \in landed
        /\ result'[c] \in {"refused", "unbegun"} \/ done[c] = "refused" => c \notin landed
    <3>1. done[c] \in Outcomes
      BY <2>1 DEF Outcomes
    <3> QED BY <2>1, <3>1 DEF Outcomes
  <2> QED BY <2>1, <2>2, <2>3, <2>4
<1> QED BY <1>1, <1>2, <1>3, <1>4, <1>5, <1>6, <1>7, <1>8, <1>9, <1>10, <1>11, <1>12, <1>13
      DEF Does, Beginning, FnEnds, Settling

\* A step that ends a native transaction gives its lock up, and no other step does.
LEMMA LockStep ==
  ASSUME IInv, NEW c \in Call, Does(c)
  PROVE  LockInv'
<1> USE NodeAssumption DEF IInv, TypeOK, CallInv, LockInv, Release, Settle, Free, Loop
<1>1. CASE Begin(c)
  BY <1>1 DEF Begin
<1>2. CASE BeginThrows(c)
  BY <1>2 DEF BeginThrows
<1>3. CASE Locked(c)
  BY <1>3 DEF Locked
<1>4. CASE FnAwaits(c)
  BY <1>4 DEF FnAwaits, Ends
<1>5. CASE FnReturns(c)
  BY <1>5 DEF FnReturns, Ends, Drop
<1>6. CASE FnThrows(c)
  BY <1>6 DEF FnThrows, Ends, Drop
<1>7. CASE FnDiscards(c)
  BY <1>7 DEF FnDiscards, FnHasIt, Drop
<1>8. CASE FnCommits(c)
  BY <1>8 DEF FnCommits, FnHasIt, Commit
<1>9. CASE FnCommitsAsync(c)
  BY <1>9 DEF FnCommitsAsync, FnHasIt
<1>10. CASE FnRejects(c)
  BY <1>10 DEF FnRejects, Drop
<1>11. CASE FnResolves(c)
  BY <1>11 DEF FnResolves
<1>12. CASE Work(c)
  BY <1>12 DEF Work, Commit
<1>13. CASE Deliver(c)
  BY <1>13 DEF Deliver
<1> QED BY <1>1, <1>2, <1>3, <1>4, <1>5, <1>6, <1>7, <1>8, <1>9, <1>10, <1>11, <1>12, <1>13
      DEF Does, Beginning, FnEnds, Settling

-----------------------------------------------------------------------------
(* The invariant. *)

\* At first there are no calls.
LEMMA InitInv == Init => IInv
BY NodeAssumption DEF Init, IInv, TypeOK, LockInv, CallInv, Outcomes

\* Every step keeps the invariant.
LEMMA StepInv == IInv /\ [Next]_vars => IInv'
<1> SUFFICES ASSUME IInv, [Next]_vars PROVE IInv'
  OBVIOUS
<1>1. CASE UNCHANGED vars
  BY <1>1 DEF vars, IInv, TypeOK, LockInv, CallInv
<1>2. CASE \E c \in Call : Does(c)
  <2>1. PICK c \in Call : Does(c)
    BY <1>2
  <2>2. TypeOK' /\ LockInv' /\ CallInv(c)'
    BY <2>1, TypeStep, LockStep, OwnStep DEF IInv
  <2>3. ASSUME NEW b \in Call, b # c PROVE CallInv(b)'
    <3>1. CallInv(b)
      BY <2>3 DEF IInv
    <3>2. /\ at'[b] = at[b] /\ done'[b] = done[b] /\ result'[b] = result[b]
          /\ (b \in inner' <=> b \in inner) /\ (b \in worker' <=> b \in worker)
          /\ (b \in asked' <=> b \in asked) /\ (b \in landed' <=> b \in landed)
          /\ lock[RootOf[b]] = b => lock'[RootOf[b]] = b
          /\ (loop' = b <=> loop = b)
      BY <2>1, <2>3, OthersKeep
    <3> QED BY <3>1, <3>2 DEF CallInv
  <2> QED BY <2>2, <2>3 DEF IInv
<1>3. CASE \E r \in Root : OtherLocks(r) \/ OtherUnlocks(r)
  <2>1. PICK r \in Root : OtherLocks(r) \/ OtherUnlocks(r)
    BY <1>3
  <2> USE NodeAssumption DEF OtherLocks, OtherUnlocks, Free, IInv
  <2>2. TypeOK'
    BY <2>1 DEF TypeOK
  <2>3. LockInv'
    BY <2>1 DEF TypeOK, LockInv
  <2>4. ASSUME NEW c \in Call PROVE CallInv(c)'
    BY <2>1, <2>4 DEF TypeOK, CallInv
  <2> QED BY <2>2, <2>3, <2>4
<1> QED BY <1>1, <1>2, <1>3 DEF Next, Does

\* Every variable keeps its type.
THEOREM NodeTypes == Spec => []TypeOK
<1>1. IInv => TypeOK
  BY DEF IInv
<1> QED BY <1>1, InitInv, StepInv, PTL DEF Spec

\* However fn finishes its transaction, and whatever the calls on other roots do, no lock outlives
\* its transaction and no transaction is left without its lock.
THEOREM LocksFollowTransactions == Spec => []NoLockIsLeaked
<1>1. IInv => NoLockIsLeaked
  BY NodeAssumption DEF IInv, LockInv, CallInv, TypeOK, NoLockIsLeaked
<1> QED BY <1>1, InitInv, StepInv, PTL DEF Spec

\* A caller that is told its changes are in the tree, or that they are not, is told the truth.
THEOREM OutcomesAreTrue == Spec => []ResultIsTrue
<1>1. IInv => ResultIsTrue
  BY DEF IInv, CallInv, ResultIsTrue
<1> QED BY <1>1, InitInv, StepInv, PTL DEF Spec
=============================================================================
