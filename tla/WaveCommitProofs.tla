-------------------------- MODULE WaveCommitProofs --------------------------
(* Proofs about WaveCommit, for every plan: any tokens, any number of waves,  *)
(* any assignment of moves to waves, kills and power losses without bound.    *)
EXTENDS WaveCommit, TLAPS

-----------------------------------------------------------------------------
(* Places. *)

\* A token that has made no move of its own is at its first location.
LEMMA BeforeIffNothingDone ==
  ASSUME PlanAssumption, TypeOK, PlacesInv, UndoneFrom(1)
  PROVE  Before
<1> SUFFICES ASSUME NEW t \in Token, NEW p \in may[t]
             PROVE  p = At(0)
  BY DEF Before
<1>1. p \in Place /\ p.lo \in Where(t) /\ p.hi \in Where(t) /\ p.lo <= p.hi
  BY DEF TypeOK, PlacesInv
<1>2. p.hi \notin Moves[t]
  <2> SUFFICES ASSUME p.hi \in Moves[t] PROVE FALSE
    OBVIOUS
  <2>1. p.hi \in 1 .. N
    BY DEF PlanAssumption
  <2>2. p.hi < p.hi
    BY <2>1 DEF UndoneFrom, Pre
  <2> QED BY <2>1, <2>2
<1>3. p.hi = 0 /\ p.lo = 0
  BY <1>1, <1>2 DEF Where, Place, PlanAssumption
<1> QED BY <1>1, <1>3 DEF At, Place

\* When every move is made, the tree is the after-tree.
LEMMA AfterWhenDone ==
  ASSUME PlanAssumption, Shape(N + 1)
  PROVE  After
BY DEF PlanAssumption, Shape, After

\* A finished wave is the shape of the next wave's start.
LEMMA NextShape ==
  ASSUME PlanAssumption, NEW w \in 1 .. N, DoneTo(w), UndoneFrom(w + 1)
  PROVE  Shape(w + 1)
BY DEF PlanAssumption, DoneTo, UndoneFrom, Shape

-----------------------------------------------------------------------------
(* Steps that add no place: everything said of all places stays true. *)

NoNewPlaces == \A t \in Token : may'[t] \subseteq may[t]

\* What holds of every place a token may be at, holds if there are fewer.
LEMMA FewerPlaces ==
  ASSUME NoNewPlaces
  PROVE  /\ Before => Before'
         /\ After => After'
         /\ \A k : Shape(k) => Shape(k)'
         /\ \A k : DoneTo(k) => DoneTo(k)'
         /\ \A k : UndoneFrom(k) => UndoneFrom(k)'
BY DEF NoNewPlaces, Before, After, Shape, DoneTo, UndoneFrom

\* A step that moves no token leaves the places alone.
LEMMA StepsWithoutMoves ==
  ASSUME PlanAssumption, IInv, [Next]_vars,
         ~ \E t \in Token : ApplyMove(t) \/ UndoMove(t)
  PROVE  NoNewPlaces
<1> USE DEF NoNewPlaces, tree
<1>1. CASE ApplyBarrier \/ UndoBarrier \/ Stabilize \/ PowerLoss
  BY <1>1 DEF ApplyBarrier, UndoBarrier, Stabilize, PowerLoss, IInv, TypeOK, PlacesInv
<1>2. CASE UNCHANGED may
  BY <1>2
<1> QED
  BY <1>1, <1>2 DEF Next, Apply, Recover, Collect, vars, PublishJournal, SyncJournal,
     PrepareFails, LogApply, SyncApplyLog, ApplyFails, MarkCommitted, SyncCommitted,
     Decide, CheckPreflight, MarkRollingBack, SyncRollingBack, LogUndo, SyncUndoLog, MarkRolledBack,
     SyncRolledBack, RenameToGc, SyncGc, SweepGarbage, Kill

-----------------------------------------------------------------------------
(* Type correctness. *)

\* The types hold at first.
LEMMA TypeInit == ASSUME PlanAssumption, Init PROVE TypeOK
BY DEF PlanAssumption, Init, TypeOK, Phases, Levels, Place, At, Records

\* Every action keeps the types.
LEMMA TypeStep ==
  ASSUME PlanAssumption, IInv, [Next]_vars
  PROVE  TypeOK'
<1>0. TypeOK /\ TreeInv
  BY DEF IInv
<1> USE <1>0 DEF PlanAssumption, TypeOK, Phases, Levels, tree, marks, logs
<1>1. CASE UNCHANGED vars
  BY <1>1 DEF vars
<1>2. CASE Apply
  <2>1. ASSUME NEW t \in Token, ApplyMove(t) PROVE TypeOK'
    BY <2>1 DEF ApplyMove, IsPrev, Place, At, Between, Halfway, Where
  <2>2. CASE ApplyBarrier
    BY <2>2 DEF ApplyBarrier
  <2>3. CASE LogApply \/ SyncApplyLog
    BY <2>3 DEF LogApply, SyncApplyLog, Records, ApplyDone, TreeInv
  <2>4. CASE PublishJournal \/ SyncJournal \/ PrepareFails \/ ApplyFails
              \/ MarkCommitted \/ SyncCommitted
    BY <2>4 DEF PublishJournal, SyncJournal, PrepareFails, ApplyFails, MarkCommitted,
       SyncCommitted
  <2> QED BY <1>2, <2>1, <2>2, <2>3, <2>4 DEF Apply
<1>3. CASE Recover
  <2>1. ASSUME NEW t \in Token, UndoMove(t) PROVE TypeOK'
    BY <2>1 DEF UndoMove, IsPrev, Place, At, Between, Halfway, Where
  <2>2. CASE UndoBarrier \/ Stabilize
    BY <2>2 DEF UndoBarrier, Stabilize, Synced
  <2>3. CASE LogUndo \/ SyncUndoLog
    BY <2>3 DEF LogUndo, SyncUndoLog, Records, UndoDone, TreeInv
  <2>4. CASE Decide \/ CheckPreflight \/ MarkRollingBack \/ SyncRollingBack
              \/ MarkRolledBack \/ SyncRolledBack
    BY <2>4 DEF Decide, Decision, CheckPreflight, MarkRollingBack, SyncRollingBack,
       MarkRolledBack, SyncRolledBack, Synced
  <2> QED BY <1>3, <2>1, <2>2, <2>3, <2>4 DEF Recover
<1>4. CASE Collect \/ Kill
  BY <1>4 DEF Collect, RenameToGc, SyncGc, SweepGarbage, Kill
<1>5. CASE PowerLoss
  BY <1>5 DEF PowerLoss, Left
<1> QED BY <1>1, <1>2, <1>3, <1>4, <1>5 DEF Next

-----------------------------------------------------------------------------
(* The moves. *)

\* The places a move of token t adds, and why nothing said of waves breaks.
LEMMA NewPlaces ==
  ASSUME PlanAssumption, NEW t \in Token, NEW v \in Where(t), NEW k \in 1 .. N,
         IsPrev(t, v, k),
         NEW p \in {At(k), At(v)} \union Halfway(t, v, k)
  PROVE  /\ p \in Place /\ p.lo \in Where(t) /\ p.hi \in Where(t) /\ p.lo <= p.hi
         /\ \A w \in Moves[t] : (w < k => Post(p, w)) /\ (w > k => Pre(p, w))
<1>1. v \in 0 .. N /\ v < k /\ k \in Moves[t]
  BY DEF IsPrev, Where, PlanAssumption
<1>2. \A w \in Moves[t] : w \in 1 .. N /\ (w < k => w <= v)
  BY <1>1 DEF IsPrev, Where, PlanAssumption
<1>3. p = At(k) \/ p = At(v) \/ p = Between(v, k)
  BY DEF Halfway
<1>4. p \in Place /\ p.lo \in {v, k} /\ p.hi \in {v, k} /\ p.lo <= p.hi /\ v <= p.lo /\ p.hi <= k
  BY <1>1, <1>3 DEF At, Between, Place
<1>5. p.lo \in Where(t) /\ p.hi \in Where(t)
  BY <1>1, <1>4 DEF Where
<1>6. \A w \in Moves[t] : (w < k => Post(p, w)) /\ (w > k => Pre(p, w))
  BY <1>1, <1>2, <1>4 DEF Post, Pre
<1> QED BY <1>4, <1>5, <1>6

\* A move in wave k keeps the shape of wave k.
LEMMA MoveKeepsShape ==
  ASSUME PlanAssumption, TypeOK, NEW t \in Token, NEW v \in Where(t), NEW k \in 1 .. N,
         IsPrev(t, v, k), NEW new \in SUBSET Place,
         new \subseteq {At(k), At(v)} \union Halfway(t, v, k),
         may' = [may EXCEPT ![t] = @ \union new]
  PROVE  /\ Shape(k) => Shape(k)'
         /\ UndoneFrom(k + 1) => UndoneFrom(k + 1)'
<1>1. \A s \in Token : \A p \in may'[s] :
        \/ p \in may[s]
        \/ s = t /\ p \in {At(k), At(v)} \union Halfway(t, v, k)
  BY DEF TypeOK
<1>2. \A p \in {At(k), At(v)} \union Halfway(t, v, k) : \A w \in Moves[t] :
        (w < k => Post(p, w)) /\ (w > k => Pre(p, w))
  BY NewPlaces
<1>3. Shape(k) => Shape(k)'
  BY <1>1, <1>2 DEF Shape
<1>4. \A w \in Moves[t] : w >= k + 1 => w > k
  BY DEF PlanAssumption
<1>5. UndoneFrom(k + 1) => UndoneFrom(k + 1)'
  BY <1>1, <1>2, <1>4 DEF UndoneFrom
<1> QED BY <1>3, <1>5

\* Every action keeps what is known of a single token's places.
LEMMA PlacesStep ==
  ASSUME PlanAssumption, IInv, [Next]_vars
  PROVE  PlacesInv'
<1>0. TypeOK /\ PlacesInv /\ TreeInv
  BY DEF IInv
<1>1. ASSUME NEW t \in Token, ApplyMove(t) \/ UndoMove(t)
      PROVE  PlacesInv'
  <2>1. PICK v \in Where(t) :
          /\ IsPrev(t, v, wave)
          /\ \/ /\ pos' = [pos EXCEPT ![t] = At(wave)]
                /\ may' = [may EXCEPT ![t] = @ \union {At(wave)} \union Halfway(t, v, wave)]
             \/ /\ pos' = [pos EXCEPT ![t] = At(v)]
                /\ may' = [may EXCEPT ![t] = @ \union {At(v)} \union Halfway(t, v, wave)]
    BY <1>1 DEF ApplyMove, UndoMove
  <2>2. wave \in 1 .. N
    BY <2>1 DEF IsPrev, PlanAssumption
  <2>3. \A p \in {At(wave), At(v)} \union Halfway(t, v, wave) :
          p.lo \in Where(t) /\ p.hi \in Where(t) /\ p.lo <= p.hi
    BY <2>1, <2>2, NewPlaces
  <2>4. \A s \in Token : s # t => pos'[s] = pos[s] /\ may'[s] = may[s]
    BY <2>1, <1>0 DEF TypeOK
  <2>5. /\ pos'[t] \in may'[t]
        /\ \A p \in may'[t] :
             p \in may[t] \/ p \in {At(wave), At(v)} \union Halfway(t, v, wave)
    BY <2>1, <1>0 DEF TypeOK
  <2> QED BY <2>3, <2>4, <2>5, <1>0 DEF PlacesInv, Where
<1>2. CASE ~ \E t \in Token : ApplyMove(t) \/ UndoMove(t)
  <2>1. NoNewPlaces
    BY <1>2, StepsWithoutMoves
  <2>2. \A t \in Token : pos'[t] \in may'[t]
    <3>1. CASE ApplyBarrier \/ UndoBarrier \/ Stabilize
      BY <3>1, <1>0 DEF ApplyBarrier, UndoBarrier, Stabilize, TypeOK, PlacesInv
    <3>2. CASE PowerLoss
      BY <3>2 DEF PowerLoss
    <3>3. CASE UNCHANGED tree
      BY <3>3, <1>0 DEF tree, PlacesInv
    <3> QED
      BY <1>2, <3>1, <3>2, <3>3 DEF Next, Apply, Recover, Collect, vars, tree,
         PublishJournal, SyncJournal, PrepareFails, LogApply, SyncApplyLog, ApplyFails,
         MarkCommitted, SyncCommitted, Decide, CheckPreflight, MarkRollingBack,
         SyncRollingBack, LogUndo, SyncUndoLog, MarkRolledBack, SyncRolledBack, RenameToGc, SyncGc,
         SweepGarbage, Kill
  <2> QED BY <2>1, <2>2, <1>0 DEF NoNewPlaces, PlacesInv, Where
<1> QED BY <1>1, <1>2

\* Where a move of the undo phase starts, the wave being undone is the mixed one.
LEMMA UndoIsAtTheMixedWave ==
  ASSUME PlanAssumption, TypeOK, PlacesInv, NEW t \in Token, NEW k \in 1 .. N, k \in Moves[t],
         \E j \in 0 .. N + 1 : Shape(j), UndoneFrom(k + 1), pos[t].hi = k
  PROVE  Shape(k)
<1>1. PICK j \in 0 .. N + 1 : Shape(j)
  OBVIOUS
<1>2. k <= j
  BY <1>1 DEF Shape, PlacesInv, Pre, TypeOK, Place
<1>3. \A w \in 1 .. N : (w < k => w < j) /\ (w > k => w >= k + 1)
  BY <1>2
<1> QED BY <1>1, <1>3 DEF Shape, UndoneFrom, PlanAssumption

\* While wave k is undone, no token of it is past it.
LEMMA NothingPast ==
  ASSUME PlanAssumption, TypeOK, PlacesInv, UndoneFrom(wave + 1), wave \in 1 .. N
  PROVE  \A t \in Token : ~ PastWave(t)
<1> SUFFICES ASSUME NEW t \in Token, PastWave(t) PROVE FALSE
  OBVIOUS
<1>1. pos[t] \in may[t] /\ pos[t].hi \in Where(t) /\ pos[t].hi > wave
  BY DEF PastWave, PlacesInv
<1>2. pos[t].hi \in Moves[t] /\ pos[t].hi \in 1 .. N /\ pos[t].hi >= wave + 1
  BY <1>1 DEF Where, PlanAssumption
<1>3. pos[t].hi < pos[t].hi
  BY <1>1, <1>2 DEF UndoneFrom, Pre
<1> QED BY <1>2, <1>3

\* So the undo of a wave ends in its barrier.
LEMMA UndoneWave ==
  ASSUME PlanAssumption, TypeOK, PlacesInv, TreeInv, UndoBarrier
  PROVE  /\ wave \in 1 .. N /\ wave' = wave /\ UndoneFrom(wave + 1)
         /\ pc' = "undo_log"
         /\ \A t \in Token : wave \in Moves[t] => Pre(pos[t], wave)
         /\ may' = [t \in Token |-> IF wave \in Moves[t] THEN {pos[t]} ELSE may[t]]
<1>1. wave \in 1 .. N /\ UndoneFrom(wave + 1)
  BY DEF UndoBarrier, TreeInv, TypeOK, PlanAssumption
<1>2. \A t \in Token : ~ PastWave(t)
  BY <1>1, NothingPast
<1> QED BY <1>1, <1>2 DEF UndoBarrier

\* Every action keeps what is known of the waves: at most one is mixed.
LEMMA TreeStep ==
  ASSUME PlanAssumption, IInv, [Next]_vars
  PROVE  TreeInv'
<1>0. TypeOK /\ PlacesInv /\ TreeInv /\ MarkInv /\ NeverRefuses
  BY DEF IInv
<1>a. N \in Nat /\ wave \in 0 .. N + 1
  BY <1>0 DEF PlanAssumption, TypeOK
<1>1. ASSUME NEW t \in Token, ApplyMove(t)
      PROVE  TreeInv'
  <2>1. PICK k \in 1 .. N : wave = k
    BY <1>1, <1>a DEF ApplyMove, IsPrev, PlanAssumption
  <2>2. PICK v \in Where(t) :
          /\ IsPrev(t, v, k)
          /\ may' = [may EXCEPT ![t] = @ \union ({At(k)} \union Halfway(t, v, k))]
    BY <1>1, <2>1 DEF ApplyMove
  <2>3. {At(k)} \union Halfway(t, v, k) \in SUBSET Place
    BY <2>2, NewPlaces
  <2>4. Shape(k)
    BY <1>0, <1>1, <2>1 DEF ApplyMove, TreeInv
  <2>5. Shape(k)'
    BY <2>2, <2>3, <2>4, <1>0, MoveKeepsShape
  <2>6. pc' = "apply" /\ wave' = k /\ dir' = "tx"
    BY <1>0, <1>1, <2>1 DEF ApplyMove, MarkInv, TypeOK
  <2> QED BY <2>5, <2>6, <1>a DEF TreeInv, Shape
<1>2. ASSUME NEW t \in Token, UndoMove(t)
      PROVE  TreeInv'
  <2>1. PICK k \in 1 .. N : wave = k
    BY <1>2, <1>a DEF UndoMove, IsPrev, PlanAssumption
  <2>2. PICK v \in Where(t) :
          /\ IsPrev(t, v, k) /\ pos[t] \in {At(k), Between(v, k)}
          /\ may' = [may EXCEPT ![t] = @ \union ({At(v)} \union Halfway(t, v, k))]
    BY <1>2, <2>1 DEF UndoMove
  <2>3. k \in Moves[t] /\ pos[t].hi = k
    BY <2>2 DEF IsPrev, At, Between
  <2>4. {At(v)} \union Halfway(t, v, k) \in SUBSET Place
    BY <2>2, NewPlaces
  <2>5. UndoneFrom(k + 1)
    BY <1>0, <1>2, <2>1 DEF UndoMove, TreeInv
  <2>6. Shape(k)
    BY <2>3, <2>5, <1>0, UndoIsAtTheMixedWave DEF TreeInv
  <2>7. Shape(k)' /\ UndoneFrom(k + 1)'
    BY <2>2, <2>4, <2>5, <2>6, <1>0, MoveKeepsShape
  <2>8. pc' = "undo" /\ wave' = k /\ dir' = "tx"
    BY <1>0, <1>2, <2>1 DEF UndoMove, MarkInv, TypeOK
  <2> QED BY <2>7, <2>8, <1>a DEF TreeInv, Shape, UndoneFrom
<1>3. CASE ~ \E t \in Token : ApplyMove(t) \/ UndoMove(t)
  <2>1. NoNewPlaces
    BY <1>3, StepsWithoutMoves
  <2>2. /\ Before => Before'
        /\ After => After'
        /\ \A k : Shape(k) => Shape(k)'
        /\ \A k : DoneTo(k) => DoneTo(k)'
        /\ \A k : UndoneFrom(k) => UndoneFrom(k)'
    BY <2>1, FewerPlaces
  <2>3. \E k \in 0 .. N + 1 : Shape(k)'
    BY <2>2, <1>0 DEF TreeInv
  <2> USE <2>2, <2>3, <1>0, <1>a
  <2>4. CASE PublishJournal \/ SyncJournal
    <3>1. Before => Shape(1)
      BY DEF Before, Shape, Pre, Post, At, PlanAssumption
    <3> QED BY <2>4, <3>1 DEF PublishJournal, SyncJournal, TreeInv, MarkInv, tree
  <2>5. CASE PrepareFails \/ ApplyFails \/ LogApply
    BY <2>5 DEF PrepareFails, ApplyFails, LogApply, TreeInv, MarkInv, tree
  <2>6. CASE ApplyBarrier
    <3>1. wave \in 1 .. N /\ wave' = wave /\ pc' = "log" /\ dir' = "tx"
      BY <2>6 DEF ApplyBarrier, TreeInv, MarkInv, TypeOK
    <3>2. Shape(wave)
      BY <2>6 DEF ApplyBarrier, TreeInv
    <3>3. DoneTo(wave)'
      <4> SUFFICES ASSUME NEW t \in Token, NEW p \in may'[t], NEW w \in Moves[t], w <= wave
                   PROVE  Post(p, w)
        BY <3>1 DEF DoneTo
      <4>1. p \in may[t] /\ (wave \in Moves[t] => p = pos[t])
        BY <2>1, <2>6 DEF ApplyBarrier, NoNewPlaces
      <4>2. CASE w = wave
        BY <4>1, <4>2, <2>6 DEF ApplyBarrier
      <4>3. CASE w < wave
        BY <4>1, <4>3, <3>2 DEF Shape
      <4> QED BY <4>2, <4>3, <3>1 DEF PlanAssumption
    <3>4. UndoneFrom(wave + 1)'
      <4>1. UndoneFrom(wave + 1)
        BY <3>1, <3>2 DEF Shape, UndoneFrom, PlanAssumption
      <4> QED BY <4>1, <2>1, <3>1 DEF UndoneFrom, NoNewPlaces
    <3> QED BY <3>1, <3>3, <3>4 DEF TreeInv, DoneTo, UndoneFrom
  <2>7. CASE SyncApplyLog
    <3>1. wave \in 1 .. N /\ Shape(wave + 1)
      BY <2>7, NextShape DEF SyncApplyLog, TreeInv
    <3>2. wave' = wave + 1 /\ may' = may /\ pc' = "apply" /\ dir' = "tx"
      BY <2>7 DEF SyncApplyLog, MarkInv, TypeOK, tree
    <3> QED BY <3>1, <3>2 DEF TreeInv, Shape
  <2>8. CASE MarkCommitted \/ SyncCommitted
    <3>1. wave = N + 1 /\ Shape(wave) => After
      BY AfterWhenDone
    <3> QED BY <2>8, <3>1 DEF MarkCommitted, SyncCommitted, TreeInv, MarkInv, tree
  <2>9. CASE Decide
    <3>1. Decision \in {"gc", "preflight", "refused"}
      BY DEF Decision
    <3>2. Decision = "gc" => Before \/ After
      BY DEF Decision, MarkInv, Seen
    <3> QED BY <2>9, <3>1, <3>2 DEF Decide, TreeInv, Deciding, tree
  <2>10. CASE CheckPreflight \/ Stabilize \/ MarkRollingBack
    BY <2>10 DEF CheckPreflight, Stabilize, MarkRollingBack, TreeInv, MarkInv, tree,
       RollingBack, Undoing
  <2>11. CASE SyncRollingBack
    <3>1. UndoneFrom(N + 1)'
      BY DEF UndoneFrom, PlanAssumption
    <3> QED BY <2>11, <3>1 DEF SyncRollingBack, TreeInv, MarkInv, tree, UndoneFrom
  <2>12. CASE UndoBarrier
    <3>0. /\ wave \in 1 .. N /\ wave' = wave /\ UndoneFrom(wave + 1) /\ pc' = "undo_log"
          /\ \A t \in Token : wave \in Moves[t] => Pre(pos[t], wave)
          /\ may' = [t \in Token |-> IF wave \in Moves[t] THEN {pos[t]} ELSE may[t]]
      BY <2>12, UndoneWave
    <3>1. dir' = "tx"
      BY <2>12 DEF UndoBarrier, MarkInv, TypeOK
    <3>2. UndoneFrom(wave)'
      <4> SUFFICES ASSUME NEW t \in Token, NEW p \in may'[t], NEW w \in Moves[t], w >= wave
                   PROVE  Pre(p, w)
        BY <3>0 DEF UndoneFrom
      <4>1. p \in may[t] /\ (wave \in Moves[t] => p = pos[t])
        BY <2>1, <3>0 DEF NoNewPlaces
      <4>2. CASE w = wave
        BY <3>0, <4>1, <4>2
      <4>3. CASE w >= wave + 1
        BY <3>0, <4>1, <4>3 DEF UndoneFrom
      <4> QED BY <3>0, <4>2, <4>3 DEF PlanAssumption
    <3> QED BY <3>0, <3>1, <3>2 DEF TreeInv, UndoneFrom
  <2>13. CASE LogUndo
    <3>1. UndoneFrom(wave)'
      BY <2>13 DEF LogUndo, TreeInv, tree, UndoneFrom
    <3> QED BY <3>1, <2>13 DEF LogUndo, TreeInv, MarkInv, tree, UndoneFrom
  <2>14. CASE SyncUndoLog
    <3>1. wave \in 1 .. N /\ wave' = wave - 1 /\ wave' + 1 = wave /\ UndoneFrom(wave)
      BY <2>14 DEF SyncUndoLog, TreeInv
    <3>2. may' = may /\ pc' = "undo" /\ dir' = "tx"
      BY <2>14 DEF SyncUndoLog, MarkInv, TypeOK, tree
    <3> QED BY <3>1, <3>2 DEF TreeInv, UndoneFrom
  <2>15. CASE MarkRolledBack \/ SyncRolledBack
    <3>1. wave = 0 /\ UndoneFrom(wave + 1) => Before
      BY BeforeIffNothingDone
    <3> QED BY <2>15, <3>1 DEF MarkRolledBack, SyncRolledBack, TreeInv, MarkInv, tree
  <2>16. CASE Collect
    BY <2>16 DEF Collect, RenameToGc, SyncGc, SweepGarbage, TreeInv, MarkInv, tree
  <2>17. CASE Kill \/ PowerLoss
    BY <2>17 DEF Kill, PowerLoss, TreeInv, MarkInv, tree
  <2>18. CASE UNCHANGED vars
    BY <2>18 DEF vars, TreeInv, Before, After, Shape, DoneTo, UndoneFrom
  <2> QED
    BY <1>3, <2>4, <2>5, <2>6, <2>7, <2>8, <2>9, <2>10, <2>11, <2>12, <2>13, <2>14, <2>15,
       <2>16, <2>17, <2>18 DEF Next, Apply, Recover
<1> QED BY <1>1, <1>2, <1>3

-----------------------------------------------------------------------------
(* The markers. *)

\* Below the first wave there is nothing to undo.
LEMMA BeforeHasNothingToUndo ==
  ASSUME PlanAssumption, Before, NEW u \in 1 .. N
  PROVE  UndoneFrom(u)
BY DEF PlanAssumption, Before, UndoneFrom, Pre, At

\* Every action keeps what the markers say.
LEMMA MarkStep ==
  ASSUME PlanAssumption, IInv, [Next]_vars
  PROVE  MarkInv'
<1>0. TypeOK /\ PlacesInv /\ TreeInv /\ MarkInv /\ NeverRefuses
  BY DEF IInv
<1> USE <1>0 DEF MarkInv, TypeOK, Seen, Levels, tree, marks, logs, Undoing, RollingBack
<1>1. ASSUME NEW t \in Token, ApplyMove(t) \/ UndoMove(t)
      PROVE  MarkInv'
  <2>1. /\ journal = "durable" /\ committed = "absent" /\ rolled = "absent"
        /\ UNCHANGED <<pc, marks, dir>>
    BY <1>1 DEF ApplyMove, UndoMove
  <2> QED BY <2>1
<1>2. CASE ~ \E t \in Token : ApplyMove(t) \/ UndoMove(t)
  <2>1. (Before => Before') /\ (After => After')
    BY <1>2, StepsWithoutMoves, FewerPlaces
  <2> USE <2>1
  <2>2. CASE PublishJournal \/ SyncJournal \/ PrepareFails \/ ApplyBarrier \/ LogApply
               \/ SyncApplyLog \/ ApplyFails
    BY <2>2 DEF PublishJournal, SyncJournal, PrepareFails, ApplyBarrier, LogApply,
       SyncApplyLog, ApplyFails, TreeInv
  <2>3. CASE MarkCommitted
    <3>1. After
      BY <2>3, AfterWhenDone DEF MarkCommitted, TreeInv
    <3> QED BY <2>3, <3>1 DEF MarkCommitted
  <2>4. CASE SyncCommitted
    BY <2>4 DEF SyncCommitted, TreeInv
  <2>5. CASE Decide \/ CheckPreflight
    <3>1. /\ Decision \in {"gc", "preflight", "refused"}
          /\ Decision = "preflight" => ~ Seen(committed) /\ ~ Seen(rolled) /\ Seen(journal)
      BY DEF Decision
    <3> QED BY <2>5, <3>1 DEF Decide, CheckPreflight, Deciding
  <2>6. CASE Stabilize \/ MarkRollingBack \/ SyncRollingBack
    BY <2>6 DEF Stabilize, MarkRollingBack, SyncRollingBack, Synced
  <2>7. CASE UndoBarrier \/ LogUndo \/ SyncUndoLog
    BY <2>7 DEF UndoBarrier, LogUndo, SyncUndoLog
  <2>8. CASE MarkRolledBack
    <3>1. Before
      BY <2>8, BeforeIffNothingDone DEF MarkRolledBack, TreeInv
    <3> QED BY <2>8, <3>1 DEF MarkRolledBack
  <2>9. CASE SyncRolledBack
    BY <2>9 DEF SyncRolledBack, TreeInv
  <2>10. CASE Collect \/ Kill \/ UNCHANGED vars
    BY <2>10 DEF Collect, RenameToGc, SyncGc, SweepGarbage, Kill, vars
  <2>11. CASE PowerLoss
    BY <2>11 DEF PowerLoss, Left
  <2> QED
    BY <1>2, <2>2, <2>3, <2>4, <2>5, <2>6, <2>7, <2>8, <2>9, <2>10, <2>11
       DEF Next, Apply, Recover
<1> QED BY <1>1, <1>2

-----------------------------------------------------------------------------
(* The progress log. *)

\* What the log promises of wave w of a plan applied up to wave a.
Promised(w, a) == w <= a /\ w < N /\ \A u \in 1 .. N : UndoDone(u) \in durLog => w + 1 < u

\* Every action keeps the log a lower bound of the trees that may be left.
LEMMA LogStep ==
  ASSUME PlanAssumption, IInv, [Next]_vars
  PROVE  LogInv'
<1>0. TypeOK /\ PlacesInv /\ TreeInv /\ MarkInv /\ LogInv /\ NeverRefuses
  BY DEF IInv
<1>a. N \in Nat /\ wave \in 0 .. N + 1 /\ durLog \subseteq log /\ log \subseteq Records
  BY <1>0 DEF PlanAssumption, TypeOK
<1>b. \A a, b : ApplyDone(a) # UndoDone(b) /\ (ApplyDone(a) = ApplyDone(b) => a = b)
                /\ (UndoDone(a) = UndoDone(b) => a = b)
  BY DEF ApplyDone, UndoDone
<1>1. ASSUME NEW t \in Token, ApplyMove(t)
      PROVE  LogInv'
  <2>1. PICK k \in 1 .. N : wave = k
    BY <1>1, <1>a DEF ApplyMove, IsPrev, PlanAssumption
  <2>2. PICK v \in Where(t) :
          /\ IsPrev(t, v, k) /\ pos[t] = At(v)
          /\ may' = [may EXCEPT ![t] = @ \union ({At(k)} \union Halfway(t, v, k))]
    BY <1>1, <2>1 DEF ApplyMove
  <2>3. pc' = "apply" /\ UNCHANGED <<wave, marks, logs>> /\ pc = "apply" /\ rolling = "absent"
    BY <1>0, <1>1 DEF ApplyMove, MarkInv, TypeOK, Seen, Levels
  <2>4. \A u \in 1 .. N : UndoDone(u) \notin log
    BY <2>3, <1>0 DEF LogInv
  <2>5. \A s \in Token : \A p \in may'[s] :
          \/ p \in may[s]
          \/ s = t /\ \A w \in Moves[t] : w < k => Post(p, w)
    <3>1. \A p \in {At(k), At(v)} \union Halfway(t, v, k) :
            \A w \in Moves[t] : w < k => Post(p, w)
      BY <2>2, NewPlaces
    <3> QED BY <3>1, <2>2, <1>0 DEF TypeOK
  <2>6. \A a \in 1 .. N : ApplyDone(a) \in log => ~ (k <= a /\ k < N)
    <3> SUFFICES ASSUME NEW a \in 1 .. N, ApplyDone(a) \in log, k <= a, k < N
                 PROVE  FALSE
      OBVIOUS
    <3>1. pos[t] \in may[t] /\ k \in Moves[t] /\ v < k /\ v \in 0 .. N
      BY <2>2, <1>0 DEF PlacesInv, IsPrev, Where, PlanAssumption
    <3>2. Post(pos[t], k)
      BY <3>1, <2>4, <1>0, <1>a DEF LogInv
    <3> QED BY <3>1, <3>2, <2>2 DEF Post, At
  <2>7. \A a \in 1 .. N : ApplyDone(a) \in log =>
          \A s \in Token : \A p \in may'[s] : \A w \in Moves[s] :
            w <= a /\ w < N => Post(p, w)
    <3> SUFFICES ASSUME NEW a \in 1 .. N, ApplyDone(a) \in log, NEW s \in Token,
                        NEW p \in may'[s], NEW w \in Moves[s], w <= a, w < N
                 PROVE  Post(p, w)
      OBVIOUS
    <3>1. w \in 1 .. N
      BY DEF PlanAssumption
    <3>2. p \in may[s] => Post(p, w)
      BY <2>4, <1>0, <1>a DEF LogInv
    <3>3. w < k
      BY <3>1, <2>6
    <3> QED BY <3>2, <3>3, <2>5
  <2> QED BY <2>3, <2>4, <2>7, <1>a DEF LogInv, logs, marks
<1>2. ASSUME NEW t \in Token, UndoMove(t)
      PROVE  LogInv'
  <2>1. PICK k \in 1 .. N : wave = k
    BY <1>2, <1>a DEF UndoMove, IsPrev, PlanAssumption
  <2>2. PICK v \in Where(t) :
          /\ IsPrev(t, v, k) /\ pos[t] \in {At(k), Between(v, k)}
          /\ may' = [may EXCEPT ![t] = @ \union ({At(v)} \union Halfway(t, v, k))]
    BY <1>2, <2>1 DEF UndoMove
  <2>3. pc' = "undo" /\ UNCHANGED <<wave, marks, logs>> /\ pc = "undo"
    BY <1>0, <1>2 DEF UndoMove
  <2>4. \A s \in Token : \A p \in may'[s] :
          \/ p \in may[s]
          \/ s = t /\ \A w \in Moves[t] : (w < k => Post(p, w)) /\ (w > k => Pre(p, w))
    <3>1. \A p \in {At(k), At(v)} \union Halfway(t, v, k) :
            \A w \in Moves[t] : (w < k => Post(p, w)) /\ (w > k => Pre(p, w))
      BY <2>2, NewPlaces
    <3> QED BY <3>1, <2>2, <1>0 DEF TypeOK
  <2>5. k = N \/ UndoDone(k + 1) \in durLog
    BY <2>1, <2>3, <1>0 DEF LogInv
  <2>6. \A u \in 1 .. N : UndoDone(u) \in log => u > k
    <3> SUFFICES ASSUME NEW u \in 1 .. N, UndoDone(u) \in log, ~ u > k
                 PROVE  FALSE
      OBVIOUS
    <3>1. UndoneFrom(u) /\ k \in Moves[t] /\ k >= u /\ pos[t] \in may[t] /\ pos[t].hi = k
      BY <2>2, <1>0 DEF LogInv, PlacesInv, IsPrev, At, Between
    <3> QED BY <3>1 DEF UndoneFrom, Pre
  <2>7. \A u \in 1 .. N : UndoDone(u) \in log => UndoneFrom(u)'
    <3> SUFFICES ASSUME NEW u \in 1 .. N, UndoDone(u) \in log, NEW s \in Token,
                        NEW p \in may'[s], NEW w \in Moves[s], w >= u
                 PROVE  Pre(p, w)
      BY DEF UndoneFrom
    <3>1. w > k
      BY <2>6 DEF PlanAssumption
    <3>2. p \in may[s] => Pre(p, w)
      BY <1>0 DEF LogInv, UndoneFrom
    <3> QED BY <3>1, <3>2, <2>4
  <2>8. \A w \in 1 .. N : \A a \in 1 .. N : Promised(w, a) => w < k
    <3> SUFFICES ASSUME NEW w \in 1 .. N, NEW a \in 1 .. N, Promised(w, a)
                 PROVE  w < k
      OBVIOUS
    <3>1. CASE k = N
      BY <3>1 DEF Promised
    <3>2. CASE k # N
      <4>1. k + 1 \in 1 .. N /\ UndoDone(k + 1) \in durLog
        BY <2>5, <3>2, <1>a
      <4> QED BY <4>1 DEF Promised
    <3> QED BY <3>1, <3>2
  <2>9. \A a \in 1 .. N : ApplyDone(a) \in log =>
          \A s \in Token : \A p \in may'[s] : \A w \in Moves[s] : Promised(w, a) => Post(p, w)
    <3> SUFFICES ASSUME NEW a \in 1 .. N, ApplyDone(a) \in log, NEW s \in Token,
                        NEW p \in may'[s], NEW w \in Moves[s], Promised(w, a)
                 PROVE  Post(p, w)
      OBVIOUS
    <3>1. w \in 1 .. N /\ w < k
      BY <2>8 DEF PlanAssumption
    <3>2. p \in may[s] => Post(p, w)
      BY <1>0 DEF LogInv, Promised
    <3> QED BY <3>1, <3>2, <2>4
  <2> QED BY <2>3, <2>5, <2>1, <2>7, <2>9, <1>0 DEF LogInv, Promised, logs, marks
<1>3. CASE ~ \E t \in Token : ApplyMove(t) \/ UndoMove(t)
  <2>1. NoNewPlaces
    BY <1>3, StepsWithoutMoves
  <2>2. \A u : UndoneFrom(u) => UndoneFrom(u)'
    BY <2>1, FewerPlaces
  \* Whatever the log said stays true when nothing is written to it.
  <2>3. ASSUME log' \subseteq log, durLog \subseteq durLog', rolling' = rolling \/ rolling = "visible"
        PROVE  /\ \A u \in 1 .. N : UndoDone(u) \in log' => rolling' = "durable" /\ UndoneFrom(u)'
               /\ \A a \in 1 .. N : ApplyDone(a) \in log' =>
                    \A t \in Token : \A p \in may'[t] : \A w \in Moves[t] :
                      (/\ w <= a /\ w < N
                       /\ \A u \in 1 .. N : UndoDone(u) \in durLog' => w + 1 < u) => Post(p, w)
    BY <2>1, <2>2, <2>3, <1>0 DEF LogInv, NoNewPlaces
  <2>4. CASE LogApply
    <3>1. PICK k \in 1 .. N : wave = k
      BY <2>4, <1>0 DEF LogApply, TreeInv
    <3>2. DoneTo(k) /\ may' = may
      BY <2>4, <3>1, <1>0 DEF LogApply, TreeInv, tree
    <3>3. \A w \in 1 .. N : w <= k => w < k + 1
      OBVIOUS
    <3>4. /\ log' = log \union {ApplyDone(k)} /\ durLog' = durLog /\ rolling' = rolling
          /\ pc' = "logged" /\ wave' = k
      BY <2>4, <3>1 DEF LogApply, marks
    <3>5. \A a \in 1 .. N : ApplyDone(a) \in log' => ApplyDone(a) \in log \/ a = k
      BY <3>4, <1>b
    <3>6. \A u \in 1 .. N : UndoDone(u) \in log' => UndoDone(u) \in log
      BY <3>4, <1>b
    <3>7. \A t \in Token : \A p \in may'[t] : \A w \in Moves[t] : w <= k => Post(p, w)
      BY <3>2 DEF DoneTo
    <3>8. \A u \in 1 .. N : UndoDone(u) \in log' => rolling' = "durable" /\ UndoneFrom(u)'
      BY <3>4, <3>6, <2>2, <1>0 DEF LogInv
    <3>9. \A a \in 1 .. N : ApplyDone(a) \in log' =>
            \A t \in Token : \A p \in may'[t] : \A w \in Moves[t] :
              (/\ w <= a /\ w < N
               /\ \A u \in 1 .. N : UndoDone(u) \in durLog' => w + 1 < u) => Post(p, w)
      BY <3>2, <3>4, <3>5, <3>7, <1>0 DEF LogInv
    <3> QED BY <3>4, <3>8, <3>9 DEF LogInv
  <2>5. CASE LogUndo
    <3>1. PICK k \in 1 .. N : wave = k
      BY <2>5, <1>0 DEF LogUndo, TreeInv
    <3>2. UndoneFrom(k) /\ may' = may /\ rolling = "durable"
      BY <2>5, <3>1, <1>0 DEF LogUndo, TreeInv, MarkInv, Undoing, tree
    <3>3. /\ log' = log \union {UndoDone(k)} /\ durLog' = durLog /\ rolling' = rolling
          /\ pc' = "undo_logged" /\ wave' = k
      BY <2>5, <3>1 DEF LogUndo, marks
    <3>4. \A a \in 1 .. N : ApplyDone(a) \in log' => ApplyDone(a) \in log
      BY <3>3, <1>b
    <3>5. \A u \in 1 .. N : UndoDone(u) \in log' => UndoDone(u) \in log \/ u = k
      BY <3>3, <1>b
    <3>6. \A u \in 1 .. N : UndoDone(u) \in log' => rolling' = "durable" /\ UndoneFrom(u)'
      BY <3>2, <3>3, <3>5, <2>2, <1>0 DEF LogInv
    <3>7. \A a \in 1 .. N : ApplyDone(a) \in log' =>
            \A t \in Token : \A p \in may'[t] : \A w \in Moves[t] :
              (/\ w <= a /\ w < N
               /\ \A u \in 1 .. N : UndoDone(u) \in durLog' => w + 1 < u) => Post(p, w)
      BY <3>2, <3>3, <3>4, <1>0 DEF LogInv
    <3> QED BY <3>3, <3>6, <3>7 DEF LogInv
  <2>6. CASE SyncUndoLog
    <3>1. /\ log' = log /\ durLog' = log /\ rolling' = rolling
          /\ pc' = "undo" /\ UndoDone(wave' + 1) \in durLog'
      <4>1. wave' + 1 = wave /\ UndoDone(wave) \in log
        BY <2>6, <1>0, <1>a DEF SyncUndoLog, LogInv
      <4> QED BY <4>1, <2>6 DEF SyncUndoLog, marks
    <3> QED BY <3>1, <2>3, <1>a DEF LogInv
  <2>7. CASE SyncApplyLog \/ ApplyBarrier \/ UndoBarrier \/ MarkRollingBack
             \/ SyncRollingBack \/ Stabilize
    <3>1. /\ log' = log /\ durLog \subseteq durLog' /\ pc' # "undo_logged"
          /\ pc' = "undo" => wave' = N
      BY <2>7, <1>a DEF SyncApplyLog, ApplyBarrier, UndoBarrier, MarkRollingBack,
         SyncRollingBack, Stabilize, logs
    <3>2. rolling' = rolling \/ rolling # "durable"
      BY <2>7 DEF SyncApplyLog, ApplyBarrier, UndoBarrier, MarkRollingBack, SyncRollingBack,
         Stabilize, Synced, Seen, marks
    <3>3. \A u \in 1 .. N : UndoDone(u) \in log' => rolling' = "durable" /\ UndoneFrom(u)'
      BY <3>1, <3>2, <2>2, <1>0 DEF LogInv
    <3>4. \A a \in 1 .. N : ApplyDone(a) \in log' =>
            \A t \in Token : \A p \in may'[t] : \A w \in Moves[t] :
              (/\ w <= a /\ w < N
               /\ \A u \in 1 .. N : UndoDone(u) \in durLog' => w + 1 < u) => Post(p, w)
      BY <3>1, <2>1, <1>0 DEF LogInv, NoNewPlaces
    <3> QED BY <3>1, <3>3, <3>4 DEF LogInv
  <2>8. CASE PowerLoss
    <3>1. /\ log' \subseteq log /\ durLog \subseteq durLog' /\ pc' = "idle"
          /\ rolling' = rolling \/ rolling = "visible"
      BY <2>8, <1>0 DEF PowerLoss, Left, TypeOK, Levels
    <3> QED BY <3>1, <2>3 DEF LogInv
  <2>9. CASE PublishJournal \/ SyncJournal \/ PrepareFails \/ ApplyFails \/ MarkCommitted
             \/ SyncCommitted \/ Decide \/ CheckPreflight \/ MarkRolledBack
             \/ SyncRolledBack \/ Collect \/ Kill
    <3>1. /\ log' = log /\ durLog' = durLog /\ rolling' = rolling
          /\ pc' \notin {"undo", "undo_logged"}
      BY <2>9 DEF PublishJournal, SyncJournal, PrepareFails, ApplyFails, MarkCommitted,
         SyncCommitted, Decide, Decision, CheckPreflight, MarkRolledBack, SyncRolledBack, Collect, RenameToGc,
         SyncGc, SweepGarbage, Kill, logs, marks
    <3> QED BY <3>1, <2>3 DEF LogInv
  <2>10. CASE UNCHANGED vars
    <3>1. /\ log' = log /\ durLog' = durLog /\ rolling' = rolling /\ pc' = pc /\ wave' = wave
      BY <2>10 DEF vars
    <3> QED BY <3>1, <2>3, <1>0 DEF LogInv
  <2> QED
    BY <1>3, <2>4, <2>5, <2>6, <2>7, <2>8, <2>9, <2>10 DEF Next, Apply, Recover
<1> QED BY <1>1, <1>2, <1>3

-----------------------------------------------------------------------------
(* No refusal. *)

\* In a state of the invariant recovery is not refused.
LEMMA PreflightAlwaysPasses ==
  ASSUME PlanAssumption, IInv
  PROVE  Preflight
<1>0. TypeOK /\ PlacesInv /\ TreeInv /\ LogInv
  BY DEF IInv
<1>1. ShapeOk
  <2>1. PICK k \in 0 .. N + 1 : Shape(k)
    BY <1>0 DEF TreeInv
  <2> SUFFICES ASSUME NEW s \in Token, NEW t \in Token, NEW v \in Moves[s], NEW w \in Moves[t],
                      v < w
               PROVE  Post(pos[s], v) \/ Pre(pos[t], w)
    BY DEF ShapeOk
  <2>2. pos[s] \in may[s] /\ pos[t] \in may[t] /\ v \in 1 .. N /\ w \in 1 .. N
    BY <1>0 DEF PlacesInv, PlanAssumption
  <2>3. v < k \/ w > k
    BY <2>2
  <2> QED BY <2>1, <2>2, <2>3 DEF Shape
<1>2. \A u \in 1 .. N : UndoDone(u) \in log =>
        \A t \in Token : \A w \in Moves[t] : w >= u => Pre(pos[t], w)
  BY <1>0 DEF LogInv, UndoneFrom, PlacesInv
<1>3. \A u \in 1 .. N : UndoDone(u) \in durLog => UndoDone(u) \in log
  BY <1>0 DEF TypeOK
<1>4. ProgressOk
  BY <1>0, <1>2, <1>3 DEF LogInv, PlacesInv, ProgressOk
<1> QED BY <1>1, <1>4 DEF Preflight

\* No action makes recovery refuse.
LEMMA RefusesStep ==
  ASSUME PlanAssumption, IInv, [Next]_vars
  PROVE  NeverRefuses'
<1>0. TypeOK /\ PlacesInv /\ TreeInv /\ MarkInv /\ NeverRefuses
  BY DEF IInv
<1>1. Decision # "refused"
  <2>1. Before => ~ Moved
    BY <1>0 DEF Before, Moved, PlacesInv
  <2>2. Seen(committed) => ~ RollbackMarked
    BY <1>0 DEF MarkInv, RollbackMarked
  <2>3. ~ Seen(journal) => ~ Seen(rolling) /\ ~ Moved
    BY <1>0, <2>1 DEF MarkInv, Seen
  <2> QED BY <2>2, <2>3 DEF Decision
<1>2. Preflight
  BY PreflightAlwaysPasses
<1>3. UndoBarrier => pc' = "undo_log"
  BY <1>0, UndoneWave
<1>4. CASE Apply
  BY <1>4 DEF Apply, ApplyMove, ApplyBarrier, PublishJournal, SyncJournal, PrepareFails,
     LogApply, SyncApplyLog, ApplyFails, MarkCommitted, SyncCommitted, NeverRefuses
<1>5. CASE Recover
  BY <1>1, <1>2, <1>3, <1>5 DEF Recover, Decide, CheckPreflight, Stabilize,
     MarkRollingBack, SyncRollingBack, UndoMove, LogUndo, SyncUndoLog, MarkRolledBack,
     SyncRolledBack, NeverRefuses
<1>6. CASE Collect \/ Kill \/ PowerLoss \/ UNCHANGED vars
  BY <1>0, <1>6 DEF Collect, RenameToGc, SyncGc, SweepGarbage, Kill, PowerLoss, vars,
     NeverRefuses
<1> QED BY <1>4, <1>5, <1>6 DEF Next

-----------------------------------------------------------------------------
(* The theorems. *)

\* The invariant holds at first.
LEMMA InvInit == ASSUME PlanAssumption, Init PROVE IInv
<1>1. TypeOK
  BY TypeInit
<1>2. Before
  BY DEF Init, Before
<1>3. PlacesInv
  <2>1. At(0).lo = 0 /\ At(0).hi = 0
    BY DEF At
  <2>2. \A t \in Token : pos[t] = At(0) /\ may[t] = {At(0)}
    BY DEF Init
  <2>3. \A t \in Token : 0 \in Where(t)
    BY DEF Where
  <2>4. \A t \in Token : \A p \in may[t] : p.lo = 0 /\ p.hi = 0
    BY <2>1, <2>2
  <2>5. \A t \in Token : pos[t] \in may[t]
    BY <2>2
  <2>6. ASSUME NEW t \in Token, NEW p \in may[t]
        PROVE  p.lo \in Where(t) /\ p.hi \in Where(t) /\ p.lo <= p.hi
    <3>1. p.lo = 0 /\ p.hi = 0 /\ 0 \in Where(t) /\ 0 <= 0
      BY <2>3, <2>4
    <3> QED BY <3>1
  <2> QED BY <2>5, <2>6 DEF PlacesInv
<1>4. TreeInv
  <2>1. Shape(0)
    BY <1>2 DEF Before, Shape, Pre, Post, At, PlanAssumption
  <2>2. 0 \in 0 .. N + 1
    BY DEF PlanAssumption
  <2> QED BY <1>2, <2>1, <2>2 DEF Init, TreeInv
<1>5. MarkInv
  BY <1>2 DEF Init, MarkInv, Seen, Undoing, RollingBack
<1>6. LogInv /\ NeverRefuses
  BY DEF Init, LogInv, NeverRefuses
<1> QED BY <1>1, <1>3, <1>4, <1>5, <1>6 DEF IInv

\* IInv is inductive: it holds initially, and every step of the protocol, its failures
\* and its crashes preserves it.
THEOREM Inductive == ASSUME PlanAssumption PROVE Spec => []IInv
<1>1. Init => IInv
  BY InvInit
<1>2. IInv /\ [Next]_vars => IInv'
  BY TypeStep, PlacesStep, TreeStep, MarkStep, LogStep, RefusesStep DEF IInv
<1> QED BY <1>1, <1>2, PTL DEF Spec

\* Every variable keeps its type, whatever the plan and however often it crashes.
THEOREM TypeCorrect == ASSUME PlanAssumption PROVE Spec => []TypeOK
<1>1. IInv => TypeOK
  BY DEF IInv
<1> QED BY <1>1, Inductive, PTL

\* For every valid plan, what is left once the directory can be garbage is the before-
\* or the after-tree: transaction.rs, recover.rs, and gc in state.rs.
THEOREM Atomicity == ASSUME PlanAssumption PROVE Spec => []Atomic
<1>1. IInv => Atomic
  BY DEF IInv, TreeInv, Atomic
<1> QED BY <1>1, Inductive, PTL

\* For every valid plan, recovery is never refused: decide, preflight and undo in
\* recover.rs find a state they can interpret after any sequence of crashes.
THEOREM NoRefusal == ASSUME PlanAssumption PROVE Spec => []NeverRefuses
<1>1. IInv => NeverRefuses
  BY DEF IInv
<1> QED BY <1>1, Inductive, PTL

\* COMMITTED is never seen beside a rollback marker (recover.rs, decide).
THEOREM MarkersNeverContradict == ASSUME PlanAssumption PROVE Spec => []MarkersExclusive
<1>1. IInv => MarkersExclusive
  BY DEF IInv, MarkInv, MarkersExclusive
<1> QED BY <1>1, Inductive, PTL

\* COMMITTED implies the after-tree and ROLLED_BACK the before-tree, in every image a
\* power loss can leave (transaction.rs commit, recover.rs rollback).
THEOREM MarkersTruth == ASSUME PlanAssumption PROVE Spec => []MarkersTruthful
<1>1. IInv => MarkersTruthful
  BY DEF IInv, MarkInv, MarkersTruthful
<1> QED BY <1>1, Inductive, PTL

\* A rollback that was decided on is never turned round: see Lemma 3 of DESIGN.md.
THEOREM RollbackIsFinal == ASSUME PlanAssumption PROVE Spec => PotentialNeverRises
<1>1. ASSUME IInv, [Next]_vars, rolling = "durable",
             NEW t \in Token, NEW p \in may'[t]
      PROVE  \E q \in may[t] : p.hi <= q.hi
  <2>0. TypeOK /\ PlacesInv /\ MarkInv
    BY <1>1 DEF IInv
  <2>1. ASSUME p \in may[t] PROVE \E q \in may[t] : p.hi <= q.hi
    <3>1. p.hi \in 0 .. N
      BY <2>0, <2>1 DEF TypeOK, Place
    <3> QED BY <2>1, <3>1 DEF PlanAssumption
  <2>2. ASSUME NEW s \in Token, UndoMove(s), p \notin may[t]
        PROVE  \E q \in may[t] : p.hi <= q.hi
    <3>1. PICK v \in Where(s) :
            /\ IsPrev(s, v, wave) /\ pos[s] \in {At(wave), Between(v, wave)}
            /\ may' = [may EXCEPT ![s] = @ \union {At(v)} \union Halfway(s, v, wave)]
      BY <2>2 DEF UndoMove
    <3>2. s = t /\ p \in {At(v)} \union Halfway(s, v, wave)
      BY <1>1, <2>0, <2>2, <3>1 DEF TypeOK
    <3>3. v \in 0 .. N /\ wave \in 1 .. N /\ v < wave
      BY <3>1 DEF IsPrev, Where, PlanAssumption
    <3>4. p.hi <= wave /\ pos[t].hi = wave
      BY <3>1, <3>2, <3>3 DEF At, Between, Halfway
    <3>5. pos[t] \in may[t]
      BY <2>0 DEF PlacesInv
    <3> QED BY <3>4, <3>5
  <2>3. \A s \in Token : ~ ApplyMove(s)
    BY <1>1, <2>0 DEF MarkInv, ApplyMove, Seen
  <2>4. CASE \A s \in Token : ~ UndoMove(s)
    <3>1. NoNewPlaces
      BY <1>1, <2>3, <2>4, StepsWithoutMoves
    <3> QED BY <1>1, <2>1, <3>1 DEF NoNewPlaces
  <2> QED BY <2>1, <2>2, <2>4
<1>2. IInv /\ [Next]_vars =>
        [rolling = "durable" =>
           \A t \in Token : \A p \in may'[t] : \E q \in may[t] : p.hi <= q.hi]_vars
  BY <1>1
<1> QED BY <1>2, Inductive, PTL DEF Spec, PotentialNeverRises

-----------------------------------------------------------------------------
(* The protocol implements AtomicCommit, and uses its log as RecordLog provides it, for every plan: *)
(* each step, under the inductive invariant above, is a step of the specification or leaves it     *)
(* alone.                                                                                          *)

USE DEF Seen

\* A step that moves a token: the transaction is open or being taken back, and remains so.
LEMMA MovesAreWork ==
  ASSUME PlanAssumption, IInv, NEW t \in Token, ApplyMove(t) \/ UndoMove(t)
  PROVE  A!Work
<1>1. /\ dir = "tx" /\ committed = "absent" /\ rolled = "absent"
      /\ UNCHANGED <<committed, rolled, rolling, dir>>
  BY DEF IInv, TypeOK, Levels, MarkInv, RollingBack, Undoing, ApplyMove, UndoMove, marks
<1>2. Outcome \in {"open", "aborting"} /\ Outcome' = Outcome
  BY <1>1 DEF Outcome
<1> QED BY <1>2 DEF A!Work

\* Durable markers stay, and the directory that is gone stays away.
LEMMA DurableStays ==
  ASSUME IInv, [Next]_vars
  PROVE  /\ dir = "gone" => dir' = "gone"
         /\ dir # "gone" /\ dir' = "gone" => dir = "moving"
         /\ committed = "durable" => committed' = "durable"
         /\ rolled = "durable" => rolled' = "durable"
         /\ rolling = "durable" => rolling' = "durable"
<1>0. MarkInv /\ TypeOK
  BY DEF IInv
<1> USE <1>0 DEF MarkInv, TypeOK, Levels, marks, Undoing, RollingBack
<1>1. CASE UNCHANGED vars
  BY <1>1 DEF vars
<1>2. CASE Apply
  BY <1>2 DEF Apply, PublishJournal, SyncJournal, PrepareFails, ApplyBarrier, LogApply,
     SyncApplyLog, ApplyFails, MarkCommitted, SyncCommitted, ApplyMove
<1>3. CASE Recover
  BY <1>3 DEF Recover, Decide, CheckPreflight, Stabilize, MarkRollingBack, SyncRollingBack,
     UndoBarrier, LogUndo, SyncUndoLog, MarkRolledBack, SyncRolledBack, UndoMove, Synced
<1>4. CASE Collect \/ Kill
  BY <1>4 DEF Collect, RenameToGc, SyncGc, SweepGarbage, Kill
<1>5. CASE PowerLoss
  BY <1>5 DEF PowerLoss, Left
<1> QED BY <1>1, <1>2, <1>3, <1>4, <1>5 DEF Next

\* Every other step keeps what is true of the tree, and its outcome is one the invariant vouches for.
LEMMA StepsImplement ==
  ASSUME PlanAssumption, IInv, IInv', [Next]_vars
  PROVE  A!ANext
<1>1. CASE \E t \in Token : ApplyMove(t) \/ UndoMove(t)
  BY <1>1, MovesAreWork DEF A!ANext
<1>2. CASE ~ \E t \in Token : ApplyMove(t) \/ UndoMove(t)
  <2>1. A!Stays
    BY <1>2, StepsWithoutMoves, FewerPlaces DEF A!Stays
  <2>2. /\ dir # "tx" => Before \/ After
        /\ committed' = "durable" => After' /\ rolling' # "durable"
        /\ rolled' = "durable" => Before' /\ rolling' = "durable" /\ committed' # "durable"
    BY DEF IInv, TreeInv, MarkInv
  <2>3. rolled' = "durable" /\ rolled # "durable" => rolling = "durable"
    <3>1. rolled # "absent" \/ pc = "rolled" => rolling = "durable"
      BY DEF IInv, MarkInv
    <3>2. rolled = "absent" => rolled' # "durable" \/ pc = "rolled"
      BY <1>2 DEF Next, vars, marks, Apply, Recover, Collect, PublishJournal, SyncJournal,
         PrepareFails, ApplyBarrier, LogApply, SyncApplyLog, ApplyFails, MarkCommitted,
         SyncCommitted, Decide, CheckPreflight, Stabilize, MarkRollingBack, SyncRollingBack,
         UndoBarrier, LogUndo, SyncUndoLog, MarkRolledBack, SyncRolledBack, RenameToGc,
         SyncGc, SweepGarbage, Kill, PowerLoss, Left
    <3> QED BY <3>1, <3>2
  <2>4. CASE dir' = "gone" /\ dir # "gone"
    <3>1. Outcome # "closed" /\ Outcome' = "closed"
      BY <2>4 DEF Outcome
    <3>2. Before \/ After
      BY <2>2, <2>4, DurableStays
    <3> QED BY <2>1, <3>1, <3>2 DEF A!ANext, A!Close
  <2>5. CASE dir = "gone"
    <3>1. Outcome = "closed" /\ Outcome' = "closed"
      BY <2>5, DurableStays DEF Outcome
    <3> QED BY <2>1, <3>1 DEF A!ANext, A!Rest
  <2>6. CASE dir' # "gone" /\ dir # "gone"
    <3>1. CASE committed = "durable"
      <4>1. Outcome = "committed" /\ Outcome' = "committed"
        BY <2>6, <3>1, DurableStays DEF Outcome
      <4> QED BY <2>1, <4>1 DEF A!ANext, A!Rest
    <3>2. CASE committed # "durable" /\ rolled = "durable"
      <4>1. Outcome = "rolled back" /\ Outcome' = "rolled back"
        BY <2>2, <2>6, <3>2, DurableStays DEF Outcome
      <4> QED BY <2>1, <4>1 DEF A!ANext, A!Rest
    <3>3. CASE committed # "durable" /\ rolled # "durable" /\ rolling = "durable"
      <4>1. Outcome = "aborting"
        BY <2>6, <3>3 DEF Outcome
      <4>2. \/ Outcome' = "aborting"
            \/ Outcome' = "rolled back" /\ rolled' = "durable"
        BY <2>2, <2>6, <3>3, DurableStays DEF Outcome
      <4> QED BY <2>2, <4>1, <4>2 DEF A!ANext, A!Work, A!RollBack
    <3>4. CASE committed # "durable" /\ rolled # "durable" /\ rolling # "durable"
      <4>1. Outcome = "open"
        BY <2>6, <3>4 DEF Outcome
      <4>2. \/ Outcome' \in {"open", "aborting"}
            \/ Outcome' = "committed" /\ committed' = "durable"
        BY <2>3, <2>6, <3>4 DEF Outcome
      <4> QED BY <2>2, <4>1, <4>2 DEF A!ANext, A!Work, A!Abort, A!Commit
    <3> QED BY <3>1, <3>2, <3>3, <3>4
  <2> QED BY <2>4, <2>5, <2>6
<1> QED BY <1>1, <1>2

\* For every valid plan, commit and recovery together are one atomic commit: a durable outcome is
\* true of the tree and final, and nothing is closed half done (transaction.rs, recover.rs, state.rs).
THEOREM CommitIsAtomic == ASSUME PlanAssumption PROVE Spec => ImplementsAtomicCommit
<1>1. Init => A!AInit
  <2>1. ASSUME Init PROVE Before /\ Outcome = "open"
    BY <2>1 DEF Init, Before, Outcome
  <2> QED BY <2>1 DEF A!AInit, After
<1>2. IInv /\ IInv' /\ [Next]_vars => [A!ANext]_<<Outcome, Before, After>>
  BY StepsImplement
<1> QED BY <1>1, <1>2, Inductive, PTL DEF Spec, ImplementsAtomicCommit, A!ASpec

\* The protocol asks of its log only what RecordLog promises (recover.rs, append_progress).
THEOREM LogIsARecordLog == ASSUME PlanAssumption PROVE Spec => ImplementsRecordLog
<1>1. Init => L!RInit
  BY DEF Init, L!RInit
<1>2. IInv /\ [Next]_vars => [L!RNext]_<<log, durLog>>
  <2> SUFFICES ASSUME IInv, [Next]_vars
               PROVE  [L!RNext]_<<log, durLog>>
    OBVIOUS
  <2>0. N \in Nat /\ wave \in 0 .. N + 1 /\ (pc = "log" \/ pc = "undo_log" => wave \in 1 .. N)
    BY DEF IInv, TypeOK, TreeInv, PlanAssumption
  <2>1. CASE LogApply \/ LogUndo
    <3>1. ApplyDone(wave) \in Records /\ UndoDone(wave) \in Records
      BY <2>0, <2>1 DEF LogApply, LogUndo, ApplyDone, UndoDone, Records
    <3> QED BY <2>1, <3>1 DEF LogApply, LogUndo, L!RNext, L!RecordAppended
  <2>2. CASE SyncApplyLog \/ SyncUndoLog
    BY <2>2 DEF SyncApplyLog, SyncUndoLog, L!RNext, L!Synced
  <2>3. CASE PowerLoss
    BY <2>3 DEF PowerLoss, L!RNext, L!LostUnsynced
  <2>4. CASE UNCHANGED logs
    BY <2>4 DEF logs
  <2> QED
    BY <2>1, <2>2, <2>3, <2>4
       DEF Next, vars, logs, Apply, Recover, Collect, PublishJournal, SyncJournal, PrepareFails,
           ApplyBarrier, ApplyFails, MarkCommitted, SyncCommitted, Decide, CheckPreflight,
           Stabilize, MarkRollingBack, SyncRollingBack, UndoBarrier, MarkRolledBack,
           SyncRolledBack, RenameToGc, SyncGc, SweepGarbage, Kill, ApplyMove, UndoMove
<1> QED BY <1>1, <1>2, Inductive, PTL DEF Spec, ImplementsRecordLog, L!RSpec
=============================================================================
