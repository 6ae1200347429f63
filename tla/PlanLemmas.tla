---------------------------- MODULE PlanLemmas ----------------------------
(* Lemmas 1 and 2 of DESIGN.md, section 3, of every plan that compile makes from the operations of  *)
(* Staging: a crash of apply leaves the waves before some wave applied, any part of that wave, and  *)
(* nothing of the later ones; from there recovery finds every token and puts the tree back.         *)
(* Transaction has the crashes themselves, of a few plans; here are all such states, of many.       *)
EXTENDS Staging, Journal

Ready == Run(fs, StagedDirs(fs, ov, Tx)).fs

StepStates == {"pre", "inflight", "post"}

\* A rename that a power loss left with both names.
DoneWithBothNames(f, s, plan) ==
  [f EXCEPT !.vol = Put(@, SlotOf(f, Dst(plan, s).path), Stat(f, Src(plan, s).path))]

\* The tree after a crash in wave w of which each step is in the given state.
Crashed(plan, start, w, state) ==
  LET before == Run(start, FlattenSeq([v \in 1 .. w - 1 |-> ApplyCalls(plan, v)])).fs
      after(f, i) ==
        LET s == plan.waves[w][i]
        IN  CASE state[i] = "post" -> Do(f, Rename(Src(plan, s), Dst(plan, s)))
              [] state[i] = "inflight" -> DoneWithBothNames(f, s, plan)
              [] OTHER -> f
  IN  FoldLeft(after, before, [i \in DOMAIN plan.waves[w] |-> i])

\* Only a file is ever found at two names.
PartsOf(plan, w) ==
  {state \in [DOMAIN plan.waves[w] -> StepStates] :
     \A i \in DOMAIN state :
       state[i] = "inflight" => plan.tokens[plan.waves[w][i].token].kind = "file"}

\* Where token t is then.
TruePosition(plan, w, state, t) ==
  IF \E i \in DOMAIN state : plan.waves[w][i].token = t
  THEN LET i == CHOOSE j \in DOMAIN state : plan.waves[w][j].token = t
           from == plan.waves[w][i].from
       IN  CASE state[i] = "post" -> At(from + 1)
             [] state[i] = "inflight" -> Both(from)
             [] OTHER -> At(from)
  ELSE At(PosBefore(plan, t, w))

\* rollback(): the undo of the waves from the last to the first.
RolledBack(plan, found) ==
  FoldLeft(LAMBDA r, n :
             LET w == Len(plan.waves) + 1 - n
                 run == Run(r.fs, UndoCalls(plan, w, r.pos))
             IN  [ok |-> r.ok /\ Undoable(plan, w, r.pos) /\ run.ok, fs |-> run.fs,
                  pos |-> UndonePos(plan, w, r.pos)],
           [ok |-> TRUE, fs |-> found, pos |-> Positions(found, plan)],
           [n \in Waves(plan) |-> n])

-----------------------------------------------------------------------------
(* Properties. *)

\* Recovery can read whatever commit wrote: the journal of every compiled plan decodes to itself
\* (journal.rs, decode and the validate in it; a journal that does not stops every later begin).
JournalIsReadBack ==
  \A j \in {[format |-> FORMAT, tx |-> Tx[2], root |-> RootIno, plan |-> Compile(Ready, ov, Tx)]} :
    decode(encode(j), Tx[2], RootIno) = j

ForEveryCrash(Holds(_, _, _, _)) ==
  \A start \in {Ready} : \A plan \in {Compile(start, ov, Tx)} :
    \A w \in Waves(plan) : \A state \in PartsOf(plan, w) :
      \A found \in {Crashed(plan, start, w, state)} : Holds(plan, w, state, found)

\* Lemma 2 (DESIGN.md:115): "In every state of Lemma 1, classification returns the true location of
\* every token", and the shape check, with the log of the finished waves, lets it pass.
ClassificationIsTrue ==
  LET Holds(plan, w, state, found) ==
        /\ \A t \in Tokens(plan) : Classify(found, plan, t) = TruePosition(plan, w, state, t)
        /\ Preflight(found, plan, {ApplyDone(v) : v \in 1 .. w - 1})
  IN  ForEveryCrash(Holds)

\* It is, but for the plans that compile leaves an entry out of (Staging, LeftBehind): there the
\* entry is found where a token should be.
ClassifiedUnlessLeftBehind == LeftBehind \/ ClassificationIsTrue

\* From every such state of the other plans the undo meets only positions it handles, each of its calls can be made,
\* and the tree outside .fstx is then the one the transaction began with, with the same identities
\* (recover.rs, rollback).
RollbackRestores ==
  LET Holds(plan, w, state, found) ==
        \A back \in {RolledBack(plan, found)} : back.ok /\ TreeOf(back.fs) = TreeOf(fs)
  IN  LeftBehind \/ ForEveryCrash(Holds)
=============================================================================
