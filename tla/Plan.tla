-------------------------------- MODULE Plan --------------------------------
(* Physical plans (src/src/plan.rs) and what recovery concludes from where    *)
(* their tokens are (src/src/recover.rs).  A plan is a record                 *)
(*   tokens   sequence of [kind, id, locs]; locs is the sequence of           *)
(*            [path, parent] locations the token visits                       *)
(*   waves    sequence of waves, each a sequence of steps [token, from]       *)
(* Tokens, locations and waves are numbered from 1.                           *)
EXTENDS SimFs

Src(plan, s) == plan.tokens[s.token].locs[s.from]
Dst(plan, s) == plan.tokens[s.token].locs[s.from + 1]

Waves(plan) == DOMAIN plan.waves
Tokens(plan) == DOMAIN plan.tokens
StepsOf(plan, w) == Range(plan.waves[w])

-----------------------------------------------------------------------------
(* validate(): the structural obligations of a plan (DESIGN.md, section 3).   *)

\* The waves that hold the step of token t out of its location f.
WavesOf(plan, t, f) == {w \in Waves(plan) : [token |-> t, from |-> f] \in StepsOf(plan, w)}

EveryStepOnce(plan) ==
  /\ \A s \in UNION {StepsOf(plan, w) : w \in Waves(plan)} :
       s.token \in Tokens(plan) /\ s.from + 1 <= Len(plan.tokens[s.token].locs)
  /\ \A t \in Tokens(plan) : \A f \in 1 .. Len(plan.tokens[t].locs) - 1 :
       Cardinality(WavesOf(plan, t, f)) = 1

InIncreasingWaves(plan) ==
  \A t \in Tokens(plan) : \A f \in 1 .. Len(plan.tokens[t].locs) - 2 :
    Min(WavesOf(plan, t, f)) < Min(WavesOf(plan, t, f + 1))

WavesDoNotOverlap(plan) ==
  \A w \in Waves(plan) : \A i, j \in DOMAIN plan.waves[w] :
    i < j => \A p \in {Src(plan, plan.waves[w][i]).path, Dst(plan, plan.waves[w][i]).path},
                q \in {Src(plan, plan.waves[w][j]).path, Dst(plan, plan.waves[w][j]).path} :
               ~ Overlaps(p, q)

\* Where token t is once the waves before w are done.
PosBefore(plan, t, w) ==
  1 + Cardinality({f \in 1 .. Len(plan.tokens[t].locs) - 1 : Min(WavesOf(plan, t, f)) < w})
PathBefore(plan, t, w) == plan.tokens[t].locs[PosBefore(plan, t, w)].path

\* The symbolic execution: sources hold their token, destinations are free, and a
\* parent that is itself a token is in place and has the recorded identity.
ExecutesSymbolically(plan) ==
  \A w \in Waves(plan) : \A s \in StepsOf(plan, w) :
    /\ PosBefore(plan, s.token, w) = s.from
    /\ \A t \in Tokens(plan) : PathBefore(plan, t, w) # Dst(plan, s).path
    /\ \A loc \in {Src(plan, s), Dst(plan, s)}, t \in Tokens(plan) :
         /\ (plan.tokens[t].kind = "dir" /\ plan.tokens[t].id = loc.parent)
              => PathBefore(plan, t, w) = Parent(loc.path)
         /\ PathBefore(plan, t, w) = Parent(loc.path) => plan.tokens[t].id = loc.parent

DistinctFinals(plan) ==
  \A t, u \in Tokens(plan) :
    t # u => Last(plan.tokens[t].locs).path # Last(plan.tokens[u].locs).path

Validate(plan) ==
  /\ EveryStepOnce(plan)
  /\ InIncreasingWaves(plan)
  /\ WavesDoNotOverlap(plan)
  /\ ExecutesSymbolically(plan)
  /\ DistinctFinals(plan)

-----------------------------------------------------------------------------
(* Where the tokens are (recover.rs). *)

\* A position: at location `at`, or, `both`, at `at` and at the next one.
At(i) == [at |-> i, both |-> FALSE]
Both(i) == [at |-> i, both |-> TRUE]
Anomaly == [at |-> 0, both |-> FALSE]

\* step_state: whether a step is to do, done, or half done.
StepState(pos, s) ==
  IF pos.at > s.from THEN "post"
  ELSE IF pos.both /\ pos.at = s.from THEN "inflight" ELSE "pre"

\* classify() for one token.  An entry that no token owns is an anomaly; one that
\* belongs to another token is skipped.
Classify(fs, plan, t) ==
  LET tok == plan.tokens[t]
      known == {plan.tokens[u].id : u \in Tokens(plan)}
      seen(i) == Probe(fs, tok.locs[i])
      hits == {i \in DOMAIN tok.locs : seen(i) = tok.id /\ fs.kind[seen(i)] = tok.kind}
      foreign == {i \in DOMAIN tok.locs : seen(i) \notin known \union {NoIno}}
  IN  IF foreign # {} \/ hits = {} THEN Anomaly
      ELSE IF Cardinality(hits) = 1 THEN At(Min(hits))
      ELSE IF hits = {Min(hits), Min(hits) + 1} /\ tok.kind = "file" THEN Both(Min(hits))
      ELSE Anomaly

Positions(fs, plan) == [t \in Tokens(plan) |-> Classify(fs, plan, t)]

\* The states of all steps of wave w.
WaveStates(plan, pos, w) == {StepState(pos[s.token], s) : s \in StepsOf(plan, w)}

\* check_shape: no wave has started while an earlier one is not finished.
CheckShape(plan, pos) ==
  \A v, w \in Waves(plan) :
    v < w => WaveStates(plan, pos, v) = {"post"} \/ WaveStates(plan, pos, w) = {"pre"}

\* The records of the progress log.
ApplyDone(w) == <<"apply", w>>
UndoDone(w) == <<"undo", w>>

\* check_progress: the log is a lower bound of what is observed.
CheckProgress(plan, log, pos) ==
  LET n == Len(plan.waves)
      applied == {r[2] : r \in {x \in log : x[1] = "apply"}}
      undone == {r[2] : r \in {x \in log : x[1] = "undo"}}
      applyDone == IF applied = {} THEN 0 ELSE Max(applied)
      undoFrom == IF undone = {} THEN n + 1 ELSE Min(undone)
  IN  /\ applied \union undone \subseteq Waves(plan)
      /\ \A w \in Waves(plan) :
           /\ w >= undoFrom => WaveStates(plan, pos, w) = {"pre"}
           /\ (w <= applyDone /\ w + 1 < undoFrom) => WaveStates(plan, pos, w) = {"post"}

\* Slip: a token that is not found is taken to be where it started.
PreflightLenient(fs, plan, log) ==
  LET pos == Positions(fs, plan)
  IN  CheckShape(plan, pos) /\ CheckProgress(plan, log, pos)

\* preflight(): every token is found, the shape and the log agree.
Preflight(fs, plan, log) ==
  LET pos == Positions(fs, plan)
  IN  /\ \A t \in Tokens(plan) : pos[t] # Anomaly
      /\ CheckShape(plan, pos)
      /\ CheckProgress(plan, log, pos)

-----------------------------------------------------------------------------
(* The calls that apply and undo waves. *)

\* apply(): the renames of wave w.
ApplyCalls(plan, w) ==
  [i \in DOMAIN plan.waves[w] |->
     Rename(Src(plan, plan.waves[w][i]), Dst(plan, plan.waves[w][i]))]

\* Slip: a rename found with both names counts as not done.
UndoCallsDoneOnly(plan, w, pos) ==
  LET calls == [i \in DOMAIN plan.waves[w] |->
        LET s == plan.waves[w][i]
        IN  IF pos[s.token] = At(s.from + 1) THEN <<Rename(Dst(plan, s), Src(plan, s))>> ELSE <<>>]
  IN  FlattenSeq(calls)

\* rollback(): the undo of wave w from the positions pos.  A step that is not done
\* needs nothing; one persisted with both names loses the new name.
UndoCalls(plan, w, pos) ==
  LET calls == [i \in DOMAIN plan.waves[w] |->
        LET s == plan.waves[w][i]
        IN  CASE pos[s.token] = At(s.from + 1) -> <<Rename(Dst(plan, s), Src(plan, s))>>
              [] pos[s.token] = Both(s.from) -> <<Unlink(Dst(plan, s))>>
              [] OTHER -> <<>>]
  IN  FlattenSeq(calls)

\* Whether the undo of wave w meets only the positions it can handle.
Undoable(plan, w, pos) ==
  \A s \in StepsOf(plan, w) :
    pos[s.token] \in {At(i) : i \in 1 .. s.from + 1} \union {Both(i) : i \in 1 .. s.from}

\* The positions once wave w is undone.
UndonePos(plan, w, pos) ==
  [t \in DOMAIN pos |->
     IF \E s \in StepsOf(plan, w) : s.token = t /\ pos[t] \in {At(s.from + 1), Both(s.from)}
     THEN At((CHOOSE s \in StepsOf(plan, w) : s.token = t).from)
     ELSE pos[t]]

\* sync_parent() over a sequence of locations: each parent directory that is where
\* the location expects it is synced once.
SyncParents(fs, locs) ==
  LET dirs == {Parent(loc.path) :
                 loc \in {l \in Range(locs) : IsDir(fs, Parent(l.path))
                                             /\ Stat(fs, Parent(l.path)) = l.parent}}
      order == Listing(dirs)
  IN  [i \in DOMAIN order |-> FsyncDir(order[i])]

\* Slip: only the directories the wave moves into are synced.
BarrierCallsInto(fs, plan, w) ==
  SyncParents(fs, [i \in DOMAIN plan.waves[w] |-> Dst(plan, plan.waves[w][i])])

\* barrier(): every parent of every endpoint of wave w.
BarrierCalls(fs, plan, w) ==
  SyncParents(fs, FlattenSeq([i \in DOMAIN plan.waves[w] |->
                    <<Src(plan, plan.waves[w][i]), Dst(plan, plan.waves[w][i])>>]))
=============================================================================
