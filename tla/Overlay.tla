------------------------------ MODULE Overlay ------------------------------
(* The staging overlay of a transaction (src/src/overlay.rs) and the          *)
(* compilation of its net difference into a plan (src/src/plan.rs, compile).  *)
(* An overlay is a record                                                     *)
(*   placed    the slots of the view that differ: path -> entry, NoEntry      *)
(*             standing for Slot::Absent                                      *)
(*   detached  the base entries that left their base path: path -> [id, kind] *)
(*   nextDir   the number of the next staged directory                        *)
(* The base tree is read through the file system at every operation, as the   *)
(* code does: nothing is cached.                                              *)
EXTENDS Plan

NoEntry == [kind |-> "none", from |-> "none", origin |-> Root, id |-> NoIno, n |-> 0]
Base(kind, origin, id) == [NoEntry EXCEPT !.kind = kind, !.from = "base",
                                          !.origin = origin, !.id = id]
Blob(n) == [NoEntry EXCEPT !.kind = "file", !.from = "blob", !.n = n]
NewDir(n) == [NoEntry EXCEPT !.kind = "dir", !.from = "new", !.n = n]

EmptyOverlay == [placed |-> << >>, detached |-> << >>, nextDir |-> 0]

\* base_lookup: the base entry at b; the private directory is invisible.
BaseLookup(fs, b) ==
  IF IsPrivate(b) \/ Stat(fs, b) = NoIno THEN NoEntry
  ELSE Base(fs.kind[Stat(fs, b)], b, Stat(fs, b))

\* resolve(): one component further down from the entry `cur` at `view`.
Descend(fs, ov, at, c) ==
  LET view == Append(at.view, c)
      origin == Append(at.cur.origin, c)
      below == CASE at.cur.kind # "dir" -> NoEntry
                 [] at.cur.kind = "dir" /\ view \in DOMAIN ov.placed -> ov.placed[view]
                 [] OTHER -> IF at.cur.from = "base" /\ origin \notin DOMAIN ov.detached
                             THEN BaseLookup(fs, origin) ELSE NoEntry
  IN  [view |-> view, cur |-> below]

Resolve(fs, ov, p) ==
  FoldLeft(LAMBDA at, c : Descend(fs, ov, at, c),
           [view |-> Root, cur |-> Base("dir", Root, RootIno)], p).cur

PlacedUnder(ov, p) == {k \in DOMAIN ov.placed : IsAncestorOf(p, k)}

\* list(): the names visible in the view directory p.
List(fs, ov, p) ==
  LET e == Resolve(fs, ov, p)
      shown == {Leaf(k) : k \in {q \in PlacedUnder(ov, p) :
                                    Len(q) = Len(p) + 1 /\ ov.placed[q] # NoEntry}}
      kept == {n \in Names(fs, e.origin) :
                 /\ ~ IsPrivate(Append(p, n))
                 /\ Append(p, n) \notin DOMAIN ov.placed
                 /\ Append(e.origin, n) \notin DOMAIN ov.detached}
  IN  shown \union (IF e.from = "base" THEN kept ELSE {})

-----------------------------------------------------------------------------
(* The operations.  Each has a guard (the code's early errors) and an effect. *)

Place(ov, p, e) == [ov EXCEPT !.placed = Put(@, p, e)]

Detach(ov, e) ==
  IF e.from = "base" THEN [ov EXCEPT !.detached = Put(@, e.origin, [id |-> e.id, kind |-> e.kind])]
  ELSE ov

\* Slip: what is placed below a path stays behind when the path goes.
DropUnderNothing(ov, p) == ov

DropUnder(ov, p) == [ov EXCEPT !.placed = Restrict(@, DOMAIN @ \ PlacedUnder(ov, p))]

\* validate_user_path: not the root, not in the private directory.
UserPath(p) == p # Root /\ ~ IsPrivate(p)

CanWrite(fs, ov, p) ==
  /\ Resolve(fs, ov, Parent(p)).kind = "dir"
  /\ Resolve(fs, ov, p).kind \in {"file", "none"}

\* apply_write: blob n takes the place of whatever file is at p.
Write(fs, ov, p, n) == Place(Detach(ov, Resolve(fs, ov, p)), p, Blob(n))

CanCreateDirAll(fs, ov, p) ==
  \A n \in 1 .. Len(p) : Resolve(fs, ov, SubSeq(p, 1, n)).kind \in {"dir", "none"}

CreateDirAll(fs, ov, p) ==
  FoldLeft(LAMBDA o, q : IF Resolve(fs, o, q) # NoEntry THEN o
                         ELSE [Place(o, q, NewDir(o.nextDir)) EXCEPT !.nextDir = @ + 1],
           ov, Append(ProperPrefixes(p), p))

\* Slip: a directory can be moved below itself.
CanRenameBelowItself(fs, ov, from, to) ==
  /\ Resolve(fs, ov, from).kind \in {"file", "dir"}
  /\ \/ from = to
     \/ /\ Resolve(fs, ov, Parent(to)).kind = "dir"
        /\ Resolve(fs, ov, to) = NoEntry

CanRename(fs, ov, from, to) ==
  /\ Resolve(fs, ov, from).kind \in {"file", "dir"}
  /\ \/ from = to
     \/ /\ ~ IsAncestorOf(from, to)
        /\ Resolve(fs, ov, Parent(to)).kind = "dir"
        /\ Resolve(fs, ov, to) = NoEntry

\* rename(): the slots placed under `from` travel with it.
RenameTo(fs, ov, from, to) ==
  LET e == Resolve(fs, ov, from)
      moved == PlacedUnder(ov, from)
      gone == Detach(Place(DropUnder(ov, from), from, NoEntry), e)
      landed == {Rebase(k, from, to) : k \in moved}
      carried == [gone EXCEPT !.placed =
                    [k \in DOMAIN @ \union landed |->
                       IF k \in landed THEN ov.placed[Rebase(k, to, from)] ELSE @[k]]]
  IN  IF from = to THEN ov ELSE Place(carried, to, e)

CanRemove(fs, ov, p) ==
  \/ Resolve(fs, ov, p).kind = "file"
  \/ Resolve(fs, ov, p).kind = "dir" /\ List(fs, ov, p) = {}

CanRemoveDirAll(fs, ov, p) == Resolve(fs, ov, p).kind = "dir"

Removed(fs, ov, p) == Detach(Place(DropUnder(ov, p), p, NoEntry), Resolve(fs, ov, p))

Placements(ov) == {p \in DOMAIN ov.placed : ov.placed[p] # NoEntry}

-----------------------------------------------------------------------------
(* What the operations keep to. *)

Wanderers(ov) == {p \in DOMAIN ov.placed : ov.placed[p].from = "base"}

\* Every slot, an absent one too, is in a directory of the view, so that nothing comes back when a
\* directory is made where one was removed; and a base entry that is placed is recorded as gone from
\* its base path, and is placed once.
InShape(fs, ov) ==
  /\ \A p \in DOMAIN ov.placed : UserPath(p) /\ Resolve(fs, ov, Parent(p)).kind = "dir"
  /\ \A p \in Wanderers(ov) :
       /\ ov.placed[p].origin \in DOMAIN ov.detached /\ UserPath(ov.placed[p].origin)
       /\ ov.placed[p] = BaseLookup(fs, ov.placed[p].origin)
       /\ \A q \in Wanderers(ov) : ov.placed[q].origin = ov.placed[p].origin => q = p

-----------------------------------------------------------------------------
(* compile(): from the overlay to a plan. *)

IsBaseAt(e, p) == e.from = "base" /\ e.origin = p

\* Slip: an entry back at its base path is moved out and in again.
NoopsNever(fs, ov) == {}

\* Identity no-ops: a base entry back at its base path under an unchanged chain.
Noops(fs, ov) ==
  {p \in Placements(ov) :
     /\ IsBaseAt(ov.placed[p], p)
     /\ \A q \in Range(ProperPrefixes(p)) : IsBaseAt(Resolve(fs, ov, q), q)}

Attached(fs, ov) == Placements(ov) \ Noops(fs, ov)

\* Slip: no entry is known to end elsewhere.
AttachedOriginsNone(fs, ov) == {}

\* attached_origin: the base paths whose entry ends somewhere else.
AttachedOrigins(fs, ov) ==
  {ov.placed[p].origin : p \in {q \in Attached(fs, ov) : ov.placed[q].from = "base"}}

\* A removed entry is skipped when some removed proper prefix of its base path will
\* carry it away.
Covered(fs, ov, b) ==
  /\ b \notin AttachedOrigins(fs, ov)
  /\ \E a \in Range(ProperPrefixes(b)) :
       a \in DOMAIN ov.detached \ (AttachedOrigins(fs, ov) \union Noops(fs, ov))

Detaching(fs, ov) == {b \in DOMAIN ov.detached \ Noops(fs, ov) : ~ Covered(fs, ov, b)}

\* Slip: what is to be moved is not looked at again.
ConflictUnchecked(fs, ov) == FALSE

\* Error::Conflict: a base entry to move is no longer the one staged against.
Conflict(fs, ov) == \E b \in Detaching(fs, ov) : Stat(fs, b) # ov.detached[b].id

StagedName(e) == (IF e.from = "blob" THEN "b" ELSE "d") \o ToString(e.n)
StagedPath(tx, e) == Append(Append(tx, "staged"), StagedName(e))

\* Slip: what is removed is kept beside staged/, and not in backup/.
BackupPathBeside(tx, k) == Append(tx, "k" \o ToString(k))

BackupPath(tx, k) == tx \o <<"backup", ToString(k)>>

\* The staged directories compile creates.
StagedDirs(fs, ov, tx) ==
  LET new == Listing({p \in Attached(fs, ov) : ov.placed[p].from = "new"})
  IN  [i \in DOMAIN new |-> Mkdir(StagedPath(tx, ov.placed[new[i]]))]

\* view_parent_id: the inode of the directory that p's parent is in the view.
ViewParentId(fs, ov, tx, p) ==
  LET e == Resolve(fs, ov, Parent(p))
  IN  IF e.from = "base" THEN e.id ELSE Stat(fs, StagedPath(tx, e))

Loc(p, parent) == [path |-> p, parent |-> parent]
PrivateLoc(fs, p) == Loc(p, Stat(fs, Parent(p)))
FinalLoc(fs, ov, tx, p) == Loc(p, ViewParentId(fs, ov, tx, p))

\* The tokens of the base entries in `out`: to backup/, and on to where they end, if
\* they end anywhere.
OutTokens(fs, ov, tx, out) ==
  [k \in DOMAIN out |->
     [kind |-> ov.detached[out[k]].kind, id |-> ov.detached[out[k]].id,
      locs |-> <<PrivateLoc(fs, out[k]), PrivateLoc(fs, BackupPath(tx, k))>>
               \o Listing({FinalLoc(fs, ov, tx, p) :
                             p \in {q \in Attached(fs, ov) : IsBaseAt(ov.placed[q], out[k])}})]]

\* The tokens of what is staged and ends at the paths of `in`.
InTokens(fs, ov, tx, in) ==
  [k \in DOMAIN in |->
     [kind |-> ov.placed[in[k]].kind, id |-> Stat(fs, StagedPath(tx, ov.placed[in[k]])),
      locs |-> <<PrivateLoc(fs, StagedPath(tx, ov.placed[in[k]])), FinalLoc(fs, ov, tx, in[k])>>]]

\* The steps out of the tree, from depth d, and those into it, to depth d (no property depends on
\* the order of the steps of a wave).
DetachWave(tokens, d) ==
  LET ts == Listing({t \in DOMAIN tokens : /\ ~ IsPrivate(tokens[t].locs[1].path)
                                           /\ Len(tokens[t].locs[1].path) = d})
  IN  [i \in DOMAIN ts |-> [token |-> ts[i], from |-> 1]]

AttachWave(tokens, d) ==
  LET ts == Listing({t \in DOMAIN tokens : /\ ~ IsPrivate(Last(tokens[t].locs).path)
                                           /\ Len(Last(tokens[t].locs).path) = d})
  IN  [i \in DOMAIN ts |-> [token |-> ts[i], from |-> Len(tokens[ts[i]].locs) - 1]]

\* Detached entries go to backup/, deepest first; entries are attached from backup/ or
\* staged/, shallowest first; each depth is one wave.
WavesByDepth(tokens) ==
  [i \in 1 .. 2 * DepthBound |->
     IF i <= DepthBound THEN DetachWave(tokens, DepthBound + 1 - i)
     ELSE AttachWave(tokens, i - DepthBound)]
WavesFor(tokens) ==
  FoldLeft(LAMBDA waves, w : IF w = <<>> THEN waves ELSE Append(waves, w),
           <<>>, WavesByDepth(tokens))
PlanFor(tokens) == [tokens |-> tokens, waves |-> WavesFor(tokens)]

\* The plan, once the staged directories exist.
Compile(fs, ov, tx) ==
  PlanFor(OutTokens(fs, ov, tx, Listing(Detaching(fs, ov)))
            \o InTokens(fs, ov, tx,
                        Listing({p \in Attached(fs, ov) : ov.placed[p].from # "base"})))
=============================================================================
