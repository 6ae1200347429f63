---------------------------- MODULE CaseStaging ----------------------------
(* Staging on a file system that folds the case of names, as the capability probe found it          *)
(* (case_insensitive in src/src/overlay.rs).  The overlay compares names byte for byte everywhere   *)
(* else, so it refuses what it could confuse: a path that meets an entry of the base under another  *)
(* spelling, and a new name that folds onto a sibling.                                              *)
EXTENDS Staging

CONSTANT Fold   \* the folded form of each name

ASSUME FoldAssumption ==
  /\ \A p \in UserPaths : \A n \in DOMAIN p : p[n] \in DOMAIN Fold
  /\ \A n \in DOMAIN Fold : Fold[n] \in DOMAIN Fold /\ Fold[Fold[n]] = Fold[n]

FoldOf(n) == IF n \in DOMAIN Fold THEN Fold[n] ELSE n
SameName(m, n) == FoldOf(m) = FoldOf(n)

\* No directory has two names that are one name on disk.
OneSpelling(paths) ==
  \A p, q \in paths : Parent(p) = Parent(q) /\ SameName(Leaf(p), Leaf(q)) => p = q

\* Such a file system holds no tree that has.
ASSUME SpellingAssumption == OneSpelling(DOMAIN View(FsWith(TxDir \o Items), EmptyOverlay))

\* base_lookup: origin is not in its directory, but another spelling of it is.
OtherSpelling(origin) ==
  LET names == Names(fs, Parent(origin))
  IN  Leaf(origin) \notin names /\ \E n \in names : SameName(n, Leaf(origin))

\* resolve() asks base_lookup for a component, and that finds another spelling.
MeetsOtherSpelling(p) ==
  \E n \in 0 .. Len(p) - 1 :
    LET dir == SubSeq(p, 1, n)
        shown == Append(dir, p[n + 1])
        e == Resolve(fs, ov, dir)
        origin == Append(e.origin, p[n + 1])
    IN  /\ e.kind = "dir" /\ e.from = "base"
        /\ shown \notin DOMAIN ov.placed /\ origin \notin DOMAIN ov.detached
        /\ ~ IsPrivate(origin) /\ OtherSpelling(origin)

\* Slip: only what is in the directory on disk is looked through.
FoldsOntoSiblingOnDisk(p) ==
  \E n \in Names(fs, Resolve(fs, ov, Parent(p)).origin) : SameName(n, Leaf(p))

\* check_new_name.
FoldsOntoSibling(p) == \E n \in List(fs, ov, Parent(p)) : SameName(n, Leaf(p))

\* A path that an operation names: resolved without meeting another spelling, and, if it is new,
\* no sibling's.
Clear(p) ==
  /\ ~ MeetsOtherSpelling(p)
  /\ Resolve(fs, ov, p) # NoEntry \/ ~ FoldsOntoSibling(p)

\* create_dir_all asks of each directory in turn; below a new one there is nothing to meet.
ClearAll(p) ==
  \A n \in 1 .. Len(p) :
    \/ Resolve(fs, ov, SubSeq(p, 1, n - 1)) = NoEntry
    \/ Clear(SubSeq(p, 1, n))

CaseNext ==
  \/ \E p \in UserPaths, text \in Texts : Clear(p) /\ StageWrite(p, text)
  \/ \E p \in UserPaths : ClearAll(p) /\ StageCreateDirAll(p)
  \/ \E p, q \in UserPaths : ~ MeetsOtherSpelling(p) /\ (p = q \/ Clear(q)) /\ StageRename(p, q)
  \/ \E p \in UserPaths : ~ MeetsOtherSpelling(p) /\ StageRemove(p)
  \/ \E p \in UserPaths : ~ MeetsOtherSpelling(p) /\ StageRemoveDirAll(p)

CaseSpec == Init /\ [][CaseNext]_vars

-----------------------------------------------------------------------------
(* Properties. *)

\* The view never shows two names of one directory that are one name on disk, however they got
\* there: written, created, carried along by a rename, or left over when another went.
NoTwoSpellings == OneSpelling(DOMAIN view)

\* The overlay keeps its shape, and what it shows could be a tree of a folding file system.
WellFormed == TypeOK /\ NoTwoSpellings

\* A renaming of a folding file system: no spelling of its destination is there.
CanFolding(f, c) ==
  /\ Can(f, c)
  /\ c.call = "rename" => ~ \E n \in Names(f, Parent(c.to.path)) : SameName(n, Leaf(c.to.path))

RunFolding(start, cs) ==
  FoldLeft(LAMBDA r, c : IF r.ok /\ CanFolding(r.fs, c) THEN [ok |-> TRUE, fs |-> Do(r.fs, c)]
                         ELSE [r EXCEPT !.ok = FALSE],
           [ok |-> TRUE, fs |-> start], cs)

\* Every rename of the plan finds its destination free under every spelling, at the moment it is
\* made: commit does not meet on disk a collision that staging has passed (but for the plans that
\* compile leaves an entry out of: Staging, LeftBehind).
CommitMeetsNoSpelling ==
  \/ LeftBehind
  \/ RunFolding(Run(fs, StagedDirs(fs, ov, Tx)).fs,
                FlattenSeq([w \in Waves(Compiled.plan) |-> ApplyCalls(Compiled.plan, w)])).ok
=============================================================================
