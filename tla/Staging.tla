------------------------------ MODULE Staging ------------------------------
(* An open transaction and nothing else: every sequence of operations on a    *)
(* small tree, the view they produce, and the plan their net difference       *)
(* compiles to (src/src/overlay.rs, compile and validate in src/src/plan.rs). *)
(* Nothing crashes here; Transaction has the crashes.                         *)
EXTENDS Overlay

CONSTANTS
  Items,      \* the starting tree
  UserPaths,  \* the paths that operations name
  Texts,      \* the texts that are written
  MaxOps      \* bound: operations of the transaction

\* Operations name paths outside .fstx, shorter than any path is looked for.
ASSUME StagingAssumption ==
  /\ MaxOps \in Nat
  /\ \A p \in UserPaths : p \in Seq(STRING) /\ UserPath(p) /\ Len(p) < DepthBound

\* The names the program itself gives are names, and no two blobs, staged directories or backups
\* have the same.
ASSUME NamesAssumption ==
  /\ {PrivateDir, "tx", "staged", "backup"} \subseteq STRING
  /\ \A n \in 0 .. MaxOps :
       /\ StagedName(Blob(n)) \in STRING
       /\ \A m \in 0 .. MaxOps : StagedName(Blob(m)) = StagedName(Blob(n)) => m = n
  /\ \A n \in 0 .. DepthBound * MaxOps :
       /\ StagedName(NewDir(n)) \in STRING
       /\ \A m \in 0 .. DepthBound * MaxOps : StagedName(NewDir(m)) = StagedName(NewDir(n)) => m = n
       /\ \A m \in 0 .. MaxOps : StagedName(Blob(m)) # StagedName(NewDir(n))
  /\ \A n \in 1 .. MaxOps :
       /\ ToString(n) \in STRING
       /\ \A m \in 1 .. MaxOps : ToString(m) = ToString(n) => m = n

VARIABLES
  fs,     \* the file system: the tree, untouched, and the transaction directory
  ov,     \* the overlay
  blobs,  \* the number of the next blob
  ops,    \* operations so far
  view    \* what the transaction shows its caller now

vars == <<fs, ov, blobs, ops, view>>

Tx == <<PrivateDir, "tx">>

-----------------------------------------------------------------------------
(* The view. *)

\* The paths that list() leads to, level by level.
ViewPaths(f, o) ==
  LET deeper(found, n) ==
        LET new == UNION {{Append(p, name) : name \in List(f, o, p)} :
                            p \in {q \in found.last : Resolve(f, o, q).kind = "dir"}}
        IN  [all |-> found.all \union new, last |-> new]
  IN  FoldLeft(deeper, [all |-> {}, last |-> {Root}], [n \in 1 .. DepthBound |-> n]).all

\* read(): a blob's text is in staged/, a base file's where it always was.
ReadText(f, e) ==
  CASE e.from = "blob" -> f.data[Stat(f, StagedPath(Tx, e))].text
    [] e.from = "base" -> f.data[e.id].text
    [] OTHER -> ""

View(f, o) ==
  [p \in ViewPaths(f, o) |->
     LET e == Resolve(f, o, p)
     IN  [kind |-> e.kind, ino |-> IF e.from = "base" THEN e.id ELSE NoIno,
          text |-> ReadText(f, e)]]

\* No path is as long as the bound up to which they are looked for.
Fits(v) == \A p \in DOMAIN v : Len(p) < DepthBound

Direct == INSTANCE DirectTree WITH tree <- view, NewIno <- NoIno

-----------------------------------------------------------------------------
\* The transaction directory as begin leaves it.
TxDir ==
  <<ADir(<<PrivateDir>>), ADir(Tx), ADir(Append(Tx, "staged")), ADir(Append(Tx, "backup"))>>

\* An item that can be put into the tree of f.
IsItem(f, it) ==
  /\ it.path \in Seq(STRING) /\ UserPath(it.path) /\ it.kind \in {"file", "dir"}
  /\ IsDir(f, Parent(it.path))
  /\ it.link # Root =>
       /\ it.link \in Seq(STRING) /\ UserPath(it.link)
       /\ Stat(f, it.link) # NoIno /\ ~ IsDir(f, it.link)

\* The tree is the user's: nothing of it is in .fstx, all of it is in a directory, a hard link is to
\* a file that is there, and no path is too long for the view.
ASSUME TreeAssumption ==
  /\ Items \in Seq(Range(Items))
  /\ \A i \in DOMAIN Items : IsItem(FsWith(TxDir \o SubSeq(Items, 1, i - 1)), Items[i])
  /\ Fits(View(FsWith(TxDir \o Items), EmptyOverlay))

Init ==
  /\ fs = FsWith(TxDir \o Items)
  /\ ov = EmptyOverlay /\ blobs = 0 /\ ops = 0
  /\ view = View(fs, ov)

\* An operation: what the caller sees afterwards is what the overlay then shows.  Bounds: MaxOps
\* operations, and no directory moved so far down that its contents are out of sight.
Then == ops < MaxOps /\ ops' = ops + 1 /\ view' = View(fs', ov') /\ Fits(view')

StageWrite(p, text) ==
  /\ CanWrite(fs, ov, p)
  /\ fs' = Do(fs, Create(StagedPath(Tx, Blob(blobs)), Text(text)))
  /\ ov' = Write(fs, ov, p, blobs) /\ blobs' = blobs + 1
  /\ Then

StageCreateDirAll(p) ==
  /\ CanCreateDirAll(fs, ov, p)
  /\ ov' = CreateDirAll(fs, ov, p) /\ UNCHANGED <<fs, blobs>>
  /\ Then

StageRename(p, q) ==
  /\ CanRename(fs, ov, p, q)
  /\ ov' = RenameTo(fs, ov, p, q) /\ UNCHANGED <<fs, blobs>>
  /\ Then

StageRemove(p) ==
  /\ CanRemove(fs, ov, p)
  /\ ov' = Removed(fs, ov, p) /\ UNCHANGED <<fs, blobs>>
  /\ Then

StageRemoveDirAll(p) ==
  /\ CanRemoveDirAll(fs, ov, p)
  /\ ov' = Removed(fs, ov, p) /\ UNCHANGED <<fs, blobs>>
  /\ Then

Next ==
  \/ \E p \in UserPaths, text \in Texts : StageWrite(p, text)
  \/ \E p \in UserPaths : StageCreateDirAll(p)
  \/ \E p, q \in UserPaths : StageRename(p, q)
  \/ \E p \in UserPaths : StageRemove(p)
  \/ \E p \in UserPaths : StageRemoveDirAll(p)

Spec == Init /\ [][Next]_vars

-----------------------------------------------------------------------------
(* What commit would do now. *)

\* The calls of a sequence, made one after the other; `ok` if each could be made.
Run(start, calls) ==
  FoldLeft(LAMBDA r, c : IF r.ok /\ Can(r.fs, c) THEN [ok |-> TRUE, fs |-> Do(r.fs, c)]
                         ELSE [r EXCEPT !.ok = FALSE],
           [ok |-> TRUE, fs |-> start], calls)

\* The plan compile makes, and the outcome of applying it.
ApplyTo(start, plan) ==
  [plan |-> plan,
   run |-> Run(start, FlattenSeq([w \in Waves(plan) |-> ApplyCalls(plan, w)]))]
CompileIn(ready) == ApplyTo(ready, Compile(ready, ov, Tx))
Compiled == CompileIn(Run(fs, StagedDirs(fs, ov, Tx)).fs)

-----------------------------------------------------------------------------
(* Properties. *)

\* The overlay keeps its shape, whatever was placed and removed before: slots in directories of the
\* view, detached entries at base paths, staged names not yet given out (overlay.rs).
TypeOK ==
  /\ ops \in 0 .. MaxOps /\ blobs \in 0 .. ops
  /\ Fits(view) /\ InShape(fs, ov)
  /\ \A p \in DOMAIN ov.placed : ov.placed[p].kind \in {"none", "file", "dir"}
  /\ \A p \in DOMAIN ov.detached : Stat(fs, p) = ov.detached[p].id
  /\ \A p \in Placements(ov) : ov.placed[p].from = "blob" => ov.placed[p].n < blobs
  /\ \A p \in Placements(ov) : ov.placed[p].from = "new" => ov.placed[p].n < ov.nextDir

\* Read-your-writes: each operation changes the view exactly as it would change a real
\* tree, whatever was renamed, removed or replaced before (overlay.rs; the reference is
\* src/tests/model.rs).  The formula lets an operation be any step of that tree.  When one is
\* accepted is AcceptsWhatATreeAccepts; that it is the step of its own name is proved one by one in
\* StagingProofs (WriteStep, MkdirStep, RenameStep, RemoveStep, RemoveAllStep).
ViewIsTheTree == Direct!Behaviour

\* The overlay accepts an operation exactly when a real tree would (the checks at the
\* top of each operation of overlay.rs).
AcceptsWhatATreeAccepts ==
  \A p \in UserPaths :
    /\ CanWrite(fs, ov, p) <=> Direct!CanWrite(view, p)
    /\ CanCreateDirAll(fs, ov, p) <=> Direct!CanMkdirs(view, p)
    /\ CanRemove(fs, ov, p) <=> Direct!CanRemove(view, p)
    /\ CanRemoveDirAll(fs, ov, p) <=> Direct!CanRemoveAll(view, p)
    /\ \A q \in UserPaths : CanRename(fs, ov, p, q) <=> Direct!CanRename(view, p, q)

\* Commit does what the view showed: every rename of the plan finds its source and a
\* free destination, and the tree they leave is the view (plan.rs, compile).
IsTheView(tree) ==
  /\ DOMAIN tree = DOMAIN view
  /\ \A p \in DOMAIN view :
       /\ tree[p].kind = view[p].kind /\ tree[p].text = view[p].text
       /\ view[p].ino \in {NoIno, tree[p].ino}
CommitYieldsTheView == \A run \in {Compiled.run} : run.ok /\ IsTheView(TreeOf(run.fs))

\* The one way commit falls short of the view: a removed entry is left out of the plan
\* because a directory above it is removed, although the directory it is in was moved
\* out of there first and carries it along (plan.rs, `covered`).
LeftBehind ==
  \E b \in DOMAIN ov.detached :
    /\ Covered(fs, ov, b)
    /\ \E c \in Range(ProperPrefixes(b)) :
         /\ c \in AttachedOrigins(fs, ov) \union Noops(fs, ov)
         /\ \A q \in Range(ProperPrefixes(b)) : IsAncestorOf(c, q) => q \notin DOMAIN ov.detached

\* In deeper trees commit does what the view showed but for those entries.
CommitYieldsTheRest == LeftBehind \/ CommitYieldsTheView

\* The entry at b is a file with another name in the tree.
HasOtherName(b) == \E x \in DOMAIN TreeOf(fs) : x # b /\ TreeOf(fs)[x].ino = Stat(fs, b)

\* What ends where it began is not touched: the plan moves a base entry only if that
\* entry, or a directory above it, is no longer shown at its place, however it was moved
\* in between (plan.rs, the identity no-ops); or if another name of the same file is
\* shown there, for names are told apart by their paths.
PlanIsNetDifference ==
  \A tok \in Range(Compiled.plan.tokens) :
    LET b == tok.locs[1].path
    IN  ~ IsPrivate(b) =>
          \/ \E q \in {b} \union Range(ProperPrefixes(b)) :
               q \in DOMAIN view => view[q].ino # Stat(fs, q)
          \/ HasOtherName(b)
=============================================================================
