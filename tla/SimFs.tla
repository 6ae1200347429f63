------------------------------- MODULE SimFs -------------------------------
(* The file system contract fstx is built on (C1-C5), as the repository's    *)
(* own simulator states it in src/src/sim.rs.                                *)
(*                                                                           *)
(* A file system is a record                                                 *)
(*   vol, dur   the visible and the durable directory entries: functions     *)
(*              from slots <<directory inode, name>> to inodes               *)
(*   pending    the namespace operations not yet folded into dur             *)
(*   kind       the kind of every inode ever created                         *)
(*   data,ddata the visible and the durable contents of the files            *)
(*   dirty      the files whose contents were not synced                     *)
(*   next       the next inode number                                        *)
(*   broken     a protocol violation was seen (State.violations)             *)
EXTENDS Paths, FiniteSets, Functions

RootIno == 1
NoIno == 0

Profiles == {"Strict", "Weak"}

NoPlan == [tokens |-> <<>>, waves |-> <<>>]

\* What a file can hold: opaque text, the records of a progress log, the plan
\* of a journal.
Blank == [text |-> "", log |-> {}, plan |-> NoPlan]
Text(t) == [Blank EXCEPT !.text = t]

NoSlot == <<NoIno, "">>

-----------------------------------------------------------------------------
(* Looking things up. *)

\* The inode at path p of an image, NoIno if nothing is there or a parent is
\* not a directory: only directories have slots.
InoAt(img, p) ==
  FoldLeft(LAMBDA d, c : IF <<d, c>> \in DOMAIN img THEN img[<<d, c>>] ELSE NoIno,
           RootIno, p)

Stat(fs, p) == InoAt(fs.vol, p)

IsDir(fs, p) == Stat(fs, p) # NoIno /\ fs.kind[Stat(fs, p)] = "dir"

\* Vfs::read_dir: the names in the visible directory p.
Names(fs, p) == {s[2] : s \in {x \in DOMAIN fs.vol : x[1] = Stat(fs, p)}}

\* Slip: any directory will do as the parent.
ProbeAnyParent(fs, loc) == Stat(fs, loc.path)

\* Vfs::probe: what is at `path` if its parent is the expected directory.
Probe(fs, loc) ==
  IF Stat(fs, Parent(loc.path)) = loc.parent THEN Stat(fs, loc.path) ELSE NoIno

\* No path of a small tree, its copy in .fstx included, is longer than this.
DepthBound == 8

\* Every path of an image, found level by level, each with its inode.
PathsOf(img) ==
  LET below(at) == {<<Append(at[1], s[2]), img[s]>> : s \in {x \in DOMAIN img : x[1] = at[2]}}
      deeper(found, n) ==
        LET new == UNION {below(at) : at \in found.last}
        IN  [all |-> found.all \union new, last |-> new]
      top == {<<Root, RootIno>>}
      found == FoldLeft(deeper, [all |-> top, last |-> top], [n \in 1 .. DepthBound |-> n])
  IN  {at[1] : at \in found.all}

\* The tree outside .fstx, as a caller sees it.
TreeOf(fs) ==
  [p \in {q \in PathsOf(fs.vol) : q # Root /\ ~ IsPrivate(q)} |->
     [kind |-> fs.kind[Stat(fs, p)], ino |-> Stat(fs, p), text |-> fs.data[Stat(fs, p)].text]]

-----------------------------------------------------------------------------
(* Namespace operations and their durability. *)

Put(img, slot, ino) == [s \in DOMAIN img \union {slot} |-> IF s = slot THEN ino ELSE img[s]]
Del(img, slot) == [s \in DOMAIN img \ {slot} |-> img[s]]

\* One pending operation: the slot it frees, the slot it fills, and the
\* directories that must be synced before it is durable.
Op(rm, add, ino, isDir) ==
  [rm |-> rm, add |-> add, ino |-> ino, isDir |-> isDir,
   unsynced |-> {rm[1], add[1]} \ {NoIno}]

\* apply_op: replays one operation onto a durable image.  With fate "both" a
\* rename adds the new name and keeps the old one.
ApplyOp(img, op, fate) ==
  LET freed == IF fate = "apply" /\ op.rm \in DOMAIN img /\ img[op.rm] = op.ino
               THEN Del(img, op.rm) ELSE img
  IN  IF fate = "drop" THEN img
      ELSE IF op.add = NoSlot THEN freed ELSE Put(freed, op.add, op.ino)

\* record(): queues an operation.  Filling a name whose previous owner's removal
\* is not durable yet is the violation the simulator reports.
Record(fs, op) ==
  [fs EXCEPT
     !.pending = Append(@, op),
     !.broken = @ \/ \E i \in DOMAIN fs.pending :
                        LET o == fs.pending[i]
                        IN  /\ o.unsynced # {} /\ op.add # NoSlot
                            /\ o.rm = op.add /\ o.ino # op.ino]

\* sync_dir: the directory's operations are synced; operations leave the queue
\* in order once every directory they touch is synced (fold()).
SyncDir(fs, dir) ==
  LET q == [i \in DOMAIN fs.pending |->
              [fs.pending[i] EXCEPT !.unsynced = @ \ {dir}]]
      stuck == {i \in DOMAIN q : q[i].unsynced # {}}
      n == IF stuck = {} THEN Len(q) ELSE Min(stuck) - 1
  IN  [fs EXCEPT
         !.pending = SubSeq(q, n + 1, Len(q)),
         !.dur = FoldLeft(LAMBDA img, op : ApplyOp(img, op, "apply"),
                          fs.dur, SubSeq(q, 1, n))]

-----------------------------------------------------------------------------
(* The calls of the Vfs trait that change something.  Each is a record; Can   *)
(* says whether it succeeds and Do what it then does.                         *)

Mkdir(p) == [call |-> "mkdir", path |-> p]
Create(p, data) == [call |-> "create", path |-> p, data |-> data]
AppendLog(p, rec) == [call |-> "append", path |-> p, rec |-> rec]
Rename(from, to) == [call |-> "rename", from |-> from, to |-> to]
Unlink(loc) == [call |-> "unlink", loc |-> loc]
Rmdir(p) == [call |-> "rmdir", path |-> p]
FsyncFile(p) == [call |-> "fsync_file", path |-> p]
FsyncDir(p) == [call |-> "fsync_dir", path |-> p]

\* The expected parent of a call that does not check it (None).
AnyParent == NoIno

ParentOk(fs, loc) ==
  /\ IsDir(fs, Parent(loc.path))
  /\ loc.parent \in {AnyParent, Stat(fs, Parent(loc.path))}

\* The directory entry of p.
SlotOf(fs, p) == <<Stat(fs, Parent(p)), Leaf(p)>>

Free(fs, p) == IsDir(fs, Parent(p)) /\ Stat(fs, p) = NoIno

\* Slip: a rename that replaces what is at its destination.
CanOverwrite(fs, c) ==
  CASE c.call \in {"mkdir", "create"} -> Free(fs, c.path)
    [] c.call \in {"append", "fsync_file"} -> Stat(fs, c.path) # NoIno
    [] c.call = "rename" ->
         /\ ParentOk(fs, c.from) /\ ParentOk(fs, c.to)
         /\ Stat(fs, c.from.path) # NoIno
    [] c.call = "unlink" ->
         ParentOk(fs, c.loc) /\ Stat(fs, c.loc.path) # NoIno /\ ~ IsDir(fs, c.loc.path)
    [] c.call = "rmdir" -> IsDir(fs, c.path) /\ Names(fs, c.path) = {}
    [] c.call = "fsync_dir" -> IsDir(fs, c.path)

Can(fs, c) ==
  CASE c.call \in {"mkdir", "create"} -> Free(fs, c.path)
    [] c.call \in {"append", "fsync_file"} ->
         Stat(fs, c.path) # NoIno /\ fs.kind[Stat(fs, c.path)] = "file"
    [] c.call = "rename" ->
         /\ ParentOk(fs, c.from) /\ ParentOk(fs, c.to)
         /\ Stat(fs, c.from.path) # NoIno
         /\ Stat(fs, c.to.path) = NoIno
         /\ ~ IsAncestorOf(c.from.path, c.to.path)
    [] c.call = "unlink" ->
         /\ ParentOk(fs, c.loc)
         /\ Stat(fs, c.loc.path) # NoIno /\ ~ IsDir(fs, c.loc.path)
    [] c.call = "rmdir" -> IsDir(fs, c.path) /\ Names(fs, c.path) = {}
    [] c.call = "fsync_dir" -> IsDir(fs, c.path)

\* A new inode linked at p.
NewNode(fs, p, kind, data) ==
  LET made == [fs EXCEPT !.vol = Put(@, SlotOf(fs, p), fs.next),
                         !.kind = Put(@, fs.next, kind),
                         !.data = Put(@, fs.next, data),
                         !.ddata = Put(@, fs.next, Blank),
                         !.dirty = IF kind = "file" THEN @ \union {fs.next} ELSE @,
                         !.next = @ + 1]
  IN  Record(made, Op(NoSlot, SlotOf(fs, p), fs.next, kind = "dir"))

DoRename(fs, from, to) ==
  LET ino == Stat(fs, from)
      moved == [fs EXCEPT !.vol = Put(Del(@, SlotOf(fs, from)), SlotOf(fs, to), ino)]
  IN  Record(moved, Op(SlotOf(fs, from), SlotOf(fs, to), ino, fs.kind[ino] = "dir"))

DoUnlink(fs, p) ==
  LET ino == Stat(fs, p)
  IN  Record([fs EXCEPT !.vol = Del(@, SlotOf(fs, p))],
             Op(SlotOf(fs, p), NoSlot, ino, fs.kind[ino] = "dir"))

DoAppend(fs, p, rec) ==
  [fs EXCEPT !.data[Stat(fs, p)].log = @ \union {rec}, !.dirty = @ \union {Stat(fs, p)}]

DoFsyncFile(fs, p) ==
  [fs EXCEPT !.ddata[Stat(fs, p)] = fs.data[Stat(fs, p)], !.dirty = @ \ {Stat(fs, p)}]

Do(fs, c) ==
  CASE c.call = "mkdir" -> NewNode(fs, c.path, "dir", Blank)
    [] c.call = "create" -> NewNode(fs, c.path, "file", c.data)
    [] c.call = "append" -> DoAppend(fs, c.path, c.rec)
    [] c.call = "rename" -> DoRename(fs, c.from.path, c.to.path)
    [] c.call = "unlink" -> DoUnlink(fs, c.loc.path)
    [] c.call = "rmdir" -> DoUnlink(fs, c.path)
    [] c.call = "fsync_file" -> DoFsyncFile(fs, c.path)
    [] c.call = "fsync_dir" -> SyncDir(fs, Stat(fs, c.path))

-----------------------------------------------------------------------------
(* Power loss. *)

\* What may become of a pending operation: a synced one persists, any other may be
\* dropped or persist, and in the Weak profile the rename of a file may persist
\* with both names.
Fates(op, profile) ==
  IF op.unsynced = {} THEN {"apply"}
  ELSE {"drop", "apply"} \union
       (IF profile = "Weak" /\ NoSlot \notin {op.rm, op.add} /\ ~ op.isDir
        THEN {"both"} ELSE {})

\* The directory entries that may be left on disk, one image per choice of fates.
Survivors(fs, profile) ==
  FoldLeft(LAMBDA imgs, op :
             UNION {{ApplyOp(img, op, f) : f \in Fates(op, profile)} : img \in imgs},
           {fs.dur}, fs.pending)

Tears == {"old", "new", "torn"}

\* data_variant: what is left of an unsynced file.  A torn progress record does
\* not parse, and is skipped (progress.rs, parse): the log keeps its old records.
Torn(old, new, tear) ==
  CASE tear = "old" -> old
    [] tear = "new" -> new
    [] tear = "torn" -> IF new.text = old.text THEN old ELSE [old EXCEPT !.text = "torn"]

\* The inodes an image still reaches.
Reached(img) == {InoAt(img, p) : p \in PathsOf(img)}

\* The file system after a power loss that left the entries img.  Inodes and
\* slots that nothing reaches are forgotten.
PowerLoss(fs, img, tear) ==
  LET live == Reached(img)
      left == Restrict(img, {s \in DOMAIN img : s[1] \in live})
      data == [i \in live |->
                 IF i \in fs.dirty THEN Torn(fs.ddata[i], fs.data[i], tear) ELSE fs.data[i]]
  IN  [fs EXCEPT !.vol = left, !.dur = left, !.pending = <<>>, !.dirty = {},
                 !.kind = Restrict(@, live), !.data = data, !.ddata = data]

-----------------------------------------------------------------------------
(* Building the file system a run starts from (put_file, put_dir,             *)
(* put_hardlink).                                                             *)

EmptyFs ==
  [vol |-> << >>, dur |-> << >>, pending |-> << >>, kind |-> [i \in {RootIno} |-> "dir"],
   data |-> [i \in {RootIno} |-> Blank], ddata |-> [i \in {RootIno} |-> Blank], dirty |-> {},
   next |-> RootIno + 1, broken |-> FALSE]

\* An item of a starting tree: a directory, a file, or a link to an earlier file.
ADir(p) == [path |-> p, kind |-> "dir", text |-> "", link |-> Root]
AFile(p, t) == [path |-> p, kind |-> "file", text |-> t, link |-> Root]
ALink(p, q) == [path |-> p, kind |-> "file", text |-> "", link |-> q]

PutItem(fs, it) ==
  LET slot == SlotOf(fs, it.path)
      ino == IF it.link = Root THEN fs.next ELSE Stat(fs, it.link)
      linked == [fs EXCEPT !.vol = Put(@, slot, ino), !.dur = Put(@, slot, ino)]
  IN  IF it.link # Root THEN linked
      ELSE [linked EXCEPT !.kind = Put(@, ino, it.kind), !.data = Put(@, ino, Text(it.text)),
                          !.ddata = Put(@, ino, Text(it.text)), !.next = @ + 1]

\* The file system holding the items of a sequence, all durable.
FsWith(items) == FoldLeft(PutItem, EmptyFs, items)
=============================================================================
