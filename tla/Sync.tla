-------------------------------- MODULE Sync --------------------------------
(* The command fstx sync (src/cli/src/main.rs, stage_sync of changes.rs): every file and directory  *)
(* of a source tree is staged into one transaction, which ends as that of fstx apply does.  The     *)
(* source is walked without a lock, a directory at a time, and may lose entries on the way.  The    *)
(* walk takes the place of expectations and operations.  A behaviour is of one command; a change    *)
(* set with the field sync stands for the command line of sync.                                     *)
EXTENDS Cli

CONSTANTS
  Sources,     \* the source trees: path -> [kind, text]
  Excluded,    \* names to skip at any depth
  MaxVanish    \* bound: entries that leave the source during the walk

-----------------------------------------------------------------------------
SInit ==
  /\ CInit /\ source \in (IF cs.sync THEN Sources ELSE {<<>>})
  /\ stack = <<Root>> /\ todo = <<>> /\ stated = Root /\ skipped = {} /\ lost = 0

Walking == pc = "walk" /\ UNCHANGED <<source, lost>>
Unstaged == UNCHANGED <<vars, cli, outside, first, spent>>
Ends(kind) == Fail(kind) /\ Untouched

\* read_dir of the directory on top of the stack.
SyncList ==
  /\ Walking /\ stated = Root /\ todo = <<>> /\ stack # <<>>
  /\ LET dir == Last(stack)
     IN  IF dir = Root \/ (dir \in DOMAIN source /\ source[dir].kind = "dir")
         THEN /\ todo' = Listing({p \in DOMAIN source : p # Root /\ Parent(p) = dir})
              /\ stack' = Front(stack) /\ Unstaged /\ UNCHANGED <<stated, skipped>>
         ELSE Ends("refused")

\* The next entry, if it is not one to skip.
Entry == Head(todo)
AtEntry == Walking /\ stated = Root /\ todo # <<>> /\ todo' = Tail(todo)
\* Slip: at the top only.
SkipTop(p) == p \in {<<x>> : x \in Excluded}

\* A name to skip, at any depth.
Skip(p) == Leaf(p) \in Excluded
EntryIs(kind) == ~ Skip(Entry) /\ Entry \in DOMAIN source /\ source[Entry].kind = kind

SyncExclude ==
  AtEntry /\ Skip(Entry) /\ Unstaged /\ UNCHANGED <<stack, stated, skipped>>

SyncMkdir ==
  /\ AtEntry /\ EntryIs("dir") /\ StageCreateDirAll(Entry) /\ stack' = Append(stack, Entry)
  /\ UNCHANGED <<pc, cs, unmet, code, first, outside, spent, stated, skipped>>

SyncStat ==
  /\ AtEntry /\ EntryIs("file") /\ stated' = Entry /\ Unstaged /\ UNCHANGED <<stack, skipped>>

SyncOther ==
  /\ AtEntry /\ EntryIs("link") /\ skipped' = skipped \union {Entry}
  /\ Unstaged /\ UNCHANGED <<stack, stated>>

SyncFile ==
  /\ Walking /\ stated \in DOMAIN source /\ StageWrite(stated, source[stated].text)
  /\ stated' = Root
  /\ UNCHANGED <<pc, cs, unmet, code, first, outside, spent, stack, todo, skipped>>

\* A file where the root has a directory, or the other way round.
SyncRefused ==
  /\ Walking
  /\ \/ stated \in DOMAIN source /\ ~ CanWrite(fs, ov, stated)
     \/ stated = Root /\ todo # <<>> /\ EntryIs("dir") /\ ~ CanCreateDirAll(fs, ov, Entry)
  /\ Ends("refused")

\* An entry that was listed is not there any more.
SyncLost ==
  /\ Walking
  /\ \/ stated # Root /\ stated \notin DOMAIN source
     \/ stated = Root /\ todo # <<>> /\ ~ Skip(Entry) /\ Entry \notin DOMAIN source
  /\ Ends("io")

SyncEnd ==
  /\ Walking /\ stated = Root /\ todo = <<>> /\ stack = <<>> /\ pc' = "commit"
  /\ UNCHANGED <<cs, unmet, code, first>> /\ Untouched

\* An entry leaves the source, with all below it.
Vanish(p) ==
  /\ cs.sync /\ pc \notin {"commit", "done"} /\ lost < MaxVanish /\ lost' = lost + 1
  /\ source' = Restrict(source, {q \in DOMAIN source : q # p /\ ~ IsAncestorOf(p, q)})
  /\ UNCHANGED <<stack, todo, stated, skipped>> /\ Unstaged

SNext ==
  \/ CNext
  \/ SyncList \/ SyncExclude \/ SyncMkdir \/ SyncStat \/ SyncOther \/ SyncFile
  \/ SyncRefused \/ SyncLost \/ SyncEnd
  \/ \E p \in DOMAIN source : Vanish(p)

SSpec == SInit /\ [][SNext]_cvars

-----------------------------------------------------------------------------
(* Properties. *)

\* What sync copies: what has no excluded name in its path.
Copied == {p \in DOMAIN source : Range(p) \cap Excluded = {}}

\* Left alone, sync ends with a tree that shows every file and directory of the source that is not
\* excluded, and everything of the root it did not name, and it reports the links it left out; what
\* it cannot place makes it refuse as a whole (src/cli/README.md, "Updating dotfiles").
SyncCopiesTheSource ==
  cs.sync /\ Done /\ Alone /\ lost = 0 /\ code = 0 /\ ~ cs.dry =>
    LET tree == TreeOf(fs)
        placed == {p \in Copied : source[p].kind # "link"}
    IN  /\ DOMAIN tree = DOMAIN first \union placed
        /\ \A p \in placed :
             tree[p].kind = source[p].kind /\ tree[p].text = source[p].text
        /\ \A p \in DOMAIN first \ placed : tree[p] = first[p]
        /\ skipped = Copied \ placed
=============================================================================
