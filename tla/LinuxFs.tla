------------------------------ MODULE LinuxFs ------------------------------
(* How the Linux back end (src/src/sys/linux.rs) makes a call on a path: it opens the parent        *)
(* directory component by component beneath the root, compares what it opened with the directory    *)
(* the journal recorded, and makes one system call through it.  Between any two of these steps      *)
(* another program may move directories about, inside the root and out of it, or put links in their *)
(* place.  openat2 looks one component up after the other, as the walk of the code does.            *)
EXTENDS Paths, FiniteSets

CONSTANTS
  Dir, File, Link,      \* inodes, by kind
  Mount,                \* directories of another device
  Name,
  RootDir, Elsewhere,   \* the open root, and a directory that is not beneath it
  Tree,                 \* the entries at first: [<<directory, name>> -> inode]
  Call,                 \* the calls the library makes
  Spot,                 \* where the other program puts things
  None,                 \* no expected parent, no call
  MaxCalls, MaxMoves

ASSUME LinuxAssumption ==
  /\ {RootDir, Elsewhere} \subseteq Dir /\ Mount \subseteq Dir /\ Spot \subseteq Dir \X Name
  /\ DOMAIN Tree \subseteq Dir \X Name /\ \A s \in DOMAIN Tree : Tree[s] \in Dir \union File

Place == [path : Seq(Name), parent : Dir \union {None}]

\* A place of a call is a path and the directory recorded as its parent, or None.  Neither a probe
\* nor a barrier is ever made without one: there the parameter is a FileId, and no Option of it.
ASSUME CallAssumption ==
  \A c \in Call :
    /\ c.op \in {"rename", "create", "unlink", "probe", "read", "barrier"}
    /\ c.from \in Place /\ (c.op = "rename" => c.to \in Place)
    /\ c.op \in {"probe", "barrier"} => c.from.parent # None

VARIABLES
  entry,      \* the directory entries
  call,       \* the call being made, or None
  held,       \* the parent directories it has opened
  at, rest,   \* the directory its walk has reached, and the components left
  answer,     \* what the last call found or synced: an inode, "missing", or None
  calls, moves,
  quiet       \* nobody else has changed an entry since the call began

vars == <<entry, call, held, at, rest, answer, calls, moves, quiet>>
walk == <<call, held, at, rest>>

-----------------------------------------------------------------------------
(* A call is an operation and its places; a place is a path and the directory that was its parent   *)
(* when it was recorded, None if nobody asks.  A barrier stats the parent, then opens it to sync.   *)

Places(c) ==
  CASE c.op = "rename" -> <<c.from, c.to>>
    [] c.op = "barrier" -> <<c.from, [c.from EXCEPT !.parent = None]>>
    [] OTHER -> <<c.from>>

Now == Places(call)[Len(held) + 1]
Slot(n) == <<held[n], Leaf(Places(call)[n].path)>>

Filled(slot) == slot \in DOMAIN entry
Put(slot, ino) == [s \in DOMAIN entry \union {slot} |-> IF s = slot THEN ino ELSE entry[s]]
Without(slot) == [s \in DOMAIN entry \ {slot} |-> entry[s]]

\* Whether directory d is x or in it, at whatever depth.
InOrBelow(d, x) ==
  LET up(ds, n) == ds \union {s[1] : s \in {t \in DOMAIN entry : entry[t] \in ds}}
  IN  x \in FoldLeft(up, {d}, [n \in 1 .. Cardinality(Dir) |-> n])

Init ==
  /\ entry = Tree /\ call = None /\ held = <<>> /\ at = RootDir /\ rest = <<>>
  /\ answer = None /\ calls = 0 /\ moves = 0 /\ quiet = TRUE

-----------------------------------------------------------------------------
(* Opening the parents. *)

WalkTo(place) == at' = RootDir /\ rest' = Parent(place.path)

Begin(c) ==
  /\ call = None /\ calls < MaxCalls
  /\ call' = c /\ held' = <<>> /\ WalkTo(c.from)
  /\ answer' = None /\ calls' = calls + 1 /\ quiet' = TRUE
  /\ UNCHANGED <<entry, moves>>

End(found) ==
  /\ call' = None /\ held' = <<>> /\ at' = RootDir /\ rest' = <<>> /\ answer' = found
  /\ UNCHANGED <<calls, moves, quiet>>

Refused == End(None) /\ UNCHANGED entry

\* Slip: a link among the components is followed.
LeadsFollows(slot) ==
  IF Filled(slot) /\ entry[slot] \in Link THEN {Elsewhere}
  ELSE {entry[s] : s \in {t \in {slot} : Filled(t)}} \intersect (Dir \ Mount)

\* O_DIRECTORY, O_NOFOLLOW and the device of the root: the directory a component leads to, if any.
Leads(slot) == {entry[s] : s \in {t \in {slot} : Filled(t)}} \intersect (Dir \ Mount)

\* open_dir_raw.
LookUp ==
  /\ call # None /\ rest # <<>>
  /\ at' \in Leads(<<at, Head(rest)>>) /\ rest' = Tail(rest)
  /\ UNCHANGED <<entry, call, held, answer, calls, moves, quiet>>

LookUpFails ==
  /\ call # None /\ rest # <<>> /\ Leads(<<at, Head(rest)>>) = {}
  /\ Refused

Opening == call # None /\ rest = <<>> /\ Len(held) < Len(Places(call))

Hold ==
  /\ held' = Append(held, at)
  /\ IF Len(held') < Len(Places(call)) THEN WalkTo(Places(call)[Len(held') + 1])
                                       ELSE UNCHANGED <<at, rest>>
  /\ UNCHANGED <<entry, call, answer, calls, moves, quiet>>

\* Slip: nobody compares.
OpenedUnchecked == Opening /\ Hold

\* open_parent, probe and sync_parent: the open directory is the recorded one, or the call ends.
Opened == Opening /\ Now.parent \in {None, at} /\ Hold

Mismatch == Opening /\ Now.parent \notin {None, at} /\ Refused

-----------------------------------------------------------------------------
(* The one system call, through the directories held. *)

Ready(op) == call # None /\ call.op = op /\ Len(held) = Len(Places(call))

\* renameat2(RENAME_NOREPLACE).
Rename ==
  /\ Ready("rename") /\ Filled(Slot(1)) /\ ~ Filled(Slot(2))
  /\ ~ InOrBelow(held[2], entry[Slot(1)])
  /\ entry' = [s \in (DOMAIN entry \union {Slot(2)}) \ {Slot(1)} |->
                 IF s = Slot(2) THEN entry[Slot(1)] ELSE entry[s]]
  /\ End(None)

RenameFails ==
  /\ Ready("rename")
  /\ Filled(Slot(1)) => (Filled(Slot(2)) \/ InOrBelow(held[2], entry[Slot(1)]))
  /\ Refused

\* create_file (O_CREAT | O_EXCL) and mkdir, of which nobody records a parent.
Create ==
  /\ Ready("create") /\ ~ Filled(Slot(1))
  /\ \E ino \in File : (\A s \in DOMAIN entry : entry[s] # ino) /\ entry' = Put(Slot(1), ino)
  /\ End(None)

\* unlinkat: the entry itself, whatever kind of file it is.
Unlink ==
  /\ Ready("unlink") /\ Filled(Slot(1)) /\ entry[Slot(1)] \notin Dir
  /\ entry' = Without(Slot(1)) /\ End(None)

CreateOrUnlinkFails ==
  /\ \/ Ready("create") /\ Filled(Slot(1))
     \/ Ready("unlink") /\ (Filled(Slot(1)) => entry[Slot(1)] \in Dir)
  /\ Refused

\* Slip: the provided method of the trait, which stats the path once more.
ProbeByPath ==
  /\ Ready("probe") /\ UNCHANGED entry
  /\ LET d == FoldLeft(LAMBDA x, c : IF Leads(<<x, c>>) = {} THEN None ELSE CHOOSE y \in Leads(<<x, c>>) : TRUE,
                       RootDir, Parent(call.from.path))
         slot == <<d, Leaf(call.from.path)>>
     IN  End(IF Filled(slot) THEN entry[slot] ELSE "missing")

\* fstatat(AT_SYMLINK_NOFOLLOW).
Probe ==
  /\ Ready("probe") /\ UNCHANGED entry
  /\ End(IF Filled(Slot(1)) THEN entry[Slot(1)] ELSE "missing")

\* openat(O_NOFOLLOW), and a regular file or an error.
Read ==
  /\ Ready("read") /\ UNCHANGED entry
  /\ End(IF Filled(Slot(1)) /\ entry[Slot(1)] \in File THEN entry[Slot(1)] ELSE None)

SyncDir == Ready("barrier") /\ UNCHANGED entry /\ End(held[2])

-----------------------------------------------------------------------------
(* Another program. *)

Disturbs == moves < MaxMoves /\ moves' = moves + 1 /\ quiet' = FALSE
            /\ UNCHANGED <<walk, answer, calls>>

MovesDir ==
  \E s \in DOMAIN entry, to \in Spot :
    /\ entry[s] \in Dir \ Mount /\ ~ Filled(to) /\ ~ InOrBelow(to[1], entry[s])
    /\ entry' = [t \in (DOMAIN entry \union {to}) \ {s} |-> IF t = to THEN entry[s] ELSE entry[t]]
    /\ Disturbs

\* A link to Elsewhere, at a free name.
MakesLink ==
  \E ino \in Link, to \in Spot :
    /\ ~ Filled(to) /\ \A s \in DOMAIN entry : entry[s] # ino
    /\ entry' = Put(to, ino) /\ Disturbs

RemovesLink ==
  \E s \in DOMAIN entry : entry[s] \in Link /\ entry' = Without(s) /\ Disturbs

Library ==
  \/ LookUp \/ LookUpFails \/ Opened \/ Mismatch
  \/ Rename \/ RenameFails \/ Create \/ Unlink \/ CreateOrUnlinkFails \/ Probe \/ Read \/ SyncDir

Next == (\E c \in Call : Begin(c)) \/ Library \/ MovesDir \/ MakesLink \/ RemovesLink

Spec == Init /\ [][Next]_vars

-----------------------------------------------------------------------------
(* Properties. *)

Changed == {s \in DOMAIN entry \union DOMAIN entry' :
              s \notin DOMAIN entry \/ s \notin DOMAIN entry' \/ entry[s] # entry'[s]}
ByLibrary == moves' = moves

\* However directories are moved while the call is under way, the library changes entries of the
\* recorded directories and of no others (vfs.rs: "verify, on the same directory handle it then
\* mutates through, that the parent is the directory recorded in the journal"); nothing another
\* program has put at a destination is replaced; and nothing but the file an unlink is for loses
\* its last name.
OnlyItsOwn ==
  [][ByLibrary =>
       /\ \A s \in Changed : \E n \in DOMAIN Places(call) :
            Places(call)[n].parent \in {None, s[1]} /\ s[2] = Leaf(Places(call)[n].path)
       /\ \A s \in DOMAIN entry \intersect DOMAIN entry' : entry'[s] = entry[s]
       /\ call # None /\ call.op # "unlink" =>
            \A s \in DOMAIN entry : \E t \in DOMAIN entry' : entry'[t] = entry[s]]_vars

\* The directories a path leads to from the root, through directories of its device only.
Into(ds, c) == {entry[s] : s \in DOMAIN entry \intersect (ds \X {c})} \intersect (Dir \ Mount)
DirAt(path) == FoldLeft(Into, {RootDir}, path)

\* Of a tree nobody else changes meanwhile, a call changes, reads and syncs what its path leads to
\* without a link, in the root's own file system; so a call made after a directory of the plan was
\* moved away does nothing there (DESIGN.md section 6: "the parent-identity check refuses the next
\* step").
AtThePath ==
  [][ByLibrary /\ quiet =>
       /\ \A s \in Changed : \E n \in DOMAIN Places(call) :
            s[1] \in DirAt(Parent(Places(call)[n].path)) /\ s[2] = Leaf(Places(call)[n].path)
       /\ call # None /\ call' = None /\ answer' \notin {None, "missing"} =>
            IF call.op = "barrier"
            THEN DirAt(Parent(call.from.path)) = {answer'} /\ answer' = call.from.parent
            ELSE \E d \in DirAt(Parent(call.from.path)) :
                   Filled(<<d, Leaf(call.from.path)>>) /\ entry[<<d, Leaf(call.from.path)>>] = answer']_vars

\* What classification learns from a probe is so of the recorded directory, wherever that is by
\* then: an answer about a directory that took its place would count as an entry found or missing.
ProbeIsOfTheRecorded ==
  [][call # None /\ call' = None /\ call.op = "probe" /\ answer' # None =>
       LET slot == <<call.from.parent, Leaf(call.from.path)>>
       IN  IF Filled(slot) THEN answer' = entry[slot] ELSE answer' = "missing"]_vars
=============================================================================
