--------------------------- MODULE LinuxFsProofs ---------------------------
(* Proofs about LinuxFs, for any tree, any calls on it and any number of changes by other programs. *)
EXTENDS LinuxFs, TLAPS, WellFoundedInduction

-----------------------------------------------------------------------------
\* A set of natural numbers has a least element: what the proofs by induction of this project use.
LEMMA Least ==
  ASSUME NEW T \in SUBSET Nat, T # {}
  PROVE  \E n \in T : \A k \in T : n <= k
<1> DEFINE R == OpToRel(<, Nat)
<1>1. IsWellFoundedOn(R, Nat)
  BY NatLessThanWellFounded
<1>2. \A k, n \in Nat : k < n => <<k, n>> \in R
  BY DEF OpToRel
<1> HIDE DEF R
<1>3. PICK n \in T : \A k \in T : <<k, n>> \notin R
  BY <1>1, WFMin
<1>4. ASSUME NEW k \in T PROVE n <= k
  <2>1. ~ (k < n)
    BY <1>2, <1>3
  <2> QED
    BY <2>1
<1> QED
  BY <1>4

-----------------------------------------------------------------------------
(* Where a path leads, one component at a time. *)

FromRoot(x) == {RootDir}
IntoNext(x, ds, c) == Into(ds, c)

Walk == INSTANCE FoldLemmas WITH Op <- IntoNext, Base <- FromRoot

\* DirAt is such a fold.
LEMMA DirAtIsFold ==
  ASSUME NEW p
  PROVE  DirAt(p) = Walk!Fold(0, p)
BY DEF DirAt, FromRoot, IntoNext, Walk!Fold, FoldLeft, MapThenFoldSet, Walk!MapThenFoldSet, Max, Walk!Largest

\* The empty path leads to the root ...
LEMMA DirAtRoot == DirAt(<<>>) = {RootDir}
BY DirAtIsFold, Walk!FoldEmpty, Least DEF Walk!WellOrdered, FromRoot

\* ... and one name more leads to what has this name where the others lead.
LEMMA DirAtNext ==
  ASSUME NEW p \in Seq(Name), NEW c \in Name
  PROVE  DirAt(Append(p, c)) = Into(DirAt(p), c)
<1>1. Walk!Fold(0, Append(p, c)) = IntoNext(0, Walk!Fold(0, p), c)
  BY Walk!FoldAppend, Least DEF Walk!WellOrdered
<1>2. DirAt(Append(p, c)) = Walk!Fold(0, Append(p, c)) /\ DirAt(p) = Walk!Fold(0, p)
  BY DirAtIsFold
<1> QED
  BY <1>1, <1>2 DEF IntoNext

\* A step that changes no entry leaves every path where it led.
LEMMA DirAtKept ==
  ASSUME entry' = entry, NEW CONSTANT p
  PROVE  DirAt(p)' = DirAt(p)
BY DEF DirAt, Into, FoldLeft, MapThenFoldSet

-----------------------------------------------------------------------------
(* The inductive invariant. *)

\* Where the n-th parent of the call is looked for.
PathOf(n) == Parent(Places(call)[n].path)

TypeOK == moves \in Nat /\ at \in Dir /\ rest \in Seq(Name) /\ held \in Seq(Dir)

\* What is held was compared with what was recorded.
Compared ==
  /\ call \in Call /\ Len(held) <= Len(Places(call))
  /\ \A n \in 1 .. Len(held) : Places(call)[n].parent \in {None, held[n]}

\* Of the parent it is opening, the call has walked the first components, and they lead to `at`.
Underway ==
  LET p == PathOf(Len(held) + 1)
  IN  \E k \in 0 .. Len(p) : rest = SubSeq(p, k + 1, Len(p)) /\ DirAt(SubSeq(p, 1, k)) = {at}

\* Nobody else having changed anything, what is held is still where it was found.
Undisturbed ==
  /\ \A n \in 1 .. Len(held) : DirAt(PathOf(n)) = {held[n]}
  /\ Len(held) < Len(Places(call)) => Underway

IInv == TypeOK /\ (call # None => Compared /\ (quiet => Undisturbed))

\* A call has one place or two; those of a rename are its ends, those of a barrier the same path twice.
LEMMA PlaceFacts ==
  ASSUME NEW c \in Call
  PROVE  /\ Places(c) \in Seq(Place) /\ Len(Places(c)) \in 1 .. 2 /\ Places(c)[1] = c.from
         /\ c.op = "rename" => Len(Places(c)) = 2 /\ Places(c)[2] = c.to
         /\ c.op = "barrier" => Len(Places(c)) = 2 /\ Places(c)[2].path = c.from.path
         /\ c.op \notin {"rename", "barrier"} => Len(Places(c)) = 1
<1>1. c.from \in Place /\ (c.op = "rename" => c.to \in Place)
  BY CallAssumption
<1>2. CASE c.op = "rename"
  BY <1>1, <1>2 DEF Places
<1>3. CASE c.op = "barrier"
  BY <1>1, <1>3 DEF Places, Place
<1>4. CASE c.op \notin {"rename", "barrier"}
  BY <1>1, <1>4 DEF Places
<1> QED
  BY <1>2, <1>3, <1>4

\* The parent of a path is a path.
LEMMA ParentIsPath ==
  ASSUME NEW p \in Seq(Name)
  PROVE  Parent(p) \in Seq(Name)
BY DEF Parent, Root, Front

\* A walk begins at the root with the whole path before it.
LEMMA WalkBegins ==
  ASSUME NEW c \in Call, NEW n \in DOMAIN Places(c)
  PROVE  LET p == Parent(Places(c)[n].path)
         IN  /\ p \in Seq(Name) /\ p = SubSeq(p, 0 + 1, Len(p))
             /\ DirAt(SubSeq(p, 1, 0)) = {RootDir}
<1> DEFINE p == Parent(Places(c)[n].path)
<1>1. Places(c)[n] \in Place
  BY PlaceFacts
<1>2. p \in Seq(Name)
  BY <1>1, ParentIsPath DEF Place
<1> HIDE DEF p
<1>3. p = SubSeq(p, 0 + 1, Len(p)) /\ SubSeq(p, 1, 0) = <<>>
  BY <1>2
<1> QED
  BY <1>2, <1>3, DirAtRoot DEF p

\* A component further on.
LEMMA WalkGoesOn ==
  ASSUME NEW p \in Seq(Name), NEW k \in 0 .. Len(p), SubSeq(p, k + 1, Len(p)) # <<>>,
         NEW d, DirAt(SubSeq(p, 1, k)) = {d},
         NEW e, e \in Leads(<<d, Head(SubSeq(p, k + 1, Len(p)))>>)
  PROVE  /\ k + 1 \in 0 .. Len(p)
         /\ Tail(SubSeq(p, k + 1, Len(p))) = SubSeq(p, (k + 1) + 1, Len(p))
         /\ DirAt(SubSeq(p, 1, k + 1)) = {e}
<1>1. k + 1 \in 1 .. Len(p) /\ Head(SubSeq(p, k + 1, Len(p))) = p[k + 1] /\ p[k + 1] \in Name
  OBVIOUS
<1>2. Tail(SubSeq(p, k + 1, Len(p))) = SubSeq(p, (k + 1) + 1, Len(p))
  OBVIOUS
<1>3. SubSeq(p, 1, k + 1) = Append(SubSeq(p, 1, k), p[k + 1]) /\ SubSeq(p, 1, k) \in Seq(Name)
  BY <1>1
<1>4. DirAt(SubSeq(p, 1, k + 1)) = Into({d}, p[k + 1])
  BY <1>1, <1>3, DirAtNext
<1>5. Into({d}, p[k + 1]) = {e}
  BY <1>1 DEF Into, Leads, Filled
<1>6. k + 1 \in 0 .. Len(p)
  BY <1>1
<1> QED
  BY <1>2, <1>4, <1>5, <1>6

-----------------------------------------------------------------------------
(* Every step keeps it. *)

\* A call that begins has its way to its first parent before it.
LEMMA BeginKeepsInv ==
  ASSUME IInv, NEW c \in Call, Begin(c)
  PROVE  IInv'
<1> DEFINE p == Parent(c.from.path)
<1>1. /\ call' = c /\ held' = <<>> /\ at' = RootDir /\ rest' = p /\ entry' = entry
      /\ moves' = moves
  BY DEF Begin, WalkTo
<1>2. 1 \in DOMAIN Places(c) /\ Places(c)[1] = c.from /\ Len(Places(c)) \in 1 .. 2
  BY PlaceFacts
<1>3. p \in Seq(Name) /\ p = SubSeq(p, 0 + 1, Len(p)) /\ DirAt(SubSeq(p, 1, 0)) = {RootDir}
  BY <1>2, WalkBegins
<1>4. PathOf(Len(held) + 1)' = p
  BY <1>1, <1>2 DEF PathOf
<1>5. DirAt(SubSeq(p, 1, 0))' = {RootDir}
  BY <1>1, <1>3, DirAtKept
<1> HIDE DEF p
<1>6. Underway'
  BY <1>1, <1>3, <1>4, <1>5 DEF Underway
<1>7. TypeOK'
  BY <1>1, <1>3, LinuxAssumption DEF IInv, TypeOK
<1>8. Compared'
  BY <1>1, <1>2 DEF Compared
<1>9. Undisturbed'
  BY <1>1, <1>6 DEF Undisturbed
<1> QED
  BY <1>7, <1>8, <1>9 DEF IInv

\* A component further, it is a component further on its way.
LEMMA LookUpKeepsInv ==
  ASSUME IInv, LookUp
  PROVE  IInv'
<1>1. /\ call' = call /\ held' = held /\ entry' = entry /\ moves' = moves /\ quiet' = quiet
      /\ at' \in Leads(<<at, Head(rest)>>) /\ rest' = Tail(rest) /\ rest # <<>> /\ call # None
  BY DEF LookUp
<1>2. TypeOK'
  BY <1>1 DEF IInv, TypeOK, Leads
<1>3. Compared'
  BY <1>1 DEF IInv, Compared
<1>4. ASSUME quiet PROVE Undisturbed'
  <2>1. \A n \in 1 .. Len(held) : DirAt(PathOf(n)) = {held[n]}
    BY <1>1, <1>4 DEF IInv, Undisturbed
  <2>2. ASSUME NEW n \in 1 .. Len(held) PROVE DirAt(PathOf(n))' = {held[n]}
    <3> DEFINE p == PathOf(n)
    <3>1. p' = p
      BY <1>1 DEF PathOf
    <3>2. DirAt(p) = {held[n]}
      BY <2>1
    <3> HIDE DEF p
    <3>3. DirAt(p)' = DirAt(p)
      BY <1>1, <3>1 DEF DirAt, Into, FoldLeft, MapThenFoldSet
    <3> QED
      BY <3>2, <3>3 DEF p
  <2>3. ASSUME Len(held) < Len(Places(call)) PROVE Underway'
    <3> DEFINE p == PathOf(Len(held) + 1)
    <3>1. PICK k \in 0 .. Len(p) : rest = SubSeq(p, k + 1, Len(p)) /\ DirAt(SubSeq(p, 1, k)) = {at}
      BY <1>1, <1>4, <2>3 DEF IInv, Undisturbed, Underway
    <3>2. p \in Seq(Name)
      <4>1. call \in Call /\ Len(held) + 1 \in DOMAIN Places(call)
        BY <1>1, <2>3, PlaceFacts DEF IInv, Compared, TypeOK
      <4> QED
        BY <4>1, WalkBegins DEF PathOf
    <3>3. p' = p
      BY <1>1 DEF PathOf
    <3> HIDE DEF p
    <3>4. /\ k + 1 \in 0 .. Len(p) /\ rest' = SubSeq(p, (k + 1) + 1, Len(p))
          /\ DirAt(SubSeq(p, 1, k + 1)) = {at'}
      BY <1>1, <3>1, <3>2, WalkGoesOn
    <3>5. DirAt(SubSeq(p, 1, k + 1))' = DirAt(SubSeq(p, 1, k + 1))
      BY <1>1, <3>3 DEF DirAt, Into, FoldLeft, MapThenFoldSet
    <3> QED
      BY <3>3, <3>4, <3>5 DEF Underway, p
  <2> QED
    BY <1>1, <2>2, <2>3 DEF Undisturbed
<1> QED
  BY <1>1, <1>2, <1>3, <1>4 DEF IInv

\* A parent opened and compared is where its path leads, and the next one is before the call.
LEMMA OpenedKeepsInv ==
  ASSUME IInv, Opened
  PROVE  IInv'
<1> DEFINE m == Len(held)
<1>1. /\ call' = call /\ entry' = entry /\ moves' = moves /\ quiet' = quiet /\ call # None
      /\ held' = Append(held, at) /\ rest = <<>> /\ m < Len(Places(call))
      /\ Places(call)[m + 1].parent \in {None, at}
  BY DEF Opened, Opening, Hold, Now
<1>2. /\ call \in Call /\ Len(Places(call)) \in 1 .. 2 /\ m \in Nat /\ Len(held') = m + 1
      /\ \A n \in 1 .. m + 1 : held'[n] = IF n = m + 1 THEN at ELSE held[n]
  BY <1>1, PlaceFacts DEF IInv, Compared, TypeOK
<1>3. Compared'
  BY <1>1, <1>2 DEF IInv, Compared
<1>4. m + 1 < Len(Places(call)) =>
        m + 2 \in DOMAIN Places(call) /\ at' = RootDir /\ rest' = PathOf(m + 2)
  BY <1>1, <1>2, PlaceFacts DEF Opened, Hold, WalkTo, PathOf
<1>5. ~ (m + 1 < Len(Places(call))) => at' = at /\ rest' = rest
  BY <1>1, <1>2 DEF Opened, Hold
<1>6. TypeOK'
  <2>1. m + 1 < Len(Places(call)) => rest' \in Seq(Name)
    BY <1>2, <1>4, WalkBegins DEF PathOf
  <2>2. held' \in Seq(Dir) /\ at \in Dir /\ RootDir \in Dir /\ moves \in Nat /\ rest \in Seq(Name)
    BY <1>1, LinuxAssumption DEF IInv, TypeOK
  <2>3. at' \in Dir /\ rest' \in Seq(Name)
    BY <1>4, <1>5, <2>1, <2>2
  <2> QED
    BY <1>1, <2>2, <2>3 DEF TypeOK
<1>7. ASSUME quiet PROVE Undisturbed'
  <2>1. ASSUME NEW n \in 1 .. m + 1 PROVE DirAt(PathOf(n))' = {held'[n]}
    <3> DEFINE p == PathOf(n)
    <3>1. p' = p
      BY <1>1 DEF PathOf
    <3>2. DirAt(p) = {held'[n]}
      <4>1. CASE n \in 1 .. m
        BY <4>1, <1>1, <1>2, <1>7 DEF IInv, Undisturbed
      <4>2. CASE n = m + 1
        <5>1. PICK k \in 0 .. Len(p) : <<>> = SubSeq(p, k + 1, Len(p)) /\ DirAt(SubSeq(p, 1, k)) = {at}
          BY <4>2, <1>1, <1>7 DEF IInv, Undisturbed, Underway
        <5>2. p \in Seq(Name)
          BY <1>1, <1>2, <4>2, WalkBegins, PlaceFacts DEF PathOf
        <5> HIDE DEF p
        <5>3. SubSeq(p, 1, k) = p
          BY <5>1, <5>2
        <5> QED
          BY <4>2, <5>1, <5>3, <1>2
      <4> QED
        BY <4>1, <4>2, <1>2
    <3> HIDE DEF p
    <3>3. DirAt(p)' = DirAt(p)
      BY <1>1, <3>1 DEF DirAt, Into, FoldLeft, MapThenFoldSet
    <3> QED
      BY <3>2, <3>3 DEF p
  <2>2. ASSUME m + 1 < Len(Places(call)) PROVE Underway'
    <3> DEFINE p == PathOf(2)
    <3>0. m + 2 = 2 /\ Len(held') + 1 = 2
      BY <1>2, <2>2
    <3>1. p' = p /\ PathOf(Len(held) + 1)' = p
      BY <1>1, <3>0 DEF PathOf
    <3>2. p \in Seq(Name) /\ p = SubSeq(p, 0 + 1, Len(p)) /\ DirAt(SubSeq(p, 1, 0)) = {RootDir}
      BY <1>2, <1>4, <2>2, <3>0, WalkBegins DEF PathOf
    <3>3. at' = RootDir /\ rest' = p
      BY <1>4, <2>2, <3>0
    <3> HIDE DEF p
    <3>4. DirAt(SubSeq(p, 1, 0))' = DirAt(SubSeq(p, 1, 0))
      BY <1>1, <3>1 DEF DirAt, Into, FoldLeft, MapThenFoldSet
    <3>5. 0 \in 0 .. Len(p)
      BY <3>2
    <3> QED
      BY <3>1, <3>2, <3>3, <3>4, <3>5 DEF Underway
  <2> QED
    BY <1>1, <1>2, <2>1, <2>2 DEF Undisturbed
<1> QED
  BY <1>1, <1>3, <1>6, <1>7 DEF IInv

\* A call that ends, however it ends, leaves nothing to say; another program ends the quiet.
LEMMA EndKeepsInv ==
  ASSUME IInv, NEW found, End(found)
  PROVE  IInv'
BY LinuxAssumption DEF End, IInv, TypeOK

\* Another program changes entries: nothing the call has opened or compared changes.
LEMMA DisturbsKeepsInv ==
  ASSUME IInv, Disturbs
  PROVE  IInv'
BY DEF Disturbs, walk, IInv, TypeOK, Compared

\* Nor when nothing happens.
LEMMA StutterKeepsInv ==
  ASSUME IInv, UNCHANGED vars
  PROVE  IInv'
<1>1. /\ call' = call /\ held' = held /\ entry' = entry /\ moves' = moves /\ quiet' = quiet
      /\ at' = at /\ rest' = rest
  BY DEF vars
<1>2. TypeOK' /\ (call # None => Compared')
  BY <1>1 DEF IInv, TypeOK, Compared
<1>3. Undisturbed' = Undisturbed
  BY <1>1 DEF Undisturbed, Underway, PathOf, DirAt, Into, FoldLeft, MapThenFoldSet
<1> QED
  BY <1>1, <1>2, <1>3 DEF IInv

\* Whatever a call holds open was compared with what was recorded, and is at its path as long as nobody
\* interferes (sys/linux.rs, open_parent).
THEOREM Invariance == Spec => []IInv
<1>1. Init => IInv
  BY LinuxAssumption DEF Init, IInv, TypeOK
<1>2. IInv /\ [Next]_vars => IInv'
  <2> SUFFICES ASSUME IInv, [Next]_vars PROVE IInv'
    OBVIOUS
  <2>1. CASE UNCHANGED vars
    BY <2>1, StutterKeepsInv
  <2>2. ASSUME NEW c \in Call, Begin(c) PROVE IInv'
    BY <2>2, BeginKeepsInv
  <2>3. CASE LookUp
    BY <2>3, LookUpKeepsInv
  <2>4. CASE Opened
    BY <2>4, OpenedKeepsInv
  <2>5. CASE LookUpFails \/ Mismatch \/ RenameFails \/ CreateOrUnlinkFails
    BY <2>5, EndKeepsInv DEF LookUpFails, Mismatch, RenameFails, CreateOrUnlinkFails, Refused
  <2>6. CASE Rename \/ Create \/ Unlink \/ Probe \/ Read \/ SyncDir
    BY <2>6, EndKeepsInv DEF Rename, Create, Unlink, Probe, Read, SyncDir
  <2>7. CASE MovesDir \/ MakesLink \/ RemovesLink
    BY <2>7, DisturbsKeepsInv DEF MovesDir, MakesLink, RemovesLink
  <2> QED
    BY <2>1, <2>2, <2>3, <2>4, <2>5, <2>6, <2>7 DEF Next, Library
<1> QED
  BY <1>1, <1>2, PTL DEF Spec

-----------------------------------------------------------------------------
(* What the library changes and learns. *)

\* A call that is ready holds, for each of its places, a directory that was compared.
LEMMA ReadyHolds ==
  ASSUME IInv, NEW op, Ready(op), NEW n \in DOMAIN Places(call)
  PROVE  /\ call \in Call /\ call # None /\ n \in 1 .. Len(held) /\ 1 \in DOMAIN Places(call)
         /\ Places(call)[n].parent \in {None, held[n]}
         /\ Slot(n) = <<held[n], Leaf(Places(call)[n].path)>>
         /\ quiet => DirAt(PathOf(n)) = {held[n]}
BY PlaceFacts DEF Ready, IInv, Compared, Undisturbed, Slot

\* Only three of the calls change an entry, and each one those of its places.
LEMMA LibraryChanges ==
  ASSUME IInv, [Next]_vars, ByLibrary, entry' # entry
  PROVE  \/ /\ Rename /\ Filled(Slot(1)) /\ ~ Filled(Slot(2)) /\ Changed \subseteq {Slot(1), Slot(2)}
            /\ 1 \in DOMAIN Places(call) /\ 2 \in DOMAIN Places(call)
         \/ /\ Create /\ ~ Filled(Slot(1)) /\ Changed \subseteq {Slot(1)} /\ 1 \in DOMAIN Places(call)
         \/ /\ Unlink /\ Changed \subseteq {Slot(1)} /\ 1 \in DOMAIN Places(call)
<1>1. ~ Disturbs
  BY DEF Disturbs, ByLibrary, IInv, TypeOK
<1>2. Rename \/ Create \/ Unlink
  BY <1>1 DEF Next, Library, vars, Begin, LookUp, LookUpFails, Opened, Hold, Mismatch, RenameFails,
              CreateOrUnlinkFails, Probe, Read, SyncDir, Refused, MovesDir, MakesLink, RemovesLink
<1>3. CASE Rename
  <2>1. call \in Call /\ call.op = "rename"
    BY <1>3 DEF Rename, Ready, IInv, Compared
  <2>2. 1 \in DOMAIN Places(call) /\ 2 \in DOMAIN Places(call)
    BY <2>1, PlaceFacts
  <2>3. Changed \subseteq {Slot(1), Slot(2)}
    BY <1>3 DEF Rename, Changed, Filled
  <2> QED
    BY <1>3, <2>2, <2>3 DEF Rename
<1>4. CASE Create
  <2>1. call \in Call /\ 1 \in DOMAIN Places(call)
    BY <1>4, PlaceFacts DEF Create, Ready, IInv, Compared
  <2>2. Changed \subseteq {Slot(1)}
    BY <1>4 DEF Create, Changed, Filled, Put
  <2> QED
    BY <1>4, <2>1, <2>2 DEF Create
<1>5. CASE Unlink
  <2>1. call \in Call /\ 1 \in DOMAIN Places(call)
    BY <1>5, PlaceFacts DEF Unlink, Ready, IInv, Compared
  <2>2. Changed \subseteq {Slot(1)}
    BY <1>5 DEF Unlink, Changed, Filled, Without
  <2> QED
    BY <1>5, <2>1, <2>2
<1> QED
  BY <1>2, <1>3, <1>4, <1>5

\* The directories other programs move while a call is under way never make it change an entry of
\* any but the recorded ones, replace one or lose a file: OnlyItsOwn.
THEOREM OwnEntriesOnly == Spec => OnlyItsOwn
<1> DEFINE A == ByLibrary =>
       /\ \A s \in Changed : \E n \in DOMAIN Places(call) :
            Places(call)[n].parent \in {None, s[1]} /\ s[2] = Leaf(Places(call)[n].path)
       /\ \A s \in DOMAIN entry \intersect DOMAIN entry' : entry'[s] = entry[s]
       /\ call # None /\ call.op # "unlink" =>
            \A s \in DOMAIN entry : \E t \in DOMAIN entry' : entry'[t] = entry[s]
<1>1. IInv /\ [Next]_vars => [A]_vars
  <2> SUFFICES ASSUME IInv, [Next]_vars, ByLibrary PROVE A
    OBVIOUS
  <2>1. CASE entry' = entry
    BY <2>1 DEF Changed
  <2>2. CASE entry' # entry /\ Rename
    <3>1. /\ Filled(Slot(1)) /\ ~ Filled(Slot(2)) /\ Changed \subseteq {Slot(1), Slot(2)}
          /\ 1 \in DOMAIN Places(call) /\ 2 \in DOMAIN Places(call) /\ Ready("rename")
      BY <2>2, LibraryChanges DEF Rename, Create, Unlink, Ready
    <3>2. ASSUME NEW s \in Changed
          PROVE  \E n \in DOMAIN Places(call) :
                   Places(call)[n].parent \in {None, s[1]} /\ s[2] = Leaf(Places(call)[n].path)
      BY <3>1, ReadyHolds
    <3>3. \A s \in DOMAIN entry \intersect DOMAIN entry' : entry'[s] = entry[s]
      BY <2>2, <3>1 DEF Rename, Filled
    <3>4. \A s \in DOMAIN entry : \E t \in DOMAIN entry' : entry'[t] = entry[s]
      BY <2>2, <3>1 DEF Rename, Filled
    <3> QED
      BY <3>2, <3>3, <3>4
  <2>3. CASE entry' # entry /\ Create
    <3>1. /\ ~ Filled(Slot(1)) /\ Changed \subseteq {Slot(1)}
          /\ 1 \in DOMAIN Places(call) /\ Ready("create")
      BY <2>3, LibraryChanges DEF Rename, Create, Unlink, Ready
    <3>2. ASSUME NEW s \in Changed
          PROVE  \E n \in DOMAIN Places(call) :
                   Places(call)[n].parent \in {None, s[1]} /\ s[2] = Leaf(Places(call)[n].path)
      BY <3>1, ReadyHolds
    <3>3. \A s \in DOMAIN entry : s \in DOMAIN entry' /\ entry'[s] = entry[s]
      BY <2>3, <3>1 DEF Create, Filled, Put
    <3> QED
      BY <3>2, <3>3
  <2>4. CASE entry' # entry /\ Unlink
    <3>1. /\ Changed \subseteq {Slot(1)} /\ 1 \in DOMAIN Places(call)
          /\ Ready("unlink") /\ call.op = "unlink"
      BY <2>4, LibraryChanges DEF Rename, Create, Unlink, Ready
    <3>2. ASSUME NEW s \in Changed
          PROVE  \E n \in DOMAIN Places(call) :
                   Places(call)[n].parent \in {None, s[1]} /\ s[2] = Leaf(Places(call)[n].path)
      BY <3>1, ReadyHolds
    <3>3. \A s \in DOMAIN entry \intersect DOMAIN entry' : entry'[s] = entry[s]
      BY <2>4 DEF Unlink, Without
    <3> QED
      BY <3>1, <3>2, <3>3
  <2> QED
    BY <2>1, <2>2, <2>3, <2>4, LibraryChanges
<1> QED
  BY <1>1, Invariance, PTL DEF Spec, OnlyItsOwn

\* A probe answers for the recorded directory, wherever it has been moved: ProbeIsOfTheRecorded.
THEOREM ProbeAnswersForTheRecorded == Spec => ProbeIsOfTheRecorded
<1> DEFINE A == call # None /\ call' = None /\ call.op = "probe" /\ answer' # None =>
       LET slot == <<call.from.parent, Leaf(call.from.path)>>
       IN  IF Filled(slot) THEN answer' = entry[slot] ELSE answer' = "missing"
<1>1. IInv /\ [Next]_vars => [A]_vars
  <2> SUFFICES ASSUME IInv, Next, call # None, call' = None, call.op = "probe", answer' # None
               PROVE  A
    BY DEF vars
  <2>1. Probe
    BY DEF Next, Library, Begin, LookUp, LookUpFails, Opened, Hold, Mismatch, Rename, RenameFails,
           Create, Unlink, CreateOrUnlinkFails, Read, SyncDir, Refused, End, Ready,
           MovesDir, MakesLink, RemovesLink, Disturbs, walk
  <2>2. call \in Call /\ Ready("probe")
    BY <2>1 DEF Probe, IInv, Compared
  <2>3. 1 \in DOMAIN Places(call) /\ Places(call)[1] = call.from /\ call.from.parent # None
    BY <2>2, PlaceFacts, CallAssumption
  <2>4. Slot(1) = <<call.from.parent, Leaf(call.from.path)>>
    BY <2>2, <2>3, ReadyHolds
  <2>5. answer' = IF Filled(Slot(1)) THEN entry[Slot(1)] ELSE "missing"
    BY <2>1 DEF Probe, End
  <2> QED
    BY <2>4, <2>5
<1> QED
  BY <1>1, Invariance, PTL DEF Spec, ProbeIsOfTheRecorded

\* Undisturbed, a call changes, reads and syncs what its path leads to: AtThePath.
THEOREM FollowsThePath == Spec => AtThePath
<1> DEFINE Where == \A s \in Changed : \E n \in DOMAIN Places(call) :
            s[1] \in DirAt(Parent(Places(call)[n].path)) /\ s[2] = Leaf(Places(call)[n].path)
           What == call # None /\ call' = None /\ answer' \notin {None, "missing"} =>
            IF call.op = "barrier"
            THEN DirAt(Parent(call.from.path)) = {answer'} /\ answer' = call.from.parent
            ELSE \E d \in DirAt(Parent(call.from.path)) :
                   Filled(<<d, Leaf(call.from.path)>>) /\ entry[<<d, Leaf(call.from.path)>>] = answer'
           A == ByLibrary /\ quiet => Where /\ What
<1>1. IInv /\ [Next]_vars => [A]_vars
  <2> SUFFICES ASSUME IInv, [Next]_vars, ByLibrary, quiet PROVE Where /\ What
    OBVIOUS
  <2>1. Where
    <3>1. CASE entry' = entry
      BY <3>1 DEF Changed
    <3>2. ASSUME NEW s \in Changed, entry' # entry
          PROVE  \E n \in DOMAIN Places(call) :
                   s[1] \in DirAt(Parent(Places(call)[n].path)) /\ s[2] = Leaf(Places(call)[n].path)
      <4>1. Rename => Ready("rename")
        BY DEF Rename
      <4>2. (Create => Ready("create")) /\ (Unlink => Ready("unlink"))
        BY DEF Create, Unlink
      <4>3. PICK n \in DOMAIN Places(call) : s = Slot(n)
        BY <3>2, LibraryChanges
      <4>4. PICK op : Ready(op)
        BY <3>2, <4>1, <4>2, LibraryChanges
      <4>5. Slot(n) = <<held[n], Leaf(Places(call)[n].path)>> /\ DirAt(PathOf(n)) = {held[n]}
        BY <4>4, ReadyHolds
      <4> QED
        BY <4>3, <4>5 DEF PathOf
    <3> QED
      BY <3>1, <3>2
  <2>2. ASSUME call # None, call' = None, answer' \notin {None, "missing"}
        PROVE  IF call.op = "barrier"
               THEN DirAt(Parent(call.from.path)) = {answer'} /\ answer' = call.from.parent
               ELSE \E d \in DirAt(Parent(call.from.path)) :
                      Filled(<<d, Leaf(call.from.path)>>) /\ entry[<<d, Leaf(call.from.path)>>] = answer'
    <3>1. Probe \/ Read \/ SyncDir
      BY <2>2 DEF Next, Library, vars, Begin, LookUp, LookUpFails, Opened, Hold, Mismatch, Rename,
                  RenameFails, Create, Unlink, CreateOrUnlinkFails, Refused, End,
                  MovesDir, MakesLink, RemovesLink, Disturbs, walk
    <3>2. /\ call \in Call /\ 1 \in DOMAIN Places(call) /\ Places(call)[1] = call.from
          /\ PathOf(1) = Parent(call.from.path)
      BY <2>2, PlaceFacts DEF IInv, Compared, PathOf
    <3>3. CASE Probe \/ Read
      <4>1. PICK op \in {"probe", "read"} : Ready(op)
        BY <3>3 DEF Probe, Read
      <4>2. Slot(1) = <<held[1], Leaf(call.from.path)>> /\ DirAt(PathOf(1)) = {held[1]}
        BY <3>2, <4>1, ReadyHolds
      <4>3. Filled(Slot(1)) /\ answer' = entry[Slot(1)] /\ call.op # "barrier"
        BY <2>2, <3>3, <4>1 DEF Probe, Read, End, Ready
      <4> QED
        BY <3>2, <4>2, <4>3
    <3>4. CASE SyncDir
      <4>1. Ready("barrier") /\ call.op = "barrier" /\ answer' = held[2]
        BY <3>4 DEF SyncDir, End, Ready
      <4>2. 2 \in DOMAIN Places(call) /\ PathOf(2) = PathOf(1) /\ call.from.parent # None
        BY <3>2, <4>1, PlaceFacts, CallAssumption DEF PathOf
      <4>3. DirAt(PathOf(1)) = {held[1]} /\ DirAt(PathOf(2)) = {held[2]}
            /\ call.from.parent \in {None, held[1]}
        BY <3>2, <4>1, <4>2, ReadyHolds
      <4> QED
        BY <3>2, <4>1, <4>2, <4>3
    <3> QED
      BY <3>1, <3>3, <3>4
  <2> QED
    BY <2>1, <2>2
<1> QED
  BY <1>1, Invariance, PTL DEF Spec, AtThePath
=============================================================================
