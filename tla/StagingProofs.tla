--------------------------- MODULE StagingProofs ---------------------------
(* Proofs about staging (Staging) and about the command line (Cli, Sync), of their specifications.   *)
(* Staging: what is shown of the base through the overlay is a tree, and every operation makes of it *)
(* what the same operation makes of a tree of one's own, and is accepted exactly when it would be    *)
(* there; and the plan made from it passes validation, is the net difference, and reads back from    *)
(* the journal as it was written.  The command line: what refuses, what is invalid and what is a dry *)
(* run leaves the tree as it would be without this program, whatever another program does to the     *)
(* tree meanwhile.  The lemmas that need no specification are in OverlayLemmas.                      *)
EXTENDS Sync, PlanLemmas, CaseStaging, OverlayLemmas

-----------------------------------------------------------------------------
(* The file system while the transaction is open: Z is what .fstx and all below it have been given. *)

\* The fields of a file system.
IsRecord(f) ==
  /\ f = [field \in DOMAIN f |-> f[field]]
  /\ {"vol", "dur", "pending", "kind", "data", "ddata", "dirty", "next", "broken"} \subseteq DOMAIN f

\* An inode that was given out.
IsNode(f, i) == i \in DOMAIN f.kind /\ i \in DOMAIN f.data /\ f.kind[i] \in {"file", "dir"}

\* Every entry leads to an inode that was given out, and what is given out next is new.
Fresh(f) ==
  /\ f.next \in Nat /\ f.next > RootIno /\ IsNode(f, RootIno)
  /\ \A s \in DOMAIN f.vol :
       /\ f.vol[s] \in Nat /\ f.vol[s] < f.next /\ f.vol[s] # NoIno /\ IsNode(f, f.vol[s])
       /\ s[1] < f.next /\ s[1] # NoIno

\* The directory of the blobs is where begin made it.
StagedAt(f, Z) ==
  \E a, b, c \in Z :
    /\ c # a /\ c # b
    /\ <<RootIno, PrivateDir>> \in DOMAIN f.vol /\ f.vol[<<RootIno, PrivateDir>>] = a
    /\ <<a, "tx">> \in DOMAIN f.vol /\ f.vol[<<a, "tx">>] = b
    /\ <<b, "staged">> \in DOMAIN f.vol /\ f.vol[<<b, "staged">>] = c

\* Such a file system, ...
IsOpen(f, Z) ==
  /\ IsRecord(f) /\ Fresh(f) /\ IsZone(f.vol, Z) /\ (\A z \in Z : z \in Nat /\ z < f.next)

\* ... while a transaction is open on it.
Open(f) == \E Z : IsOpen(f, Z) /\ StagedAt(f, Z)

-----------------------------------------------------------------------------
(* Paths. *)

\* A sequence that is not empty has a front and a last element.
LEMMA Ending ==
  ASSUME NEW p \in Seq(STRING), p # <<>>
  PROVE  \E q \in Seq(STRING), c \in STRING : p = Append(q, c) /\ q = SubSeq(p, 1, Len(p) - 1)
<1>1. PICK n \in Nat : Len(p) = n + 1 /\ Len(p) - 1 = n
  <2>1. Len(p) \in Nat /\ Len(p) # 0
    OBVIOUS
  <2>2. Len(p) - 1 \in Nat /\ Len(p) = (Len(p) - 1) + 1
    BY <2>1
  <2> QED
    BY Zenon, <2>2
<1>2. SubSeq(p, 1, n) \in Seq(STRING) /\ p[n + 1] \in STRING /\ p = Append(SubSeq(p, 1, n), p[n + 1])
  BY <1>1, FrontAndLast
<1> QED
  BY <1>1, <1>2

\* A path leads to the root, to nothing, or to what some entry leads to.
LEMMA InoAtRange ==
  ASSUME NEW img, NEW p \in Seq(STRING)
  PROVE  InoAt(img, p) \in {RootIno, NoIno} \/ \E s \in DOMAIN img : InoAt(img, p) = img[s]
<1>1. CASE p = <<>>
  BY <1>1, InoAtRoot
<1>2. CASE p # <<>>
  <2>1. PICK q \in Seq(STRING), c \in STRING : p = Append(q, c)
    BY <1>2, Ending
  <2>2. InoAt(img, p) = Step(img, InoAt(img, q), c)
    BY <2>1, InoAtNext
  <2> QED
    BY <2>2 DEF Step
<1> QED
  BY <1>1, <1>2

\* A path that is not empty is its parent and its last component.
LEMMA ParentAndLeaf ==
  ASSUME NEW p \in Seq(STRING), p # Root
  PROVE  /\ Parent(p) \in Seq(STRING) /\ Leaf(p) \in STRING
         /\ Parent(p) # Root => Parent(p)[1] = p[1]
         /\ Parent(p) = Root => Leaf(p) = p[1]
<1>1. PICK q \in Seq(STRING), c \in STRING : p = Append(q, c) /\ q = SubSeq(p, 1, Len(p) - 1)
  BY Ending DEF Root
<1>2. Len(Append(q, c)) = Len(q) + 1 /\ Len(q) \in Nat /\ Append(q, c)[Len(q) + 1] = c
  BY AppendFacts
<1>3. Parent(p) = q
  BY <1>1 DEF Parent, Front, Root
<1>4. Leaf(p) = c
  BY <1>1, <1>2 DEF Leaf, Last
<1>5. ASSUME q # <<>> PROVE Append(q, c)[1] = q[1]
  <2>1. q \in Seq(STRING)
    OBVIOUS
  <2>2. Len(q) # 0
    BY <1>5, <2>1
  <2>3. 1 \in 1 .. Len(q)
    BY <1>2, <2>2
  <2> QED
    BY <2>3, AppendPrefix
<1>6. q = <<>> => Append(q, c)[1] = c
  OBVIOUS
<1>7. p = Append(q, c)
  BY <1>1
<1> QED
  BY <1>3, <1>4, <1>5, <1>6, <1>7 DEF Root

\* What a path of the user leads to is outside .fstx, and is not the root.
LEMMA UserPathsStayOutside ==
  ASSUME NEW img, NEW Z, IsZone(img, Z), NEW p \in Seq(STRING), ~ IsPrivate(p)
  PROVE  InoAt(img, p) \notin Z /\ (p # Root => InoAt(img, p) # RootIno)
<1>1. SubSeq(p, 1, Len(p)) = p /\ Len(p) \in 0 .. Len(p)
  BY WholePrefix
<1>2. InoAt(img, p) \notin Z /\ (Len(p) # 0 => InoAt(img, p) # RootIno)
  BY <1>1, PathsStayOutside
<1>3. p # Root => Len(p) # 0
  BY DEF Root
<1> QED
  BY <1>2, <1>3

\* The slot of a path of the user is not in .fstx, and not .fstx.
LEMMA UserSlots ==
  ASSUME NEW f, NEW Z, IsOpen(f, Z), NEW p \in Seq(STRING), UserPath(p)
  PROVE  \E d \in Nat : \E c \in STRING :
           SlotOf(f, p) = <<d, c>> /\ d \notin Z /\ d < f.next /\ <<d, c>> # <<RootIno, PrivateDir>>
<1>1. p # Root /\ ~ IsPrivate(p) /\ p[1] # PrivateDir
  BY DEF UserPath, IsPrivate
<1>2. Parent(p) \in Seq(STRING) /\ Leaf(p) \in STRING /\ ~ IsPrivate(Parent(p))
  BY <1>1, ParentAndLeaf DEF IsPrivate
<1> PICK q \in Seq(STRING) : q = Parent(p)
  BY <1>2
<1>3. IsZone(f.vol, Z) /\ Fresh(f)
  BY DEF IsOpen
<1>4. InoAt(f.vol, q) \notin Z /\ (q # Root => InoAt(f.vol, q) # RootIno)
  BY <1>2, <1>3, UserPathsStayOutside
<1>5. InoAt(f.vol, q) \in Nat /\ InoAt(f.vol, q) < f.next
  BY <1>3, InoAtRange DEF Fresh, RootIno, NoIno
<1>6. q = Root => Leaf(p) # PrivateDir
  BY <1>1, ParentAndLeaf
<1>7. SlotOf(f, p) = <<InoAt(f.vol, q), Leaf(p)>>
  BY DEF SlotOf, Stat
<1> QED
  BY <1>2, <1>4, <1>5, <1>6, <1>7

-----------------------------------------------------------------------------
(* What is put into the tree, by the items it starts with or by another program. *)

\* It changes the entries outside .fstx, and gives out one inode at most.
LEMMA PutItemIs ==
  ASSUME NEW f, NEW it, IsRecord(f)
  PROVE  LET ino == IF it.link = Root THEN f.next ELSE Stat(f, it.link)
         IN  /\ IsRecord(PutItem(f, it))
             /\ PutItem(f, it).vol = Put(f.vol, SlotOf(f, it.path), ino)
             /\ PutItem(f, it).next = IF it.link = Root THEN f.next + 1 ELSE f.next
             /\ PutItem(f, it).kind = IF it.link = Root THEN Put(f.kind, ino, it.kind) ELSE f.kind
             /\ PutItem(f, it).data = IF it.link = Root THEN Put(f.data, ino, Text(it.text))
                                      ELSE f.data
<1>1. CASE it.link = Root
  <2>1. PutItem(f, it) =
          [f EXCEPT !.vol = Put(@, SlotOf(f, it.path), f.next),
                    !.dur = Put(@, SlotOf(f, it.path), f.next),
                    !.kind = Put(@, f.next, it.kind), !.data = Put(@, f.next, Text(it.text)),
                    !.ddata = Put(@, f.next, Text(it.text)), !.next = @ + 1]
    BY <1>1 DEF PutItem, IsRecord
  <2>2. IsRecord(PutItem(f, it))
    BY <2>1 DEF IsRecord
  <2> QED
    BY <1>1, <2>1, <2>2 DEF IsRecord
<1>2. CASE it.link # Root
  BY <1>2 DEF PutItem, IsRecord
<1> QED
  BY <1>1, <1>2

\* Such an entry may be added outside the zone ...
LEMMA EntryOutside ==
  ASSUME NEW img, NEW Z, IsZone(img, Z), NEW d \in Nat, NEW c \in STRING, NEW ino,
         d \notin Z, <<d, c>> # <<RootIno, PrivateDir>>, ino \notin Z, ino # RootIno
  PROVE  IsZone(Put(img, <<d, c>>, ino), Z)
<1> PICK slot : slot = <<d, c>>
  OBVIOUS
<1> PICK jmg : jmg = Put(img, slot, ino)
  OBVIOUS
<1>1. slot \in Nat \X STRING /\ slot[1] = d
  OBVIOUS
<1>2. /\ DOMAIN jmg = DOMAIN img \union {slot}
      /\ jmg[slot] = ino
      /\ \A s \in DOMAIN img : s # slot => jmg[s] = img[s]
  <2>1. jmg = [s \in DOMAIN img \union {slot} |-> IF s = slot THEN ino ELSE img[s]]
    BY Zenon DEF Put
  <2> QED
    BY <2>1, Zenon
<1>3. slot # <<RootIno, PrivateDir>>
  OBVIOUS
<1>4. IsImage(jmg)
  BY <1>1, <1>2 DEF IsZone, IsImage
<1>5. \A s \in DOMAIN jmg :
        jmg[s] # RootIno /\ (jmg[s] \in Z <=> s[1] \in Z \/ s = <<RootIno, PrivateDir>>)
  <2>1. ASSUME NEW s \in DOMAIN img, s # slot
        PROVE  jmg[s] # RootIno /\ (jmg[s] \in Z <=> s[1] \in Z \/ s = <<RootIno, PrivateDir>>)
    BY <1>2, <2>1 DEF IsZone
  <2>2. jmg[slot] # RootIno /\ jmg[slot] \notin Z /\ slot[1] \notin Z
    BY <1>1, <1>2
  <2> QED
    BY <1>2, <1>3, <2>1, <2>2
<1>6. IsZone(jmg, Z)
  BY <1>4, <1>5 DEF IsZone
<1> QED
  BY <1>6

\* ... and the directory of the blobs stays where it is.
LEMMA StagedStays ==
  ASSUME NEW f, NEW g, NEW Z, NEW d, NEW c, NEW ino, IsZone(f.vol, Z), StagedAt(f, Z),
         g.vol = Put(f.vol, <<d, c>>, ino), d \notin Z, <<d, c>> # <<RootIno, PrivateDir>>
  PROVE  StagedAt(g, Z)
<1> PICK slot : slot = <<d, c>>
  OBVIOUS
<1>1. /\ DOMAIN g.vol = DOMAIN f.vol \union {slot}
      /\ \A s \in DOMAIN f.vol : s # slot => g.vol[s] = f.vol[s]
  BY DEF Put
<1>2. \A x : \A a \in Z : <<a, x>> # slot
  OBVIOUS
<1>3. <<RootIno, PrivateDir>> # slot
  OBVIOUS
<1> QED
  BY <1>1, <1>2, <1>3 DEF StagedAt

\* What is put at a path of the user leaves the transaction directory what it was.
LEMMA PutItemKeeps ==
  ASSUME NEW f, NEW Z, IsOpen(f, Z), NEW it, IsItem(f, it)
  PROVE  IsOpen(PutItem(f, it), Z) /\ (StagedAt(f, Z) => StagedAt(PutItem(f, it), Z))
<1> DEFINE ino == IF it.link = Root THEN f.next ELSE Stat(f, it.link)
           g == PutItem(f, it)
<1>1. IsRecord(f) /\ Fresh(f) /\ IsZone(f.vol, Z) /\ (\A z \in Z : z \in Nat /\ z < f.next)
  BY DEF IsOpen
<1>2. PICK d \in Nat, c \in STRING :
        /\ SlotOf(f, it.path) = <<d, c>> /\ d \notin Z /\ d < f.next /\ d # NoIno
        /\ <<d, c>> # <<RootIno, PrivateDir>>
  <2>1. it.path \in Seq(STRING) /\ UserPath(it.path)
    BY DEF IsItem
  <2> PICK p \in Seq(STRING) : p = it.path
    BY <2>1
  <2>2. UserPath(p)
    BY <2>1
  <2>3. \E d \in Nat : \E c \in STRING :
          SlotOf(f, p) = <<d, c>> /\ d \notin Z /\ d < f.next /\ <<d, c>> # <<RootIno, PrivateDir>>
    BY <2>2, UserSlots
  <2>4. Stat(f, Parent(p)) # NoIno /\ SlotOf(f, p) = <<Stat(f, Parent(p)), Leaf(p)>>
    BY DEF IsItem, IsDir, SlotOf
  <2> QED
    BY <2>3, <2>4
<1>3. /\ IsRecord(g) /\ g.vol = Put(f.vol, <<d, c>>, ino)
      /\ g.next = IF it.link = Root THEN f.next + 1 ELSE f.next
      /\ g.kind = IF it.link = Root THEN Put(f.kind, ino, it.kind) ELSE f.kind
      /\ g.data = IF it.link = Root THEN Put(f.data, ino, Text(it.text)) ELSE f.data
  BY <1>1, <1>2, PutItemIs
<1> HIDE DEF g
<1>4. /\ ino \in Nat /\ ino < g.next /\ ino # NoIno /\ ino # RootIno /\ ino \notin Z
      /\ IsNode(g, ino)
  <2>1. CASE it.link = Root
    <3>1. DOMAIN g.kind = DOMAIN f.kind \union {f.next} /\ DOMAIN g.data = DOMAIN f.data \union {f.next}
      BY <1>3, <2>1 DEF Put
    <3>2. g.kind[f.next] = it.kind /\ it.kind \in {"file", "dir"}
      BY <1>3, <2>1 DEF Put, IsItem
    <3>3. IsNode(g, f.next)
      BY <3>1, <3>2 DEF IsNode
    <3> QED
      BY <1>1, <1>3, <2>1, <3>3 DEF Fresh, NoIno, RootIno
  <2>2. CASE it.link # Root
    <3>1. it.link \in Seq(STRING) /\ ~ IsPrivate(it.link) /\ Stat(f, it.link) # NoIno
      BY <2>2 DEF IsItem, UserPath
    <3>2. InoAt(f.vol, it.link) \notin Z /\ InoAt(f.vol, it.link) # RootIno
      BY <1>1, <2>2, <3>1, UserPathsStayOutside
    <3>3. PICK s \in DOMAIN f.vol : InoAt(f.vol, it.link) = f.vol[s]
      BY <3>1, <3>2, InoAtRange DEF Stat
    <3>4. ino = f.vol[s]
      BY <2>2, <3>3 DEF Stat
    <3>5. g.kind = f.kind /\ g.data = f.data /\ g.next = f.next
      BY <1>3, <2>2
    <3> QED
      BY <1>1, <3>2, <3>3, <3>4, <3>5 DEF Fresh, IsNode
  <2> QED
    BY <2>1, <2>2
<1>a. it.link = Root => ino = f.next
  OBVIOUS
<1> HIDE DEF ino
<1>5. f.next <= g.next /\ g.next \in Nat
  BY <1>1, <1>3 DEF Fresh
<1>6. \A i : IsNode(f, i) /\ i # f.next => IsNode(g, i)
  <2>1. CASE it.link = Root
    BY <1>3, <1>a, <2>1 DEF Put, IsNode
  <2>2. CASE it.link # Root
    BY <1>3, <2>2 DEF IsNode
  <2> QED
    BY <2>1, <2>2
<1>7. Fresh(g)
  <2> PICK slot : slot = <<d, c>>
    OBVIOUS
  <2>0. slot[1] = d
    OBVIOUS
  <2>1. /\ DOMAIN g.vol = DOMAIN f.vol \union {slot} /\ g.vol[slot] = ino
        /\ \A s \in DOMAIN f.vol : s # slot => g.vol[s] = f.vol[s]
    BY <1>3 DEF Put
  <2> SUFFICES ASSUME NEW s \in DOMAIN g.vol
               PROVE  /\ g.vol[s] \in Nat /\ g.vol[s] < g.next /\ g.vol[s] # NoIno /\ IsNode(g, g.vol[s])
                      /\ s[1] < g.next /\ s[1] # NoIno
    BY <1>1, <1>5, <1>6 DEF Fresh, RootIno
  <2>2. CASE s = slot
    BY <1>2, <1>4, <1>5, <2>0, <2>1, <2>2, <1>1 DEF Fresh
  <2>3. CASE s # slot
    <3>1. s \in DOMAIN f.vol /\ g.vol[s] = f.vol[s]
      BY <2>1, <2>3
    <3>2. /\ f.vol[s] \in Nat /\ f.vol[s] < f.next /\ f.vol[s] # NoIno /\ IsNode(f, f.vol[s])
          /\ s[1] < f.next /\ s[1] # NoIno
      BY <1>1, <3>1 DEF Fresh
    <3>3. s[1] \in Nat
      BY <1>1, <3>1 DEF IsZone, IsImage
    <3> QED
      BY <1>1, <1>5, <1>6, <3>1, <3>2, <3>3 DEF Fresh
  <2> QED
    BY <2>2, <2>3
<1>8. IsZone(g.vol, Z)
  BY <1>1, <1>2, <1>3, <1>4, EntryOutside
<1>9. \A z \in Z : z \in Nat /\ z < g.next
  <2>1. \A z \in Z : z \in Nat /\ z < f.next
    BY <1>1
  <2> QED
    BY <1>3, <2>1, <1>1 DEF Fresh
<1>10. StagedAt(f, Z) => StagedAt(g, Z)
  BY <1>1, <1>2, <1>3, StagedStays
<1> QED
  BY <1>3, <1>7, <1>8, <1>9, <1>10 DEF IsOpen, g

-----------------------------------------------------------------------------
(* A blob is written. *)

\* What the transaction directory is, by name and by path.
LEMMA TxAt ==
  ASSUME NEW f, NEW a, NEW b,
         <<RootIno, PrivateDir>> \in DOMAIN f.vol, f.vol[<<RootIno, PrivateDir>>] = a
  PROVE  /\ Stat(f, <<PrivateDir>>) = a
         /\ <<a, "tx">> \in DOMAIN f.vol /\ f.vol[<<a, "tx">>] = b => Stat(f, Tx) = b
<1> PICK r \in Seq(STRING) : r = <<PrivateDir>> /\ r = Append(<<>>, PrivateDir) /\ Tx = Append(r, "tx")
  BY TxPaths
<1>1. \A q \in Seq(STRING), x \in STRING : InoAt(f.vol, Append(q, x)) = Step(f.vol, InoAt(f.vol, q), x)
  BY InoAtNext
<1>2. InoAt(f.vol, Append(<<>>, PrivateDir)) = Step(f.vol, InoAt(f.vol, <<>>), PrivateDir)
  BY <1>1, NamesAssumption, TxPaths
<1>3. InoAt(f.vol, r) = a
  BY <1>2, InoAtRoot DEF Step
<1>4. InoAt(f.vol, Append(r, "tx")) = Step(f.vol, InoAt(f.vol, r), "tx")
  BY <1>1, NamesAssumption
<1> QED
  BY <1>3, <1>4 DEF Step, Stat

\* Where it is written: in the directory of the blobs.
LEMMA StagedSlot ==
  ASSUME NEW f, NEW a, NEW b, NEW d,
         <<RootIno, PrivateDir>> \in DOMAIN f.vol, f.vol[<<RootIno, PrivateDir>>] = a,
         <<a, "tx">> \in DOMAIN f.vol, f.vol[<<a, "tx">>] = b,
         <<b, "staged">> \in DOMAIN f.vol, f.vol[<<b, "staged">>] = d,
         NEW c \in STRING
  PROVE  SlotOf(f, Append(Append(Tx, "staged"), c)) = <<d, c>>
<1> PICK tx \in Seq(STRING) : tx = Tx
  BY TxPaths
<1>1. "staged" \in STRING
  BY NamesAssumption
<1>2. InoAt(f.vol, tx) = b
  BY TxAt DEF Stat
<1>3. InoAt(f.vol, Append(tx, "staged")) = Step(f.vol, InoAt(f.vol, tx), "staged")
  BY <1>1, InoAtNext
<1>4. InoAt(f.vol, Append(tx, "staged")) = d
  BY <1>2, <1>3 DEF Step
<1>a. \A x \in STRING : Append(tx, x) \in Seq(STRING)
  OBVIOUS
<1>b. Append(tx, "staged") \in Seq(STRING)
  BY <1>1, <1>a, Zenon
<1> PICK q \in Seq(STRING) : q = Append(tx, "staged")
  BY <1>b
<1>5. Parent(Append(q, c)) = q /\ Leaf(Append(q, c)) = c
  BY DownParent DEF Path, Name, Down
<1> QED
  BY <1>4, <1>5 DEF SlotOf, Stat

\* What creating a file does.
LEMMA CreateIs ==
  ASSUME NEW f, IsRecord(f), NEW p, NEW data
  PROVE  LET g == Do(f, Create(p, data))
         IN  /\ IsRecord(g) /\ g.vol = Put(f.vol, SlotOf(f, p), f.next) /\ g.next = f.next + 1
             /\ g.kind = Put(f.kind, f.next, "file") /\ g.data = Put(f.data, f.next, data)
<1>1. Do(f, Create(p, data)) = NewNode(f, p, "file", data)
  BY DEF Do, Create
<1> DEFINE made == [f EXCEPT !.vol = Put(@, SlotOf(f, p), f.next),
                             !.kind = Put(@, f.next, "file"),
                             !.data = Put(@, f.next, data),
                             !.ddata = Put(@, f.next, Blank),
                             !.dirty = @ \union {f.next},
                             !.next = @ + 1]
<1>2. /\ IsRecord(made) /\ made.vol = Put(f.vol, SlotOf(f, p), f.next) /\ made.next = f.next + 1
      /\ made.kind = Put(f.kind, f.next, "file") /\ made.data = Put(f.data, f.next, data)
  BY DEF IsRecord
<1>3. NewNode(f, p, "file", data) = Record(made, Op(NoSlot, SlotOf(f, p), f.next, FALSE))
  BY DEF NewNode
<1> HIDE DEF made
<1>4. ASSUME NEW op
      PROVE  /\ IsRecord(Record(made, op)) /\ Record(made, op).vol = made.vol
             /\ Record(made, op).next = made.next /\ Record(made, op).kind = made.kind
             /\ Record(made, op).data = made.data
  BY Zenon, <1>2 DEF IsRecord, Record
<1> QED
  BY <1>1, <1>2, <1>3, <1>4

\* A new entry in the zone, or the entry .fstx itself: the zone is one inode larger.
LEMMA InsideKeeps ==
  ASSUME NEW f, NEW Z, IsOpen(f, Z), NEW d \in Nat, NEW c \in STRING, d < f.next,
         d \in Z \/ <<d, c>> = <<RootIno, PrivateDir>>,
         NEW g, IsRecord(g), g.vol = Put(f.vol, <<d, c>>, f.next), g.next = f.next + 1,
         NEW kind \in {"file", "dir"}, g.kind = Put(f.kind, f.next, kind),
         NEW data, g.data = Put(f.data, f.next, data)
  PROVE  IsOpen(g, Z \union {f.next})
<1> PICK slot : slot = <<d, c>>
  OBVIOUS
<1> DEFINE Y == Z \union {f.next}
<1>1. IsRecord(f) /\ Fresh(f) /\ IsZone(f.vol, Z) /\ (\A z \in Z : z \in Nat /\ z < f.next)
  BY DEF IsOpen
<1>4. /\ DOMAIN g.vol = DOMAIN f.vol \union {slot}
      /\ g.vol[slot] = f.next
      /\ \A s \in DOMAIN f.vol : s # slot => g.vol[s] = f.vol[s]
  BY DEF Put
<1>7. slot[1] = d /\ slot \in Nat \X STRING
  OBVIOUS
<1>8. f.next \in Nat /\ f.next # RootIno /\ f.next # NoIno /\ f.next > RootIno
  BY <1>1 DEF Fresh, RootIno, NoIno
<1>9. IsNode(g, f.next) /\ \A i : IsNode(f, i) /\ i # f.next => IsNode(g, i)
  BY DEF IsNode, Put
<1>10. \A s \in DOMAIN f.vol : /\ f.vol[s] \in Nat /\ f.vol[s] < f.next /\ f.vol[s] # NoIno
                               /\ IsNode(f, f.vol[s])
                               /\ s[1] \in Nat /\ s[1] < f.next /\ s[1] # NoIno
  BY <1>1 DEF Fresh, IsZone, IsImage
<1>11. IsImage(g.vol)
  BY <1>1, <1>4, <1>7 DEF IsZone, IsImage
<1>12. IsZone(g.vol, Y)
  <2>1. RootIno \notin Y /\ NoIno \notin Y
    BY <1>1, <1>8 DEF IsZone
  <2> SUFFICES ASSUME NEW s \in DOMAIN g.vol
               PROVE  g.vol[s] # RootIno /\ (g.vol[s] \in Y <=> s[1] \in Y \/ s = <<RootIno, PrivateDir>>)
    BY <1>11, <2>1 DEF IsZone
  <2>2. CASE s = slot
    BY <1>4, <1>7, <1>8, <2>2
  <2>3. CASE s # slot
    <3>1. s \in DOMAIN f.vol /\ g.vol[s] = f.vol[s]
      BY <1>4, <2>3
    <3>2. f.vol[s] # f.next /\ s[1] # f.next
      BY <1>8, <1>10, <3>1
    <3>3. f.vol[s] # RootIno /\ (f.vol[s] \in Z <=> s[1] \in Z \/ s = <<RootIno, PrivateDir>>)
      BY <1>1, <3>1 DEF IsZone
    <3> QED
      BY <3>1, <3>2, <3>3
  <2> QED
    BY <2>2, <2>3
<1>13. Fresh(g)
  <2>0. d # NoIno
    BY <1>1 DEF IsZone, RootIno, NoIno
  <2> SUFFICES ASSUME NEW s \in DOMAIN g.vol
               PROVE  /\ g.vol[s] \in Nat /\ g.vol[s] < g.next /\ g.vol[s] # NoIno /\ IsNode(g, g.vol[s])
                      /\ s[1] < g.next /\ s[1] # NoIno
    BY <1>1, <1>8, <1>9 DEF Fresh, RootIno
  <2>1. CASE s = slot
    BY <1>4, <1>7, <1>8, <1>9, <2>0, <2>1
  <2>2. CASE s # slot
    BY <1>4, <1>8, <1>9, <1>10, <2>2
  <2> QED
    BY <2>1, <2>2
<1> QED
  BY <1>1, <1>8, <1>12, <1>13 DEF IsOpen

\* The path of what is written there.
InStaged(c) == Append(Append(Tx, "staged"), c)

\* What is there under a name.
LEMMA StagedStat ==
  ASSUME NEW f, NEW a, NEW b, NEW d,
         <<RootIno, PrivateDir>> \in DOMAIN f.vol, f.vol[<<RootIno, PrivateDir>>] = a,
         <<a, "tx">> \in DOMAIN f.vol, f.vol[<<a, "tx">>] = b,
         <<b, "staged">> \in DOMAIN f.vol, f.vol[<<b, "staged">>] = d,
         NEW c \in STRING
  PROVE  Stat(f, InStaged(c)) = Step(f.vol, d, c)
<1> PICK tx \in Seq(STRING) : tx = Tx
  BY TxPaths
<1>1. "staged" \in STRING
  BY NamesAssumption
<1>2. \A x \in STRING : Append(tx, x) \in Seq(STRING)
  OBVIOUS
<1>3. Append(tx, "staged") \in Seq(STRING)
  BY <1>1, <1>2, Zenon
<1> PICK q \in Seq(STRING) : q = Append(tx, "staged")
  BY <1>3
<1>4. Parent(Append(q, c)) = q
  BY DownParent DEF Path, Name, Down
<1>5. SlotOf(f, Append(q, c)) = <<d, c>>
  BY StagedSlot
<1>6. InoAt(f.vol, q) = d
  BY <1>4, <1>5 DEF SlotOf, Stat
<1>a. \A r \in Seq(STRING), x \in STRING : InoAt(f.vol, Append(r, x)) = Step(f.vol, InoAt(f.vol, r), x)
  BY InoAtNext
<1>7. InoAt(f.vol, Append(q, c)) = Step(f.vol, InoAt(f.vol, q), c)
  BY <1>a
<1> QED
  BY <1>6, <1>7 DEF Stat, InStaged

\* One inode more in the directory of the blobs: everything else is what it was.
HasBlob(f, g, Z, c, data) ==
  /\ IsOpen(g, Z \union {f.next}) /\ StagedAt(g, Z \union {f.next})
  /\ SameOutside(f.vol, g.vol, Z)
  /\ \A i : IsNode(f, i) /\ i # f.next => g.kind[i] = f.kind[i] /\ g.data[i] = f.data[i]
  /\ Stat(g, InStaged(c)) = f.next /\ g.data[f.next] = data
  /\ \A x \in STRING : x # c => Stat(g, InStaged(x)) = Stat(f, InStaged(x))

\* That is what writing a blob does.
LEMMA BlobIs ==
  ASSUME NEW f, NEW Z, IsOpen(f, Z), StagedAt(f, Z), NEW c \in STRING, NEW data
  PROVE  HasBlob(f, Do(f, Create(InStaged(c), data)), Z, c, data)
<1> PICK g : g = Do(f, Create(InStaged(c), data))
  BY Zenon
<1> PICK a \in Z, b \in Z, d \in Z :
      /\ d # a /\ d # b
      /\ <<RootIno, PrivateDir>> \in DOMAIN f.vol /\ f.vol[<<RootIno, PrivateDir>>] = a
      /\ <<a, "tx">> \in DOMAIN f.vol /\ f.vol[<<a, "tx">>] = b
      /\ <<b, "staged">> \in DOMAIN f.vol /\ f.vol[<<b, "staged">>] = d
  BY DEF StagedAt
<1> PICK slot : slot = <<d, c>>
  OBVIOUS
<1>1. IsRecord(f) /\ Fresh(f) /\ IsZone(f.vol, Z) /\ (\A z \in Z : z \in Nat /\ z < f.next)
  BY DEF IsOpen
<1>2. SlotOf(f, InStaged(c)) = slot
  BY StagedSlot DEF InStaged
<1>3. /\ IsRecord(g) /\ g.vol = Put(f.vol, slot, f.next) /\ g.next = f.next + 1
      /\ g.kind = Put(f.kind, f.next, "file") /\ g.data = Put(f.data, f.next, data)
  BY <1>1, <1>2, CreateIs
<1>4. /\ DOMAIN g.vol = DOMAIN f.vol \union {slot} /\ g.vol[slot] = f.next
      /\ \A s \in DOMAIN f.vol : s # slot => g.vol[s] = f.vol[s]
  BY <1>3 DEF Put
<1>5. \A i : IsNode(f, i) /\ i # f.next => g.kind[i] = f.kind[i] /\ g.data[i] = f.data[i]
  BY <1>3 DEF Put, IsNode
<1>6. g.data[f.next] = data
  BY <1>3 DEF Put
<1>7. d # RootIno /\ d \in Nat /\ d < f.next
  BY <1>1 DEF IsZone
<1>8. slot # <<RootIno, PrivateDir>> /\ slot # <<a, "tx">> /\ slot # <<b, "staged">>
  BY <1>7
<1>9. IsOpen(g, Z \union {f.next})
  BY <1>3, <1>7, InsideKeeps
<1>10. StagedAt(g, Z \union {f.next})
  BY <1>4, <1>8 DEF StagedAt
<1>11. SameOutside(f.vol, g.vol, Z)
  <2> SUFFICES ASSUME NEW e, NEW x, e \notin Z
               PROVE  /\ <<e, x>> \in DOMAIN f.vol <=> <<e, x>> \in DOMAIN g.vol
                      /\ <<e, x>> \in DOMAIN f.vol => f.vol[<<e, x>>] = g.vol[<<e, x>>]
    BY DEF SameOutside
  <2>1. <<e, x>> # slot
    OBVIOUS
  <2> QED
    BY <1>4, <2>1
<1>12. /\ <<RootIno, PrivateDir>> \in DOMAIN g.vol /\ g.vol[<<RootIno, PrivateDir>>] = a
       /\ <<a, "tx">> \in DOMAIN g.vol /\ g.vol[<<a, "tx">>] = b
       /\ <<b, "staged">> \in DOMAIN g.vol /\ g.vol[<<b, "staged">>] = d
  BY <1>4, <1>8
<1>13. ASSUME NEW x \in STRING
       PROVE  /\ Stat(f, InStaged(x)) = Step(f.vol, d, x)
              /\ Stat(g, InStaged(x)) = Step(g.vol, d, x)
  BY <1>12, StagedStat
<1>14. Step(g.vol, d, c) = f.next
  BY <1>4 DEF Step
<1>15. ASSUME NEW x \in STRING, x # c PROVE Step(g.vol, d, x) = Step(f.vol, d, x)
  <2>1. <<d, x>> # slot
    BY <1>15
  <2> QED
    BY <1>4, <2>1 DEF Step
<1>16. HasBlob(f, g, Z, c, data)
  BY <1>5, <1>6, <1>9, <1>10, <1>11, <1>13, <1>14, <1>15 DEF HasBlob
<1> QED
  BY <1>16

\* A blob changes nothing that a caller sees of the tree, and leaves the transaction directory in
\* order.
LEMMA BlobKeeps ==
  ASSUME NEW f, Open(f), NEW c \in STRING, NEW data
  PROVE  LET g == Do(f, Create(InStaged(c), data)) IN Open(g) /\ TreeOf(g) = TreeOf(f)
<1> PICK Z : IsOpen(f, Z) /\ StagedAt(f, Z)
  BY DEF Open
<1>0. HasBlob(f, Do(f, Create(InStaged(c), data)), Z, c, data)
  BY BlobIs
<1> PICK g : g = Do(f, Create(InStaged(c), data)) /\ HasBlob(f, g, Z, c, data)
  BY <1>0
<1>1. /\ IsOpen(g, Z \union {f.next}) /\ StagedAt(g, Z \union {f.next}) /\ SameOutside(f.vol, g.vol, Z)
      /\ \A i : IsNode(f, i) /\ i # f.next => g.kind[i] = f.kind[i] /\ g.data[i] = f.data[i]
  BY DEF HasBlob
<1>2. \A s \in DOMAIN f.vol : IsNode(f, f.vol[s]) /\ f.vol[s] # f.next
  BY DEF IsOpen, Fresh
<1>3. IsZone(f.vol, Z) /\ IsImage(g.vol)
  BY <1>1 DEF IsOpen, IsZone
<1>4. TreeOf(g) = TreeOf(f)
  BY <1>1, <1>2, <1>3, SameTree
<1> QED
  BY <1>1, <1>4 DEF Open

-----------------------------------------------------------------------------
(* Another program edits the tree. *)

\* A file is written in place: no entry changes.
LEMMA EditKeeps ==
  ASSUME NEW f, Open(f), NEW i, NEW d, NEW e
  PROVE  Open([f EXCEPT !.data[i] = d, !.ddata[i] = e])
<1> PICK g : g = [f EXCEPT !.data[i] = d, !.ddata[i] = e]
  OBVIOUS
<1> PICK Z : IsOpen(f, Z) /\ StagedAt(f, Z)
  BY DEF Open
<1>1. IsRecord(f)
  BY DEF IsOpen
<1>2. /\ IsRecord(g) /\ g.vol = f.vol /\ g.next = f.next /\ g.kind = f.kind
      /\ g.data = [f.data EXCEPT ![i] = d]
  BY <1>1 DEF IsRecord
<1>3. DOMAIN g.data = DOMAIN f.data
  BY <1>2
<1>4. IsOpen(g, Z) /\ StagedAt(g, Z)
  BY <1>2, <1>3 DEF IsOpen, Fresh, IsNode, StagedAt
<1> QED
  BY <1>4 DEF Open

\* A file is saved: a new one takes its place.
LEMMA SaveKeeps ==
  ASSUME NEW f, Open(f), NEW p \in Seq(STRING), UserPath(p), IsDir(f, Parent(p)), NEW t
  PROVE  Open(PutItem(f, AFile(p, t)))
<1>1. IsItem(f, AFile(p, t))
  BY DEF IsItem, AFile
<1> QED
  BY <1>1, PutItemKeeps DEF Open

-----------------------------------------------------------------------------
(* The file system begin leaves. *)

\* The items are put one after the other.
PutNext(x, f, it) == PutItem(f, it)
NoItems(x) == EmptyFs

Building == INSTANCE FoldLemmas WITH Op <- PutNext, Base <- NoItems

\* A tree is built by the fold of FoldLemmas.
LEMMA FsWithIsFold ==
  ASSUME NEW items
  PROVE  FsWith(items) = Building!Fold(0, items)
BY DEF FsWith, PutNext, NoItems, Building!Fold, FoldLeft, MapThenFoldSet,
       Building!MapThenFoldSet, Max, Building!Largest

\* A tree of no items is empty.
LEMMA FsWithNothing == FsWith(<<>>) = EmptyFs
BY FsWithIsFold, Building!FoldEmpty, Least DEF Building!WellOrdered, NoItems

\* A tree of one item more.
LEMMA FsWithOneMore ==
  ASSUME NEW S, NEW s \in Seq(S), NEW it \in S
  PROVE  FsWith(Append(s, it)) = PutItem(FsWith(s), it)
BY FsWithIsFold, Building!FoldAppend, Least DEF Building!WellOrdered, PutNext

\* What an inode more does.
Adds(f, g, Z, slot) ==
  /\ IsOpen(g, Z \union {f.next}) /\ f.next \notin Z
  /\ DOMAIN g.vol = DOMAIN f.vol \union {slot} /\ g.vol[slot] = f.next
  /\ \A s \in DOMAIN f.vol : s # slot => g.vol[s] = f.vol[s]

\* And the fields it changes.
Makes(f, g, slot, kind, data) ==
  /\ IsRecord(g) /\ g.vol = Put(f.vol, slot, f.next) /\ g.next = f.next + 1
  /\ g.kind = Put(f.kind, f.next, kind) /\ g.data = Put(f.data, f.next, data)

\* What PutItem does with an item that is not a link.
LEMMA PutNewIs ==
  ASSUME NEW f, IsRecord(f), NEW it, it.link = Root
  PROVE  Makes(f, PutItem(f, it), SlotOf(f, it.path), it.kind, Text(it.text))
BY PutItemIs DEF Makes

\* A directory put where there is nothing.
LEMMA PutDirIs ==
  ASSUME NEW f, NEW Z, IsOpen(f, Z), NEW q \in Seq(STRING), NEW c \in STRING,
         NEW d \in Nat, Stat(f, q) = d, d < f.next,
         d \in Z \/ <<d, c>> = <<RootIno, PrivateDir>>
  PROVE  Adds(f, PutItem(f, ADir(Append(q, c))), Z, <<d, c>>)
<1>1. IsRecord(f)
  BY DEF IsOpen
<1>2. SlotOf(f, Append(q, c)) = <<d, c>>
  BY DownParent DEF SlotOf, Path, Name, Down
<1>3. /\ ADir(Append(q, c)).path = Append(q, c) /\ ADir(Append(q, c)).link = Root
      /\ ADir(Append(q, c)).kind = "dir"
  BY DEF ADir
<1>4. \E data : Makes(f, PutItem(f, ADir(Append(q, c))), <<d, c>>, "dir", data)
  BY <1>1, <1>2, <1>3, PutNewIs
<1> PICK g : g = PutItem(f, ADir(Append(q, c)))
  OBVIOUS
<1> PICK data : Makes(f, g, <<d, c>>, "dir", data)
  BY <1>4
<1>5. IsOpen(g, Z \union {f.next})
  BY InsideKeeps DEF Makes
<1>6. f.next \notin Z
  BY DEF IsOpen
<1> PICK slot : slot = <<d, c>>
  OBVIOUS
<1>7. DOMAIN g.vol = DOMAIN f.vol \union {slot} /\ g.vol[slot] = f.next
  BY DEF Put, Makes
<1>8. \A s \in DOMAIN f.vol : s # slot => g.vol[s] = f.vol[s]
  BY DEF Put, Makes
<1>9. Adds(f, g, Z, slot)
  BY <1>5, <1>6, <1>7, <1>8 DEF Adds
<1> QED
  BY <1>9

\* In the empty file system nothing has been given to .fstx.
LEMMA EmptyIsOpen == IsOpen(EmptyFs, {}) /\ EmptyFs.next = 2
<1> PICK f : f = EmptyFs
  OBVIOUS
<1>1. f.vol = <<>> /\ f.next = 2
  BY DEF EmptyFs, RootIno
<1>2. DOMAIN f.vol = {}
  BY <1>1
<1>3. IsRecord(f)
  BY DEF EmptyFs, IsRecord
<1>4. Fresh(f)
  <2>1. IsNode(f, RootIno)
    BY DEF EmptyFs, IsNode
  <2> QED
    BY <1>1, <1>2, <2>1 DEF Fresh, RootIno
<1>5. IsZone(f.vol, {})
  BY <1>2 DEF IsZone, IsImage
<1> QED
  BY <1>1, <1>3, <1>4, <1>5 DEF IsOpen

\* They are put one after the other ...
LEMMA TxDirFold ==
  ASSUME NEW S, ADir(<<PrivateDir>>) \in S, ADir(Tx) \in S, ADir(Append(Tx, "staged")) \in S,
         ADir(Append(Tx, "backup")) \in S
  PROVE  /\ TxDir \in Seq(S)
         /\ FsWith(TxDir) =
              PutItem(PutItem(PutItem(PutItem(EmptyFs, ADir(<<PrivateDir>>)), ADir(Tx)),
                              ADir(Append(Tx, "staged"))), ADir(Append(Tx, "backup")))
<1> PICK i1 \in S : i1 = ADir(<<PrivateDir>>)
  OBVIOUS
<1> PICK i2 \in S : i2 = ADir(Tx)
  OBVIOUS
<1> PICK i3 \in S : i3 = ADir(Append(Tx, "staged"))
  OBVIOUS
<1> PICK i4 \in S : i4 = ADir(Append(Tx, "backup"))
  OBVIOUS
<1>1. TxDir = <<i1, i2, i3, i4>>
  BY DEF TxDir
<1>2. <<i1>> = Append(<<>>, i1) /\ <<i1, i2>> = Append(<<i1>>, i2)
  OBVIOUS
<1>3. <<i1, i2, i3>> = Append(<<i1, i2>>, i3)
  OBVIOUS
<1>4. <<i1, i2, i3, i4>> = Append(<<i1, i2, i3>>, i4)
  OBVIOUS
<1>5. <<>> \in Seq(S) /\ <<i1>> \in Seq(S) /\ <<i1, i2>> \in Seq(S) /\ <<i1, i2, i3>> \in Seq(S)
  OBVIOUS
<1>6. <<i1, i2, i3, i4>> \in Seq(S)
  OBVIOUS
<1>7. FsWith(<<i1>>) = PutItem(EmptyFs, i1)
  BY <1>2, <1>5, FsWithNothing, FsWithOneMore
<1>8. FsWith(<<i1, i2>>) = PutItem(PutItem(EmptyFs, i1), i2)
  BY <1>2, <1>5, <1>7, FsWithOneMore
<1>9. FsWith(<<i1, i2, i3>>) = PutItem(PutItem(PutItem(EmptyFs, i1), i2), i3)
  BY <1>3, <1>5, <1>8, FsWithOneMore
<1>10. FsWith(<<i1, i2, i3, i4>>) = PutItem(PutItem(PutItem(PutItem(EmptyFs, i1), i2), i3), i4)
  <2>1. FsWith(Append(<<i1, i2, i3>>, i4)) = PutItem(FsWith(<<i1, i2, i3>>), i4)
    BY <1>5, FsWithOneMore
  <2> QED
    BY <1>4, <1>9, <2>1
<1> QED
  BY <1>1, <1>6, <1>10

\* ... and make an open transaction: .fstx ...
LEMMA FirstDir ==
  LET g == PutItem(EmptyFs, ADir(<<PrivateDir>>))
  IN  \E Z : \E a \in Z : IsOpen(g, Z) /\ <<RootIno, PrivateDir>> \in DOMAIN g.vol
                                      /\ g.vol[<<RootIno, PrivateDir>>] = a
<1>1. IsOpen(EmptyFs, {}) /\ Stat(EmptyFs, <<>>) = RootIno
  BY EmptyIsOpen, InoAtRoot DEF Stat
<1>2. RootIno \in Nat /\ RootIno < EmptyFs.next
  BY EmptyIsOpen DEF RootIno
<1>3. Adds(EmptyFs, PutItem(EmptyFs, ADir(Append(<<>>, PrivateDir))), {}, <<RootIno, PrivateDir>>)
  BY <1>1, <1>2, NamesAssumption, TxPaths, PutDirIs
<1>4. Adds(EmptyFs, PutItem(EmptyFs, ADir(<<PrivateDir>>)), {}, <<RootIno, PrivateDir>>)
  BY <1>3, TxPaths, Zenon
<1> PICK g : g = PutItem(EmptyFs, ADir(<<PrivateDir>>))
  OBVIOUS
<1>5. Adds(EmptyFs, g, {}, <<RootIno, PrivateDir>>)
  BY <1>4
<1> QED
  BY <1>5 DEF Adds

\* ... the directory in it ...
LEMMA SecondDir ==
  ASSUME NEW f, NEW Z, NEW a \in Z, IsOpen(f, Z), <<RootIno, PrivateDir>> \in DOMAIN f.vol,
         f.vol[<<RootIno, PrivateDir>>] = a
  PROVE  LET g == PutItem(f, ADir(Tx))
         IN  \E Y : \E b \in Y :
               /\ IsOpen(g, Y) /\ a \in Y
               /\ <<RootIno, PrivateDir>> \in DOMAIN g.vol /\ g.vol[<<RootIno, PrivateDir>>] = a
               /\ <<a, "tx">> \in DOMAIN g.vol /\ g.vol[<<a, "tx">>] = b
<1>1. Stat(f, <<PrivateDir>>) = a
  BY TxAt
<1>2. a \in Nat /\ a < f.next /\ a # RootIno
  BY DEF IsOpen, IsZone
<1>3. Adds(f, PutItem(f, ADir(Append(<<PrivateDir>>, "tx"))), Z, <<a, "tx">>)
  BY <1>1, <1>2, NamesAssumption, TxPaths, PutDirIs
<1>4. Adds(f, PutItem(f, ADir(Tx)), Z, <<a, "tx">>)
  BY <1>3, TxPaths, Zenon
<1> PICK g : g = PutItem(f, ADir(Tx)) /\ Adds(f, g, Z, <<a, "tx">>)
  BY <1>4
<1>5. <<RootIno, PrivateDir>> # <<a, "tx">>
  BY <1>2
<1>6. g.vol[<<RootIno, PrivateDir>>] = a
  BY <1>5 DEF Adds
<1>7. IsOpen(g, Z \union {f.next}) /\ f.next \in Z \union {f.next} /\ a \in Z \union {f.next}
  BY DEF Adds
<1>8. /\ <<RootIno, PrivateDir>> \in DOMAIN g.vol /\ <<a, "tx">> \in DOMAIN g.vol
      /\ g.vol[<<a, "tx">>] = f.next
  BY DEF Adds
<1> QED
  BY <1>6, <1>7, <1>8

\* ... that of the blobs ...
LEMMA ThirdDir ==
  ASSUME NEW f, NEW Z, NEW a \in Z, NEW b \in Z, IsOpen(f, Z),
         <<RootIno, PrivateDir>> \in DOMAIN f.vol, f.vol[<<RootIno, PrivateDir>>] = a,
         <<a, "tx">> \in DOMAIN f.vol, f.vol[<<a, "tx">>] = b
  PROVE  \E Y : LET g == PutItem(f, ADir(Append(Tx, "staged"))) IN IsOpen(g, Y) /\ StagedAt(g, Y)
<1>1. Stat(f, Tx) = b
  BY TxAt
<1>2. b \in Nat /\ b < f.next /\ b # RootIno
  BY DEF IsOpen, IsZone
<1>3. Adds(f, PutItem(f, ADir(Append(Tx, "staged"))), Z, <<b, "staged">>)
  BY <1>1, <1>2, NamesAssumption, TxPaths, PutDirIs
<1> PICK g : g = PutItem(f, ADir(Append(Tx, "staged"))) /\ Adds(f, g, Z, <<b, "staged">>)
  BY <1>3
<1>4. <<RootIno, PrivateDir>> # <<b, "staged">> /\ <<a, "tx">> # <<b, "staged">>
  BY <1>2
<1>5. g.vol[<<RootIno, PrivateDir>>] = a /\ g.vol[<<a, "tx">>] = b /\ g.vol[<<b, "staged">>] = f.next
  BY <1>4 DEF Adds
<1>6. /\ <<RootIno, PrivateDir>> \in DOMAIN g.vol /\ <<a, "tx">> \in DOMAIN g.vol
      /\ <<b, "staged">> \in DOMAIN g.vol
  BY DEF Adds
<1>7. f.next # a /\ f.next # b
  BY DEF Adds
<1>8. StagedAt(g, Z \union {f.next})
  BY <1>5, <1>6, <1>7 DEF StagedAt
<1>9. IsOpen(g, Z \union {f.next})
  BY DEF Adds
<1> QED
  BY <1>8, <1>9

\* ... and that of the backups.
LEMMA FourthDir ==
  ASSUME NEW f, NEW Z, IsOpen(f, Z), StagedAt(f, Z)
  PROVE  Open(PutItem(f, ADir(Append(Tx, "backup"))))
<1> PICK a \in Z, b \in Z, d \in Z :
      /\ d # a /\ d # b
      /\ <<RootIno, PrivateDir>> \in DOMAIN f.vol /\ f.vol[<<RootIno, PrivateDir>>] = a
      /\ <<a, "tx">> \in DOMAIN f.vol /\ f.vol[<<a, "tx">>] = b
      /\ <<b, "staged">> \in DOMAIN f.vol /\ f.vol[<<b, "staged">>] = d
  BY DEF StagedAt
<1>1. Stat(f, Tx) = b
  BY TxAt
<1>2. b \in Nat /\ b < f.next /\ b # RootIno
  BY DEF IsOpen, IsZone
<1>3. Adds(f, PutItem(f, ADir(Append(Tx, "backup"))), Z, <<b, "backup">>)
  BY <1>1, <1>2, NamesAssumption, TxPaths, PutDirIs
<1> PICK g : g = PutItem(f, ADir(Append(Tx, "backup"))) /\ Adds(f, g, Z, <<b, "backup">>)
  BY <1>3
<1>4. /\ <<RootIno, PrivateDir>> # <<b, "backup">> /\ <<a, "tx">> # <<b, "backup">>
      /\ <<b, "staged">> # <<b, "backup">>
  BY <1>2
<1>5. g.vol[<<RootIno, PrivateDir>>] = a /\ g.vol[<<a, "tx">>] = b /\ g.vol[<<b, "staged">>] = d
  BY <1>4 DEF Adds
<1>6. /\ <<RootIno, PrivateDir>> \in DOMAIN g.vol /\ <<a, "tx">> \in DOMAIN g.vol
      /\ <<b, "staged">> \in DOMAIN g.vol
  BY DEF Adds
<1>7. StagedAt(g, Z \union {f.next})
  BY <1>5, <1>6 DEF StagedAt
<1>8. IsOpen(g, Z \union {f.next})
  BY DEF Adds
<1> QED
  BY <1>7, <1>8 DEF Open

\* The four directories begin makes are where StagedAt looks for them.
LEMMA TxDirIsOpen == Open(FsWith(TxDir))
<1> PICK f1 : f1 = PutItem(EmptyFs, ADir(<<PrivateDir>>))
  OBVIOUS
<1> PICK f2 : f2 = PutItem(f1, ADir(Tx))
  OBVIOUS
<1> PICK f3 : f3 = PutItem(f2, ADir(Append(Tx, "staged")))
  OBVIOUS
<1>1. PICK Z : \E a \in Z : /\ IsOpen(f1, Z)
                            /\ <<RootIno, PrivateDir>> \in DOMAIN f1.vol
                            /\ f1.vol[<<RootIno, PrivateDir>>] = a
  BY FirstDir
<1> PICK a \in Z : /\ IsOpen(f1, Z)
                   /\ <<RootIno, PrivateDir>> \in DOMAIN f1.vol
                   /\ f1.vol[<<RootIno, PrivateDir>>] = a
  BY <1>1
<1>2. \E Y : \E b \in Y :
        /\ IsOpen(f2, Y) /\ a \in Y
        /\ <<RootIno, PrivateDir>> \in DOMAIN f2.vol /\ f2.vol[<<RootIno, PrivateDir>>] = a
        /\ <<a, "tx">> \in DOMAIN f2.vol /\ f2.vol[<<a, "tx">>] = b
  BY SecondDir
<1>3. \E Y : IsOpen(f3, Y) /\ StagedAt(f3, Y)
  BY <1>2, ThirdDir
<1>4. Open(PutItem(f3, ADir(Append(Tx, "backup"))))
  BY <1>3, FourthDir
<1> PICK S : S = {ADir(<<PrivateDir>>), ADir(Tx), ADir(Append(Tx, "staged")), ADir(Append(Tx, "backup"))}
  OBVIOUS
<1>5. FsWith(TxDir) = PutItem(f3, ADir(Append(Tx, "backup")))
  BY TxDirFold
<1> QED
  BY <1>4, <1>5

\* With the items of the tree put one after the other, the transaction is as begin leaves it.
LEMMA StartIsOpen == Open(FsWith(TxDir \o Items))
<1> DEFINE S == {ADir(<<PrivateDir>>), ADir(Tx), ADir(Append(Tx, "staged")),
                 ADir(Append(Tx, "backup"))} \union Range(Items)
           Upto(k) == FsWith(TxDir \o SubSeq(Items, 1, k))
           T == {k \in 0 .. Len(Items) : ~ Open(Upto(k))}
<1>1. TxDir \in Seq(S)
  <2>1. /\ ADir(<<PrivateDir>>) \in S /\ ADir(Tx) \in S /\ ADir(Append(Tx, "staged")) \in S
        /\ ADir(Append(Tx, "backup")) \in S
    OBVIOUS
  <2> QED
    BY <2>1, TxDirFold
<1>2. Items \in Seq(S)
  <2>1. Items \in Seq(Range(Items)) /\ Range(Items) \subseteq S
    BY TreeAssumption
  <2> HIDE DEF S
  <2> QED
    BY <2>1
<1> HIDE DEF S
<1>3. Open(Upto(0))
  <2>1. SubSeq(Items, 1, 0) = <<>>
    BY <1>2
  <2>2. TxDir \o <<>> = TxDir
    BY <1>1
  <2> QED
    BY <2>1, <2>2, TxDirIsOpen
<1>4. ASSUME NEW k \in Nat, k < Len(Items), Open(Upto(k)) PROVE Open(Upto(k + 1))
  <2>1. /\ SubSeq(Items, 1, k) \in Seq(S) /\ Items[k + 1] \in S /\ (k + 1) - 1 = k
        /\ SubSeq(Items, 1, k + 1) = Append(SubSeq(Items, 1, k), Items[k + 1])
    BY <1>2, <1>4, PrefixNext
  <2>2. /\ TxDir \o SubSeq(Items, 1, k + 1) = Append(TxDir \o SubSeq(Items, 1, k), Items[k + 1])
        /\ TxDir \o SubSeq(Items, 1, k) \in Seq(S)
    BY <1>1, <2>1, ConcatNext
  <2>3. Upto(k + 1) = PutItem(Upto(k), Items[k + 1])
    BY <2>1, <2>2, FsWithOneMore
  <2>4. IsItem(Upto(k), Items[k + 1])
    <3>1. k + 1 \in DOMAIN Items
      BY <1>2, <1>4
    <3>2. IsItem(FsWith(TxDir \o SubSeq(Items, 1, (k + 1) - 1)), Items[k + 1])
      BY <3>1, TreeAssumption
    <3> QED
      BY <2>1, <3>2
  <2> HIDE DEF Upto
  <2>5. Open(PutItem(Upto(k), Items[k + 1]))
    BY <1>4, <2>4, PutItemKeeps DEF Open
  <2> QED
    BY <2>3, <2>5
<1>5. T = {}
  <2> HIDE DEF Upto
  <2> SUFFICES ASSUME T # {} PROVE FALSE
    OBVIOUS
  <2>1. Len(Items) \in Nat
    BY <1>2
  <2>2. T \in SUBSET Nat
    BY <2>1
  <2>3. PICK k \in T : \A m \in T : k <= m
    BY <2>2, Least
  <2>4. k # 0
    BY <1>3, <2>3
  <2>5. k - 1 \in Nat /\ k - 1 < Len(Items) /\ (k - 1) + 1 = k /\ k - 1 \in 0 .. Len(Items)
    BY <2>1, <2>3, <2>4
  <2>6. Open(Upto(k - 1))
    BY <2>3, <2>5
  <2> QED
    BY <1>4, <2>3, <2>5, <2>6
<1>6. SubSeq(Items, 1, Len(Items)) = Items /\ Len(Items) \in 0 .. Len(Items)
  BY <1>2, WholePrefix
<1>7. Open(Upto(Len(Items)))
  BY <1>5, <1>6
<1> QED
  BY <1>6, <1>7

-----------------------------------------------------------------------------
(* What a blob does to what is shown. *)

\* What a path leads to was given out.
LEMMA StatIs ==
  ASSUME NEW f, NEW Z, IsOpen(f, Z), NEW p \in Path
  PROVE  Stat(f, p) = NoIno \/ (IsNode(f, Stat(f, p)) /\ Stat(f, p) # f.next)
<1>1. InoAt(f.vol, p) \in {RootIno, NoIno} \/ \E s \in DOMAIN f.vol : InoAt(f.vol, p) = f.vol[s]
  BY InoAtRange DEF Path, Name
<1> QED
  BY <1>1 DEF Stat, IsOpen, Fresh, RootIno

\* In the file system of an open transaction every entry is a file or a directory, and the names in a
\* directory are those under which something is found.
LEMMA OpenIsRegular ==
  ASSUME NEW f, NEW Z, IsOpen(f, Z)
  PROVE  Regular(f)
<1>1. ASSUME NEW b \in Path, BaseLookup(f, b) # NoEntry PROVE BaseLookup(f, b).kind \in {"file", "dir"}
  <2>1. Stat(f, b) # NoIno /\ BaseLookup(f, b) = Base(f.kind[Stat(f, b)], b, Stat(f, b))
    BY <1>1 DEF BaseLookup
  <2>2. BaseLookup(f, b).kind = f.kind[Stat(f, b)]
    BY <2>1 DEF Base, NoEntry
  <2> QED
    BY <2>1, <2>2, StatIs DEF IsNode
<1>2. ASSUME NEW b \in Path, NEW c
      PROVE  c \in Names(f, b) <=> c \in Name /\ Stat(f, Down(b, c)) # NoIno
  <2> PICK d : d = Stat(f, b)
    OBVIOUS
  <2>1. IsImage(f.vol) /\ \A s \in DOMAIN f.vol : f.vol[s] # NoIno
    BY DEF IsOpen, IsZone, Fresh
  <2>2. c \in Names(f, b) <=> \E s \in DOMAIN f.vol : s[1] = d /\ s[2] = c
    BY DEF Names
  <2>3. \A s \in DOMAIN f.vol : s = <<s[1], s[2]>> /\ s[2] \in Name
    BY <2>1 DEF IsImage, Name
  <2>4. c \in Names(f, b) <=> <<d, c>> \in DOMAIN f.vol
    <3>1. <<d, c>>[1] = d /\ <<d, c>>[2] = c
      OBVIOUS
    <3> QED
      BY <2>2, <2>3, <3>1
  <2>5. <<d, c>> \in DOMAIN f.vol => c \in Name
    <3>1. <<d, c>>[2] = c
      OBVIOUS
    <3> QED
      BY <2>3, <3>1
  <2>6. ASSUME c \in Name PROVE Stat(f, Down(b, c)) = Step(f.vol, d, c)
    BY <2>6, InoAtNext DEF Stat, Path, Name, Down
  <2>7. ASSUME c \in Name PROVE Stat(f, Down(b, c)) # NoIno <=> <<d, c>> \in DOMAIN f.vol
    BY <2>1, <2>6, <2>7 DEF Step
  <2> QED
    BY <2>4, <2>5, <2>7
<1> QED
  BY <1>1, <1>2 DEF Regular

\* The base is what it was, and so is what its files hold.
LEMMA SameBase ==
  ASSUME NEW f, NEW Z, IsOpen(f, Z), NEW g, NEW c, NEW data, HasBlob(f, g, Z, c, data),
         NEW b \in Path
  PROVE  /\ BaseLookup(g, b) = BaseLookup(f, b)
         /\ BaseLookup(f, b) # NoEntry => g.data[BaseLookup(f, b).id] = f.data[BaseLookup(f, b).id]
<1>1. CASE IsPrivate(b)
  BY <1>1 DEF BaseLookup
<1>2. CASE ~ IsPrivate(b)
  <2>1. IsZone(f.vol, Z) /\ SameOutside(f.vol, g.vol, Z)
    BY DEF IsOpen, HasBlob
  <2>2. InoAt(g.vol, b) = InoAt(f.vol, b)
    BY <1>2, <2>1, SamePaths DEF Path, Name
  <2>3. Stat(g, b) = Stat(f, b)
    BY <2>2 DEF Stat
  <2>4. CASE Stat(f, b) = NoIno
    BY <2>3, <2>4 DEF BaseLookup
  <2>5. CASE Stat(f, b) # NoIno
    <3>1. IsNode(f, Stat(f, b)) /\ Stat(f, b) # f.next
      BY <2>5, StatIs
    <3>2. g.kind[Stat(f, b)] = f.kind[Stat(f, b)] /\ g.data[Stat(f, b)] = f.data[Stat(f, b)]
      BY <3>1 DEF HasBlob
    <3>3. /\ BaseLookup(f, b) = Base(f.kind[Stat(f, b)], b, Stat(f, b))
          /\ BaseLookup(g, b) = Base(f.kind[Stat(f, b)], b, Stat(f, b))
      BY <1>2, <2>3, <2>5, <3>2 DEF BaseLookup
    <3>4. Base(f.kind[Stat(f, b)], b, Stat(f, b)).id = Stat(f, b)
      BY DEF Base, NoEntry
    <3> QED
      BY <3>2, <3>3, <3>4
  <2> QED
    BY <2>4, <2>5
<1> QED
  BY <1>1, <1>2

\* If the base is the same, the same is shown.
LEMMA SameShown ==
  ASSUME NEW f, NEW o, Sound(f, o), NEW g, \A b \in Path : BaseLookup(g, b) = BaseLookup(f, b),
         NEW p \in Path
  PROVE  Resolve(g, o, p) = Resolve(f, o, p)
<1> DEFINE T == {x \in Path : Resolve(g, o, x) = Resolve(f, o, x)}
<1>1. Resolve(g, o, <<>>) = Resolve(f, o, <<>>)
  BY ResolveRoot
<1>2. ASSUME NEW q \in Path, Resolve(g, o, q) = Resolve(f, o, q), NEW c \in Name
      PROVE  Resolve(g, o, Down(q, c)) = Resolve(f, o, Down(q, c))
  <2> PICK e : e = Resolve(f, o, q)
    OBVIOUS
  <2>1. e.from = "base" => e.origin \in Path
    <3>1. e.from = "base" => IsBase(f, e) \/ e = TopEntry
      BY ShownIs
    <3>2. TopEntry.origin = <<>> /\ <<>> \in Path
      BY PathFacts DEF TopEntry, Base, NoEntry, Root
    <3> QED
      BY <3>1, <3>2 DEF IsBase
  <2>2. e.from = "base" => Down(e.origin, c) \in Path
    BY <2>1, DownPath
  <2>3. Kept(g, o, e, c) = Kept(f, o, e, c)
    BY <2>2 DEF Kept
  <2>4. Child(g, o, e, Down(q, c), c) = Child(f, o, e, Down(q, c), c)
    BY <2>3 DEF Child
  <2> QED
    BY <1>2, <2>4, ResolveNext
<1>3. T = Path
  <2>1. T \in SUBSET Path
    OBVIOUS
  <2>2. <<>> \in T /\ \A x \in T : \A c \in Name : Down(x, c) \in T
    BY <1>1, <1>2, PathFacts
  <2> HIDE DEF T
  <2> QED
    BY <2>1, <2>2, PathInduction
<1> QED
  BY <1>3

\* And the overlay keeps its shape.
LEMMA SameSound ==
  ASSUME NEW f, NEW o, Sound(f, o), NEW g, Regular(g), \A b \in Path : BaseLookup(g,
         b) = BaseLookup(f, b)
  PROVE  Sound(g, o)
<1>1. ASSUME NEW k \in DOMAIN o.placed
      PROVE  /\ UserPath(k) /\ Resolve(g, o, Parent(k)).kind = "dir"
             /\ o.placed[k].from = "base" => o.placed[k].origin \in Path
  <2>1. k \in Path /\ UserPath(k) /\ Resolve(f, o, Parent(k)).kind = "dir"
    BY DEF Sound, InShape
  <2>2. Parent(k) \in Path
    BY <2>1, UserIs
  <2>3. Resolve(g, o, Parent(k)) = Resolve(f, o, Parent(k))
    BY <2>2, SameShown
  <2> QED
    BY <2>1, <2>3 DEF Sound
<1>2. ASSUME NEW k \in Wanderers(o)
      PROVE  o.placed[k] = BaseLookup(g, o.placed[k].origin)
  <2>1. k \in DOMAIN o.placed /\ o.placed[k].from = "base"
    BY DEF Wanderers
  <2>2. o.placed[k].origin \in Path
    BY <1>1, <2>1
  <2>3. o.placed[k] = BaseLookup(f, o.placed[k].origin)
    BY DEF Sound, InShape
  <2> QED
    BY <2>2, <2>3
<1>3. InShape(g, o)
  <2>1. \A k \in Wanderers(o) :
          /\ o.placed[k].origin \in DOMAIN o.detached /\ UserPath(o.placed[k].origin)
          /\ \A q \in Wanderers(o) : o.placed[q].origin = o.placed[k].origin => q = k
    BY DEF Sound, InShape
  <2> QED
    BY <1>1, <1>2, <2>1 DEF InShape
<1> QED
  BY <1>3 DEF Sound

-----------------------------------------------------------------------------
(* The blobs. *)

\* Every blob that is shown is one of the first n.
BlobsShown(f, o, n) ==
  \A p \in Path : Resolve(f, o, p).from = "blob" => \E m \in 0 .. n - 1 : Resolve(f, o, p) = Blob(m)

\* And all of them are in the directory of the blobs.
BlobsKept(f, n) == \A m \in 0 .. n - 1 : Stat(f, InStaged(StagedName(Blob(m)))) # NoIno

\* The directory of the blobs, as a path.
LEMMA InStagedPath ==
  ASSUME NEW c \in STRING
  PROVE  InStaged(c) \in Path
<1>1. Tx \in Path /\ "staged" \in Name /\ c \in Name
  BY TxPaths, NamesAssumption DEF Path, Name
<1>2. InStaged(c) = Down(Down(Tx, "staged"), c)
  BY DEF InStaged, Down
<1> QED
  BY <1>1, <1>2, DownPath

\* What is shown reads as before, once another blob is written.
LEMMA SameNode ==
  ASSUME NEW f, NEW Z, IsOpen(f, Z), NEW o, Sound(f, o),
         NEW n \in Nat, n <= MaxOps, BlobsShown(f, o, n), BlobsKept(f, n),
         NEW g, NEW data, HasBlob(f, g, Z, StagedName(Blob(n)), data),
         NEW p \in Shown(f, o)
  PROVE  Node(g, Resolve(f, o, p)) = Node(f, Resolve(f, o, p))
<1> PICK e : e = Resolve(f, o, p)
  OBVIOUS
<1>0. p \in Path /\ p # <<>>
  BY DEF Shown
<1>1. CASE e.from = "base"
  <2>1. IsBase(f, e)
    BY <1>0, <1>1, ShownIs
  <2>2. BaseLookup(f, e.origin) # NoEntry
    BY <1>1, <2>1, BaseIs DEF IsBase
  <2>3. g.data[e.id] = f.data[e.id]
    BY <2>1, <2>2, SameBase DEF IsBase
  <2>4. ReadText(g, e) = ReadText(f, e)
    BY <1>1, <2>3 DEF ReadText
  <2> QED
    BY <2>4 DEF Node
<1>2. CASE e.from = "blob"
  <2>1. PICK m \in 0 .. n - 1 : e = Blob(m)
    BY <1>0, <1>2 DEF BlobsShown
  <2>2. m \in 0 .. MaxOps /\ n \in 0 .. MaxOps /\ m # n
    BY StagingAssumption
  <2>3. StagedName(Blob(m)) \in STRING /\ StagedName(Blob(m)) # StagedName(Blob(n))
    BY <2>2, NamesAssumption
  <2> PICK q \in Path : q = InStaged(StagedName(Blob(m)))
    BY <2>3, InStagedPath
  <2>4. Stat(g, q) = Stat(f, q)
    BY <2>3 DEF HasBlob
  <2>5. Stat(f, q) # NoIno
    BY DEF BlobsKept
  <2>6. g.data[Stat(f, q)] = f.data[Stat(f, q)]
    BY <2>5, StatIs DEF HasBlob
  <2>7. StagedPath(Tx, e) = q
    BY <2>1 DEF StagedPath, InStaged
  <2>8. ReadText(g, e) = ReadText(f, e)
    BY <1>2, <2>4, <2>6, <2>7 DEF ReadText
  <2> QED
    BY <2>8 DEF Node
<1>3. CASE e.from \notin {"base", "blob"}
  <2>1. ReadText(g, e) = ReadText(f, e)
    BY Zenon, <1>3 DEF ReadText
  <2> QED
    BY <2>1 DEF Node
<1> QED
  BY <1>1, <1>2, <1>3

\* So the tree is the same, until the blob is placed.
LEMMA BlobTree ==
  ASSUME NEW f, NEW Z, IsOpen(f, Z), NEW o, Sound(f, o),
         NEW n \in Nat, n <= MaxOps, BlobsShown(f, o, n), BlobsKept(f, n),
         NEW g, NEW data, HasBlob(f, g, Z, StagedName(Blob(n)), data)
  PROVE  /\ \A p \in Path : Resolve(g, o, p) = Resolve(f, o, p)
         /\ Sound(g, o) /\ Tree(g, o) = Tree(f, o)
<1>1. \A b \in Path : BaseLookup(g, b) = BaseLookup(f, b)
  BY SameBase
<1>2. \A p \in Path : Resolve(g, o, p) = Resolve(f, o, p)
  BY <1>1, SameShown
<1>3. Regular(g)
  BY OpenIsRegular DEF HasBlob
<1>4. Sound(g, o)
  BY <1>1, <1>3, SameSound
<1>5. Shown(g, o) = Shown(f, o)
  BY <1>2 DEF Shown
<1>6. ASSUME NEW p \in Shown(f, o) PROVE Node(g, Resolve(g, o, p)) = Node(f, Resolve(f, o, p))
  BY <1>2, SameNode DEF Shown
<1> QED
  BY <1>2, <1>4, <1>5, <1>6 DEF Tree

\* What is read of it then is what was written.
LEMMA BlobNode ==
  ASSUME NEW f, NEW Z, NEW g, NEW n, NEW t, HasBlob(f, g, Z, StagedName(Blob(n)), Text(t))
  PROVE  Node(g, Blob(n)) = Direct!File(t)
<1> PICK e : e = Blob(n)
  OBVIOUS
<1>1. e.from = "blob" /\ e.kind = "file"
  BY DEF Blob, NoEntry
<1>2. StagedPath(Tx, e) = InStaged(StagedName(Blob(n)))
  BY DEF StagedPath, InStaged
<1>3. ReadText(g, e) = Text(t).text
  BY <1>1, <1>2 DEF ReadText, HasBlob
<1>4. Text(t).text = t
  BY Zenon DEF Text, Blank
<1> QED
  BY <1>1, <1>3, <1>4 DEF Node, Direct!File

-----------------------------------------------------------------------------
(* The inductive invariant: the file system is that of an open transaction, the overlay is sound,    *)
(* the view is the tree it shows, and what the overlay names is accounted for.                       *)

\* What left its base path is recorded with the inode that is there.
Recorded(f, o) ==
  \A b \in DOMAIN o.detached : b \in Path /\ UserPath(b) /\ Stat(f, b) = o.detached[b].id

\* So is every number: of a blob, of a new directory.
Accounted(f, o, n) == BlobsShown(f, o, n) /\ BlobsKept(f, n) /\ DirsShown(f, o) /\ Recorded(f, o)

\* The invariant.
DInv ==
  /\ Open(fs) /\ Sound(fs, ov) /\ IsOverlay(ov)
  /\ ops \in 0 .. MaxOps /\ blobs \in 0 .. ops
  /\ Fits(view) /\ view = View(fs, ov)
  /\ Accounted(fs, ov, blobs)

\* Then the view is the tree.
LEMMA ViewIs ==
  ASSUME DInv
  PROVE  view = Tree(fs, ov)
BY ViewIsTree DEF DInv

\* An entry is recorded as gone.
LEMMA DetachRecords ==
  ASSUME NEW f, NEW o, Sound(f, o), IsOverlay(o), NEW p \in Path, p # <<>>, Recorded(f, o),
         NEW o2, o2.detached = Detach(o, Resolve(f, o, p)).detached
  PROVE  Recorded(f, o2)
<1> PICK e : e = Resolve(f, o, p)
  OBVIOUS
<1>1. CASE e.from = "base"
  <2>1. e.origin \in Path /\ UserPath(e.origin) /\ e = BaseLookup(f, e.origin)
    BY <1>1, ShownIs DEF IsBase
  <2>2. e # NoEntry
    BY <1>1, BaseIs
  <2>3. e.id = Stat(f, e.origin)
    <3>1. BaseLookup(f, e.origin) = Base(f.kind[Stat(f, e.origin)], e.origin, Stat(f, e.origin))
      BY <2>1, <2>2 DEF BaseLookup
    <3>2. Base(f.kind[Stat(f, e.origin)], e.origin, Stat(f, e.origin)).id = Stat(f, e.origin)
      BY DEF Base, NoEntry
    <3> QED
      BY <2>1, <3>1, <3>2
  <2> PICK r : r = [id |-> e.id, kind |-> e.kind]
    OBVIOUS
  <2>4. o2.detached = Put(o.detached, e.origin, r)
    BY <1>1 DEF Detach, IsOverlay
  <2>5. /\ DOMAIN o2.detached = DOMAIN o.detached \union {e.origin} /\ o2.detached[e.origin] = r
        /\ \A b \in DOMAIN o.detached : b # e.origin => o2.detached[b] = o.detached[b]
    BY <2>4 DEF Put
  <2> QED
    BY <2>1, <2>3, <2>5 DEF Recorded
<1>2. CASE e.from # "base"
  BY <1>2 DEF Detach, Recorded
<1> QED
  BY <1>1, <1>2

\* What the operations do to the records and to the numbers.
LEMMA RecordsAre ==
  ASSUME NEW f, NEW o, IsOverlay(o), NEW p, NEW q, NEW n
  PROVE  /\ Removed(f, o, p).detached = Detach(o, Resolve(f, o, p)).detached
         /\ Removed(f, o, p).nextDir = o.nextDir
         /\ Write(f, o, p, n).detached = Detach(o, Resolve(f, o, p)).detached
         /\ Write(f, o, p, n).nextDir = o.nextDir
         /\ p # q => RenameTo(f, o, p, q).detached = Detach(o, Resolve(f, o, p)).detached
         /\ RenameTo(f, o, p, q).nextDir = o.nextDir
<1> PICK e : e = Resolve(f, o, p)
  OBVIOUS
<1>1. ASSUME NEW a, IsOverlay(a), NEW x, NEW y
      PROVE  /\ IsOverlay(Place(a, x, y)) /\ Place(a, x, y).detached = a.detached
             /\ Place(a, x, y).nextDir = a.nextDir
  BY <1>1 DEF Place, IsOverlay
<1>2. ASSUME NEW a, IsOverlay(a), NEW x
      PROVE  /\ IsOverlay(DropUnder(a, x)) /\ DropUnder(a, x).detached = a.detached
             /\ DropUnder(a, x).nextDir = a.nextDir
  BY <1>2 DEF DropUnder, IsOverlay
<1>3. ASSUME NEW a, IsOverlay(a), a.detached = o.detached
      PROVE  /\ IsOverlay(Detach(a, e)) /\ Detach(a, e).detached = Detach(o, e).detached
             /\ Detach(a, e).nextDir = a.nextDir
  BY <1>3 DEF Detach, IsOverlay
<1> PICK gone : gone = Detach(Place(DropUnder(o, p), p, NoEntry), e)
  OBVIOUS
<1>4. IsOverlay(gone) /\ gone.detached = Detach(o, e).detached /\ gone.nextDir = o.nextDir
  <2>1. /\ IsOverlay(DropUnder(o, p)) /\ DropUnder(o, p).detached = o.detached
        /\ DropUnder(o, p).nextDir = o.nextDir
    BY <1>2
  <2>2. /\ IsOverlay(Place(DropUnder(o, p), p, NoEntry))
        /\ Place(DropUnder(o, p), p, NoEntry).detached = o.detached
        /\ Place(DropUnder(o, p), p, NoEntry).nextDir = o.nextDir
    BY <1>1, <2>1
  <2> QED
    BY <1>3, <2>2
<1>5. Removed(f, o, p) = gone
  BY DEF Removed
<1>6. Write(f, o, p, n).detached = Detach(o, e).detached /\ Write(f, o, p, n).nextDir = o.nextDir
  BY <1>1, <1>3 DEF Write
<1>7. ASSUME p # q
      PROVE  /\ RenameTo(f, o, p, q).detached = Detach(o, e).detached
             /\ RenameTo(f, o, p, q).nextDir = o.nextDir
  <2> DEFINE landed == {Rebase(k, p, q) : k \in PlacedUnder(o, p)}
             there == [k \in DOMAIN gone.placed \union landed |->
                         IF k \in landed THEN o.placed[Rebase(k, q, p)] ELSE gone.placed[k]]
             carried == [gone EXCEPT !.placed = there]
  <2>1. RenameTo(f, o, p, q) = Place(carried, q, e)
    BY <1>7 DEF RenameTo
  <2> HIDE DEF there
  <2>2. IsOverlay(carried) /\ carried.detached = gone.detached /\ carried.nextDir = gone.nextDir
    BY <1>4 DEF IsOverlay
  <2> HIDE DEF carried
  <2> QED
    BY <1>1, <1>4, <2>1, <2>2
<1>8. p = q => RenameTo(f, o, p, q).nextDir = o.nextDir
  BY DEF RenameTo
<1> QED
  BY <1>4, <1>5, <1>6, <1>7, <1>8

\* A path that an operation names.
LEMMA UserPathIs ==
  ASSUME NEW p \in UserPaths
  PROVE  p \in Path /\ UserPath(p) /\ p # <<>>
BY StagingAssumption, UserIs DEF Path, Name

\* Nothing is placed in an empty overlay.
LEMMA EmptyIsSound ==
  ASSUME NEW f, NEW Z, IsOpen(f, Z)
  PROVE  /\ Sound(f, EmptyOverlay) /\ IsOverlay(EmptyOverlay) /\ Accounted(f, EmptyOverlay, 0)
<1> PICK o : o = EmptyOverlay
  OBVIOUS
<1>1. DOMAIN o.placed = {} /\ IsOverlay(o)
  BY DEF EmptyOverlay, IsOverlay
<1>2. Sound(f, o)
  BY <1>1, OpenIsRegular DEF Sound, InShape, Wanderers
<1>3. ASSUME NEW p \in Path PROVE Resolve(f, o, p).from \notin {"blob", "new"}
  <2>1. CASE p = <<>>
    BY <2>1, ResolveRoot DEF TopEntry, Base, NoEntry
  <2>2. CASE p # <<>>
    <3> PICK q \in Path, c \in Name : p = Down(q, c)
      BY <2>2, DownFrom
    <3> PICK e : e = Resolve(f, o, q)
      OBVIOUS
    <3>1. Resolve(f, o, p) = Child(f, o, e, p, c)
      BY ResolveNext
    <3>2. NoEntry.from = "none" /\ \A b : BaseLookup(f, b) = NoEntry \/ BaseLookup(f, b).from = "base"
      BY BaseIs
    <3> QED
      BY <1>1, <3>1, <3>2 DEF Child, Kept
  <2> QED
    BY <2>1, <2>2
<1>4. Accounted(f, o, 0)
  <2>1. DOMAIN o.detached = {} /\ o.nextDir = 0
    BY DEF EmptyOverlay
  <2> QED
    BY <1>3, <2>1 DEF Accounted, BlobsShown, BlobsKept, DirsShown, Recorded
<1> QED
  BY <1>1, <1>2, <1>4

\* A transaction begins in the invariant.
LEMMA DInit == Init => DInv
<1> SUFFICES ASSUME Init PROVE DInv
  OBVIOUS
<1>1. /\ fs = FsWith(TxDir \o Items) /\ ov = EmptyOverlay /\ blobs = 0 /\ ops = 0
      /\ view = View(fs, ov)
  BY DEF Init
<1>2. Open(fs)
  BY <1>1, StartIsOpen
<1>3. Sound(fs, ov) /\ IsOverlay(ov) /\ Accounted(fs, ov, blobs)
  BY <1>1, <1>2, EmptyIsSound DEF Open
<1>4. Fits(view)
  BY <1>1, TreeAssumption
<1> QED
  BY <1>1, <1>2, <1>3, <1>4, StagingAssumption DEF DInv

\* What every operation does to the counters, and what it bounds.
LEMMA ThenIs ==
  ASSUME DInv, Then, blobs' \in {blobs, blobs + 1},
         Open(fs'), Sound(fs', ov'), IsOverlay(ov'), Accounted(fs', ov', blobs')
  PROVE  DInv' /\ view' = Tree(fs', ov')
<1>1. /\ MaxOps \in Nat /\ ops \in 0 .. MaxOps /\ blobs \in 0 .. ops /\ ops < MaxOps /\ ops' = ops + 1
  BY StagingAssumption DEF DInv, Then
<1>2. ops' \in 0 .. MaxOps /\ blobs' \in 0 .. ops'
  BY <1>1
<1>3. view' = View(fs', ov') /\ Fits(view')
  BY DEF Then
<1>4. DInv'
  BY <1>2, <1>3 DEF DInv
<1>5. view' = Tree(fs', ov')
  BY <1>3, ViewIsTree
<1> QED
  BY <1>4, <1>5

-----------------------------------------------------------------------------
(* Each operation is the operation on the tree. *)

\* A file is written.
LEMMA WriteStep ==
  ASSUME DInv, NEW p \in UserPaths, NEW text \in Texts, StageWrite(p, text)
  PROVE  DInv' /\ Direct!DoWrite(p, text)
<1> PICK f : f = fs
  OBVIOUS
<1> PICK o : o = ov
  OBVIOUS
<1> PICK n \in Nat : n = blobs /\ n + 1 \in Nat /\ n <= MaxOps /\ n \in 0 .. MaxOps
  BY StagingAssumption DEF DInv
<1>1. /\ p \in Path /\ UserPath(p) /\ p # <<>>
      /\ CanWrite(f, o, p) /\ fs' = Do(f, Create(InStaged(StagedName(Blob(n))), Text(text)))
      /\ ov' = Write(f, o, p, n) /\ blobs' = n + 1 /\ Then
  BY UserPathIs DEF StageWrite, StagedPath, InStaged
<1>2. /\ Sound(f, o) /\ IsOverlay(o) /\ Open(f)
      /\ BlobsShown(f, o, n) /\ BlobsKept(f, n) /\ DirsShown(f, o) /\ Recorded(f, o)
  BY DEF DInv, Accounted
<1>3. StagedName(Blob(n)) \in STRING
  BY NamesAssumption
<1> PICK Z : IsOpen(f, Z) /\ StagedAt(f, Z)
  BY <1>2 DEF Open
<1>4. HasBlob(f, Do(f, Create(InStaged(StagedName(Blob(n))), Text(text))), Z, StagedName(Blob(n)), Text(text))
  BY <1>3, BlobIs
<1> PICK g : g = fs' /\ HasBlob(f, g, Z, StagedName(Blob(n)), Text(text))
  BY <1>1, <1>4
<1>5. /\ \A x \in Path : Resolve(g, o, x) = Resolve(f, o, x)
      /\ Sound(g, o) /\ Tree(g, o) = Tree(f, o)
  BY <1>2, BlobTree
<1> PICK o2 : o2 = Write(f, o, p, n)
  OBVIOUS
<1> PICK e : e = Blob(n)
  OBVIOUS
<1>6. e.from = "blob" /\ e.kind = "file"
  BY DEF Blob, NoEntry
<1>7. Sets(g, o, o2, p, e)
  <2>1. Sets(f, o, o2, p, e)
    BY <1>2, WriteSets
  <2> QED
    BY <1>1, <1>5, <2>1 DEF Sets
<1>8. Settable(g, o, p, e)
  <2>1. Parent(p) \in Path
    BY <1>1, UserIs
  <2> QED
    BY <1>1, <1>5, <1>6, <2>1 DEF Settable, CanWrite
<1>9. Sound(g, o2) /\ IsOverlay(o2)
  BY <1>5, <1>7, <1>8, <1>1, SetsSound DEF Sets
<1>10. Tree(g, o2) = Direct!Set(Tree(g, o), p, Node(g, e))
  BY <1>1, <1>5, <1>7, <1>8, SetsTree
<1>11. Node(g, e) = Direct!File(text)
  BY BlobNode
<1>12. Open(g)
  BY DEF HasBlob, Open
<1>13. BlobsShown(g, o2, n + 1)
  <2>1. \A x \in Path : Resolve(g, o2, x) = IF x = p THEN e ELSE Resolve(f, o, x)
    BY <1>1, <1>5, <1>7, <1>8, SetsShow
  <2>2. n \in 0 .. (n + 1) - 1 /\ \A m \in 0 .. n - 1 : m \in 0 .. (n + 1) - 1
    OBVIOUS
  <2> QED
    BY <1>2, <2>1, <2>2 DEF BlobsShown
<1>14. BlobsKept(g, n + 1)
  <2> SUFFICES ASSUME NEW m \in 0 .. (n + 1) - 1 PROVE Stat(g, InStaged(StagedName(Blob(m)))) # NoIno
    BY DEF BlobsKept
  <2>1. CASE m = n
    BY <2>1 DEF HasBlob, IsOpen, Fresh, RootIno, NoIno
  <2>2. CASE m # n
    <3>1. m \in 0 .. n - 1 /\ m \in 0 .. MaxOps
      BY <2>2, StagingAssumption
    <3>2. StagedName(Blob(m)) \in STRING /\ StagedName(Blob(m)) # StagedName(Blob(n))
      BY <2>2, <3>1, NamesAssumption
    <3>3. Stat(g, InStaged(StagedName(Blob(m)))) = Stat(f, InStaged(StagedName(Blob(m))))
      BY <3>2 DEF HasBlob
    <3> QED
      BY <1>2, <3>1, <3>3 DEF BlobsKept
  <2> QED
    BY <2>1, <2>2
<1>15. Accounted(g, o2, n + 1)
  <2>1. DirsShown(g, o2)
    <3>1. \A x \in Path : Resolve(g, o2, x) = IF x = p THEN e ELSE Resolve(f, o, x)
      BY <1>1, <1>5, <1>7, <1>8, SetsShow
    <3>2. o2.nextDir = o.nextDir
      BY <1>2, RecordsAre
    <3> QED
      BY <1>2, <1>6, <3>1, <3>2 DEF DirsShown
  <2>2. Recorded(f, o2)
    <3>1. o2.detached = Detach(o, Resolve(f, o, p)).detached
      BY <1>2, RecordsAre
    <3> QED
      BY <1>1, <1>2, <3>1, DetachRecords
  <2>3. ASSUME NEW b \in DOMAIN o2.detached PROVE Stat(g, b) = Stat(f, b)
    <3>1. b \in Path /\ ~ IsPrivate(b)
      BY <2>2 DEF Recorded, UserPath
    <3>2. IsZone(f.vol, Z) /\ SameOutside(f.vol, g.vol, Z)
      BY DEF IsOpen, HasBlob
    <3> QED
      BY <3>1, <3>2, SamePaths DEF Path, Name, Stat
  <2>4. Recorded(g, o2)
    BY <2>2, <2>3 DEF Recorded
  <2> QED
    BY <1>13, <1>14, <2>1, <2>4 DEF Accounted
<1>16. DInv' /\ view' = Tree(g, o2)
  BY <1>1, <1>9, <1>12, <1>15, ThenIs
<1>17. view = Tree(f, o)
  BY ViewIs
<1>18. Direct!CanWrite(view, p)
  BY <1>1, <1>2, <1>17, WriteAccepted
<1> QED
  BY <1>5, <1>10, <1>11, <1>16, <1>17, <1>18 DEF Direct!DoWrite, Direct!Write

\* Something is removed, alone or with what is below it.
LEMMA CutStep ==
  ASSUME DInv, NEW p \in UserPaths, CanRemove(fs, ov, p) \/ CanRemoveDirAll(fs, ov, p),
         ov' = Removed(fs, ov, p), UNCHANGED <<fs, blobs>>, Then
  PROVE  DInv' /\ view' = Direct!Cut(view, p)
<1> PICK f : f = fs
  OBVIOUS
<1> PICK o : o = ov
  OBVIOUS
<1> PICK o2 : o2 = Removed(f, o, p)
  OBVIOUS
<1>1. p \in Path /\ UserPath(p) /\ p # <<>>
  BY UserPathIs
<1>2. Sound(f, o) /\ IsOverlay(o) /\ Accounted(f, o, blobs) /\ Open(f)
  BY DEF DInv
<1>3. Resolve(f, o, p) # NoEntry
  BY <1>1, <1>2, TreeIs DEF CanRemove, CanRemoveDirAll
<1>4. Cuts(f, o, o2, p)
  BY <1>2, RemovedIs
<1>5. Sound(f, o2) /\ IsOverlay(o2)
  BY <1>1, <1>2, <1>3, <1>4, CutsSound DEF Cuts
<1>6. \A x \in Path : Resolve(f, o2, x) = IF AtOrBelow(p, x) THEN NoEntry ELSE Resolve(f, o, x)
  BY <1>1, <1>2, <1>3, <1>4, CutsShow
<1>7. Accounted(f, o2, blobs)
  <2>1. o2.nextDir = o.nextDir /\ o2.detached = Detach(o, Resolve(f, o, p)).detached
    BY <1>2, RecordsAre
  <2>2. Recorded(f, o2)
    BY <1>1, <1>2, <2>1, DetachRecords DEF Accounted
  <2>3. BlobsShown(f, o2, blobs) /\ DirsShown(f, o2)
    BY <1>2, <1>6, <2>1, BaseIs DEF Accounted, BlobsShown, DirsShown
  <2> QED
    BY <1>2, <2>2, <2>3 DEF Accounted
<1>8. Tree(f, o2) = Direct!Cut(Tree(f, o), p)
  BY <1>1, <1>2, <1>3, <1>4, CutsTree
<1>9. fs' = f /\ ov' = o2 /\ blobs' = blobs
  OBVIOUS
<1>10. DInv' /\ view' = Tree(f, o2)
  BY <1>2, <1>5, <1>7, <1>9, ThenIs
<1> QED
  BY <1>8, <1>10, ViewIs

\* A file, or an empty directory.
LEMMA RemoveStep ==
  ASSUME DInv, NEW p \in UserPaths, StageRemove(p)
  PROVE  DInv' /\ Direct!DoRemove(p)
<1>1. DInv' /\ view' = Direct!Cut(view, p)
  BY CutStep DEF StageRemove
<1>2. Direct!CanRemove(view, p)
  BY UserPathIs, ViewIs, RemoveAccepted DEF StageRemove, DInv
<1> QED
  BY <1>1, <1>2 DEF Direct!DoRemove

\* A directory with all that is in it.
LEMMA RemoveAllStep ==
  ASSUME DInv, NEW p \in UserPaths, StageRemoveDirAll(p)
  PROVE  DInv' /\ Direct!DoRemoveAll(p)
<1>1. DInv' /\ view' = Direct!Cut(view, p)
  BY CutStep DEF StageRemoveDirAll
<1>2. Direct!CanRemoveAll(view, p)
  BY UserPathIs, ViewIs, RemoveAccepted DEF StageRemoveDirAll, DInv
<1> QED
  BY <1>1, <1>2 DEF Direct!DoRemoveAll

\* Directories are made.
LEMMA MkdirStep ==
  ASSUME DInv, NEW p \in UserPaths, StageCreateDirAll(p)
  PROVE  DInv' /\ Direct!DoMkdirs(p)
<1> PICK f : f = fs
  OBVIOUS
<1> PICK o : o = ov
  OBVIOUS
<1> PICK o2 : o2 = CreateDirAll(f, o, p)
  OBVIOUS
<1>1. p \in Path /\ UserPath(p) /\ p # <<>>
  BY UserPathIs
<1>2. Sound(f, o) /\ IsOverlay(o) /\ Accounted(f, o, blobs) /\ Open(f)
  BY DEF DInv
<1>3. CanCreateDirAll(f, o, p) /\ fs' = f /\ ov' = o2 /\ blobs' = blobs /\ Then
  BY DEF StageCreateDirAll
<1>4. /\ Sound(f, o2) /\ IsOverlay(o2) /\ Tree(f, o2) = Direct!Mkdirs(Tree(f, o), p)
      /\ \A x \in Path : Resolve(f, o2, x).from = "blob" => Resolve(f, o2, x) = Resolve(f, o, x)
      /\ o2.detached = o.detached /\ (DirsShown(f, o) => DirsShown(f, o2))
  BY <1>1, <1>2, <1>3, MakesTree
<1>5. Accounted(f, o2, blobs)
  BY <1>2, <1>4 DEF Accounted, BlobsShown, Recorded
<1>6. DInv' /\ view' = Tree(f, o2)
  BY <1>2, <1>3, <1>4, <1>5, ThenIs
<1>7. Direct!CanMkdirs(Tree(f, o), p)
  BY <1>1, <1>2, <1>3, MkdirsAccepted
<1> QED
  BY <1>4, <1>6, <1>7, ViewIs DEF Direct!DoMkdirs

\* What is shown after a rename was shown before it, there or where it came from.
LEMMA MovesAccount ==
  ASSUME NEW f, NEW o, Sound(f, o), NEW from \in Path, NEW to \in Path, Movable(f, o, from, to),
         NEW o1, Cuts(f, o, o1, from), NEW o2, Moves(f, o, o1, o2, from, to),
         NEW n, Accounted(f, o, n), o2.nextDir = o.nextDir, Recorded(f, o2)
  PROVE  Accounted(f, o2, n)
<1> SUFFICES ASSUME NEW p \in Path
             PROVE  \/ Resolve(f, o2, p) = NoEntry
                    \/ \E q \in Path : Resolve(f, o2, p) = Resolve(f, o, q)
  BY BaseIs DEF Accounted, BlobsShown, DirsShown
<1>1. CASE AtOrBelow(to, p)
  <2>1. PICK s \in Path : p = Join(to, s)
    BY <1>1, BelowJoin
  <2>2. Resolve(f, o2, p) = Resolve(f, o, Join(from, s)) /\ Join(from, s) \in Path
    BY <2>1, MovesBring, JoinBelow
  <2> QED
    BY <2>2
<1>2. CASE ~ AtOrBelow(to, p)
  <2>1. Resolve(f, o2, p) = Resolve(f, o1, p)
    BY <1>2, MovesLeave
  <2>2. Resolve(f, o1, p) = IF AtOrBelow(from, p) THEN NoEntry ELSE Resolve(f, o, p)
    BY HalfMoved
  <2> QED
    BY <2>1, <2>2
<1> QED
  BY <1>1, <1>2

\* Something is renamed, to its own path too.
LEMMA RenameStep ==
  ASSUME DInv, NEW p \in UserPaths, NEW q \in UserPaths, StageRename(p, q)
  PROVE  DInv' /\ Direct!DoRename(p, q)
<1> PICK f : f = fs
  OBVIOUS
<1> PICK o : o = ov
  OBVIOUS
<1> PICK o2 : o2 = RenameTo(f, o, p, q)
  OBVIOUS
<1>1. p \in Path /\ UserPath(p) /\ p # <<>> /\ q \in Path /\ UserPath(q) /\ q # <<>>
  BY UserPathIs
<1>2. Sound(f, o) /\ IsOverlay(o) /\ Accounted(f, o, blobs) /\ Open(f)
  BY DEF DInv
<1>3. CanRename(f, o, p, q) /\ fs' = f /\ ov' = o2 /\ blobs' = blobs /\ Then
  BY DEF StageRename
<1>4. Resolve(f, o, p) # NoEntry
  BY <1>1, <1>2, <1>3, TreeIs DEF CanRename
<1>5. Direct!CanRename(Tree(f, o), p, q)
  BY <1>1, <1>2, <1>3, RenameAccepted
<1>6. /\ Sound(f, o2) /\ IsOverlay(o2) /\ Accounted(f, o2, blobs)
      /\ Tree(f, o2) = Direct!Rename(Tree(f, o), p, q)
  <2>1. CASE p = q
    <3>1. o2 = o
      BY <2>1 DEF RenameTo
    <3>2. p \in Shown(f, o)
      BY <1>1, <1>4 DEF Shown
    <3> QED
      BY <1>1, <1>2, <2>1, <3>1, <3>2, StaysTree
  <2>2. CASE p # q
    <3> PICK o1 : o1 = Removed(f, o, p)
      OBVIOUS
    <3>1. Movable(f, o, p, q)
      BY <1>1, <1>3, <1>4, <2>2 DEF Movable, CanRename
    <3>2. Cuts(f, o, o1, p)
      BY <1>2, RemovedIs
    <3>3. Moves(f, o, o1, o2, p, q)
      BY <1>1, <1>2, <2>2, RenameMoves DEF Sound
    <3>4. Sound(f, o2) /\ Tree(f, o2) = Direct!Rename(Tree(f, o), p, q)
      BY <1>1, <1>2, <3>1, <3>2, <3>3, MovesSound, MovesTree
    <3>5. Accounted(f, o2, blobs)
      <4>1. o2.nextDir = o.nextDir /\ o2.detached = Detach(o, Resolve(f, o, p)).detached
        BY <1>2, <2>2, RecordsAre
      <4>2. Recorded(f, o2)
        BY <1>1, <1>2, <4>1, DetachRecords DEF Accounted
      <4> QED
        BY <1>1, <1>2, <3>1, <3>2, <3>3, <4>1, <4>2, MovesAccount
    <3> QED
      BY <3>3, <3>4, <3>5 DEF Moves
  <2> QED
    BY <2>1, <2>2
<1>7. DInv' /\ view' = Tree(f, o2)
  BY <1>2, <1>3, <1>6, ThenIs
<1> QED
  BY <1>5, <1>6, <1>7, ViewIs DEF Direct!DoRename

\* Every step keeps the invariant, and is a step of the tree.
LEMMA DStep ==
  ASSUME DInv, [Next]_vars
  PROVE  DInv' /\ [Direct!Next]_view
<1>1. CASE \E p \in UserPaths, text \in Texts : StageWrite(p, text)
  BY <1>1, WriteStep DEF Direct!Next
<1>2. CASE \E p \in UserPaths : StageCreateDirAll(p)
  BY <1>2, MkdirStep DEF Direct!Next
<1>3. CASE \E p, q \in UserPaths : StageRename(p, q)
  BY <1>3, RenameStep DEF Direct!Next
<1>4. CASE \E p \in UserPaths : StageRemove(p)
  BY <1>4, RemoveStep DEF Direct!Next
<1>5. CASE \E p \in UserPaths : StageRemoveDirAll(p)
  BY <1>5, RemoveAllStep DEF Direct!Next
<1>6. CASE UNCHANGED vars
  BY <1>6 DEF vars, DInv
<1> QED
  BY <1>1, <1>2, <1>3, <1>4, <1>5, <1>6 DEF Next

\* Whatever was staged, the view is the tree that the overlay shows of the base.
THEOREM ViewInvariance == Spec => []DInv
<1>1. Init => DInv
  BY DInit
<1>2. DInv /\ [Next]_vars => DInv'
  BY DStep
<1> QED
  BY <1>1, <1>2, PTL DEF Spec

\* The overlay keeps its shape, whatever was placed and removed before, and what it names has been
\* given out (overlay.rs).
THEOREM TypeCorrect == Spec => []TypeOK
<1>1. ASSUME DInv PROVE TypeOK
  <2>1. /\ Sound(fs, ov) /\ Accounted(fs, ov, blobs) /\ InShape(fs, ov) /\ Fits(view)
        /\ ops \in 0 .. MaxOps /\ blobs \in 0 .. ops
    BY <1>1 DEF DInv, Sound
  <2>2. ASSUME NEW p \in DOMAIN ov.placed
        PROVE  /\ ov.placed[p].kind \in {"none", "file", "dir"}
               /\ ov.placed[p].from = "blob" => ov.placed[p].n < blobs
               /\ ov.placed[p].from = "new" => ov.placed[p].n < ov.nextDir
    <3> PICK e : e = ov.placed[p]
      OBVIOUS
    <3>1. p \in Path /\ Resolve(fs, ov, p) = e
      BY <2>1, PlacedIsShown
    <3>2. e.kind \in {"none", "file", "dir"}
      BY <2>1, BaseIs DEF Sound, IsEntry
    <3>3. ASSUME e.from = "blob" PROVE e.n < blobs
      <4>1. PICK m \in 0 .. blobs - 1 : e = Blob(m)
        BY <2>1, <3>1, <3>3 DEF Accounted, BlobsShown
      <4>2. e.n = m
        BY <4>1 DEF Blob, NoEntry
      <4> QED
        BY <2>1, <4>1, <4>2
    <3>4. ASSUME e.from = "new" PROVE e.n < ov.nextDir
      <4>1. ov.nextDir \in Nat
        BY <2>1 DEF Accounted, DirsShown
      <4>2. PICK m \in 0 .. ov.nextDir - 1 : e = NewDir(m)
        BY <2>1, <3>1, <3>4 DEF Accounted, DirsShown
      <4>3. e.n = m
        BY <4>2 DEF NewDir, NoEntry
      <4> QED
        BY <4>1, <4>2, <4>3
    <3> QED
      BY <3>2, <3>3, <3>4
  <2>3. \A p \in DOMAIN ov.detached : Stat(fs, p) = ov.detached[p].id
    BY <2>1 DEF Accounted, Recorded
  <2> QED
    BY <2>1, <2>2, <2>3 DEF TypeOK, Placements
<1> QED
  BY <1>1, ViewInvariance, PTL

\* Read-your-writes: the transaction's view is the tree of src/tests/model.rs, and every operation
\* does to it what it does there.
THEOREM OverlayImplementsTree == Spec => ViewIsTheTree
<1>1. DInv /\ [Next]_vars => [Direct!Next]_view
  BY DStep
<1> QED
  BY <1>1, ViewInvariance, PTL DEF Spec, ViewIsTheTree, Direct!Behaviour

\* An operation is refused exactly when that tree refuses it.
THEOREM AcceptedAlike == Spec => []AcceptsWhatATreeAccepts
<1>1. DInv => AcceptsWhatATreeAccepts
  BY ViewIs, UserPathIs, WriteAccepted, MkdirsAccepted, RemoveAccepted, RenameAccepted
     DEF DInv, AcceptsWhatATreeAccepts
<1> QED
  BY <1>1, ViewInvariance, PTL

-----------------------------------------------------------------------------
(* Staging on a file system that folds the case of names. *)

\* A tree with one spelling of each name, one directory at a time.
Spelled(D) ==
  \A w \in Path : \A c, d \in Name :
    Down(w, c) \in D /\ Down(w, d) \in D /\ SameName(c, d) => c = d

\* No other name next to p is p's.
FreeAt(D, p) == \A d \in Name : Down(Parent(p), d) \in D => ~ SameName(d, Leaf(p))

\* It is the same, of a tree without its root.
LEMMA OneSpellingIs ==
  ASSUME NEW D \in SUBSET Path, <<>> \notin D
  PROVE  OneSpelling(D) <=> Spelled(D)
<1>1. ASSUME OneSpelling(D), NEW w \in Path, NEW c \in Name, NEW d \in Name,
             Down(w, c) \in D, Down(w, d) \in D, SameName(c, d)
      PROVE  c = d
  <2>1. /\ Parent(Down(w, c)) = w /\ Leaf(Down(w, c)) = c
        /\ Parent(Down(w, d)) = w /\ Leaf(Down(w, d)) = d
    BY DownParent
  <2>2. Down(w, c) = Down(w, d)
    BY <1>1, <2>1 DEF OneSpelling
  <2> QED
    BY <2>2, DownSame
<1>2. ASSUME Spelled(D), NEW p \in D, NEW q \in D, Parent(p) = Parent(q), SameName(Leaf(p), Leaf(q))
      PROVE  p = q
  <2>1. PICK w \in Path, c \in Name : p = Down(w, c)
    BY DownFrom
  <2>2. PICK v \in Path, d \in Name : q = Down(v, d)
    BY DownFrom
  <2>3. Parent(p) = w /\ Leaf(p) = c /\ Parent(q) = v /\ Leaf(q) = d
    BY <2>1, <2>2, DownParent
  <2> QED
    BY <1>2, <2>1, <2>2, <2>3 DEF Spelled
<1> QED
  BY <1>1, <1>2 DEF OneSpelling, Spelled

\* Whichever is asked for first.
LEMMA SameNameBothWays ==
  ASSUME NEW c, NEW d
  PROVE  SameName(c, d) <=> SameName(d, c)
BY DEF SameName

\* One path more, and nothing next to it has its name.
LEMMA SpelledSet ==
  ASSUME NEW D, Spelled(D), NEW p \in Path, p # <<>>, NEW E, E \subseteq D \union {p},
         p \in D \/ FreeAt(D, p)
  PROVE  Spelled(E)
<1>1. CASE p \in D
  BY <1>1 DEF Spelled
<1>2. CASE FreeAt(D, p)
  <2>1. PICK v \in Path, x \in Name : p = Down(v, x)
    BY DownFrom
  <2>2. \A d \in Name : Down(v, d) \in D => ~ SameName(d, x)
    BY <1>2, <2>1, DownParent DEF FreeAt
  <2> SUFFICES ASSUME NEW w \in Path, NEW c \in Name, NEW d \in Name,
                      Down(w, c) \in E, Down(w, d) \in E, SameName(c, d)
               PROVE  c = d
    BY DEF Spelled
  <2>3. CASE Down(w, c) \in D /\ Down(w, d) \in D
    BY <2>3 DEF Spelled
  <2>4. CASE Down(w, c) = p
    <3>1. w = v /\ c = x
      BY <2>1, <2>4, DownSame
    <3>2. CASE Down(w, d) = p
      BY <2>4, <3>2, DownSame
    <3>3. CASE Down(w, d) \in D
      BY <2>2, <3>1, <3>3, SameNameBothWays
    <3> QED
      BY <3>2, <3>3
  <2>5. CASE Down(w, d) = p
    <3>1. w = v /\ d = x
      BY <2>1, <2>5, DownSame
    <3>2. CASE Down(w, c) = p
      BY <2>5, <3>2, DownSame
    <3>3. CASE Down(w, c) \in D
      BY <2>2, <3>1, <3>3
    <3> QED
      BY <3>2, <3>3
  <2> QED
    BY <2>3, <2>4, <2>5
<1> QED
  BY <1>1, <1>2

\* What was at or below a path is at or below another, where there was nothing and whose name no
\* other has.
LEMMA SpelledMove ==
  ASSUME NEW D \in SUBSET Path, Spelled(D), NEW from \in Path, NEW to \in Path, to # <<>>,
         FreeAt(D, to), \A x \in D : ~ AtOrBelow(to, x), NEW E \in SUBSET Path,
         \A k \in E : k \in D \/ \E s \in Path : k = Join(to, s) /\ Join(from, s) \in D
  PROVE  Spelled(E)
<1> DEFINE Came(k) == \E s \in Path : k = Join(to, s) /\ Join(from, s) \in D
<1>1. PICK v \in Path, x \in Name : to = Down(v, x)
  BY DownFrom
<1>2. \A d \in Name : Down(v, d) \in D => ~ SameName(d, x)
  BY <1>1, DownParent DEF FreeAt
<1>3. ASSUME NEW w \in Path, NEW c \in Name, Came(Down(w, c))
      PROVE  \/ w = v /\ c = x
             \/ \E t \in Path : w = Join(to, t) /\ Down(Join(from, t), c) \in D
  <2>1. PICK s \in Path : Down(w, c) = Join(to, s) /\ Join(from, s) \in D
    BY <1>3
  <2>2. CASE s = <<>>
    BY <1>1, <2>1, <2>2, JoinFacts, DownSame
  <2>3. CASE s # <<>>
    <3>1. PICK t \in Path, e \in Name : s = Down(t, e)
      BY <2>3, DownFrom
    <3>2. Down(w, c) = Down(Join(to, t), e) /\ Down(Join(from, t), e) \in D /\ Join(to, t) \in Path
      BY <2>1, <3>1, JoinFacts
    <3>3. w = Join(to, t) /\ c = e
      BY <3>2, DownSame
    <3> QED
      BY <3>2, <3>3
  <2> QED
    BY <2>2, <2>3
<1>4. ASSUME NEW w \in Path, NEW c \in Name, NEW d \in Name, Came(Down(w, c)), Down(w, d) \in D,
             SameName(c, d)
      PROVE  FALSE
  <2>1. CASE w = v /\ c = x
    BY <1>2, <1>4, <2>1, SameNameBothWays
  <2>2. CASE \E t \in Path : w = Join(to, t)
    <3>1. AtOrBelow(to, w)
      BY <2>2, JoinBelow
    <3>2. AtOrBelow(to, Down(w, d))
      BY <3>1, BelowNext
    <3> QED
      BY <1>4, <3>2
  <2> QED
    BY <1>3, <1>4, <2>1, <2>2
<1>5. ASSUME NEW w \in Path, NEW c \in Name, NEW d \in Name, Came(Down(w, c)), Came(Down(w, d)),
             SameName(c, d)
      PROVE  c = d
  <2>1. CASE w = v
    <3>1. ~ \E t \in Path : w = Join(to, t)
      <4> SUFFICES ASSUME NEW t \in Path, w = Join(to, t) PROVE FALSE
        OBVIOUS
      <4>1. AtOrBelow(to, Join(to, t)) /\ v = Join(to, t)
        BY <2>1, JoinBelow
      <4> QED
        BY <1>1, <4>1, BelowNext
    <3> QED
      BY <1>3, <1>5, <3>1
  <2>2. CASE w # v
    <3>1. PICK t \in Path : w = Join(to, t) /\ Down(Join(from, t), c) \in D
      BY <1>3, <1>5, <2>2
    <3>2. PICK u \in Path : w = Join(to, u) /\ Down(Join(from, u), d) \in D
      BY <1>3, <1>5, <2>2
    <3>3. Join(to, t) = Join(to, u) => t = u
      BY JoinFacts
    <3>4. t = u /\ Join(from, t) \in Path
      BY <3>1, <3>2, <3>3, JoinBelow
    <3> QED
      BY <1>5, <3>1, <3>2, <3>4 DEF Spelled
  <2> QED
    BY <2>1, <2>2
<1> SUFFICES ASSUME NEW w \in Path, NEW c \in Name, NEW d \in Name,
                    Down(w, c) \in E, Down(w, d) \in E, SameName(c, d)
             PROVE  c = d
  BY DEF Spelled
<1>6. (Down(w, c) \in D \/ Came(Down(w, c))) /\ (Down(w, d) \in D \/ Came(Down(w, d)))
  OBVIOUS
<1>7. CASE Down(w, c) \in D /\ Down(w, d) \in D
  BY <1>7 DEF Spelled
<1>8. CASE Came(Down(w, c)) /\ Down(w, d) \in D
  BY <1>4, <1>8
<1>9. CASE Down(w, c) \in D /\ Came(Down(w, d))
  BY <1>4, <1>9, SameNameBothWays
<1>10. CASE Came(Down(w, c)) /\ Came(Down(w, d))
  BY <1>5, <1>10
<1> QED
  BY <1>6, <1>7, <1>8, <1>9, <1>10
\* A new path that is clear: no other name next to it is its own.
LEMMA ClearIsFree ==
  ASSUME Sound(fs, ov), NEW p \in Path, UserPath(p), Clear(p), Resolve(fs, ov, p) = NoEntry,
         Resolve(fs, ov, Parent(p)).kind = "dir"
  PROVE  FreeAt(Shown(fs, ov), p)
<1>1. Parent(p) \in Path
  BY UserIs
<1>2. ~ FoldsOntoSibling(p)
  BY DEF Clear
<1>3. \A n : n \in List(fs, ov, Parent(p)) <=>
            n \in Name /\ Resolve(fs, ov, Down(Parent(p), n)) # NoEntry
  BY <1>1, ListIs
<1> QED
  BY <1>2, <1>3 DEF FoldsOntoSibling, FreeAt, Shown

\* What is shown are paths, and the root is none of them.
LEMMA ShownPaths ==
  ASSUME NEW f, NEW o
  PROVE  Shown(f, o) \in SUBSET Path /\ <<>> \notin Shown(f, o) /\ DOMAIN Tree(f, o) = Shown(f, o)
BY DEF Shown, Tree

\* Writing a file that is clear adds no spelling.
LEMMA WriteSpells ==
  ASSUME DInv, Spelled(DOMAIN view), NEW p \in UserPaths, NEW text \in Texts,
         Clear(p), StageWrite(p, text)
  PROVE  Spelled(DOMAIN view')
<1>1. p \in Path /\ UserPath(p) /\ p # <<>> /\ CanWrite(fs, ov, p)
  BY UserPathIs DEF StageWrite
<1>2. view' = Direct!Write(view, p, text)
  BY WriteStep DEF Direct!DoWrite
<1>3. DOMAIN view' \subseteq DOMAIN view \union {p}
  BY <1>2 DEF Direct!Write, Direct!Set
<1>4. DOMAIN view = Shown(fs, ov)
  BY ViewIs, ShownPaths
<1>5. CASE Resolve(fs, ov, p) # NoEntry
  <2>1. p \in DOMAIN view
    BY <1>1, <1>4, <1>5 DEF Shown
  <2> QED
    BY <1>1, <1>3, <2>1, SpelledSet
<1>6. CASE Resolve(fs, ov, p) = NoEntry
  <2>1. Resolve(fs, ov, Parent(p)).kind = "dir"
    BY <1>1 DEF CanWrite
  <2>2. FreeAt(DOMAIN view, p)
    BY <1>1, <1>4, <1>6, <2>1, ClearIsFree DEF DInv
  <2> QED
    BY <1>1, <1>3, <2>2, SpelledSet
<1> QED
  BY <1>5, <1>6

\* Removing adds none.
LEMMA RemoveSpells ==
  ASSUME DInv, Spelled(DOMAIN view), NEW p \in UserPaths, StageRemove(p) \/ StageRemoveDirAll(p)
  PROVE  Spelled(DOMAIN view')
<1>1. view' = Direct!Cut(view, p)
  BY RemoveStep, RemoveAllStep DEF Direct!DoRemove, Direct!DoRemoveAll
<1>2. DOMAIN view' \subseteq DOMAIN view
  BY <1>1 DEF Direct!Cut, Direct!Without, Direct!Restrict
<1> QED
  BY <1>2 DEF Spelled

\* A rename to a clear path carries none along.
LEMMA RenameSpells ==
  ASSUME DInv, Spelled(DOMAIN view), NEW p \in UserPaths, NEW q \in UserPaths, p = q \/ Clear(q),
         StageRename(p, q)
  PROVE  Spelled(DOMAIN view')
<1>1. p \in Path /\ UserPath(p) /\ p # <<>> /\ q \in Path /\ UserPath(q) /\ q # <<>>
  BY UserPathIs
<1>2. CanRename(fs, ov, p, q) /\ Sound(fs, ov)
  BY DEF StageRename, DInv
<1>3. view' = Direct!Rename(view, p, q) /\ view = Tree(fs, ov)
  BY RenameStep, ViewIs DEF Direct!DoRename
<1>4. p \in Shown(fs, ov) /\ DOMAIN view = Shown(fs, ov) /\ Shown(fs, ov) \in SUBSET Path
  <2>1. Resolve(fs, ov, p) # NoEntry
    BY <1>1, <1>2, TreeIs DEF CanRename
  <2> QED
    BY <1>1, <1>3, <2>1, ShownPaths DEF Shown
<1>5. DOMAIN view' = (DOMAIN view \ Moved(fs, ov, p)) \union Landed(fs, ov, p, q)
  BY <1>3 DEF Direct!Rename, Moved, Landed
<1>6. \A k : k \in Landed(fs, ov, p, q) <=>
              \E s \in Path : k = Join(q, s) /\ Join(p, s) \in Shown(fs, ov)
  BY <1>1, <1>4, MovedAre
<1>7. CASE p = q
  <2>1. DOMAIN view' \subseteq DOMAIN view
    BY <1>4, <1>5, <1>6, <1>7
  <2> QED
    BY <2>1 DEF Spelled
<1>8. CASE p # q
  <2>1. Resolve(fs, ov, q) = NoEntry /\ Resolve(fs, ov, Parent(q)).kind = "dir" /\ Clear(q)
    BY <1>2, <1>8 DEF CanRename
  <2>2. FreeAt(DOMAIN view, q)
    BY <1>1, <1>2, <1>4, <2>1, ClearIsFree
  <2>3. \A x \in DOMAIN view : ~ AtOrBelow(q, x)
    <3> SUFFICES ASSUME NEW x \in Path, AtOrBelow(q, x) PROVE Resolve(fs, ov, x) = NoEntry
      BY <1>4 DEF Shown
    <3>1. Resolve(fs, ov, q).kind # "dir"
      BY <2>1, BaseIs
    <3> QED
      BY <1>1, <1>2, <2>1, <3>1, NothingBelow
  <2>4. DOMAIN view' \in SUBSET Path
    BY <1>1, <1>4, <1>5, <1>6, JoinBelow
  <2>5. \A k \in DOMAIN view' :
          k \in DOMAIN view \/ \E s \in Path : k = Join(q, s) /\ Join(p, s) \in DOMAIN view
    BY <1>4, <1>5, <1>6
  <2> QED
    BY <1>1, <1>4, <2>2, <2>3, <2>4, <2>5, SpelledMove
<1> QED
  BY <1>7, <1>8

\* A sequence cut off where a part of it ends, and one before.
IsCut(p, v, w) == \E n \in 1 .. Len(p) : v = SubSeq(p, 1, n) /\ w = SubSeq(p, 1, n - 1)

\* What is joined to a sequence is cut off again where the sequence ends.
LEMMA CutAt ==
  ASSUME NEW S, NEW w \in Seq(S), NEW c \in S, NEW s \in Seq(S)
  PROVE  IsCut(Append(w, c) \o s, Append(w, c), w)
<1>a. Append(w, c) \in Seq(S)
  OBVIOUS
<1> PICK v \in Seq(S) : v = Append(w, c)
  BY <1>a
<1>b. v \o s \in Seq(S)
  OBVIOUS
<1> PICK p \in Seq(S) : p = v \o s
  BY <1>b
<1>1. /\ Len(v) = Len(w) + 1 /\ Len(p) = Len(v) + Len(s) /\ Len(w) \in Nat /\ Len(s) \in Nat
      /\ \A i \in 1 .. Len(v) : p[i] = v[i]
      /\ \A i \in 1 .. Len(w) : v[i] = w[i]
  OBVIOUS
<1> PICK n \in 1 .. Len(p) : n = Len(v) /\ n - 1 = Len(w)
  BY <1>1
<1>2. SubSeq(p, 1, n) \in Seq(S) /\ Len(SubSeq(p, 1, n)) = n /\ \A i \in 1 .. n : SubSeq(p, 1, n)[i] = p[i]
  OBVIOUS
<1>3. /\ SubSeq(p, 1, n - 1) \in Seq(S) /\ Len(SubSeq(p, 1, n - 1)) = n - 1
      /\ \A i \in 1 .. n - 1 : SubSeq(p, 1, n - 1)[i] = p[i]
  OBVIOUS
<1>4. v = SubSeq(p, 1, n)
  BY <1>1, <1>2, SeqEqual
<1>5. w = SubSeq(p, 1, n - 1)
  BY <1>1, <1>3, SeqEqual
<1> QED
  BY <1>4, <1>5 DEF IsCut

\* Where a path is cut, and where its parent is.
LEMMA CutsAtParent ==
  ASSUME NEW p \in Path, NEW w \in Path, NEW c \in Name, AtOrBelow(Down(w, c), p)
  PROVE  \E n \in 1 .. Len(p) : Down(w, c) = SubSeq(p, 1, n) /\ w = SubSeq(p, 1, n - 1)
<1>1. PICK s \in Path : p = Join(Down(w, c), s)
  BY BelowJoin, DownPath
<1>2. w \in Seq(Name) /\ s \in Seq(Name)
  BY DEF Path
<1>3. IsCut(Append(w, c) \o s, Append(w, c), w)
  BY <1>2, CutAt
<1> QED
  BY <1>1, <1>3 DEF Down, Join, IsCut

\* Directories made down to a path of which every part is clear.
LEMMA MkdirSpells ==
  ASSUME DInv, Spelled(DOMAIN view), NEW p \in UserPaths, ClearAll(p), StageCreateDirAll(p)
  PROVE  Spelled(DOMAIN view')
<1> PICK f : f = fs
  OBVIOUS
<1> PICK o : o = ov
  OBVIOUS
<1> PICK a : a = Making!Fold(<<f, o>>, Chain(p))
  OBVIOUS
<1>1. p \in Path /\ UserPath(p) /\ p # <<>> /\ CanCreateDirAll(f, o, p)
  BY UserPathIs DEF StageCreateDirAll
<1>2. Sound(f, o) /\ IsOverlay(o)
  BY DEF DInv
<1>3. MadeTo(f, o, p, a, Growing!Fold(Tree(f, o), Chain(p)))
  BY <1>1, <1>2, MadeAll
<1>4. \A x \in Path : ~ AtOrBelow(x, p) => Resolve(f, a, x) = Resolve(f, o, x)
  BY <1>3 DEF MadeTo
<1>5. DOMAIN view = Shown(f, o) /\ DOMAIN view' = Shown(f, a)
  <2>1. fs' = f /\ ov' = a /\ DInv'
    BY <1>1, CreateDirAllIs, MkdirStep DEF StageCreateDirAll
  <2>2. view' = Tree(f, a)
    BY <2>1, ViewIsTree DEF DInv
  <2> QED
    BY <2>2, ViewIs, ShownPaths
<1>6. ASSUME NEW w \in Path, NEW c \in Name, AtOrBelow(Down(w, c), p), Down(w, c) \notin Shown(f, o),
             NEW d \in Name, Down(w, d) \in Shown(f, o)
      PROVE  ~ SameName(d, c)
  <2>1. PICK x \in Path : x = Down(w, c) /\ x # <<>> /\ Parent(x) = w /\ Leaf(x) = c
    BY DownPath, DownParent
  <2>2. Resolve(f, o, x) = NoEntry /\ Resolve(f, o, w).kind = "dir"
    BY <1>6, <2>1, DownPath, InADirectory DEF Shown
  <2>3. UserPath(x)
    BY <1>1, <1>6, <2>1, CanMakeAll
  <2>4. Clear(x)
    <3>1. PICK n \in 1 .. Len(p) : x = SubSeq(p, 1, n) /\ w = SubSeq(p, 1, n - 1)
      BY <1>1, <1>6, <2>1, CutsAtParent
    <3>2. Resolve(fs, ov, SubSeq(p, 1, n - 1)) # NoEntry
      BY <2>2, <3>1, BaseIs
    <3> QED
      BY <3>1, <3>2 DEF ClearAll
  <2>5. FreeAt(Shown(f, o), x)
    BY <1>2, <2>1, <2>2, <2>3, <2>4, ClearIsFree
  <2> QED
    BY <1>6, <2>1, <2>5 DEF FreeAt
<1> SUFFICES ASSUME NEW w \in Path, NEW c \in Name, NEW d \in Name,
                    Down(w, c) \in Shown(f, a), Down(w, d) \in Shown(f, a), SameName(c, d)
             PROVE  c = d
  BY <1>5 DEF Spelled
<1>7. ASSUME NEW x \in Name, Down(w, x) \in Shown(f, a), Down(w, x) \notin Shown(f, o)
      PROVE  AtOrBelow(Down(w, x), p)
  BY <1>4, <1>7, DownPath DEF Shown
<1>8. CASE Down(w, c) \in Shown(f, o) /\ Down(w, d) \in Shown(f, o)
  BY <1>5, <1>8 DEF Spelled
<1>9. CASE Down(w, c) \in Shown(f, o) /\ Down(w, d) \notin Shown(f, o)
  BY <1>6, <1>7, <1>9
<1>10. CASE Down(w, c) \notin Shown(f, o) /\ Down(w, d) \in Shown(f, o)
  BY <1>6, <1>7, <1>10, SameNameBothWays
<1>11. CASE Down(w, c) \notin Shown(f, o) /\ Down(w, d) \notin Shown(f, o)
  <2>1. AtOrBelow(Down(w, c), p) /\ AtOrBelow(Down(w, d), p)
    BY <1>7, <1>11
  <2>2. AtOrBelow(Down(w, c), Down(w, d)) \/ AtOrBelow(Down(w, d), Down(w, c))
    BY <1>1, <2>1, BelowBoth, DownPath
  <2>3. ~ AtOrBelow(Down(w, c), w) /\ ~ AtOrBelow(Down(w, d), w)
    BY BelowNext
  <2> QED
    BY <2>2, <2>3, BelowNext, DownSame
<1> QED
  BY <1>8, <1>9, <1>10, <1>11

\* A transaction on a file system that folds case is a transaction.
LEMMA CaseSteps ==
  ASSUME [CaseNext]_vars
  PROVE  [Next]_vars
BY DEF CaseNext, Next

\* Every operation that is not refused leaves one spelling of each name.
LEMMA SpelledStep ==
  ASSUME DInv, Spelled(DOMAIN view), [CaseNext]_vars
  PROVE  Spelled(DOMAIN view')
<1>1. CASE \E p \in UserPaths, text \in Texts : Clear(p) /\ StageWrite(p, text)
  BY <1>1, WriteSpells
<1>2. CASE \E p \in UserPaths : ClearAll(p) /\ StageCreateDirAll(p)
  BY <1>2, MkdirSpells
<1>3. CASE \E p, q \in UserPaths :
             ~ MeetsOtherSpelling(p) /\ (p = q \/ Clear(q)) /\ StageRename(p, q)
  BY <1>3, RenameSpells
<1>4. CASE \E p \in UserPaths : ~ MeetsOtherSpelling(p) /\ StageRemove(p)
  BY <1>4, RemoveSpells
<1>5. CASE \E p \in UserPaths : ~ MeetsOtherSpelling(p) /\ StageRemoveDirAll(p)
  BY <1>5, RemoveSpells
<1>6. CASE UNCHANGED vars
  BY <1>6 DEF vars
<1> QED
  BY <1>1, <1>2, <1>3, <1>4, <1>5, <1>6 DEF CaseNext

\* The overlay keeps its shape on such a file system too, and the view never shows two names of one
\* directory that are one name on disk, however they got there (the two refusals of overlay.rs:
\* base_lookup and check_new_name).
THEOREM OneSpellingOfEachName == CaseSpec => []WellFormed
<1>1. DInv => (NoTwoSpellings <=> Spelled(DOMAIN view))
  BY ViewIs, ShownPaths, OneSpellingIs DEF NoTwoSpellings
<1>2. Init => NoTwoSpellings
  BY SpellingAssumption DEF Init, NoTwoSpellings
<1>3. DInv /\ NoTwoSpellings /\ [CaseNext]_vars => DInv' /\ NoTwoSpellings'
  <2> SUFFICES ASSUME DInv, NoTwoSpellings, [CaseNext]_vars PROVE DInv' /\ NoTwoSpellings'
    OBVIOUS
  <2>1. DInv'
    BY CaseSteps, DStep
  <2>2. Spelled(DOMAIN view')
    BY <1>1, SpelledStep
  <2>3. DOMAIN view' \in SUBSET Path /\ <<>> \notin DOMAIN view'
    BY <2>1, ViewIsTree, ShownPaths DEF DInv
  <2> QED
    BY <2>1, <2>2, <2>3, OneSpellingIs DEF NoTwoSpellings
<1>4. CaseSpec => []NoTwoSpellings
  BY <1>2, <1>3, DInit, PTL DEF CaseSpec
<1>5. CaseSpec => Spec
  BY CaseSteps, PTL DEF CaseSpec, Spec
<1> QED
  BY <1>4, <1>5, TypeCorrect, PTL DEF WellFormed

-----------------------------------------------------------------------------
(* The inductive invariant: until the end the file system is that of an open transaction, and the   *)
(* tree is the one the other program made.                                                          *)

\* The bounds, the tree before the end, and the property.
Counts == ops \in 0 .. MaxOps /\ blobs \in 0 .. ops
Untraced == pc # "done" => Open(fs) /\ TreeOf(fs) = outside
IInv == Counts /\ Untraced /\ NoTraceUnlessApplied

\* The commands begin in the invariant.
LEMMA InitInv == SInit => IInv
<1> SUFFICES ASSUME SInit PROVE IInv
  OBVIOUS
<1>1. ops = 0 /\ blobs = 0 /\ pc = "start" /\ fs = FsWith(TxDir \o Items) /\ outside = TreeOf(fs)
  BY DEF SInit, CInit, Init
<1>2. Counts
  BY <1>1, StagingAssumption DEF Counts
<1>3. Untraced
  BY <1>1, StartIsOpen DEF Untraced
<1>4. NoTraceUnlessApplied
  BY <1>1 DEF NoTraceUnlessApplied, Done
<1> QED
  BY <1>2, <1>3, <1>4 DEF IInv

\* A step before the end that leaves the file system alone.
LEMMA StillStep ==
  ASSUME IInv, pc # "done", UNCHANGED <<fs, blobs, ops, outside>>
  PROVE  IInv'
<1>1. Open(fs) /\ TreeOf(fs) = outside
  BY DEF IInv, Untraced
<1>2. Counts'
  BY DEF IInv, Counts
<1>3. Untraced'
  BY <1>1 DEF Untraced
<1>4. NoTraceUnlessApplied'
  BY <1>1 DEF NoTraceUnlessApplied
<1> QED
  BY <1>2, <1>3, <1>4 DEF IInv

\* An operation is staged.
LEMMA StageStep ==
  ASSUME IInv, pc # "done", pc' # "done", UNCHANGED outside,
         \/ \E p, t : StageWrite(p, t)
         \/ \E p : StageCreateDirAll(p) \/ StageRemove(p) \/ StageRemoveDirAll(p)
         \/ \E p, q : StageRename(p, q)
  PROVE  IInv'
<1>1. Open(fs) /\ TreeOf(fs) = outside /\ ops \in 0 .. MaxOps /\ blobs \in 0 .. ops /\ MaxOps \in Nat
  BY StagingAssumption DEF IInv, Untraced, Counts
<1>2. ops < MaxOps /\ ops' = ops + 1
  BY DEF StageWrite, StageCreateDirAll, StageRemove, StageRemoveDirAll, StageRename, Then
<1>3. blobs' \in {blobs, blobs + 1}
  BY DEF StageWrite, StageCreateDirAll, StageRemove, StageRemoveDirAll, StageRename
<1>4. Counts'
  BY <1>1, <1>2, <1>3 DEF Counts
<1>5. Open(fs') /\ TreeOf(fs') = TreeOf(fs)
  <2>1. CASE \E p, t : StageWrite(p, t)
    <3>1. PICK p, t : StageWrite(p, t)
      BY <2>1
    <3>2. fs' = Do(fs, Create(InStaged(StagedName(Blob(blobs))), Text(t)))
      BY <3>1 DEF StageWrite, StagedPath, InStaged
    <3>3. StagedName(Blob(blobs)) \in STRING
      BY <1>1, NamesAssumption
    <3> QED
      BY <1>1, <3>2, <3>3, BlobKeeps
  <2>2. CASE UNCHANGED fs
    BY <1>1, <2>2
  <2> QED
    BY <2>1, <2>2 DEF StageCreateDirAll, StageRemove, StageRemoveDirAll, StageRename
<1>6. Untraced'
  BY <1>1, <1>5 DEF Untraced
<1>7. NoTraceUnlessApplied'
  BY DEF NoTraceUnlessApplied, Done
<1> QED
  BY <1>4, <1>6, <1>7 DEF IInv

\* The other program edits the tree: what it would be without this program is edited too.
LEMMA EditStep ==
  ASSUME IInv, Edit
  PROVE  IInv'
<1>1. pc # "done" /\ pc' = pc /\ outside' = TreeOf(fs') /\ UNCHANGED <<blobs, ops>>
  BY DEF Edit, EditInPlace, Save, MayEdit, Edited
<1>2. Open(fs)
  BY <1>1 DEF IInv, Untraced
<1>3. Open(fs')
  <2>1. PICK p \in EditPaths : EditInPlace(p, "edit") \/ Save(p, "edit")
    BY DEF Edit
  <2>2. p \in Seq(STRING) /\ UserPath(p)
    BY CliAssumption
  <2>3. CASE EditInPlace(p, "edit")
    BY Zenon, <1>2, <2>3, EditKeeps DEF EditInPlace
  <2>4. CASE Save(p, "edit")
    BY <1>2, <2>2, <2>4, SaveKeeps DEF Save
  <2> QED
    BY <2>1, <2>3, <2>4
<1>4. Counts'
  BY <1>1 DEF IInv, Counts
<1>5. Untraced'
  BY <1>1, <1>3 DEF Untraced
<1>6. NoTraceUnlessApplied'
  BY <1>1 DEF NoTraceUnlessApplied, Done
<1> QED
  BY <1>4, <1>5, <1>6 DEF IInv

\* The end, with the tree changed: the exit code is neither that of a refusal nor that of bad input,
\* and it was no dry run.
LEMMA CommitStep ==
  ASSUME IInv, CommitOk \/ CommitUnknown \/ RollbackFails
  PROVE  IInv'
<1>1. pc' = "done" /\ UNCHANGED <<ops, blobs, cs>> /\ ~ cs.dry
  BY DEF CommitOk, CommitUnknown, RollbackFails, Committing, Leaves, Exit, Fail
<1>2. code' \notin {1, 2}
  BY DEF CommitOk, CommitUnknown, RollbackFails, Exit, Fail, from_fstx, exit_code
<1>3. Counts'
  BY <1>1 DEF IInv, Counts
<1>4. Untraced'
  BY <1>1 DEF Untraced
<1>5. NoTraceUnlessApplied'
  BY <1>1, <1>2 DEF NoTraceUnlessApplied
<1> QED
  BY <1>3, <1>4, <1>5 DEF IInv

-----------------------------------------------------------------------------
\* Steps of the command that stage nothing and commit nothing: the file system is as it was.
LEMMA ApplyIsStill ==
  ASSUME \/ Malformed \/ Begin \/ BeginFails \/ Expect \/ Expected \/ OpReplaceRead
         \/ BadInput \/ Refused \/ AllStaged
  PROVE  pc # "done" /\ UNCHANGED <<fs, blobs, ops, outside>>
<1>1. CASE Malformed \/ Begin \/ BeginFails
  BY <1>1 DEF Malformed, Begin, BeginFails, Untouched, vars
<1>2. CASE Expect \/ Expected
  BY <1>2 DEF Expect, Expected, Untouched, vars
<1>3. CASE OpReplaceRead \/ BadInput \/ Refused \/ AllStaged
  BY <1>3 DEF OpReplaceRead, BadInput, Refused, AllStaged, Up, Untouched, vars
<1> QED
  BY <1>1, <1>2, <1>3

\* The ends that leave the tree alone.
LEMMA FinishIsStill ==
  ASSUME DryRun \/ CommitConflicts \/ CommitBlocked \/ CommitFails
  PROVE  pc # "done" /\ UNCHANGED <<fs, blobs, ops, outside>>
BY DEF DryRun, CommitConflicts, CommitBlocked, CommitFails, Committing, Untouched, vars

\* The steps of the walk of sync that stage nothing.
LEMMA WalkIsStill ==
  ASSUME \/ SyncList \/ SyncExclude \/ SyncStat \/ SyncOther \/ SyncRefused \/ SyncLost \/ SyncEnd
         \/ \E p : Vanish(p)
  PROVE  pc # "done" /\ UNCHANGED <<fs, blobs, ops, outside>>
<1>1. CASE SyncList
  BY <1>1 DEF SyncList, Walking, Unstaged, Ends, Untouched, vars
<1>2. CASE SyncExclude \/ SyncStat \/ SyncOther
  BY <1>2 DEF SyncExclude, SyncStat, SyncOther, AtEntry, Walking, Unstaged, vars
<1>3. CASE SyncRefused \/ SyncLost \/ SyncEnd
  BY <1>3 DEF SyncRefused, SyncLost, SyncEnd, Walking, Ends, Untouched, vars
<1>4. CASE \E p : Vanish(p)
  BY <1>4 DEF Vanish, Unstaged, vars
<1> QED
  BY <1>1, <1>2, <1>3, <1>4

\* An operation of a change set, an entry of the walk: each is staged by one call.
LEMMA StagesOne ==
  ASSUME \/ OpWrite \/ OpMkdir \/ OpRename \/ OpRemove \/ OpRemoveAll \/ OpReplaceWrite
         \/ SyncMkdir \/ SyncFile
  PROVE  /\ pc # "done" /\ pc' # "done" /\ UNCHANGED outside
         /\ \/ \E p, t : StageWrite(p, t)
            \/ \E p : StageCreateDirAll(p) \/ StageRemove(p) \/ StageRemoveDirAll(p)
            \/ \E p, q : StageRename(p, q)
<1>1. CASE OpWrite \/ OpReplaceWrite
  BY <1>1 DEF OpWrite, OpReplaceWrite, Up, Onward
<1>2. CASE OpMkdir \/ OpRemove \/ OpRemoveAll
  BY <1>2 DEF OpMkdir, OpRemove, OpRemoveAll, Up, Onward
<1>3. CASE OpRename
  BY <1>3 DEF OpRename, Up, Onward
<1>4. CASE SyncMkdir
  BY <1>4 DEF SyncMkdir, AtEntry, Walking
<1>5. CASE SyncFile
  BY <1>5 DEF SyncFile, Walking
<1> QED
  BY <1>1, <1>2, <1>3, <1>4, <1>5

\* Every step of either command, and of the other program, keeps the invariant.
LEMMA StepInv ==
  ASSUME IInv, [SNext]_cvars
  PROVE  IInv'
<1>1. CASE \/ Malformed \/ Begin \/ BeginFails \/ Expect \/ Expected \/ OpReplaceRead
           \/ BadInput \/ Refused \/ AllStaged
  BY <1>1, ApplyIsStill, StillStep
<1>2. CASE DryRun \/ CommitConflicts \/ CommitBlocked \/ CommitFails
  BY <1>2, FinishIsStill, StillStep
<1>3. CASE CommitOk \/ CommitUnknown \/ RollbackFails
  BY <1>3, CommitStep
<1>4. CASE Edit
  BY <1>4, EditStep
<1>5. CASE \/ SyncList \/ SyncExclude \/ SyncStat \/ SyncOther \/ SyncRefused \/ SyncLost \/ SyncEnd
           \/ \E p \in DOMAIN source : Vanish(p)
  BY <1>5, WalkIsStill, StillStep
<1>6. CASE \/ OpWrite \/ OpMkdir \/ OpRename \/ OpRemove \/ OpRemoveAll \/ OpReplaceWrite
           \/ SyncMkdir \/ SyncFile
  BY <1>6, StagesOne, StageStep
<1>7. CASE UNCHANGED cvars
  BY <1>7 DEF cvars, vars, cli, IInv, Counts, Untraced, NoTraceUnlessApplied, Done
<1> QED
  BY <1>1, <1>2, <1>3, <1>4, <1>5, <1>6, <1>7 DEF SNext, CNext, Finish

\* Until the command ends, the tree is what it would be without it, and the file system is one in
\* which it can still be told from what the transaction has written under .fstx.
THEOREM Invariance == SSpec => []IInv
<1>1. SInit => IInv
  BY InitInv
<1>2. IInv /\ [SNext]_cvars => IInv'
  BY StepInv
<1> QED
  BY <1>1, <1>2, PTL DEF SSpec

\* Refused, invalid or dry: the tree is as if the program had not been run, whatever the change set
\* or the source tree, whatever another program does meanwhile and whichever calls fail
\* (run_tx and Failure::from_fstx of src/cli/src/main.rs, run_apply of changes.rs).
THEOREM NoTrace == SSpec => []NoTraceUnlessApplied
<1>1. IInv => NoTraceUnlessApplied
  BY DEF IInv
<1> QED
  BY <1>1, Invariance, PTL

-----------------------------------------------------------------------------
(* What commit writes to the journal is read back. *)

\* Sequences of two are equal when their members are.
LEMMA SameTwo ==
  ASSUME NEW S, NEW s \in Seq(S), NEW t \in Seq(S), Len(s) = 2, Len(t) = 2, s[1] = t[1], s[2] = t[2]
  PROVE  s = t
OBVIOUS

\* A sequence of two and one of three, joined.
FiveOf(s, q, r) == s[1] = q[1] /\ s[2] = q[2] /\ s[3] = r[1] /\ s[4] = r[2] /\ s[5] = r[3]

\* A sequence of two and one of three, joined, member by member.
LEMMA JoinFive ==
  ASSUME NEW S, NEW q \in Seq(S), NEW r \in Seq(S), Len(q) = 2, Len(r) = 3
  PROVE  FiveOf(q \o r, q, r)
<1> PICK s : s = q \o r
  OBVIOUS
<1> PICK n \in Nat : n = Len(q)
  OBVIOUS
<1> PICK m \in Nat : m = Len(r)
  OBVIOUS
<1>1. \A i \in 1 .. n + m : s[i] = IF i <= n THEN q[i] ELSE r[i - n]
  BY ConcatProperties
<1>2. n = 2 /\ m = 3
  OBVIOUS
<1>3. \A i \in 1 .. 5 : s[i] = IF i <= 2 THEN q[i] ELSE r[i - 2]
  <2>1. n + m = 5
    BY <1>2
  <2> QED BY <1>1, <1>2, <2>1, Zenon
<1>4. /\ 1 \in 1 .. 5 /\ 2 \in 1 .. 5 /\ 3 \in 1 .. 5 /\ 4 \in 1 .. 5 /\ 5 \in 1 .. 5
      /\ 1 <= 2 /\ 2 <= 2 /\ ~ (3 <= 2) /\ ~ (4 <= 2) /\ ~ (5 <= 2)
      /\ 3 - 2 = 1 /\ 4 - 2 = 2 /\ 5 - 2 = 3
  OBVIOUS
<1>5. s[1] = q[1] /\ s[2] = q[2]
  BY <1>3, <1>4, Zenon
<1>6. s[3] = r[3 - 2] /\ s[4] = r[4 - 2] /\ s[5] = r[5 - 2]
  BY <1>3, <1>4, Zenon
<1>7. s[3] = r[1] /\ s[4] = r[2] /\ s[5] = r[3]
  BY <1>4, <1>6, Zenon
<1>8. FiveOf(s, q, r)
  BY <1>5, <1>7 DEF FiveOf
<1> QED BY <1>8

\* A sequence of five pieces, taken apart at the third.
LEMMA FivePieces ==
  ASSUME NEW h, NEW i, NEW s, NEW c, NEW n
  PROVE  LET b == Two(h, i) \o <<s, c, n>>
         IN  /\ DOMAIN b = 1 .. 5 /\ Len(b) = 5
             /\ b[1] = h /\ b[2] = i /\ b[3] = s /\ b[4] = c /\ b[5] = n
             /\ SubSeq(b, 1, 2) = Two(h, i) /\ SubSeq(b, 4, 5) = Two(c, n)
<1>20. PICK S : h \in S /\ i \in S /\ s \in S /\ c \in S /\ n \in S
  <2>1. h \in {h, i, s, c, n} /\ i \in {h, i, s, c, n} /\ s \in {h, i, s, c, n}
        /\ c \in {h, i, s, c, n} /\ n \in {h, i, s, c, n}
    OBVIOUS
  <2> QED BY <2>1
<1>21. PICK b : b = Two(h, i) \o <<s, c, n>>
  OBVIOUS
<1>1. Two(h, i) \in Seq(S) /\ Len(Two(h, i)) = 2 /\ Two(h, i)[1] = h /\ Two(h, i)[2] = i
  BY <1>20 DEF Two
<1>2. Two(c, n) \in Seq(S) /\ Len(Two(c, n)) = 2 /\ Two(c, n)[1] = c /\ Two(c, n)[2] = n
  BY <1>20 DEF Two
<1>22. PICK r : r = <<s, c, n>>
  OBVIOUS
<1>3. r \in Seq(S) /\ Len(r) = 3 /\ r[1] = s /\ r[2] = c /\ r[3] = n
  BY <1>20, <1>22
<1>23. PICK q : q = Two(h, i)
  OBVIOUS
<1>4. q \in Seq(S) /\ Len(q) = 2 /\ q[1] = h /\ q[2] = i
  BY <1>1, <1>23
<1>5. b = q \o r
  BY <1>21, <1>22, <1>23
<1>6. b \in Seq(S) /\ Len(b) = 5
  <2>1. q \o r \in Seq(S) /\ Len(q \o r) = Len(q) + Len(r)
    BY <1>3, <1>4, ConcatProperties
  <2>2. 2 + 3 = 5
    OBVIOUS
  <2> QED BY <1>3, <1>4, <1>5, <2>1, <2>2
<1>7. b[1] = h /\ b[2] = i /\ b[3] = s /\ b[4] = c /\ b[5] = n
  <2>1. FiveOf(q \o r, q, r)
    BY ONLY <1>3, <1>4, JoinFive
  <2>2. FiveOf(b, q, r)
    BY <1>5, <2>1
  <2>3. b[1] = q[1] /\ b[2] = q[2] /\ b[3] = r[1] /\ b[4] = r[2] /\ b[5] = r[3]
    BY <2>2 DEF FiveOf
  <2> QED BY <1>3, <1>4, <2>3
<1>8. DOMAIN b = 1 .. 5
  BY <1>6
<1>24. PICK x : x = SubSeq(b, 1, 2)
  OBVIOUS
<1>9. x \in Seq(S) /\ Len(x) = 2 /\ x[1] = h /\ x[2] = i
  BY <1>6, <1>7, <1>20, <1>24
<1>10. x = q
  BY <1>4, <1>9, SameTwo
<1>25. PICK y : y = SubSeq(b, 4, 5)
  OBVIOUS
<1>11. y \in Seq(S) /\ Len(y) = 2 /\ y[1] = c /\ y[2] = n
  BY <1>6, <1>7, <1>20, <1>25
<1>26. PICK z : z = Two(c, n)
  OBVIOUS
<1>12. z \in Seq(S) /\ Len(z) = 2 /\ z[1] = c /\ z[2] = n
  BY <1>2, <1>26
<1>13. y = z
  BY <1>11, <1>12, SameTwo
<1> QED BY <1>6, <1>7, <1>8, <1>10, <1>13, <1>21, <1>23, <1>24, <1>25, <1>26

\* The one separator of a serialised journal is the one before its checksum.
LEMMA UnsealedIs ==
  ASSUME NEW j
  PROVE  Unsealed(encode(j)) = j
<1> PICK b : b = encode(j)
  OBVIOUS
<1> PICK h1 : h1 = Half(j, 1)
  OBVIOUS
<1> PICK h2 : h2 = Half(j, 2)
  OBVIOUS
<1> PICK c : c = Sum(Two(h1, h2))
  OBVIOUS
<1>1. b = Two(h1, h2) \o <<SEP, c, NL>> /\ serialised(j) = Two(h1, h2)
  BY DEF encode, serialised, Two
<1>2. /\ DOMAIN b = 1 .. 5 /\ Len(b) = 5
      /\ b[1] = h1 /\ b[2] = h2 /\ b[3] = SEP /\ b[4] = c /\ b[5] = NL
      /\ SubSeq(b, 1, 2) = Two(h1, h2) /\ SubSeq(b, 4, 5) = Two(c, NL)
  BY <1>1, FivePieces
<1>3. h1 # SEP /\ h2 # SEP /\ c # SEP /\ NL # SEP
  BY DEF Half, SEP, Sum, NL
<1>4. {i \in DOMAIN b : b[i] = SEP} = {3}
  <2>1. \A i \in 1 .. 5 : i = 1 \/ i = 2 \/ i = 3 \/ i = 4 \/ i = 5
    OBVIOUS
  <2>2. 3 \in 1 .. 5
    OBVIOUS
  <2> QED BY <1>2, <1>3, <2>1, <2>2
<1>5. Max({3}) = 3
  BY DEF Max
<1>6. 3 - 1 = 2 /\ 3 + 1 = 4
  OBVIOUS
<1> PICK body : body = Two(h1, h2)
  OBVIOUS
<1>7. SubSeq(b, 1, Max({3}) - 1) = body /\ SubSeq(b, Max({3}) + 1, Len(b)) = <<Sum(body), NL>>
  BY <1>2, <1>5, <1>6 DEF Two
<1>8. Unsealed(b) = Parsed(body)
  BY <1>4, <1>7 DEF Unsealed
<1>9. Len(body) = 2 /\ body[1] = h1
  <2>1. Len(Two(h1, h2)) = 2 /\ Two(h1, h2)[1] = h1
    BY ONLY TwoLocs
  <2> QED BY <2>1
<1>10. h1.piece = "half" /\ h1.of = j
  BY DEF Half
<1>11. Parsed(body) = j
  BY <1>1, <1>9, <1>10 DEF Parsed
<1> QED BY <1>8, <1>11

\* decode() accepts a journal of this transaction and this root whose plan passes its checks.
LEMMA DecodeIs ==
  ASSUME NEW tx, NEW root, NEW plan, Validate(plan),
         \A tok \in Range(plan.tokens) :
           Len(tok.locs) >= 2 /\ \A loc \in Range(tok.locs) : LocationOk(tx, loc.path),
         NEW j, j = [format |-> FORMAT, tx |-> tx, root |-> root, plan |-> plan]
  PROVE  decode(encode(j), tx, root) = j
<1>1. Unsealed(encode(j)) = j
  BY UnsealedIs
<1>2. j.format = FORMAT /\ j.tx = tx /\ j.root = root /\ j.plan = plan
  OBVIOUS
<1> QED BY <1>1, <1>2 DEF decode

\* Every location of a compiled plan may stand in the journal of its transaction.
LEMMA LocationsOk ==
  ASSUME NEW f, NEW o, NEW Z, Compilable(f, o, Z), NEW tok \in Range(TokensIn(f, o))
  PROVE  Len(tok.locs) >= 2 /\ \A loc \in Range(tok.locs) : LocationOk(Tx[2], loc.path)
<1>1. PICK out, in : Known(f, o, Z, TokensIn(f, o), out, in)
  BY TokensKnown
<1>2. PICK t \in DOMAIN TokensIn(f, o) : tok = TokensIn(f, o)[t]
  BY DEF Range
<1>3. (\E k, b : Leaver(f, o, Z, tok, k, b)) \/ (\E p : Comer(f, o, tok, p))
  BY <1>1, <1>2 DEF Known, Parted
<1>4. \A home \in {StagedHome, BackupHome} : \A p : InHome(p, home) => LocationOk(Tx[2], p)
  BY HomesAre DEF InHome, LocationOk, Root
<1>5. \A p : GoodPath(p) /\ ~ IsPrivate(p) => LocationOk(Tx[2], p)
  BY DEF GoodPath, LocationOk, Root
<1>6. CASE \E k, b : Leaver(f, o, Z, tok, k, b)
  <2>1. PICK k, b : Leaver(f, o, Z, tok, k, b)
    BY <1>6
  <2>2. GoodPath(b)
    BY <2>1 DEF Leaver, LeftFrom
  <2>3. ASSUME NEW i \in DOMAIN tok.locs PROVE LocationOk(Tx[2], tok.locs[i].path)
    <3> PICK l : l = tok.locs[i]
      OBVIOUS
    <3>1. \/ FirstOf(f, o, tok, l, i, b) \/ AwayAt(f, l, BackupHome, ToString(k))
          \/ EndAt(f, o, tok, l, i) /\ IsBaseAt(o.placed[l.path], b)
      BY <2>1, LeaverLocs
    <3> QED BY <1>4, <1>5, <2>2, <3>1 DEF FirstOf, AwayAt, EndAt
  <2>4. Len(tok.locs) >= 2
    BY <2>1 DEF Leaver
  <2> QED BY <2>3, <2>4 DEF Range
<1>7. CASE \E p : Comer(f, o, tok, p)
  <2>1. PICK p : Comer(f, o, tok, p)
    BY <1>7
  <2>3. ASSUME NEW i \in DOMAIN tok.locs PROVE LocationOk(Tx[2], tok.locs[i].path)
    <3> PICK l : l = tok.locs[i]
      OBVIOUS
    <3>1. \/ i = 1 /\ AwayAt(f, l, StagedHome, StagedName(o.placed[p]))
          \/ EndAt(f, o, tok, l, i) /\ l.path = p
      BY <2>1, ComerLocs
    <3> QED BY <1>4, <1>5, <3>1 DEF AwayAt, EndAt
  <2>4. Len(tok.locs) >= 2
    BY <2>1 DEF Comer
  <2> QED BY <2>3, <2>4 DEF Range
<1> QED BY <1>3, <1>6, <1>7

\* A journal written from what can be compiled reads back as the plan it was written from.
LEMMA ReadBack ==
  ASSUME NEW Z, Compilable(Ready, ov, Z)
  PROVE  JournalIsReadBack
<1> PICK plan : plan = Compile(Ready, ov, Tx)
  OBVIOUS
<1>1. Validate(plan)
  BY CompiledIsSane
<1>2. plan.tokens = TokensIn(Ready, ov)
  BY CompileIs DEF PlanFor
<1>3. \A tok \in Range(plan.tokens) :
        Len(tok.locs) >= 2 /\ \A loc \in Range(tok.locs) : LocationOk(Tx[2], loc.path)
  BY <1>2, LocationsOk
<1> PICK j : j = [format |-> FORMAT, tx |-> Tx[2], root |-> RootIno, plan |-> plan]
  OBVIOUS
<1>4. decode(encode(j), Tx[2], RootIno) = j
  BY <1>1, <1>3, DecodeIs
<1> QED BY <1>4 DEF JournalIsReadBack

-----------------------------------------------------------------------------
(* The tree a transaction begins with: a directory is found at one path only, and nothing is staged. *)

\* Every entry is in a directory, and a directory is found under one entry only.
Tidy(f) ==
  \A s \in DOMAIN f.vol :
    /\ IsNode(f, s[1]) /\ f.kind[s[1]] = "dir"
    /\ \A r \in DOMAIN f.vol : f.vol[r] = f.vol[s] /\ f.kind[f.vol[s]] = "dir" => r = s

\* The directories begin makes, one after the other.
WithPrivate(f, Z, a) ==
  /\ IsOpen(f, Z) /\ Tidy(f) /\ a \in Z /\ f.kind[a] = "dir"
  /\ <<RootIno, PrivateDir>> \in DOMAIN f.vol /\ f.vol[<<RootIno, PrivateDir>>] = a
WithTx(f, Z, a, b) ==
  /\ WithPrivate(f, Z, a) /\ b \in Z /\ f.kind[b] = "dir"
  /\ <<a, "tx">> \in DOMAIN f.vol /\ f.vol[<<a, "tx">>] = b
WithStaged(f, Z, a, b, c) ==
  /\ WithTx(f, Z, a, b) /\ c \in Z /\ c # a /\ c # b /\ f.kind[c] = "dir"
  /\ <<b, "staged">> \in DOMAIN f.vol /\ f.vol[<<b, "staged">>] = c
  /\ \A x : <<c, x>> \notin DOMAIN f.vol
Begun(f) == \E Z, a, b, c : WithStaged(f, Z, a, b, c)

\* What was there is as it was.
SameNodes(f, g) == \A i : IsNode(f, i) /\ i # f.next => g.kind[i] = f.kind[i] /\ IsNode(g, i)

\* An entry is put for a new inode, or for a file.
LEMMA TidyPut ==
  ASSUME NEW f, NEW Z, IsOpen(f, Z), Tidy(f), NEW d \in Nat, NEW c, d < f.next,
         IsNode(f, d), f.kind[d] = "dir", NEW ino,
         ino = f.next \/ (IsNode(f, ino) /\ ino # f.next /\ f.kind[ino] # "dir"),
         NEW g, g.vol = Put(f.vol, <<d, c>>, ino), SameNodes(f, g)
  PROVE  Tidy(g)
<1> PICK slot : slot = <<d, c>>
  OBVIOUS
<1>1. slot[1] = d
  OBVIOUS
<1>2. /\ DOMAIN g.vol = DOMAIN f.vol \union {slot} /\ g.vol[slot] = ino
      /\ \A s \in DOMAIN f.vol : s # slot => g.vol[s] = f.vol[s]
  BY DEF Put
<1>3. \A s \in DOMAIN f.vol : /\ IsNode(f, f.vol[s]) /\ f.vol[s] # f.next
                              /\ IsNode(f, s[1]) /\ s[1] # f.next /\ f.kind[s[1]] = "dir"
  BY DEF IsOpen, Fresh, IsZone, IsImage, Tidy
<1>4. d # f.next
  BY DEF IsOpen, Fresh
<1> SUFFICES ASSUME NEW s \in DOMAIN g.vol
             PROVE  /\ IsNode(g, s[1]) /\ g.kind[s[1]] = "dir"
                    /\ \A r \in DOMAIN g.vol : g.vol[r] = g.vol[s] /\ g.kind[g.vol[s]] = "dir" => r = s
  BY DEF Tidy
<1>5. IsNode(g, s[1]) /\ g.kind[s[1]] = "dir"
  BY <1>1, <1>2, <1>3, <1>4 DEF SameNodes
<1>6. ASSUME NEW r \in DOMAIN g.vol, g.vol[r] = g.vol[s], g.kind[g.vol[s]] = "dir" PROVE r = s
  <2>1. CASE r # slot /\ s # slot
    <3>1. r \in DOMAIN f.vol /\ s \in DOMAIN f.vol /\ f.vol[r] = f.vol[s] /\ g.vol[s] = f.vol[s]
      BY <1>2, <1>6, <2>1
    <3>2. f.kind[f.vol[s]] = "dir"
      BY <1>3, <1>6, <3>1 DEF SameNodes
    <3> QED BY <3>1, <3>2 DEF Tidy
  <2>2. ASSUME NEW x \in DOMAIN f.vol, f.vol[x] = ino, g.kind[ino] = "dir" PROVE FALSE
    <3>1. IsNode(f, ino) /\ ino # f.next
      BY <1>3, <2>2
    <3> QED BY <2>2, <3>1 DEF SameNodes
  <2>3. CASE r = slot /\ s # slot
    BY <1>2, <1>6, <2>2, <2>3
  <2>4. CASE r # slot /\ s = slot
    BY <1>2, <1>6, <2>2, <2>4
  <2> QED BY <2>1, <2>3, <2>4
<1> QED BY <1>5, <1>6

\* What a new inode leaves alone.
LEMMA MakesKeeps ==
  ASSUME NEW f, NEW g, NEW slot, NEW kind \in {"file", "dir"}, NEW data, Makes(f, g, slot, kind,
         data)
  PROVE  SameNodes(f, g) /\ g.kind[f.next] = kind /\ IsNode(g, f.next)
BY DEF Makes, Put, IsNode, SameNodes

\* A directory put where there is nothing, and what that leaves alone.
DirAdded(f, g, Z, slot) ==
  Adds(f, g, Z, slot) /\ Tidy(g) /\ g.kind[f.next] = "dir" /\ SameNodes(f, g)

\* A directory made where there is nothing is added, and nothing else changes.
LEMMA DirAddedIs ==
  ASSUME NEW f, NEW Z, IsOpen(f, Z), Tidy(f), NEW q \in Seq(STRING), NEW c \in STRING,
         NEW d \in Nat, Stat(f, q) = d, d < f.next, IsNode(f, d), f.kind[d] = "dir",
         d \in Z \/ <<d, c>> = <<RootIno, PrivateDir>>
  PROVE  DirAdded(f, PutItem(f, ADir(Append(q, c))), Z, <<d, c>>)
<1>1. IsRecord(f)
  BY DEF IsOpen
<1>2. SlotOf(f, Append(q, c)) = <<d, c>>
  BY DownParent DEF SlotOf, Path, Name, Down
<1>3. /\ ADir(Append(q, c)).path = Append(q, c) /\ ADir(Append(q, c)).link = Root
      /\ ADir(Append(q, c)).kind = "dir"
  BY DEF ADir
<1>4. \E data : Makes(f, PutItem(f, ADir(Append(q, c))), <<d, c>>, "dir", data)
  BY <1>1, <1>2, <1>3, PutNewIs
<1> PICK g : g = PutItem(f, ADir(Append(q, c)))
  OBVIOUS
<1> PICK data : Makes(f, g, <<d, c>>, "dir", data)
  BY <1>4
<1>5. Adds(f, g, Z, <<d, c>>)
  BY PutDirIs
<1>6. SameNodes(f, g) /\ g.kind[f.next] = "dir"
  BY MakesKeeps
<1>7. g.vol = Put(f.vol, <<d, c>>, f.next)
  BY DEF Makes
<1>8. Tidy(g)
  BY <1>6, <1>7, TidyPut
<1> QED BY <1>5, <1>6, <1>8 DEF DirAdded

\* Its own directory, in the empty root ...
LEMMA PrivateMade == \E Z, a : WithPrivate(PutItem(EmptyFs, ADir(<<PrivateDir>>)), Z, a)
<1>1. IsOpen(EmptyFs, {}) /\ Stat(EmptyFs, <<>>) = RootIno
  BY EmptyIsOpen, InoAtRoot DEF Stat
<1>2. /\ RootIno \in Nat /\ RootIno < EmptyFs.next /\ Tidy(EmptyFs)
      /\ IsNode(EmptyFs, RootIno) /\ EmptyFs.kind[RootIno] = "dir"
  BY EmptyIsOpen DEF RootIno, Tidy, EmptyFs, IsNode
<1>3. DirAdded(EmptyFs, PutItem(EmptyFs, ADir(Append(<<>>, PrivateDir))), {}, <<RootIno, PrivateDir>>)
  BY <1>1, <1>2, NamesAssumption, TxPaths, DirAddedIs
<1>4. DirAdded(EmptyFs, PutItem(EmptyFs, ADir(<<PrivateDir>>)), {}, <<RootIno, PrivateDir>>)
  BY <1>3, TxPaths, Zenon
<1> PICK g : g = PutItem(EmptyFs, ADir(<<PrivateDir>>))
  OBVIOUS
<1>5. DirAdded(EmptyFs, g, {}, <<RootIno, PrivateDir>>)
  BY <1>4
<1>6. WithPrivate(g, {} \union {EmptyFs.next}, EmptyFs.next)
  BY <1>5 DEF DirAdded, Adds, WithPrivate
<1> QED BY <1>6

\* ... the one of the transaction in it ...
LEMMA TxMade ==
  ASSUME NEW f, NEW Z, NEW a, WithPrivate(f, Z, a)
  PROVE  \E Y, b : WithTx(PutItem(f, ADir(Tx)), Y, a, b)
<1>1. Stat(f, <<PrivateDir>>) = a
  BY TxAt DEF WithPrivate
<1>2. a \in Nat /\ a < f.next /\ a # RootIno /\ IsNode(f, a) /\ a # f.next
  BY DEF IsOpen, IsZone, WithPrivate, Fresh
<1>3. DirAdded(f, PutItem(f, ADir(Append(<<PrivateDir>>, "tx"))), Z, <<a, "tx">>)
  BY <1>1, <1>2, NamesAssumption, TxPaths, DirAddedIs DEF WithPrivate
<1>4. DirAdded(f, PutItem(f, ADir(Tx)), Z, <<a, "tx">>)
  BY <1>3, TxPaths, Zenon
<1> PICK g : g = PutItem(f, ADir(Tx)) /\ DirAdded(f, g, Z, <<a, "tx">>)
  BY <1>4
<1>5. <<RootIno, PrivateDir>> # <<a, "tx">>
  BY <1>2
<1>6. g.vol[<<RootIno, PrivateDir>>] = a
  BY <1>5 DEF DirAdded, Adds, WithPrivate
<1>7. IsOpen(g, Z \union {f.next}) /\ f.next \in Z \union {f.next} /\ a \in Z \union {f.next} /\ Tidy(g)
  BY DEF DirAdded, Adds, WithPrivate
<1>8. /\ <<RootIno, PrivateDir>> \in DOMAIN g.vol /\ <<a, "tx">> \in DOMAIN g.vol
      /\ g.vol[<<a, "tx">>] = f.next
  BY DEF DirAdded, Adds, WithPrivate
<1>9. g.kind[a] = "dir" /\ g.kind[f.next] = "dir"
  BY <1>2 DEF DirAdded, SameNodes, WithPrivate
<1>10. WithTx(g, Z \union {f.next}, a, f.next)
  BY <1>6, <1>7, <1>8, <1>9 DEF WithTx, WithPrivate
<1> QED BY <1>10

\* ... that of what is staged, with nothing in it ...
LEMMA StagedMade ==
  ASSUME NEW f, NEW Z, NEW a, NEW b, WithTx(f, Z, a, b)
  PROVE  \E Y, c : WithStaged(PutItem(f, ADir(Append(Tx, "staged"))), Y, a, b, c)
<1>1. Stat(f, Tx) = b
  BY TxAt DEF WithTx, WithPrivate
<1>2. /\ b \in Nat /\ b < f.next /\ b # RootIno /\ IsNode(f, b) /\ b # f.next
      /\ a \in Nat /\ a < f.next /\ IsNode(f, a) /\ a # f.next /\ IsOpen(f, Z)
  BY DEF IsOpen, IsZone, WithTx, WithPrivate, Fresh
<1>3. DirAdded(f, PutItem(f, ADir(Append(Tx, "staged"))), Z, <<b, "staged">>)
  BY <1>1, <1>2, NamesAssumption, TxPaths, DirAddedIs DEF WithTx, WithPrivate
<1> PICK g : g = PutItem(f, ADir(Append(Tx, "staged"))) /\ DirAdded(f, g, Z, <<b, "staged">>)
  BY <1>3
<1>4. <<RootIno, PrivateDir>> # <<b, "staged">> /\ <<a, "tx">> # <<b, "staged">>
  <2>1. <<RootIno, PrivateDir>> # <<b, "staged">>
    BY <1>2
  <2> QED BY <2>1
<1>5. g.vol[<<RootIno, PrivateDir>>] = a /\ g.vol[<<a, "tx">>] = b /\ g.vol[<<b, "staged">>] = f.next
  BY <1>4 DEF DirAdded, Adds, WithTx, WithPrivate
<1>6. /\ <<RootIno, PrivateDir>> \in DOMAIN g.vol /\ <<a, "tx">> \in DOMAIN g.vol
      /\ <<b, "staged">> \in DOMAIN g.vol
      /\ a \in Z \union {f.next} /\ b \in Z \union {f.next} /\ f.next \in Z \union {f.next}
  BY DEF DirAdded, Adds, WithTx, WithPrivate
<1>7. ASSUME NEW x PROVE <<f.next, x>> \notin DOMAIN g.vol
  <2>1. <<f.next, x>> # <<b, "staged">>
    BY <1>2
  <2>2. \A s \in DOMAIN f.vol : s[1] # f.next
    BY <1>2 DEF IsOpen, Fresh
  <2>3. <<f.next, x>>[1] = f.next
    OBVIOUS
  <2>4. <<f.next, x>> \notin DOMAIN f.vol
    BY <2>2, <2>3
  <2> QED BY <2>1, <2>4 DEF DirAdded, Adds
<1>8. g.kind[a] = "dir" /\ g.kind[b] = "dir" /\ g.kind[f.next] = "dir"
  BY <1>2 DEF DirAdded, SameNodes, WithTx, WithPrivate
<1>9. IsOpen(g, Z \union {f.next}) /\ Tidy(g)
  BY DEF DirAdded, Adds
<1>10. WithStaged(g, Z \union {f.next}, a, b, f.next)
  BY <1>2, <1>5, <1>6, <1>7, <1>8, <1>9 DEF WithStaged, WithTx, WithPrivate
<1> QED BY <1>10

\* ... and that of the backups.
LEMMA BackupMade ==
  ASSUME NEW f, NEW Z, NEW a, NEW b, NEW c, WithStaged(f, Z, a, b, c)
  PROVE  Begun(PutItem(f, ADir(Append(Tx, "backup"))))
<1>1. Stat(f, Tx) = b
  BY TxAt DEF WithStaged, WithTx, WithPrivate
<1>2. /\ b \in Nat /\ b < f.next /\ b # RootIno /\ IsNode(f, b) /\ b # f.next
      /\ a \in Nat /\ a < f.next /\ IsNode(f, a) /\ a # f.next /\ IsOpen(f, Z)
      /\ c \in Nat /\ c < f.next /\ IsNode(f, c) /\ c # f.next /\ c # b
  BY DEF IsOpen, IsZone, WithStaged, WithTx, WithPrivate, Fresh
<1>3. DirAdded(f, PutItem(f, ADir(Append(Tx, "backup"))), Z, <<b, "backup">>)
  BY <1>1, <1>2, NamesAssumption, TxPaths, DirAddedIs DEF WithStaged, WithTx, WithPrivate
<1> PICK g : g = PutItem(f, ADir(Append(Tx, "backup"))) /\ DirAdded(f, g, Z, <<b, "backup">>)
  BY <1>3
<1>4. /\ <<RootIno, PrivateDir>> # <<b, "backup">> /\ <<a, "tx">> # <<b, "backup">>
      /\ <<b, "staged">> # <<b, "backup">>
  <2>1. <<RootIno, PrivateDir>> # <<b, "backup">>
    BY <1>2
  <2> QED BY <2>1
<1>5. /\ g.vol[<<RootIno, PrivateDir>>] = a /\ g.vol[<<a, "tx">>] = b /\ g.vol[<<b, "staged">>] = c
      /\ <<RootIno, PrivateDir>> \in DOMAIN g.vol /\ <<a, "tx">> \in DOMAIN g.vol
      /\ <<b, "staged">> \in DOMAIN g.vol
  BY <1>4 DEF DirAdded, Adds, WithStaged, WithTx, WithPrivate
<1>6. /\ a \in Z \union {f.next} /\ b \in Z \union {f.next} /\ c \in Z \union {f.next} /\ c # a /\ c # b
      /\ IsOpen(g, Z \union {f.next}) /\ Tidy(g)
  BY DEF DirAdded, Adds, WithStaged, WithTx, WithPrivate
<1>7. ASSUME NEW x PROVE <<c, x>> \notin DOMAIN g.vol
  <2>1. <<c, x>> # <<b, "backup">>
    BY <1>2
  <2> QED BY <2>1 DEF DirAdded, Adds, WithStaged
<1>8. g.kind[a] = "dir" /\ g.kind[b] = "dir" /\ g.kind[c] = "dir"
  BY <1>2 DEF DirAdded, SameNodes, WithStaged, WithTx, WithPrivate
<1>9. WithStaged(g, Z \union {f.next}, a, b, c)
  BY <1>5, <1>6, <1>7, <1>8 DEF WithStaged, WithTx, WithPrivate
<1> QED BY <1>9 DEF Begun

\* The four directories begin makes.
LEMMA TxDirIsBegun == Begun(FsWith(TxDir))
<1> PICK f1 : f1 = PutItem(EmptyFs, ADir(<<PrivateDir>>))
  OBVIOUS
<1> PICK f2 : f2 = PutItem(f1, ADir(Tx))
  OBVIOUS
<1> PICK f3 : f3 = PutItem(f2, ADir(Append(Tx, "staged")))
  OBVIOUS
<1>1. \E Z, a : WithPrivate(f1, Z, a)
  BY PrivateMade
<1>2. \E Z, a, b : WithTx(f2, Z, a, b)
  BY <1>1, TxMade
<1>3. \E Z, a, b, c : WithStaged(f3, Z, a, b, c)
  BY <1>2, StagedMade
<1>4. Begun(PutItem(f3, ADir(Append(Tx, "backup"))))
  BY <1>3, BackupMade
<1> PICK S : S = {ADir(<<PrivateDir>>), ADir(Tx), ADir(Append(Tx, "staged")), ADir(Append(Tx, "backup"))}
  OBVIOUS
<1>5. FsWith(TxDir) = PutItem(f3, ADir(Append(Tx, "backup")))
  BY TxDirFold
<1> QED BY <1>4, <1>5

\* An item of the tree goes elsewhere.
LEMMA ItemBegun ==
  ASSUME NEW f, Begun(f), NEW it, IsItem(f, it)
  PROVE  Begun(PutItem(f, it))
<1> PICK Z, a, b, c : WithStaged(f, Z, a, b, c)
  BY DEF Begun
<1> PICK g : g = PutItem(f, it)
  OBVIOUS
<1>1. /\ IsOpen(f, Z) /\ Tidy(f) /\ a \in Z /\ b \in Z /\ c \in Z /\ IsRecord(f)
      /\ RootIno \notin Z
  BY DEF WithStaged, WithTx, WithPrivate, IsOpen, IsZone
<1>2. IsOpen(g, Z)
  BY <1>1, PutItemKeeps
<1>3. PICK d \in Nat, n \in STRING :
        /\ SlotOf(f, it.path) = <<d, n>> /\ d \notin Z /\ d < f.next
        /\ <<d, n>> # <<RootIno, PrivateDir>>
  <2> PICK p \in Seq(STRING) : p = it.path /\ UserPath(p)
    BY DEF IsItem
  <2>1. \E d \in Nat : \E n \in STRING :
          SlotOf(f, p) = <<d, n>> /\ d \notin Z /\ d < f.next /\ <<d, n>> # <<RootIno, PrivateDir>>
    BY <1>1, UserSlots
  <2> QED BY <2>1
<1>4. IsNode(f, d) /\ f.kind[d] = "dir"
  <2> PICK p \in Path : p = it.path /\ UserPath(p) /\ IsDir(f, Parent(p))
    BY DEF IsItem, Path, Name
  <2>1. Parent(p) \in Path
    BY UserIs
  <2>2. SlotOf(f, p)[1] = Stat(f, Parent(p))
    BY DEF SlotOf
  <2>3. <<d, n>>[1] = d
    OBVIOUS
  <2>4. d = Stat(f, Parent(p))
    BY <1>3, <2>2, <2>3
  <2> QED BY <1>1, <2>1, <2>4, StatIs DEF IsDir
<1> PICK ino : ino = IF it.link = Root THEN f.next ELSE Stat(f, it.link)
  OBVIOUS
<1>5. /\ g.vol = Put(f.vol, <<d, n>>, ino)
      /\ g.kind = IF it.link = Root THEN Put(f.kind, ino, it.kind) ELSE f.kind
      /\ g.data = IF it.link = Root THEN Put(f.data, ino, Text(it.text)) ELSE f.data
  BY <1>1, <1>3, PutItemIs
<1>6. SameNodes(f, g)
  <2>1. CASE it.link = Root
    BY <1>5, <2>1 DEF Put, IsNode, SameNodes
  <2>2. CASE it.link # Root
    BY <1>5, <2>2 DEF IsNode, SameNodes
  <2> QED BY <2>1, <2>2
<1>7. ino = f.next \/ (IsNode(f, ino) /\ ino # f.next /\ f.kind[ino] # "dir")
  <2> SUFFICES ASSUME it.link # Root PROVE IsNode(f, ino) /\ ino # f.next /\ f.kind[ino] # "dir"
    OBVIOUS
  <2> PICK l \in Path : l = it.link /\ Stat(f, l) # NoIno /\ ~ IsDir(f, l)
    BY DEF IsItem, Path, Name
  <2>1. ino = Stat(f, l)
    OBVIOUS
  <2> QED BY <1>1, <2>1, StatIs DEF IsDir
<1>8. Tidy(g)
  BY <1>1, <1>3, <1>4, <1>5, <1>6, <1>7, TidyPut
<1> PICK slot : slot = <<d, n>>
  OBVIOUS
<1>9. /\ DOMAIN g.vol = DOMAIN f.vol \union {slot}
      /\ \A s \in DOMAIN f.vol : s # slot => g.vol[s] = f.vol[s]
  BY <1>5 DEF Put
<1>10. \A z \in Z : \A x : slot # <<z, x>>
  BY <1>3
<1>11. slot # <<RootIno, PrivateDir>> /\ slot # <<a, "tx">> /\ slot # <<b, "staged">>
  BY <1>1, <1>3, <1>10
<1>12. \A i \in {a, b, c} : IsNode(f, i) /\ i # f.next
  BY DEF WithStaged, WithTx, WithPrivate, IsOpen, Fresh
<1>13. g.kind[a] = "dir" /\ g.kind[b] = "dir" /\ g.kind[c] = "dir"
  BY <1>6, <1>12 DEF SameNodes, WithStaged, WithTx, WithPrivate
<1>14. /\ <<RootIno, PrivateDir>> \in DOMAIN g.vol /\ <<a, "tx">> \in DOMAIN g.vol
       /\ <<b, "staged">> \in DOMAIN g.vol
       /\ g.vol[<<RootIno, PrivateDir>>] = a /\ g.vol[<<a, "tx">>] = b /\ g.vol[<<b, "staged">>] = c
       /\ c # a /\ c # b
  BY <1>9, <1>11 DEF WithStaged, WithTx, WithPrivate
<1>15. \A x : <<c, x>> \notin DOMAIN g.vol
  BY <1>1, <1>9, <1>10 DEF WithStaged
<1>16. WithStaged(g, Z, a, b, c)
  BY <1>1, <1>2, <1>8, <1>13, <1>14, <1>15 DEF WithStaged, WithTx, WithPrivate
<1> QED BY <1>16 DEF Begun

\* With the items of the tree put one after the other, the transaction is as begin leaves it.
LEMMA StartIsBegun == Begun(FsWith(TxDir \o Items))
<1> DEFINE S == {ADir(<<PrivateDir>>), ADir(Tx), ADir(Append(Tx, "staged")),
                 ADir(Append(Tx, "backup"))} \union Range(Items)
           Upto(k) == FsWith(TxDir \o SubSeq(Items, 1, k))
           T == {k \in 0 .. Len(Items) : ~ Begun(Upto(k))}
<1>1. TxDir \in Seq(S)
  <2>1. /\ ADir(<<PrivateDir>>) \in S /\ ADir(Tx) \in S /\ ADir(Append(Tx, "staged")) \in S
        /\ ADir(Append(Tx, "backup")) \in S
    OBVIOUS
  <2> QED
    BY <2>1, TxDirFold
<1>2. Items \in Seq(S)
  <2>1. Items \in Seq(Range(Items)) /\ Range(Items) \subseteq S
    BY TreeAssumption
  <2> HIDE DEF S
  <2> QED
    BY <2>1
<1> HIDE DEF S
<1>3. Begun(Upto(0))
  <2>1. SubSeq(Items, 1, 0) = <<>>
    BY <1>2
  <2>2. TxDir \o <<>> = TxDir
    BY <1>1
  <2> QED
    BY <2>1, <2>2, TxDirIsBegun
<1>4. ASSUME NEW k \in Nat, k < Len(Items), Begun(Upto(k)) PROVE Begun(Upto(k + 1))
  <2>1. /\ SubSeq(Items, 1, k) \in Seq(S) /\ Items[k + 1] \in S /\ (k + 1) - 1 = k
        /\ SubSeq(Items, 1, k + 1) = Append(SubSeq(Items, 1, k), Items[k + 1])
    BY <1>2, <1>4, PrefixNext
  <2>2. /\ TxDir \o SubSeq(Items, 1, k + 1) = Append(TxDir \o SubSeq(Items, 1, k), Items[k + 1])
        /\ TxDir \o SubSeq(Items, 1, k) \in Seq(S)
    BY <1>1, <2>1, ConcatNext
  <2>3. Upto(k + 1) = PutItem(Upto(k), Items[k + 1])
    BY <2>1, <2>2, FsWithOneMore
  <2>4. IsItem(Upto(k), Items[k + 1])
    <3>1. k + 1 \in DOMAIN Items
      BY <1>2, <1>4
    <3>2. IsItem(FsWith(TxDir \o SubSeq(Items, 1, (k + 1) - 1)), Items[k + 1])
      BY <3>1, TreeAssumption
    <3> QED
      BY <2>1, <3>2
  <2> HIDE DEF Upto
  <2>5. Begun(PutItem(Upto(k), Items[k + 1]))
    BY <1>4, <2>4, ItemBegun
  <2> QED
    BY <2>3, <2>5
<1>5. T = {}
  <2> HIDE DEF Upto
  <2> SUFFICES ASSUME T # {} PROVE FALSE
    OBVIOUS
  <2>1. Len(Items) \in Nat
    BY <1>2
  <2>2. T \in SUBSET Nat
    BY <2>1
  <2>3. PICK k \in T : \A m \in T : k <= m
    BY <2>2, Least
  <2>4. k # 0
    BY <1>3, <2>3
  <2>5. k - 1 \in Nat /\ k - 1 < Len(Items) /\ (k - 1) + 1 = k /\ k - 1 \in 0 .. Len(Items)
    BY <2>1, <2>3, <2>4
  <2>6. Begun(Upto(k - 1))
    BY <2>3, <2>5
  <2> QED
    BY <1>4, <2>3, <2>5, <2>6
<1>6. SubSeq(Items, 1, Len(Items)) = Items /\ Len(Items) \in 0 .. Len(Items)
  BY <1>2, WholePrefix
<1>7. Begun(Upto(Len(Items)))
  BY <1>5, <1>6
<1> QED
  BY <1>6, <1>7

\* So it is the file system of an open transaction.
LEMMA BegunIsOpen ==
  ASSUME NEW f, Begun(f)
  PROVE  Open(f)
BY DEF Begun, WithStaged, WithTx, WithPrivate, StagedAt, Open

-----------------------------------------------------------------------------
(* The file system, ready for what compile asks of it. *)

\* No path of the base is as long as the bound up to which paths are looked for.
Shallow(f) == \A b \in Path : BaseLookup(f, b) # NoEntry => Len(b) < DepthBound

\* The staged directories are not made yet.
NewDirNames == {StagedName(NewDir(n)) : n \in 0 .. DepthBound * MaxOps}
Unmade(f) == \A c \in NewDirNames : Stat(f, InStaged(c)) = NoIno

Prepared(f) == OnePath(f) /\ Shallow(f) /\ IsDir(f, StagedHome) /\ Unmade(f)

\* An entry is in a directory, and which one it is in is known by where it leads.
LEMMA TidySlot ==
  ASSUME NEW f, NEW Z, IsOpen(f, Z), Tidy(f), NEW q \in Path, NEW c \in Name, Stat(f, Down(q,
         c)) # NoIno
  PROVE  /\ <<Stat(f, q), c>> \in DOMAIN f.vol /\ f.vol[<<Stat(f, q), c>>] = Stat(f, Down(q, c))
         /\ Stat(f, q) # NoIno /\ f.kind[Stat(f, q)] = "dir"
<1> PICK d : d = Stat(f, q)
  OBVIOUS
<1>1. Stat(f, Down(q, c)) = Step(f.vol, d, c)
  BY InoAtNext DEF Stat, Path, Name, Down
<1>2. <<d, c>> \in DOMAIN f.vol /\ f.vol[<<d, c>>] = Stat(f, Down(q, c))
  BY <1>1 DEF Step
<1> PICK s : s = <<d, c>>
  OBVIOUS
<1>3. s[1] = d
  OBVIOUS
<1>4. d # NoIno /\ f.kind[d] = "dir"
  BY <1>2, <1>3 DEF IsOpen, Fresh, Tidy
<1> QED BY <1>2, <1>4

\* So a directory has one path.
LEMMA TidyOnePath ==
  ASSUME NEW f, NEW Z, IsOpen(f, Z), Tidy(f)
  PROVE  OnePath(f)
<1> DEFINE Lone(p) == \A q \in Path : ~ IsPrivate(p) /\ ~ IsPrivate(q) /\ Stat(f, p) = Stat(f, q)
                         /\ Stat(f, p) # NoIno /\ f.kind[Stat(f, p)] = "dir" => p = q
           T == {p \in Path : Lone(p)}
<1>1. \A p \in Path : ~ IsPrivate(p) /\ p # <<>> => Stat(f, p) # RootIno
  BY UserPathsStayOutside DEF IsOpen, Stat, Path, Name, Root
<1>2. Stat(f, <<>>) = RootIno
  BY InoAtRoot DEF Stat
<1>3. Lone(<<>>)
  BY <1>1, <1>2
<1>4. ASSUME NEW p \in Path, Lone(p), NEW c \in Name PROVE Lone(Down(p, c))
  <2> SUFFICES ASSUME NEW q \in Path, ~ IsPrivate(Down(p, c)), ~ IsPrivate(q),
                      Stat(f, Down(p, c)) = Stat(f, q), Stat(f, q) # NoIno,
                      f.kind[Stat(f, q)] = "dir"
               PROVE  Down(p, c) = q
    OBVIOUS
  <2>1. Down(p, c) \in Path /\ Down(p, c) # <<>>
    BY DownPath
  <2>2. q # <<>>
    BY <1>1, <1>2, <2>1
  <2>3. PICK r \in Path : \E e \in Name : q = Down(r, e)
    BY <2>2, DownFrom
  <2>4. PICK e \in Name : q = Down(r, e)
    BY <2>3
  <2> PICK dp : dp = Stat(f, p)
    OBVIOUS
  <2> PICK dr : dr = Stat(f, r)
    OBVIOUS
  <2>5. <<dp, c>> \in DOMAIN f.vol /\ f.vol[<<dp, c>>] = Stat(f, q) /\ dp # NoIno /\ f.kind[dp] = "dir"
    BY TidySlot
  <2>6. <<dr, e>> \in DOMAIN f.vol /\ f.vol[<<dr, e>>] = Stat(f, q)
    BY <2>4, TidySlot
  <2>7. <<dp, c>> = <<dr, e>>
    BY <2>5, <2>6 DEF Tidy
  <2>8. dp = dr /\ c = e
    BY <2>7
  <2>9. ~ IsPrivate(p) /\ ~ IsPrivate(r)
    BY <2>4, PrivateNext DEF IsPrivate, Root
  <2>10. p = r
    BY <1>4, <2>5, <2>8, <2>9
  <2> QED BY <2>4, <2>8, <2>10
<1>5. T = Path
  <2>1. T \in SUBSET Path
    OBVIOUS
  <2>2. <<>> \in T /\ \A x \in T : \A c \in Name : Down(x, c) \in T
    BY <1>3, <1>4, PathFacts
  <2> HIDE DEF T
  <2> QED BY <2>1, <2>2, PathInduction
<1> QED BY <1>5 DEF OnePath

\* The empty overlay shows the base.
LEMMA EmptyShows ==
  ASSUME NEW f, NEW Z, IsOpen(f, Z), Tidy(f), NEW p \in Path
  PROVE  Resolve(f, EmptyOverlay, p) = IF p = <<>> THEN TopEntry ELSE BaseLookup(f, p)
<1> PICK o : o = EmptyOverlay
  OBVIOUS
<1>1. DOMAIN o.placed = {} /\ DOMAIN o.detached = {}
  BY DEF EmptyOverlay
<1> DEFINE Plain(x) == Resolve(f, o, x) = IF x = <<>> THEN TopEntry ELSE BaseLookup(f, x)
           T == {x \in Path : Plain(x)}
<1>2. Plain(<<>>)
  BY ResolveRoot
<1>3. ASSUME NEW q \in Path, Plain(q), NEW c \in Name PROVE Plain(Down(q, c))
  <2> PICK e : e = Resolve(f, o, q)
    OBVIOUS
  <2> PICK x : x = Down(q, c) /\ x \in Path /\ x # <<>>
    BY DownPath
  <2>1. Resolve(f, o, x) = Child(f, o, e, x, c)
    BY ResolveNext
  <2>2. TopEntry.origin = <<>> /\ TopEntry.from = "base" /\ TopEntry.kind = "dir"
    BY DEF TopEntry, Base, NoEntry, Root
  <2>3. CASE e.kind = "dir"
    <3>1. e.from = "base" /\ e.origin = q
      <4>1. CASE q = <<>>
        BY <1>3, <2>2, <4>1
      <4>2. CASE q # <<>>
        BY <1>3, <2>3, <4>2, BaseIs
      <4> QED BY <4>1, <4>2
    <3>2. Child(f, o, e, x, c) = BaseLookup(f, x)
      BY <1>1, <2>3, <3>1 DEF Child, Kept
    <3> QED BY <2>1, <3>2
  <2>4. CASE e.kind # "dir"
    <3>1. q # <<>> /\ e = BaseLookup(f, q)
      BY <1>3, <2>2, <2>4
    <3>2. BaseLookup(f, x) = NoEntry
      <4> SUFFICES ASSUME BaseLookup(f, x) # NoEntry PROVE FALSE
        OBVIOUS
      <4>1. ~ IsPrivate(x) /\ Stat(f, x) # NoIno
        BY BaseIs
      <4>2. ~ IsPrivate(q)
        BY <3>1, <4>1, PrivateNext
      <4>3. Stat(f, q) # NoIno /\ f.kind[Stat(f, q)] = "dir"
        BY <4>1, TidySlot
      <4>4. BaseLookup(f, q) = Base("dir", q, Stat(f, q))
        BY <4>2, <4>3 DEF BaseLookup
      <4>5. BaseLookup(f, q).kind = "dir"
        BY <4>4 DEF Base, NoEntry
      <4> QED BY <2>4, <3>1, <4>5
    <3>3. Child(f, o, e, x, c) = NoEntry
      BY <2>4 DEF Child
    <3> QED BY <2>1, <3>2, <3>3
  <2> QED BY <2>3, <2>4
<1>4. T = Path
  <2>1. T \in SUBSET Path
    OBVIOUS
  <2>2. <<>> \in T /\ \A x \in T : \A c \in Name : Down(x, c) \in T
    BY <1>2, <1>3, PathFacts
  <2> HIDE DEF T
  <2> QED BY <2>1, <2>2, PathInduction
<1> QED BY <1>4

\* What is in the directory of the transaction.
LEMMA HomeStat ==
  ASSUME NEW f, NEW a, NEW b,
         <<RootIno, PrivateDir>> \in DOMAIN f.vol, f.vol[<<RootIno, PrivateDir>>] = a,
         <<a, "tx">> \in DOMAIN f.vol, f.vol[<<a, "tx">>] = b, NEW x \in STRING
  PROVE  Stat(f, Append(Tx, x)) = Step(f.vol, b, x)
<1> PICK tx \in Seq(STRING) : tx = Tx
  BY TxPaths
<1>1. InoAt(f.vol, tx) = b
  BY TxAt DEF Stat
<1>2. InoAt(f.vol, Append(tx, x)) = Step(f.vol, InoAt(f.vol, tx), x)
  BY InoAtNext
<1> QED BY <1>1, <1>2 DEF Stat

\* The names of staged directories are names.
LEMMA NewDirNamed == \A c \in NewDirNames : c \in STRING /\ c \in Name
BY NamesAssumption DEF NewDirNames, Name

\* When the transaction begins, all is prepared.
LEMMA StartPrepared ==
  ASSUME NEW f, f = FsWith(TxDir \o Items)
  PROVE  Prepared(f)
<1> PICK Z, a, b, c : WithStaged(f, Z, a, b, c)
  BY StartIsBegun DEF Begun
<1>1. /\ IsOpen(f, Z) /\ Tidy(f) /\ f.kind[c] = "dir" /\ c \in Z
      /\ <<RootIno, PrivateDir>> \in DOMAIN f.vol /\ f.vol[<<RootIno, PrivateDir>>] = a
      /\ <<a, "tx">> \in DOMAIN f.vol /\ f.vol[<<a, "tx">>] = b
      /\ <<b, "staged">> \in DOMAIN f.vol /\ f.vol[<<b, "staged">>] = c
  BY DEF WithStaged, WithTx, WithPrivate
<1>2. OnePath(f)
  BY <1>1, TidyOnePath
<1>3. IsDir(f, StagedHome)
  <2>1. Stat(f, Append(Tx, "staged")) = Step(f.vol, b, "staged")
    BY <1>1, NamesAssumption, HomeStat
  <2>2. Stat(f, StagedHome) = c
    BY <1>1, <2>1 DEF Step, StagedHome
  <2>3. c # NoIno
    BY <1>1 DEF IsOpen, IsZone
  <2> QED BY <1>1, <2>2, <2>3 DEF IsDir
<1>4. Unmade(f)
  <2> SUFFICES ASSUME NEW x \in NewDirNames PROVE Stat(f, InStaged(x)) = NoIno
    BY DEF Unmade
  <2>1. x \in STRING
    BY NewDirNamed
  <2>2. Stat(f, InStaged(x)) = Step(f.vol, c, x)
    BY <1>1, <2>1, StagedStat
  <2>3. <<c, x>> \notin DOMAIN f.vol
    BY DEF WithStaged
  <2> QED BY <2>2, <2>3 DEF Step
<1>5. Shallow(f)
  <2> SUFFICES ASSUME NEW p \in Path, BaseLookup(f, p) # NoEntry PROVE Len(p) < DepthBound
    BY DEF Shallow
  <2>1. Sound(f, EmptyOverlay)
    BY <1>1, EmptyIsSound
  <2>2. Fits(View(f, EmptyOverlay))
    BY TreeAssumption
  <2>3. View(f, EmptyOverlay) = Tree(f, EmptyOverlay)
    BY <2>1, <2>2, ViewIsTree
  <2>4. CASE p = <<>>
    BY <2>4 DEF DepthBound
  <2>5. CASE p # <<>>
    <3>1. Resolve(f, EmptyOverlay, p) = BaseLookup(f, p)
      BY <1>1, <2>5, EmptyShows
    <3>2. p \in DOMAIN View(f, EmptyOverlay)
      BY <2>3, <2>5, <3>1 DEF Tree, Shown
    <3> QED BY <2>2, <3>2 DEF Fits
  <2> QED BY <2>4, <2>5
<1> QED BY <1>2, <1>3, <1>4, <1>5 DEF Prepared

\* One inode more in the directory of what is staged, and the directories of the transaction.
HomesKept(f, g) ==
  Stat(g, StagedHome) = Stat(f, StagedHome) /\ Stat(g, BackupHome) = Stat(f, BackupHome)

\* What is made in the directory of what is staged.
LEMMA MadeInStaged ==
  ASSUME NEW f, NEW Z, IsOpen(f, Z), StagedAt(f, Z), NEW c \in STRING, NEW kind \in {"file", "dir"},
         NEW data, NEW g, Makes(f, g, SlotOf(f, InStaged(c)), kind, data)
  PROVE  HasBlob(f, g, Z, c, data) /\ HomesKept(f, g) /\ g.kind[f.next] = kind
<1> PICK a \in Z, b \in Z, d \in Z :
      /\ d # a /\ d # b
      /\ <<RootIno, PrivateDir>> \in DOMAIN f.vol /\ f.vol[<<RootIno, PrivateDir>>] = a
      /\ <<a, "tx">> \in DOMAIN f.vol /\ f.vol[<<a, "tx">>] = b
      /\ <<b, "staged">> \in DOMAIN f.vol /\ f.vol[<<b, "staged">>] = d
  BY DEF StagedAt
<1> PICK slot : slot = <<d, c>>
  OBVIOUS
<1>1. IsRecord(f) /\ Fresh(f) /\ IsZone(f.vol, Z) /\ (\A z \in Z : z \in Nat /\ z < f.next)
  BY DEF IsOpen
<1>2. SlotOf(f, InStaged(c)) = slot
  BY StagedSlot DEF InStaged
<1>3. /\ IsRecord(g) /\ g.vol = Put(f.vol, slot, f.next) /\ g.next = f.next + 1
      /\ g.kind = Put(f.kind, f.next, kind) /\ g.data = Put(f.data, f.next, data)
  BY <1>2 DEF Makes
<1>4. /\ DOMAIN g.vol = DOMAIN f.vol \union {slot} /\ g.vol[slot] = f.next
      /\ \A s \in DOMAIN f.vol : s # slot => g.vol[s] = f.vol[s]
  BY <1>3 DEF Put
<1>5. \A i : IsNode(f, i) /\ i # f.next => g.kind[i] = f.kind[i] /\ g.data[i] = f.data[i]
  BY <1>3 DEF Put, IsNode
<1>6. g.data[f.next] = data /\ g.kind[f.next] = kind
  BY <1>3 DEF Put
<1>7. d # RootIno /\ d \in Nat /\ d < f.next
  BY <1>1 DEF IsZone
<1>8. slot # <<RootIno, PrivateDir>> /\ slot # <<a, "tx">> /\ \A x : slot # <<b, x>>
  BY <1>7
<1>9. IsOpen(g, Z \union {f.next})
  BY <1>3, <1>7, InsideKeeps
<1>10. StagedAt(g, Z \union {f.next})
  BY <1>4, <1>8 DEF StagedAt
<1>11. SameOutside(f.vol, g.vol, Z)
  <2> SUFFICES ASSUME NEW e, NEW x, e \notin Z
               PROVE  /\ <<e, x>> \in DOMAIN f.vol <=> <<e, x>> \in DOMAIN g.vol
                      /\ <<e, x>> \in DOMAIN f.vol => f.vol[<<e, x>>] = g.vol[<<e, x>>]
    BY DEF SameOutside
  <2>1. <<e, x>> # slot
    OBVIOUS
  <2> QED
    BY <1>4, <2>1
<1>12. /\ <<RootIno, PrivateDir>> \in DOMAIN g.vol /\ g.vol[<<RootIno, PrivateDir>>] = a
       /\ <<a, "tx">> \in DOMAIN g.vol /\ g.vol[<<a, "tx">>] = b
       /\ <<b, "staged">> \in DOMAIN g.vol /\ g.vol[<<b, "staged">>] = d
  BY <1>4, <1>8
<1>13. ASSUME NEW x \in STRING
       PROVE  /\ Stat(f, InStaged(x)) = Step(f.vol, d, x)
              /\ Stat(g, InStaged(x)) = Step(g.vol, d, x)
  BY <1>12, StagedStat
<1>14. Step(g.vol, d, c) = f.next
  BY <1>4 DEF Step
<1>15. ASSUME NEW x \in STRING, x # c PROVE Step(g.vol, d, x) = Step(f.vol, d, x)
  <2>1. <<d, x>> # slot
    BY <1>15
  <2> QED
    BY <1>4, <2>1 DEF Step
<1>16. HasBlob(f, g, Z, c, data)
  BY <1>5, <1>6, <1>9, <1>10, <1>11, <1>13, <1>14, <1>15 DEF HasBlob
<1>17. ASSUME NEW x \in STRING PROVE Stat(g, Append(Tx, x)) = Stat(f, Append(Tx, x))
  <2>1. Stat(f, Append(Tx, x)) = Step(f.vol, b, x)
    BY HomeStat
  <2>2. Stat(g, Append(Tx, x)) = Step(g.vol, b, x)
    BY <1>12, HomeStat
  <2>3. Step(g.vol, b, x) = Step(f.vol, b, x)
    BY <1>4, <1>8 DEF Step
  <2> QED BY <2>1, <2>2, <2>3
<1>18. HomesKept(f, g)
  BY <1>17, NamesAssumption DEF HomesKept, StagedHome, BackupHome
<1> QED BY <1>6, <1>16, <1>18

\* Making a node, by any of the calls that do.
LEMMA NewNodeIs ==
  ASSUME NEW f, IsRecord(f), NEW p, NEW kind \in {"file", "dir"}, NEW data
  PROVE  Makes(f, NewNode(f, p, kind, data), SlotOf(f, p), kind, data)
<1> DEFINE made == [f EXCEPT !.vol = Put(@, SlotOf(f, p), f.next),
                             !.kind = Put(@, f.next, kind),
                             !.data = Put(@, f.next, data),
                             !.ddata = Put(@, f.next, Blank),
                             !.dirty = IF kind = "file" THEN @ \union {f.next} ELSE @,
                             !.next = @ + 1]
<1>1. /\ IsRecord(made) /\ made.vol = Put(f.vol, SlotOf(f, p), f.next) /\ made.next = f.next + 1
      /\ made.kind = Put(f.kind, f.next, kind) /\ made.data = Put(f.data, f.next, data)
  BY DEF IsRecord
<1>2. NewNode(f, p, kind, data) = Record(made, Op(NoSlot, SlotOf(f, p), f.next, kind = "dir"))
  BY DEF NewNode
<1> HIDE DEF made
<1>3. ASSUME NEW op
      PROVE  /\ IsRecord(Record(made, op)) /\ Record(made, op).vol = made.vol
             /\ Record(made, op).next = made.next /\ Record(made, op).kind = made.kind
             /\ Record(made, op).data = made.data
  BY Zenon, <1>1 DEF IsRecord, Record
<1> QED BY <1>1, <1>2, <1>3 DEF Makes

\* The two calls that make an entry.
LEMMA CallMakes ==
  ASSUME NEW f, IsRecord(f), NEW p, NEW data
  PROVE  /\ Makes(f, Do(f, Create(p, data)), SlotOf(f, p), "file", data)
         /\ Makes(f, Do(f, Mkdir(p)), SlotOf(f, p), "dir", Blank)
<1>1. Do(f, Create(p, data)) = NewNode(f, p, "file", data) /\ Do(f, Mkdir(p)) = NewNode(f, p, "dir", Blank)
  BY DEF Do, Create, Mkdir
<1> QED BY <1>1, NewNodeIs

\* What is prepared is not unprepared by a blob, or by a staged directory of another name.
LEMMA PreparedStays ==
  ASSUME NEW f, NEW Z, IsOpen(f, Z), NEW g, NEW c, NEW data, HasBlob(f, g, Z, c, data),
         HomesKept(f, g),
         Prepared(f), c \notin NewDirNames
  PROVE  Prepared(g)
<1>1. ASSUME NEW p \in Path, ~ IsPrivate(p) PROVE Stat(g, p) = Stat(f, p)
  <2>1. IsZone(f.vol, Z) /\ SameOutside(f.vol, g.vol, Z)
    BY DEF IsOpen, HasBlob
  <2> QED BY <1>1, <2>1, SamePaths DEF Path, Name, Stat
<1>2. ASSUME NEW p \in Path, Stat(f, p) # NoIno PROVE g.kind[Stat(f, p)] = f.kind[Stat(f, p)]
  BY <1>2, StatIs DEF HasBlob
<1>3. OnePath(g)
  BY <1>1, <1>2 DEF Prepared, OnePath
<1>4. Shallow(g)
  BY SameBase DEF Prepared, Shallow
<1>5. IsDir(g, StagedHome)
  BY <1>2, HomesAre DEF Prepared, IsDir, HomesKept
<1>6. Unmade(g)
  BY NewDirNamed DEF Prepared, Unmade, HasBlob
<1> QED BY <1>3, <1>4, <1>5, <1>6 DEF Prepared

-----------------------------------------------------------------------------
(* The staged directories are made. *)

\* Calls made one after the other.
RunNext(x, r, c) ==
  IF r.ok /\ Can(r.fs, c) THEN [ok |-> TRUE, fs |-> Do(r.fs, c)] ELSE [r EXCEPT !.ok = FALSE]
RunFrom(x) == [ok |-> TRUE, fs |-> x]

Running == INSTANCE FoldLemmas WITH Op <- RunNext, Base <- RunFrom

\* They are the fold of FoldLemmas.
LEMMA RunIsFold ==
  ASSUME NEW f, NEW calls
  PROVE  Run(f, calls) = Running!Fold(f, calls)
BY DEF Run, RunNext, RunFrom, Running!Fold, FoldLeft, MapThenFoldSet,
       Running!MapThenFoldSet, Max, Running!Largest

\* No call to run.
LEMMA RunNone ==
  ASSUME NEW f
  PROVE  Run(f, <<>>) = [ok |-> TRUE, fs |-> f]
BY RunIsFold, Running!FoldEmpty, Least DEF Running!WellOrdered, RunFrom

\* One call more, after calls that all succeeded.
LEMMA RunOneMore ==
  ASSUME NEW f, NEW S, NEW s \in Seq(S), NEW c \in S, NEW g, Run(f, s) = [ok |-> TRUE, fs |-> g],
         Can(g, c)
  PROVE  Run(f, Append(s, c)) = [ok |-> TRUE, fs |-> Do(g, c)]
<1>0. Running!Fold(f, Append(s, c)) = RunNext(f, Running!Fold(f, s), c)
  BY Running!FoldAppend, Least DEF Running!WellOrdered
<1>1. Run(f, Append(s, c)) = RunNext(f, Run(f, s), c)
  BY <1>0, RunIsFold
<1> PICK r : r = Run(f, s)
  OBVIOUS
<1>2. r.ok /\ r.fs = g
  OBVIOUS
<1> QED BY <1>1, <1>2 DEF RunNext

\* The first k of some directories are made in staged/.
MadeUpTo(f, g, Y, names, k) ==
  /\ IsOpen(g, Y) /\ StagedAt(g, Y) /\ IsDir(g, StagedHome) /\ HomesKept(f, g)
  /\ \A b \in Path : BaseLookup(g, b) = BaseLookup(f, b)
  /\ \A i \in DOMAIN names : i > k => Stat(g, InStaged(names[i])) = NoIno
  /\ \A i \in 1 .. k :
       /\ Stat(g, InStaged(names[i])) \in Y \ {Stat(f, StagedHome), Stat(f, BackupHome)}
       /\ \A j \in 1 .. k : Stat(g, InStaged(names[j])) = Stat(g, InStaged(names[i])) => j = i

\* Each of them can be made, and the others stay as they are.
LEMMA MadeOneMore ==
  ASSUME NEW f, NEW g, NEW Y, NEW n \in Nat, NEW names, DOMAIN names = 1 .. n,
         \A i \in 1 .. n : names[i] \in STRING /\ InStaged(names[i]) \in Path /\ Parent(InStaged(names[i])) = StagedHome,
         \A i, j \in 1 .. n : names[i] = names[j] => i = j,
         NEW k \in Nat, k < n, MadeUpTo(f, g, Y, names, k)
  PROVE  LET c == Mkdir(InStaged(names[k + 1]))
         IN  Can(g, c) /\ \E X : MadeUpTo(f, Do(g, c), X, names, k + 1)
<1> PICK m \in 1 .. n : m = k + 1 /\ m > k
  OBVIOUS
<1> PICK c \in STRING : c = names[m]
  OBVIOUS
<1> PICK p \in Path : p = InStaged(c) /\ Parent(p) = StagedHome
  OBVIOUS
<1>1. IsOpen(g, Y) /\ StagedAt(g, Y) /\ IsDir(g, StagedHome) /\ IsRecord(g) /\ Stat(g, p) = NoIno
  BY DEF MadeUpTo, IsOpen
<1>2. Can(g, Mkdir(p))
  BY <1>1 DEF Can, Mkdir, Free
<1> PICK h : h = Do(g, Mkdir(p))
  OBVIOUS
<1>3. HasBlob(g, h, Y, c, Blank) /\ HomesKept(g, h)
  BY <1>1, CallMakes, MadeInStaged
<1> PICK X : X = Y \union {g.next}
  OBVIOUS
<1>4. IsOpen(h, X) /\ StagedAt(h, X) /\ HomesKept(f, h)
  BY <1>3 DEF HasBlob, HomesKept, MadeUpTo
<1>5. \A b \in Path : BaseLookup(h, b) = BaseLookup(f, b)
  BY <1>1, <1>3, SameBase DEF MadeUpTo
<1>6. IsDir(h, StagedHome)
  <2>1. IsNode(g, Stat(g, StagedHome)) /\ Stat(g, StagedHome) # g.next
    BY <1>1, HomesAre, StatIs DEF IsDir
  <2> QED BY <1>1, <1>3, <2>1 DEF HasBlob, HomesKept, IsDir
<1>7. Stat(h, p) = g.next
  BY <1>3 DEF HasBlob
<1>8. ASSUME NEW i \in 1 .. n, i # m
      PROVE  Stat(h, InStaged(names[i])) = Stat(g, InStaged(names[i])) /\ Stat(g, InStaged(names[i])) # g.next
  <2>1. names[i] # c /\ names[i] \in STRING /\ InStaged(names[i]) \in Path
    BY <1>8
  <2>2. Stat(g, InStaged(names[i])) = NoIno \/ Stat(g, InStaged(names[i])) # g.next
    BY <1>1, <2>1, StatIs
  <2>3. g.next # NoIno
    BY <1>1 DEF IsOpen, Fresh, RootIno, NoIno
  <2> QED BY <1>3, <2>1, <2>2, <2>3 DEF HasBlob
<1>9. ASSUME NEW i \in DOMAIN names, i > k + 1 PROVE Stat(h, InStaged(names[i])) = NoIno
  <2>1. i \in 1 .. n /\ i # m /\ i > k
    BY <1>9
  <2> QED BY <1>8, <2>1 DEF MadeUpTo
<1>10. g.next \in X \ {Stat(f, StagedHome), Stat(f, BackupHome)}
  <2>1. \A home \in {StagedHome, BackupHome} : Stat(g, home) # g.next
    <3>1. g.next # NoIno
      BY <1>1 DEF IsOpen, Fresh, RootIno, NoIno
    <3> QED BY <1>1, <3>1, HomesAre, StatIs
  <2> QED BY <2>1 DEF MadeUpTo, HomesKept
<1>11. \A i \in 1 .. k + 1 : i = m \/ (i \in 1 .. k /\ i \in 1 .. n /\ i # m)
  OBVIOUS
<1>12. ASSUME NEW i \in 1 .. k + 1
       PROVE  Stat(h, InStaged(names[i])) \in X \ {Stat(f, StagedHome), Stat(f, BackupHome)}
  <2>1. CASE i = m
    BY <1>7, <1>10, <2>1
  <2>2. CASE i \in 1 .. k /\ i \in 1 .. n /\ i # m
    BY <1>8, <2>2 DEF MadeUpTo
  <2> QED BY <1>11, <2>1, <2>2
<1>13. ASSUME NEW i \in 1 .. k + 1, NEW j \in 1 .. k + 1,
              Stat(h, InStaged(names[j])) = Stat(h, InStaged(names[i]))
       PROVE  j = i
  <2>1. CASE i = m
    BY <1>7, <1>8, <1>11, <1>13, <2>1
  <2>2. CASE j = m
    BY <1>7, <1>8, <1>11, <1>13, <2>2
  <2>3. CASE i # m /\ j # m
    BY <1>8, <1>11, <1>13, <2>3 DEF MadeUpTo
  <2> QED BY <2>1, <2>2, <2>3
<1>14. MadeUpTo(f, h, X, names, k + 1)
  BY <1>4, <1>5, <1>6, <1>9, <1>12, <1>13 DEF MadeUpTo
<1> QED BY <1>2, <1>14

\* The calls up to one more.
LEMMA CallsNext ==
  ASSUME NEW S, NEW calls \in Seq(S), NEW n \in Nat, Len(calls) = n, NEW k \in Nat, k < n, NEW c,
         calls[k + 1] = c
  PROVE  /\ SubSeq(calls, 1, k) \in Seq(S) /\ c \in S
         /\ SubSeq(calls, 1, k + 1) = Append(SubSeq(calls, 1, k), c)
<1>1. k + 1 \in 1 .. Len(calls)
  OBVIOUS
<1> QED BY <1>1, PrefixNext

\* So all of them are.
LEMMA MadeThemAll ==
  ASSUME NEW f, NEW Y, NEW n \in Nat, NEW names, DOMAIN names = 1 .. n,
         \A i \in 1 .. n : names[i] \in STRING /\ InStaged(names[i]) \in Path /\ Parent(InStaged(names[i])) = StagedHome,
         \A i, j \in 1 .. n : names[i] = names[j] => i = j,
         MadeUpTo(f, f, Y, names, 0),
         NEW S, NEW calls \in Seq(S), Len(calls) = n,
         \A i \in 1 .. n : calls[i] = Mkdir(InStaged(names[i]))
  PROVE  \E g, X : Run(f, calls) = [ok |-> TRUE, fs |-> g] /\ MadeUpTo(f, g, X, names, n)
<1> DEFINE SoFar(k) == \E g, X : /\ Run(f, SubSeq(calls, 1, k)) = [ok |-> TRUE, fs |-> g]
                                /\ MadeUpTo(f, g, X, names, k)
           T == {k \in 0 .. n : ~ SoFar(k)}
<1>2. SoFar(0)
  <2>1. SubSeq(calls, 1, 0) = <<>>
    OBVIOUS
  <2> QED BY <2>1, RunNone
<1>3. ASSUME NEW k \in Nat, k < n, SoFar(k) PROVE SoFar(k + 1)
  <2>1. PICK g, X : Run(f, SubSeq(calls, 1, k)) = [ok |-> TRUE, fs |-> g] /\ MadeUpTo(f, g, X, names, k)
    BY <1>3
  <2>2. k + 1 \in 1 .. n
    BY <1>3
  <2>3. PICK c : c = Mkdir(InStaged(names[k + 1]))
    OBVIOUS
  <2>4. Can(g, c) /\ \E W : MadeUpTo(f, Do(g, c), W, names, k + 1)
    BY <1>3, <2>1, <2>3, MadeOneMore
  <2>5. calls[k + 1] = c
    BY <2>2, <2>3
  <2>6. PICK s : s = SubSeq(calls, 1, k)
    OBVIOUS
  <2>7. s \in Seq(S) /\ c \in S /\ SubSeq(calls, 1, k + 1) = Append(s, c)
    BY <1>3, <2>5, <2>6, CallsNext
  <2>8. Run(f, s) = [ok |-> TRUE, fs |-> g]
    BY <2>1, <2>6
  <2>9. Run(f, Append(s, c)) = [ok |-> TRUE, fs |-> Do(g, c)]
    BY ONLY <2>4, <2>7, <2>8, RunOneMore
  <2> QED BY <2>4, <2>7, <2>9
<1>4. T = {}
  <2> HIDE DEF SoFar
  <2> SUFFICES ASSUME T # {} PROVE FALSE
    OBVIOUS
  <2>1. T \in SUBSET Nat
    OBVIOUS
  <2>2. PICK k \in T : \A m \in T : k <= m
    BY <2>1, Least
  <2>3. k # 0
    BY <1>2, <2>2
  <2>4. k - 1 \in Nat /\ k - 1 < n /\ (k - 1) + 1 = k /\ k - 1 \in 0 .. n
    BY <2>2, <2>3
  <2>5. SoFar(k - 1)
    BY <2>2, <2>4
  <2> QED BY <1>3, <2>2, <2>4, <2>5
<1>5. SubSeq(calls, 1, n) = calls /\ n \in 0 .. n
  BY WholePrefix
<1>6. SoFar(n)
  BY <1>4, <1>5
<1> QED BY <1>5, <1>6

-----------------------------------------------------------------------------
(* What commit is given: the overlay, and the file system with the staged directories made. *)

\* What is detached is the base entry at its path; what is shown is of a known kind; and a blob or a
\* staged directory is shown at one place.
Noted(f, o) ==
  \A b \in DOMAIN o.detached :
    /\ BaseLookup(f, b) # NoEntry
    /\ o.detached[b].id = BaseLookup(f, b).id /\ o.detached[b].kind = BaseLookup(f, b).kind
FromKnown(f, o) ==
  \A p \in Path : Resolve(f, o, p) = NoEntry \/ Resolve(f, o, p).from \in {"base", "blob", "new"}
Unique(f, o) ==
  \A p, q \in Path :
    Resolve(f, o, p).from \in {"blob", "new"} /\ Resolve(f, o, q) = Resolve(f, o, p) => p = q

ShownKnown(f, o) == IsFiniteSet(DOMAIN o.placed) /\ FromKnown(f, o) /\ Unique(f, o)

\* After n operations.
NotedUpTo(f, o, n) ==
  IsFiniteSet(DOMAIN o.detached) /\ Cardinality(DOMAIN o.detached) <= n /\ Noted(f, o)
Held(f, o, n) == ShownKnown(f, o) /\ NotedUpTo(f, o, n) /\ o.nextDir <= DepthBound * n

\* All that is needed of the overlay, and of the file system, after n operations of which b wrote.
Committable(f, Z, o, n, b) ==
  /\ IsOpen(f, Z) /\ StagedAt(f, Z) /\ Prepared(f) /\ Sound(f, o) /\ Fits(Tree(f, o))
  /\ n \in 0 .. MaxOps /\ b \in 0 .. n /\ Accounted(f, o, b) /\ Held(f, o, n)

\* Blobs and staged directories have names of their own.
LEMMA StagedNamesAre ==
  ASSUME NEW f, NEW Z, NEW o, NEW n, NEW b, Committable(f, Z, o, n, b), NEW p \in Path
  PROVE  /\ Resolve(f, o, p).from = "blob" =>
              \E m \in 0 .. MaxOps : Resolve(f, o, p) = Blob(m) /\ m < b
         /\ Resolve(f, o, p).from = "new" =>
              \E m \in 0 .. DepthBound * MaxOps : Resolve(f, o, p) = NewDir(m)
<1>1. n \in 0 .. MaxOps /\ b \in 0 .. n /\ MaxOps \in Nat /\ o.nextDir \in Nat /\ o.nextDir <= DepthBound * n
  BY StagingAssumption DEF Committable, Held, ShownKnown, NotedUpTo, Accounted, DirsShown
<1>2. \A m \in 0 .. b - 1 : m \in 0 .. MaxOps /\ m < b
  BY <1>1
<1>3. \A m \in 0 .. o.nextDir - 1 : m \in 0 .. DepthBound * MaxOps
  BY <1>1 DEF DepthBound
<1> QED BY <1>2, <1>3 DEF Committable, Accounted, BlobsShown, DirsShown

\* Two of them with the same name are the same.
LEMMA StagedNamesDiffer ==
  ASSUME NEW f, NEW Z, NEW o, NEW n, NEW b, Committable(f, Z, o, n, b),
         NEW p \in Path, Resolve(f, o, p).from \in {"blob", "new"},
         NEW q \in Path, Resolve(f, o, q).from \in {"blob", "new"},
         StagedName(Resolve(f, o, p)) = StagedName(Resolve(f, o, q))
  PROVE  p = q
<1> PICK d : d = Resolve(f, o, p)
  OBVIOUS
<1> PICK e : e = Resolve(f, o, q)
  OBVIOUS
<1>1. /\ d.from = "blob" => \E m \in 0 .. MaxOps : d = Blob(m)
      /\ d.from = "new" => \E m \in 0 .. DepthBound * MaxOps : d = NewDir(m)
      /\ e.from = "blob" => \E m \in 0 .. MaxOps : e = Blob(m)
      /\ e.from = "new" => \E m \in 0 .. DepthBound * MaxOps : e = NewDir(m)
  BY StagedNamesAre
<1>2. \/ \E m, k \in 0 .. MaxOps : d = Blob(m) /\ e = Blob(k)
      \/ \E m, k \in 0 .. DepthBound * MaxOps : d = NewDir(m) /\ e = NewDir(k)
      \/ \E m \in 0 .. MaxOps, k \in 0 .. DepthBound * MaxOps : d = Blob(m) /\ e = NewDir(k)
      \/ \E m \in 0 .. MaxOps, k \in 0 .. DepthBound * MaxOps : e = Blob(m) /\ d = NewDir(k)
  BY <1>1
<1>3. StagedName(d) = StagedName(e)
  OBVIOUS
<1>4. d = e
  <2>1. CASE \E m, k \in 0 .. MaxOps : d = Blob(m) /\ e = Blob(k)
    <3>1. PICK m \in 0 .. MaxOps, k \in 0 .. MaxOps : d = Blob(m) /\ e = Blob(k)
      BY <2>1
    <3>2. StagedName(Blob(m)) = StagedName(Blob(k))
      BY <1>3, <3>1
    <3>3. m = k
      BY <3>2, NamesAssumption
    <3> QED BY <3>1, <3>3
  <2>2. CASE \E m, k \in 0 .. DepthBound * MaxOps : d = NewDir(m) /\ e = NewDir(k)
    <3>1. PICK m \in 0 .. DepthBound * MaxOps, k \in 0 .. DepthBound * MaxOps : d = NewDir(m) /\ e = NewDir(k)
      BY <2>2
    <3>2. StagedName(NewDir(m)) = StagedName(NewDir(k))
      BY <1>3, <3>1
    <3>3. m = k
      BY <3>2, NamesAssumption
    <3> QED BY <3>1, <3>3
  <2>3. CASE \E m \in 0 .. MaxOps, k \in 0 .. DepthBound * MaxOps : d = Blob(m) /\ e = NewDir(k)
    BY <1>3, <2>3, NamesAssumption
  <2>4. CASE \E m \in 0 .. MaxOps, k \in 0 .. DepthBound * MaxOps : e = Blob(m) /\ d = NewDir(k)
    BY <1>3, <2>4, NamesAssumption
  <2> QED BY <1>2, <2>1, <2>2, <2>3, <2>4
<1> QED BY <1>4 DEF Committable, Held, ShownKnown, NotedUpTo, Unique

\* The staged directories that are still shown.
NewPaths(f, o) == {p \in Attached(f, o) : o.placed[p].from = "new"}
NamesIn(o, new) == [i \in DOMAIN new |-> StagedName(o.placed[new[i]])]

\* A staged directory that is placed is shown there, and is not where it began.
LEMMA NewPathsAre ==
  ASSUME NEW f, NEW o, Sound(f, o), NEW p
  PROVE  /\ p \in NewPaths(f, o) <=> p \in Placements(o) /\ o.placed[p].from = "new"
         /\ p \in Placements(o) => p \in Path /\ p # <<>> /\ Resolve(f, o, p) = o.placed[p]
                                   /\ Resolve(f, o, p) # NoEntry /\ p \in DOMAIN o.placed
<1>1. p \in Noops(f, o) => o.placed[p].from = "base"
  BY DEF Noops, IsBaseAt
<1>2. p \in NewPaths(f, o) <=> p \in Placements(o) /\ o.placed[p].from = "new"
  BY <1>1 DEF NewPaths, Attached
<1> QED BY <1>2, PlacedIsShown DEF Placements

\* Where a name of staged/ is.
LEMMA InStagedIs ==
  ASSUME NEW c \in STRING
  PROVE  InStaged(c) \in Path /\ Parent(InStaged(c)) = StagedHome /\ InStaged(c) = Append(StagedHome, c)
<1>1. InStaged(c) = Down(StagedHome, c) /\ InStaged(c) = Append(StagedHome, c)
  BY DEF InStaged, StagedHome, Down
<1> QED BY <1>1, InStagedPath, DownParent, HomesAre DEF Name

\* The calls that make them.
LEMMA NewDirsAre ==
  ASSUME NEW f, NEW Z, NEW o, NEW n, NEW b, Committable(f, Z, o, n, b),
         NEW new, new = Listing(NewPaths(f, o)), NEW names, names = NamesIn(o, new)
  PROVE  /\ Lists(new, NewPaths(f, o)) /\ Len(new) \in Nat /\ DOMAIN names = 1 .. Len(new)
         /\ DOMAIN new = 1 .. Len(new)
         /\ \A i \in 1 .. Len(new) : /\ new[i] \in NewPaths(f, o) /\ names[i] = StagedName(o.placed[new[i]])
                                     /\ names[i] \in NewDirNames
         /\ \A i, j \in 1 .. Len(new) : names[i] = names[j] => i = j
<1> PICK S : S = NewPaths(f, o)
  OBVIOUS
<1>1. Sound(f, o) /\ IsFiniteSet(DOMAIN o.placed)
  BY DEF Committable, Held, ShownKnown, NotedUpTo
<1>2. S \subseteq DOMAIN o.placed
  BY DEF NewPaths, Attached, Placements
<1>3. Lists(new, S)
  BY <1>1, <1>2, ListingIs, FS_Subset
<1>4. Len(new) \in Nat /\ DOMAIN new = 1 .. Len(new) /\ \A i \in 1 .. Len(new) : new[i] \in S
  BY <1>3 DEF Lists
<1>5. DOMAIN names = 1 .. Len(new) /\ \A i \in 1 .. Len(new) : names[i] = StagedName(o.placed[new[i]])
  BY <1>4 DEF NamesIn
<1>6. ASSUME NEW i \in 1 .. Len(new)
      PROVE  /\ new[i] \in Path /\ Resolve(f, o, new[i]).from = "new"
             /\ names[i] = StagedName(Resolve(f, o, new[i])) /\ names[i] \in NewDirNames
  <2>1. new[i] \in S
    BY <1>4
  <2>2. new[i] \in Path /\ Resolve(f, o, new[i]).from = "new" /\ o.placed[new[i]] = Resolve(f, o, new[i])
    BY <1>1, <2>1, NewPathsAre
  <2>3. PICK m \in 0 .. DepthBound * MaxOps : Resolve(f, o, new[i]) = NewDir(m)
    BY <2>2, StagedNamesAre
  <2>4. names[i] = StagedName(NewDir(m))
    BY <1>5, <2>2, <2>3
  <2> QED BY <1>5, <2>2, <2>4 DEF NewDirNames
<1>7. ASSUME NEW i \in 1 .. Len(new), NEW j \in 1 .. Len(new), names[i] = names[j] PROVE i = j
  <2>1. new[i] = new[j]
    BY <1>6, <1>7, StagedNamesDiffer
  <2> QED BY <1>3, <1>4, <2>1 DEF Lists
<1> QED BY <1>3, <1>4, <1>5, <1>6, <1>7

\* Making the new directories is one call for each, with its name in the staged directory.
LEMMA CallsAre ==
  ASSUME NEW f, NEW Z, NEW o, NEW n, NEW b, Committable(f, Z, o, n, b),
         NEW new, new = Listing(NewPaths(f, o)), NEW names, names = NamesIn(o, new)
  PROVE  \E S : /\ StagedDirs(f, o, Tx) \in Seq(S) /\ Len(StagedDirs(f, o, Tx)) = Len(new)
                /\ \A i \in 1 .. Len(new) : StagedDirs(f, o, Tx)[i] = Mkdir(InStaged(names[i]))
<1>1. /\ Len(new) \in Nat /\ DOMAIN new = 1 .. Len(new)
      /\ \A i \in 1 .. Len(new) : names[i] = StagedName(o.placed[new[i]])
  BY NewDirsAre
<1>2. StagedDirs(f, o, Tx) = [i \in DOMAIN new |-> Mkdir(StagedPath(Tx, o.placed[new[i]]))]
  BY DEF StagedDirs, NewPaths
<1>3. PICK k \in Nat : k = Len(new)
  BY Zenon, <1>1
<1>4. PICK calls : calls = StagedDirs(f, o, Tx)
  OBVIOUS
<1>5. calls = [i \in 1 .. k |-> Mkdir(StagedPath(Tx, o.placed[new[i]]))]
  BY <1>1, <1>2, <1>3, <1>4
<1>6. \A e : StagedPath(Tx, e) = InStaged(StagedName(e))
  BY DEF StagedPath, InStaged
<1>7. \A i \in 1 .. k : calls[i] = Mkdir(InStaged(names[i]))
  BY <1>1, <1>3, <1>5, <1>6
<1>8. PICK S : S = {Mkdir(StagedPath(Tx, o.placed[new[i]])) : i \in 1 .. k}
  OBVIOUS
<1>9. calls \in [1 .. k -> S]
  BY <1>5, <1>8
<1>10. calls \in Seq(S) /\ Len(calls) = k
  BY <1>9
<1> QED BY <1>3, <1>4, <1>7, <1>10

\* Each of them can be made.
LEMMA RunsTo ==
  ASSUME NEW f, NEW Z, NEW o, NEW n, NEW b, Committable(f, Z, o, n, b),
         NEW new, new = Listing(NewPaths(f, o)), NEW names, names = NamesIn(o, new)
  PROVE  \E g, X : /\ Run(f, StagedDirs(f, o, Tx)) = [ok |-> TRUE, fs |-> g]
                   /\ MadeUpTo(f, g, X, names, Len(new))
<1>1. /\ Len(new) \in Nat /\ DOMAIN names = 1 .. Len(new)
      /\ \A i \in 1 .. Len(new) : names[i] \in NewDirNames
      /\ \A i, j \in 1 .. Len(new) : names[i] = names[j] => i = j
  BY NewDirsAre
<1>2. \A i \in 1 .. Len(new) : /\ names[i] \in STRING /\ InStaged(names[i]) \in Path
                               /\ Parent(InStaged(names[i])) = StagedHome
  BY <1>1, NewDirNamed, InStagedIs
<1>3. PICK k \in Nat : k = Len(new)
  BY <1>1
<1>4. MadeUpTo(f, f, Z, names, 0)
  <2>1. IsOpen(f, Z) /\ StagedAt(f, Z) /\ IsDir(f, StagedHome) /\ HomesKept(f, f) /\ Unmade(f)
    BY DEF Committable, Prepared, HomesKept
  <2>2. \A i \in DOMAIN names : Stat(f, InStaged(names[i])) = NoIno
    BY <1>1, <2>1 DEF Unmade
  <2>3. 1 .. 0 = {}
    OBVIOUS
  <2> QED BY <2>1, <2>2, <2>3 DEF MadeUpTo
<1>5. PICK S : /\ StagedDirs(f, o, Tx) \in Seq(S) /\ Len(StagedDirs(f, o, Tx)) = Len(new)
               /\ \A i \in 1 .. Len(new) : StagedDirs(f, o, Tx)[i] = Mkdir(InStaged(names[i]))
  BY CallsAre
<1>6. PICK calls : calls = StagedDirs(f, o, Tx)
  OBVIOUS
<1>7. calls \in Seq(S) /\ Len(calls) = k /\ \A i \in 1 .. k : calls[i] = Mkdir(InStaged(names[i]))
  BY <1>3, <1>5, <1>6
<1>8. \E g, X : Run(f, calls) = [ok |-> TRUE, fs |-> g] /\ MadeUpTo(f, g, X, names, k)
  <2>1. DOMAIN names = 1 .. k
    BY <1>1, <1>3
  <2>2. \A i \in 1 .. k : /\ names[i] \in STRING /\ InStaged(names[i]) \in Path
                          /\ Parent(InStaged(names[i])) = StagedHome
    BY <1>2, <1>3
  <2>3. \A i, j \in 1 .. k : names[i] = names[j] => i = j
    BY <1>1, <1>3
  <2> QED BY ONLY <1>4, <1>7, <2>1, <2>2, <2>3, k \in Nat, MadeThemAll
<1> QED BY <1>3, <1>6, <1>8

\* What is outside .fstx is as it was.
LEMMA MadeOutside ==
  ASSUME NEW f, NEW g, \A p \in Path : BaseLookup(g, p) = BaseLookup(f, p), NEW p \in Path,
         ~ IsPrivate(p)
  PROVE  /\ Stat(g, p) = Stat(f, p)
         /\ Stat(f, p) # NoIno => /\ g.kind[Stat(g, p)] = f.kind[Stat(f, p)]
                                  /\ BaseLookup(f, p).id = Stat(f, p)
                                  /\ BaseLookup(f, p).kind = f.kind[Stat(f, p)]
<1>1. \A x : x = f \/ x = g => (Stat(x, p) # NoIno => BaseLookup(x, p) = Base(x.kind[Stat(x, p)], p, Stat(x, p)))
  BY DEF BaseLookup
<1>2. \A kind, id : Base(kind, p, id).id = id /\ Base(kind, p, id).kind = kind
  BY DEF Base, NoEntry
<1>3. \A x : BaseLookup(x, p) # NoEntry <=> Stat(x, p) # NoIno
  BY BaseIs
<1> QED BY <1>1, <1>2, <1>3

\* Where the directories of the transaction are.
LEMMA HomesAreIn ==
  ASSUME NEW f, NEW Z, IsOpen(f, Z), StagedAt(f, Z)
  PROVE  HomesIn(f, Z) /\ OutsideIs(f, Z)
<1> PICK a \in Z, b \in Z, d \in Z :
      /\ <<RootIno, PrivateDir>> \in DOMAIN f.vol /\ f.vol[<<RootIno, PrivateDir>>] = a
      /\ <<a, "tx">> \in DOMAIN f.vol /\ f.vol[<<a, "tx">>] = b
  BY DEF StagedAt
<1>1. IsZone(f.vol, Z)
  BY DEF IsOpen
<1>2. ASSUME NEW x \in STRING PROVE Stat(f, Append(Tx, x)) \in Z \union {NoIno}
  <2>1. Stat(f, Append(Tx, x)) = Step(f.vol, b, x)
    BY HomeStat
  <2> PICK s : s = <<b, x>>
    OBVIOUS
  <2>2. s[1] = b
    OBVIOUS
  <2>3. s \in DOMAIN f.vol => f.vol[s] \in Z
    BY <1>1, <2>2 DEF IsZone
  <2> QED BY <2>1, <2>3 DEF Step
<1>3. HomesIn(f, Z)
  BY <1>2, NamesAssumption DEF HomesIn, StagedHome, BackupHome
<1>4. OutsideIs(f, Z)
  <2>1. NoIno \notin Z
    BY <1>1 DEF IsZone
  <2>2. ASSUME NEW p \in Path, ~ IsPrivate(p) PROVE Stat(f, p) \notin Z
    BY <1>1, <2>2, UserPathsStayOutside DEF Stat, Path, Name
  <2> QED BY <2>1, <2>2 DEF OutsideIs
<1> QED BY <1>3, <1>4

\* A directory still has one path, and what is detached is still there.
LEMMA MadeKeepsBase ==
  ASSUME NEW f, NEW Z, NEW o, NEW n, NEW b, Committable(f, Z, o, n, b),
         NEW g, \A p \in Path : BaseLookup(g, p) = BaseLookup(f, p)
  PROVE  OnePath(g) /\ NotedIn(g, o)
<1>1. OnePath(g)
  <2>1. OnePath(f)
    BY DEF Committable, Prepared
  <2>2. ASSUME NEW p \in Path, NEW q \in Path, ~ IsPrivate(p), ~ IsPrivate(q), Stat(g, p) = Stat(g, q),
               Stat(g, p) # NoIno, g.kind[Stat(g, p)] = "dir"
        PROVE  p = q
    <3>1. Stat(f, p) = Stat(g, p) /\ Stat(f, q) = Stat(g, q) /\ g.kind[Stat(g, p)] = f.kind[Stat(f, p)]
      BY <2>2, MadeOutside
    <3> QED BY <2>1, <2>2, <3>1 DEF OnePath
  <2> QED BY <2>2 DEF OnePath
<1>2. ASSUME NEW x \in DOMAIN o.detached
      PROVE  /\ x \in Path /\ UserPath(x) /\ Len(x) < DepthBound /\ Stat(g, x) # NoIno
             /\ o.detached[x].id = Stat(g, x) /\ o.detached[x].kind = g.kind[Stat(g, x)]
  <2>1. x \in Path /\ UserPath(x)
    BY DEF Committable, Accounted, Recorded
  <2>2. /\ BaseLookup(f, x) # NoEntry
        /\ o.detached[x].id = BaseLookup(f, x).id /\ o.detached[x].kind = BaseLookup(f, x).kind
    BY DEF Committable, Held, ShownKnown, NotedUpTo, Noted
  <2>3. Len(x) < DepthBound
    BY <2>1, <2>2 DEF Committable, Prepared, Shallow
  <2>4. ~ IsPrivate(x) /\ Stat(f, x) # NoIno
    BY <2>2, BaseIs
  <2> QED BY <2>1, <2>2, <2>3, <2>4, MadeOutside
<1> QED BY <1>1, <1>2 DEF NotedIn

\* What is placed and shown.
LEMMA PlacedKnown ==
  ASSUME NEW f, NEW Z, NEW o, NEW n, NEW b, Committable(f, Z, o, n, b)
  PROVE  EntriesKnown(o)
<1>1. Sound(f, o) /\ Fits(Tree(f, o)) /\ FromKnown(f, o)
  BY DEF Committable, Held, ShownKnown, NotedUpTo
<1>2. ASSUME NEW p \in Placements(o)
      PROVE  /\ p \in Path /\ Resolve(f, o, p) = o.placed[p] /\ Len(p) < DepthBound
             /\ o.placed[p].from \in {"base", "blob", "new"}
             /\ p \in FromStaged(o) => o.placed[p].from \in {"blob", "new"}
  <2>1. p \in Path /\ p # <<>> /\ Resolve(f, o, p) = o.placed[p] /\ Resolve(f, o, p) # NoEntry
    BY <1>1, NewPathsAre
  <2>2. p \in DOMAIN Tree(f, o)
    BY <2>1 DEF Tree, Shown
  <2>3. o.placed[p].from \in {"base", "blob", "new"}
    BY <1>1, <2>1 DEF FromKnown
  <2> QED BY <1>1, <2>1, <2>2, <2>3 DEF Fits, FromStaged
<1>3. ASSUME NEW p \in Placements(o), o.placed[p].from = "blob" PROVE o.placed[p].kind = "file"
  <2>1. PICK m \in 0 .. MaxOps : o.placed[p] = Blob(m)
    BY <1>2, <1>3, StagedNamesAre
  <2> QED BY <2>1 DEF Blob, NoEntry
<1>4. ASSUME NEW p \in FromStaged(o) PROVE StagedName(o.placed[p]) \in Name
  <2>1. p \in Placements(o)
    BY DEF FromStaged
  <2>2. CASE o.placed[p].from = "blob"
    <3>1. PICK m \in 0 .. MaxOps : o.placed[p] = Blob(m)
      BY <1>2, <2>1, <2>2, StagedNamesAre
    <3> QED BY <3>1, NamesAssumption DEF Name
  <2>3. CASE o.placed[p].from = "new"
    <3>1. PICK m \in 0 .. DepthBound * MaxOps : o.placed[p] = NewDir(m)
      BY <1>2, <2>1, <2>3, StagedNamesAre
    <3> QED BY <3>1, NamesAssumption DEF Name
  <2> QED BY <1>2, <2>1, <2>2, <2>3
<1>5. ASSUME NEW p \in FromStaged(o), NEW q \in FromStaged(o), StagedName(o.placed[q]) = StagedName(o.placed[p])
      PROVE  q = p
  <2>1. p \in Placements(o) /\ q \in Placements(o)
    BY DEF FromStaged
  <2> QED BY <1>2, <1>5, <2>1, StagedNamesDiffer
<1> QED BY <1>2, <1>3, <1>4, <1>5 DEF EntriesKnown

\* The staged directories are made, each of its own.
LEMMA MadeAreShown ==
  ASSUME NEW f, NEW Z, NEW o, NEW n, NEW b, Committable(f, Z, o, n, b),
         NEW new, new = Listing(NewPaths(f, o)), NEW names, names = NamesIn(o, new),
         NEW g, NEW X, MadeUpTo(f, g, X, names, Len(new))
  PROVE  NewDirsMade(g, o, X)
<1> PICK N \in Nat : N = Len(new)
  BY NewDirsAre
<1>1. /\ Lists(new, NewPaths(f, o)) /\ DOMAIN new = 1 .. N
      /\ \A i \in 1 .. N : names[i] = StagedName(o.placed[new[i]])
  BY NewDirsAre
<1>2. ASSUME NEW p \in Placements(o), o.placed[p].from = "new"
      PROVE  \E i \in 1 .. N : new[i] = p /\ StagedPath(Tx, o.placed[p]) = InStaged(names[i])
  <2>1. p \in NewPaths(f, o)
    BY <1>2, NewPathsAre DEF Committable
  <2>2. PICK i \in 1 .. N : new[i] = p
    BY <1>1, <2>1 DEF Lists
  <2> QED BY <1>1, <2>2 DEF StagedPath, InStaged
<1>3. /\ \A i \in 1 .. N :
           /\ Stat(g, InStaged(names[i])) \in X \ {Stat(f, StagedHome), Stat(f, BackupHome)}
           /\ \A j \in 1 .. N : Stat(g, InStaged(names[j])) = Stat(g, InStaged(names[i])) => j = i
      /\ Stat(g, StagedHome) = Stat(f, StagedHome) /\ Stat(g, BackupHome) = Stat(f, BackupHome)
  BY DEF MadeUpTo, HomesKept
<1>4. ASSUME NEW p \in Placements(o), o.placed[p].from = "new"
      PROVE  Stat(g, StagedPath(Tx, o.placed[p])) \in X \ {Stat(g, StagedHome), Stat(g, BackupHome)}
  <2>1. PICK i \in 1 .. N : new[i] = p /\ StagedPath(Tx, o.placed[p]) = InStaged(names[i])
    BY <1>2, <1>4
  <2> QED BY <1>3, <2>1
<1>5. ASSUME NEW p \in Placements(o), o.placed[p].from = "new",
             NEW q \in Placements(o), o.placed[q].from = "new",
             Stat(g, StagedPath(Tx, o.placed[q])) = Stat(g, StagedPath(Tx, o.placed[p]))
      PROVE  q = p
  <2>1. PICK i \in 1 .. N : new[i] = p /\ StagedPath(Tx, o.placed[p]) = InStaged(names[i])
    BY <1>2, <1>5
  <2>2. PICK j \in 1 .. N : new[j] = q /\ StagedPath(Tx, o.placed[q]) = InStaged(names[j])
    BY <1>2, <1>5
  <2>3. j = i
    BY <1>3, <1>5, <2>1, <2>2
  <2> QED BY <2>1, <2>2, <2>3
<1> QED BY <1>4, <1>5 DEF NewDirsMade

\* So compile is given what it asks for.
ReadyAs(f, o, g, X) ==
  /\ Compilable(g, o, X) /\ IsOpen(g, X) /\ StagedAt(g, X) /\ IsDir(g, StagedHome)
  /\ HomesKept(f, g) /\ \A p \in Path : BaseLookup(g, p) = BaseLookup(f, p)

\* The file system with the staged directories in it is one that compile can work on.
LEMMA ReadyIs ==
  ASSUME NEW f, NEW Z, NEW o, NEW n, NEW b, Committable(f, Z, o, n, b)
  PROVE  \E X : ReadyAs(f, o, Run(f, StagedDirs(f, o, Tx)).fs, X)
<1>1. PICK new : new = Listing(NewPaths(f, o))
  OBVIOUS
<1>2. PICK names : names = NamesIn(o, new)
  OBVIOUS
<1>3. PICK g, X : Run(f, StagedDirs(f, o, Tx)) = [ok |-> TRUE, fs |-> g] /\ MadeUpTo(f, g, X, names, Len(new))
  BY <1>1, <1>2, RunsTo
<1>4. Run(f, StagedDirs(f, o, Tx)).fs = g
  BY <1>3
<1>5. /\ IsOpen(g, X) /\ StagedAt(g, X) /\ \A p \in Path : BaseLookup(g, p) = BaseLookup(f, p)
      /\ IsDir(g, StagedHome) /\ HomesKept(f, g)
  BY <1>3 DEF MadeUpTo
<1>6. Sound(g, o)
  BY <1>5, SameSound, OpenIsRegular DEF Committable
<1>7. OnePath(g) /\ NotedIn(g, o)
  BY <1>5, MadeKeepsBase
<1>8. HomesIn(g, X) /\ OutsideIs(g, X)
  BY <1>5, HomesAreIn
<1>9. NewDirsMade(g, o, X)
  BY <1>1, <1>2, <1>3, MadeAreShown
<1>10. EntriesKnown(o)
  BY PlacedKnown
<1>11. IsFiniteSet(DOMAIN o.placed) /\ IsFiniteSet(DOMAIN o.detached) /\ Cardinality(DOMAIN o.detached) <= MaxOps
  <2>1. /\ IsFiniteSet(DOMAIN o.placed) /\ IsFiniteSet(DOMAIN o.detached)
        /\ Cardinality(DOMAIN o.detached) <= n /\ n \in 0 .. MaxOps
    BY DEF Committable, Held, ShownKnown, NotedUpTo
  <2>2. Cardinality(DOMAIN o.detached) \in Nat
    BY <2>1, FS_CardinalityType
  <2> QED BY <2>1, <2>2, StagingAssumption
<1> QED BY <1>4, <1>5, <1>6, <1>7, <1>8, <1>9, <1>10, <1>11 DEF Compilable, ReadyAs

-----------------------------------------------------------------------------
(* Every operation keeps what commit needs of the overlay. *)

\* The empty overlay.
LEMMA EmptyHeld ==
  ASSUME NEW f, NEW Z, IsOpen(f, Z), Tidy(f)
  PROVE  Held(f, EmptyOverlay, 0)
<1> PICK o : o = EmptyOverlay
  OBVIOUS
<1>1. DOMAIN o.placed = {} /\ DOMAIN o.detached = {} /\ o.nextDir = 0
  BY DEF EmptyOverlay
<1>2. ASSUME NEW p \in Path PROVE Resolve(f, o, p) = NoEntry \/ Resolve(f, o, p).from = "base"
  <2>1. Resolve(f, o, p) = IF p = <<>> THEN TopEntry ELSE BaseLookup(f, p)
    BY EmptyShows
  <2>2. TopEntry.from = "base"
    BY DEF TopEntry, Base, NoEntry
  <2> QED BY <2>1, <2>2, BaseIs
<1>3. FromKnown(f, o) /\ Unique(f, o)
  BY <1>2, BaseIs DEF FromKnown, Unique
<1>4. IsFiniteSet(DOMAIN o.placed) /\ IsFiniteSet(DOMAIN o.detached) /\ Cardinality(DOMAIN o.detached) <= 0
  BY <1>1, FS_EmptySet
<1>5. Noted(f, o)
  BY <1>1 DEF Noted
<1>6. o.nextDir <= DepthBound * 0
  BY <1>1 DEF DepthBound
<1> QED BY <1>3, <1>4, <1>5, <1>6 DEF Held, ShownKnown, NotedUpTo

\* Only the base matters.
LEMMA HeldElsewhere ==
  ASSUME NEW f, NEW o, Sound(f, o), NEW n, Held(f, o, n), Recorded(f, o),
         NEW g, \A b \in Path : BaseLookup(g, b) = BaseLookup(f, b)
  PROVE  Held(g, o, n)
<1>1. \A p \in Path : Resolve(g, o, p) = Resolve(f, o, p)
  BY SameShown
<1>2. FromKnown(g, o) /\ Unique(g, o)
  BY <1>1 DEF Held, ShownKnown, FromKnown, Unique
<1>3. Noted(g, o)
  BY DEF Held, NotedUpTo, Noted, Recorded
<1> QED BY <1>2, <1>3 DEF Held, ShownKnown, NotedUpTo

\* What leaves its place is noted as it was there.
LEMMA DetachNotes ==
  ASSUME NEW f, NEW o, Sound(f, o), IsOverlay(o), NEW p \in Path, p # <<>>,
         NEW n \in Nat, NotedUpTo(f, o, n),
         NEW o2, o2.detached = Detach(o, Resolve(f, o, p)).detached
  PROVE  NotedUpTo(f, o2, n + 1)
<1> PICK e : e = Resolve(f, o, p)
  OBVIOUS
<1>1. IsFiniteSet(DOMAIN o.detached) /\ Cardinality(DOMAIN o.detached) <= n
  BY DEF NotedUpTo
<1>2. Cardinality(DOMAIN o.detached) \in Nat
  BY <1>1, FS_CardinalityType
<1>3. CASE e.from = "base"
  <2>1. e.origin \in Path /\ e = BaseLookup(f, e.origin) /\ e # NoEntry
    BY <1>3, ShownIs, BaseIs DEF IsBase
  <2>2. PICK b : b = e.origin
    OBVIOUS
  <2>3. PICK r : r = [id |-> e.id, kind |-> e.kind]
    OBVIOUS
  <2>4. o2.detached = Put(o.detached, b, r)
    BY <1>3, <2>2, <2>3 DEF Detach, IsOverlay
  <2>5. /\ DOMAIN o2.detached = DOMAIN o.detached \union {b} /\ o2.detached[b] = r
        /\ \A x \in DOMAIN o.detached : x # b => o2.detached[x] = o.detached[x]
    BY <2>4 DEF Put
  <2>6. r.id = BaseLookup(f, b).id /\ r.kind = BaseLookup(f, b).kind /\ BaseLookup(f, b) # NoEntry
    BY <2>1, <2>2, <2>3
  <2>7. Noted(f, o2)
    BY <2>5, <2>6 DEF NotedUpTo, Noted
  <2>8. PICK D : D = DOMAIN o.detached
    OBVIOUS
  <2>9. IsFiniteSet(D \union {b}) /\ Cardinality(D \union {b}) \in {Cardinality(D), Cardinality(D) + 1}
    BY <1>1, <2>8, FS_AddElement
  <2>10. Cardinality(D \union {b}) <= n + 1
    BY <1>1, <1>2, <2>8, <2>9
  <2> QED BY <2>5, <2>7, <2>8, <2>9, <2>10 DEF NotedUpTo
<1>4. CASE e.from # "base"
  <2>1. o2.detached = o.detached
    BY <1>4 DEF Detach
  <2> QED BY <1>1, <1>2, <2>1 DEF NotedUpTo, Noted
<1> QED BY <1>3, <1>4

\* Something new is placed.
LEMMA SetKnown ==
  ASSUME NEW f, NEW o, Sound(f, o), ShownKnown(f, o), NEW p \in Path, NEW e, Settable(f, o, p, e),
         e.from \in {"blob", "new"}, \A q \in Path : Resolve(f, o, q) # e,
         NEW o2, Sets(f, o, o2, p, e)
  PROVE  ShownKnown(f, o2)
<1>1. \A q \in Path : Resolve(f, o2, q) = IF q = p THEN e ELSE Resolve(f, o, q)
  BY SetsShow
<1>2. FromKnown(f, o2) /\ Unique(f, o2)
  BY <1>1 DEF ShownKnown, FromKnown, Unique
<1>3. IsFiniteSet(DOMAIN o2.placed)
  BY FS_AddElement DEF Sets, ShownKnown
<1> QED BY <1>2, <1>3 DEF ShownKnown

\* Something goes.
LEMMA CutKnown ==
  ASSUME NEW f, NEW o, Sound(f, o), ShownKnown(f, o), NEW p \in Path, UserPath(p),
         Resolve(f, o, p) # NoEntry, NEW o2, Cuts(f, o, o2, p)
  PROVE  ShownKnown(f, o2)
<1>1. \A q \in Path : Resolve(f, o2, q) = IF AtOrBelow(p, q) THEN NoEntry ELSE Resolve(f, o, q)
  BY CutsShow
<1>2. FromKnown(f, o2) /\ Unique(f, o2)
  BY <1>1, BaseIs DEF ShownKnown, FromKnown, Unique
<1>3. PICK kept : kept = {k \in DOMAIN o.placed : ~ IsAncestorOf(p, k)}
  OBVIOUS
<1>4. IsFiniteSet(kept)
  BY <1>3, FS_Subset DEF ShownKnown
<1>5. DOMAIN o2.placed = kept \union {p}
  BY <1>3 DEF Cuts
<1>6. IsFiniteSet(DOMAIN o2.placed)
  BY <1>4, <1>5, FS_AddElement
<1> QED BY <1>2, <1>6 DEF ShownKnown

\* What is shown after a rename was shown before it: there, or where it came from.
LEMMA MovesShow ==
  ASSUME NEW f, NEW o, Sound(f, o), NEW from \in Path, NEW to \in Path, Movable(f, o, from, to),
         NEW o1, Cuts(f, o, o1, from), NEW o2, Moves(f, o, o1, o2, from, to), NEW p \in Path
  PROVE  \/ Resolve(f, o2, p) = NoEntry
         \/ \E q \in Path : Resolve(f, o2, p) = Resolve(f, o, q) /\ MovedFrom(from, to, p, q)
<1>1. CASE AtOrBelow(to, p)
  <2>1. PICK s \in Path : p = Join(to, s)
    BY <1>1, BelowJoin
  <2>2. Resolve(f, o2, p) = Resolve(f, o, Join(from, s)) /\ Join(from, s) \in Path
    BY <2>1, MovesBring, JoinBelow
  <2> QED BY <2>1, <2>2 DEF MovedFrom
<1>2. CASE ~ AtOrBelow(to, p)
  <2>1. Resolve(f, o2, p) = Resolve(f, o1, p)
    BY <1>2, MovesLeave
  <2>2. Resolve(f, o1, p) = IF AtOrBelow(from, p) THEN NoEntry ELSE Resolve(f, o, p)
    BY HalfMoved
  <2> QED BY <2>1, <2>2 DEF MovedFrom
<1> QED BY <1>1, <1>2

\* Two paths that come from one are one.
LEMMA MovedOnce ==
  ASSUME NEW from \in Path, NEW to \in Path, NEW p \in Path, NEW q \in Path, NEW v \in Path,
         MovedFrom(from, to, p, v), MovedFrom(from, to, q, v)
  PROVE  p = q
<1>1. CASE AtOrBelow(from, v)
  <2>1. PICK s \in Path : v = Join(from, s) /\ p = Join(to, s)
    BY <1>1 DEF MovedFrom
  <2>2. PICK t \in Path : v = Join(from, t) /\ q = Join(to, t)
    BY <1>1 DEF MovedFrom
  <2>3. \A x, y, z \in Path : Join(x, y) = Join(x, z) => y = z
    BY JoinFacts
  <2>4. s = t
    BY <2>1, <2>2, <2>3
  <2> QED BY <2>1, <2>2, <2>4
<1>2. CASE ~ AtOrBelow(from, v)
  <2>1. \A s \in Path : v # Join(from, s)
    BY <1>2, JoinBelow
  <2> QED BY <1>2, <2>1 DEF MovedFrom
<1> QED BY <1>1, <1>2

\* The slots that travel are no more than there were.
LEMMA LandedFinite ==
  ASSUME NEW o, IsFiniteSet(DOMAIN o.placed), NEW from \in Path, NEW to \in Path
  PROVE  IsFiniteSet({Join(to, s) : s \in Riders(o, from)})
<1>1. PICK riders : riders = Riders(o, from)
  OBVIOUS
<1>2. PICK there : there = {Join(from, s) : s \in riders}
  OBVIOUS
<1>3. PICK landed : landed = {Join(to, s) : s \in riders}
  OBVIOUS
<1>4. \A s \in riders : s \in Path /\ Join(from, s) \in DOMAIN o.placed
  BY <1>1 DEF Riders
<1>5. there \subseteq DOMAIN o.placed
  BY <1>2, <1>4
<1>6. IsFiniteSet(there)
  BY <1>5, FS_Subset
<1>7. \A s \in riders : \A t \in riders : Join(from, s) = Join(from, t) => s = t
  BY <1>4, JoinFacts
<1>8. PICK back : back = [x \in there |-> CHOOSE s \in riders : x = Join(from, s)]
  OBVIOUS
<1>9. \A s \in riders : back[Join(from, s)] = s
  BY <1>2, <1>7, <1>8
<1>10. PICK m : m = [x \in there |-> Join(to, back[x])]
  OBVIOUS
<1>11. \A x \in there : m[x] \in landed
  BY <1>2, <1>3, <1>9, <1>10
<1>12. \A y \in landed : \E x \in there : m[x] = y
  BY <1>2, <1>3, <1>9, <1>10
<1>13. m \in Surjection(there, landed)
  BY <1>10, <1>11, <1>12 DEF Surjection
<1>14. IsFiniteSet(landed)
  BY <1>6, <1>13, FS_Surjection
<1> QED BY <1>1, <1>3, <1>14

\* Something moves.
LEMMA MoveKnown ==
  ASSUME NEW f, NEW o, Sound(f, o), ShownKnown(f, o),
         NEW from \in Path, NEW to \in Path, Movable(f, o, from, to),
         NEW o1, Cuts(f, o, o1, from), NEW o2, Moves(f, o, o1, o2, from, to)
  PROVE  ShownKnown(f, o2)
<1>1. \A p \in Path : \/ Resolve(f, o2, p) = NoEntry
                      \/ \E q \in Path : Resolve(f, o2, p) = Resolve(f, o, q) /\ MovedFrom(from, to, p, q)
  BY MovesShow
<1>2. FromKnown(f, o2)
  BY <1>1 DEF ShownKnown, FromKnown
<1>3. ASSUME NEW p \in Path, NEW q \in Path, Resolve(f, o2, p).from \in {"blob", "new"},
             Resolve(f, o2, q) = Resolve(f, o2, p)
      PROVE  p = q
  <2>1. Resolve(f, o2, p) # NoEntry
    BY <1>3, BaseIs
  <2>2. PICK v \in Path : Resolve(f, o2, p) = Resolve(f, o, v) /\ MovedFrom(from, to, p, v)
    BY <1>1, <2>1
  <2>3. PICK w \in Path : Resolve(f, o2, q) = Resolve(f, o, w) /\ MovedFrom(from, to, q, w)
    BY <1>1, <1>3, <2>1
  <2>4. v = w
    BY <1>3, <2>2, <2>3 DEF ShownKnown, Unique
  <2> QED BY <2>2, <2>3, <2>4, MovedOnce
<1>4. Unique(f, o2)
  BY <1>3 DEF Unique
<1>5. UserPath(from) /\ Resolve(f, o, from) # NoEntry
  BY DEF Movable
<1>6. IsFiniteSet(DOMAIN o1.placed)
  BY <1>5, CutKnown DEF ShownKnown
<1>7. IsFiniteSet({Join(to, s) : s \in Riders(o, from)})
  BY LandedFinite DEF ShownKnown
<1>8. DOMAIN o2.placed = (DOMAIN o1.placed \union {to}) \union {Join(to, s) : s \in Riders(o, from)}
  BY DEF Moves
<1>9. IsFiniteSet(DOMAIN o1.placed \union {to})
  BY <1>6, FS_AddElement
<1>10. IsFiniteSet(DOMAIN o2.placed)
  <2>1. PICK A : A = DOMAIN o1.placed \union {to}
    OBVIOUS
  <2>2. PICK B : B = {Join(to, s) : s \in Riders(o, from)}
    OBVIOUS
  <2>3. IsFiniteSet(A \union B)
    BY <1>7, <1>9, <2>1, <2>2, FS_Union
  <2> QED BY <1>8, <2>1, <2>2, <2>3
<1> QED BY <1>2, <1>4, <1>10 DEF ShownKnown

-----------------------------------------------------------------------------
(* Directories are made. *)

\* Down to q, from the overlay o.
Grown(f, o, q, a) ==
  ShownKnown(f, a) /\ DirsShown(f, a) /\ a.nextDir <= o.nextDir + Len(q)

\* One more, or it is there.
LEMMA GrownNext ==
  ASSUME NEW f, NEW o, o.nextDir \in Nat, NEW q \in Path, NEW a, Sound(f, a), IsOverlay(a),
         Resolve(f, a, q).kind = "dir", Grown(f, o, q, a), NEW c \in Name, UserPath(Down(q, c)),
         DirsShown(f, MakeNext(<<f, o>>, a, Down(q, c)))
  PROVE  Grown(f, o, Down(q, c), MakeNext(<<f, o>>, a, Down(q, c)))
<1>1. PICK p \in Path : p = Down(q, c) /\ p # <<>> /\ Len(p) = Len(q) + 1 /\ Len(q) \in Nat
  BY PathFacts
<1>2. PICK x : x = <<f, o>>
  OBVIOUS
<1>3. x[1] = f
  BY <1>2
<1>4. ShownKnown(f, a) /\ a.nextDir \in Nat /\ a.nextDir <= o.nextDir + Len(q)
  BY DEF Grown, DirsShown
<1>5. CASE Resolve(f, a, p) # NoEntry
  <2>1. MakeNext(x, a, p) = a
    BY <1>3, <1>5 DEF MakeNext
  <2>2. a.nextDir <= o.nextDir + Len(p)
    BY <1>1, <1>4
  <2> QED BY <1>1, <1>2, <1>4, <2>1, <2>2 DEF Grown
<1>6. CASE Resolve(f, a, p) = NoEntry
  <2>1. PICK e : e = NewDir(a.nextDir)
    OBVIOUS
  <2>2. PICK b : b = MakeDir(a, p)
    OBVIOUS
  <2>3. e.from = "new" /\ e.kind = "dir" /\ \A m : NewDir(m).n = m
    BY <2>1 DEF NewDir, NoEntry
  <2>4. Settable(f, a, p, e)
    BY <1>1, <1>6, <2>3, BaseIs, DownParent DEF Settable
  <2>5. Sets(f, a, b, p, e)
    BY <1>6, <2>1, <2>2, MakeDirSets
  <2>6. ASSUME NEW y \in Path, Resolve(f, a, y) = e PROVE FALSE
    <3>1. PICK m \in 0 .. a.nextDir - 1 : Resolve(f, a, y) = NewDir(m)
      BY <2>3, <2>6 DEF Grown, DirsShown
    <3>2. m = a.nextDir
      BY <2>1, <2>3, <2>6, <3>1
    <3> QED BY <1>4, <3>2
  <2>7. ShownKnown(f, b)
    BY <1>4, <2>3, <2>4, <2>5, <2>6, SetKnown
  <2>8. b.nextDir = a.nextDir + 1
    BY <2>2 DEF MakeDir, Place, IsOverlay
  <2>9. b.nextDir <= o.nextDir + Len(p)
    BY <1>1, <1>4, <2>8
  <2>10. MakeNext(x, a, p) = b
    BY <1>3, <1>6, <2>2 DEF MakeNext
  <2> QED BY <1>1, <1>2, <2>7, <2>9, <2>10 DEF Grown
<1> QED BY <1>5, <1>6

\* All of them.
LEMMA GrownAll ==
  ASSUME NEW f, NEW o, Sound(f, o), IsOverlay(o), ShownKnown(f, o), DirsShown(f, o),
         NEW p \in Path, UserPath(p), CanCreateDirAll(f, o, p)
  PROVE  Grown(f, o, p, Making!Fold(<<f, o>>, Chain(p)))
<1> PICK w : w = <<f, o>>
  OBVIOUS
<1> PICK t : t = Tree(f, o)
  OBVIOUS
<1>0. w[2] = o /\ o.nextDir \in Nat
  BY DEF DirsShown
<1> DEFINE G(q) == AtOrBelow(q, p) =>
                     \E u : /\ MadeTo(f, o, q, Making!Fold(w, Chain(q)), u)
                            /\ Grown(f, o, q, Making!Fold(w, Chain(q)))
           T == {q \in Path : G(q)}
<1>1. G(<<>>)
  <2>1. Making!Fold(w, <<>>) = o
    BY <1>0, Making!FoldEmpty, Least DEF Making!WellOrdered, MakeFrom
  <2>2. TopEntry.kind = "dir"
    BY DEF TopEntry, Base, NoEntry, Root
  <2>3. MadeTo(f, o, <<>>, o, t)
    BY <2>2, ResolveRoot DEF MadeTo
  <2>4. Grown(f, o, <<>>, o)
    BY <1>0 DEF Grown
  <2> QED BY <2>1, <2>3, <2>4, ChainIs
<1>2. ASSUME NEW q \in Path, G(q), NEW c \in Name PROVE G(Down(q, c))
  <2> PICK y \in Path : y = Down(q, c) /\ y # <<>>
    BY DownPath
  <2> SUFFICES ASSUME AtOrBelow(y, p)
               PROVE  \E u : /\ MadeTo(f, o, y, Making!Fold(w, Chain(y)), u)
                             /\ Grown(f, o, y, Making!Fold(w, Chain(y)))
    OBVIOUS
  <2>1. AtOrBelow(q, y)
    BY BelowNext, BelowOrder
  <2>2. AtOrBelow(q, p)
    BY <2>1, BelowOrder
  <2>3. UserPath(y) /\ Resolve(f, o, y).kind \in {"dir", "none"}
    BY CanMakeAll
  <2> PICK a : a = Making!Fold(w, Chain(q))
    OBVIOUS
  <2>4. PICK u : MadeTo(f, o, q, a, u) /\ Grown(f, o, q, a)
    BY <1>2, <2>2
  <2>5. MadeTo(f, o, y, MakeNext(w, a, y), GrowNext(t, u, y))
    BY <2>3, <2>4, MadeNext
  <2>6. DirsShown(f, MakeNext(w, a, y))
    BY <2>5 DEF MadeTo
  <2>7. Sound(f, a) /\ IsOverlay(a) /\ Resolve(f, a, q).kind = "dir"
    BY <2>4 DEF MadeTo
  <2>8. Grown(f, o, y, MakeNext(w, a, y))
    BY <1>0, <2>3, <2>4, <2>6, <2>7, GrownNext
  <2> PICK C \in Seq(Path) : C = Chain(q)
    BY ChainIs
  <2>9. Chain(y) = Append(C, y)
    BY ChainIs
  <2>10. Making!Fold(w, Append(C, y)) = MakeNext(w, a, y)
    BY Making!FoldAppend, Least DEF Making!WellOrdered
  <2> QED BY <2>5, <2>8, <2>9, <2>10
<1> HIDE DEF G
<1>3. T = Path
  <2>1. T \in SUBSET Path
    OBVIOUS
  <2>2. <<>> \in T /\ \A x \in T : \A c \in Name : Down(x, c) \in T
    BY <1>1, <1>2, PathFacts
  <2> HIDE DEF T
  <2> QED BY <2>1, <2>2, PathInduction
<1>4. AtOrBelow(p, p)
  BY BelowOrder
<1> QED BY <1>3, <1>4 DEF G

-----------------------------------------------------------------------------
(* The inductive invariant: after so many operations commit has what it needs. *)

HInv == Prepared(fs) /\ Held(fs, ov, ops)

\* One more operation counts no less.
LEMMA HeldNext ==
  ASSUME NEW f, NEW o, NEW n \in Nat, ShownKnown(f, o), NotedUpTo(f, o, n + 1),
         NEW m \in Nat, m <= DepthBound * n, NEW k \in Nat, k <= DepthBound, o.nextDir = m + k
  PROVE  Held(f, o, n + 1)
<1>1. o.nextDir <= DepthBound * (n + 1)
  BY DEF DepthBound
<1> QED BY <1>1 DEF Held

\* When the transaction begins.
LEMMA StartHeld ==
  ASSUME NEW f, f = FsWith(TxDir \o Items)
  PROVE  Prepared(f) /\ Held(f, EmptyOverlay, 0)
<1>1. PICK Z, a, b, c : WithStaged(f, Z, a, b, c)
  BY StartIsBegun DEF Begun
<1>2. IsOpen(f, Z) /\ Tidy(f)
  BY <1>1 DEF WithStaged, WithTx, WithPrivate
<1>3. Held(f, EmptyOverlay, 0)
  BY <1>2, EmptyHeld
<1>4. Prepared(f)
  BY StartPrepared
<1> QED BY <1>3, <1>4

\* At the start nothing is staged, and so nothing is held.
LEMMA HeldInit == Init => HInv
BY StartHeld DEF Init, HInv

\* What an operation starts from.
CFacts(f, o, n, Z) ==
  /\ n \in Nat /\ n + 1 <= MaxOps
  /\ IsOpen(f, Z) /\ StagedAt(f, Z) /\ Prepared(f) /\ Sound(f, o) /\ IsOverlay(o)
  /\ o.nextDir \in Nat /\ o.nextDir <= DepthBound * n
  /\ ShownKnown(f, o) /\ NotedUpTo(f, o, n) /\ DirsShown(f, o) /\ Recorded(f, o)

\* The invariant gives what an operation starts from.
LEMMA CFactsHold ==
  ASSUME DInv, HInv, Then
  PROVE  \E Z : CFacts(fs, ov, ops, Z)
<1>1. /\ Open(fs) /\ Sound(fs, ov) /\ IsOverlay(ov) /\ ops \in 0 .. MaxOps
      /\ DirsShown(fs, ov) /\ Recorded(fs, ov)
  BY DEF DInv, Accounted
<1>2. PICK Z : IsOpen(fs, Z) /\ StagedAt(fs, Z)
  BY <1>1 DEF Open
<1>3. ops \in Nat /\ ops + 1 <= MaxOps
  BY <1>1, StagingAssumption DEF Then
<1>4. ShownKnown(fs, ov) /\ NotedUpTo(fs, ov, ops) /\ ov.nextDir <= DepthBound * ops /\ Prepared(fs)
  BY DEF HInv, Held
<1>5. ov.nextDir \in Nat
  BY <1>1 DEF DirsShown
<1> QED BY <1>1, <1>2, <1>3, <1>4, <1>5 DEF CFacts

\* An operation that makes no directory.
LEMMA HeldAfter ==
  ASSUME NEW f, NEW o, NEW n, NEW Z, CFacts(f, o, n, Z), NEW p \in Path, p # <<>>,
         NEW o2, ShownKnown(f, o2), o2.nextDir = o.nextDir,
         o2.detached = Detach(o, Resolve(f, o, p)).detached
  PROVE  Held(f, o2, n + 1)
<1>1. NotedUpTo(f, o2, n + 1)
  BY DetachNotes DEF CFacts
<1>2. o.nextDir = o.nextDir + 0 /\ 0 <= DepthBound
  BY DEF DepthBound, CFacts
<1> QED BY <1>1, <1>2, HeldNext DEF CFacts

\* Something is removed.
LEMMA CutHeld ==
  ASSUME NEW f, NEW o, NEW n, NEW Z, CFacts(f, o, n, Z), NEW p \in UserPaths,
         Resolve(f, o, p) # NoEntry
  PROVE  Held(f, Removed(f, o, p), n + 1)
<1>1. p \in Path /\ UserPath(p) /\ p # <<>>
  BY UserPathIs
<1>2. PICK o2 : o2 = Removed(f, o, p)
  OBVIOUS
<1>3. Cuts(f, o, o2, p)
  BY <1>2, RemovedIs DEF CFacts
<1>4. ShownKnown(f, o2)
  BY <1>1, <1>3, CutKnown DEF CFacts
<1>5. o2.nextDir = o.nextDir /\ o2.detached = Detach(o, Resolve(f, o, p)).detached
  BY <1>2, RecordsAre DEF CFacts
<1> QED BY <1>1, <1>2, <1>4, <1>5, HeldAfter

\* Something is renamed, to its own path too.
LEMMA MoveHeld ==
  ASSUME NEW f, NEW o, NEW n, NEW Z, CFacts(f, o, n, Z), NEW p \in UserPaths, NEW q \in UserPaths,
         CanRename(f, o, p, q)
  PROVE  Held(f, RenameTo(f, o, p, q), n + 1)
<1>1. p \in Path /\ UserPath(p) /\ p # <<>> /\ q \in Path /\ UserPath(q) /\ q # <<>>
  BY UserPathIs
<1>2. PICK o2 : o2 = RenameTo(f, o, p, q)
  OBVIOUS
<1>3. CASE p = q
  <2>1. o2 = o
    BY <1>2, <1>3 DEF RenameTo
  <2>2. NotedUpTo(f, o, n + 1)
    <3>1. IsFiniteSet(DOMAIN o.detached) /\ Cardinality(DOMAIN o.detached) <= n /\ Noted(f, o) /\ n \in Nat
      BY DEF CFacts, NotedUpTo
    <3>2. Cardinality(DOMAIN o.detached) \in Nat
      BY <3>1, FS_CardinalityType
    <3>3. Cardinality(DOMAIN o.detached) <= n + 1
      BY <3>1, <3>2
    <3> QED BY <3>1, <3>3 DEF NotedUpTo
  <2>3. o.nextDir = o.nextDir + 0 /\ 0 <= DepthBound
    BY DEF DepthBound, CFacts
  <2> QED BY <1>2, <2>1, <2>2, <2>3, HeldNext DEF CFacts
<1>4. CASE p # q
  <2>1. PICK o1 : o1 = Removed(f, o, p)
    OBVIOUS
  <2>2. Resolve(f, o, p) # NoEntry
    BY <1>1, TreeIs DEF CanRename, CFacts
  <2>3. Movable(f, o, p, q)
    BY <1>1, <1>4, <2>2 DEF Movable, CanRename
  <2>4. Cuts(f, o, o1, p)
    BY <2>1, RemovedIs DEF CFacts
  <2>5. Moves(f, o, o1, o2, p, q)
    BY <1>1, <1>2, <1>4, <2>1, RenameMoves DEF Sound, CFacts
  <2>6. ShownKnown(f, o2)
    BY <1>1, <2>3, <2>4, <2>5, MoveKnown DEF CFacts
  <2>7. o2.nextDir = o.nextDir /\ o2.detached = Detach(o, Resolve(f, o, p)).detached
    BY <1>2, <1>4, RecordsAre DEF CFacts
  <2> QED BY <1>1, <1>2, <2>6, <2>7, HeldAfter
<1> QED BY <1>3, <1>4

\* Directories are made.
LEMMA MkdirHeld ==
  ASSUME NEW f, NEW o, NEW n, NEW Z, CFacts(f, o, n, Z), NEW p \in UserPaths,
         CanCreateDirAll(f, o, p)
  PROVE  Held(f, CreateDirAll(f, o, p), n + 1)
<1>1. p \in Path /\ UserPath(p) /\ p # <<>> /\ Len(p) \in Nat /\ Len(p) <= DepthBound
  BY UserPathIs, StagingAssumption, PathFacts DEF DepthBound
<1>2. PICK o2 : o2 = CreateDirAll(f, o, p)
  OBVIOUS
<1>3. o2.detached = o.detached /\ DirsShown(f, o2)
  BY <1>1, <1>2, MakesTree DEF CFacts
<1>4. Grown(f, o, p, o2)
  <2>1. Grown(f, o, p, Making!Fold(<<f, o>>, Chain(p)))
    BY <1>1, GrownAll DEF CFacts
  <2>2. o2 = Making!Fold(<<f, o>>, Chain(p))
    BY <1>1, <1>2, CreateDirAllIs
  <2> QED BY <2>1, <2>2
<1>5. ShownKnown(f, o2) /\ o2.nextDir <= o.nextDir + Len(p) /\ o2.nextDir \in Nat
  BY <1>3, <1>4 DEF Grown, DirsShown
<1>6. NotedUpTo(f, o2, n + 1)
  <2>1. IsFiniteSet(DOMAIN o.detached) /\ Cardinality(DOMAIN o.detached) <= n /\ Noted(f, o) /\ n \in Nat
    BY DEF CFacts, NotedUpTo
  <2>2. Cardinality(DOMAIN o.detached) \in Nat
    BY <2>1, FS_CardinalityType
  <2>3. Cardinality(DOMAIN o2.detached) <= n + 1
    BY <1>3, <2>1, <2>2
  <2> QED BY <1>3, <2>1, <2>3 DEF NotedUpTo, Noted
<1>7. o2.nextDir <= DepthBound * (n + 1)
  BY <1>1, <1>5 DEF CFacts, DepthBound
<1> QED BY <1>2, <1>5, <1>6, <1>7 DEF Held

\* A file is written.
LEMMA WriteHeld ==
  ASSUME NEW f, NEW o, NEW n, NEW Z, CFacts(f, o, n, Z), NEW p \in UserPaths, CanWrite(f, o, p),
         NEW b \in 0 .. n, BlobsShown(f, o, b)
  PROVE  Held(f, Write(f, o, p, b), n + 1)
<1>1. p \in Path /\ UserPath(p) /\ p # <<>>
  BY UserPathIs
<1>2. PICK e : e = Blob(b)
  OBVIOUS
<1>3. PICK o2 : o2 = Write(f, o, p, b)
  OBVIOUS
<1>4. e.from = "blob" /\ e.kind = "file" /\ e.n = b /\ \A m : Blob(m).n = m
  BY <1>2 DEF Blob, NoEntry
<1>5. Sets(f, o, o2, p, e)
  BY <1>2, <1>3, WriteSets DEF CFacts
<1>6. Settable(f, o, p, e)
  BY <1>1, <1>4 DEF Settable, CanWrite
<1>7. ASSUME NEW y \in Path, Resolve(f, o, y) = e PROVE FALSE
  <2>1. PICK m \in 0 .. b - 1 : Resolve(f, o, y) = Blob(m)
    BY <1>4, <1>7 DEF BlobsShown
  <2>2. m = b
    BY <1>4, <1>7, <2>1
  <2> QED BY <2>2 DEF CFacts
<1>8. ShownKnown(f, o2)
  BY <1>1, <1>4, <1>5, <1>6, <1>7, SetKnown DEF CFacts
<1>9. o2.nextDir = o.nextDir /\ o2.detached = Detach(o, Resolve(f, o, p)).detached
  BY <1>3, RecordsAre DEF CFacts
<1> QED BY <1>1, <1>3, <1>8, <1>9, HeldAfter

\* The file system stays prepared.
LEMMA PreparedNext ==
  ASSUME DInv, HInv, NEW p \in UserPaths, NEW text \in Texts, StageWrite(p, text)
  PROVE  Prepared(fs') /\ \A b \in Path : BaseLookup(fs', b) = BaseLookup(fs, b)
<1>1. PICK f : f = fs
  OBVIOUS
<1>2. PICK n \in 0 .. MaxOps : n = blobs
  BY StagingAssumption DEF DInv
<1>3. PICK c : c = StagedName(Blob(n))
  OBVIOUS
<1>4. c \in STRING /\ c \notin NewDirNames
  BY <1>3, NamesAssumption DEF NewDirNames
<1>5. PICK Z : IsOpen(f, Z) /\ StagedAt(f, Z)
  BY <1>1 DEF DInv, Open
<1>6. PICK g : g = fs'
  OBVIOUS
<1>7. g = Do(f, Create(InStaged(c), Text(text)))
  BY <1>1, <1>2, <1>3, <1>6 DEF StageWrite, StagedPath, InStaged
<1>8. Makes(f, g, SlotOf(f, InStaged(c)), "file", Text(text))
  BY <1>5, <1>7, CallMakes DEF IsOpen
<1>9. HasBlob(f, g, Z, c, Text(text)) /\ HomesKept(f, g)
  BY <1>4, <1>5, <1>8, MadeInStaged
<1>10. Prepared(g)
  BY <1>1, <1>4, <1>5, <1>9, PreparedStays DEF HInv
<1>11. \A b \in Path : BaseLookup(g, b) = BaseLookup(f, b)
  BY <1>5, <1>9, SameBase
<1> QED BY <1>1, <1>6, <1>10, <1>11

\* What the overlay of a write is of, in the file system before it.
LEMMA WriteFirst ==
  ASSUME DInv, NEW p \in UserPaths, NEW text \in Texts, StageWrite(p, text)
  PROVE  Sound(fs, ov') /\ Recorded(fs, ov')
<1>1. p \in Path /\ UserPath(p) /\ p # <<>>
  BY UserPathIs
<1>2. PICK o2 : o2 = Write(fs, ov, p, blobs)
  OBVIOUS
<1>3. Sound(fs, ov) /\ IsOverlay(ov) /\ Recorded(fs, ov) /\ CanWrite(fs, ov, p) /\ ov' = o2
  BY <1>2 DEF DInv, Accounted, StageWrite
<1>4. PICK e : e = Blob(blobs)
  OBVIOUS
<1>5. e.from = "blob" /\ e.kind = "file"
  BY <1>4 DEF Blob, NoEntry
<1>6. Sets(fs, ov, o2, p, e) /\ Settable(fs, ov, p, e)
  BY <1>1, <1>2, <1>3, <1>4, <1>5, WriteSets DEF Settable, CanWrite
<1>7. Sound(fs, o2)
  BY <1>1, <1>3, <1>6, SetsSound
<1>8. Recorded(fs, o2)
  <2>1. o2.detached = Detach(ov, Resolve(fs, ov, p)).detached
    BY <1>2, <1>3, RecordsAre
  <2> QED BY <1>1, <1>3, <2>1, DetachRecords
<1> QED BY <1>3, <1>7, <1>8

\* Every step keeps it.
LEMMA HeldStep ==
  ASSUME DInv, HInv, [Next]_vars
  PROVE  HInv'
<1>1. CASE \E p \in UserPaths, text \in Texts : StageWrite(p, text)
  <2>1. PICK p \in UserPaths, text \in Texts : StageWrite(p, text)
    BY <1>1
  <2>2. PICK Z : CFacts(fs, ov, ops, Z)
    BY <2>1, CFactsHold DEF StageWrite
  <2>3. CanWrite(fs, ov, p) /\ ov' = Write(fs, ov, p, blobs) /\ ops' = ops + 1
    BY <2>1 DEF StageWrite, Then
  <2>4. Held(fs, ov', ops + 1)
    BY <2>2, <2>3, WriteHeld DEF DInv, Accounted
  <2>5. Prepared(fs') /\ \A b \in Path : BaseLookup(fs', b) = BaseLookup(fs, b)
    BY <2>1, PreparedNext
  <2>6. Sound(fs, ov') /\ Recorded(fs, ov')
    BY <2>1, WriteFirst
  <2>7. Held(fs', ov', ops + 1)
    BY <2>4, <2>5, <2>6, HeldElsewhere
  <2> QED BY <2>3, <2>5, <2>7 DEF HInv
<1>2. CASE \E p \in UserPaths : StageCreateDirAll(p)
  <2>1. PICK p \in UserPaths : StageCreateDirAll(p)
    BY <1>2
  <2>2. PICK Z : CFacts(fs, ov, ops, Z)
    BY <2>1, CFactsHold DEF StageCreateDirAll
  <2>3. CanCreateDirAll(fs, ov, p) /\ ov' = CreateDirAll(fs, ov, p) /\ ops' = ops + 1 /\ fs' = fs
    BY <2>1 DEF StageCreateDirAll, Then
  <2> QED BY <2>2, <2>3, MkdirHeld DEF HInv
<1>3. CASE \E p, q \in UserPaths : StageRename(p, q)
  <2>1. PICK p \in UserPaths, q \in UserPaths : StageRename(p, q)
    BY <1>3
  <2>2. PICK Z : CFacts(fs, ov, ops, Z)
    BY <2>1, CFactsHold DEF StageRename
  <2>3. CanRename(fs, ov, p, q) /\ ov' = RenameTo(fs, ov, p, q) /\ ops' = ops + 1 /\ fs' = fs
    BY <2>1 DEF StageRename, Then
  <2> QED BY <2>2, <2>3, MoveHeld DEF HInv
<1>4. CASE \E p \in UserPaths : StageRemove(p) \/ StageRemoveDirAll(p)
  <2>1. PICK p \in UserPaths : StageRemove(p) \/ StageRemoveDirAll(p)
    BY <1>4
  <2>2. PICK Z : CFacts(fs, ov, ops, Z)
    BY <2>1, CFactsHold DEF StageRemove, StageRemoveDirAll
  <2>3. /\ CanRemove(fs, ov, p) \/ CanRemoveDirAll(fs, ov, p)
        /\ ov' = Removed(fs, ov, p) /\ ops' = ops + 1 /\ fs' = fs
    BY <2>1 DEF StageRemove, StageRemoveDirAll, Then
  <2>4. Resolve(fs, ov, p) # NoEntry
    BY <2>3, UserPathIs, TreeIs DEF CanRemove, CanRemoveDirAll, DInv
  <2> QED BY <2>2, <2>3, <2>4, CutHeld DEF HInv
<1>5. CASE UNCHANGED vars
  BY <1>5 DEF vars, HInv
<1> QED BY <1>1, <1>2, <1>3, <1>4, <1>5 DEF Next

-----------------------------------------------------------------------------
(* The journal. *)

\* Whatever was staged, commit is given what compile asks for.
LEMMA AlwaysCompilable ==
  ASSUME DInv, HInv
  PROVE  \E X : ReadyAs(fs, ov, Ready, X)
<1>1. Open(fs) /\ Sound(fs, ov) /\ Accounted(fs, ov, blobs) /\ ops \in 0 .. MaxOps /\ blobs \in 0 .. ops
  BY DEF DInv
<1>2. PICK Z : IsOpen(fs, Z) /\ StagedAt(fs, Z)
  BY <1>1 DEF Open
<1>3. Fits(Tree(fs, ov))
  BY ViewIs DEF DInv
<1>4. Committable(fs, Z, ov, ops, blobs)
  BY <1>1, <1>2, <1>3 DEF Committable, HInv
<1> QED BY <1>4, ReadyIs DEF Ready

\* What the overlay holds and notes is kept by every operation.
THEOREM HeldInvariance == Spec => []HInv
<1>1. Init => HInv
  BY HeldInit
<1>2. DInv /\ HInv /\ [Next]_vars => HInv'
  BY HeldStep
<1> QED
  BY <1>1, <1>2, ViewInvariance, PTL DEF Spec

\* Recovery can read whatever commit wrote: the journal of every plan that compile makes decodes to
\* itself, after any operations, on any tree (journal.rs, encode, decode and the validate in it; a
\* journal that does not decode stops every later begin).
THEOREM JournalReadBack == Spec => []JournalIsReadBack
<1>1. DInv /\ HInv => JournalIsReadBack
  BY AlwaysCompilable, ReadBack DEF ReadyAs
<1> QED
  BY <1>1, ViewInvariance, HeldInvariance, PTL

------------------------------------------------------------------------------
(* The plan is the difference between the tree and the view, and no more. *)

\* A sequence is its beginning and the rest.
LEMMA SplitAt ==
  ASSUME NEW S, NEW p \in Seq(S), NEW n \in 0 .. Len(p)
  PROVE  /\ SubSeq(p, 1, n) \in Seq(S) /\ SubSeq(p, n + 1, Len(p)) \in Seq(S)
         /\ p = SubSeq(p, 1, n) \o SubSeq(p, n + 1, Len(p))
<1>1. Len(p) \in Nat /\ n \in Nat /\ n <= Len(p) /\ Len(p) - n \in Nat /\ n + 1 \in Int
  OBVIOUS
<1>2. /\ SubSeq(p, 1, n) \in Seq(S) /\ Len(SubSeq(p, 1, n)) = n
      /\ \A i \in 1 .. n : SubSeq(p, 1, n)[i] = p[i]
  OBVIOUS
<1>3. PICK q \in Seq(S) : q = SubSeq(p, 1, n)
  BY <1>2
<1>4. \A i \in n + 1 .. Len(p) : p[i] \in S
  OBVIOUS
<1>5. /\ SubSeq(p, n + 1, Len(p)) \in Seq(S)
      /\ Len(SubSeq(p, n + 1, Len(p))) = IF n + 1 <= Len(p) THEN Len(p) - (n + 1) + 1 ELSE 0
      /\ \A i \in 1 .. Len(p) - (n + 1) + 1 : SubSeq(p, n + 1, Len(p))[i] = p[n + 1 + i - 1]
  BY <1>1, <1>4, SubSeqProperties
<1>6. PICK s \in Seq(S) : s = SubSeq(p, n + 1, Len(p))
  BY <1>5
<1>7. PICK m \in Nat : m = Len(p) - n
  BY <1>1
<1>8. Len(s) = m
  BY <1>1, <1>5, <1>6, <1>7
<1>9. \A i \in 1 .. m : s[i] = p[n + i]
  <2> SUFFICES ASSUME NEW i \in 1 .. m PROVE s[i] = p[n + i]
    OBVIOUS
  <2>1. i \in 1 .. Len(p) - (n + 1) + 1 /\ n + 1 + i - 1 = n + i
    BY <1>1, <1>7
  <2> QED
    BY <1>5, <1>6, <2>1
<1>10. /\ q \o s \in Seq(S) /\ Len(q \o s) = Len(q) + Len(s)
       /\ \A i \in 1 .. Len(q) + Len(s) : (q \o s)[i] =
                     IF i <= Len(q) THEN q[i] ELSE s[i - Len(q)]
  BY ConcatProperties
<1>11. Len(q) = n /\ Len(q) + Len(s) = Len(p)
  BY <1>1, <1>2, <1>3, <1>7, <1>8
<1>12. ASSUME NEW i \in 1 .. Len(p) PROVE (q \o s)[i] = p[i]
  <2>1. CASE i <= n
    <3>1. i \in 1 .. n /\ (q \o s)[i] = q[i]
      BY <1>1, <1>10, <1>11, <2>1
    <3> QED
      BY <1>2, <1>3, <3>1
  <2>2. CASE ~ i <= n
    <3>1. i - n \in 1 .. m /\ (q \o s)[i] = s[i - n] /\ n + (i - n) = i
      BY <1>1, <1>7, <1>10, <1>11, <2>2
    <3> QED
      BY <1>9, <3>1
  <2> QED
    BY <2>1, <2>2
<1>13. PICK r \in Seq(S) : r = q \o s
  BY <1>10
<1>14. Len(r) = Len(p) /\ \A i \in 1 .. Len(r) : r[i] = p[i]
  BY <1>10, <1>11, <1>12, <1>13
<1>15. r = p
  BY <1>14, SeqEqual
<1> QED
  BY <1>3, <1>6, <1>13, <1>15

\* The proper prefixes of a path are the paths above it, but for the root.
LEMMA PrefixIs ==
  ASSUME NEW p \in Path, NEW q
  PROVE  q \in Range(ProperPrefixes(p)) <=> q \in Path /\ q # <<>> /\ q # p /\ AtOrBelow(q, p)
<1>1. p \in Seq(Name) /\ Len(p) \in Nat
  BY DEF Path
<1>2. ASSUME NEW n \in 1 .. Len(p) - 1, q = SubSeq(p, 1, n)
      PROVE  q \in Path /\ q # <<>> /\ q # p /\ AtOrBelow(q, p)
  <2>1. q \in Seq(Name) /\ Len(q) = n /\ \A i \in 1 .. n : q[i] = p[i]
    BY <1>1, <1>2
  <2>2. PICK s \in Seq(Name) : p = q \o s
    <3>1. n \in 0 .. Len(p)
      BY <1>1
    <3>2. /\ SubSeq(p, n + 1, Len(p)) \in Seq(Name)
          /\ p = SubSeq(p, 1, n) \o SubSeq(p, n + 1, Len(p))
      BY <1>1, <3>1, SplitAt
    <3> QED
      BY <1>2, <3>2
  <2>3. q # <<>> /\ q # p
    BY <1>1, <1>2, <2>1
  <2> QED
    BY <2>1, <2>2, <2>3 DEF Path, AtOrBelow
<1>3. ASSUME q \in Path, q # <<>>, q # p, NEW s \in Path, p = q \o s
      PROVE  \E n \in 1 .. Len(p) - 1 : q = SubSeq(p, 1, n)
  <2>1. q \in Seq(Name) /\ s \in Seq(Name) /\ Len(q) \in Nat /\ Len(s) \in Nat /\ Len(q) # 0
    BY <1>3 DEF Path
  <2>2. Len(s) # 0
    <3>1. q \o <<>> = q
      BY <2>1, JoinNone
    <3> QED
      BY <1>3, <2>1, <3>1
  <2>3. Len(p) = Len(q) + Len(s) /\ \A i \in 1 .. Len(q) : p[i] = q[i]
    BY <1>3, <2>1
  <2>4. PICK n \in 1 .. Len(p) - 1 : n = Len(q)
    BY <2>1, <2>2, <2>3
  <2>5. SubSeq(p, 1, n) \in Seq(Name) /\ Len(SubSeq(p, 1, n)) = n /\ \A i \in 1 .. n : SubSeq(p, 1, n)[i] = p[i]
    BY <1>1, <2>4
  <2>6. q = SubSeq(p, 1, n)
    BY <2>1, <2>3, <2>4, <2>5, SeqEqual
  <2> QED
    BY <2>6
<1>4. q \in Range(ProperPrefixes(p)) <=> \E n \in 1 .. Len(p) - 1 : q = SubSeq(p, 1, n)
  BY DEF Range, ProperPrefixes
<1> QED
  BY <1>2, <1>3, <1>4 DEF AtOrBelow

\* All above a path are private if it is.
LEMMA PrivateAbove ==
  ASSUME NEW q \in Path, q # <<>>, NEW p \in Path, AtOrBelow(q, p)
  PROVE  IsPrivate(p) <=> IsPrivate(q)
<1>1. PICK s \in Path : p = q \o s
  BY DEF AtOrBelow
<1>2. q \in Seq(Name) /\ s \in Seq(Name) /\ 1 \in 1 .. Len(q)
  BY DEF Path
<1> QED
  BY <1>1, <1>2 DEF IsPrivate, Root

\* What leads somewhere is a path of the tree.
LEMMA LeadsSomewhere ==
  ASSUME NEW f, NEW Z, IsOpen(f, Z), NEW p \in Path, Stat(f, p) # NoIno
  PROVE  IsPath(f.vol, p)
<1> DEFINE G(q) == Stat(f, q) # NoIno => IsPath(f.vol, q)
           T == {q \in Path : G(q)}
<1>1. <<>> \in T
  BY PathFacts DEF IsPath
<1>2. ASSUME NEW q \in T, NEW c \in Name PROVE Down(q, c) \in T
  <2> SUFFICES ASSUME Stat(f, Down(q, c)) # NoIno PROVE IsPath(f.vol, Down(q, c))
    BY DownPath
  <2>1. Stat(f, Down(q, c)) = Step(f.vol, Stat(f, q), c)
    BY InoAtNext DEF Stat, Path, Name, Down
  <2>2. <<Stat(f, q), c>> \in DOMAIN f.vol
    BY <2>1 DEF Step
  <2>3. Stat(f, q) # NoIno
    <3> PICK s : s = <<Stat(f, q), c>>
      OBVIOUS
    <3>1. s[1] = Stat(f, q)
      OBVIOUS
    <3> QED
      BY <2>2, <3>1 DEF IsOpen, Fresh
  <2> QED
    BY <2>2, <2>3, PathNext DEF Stat, Path, Name, Down
<1> HIDE DEF G
<1>3. T = Path
  BY <1>1, <1>2, PathInduction
<1> QED
  BY <1>3 DEF G
\* All above what is there is there.
LEMMA LeadsAbove ==
  ASSUME NEW f, NEW Z, IsOpen(f, Z), NEW b \in Path, Stat(f, b) # NoIno,
         NEW q \in Path, AtOrBelow(q, b)
  PROVE  Stat(f, q) # NoIno
<1> DEFINE G(x) == Stat(f, x) # NoIno /\ AtOrBelow(q, x) => Stat(f, q) # NoIno
           T == {x \in Path : G(x)}
<1>1. <<>> \in T
  <2>1. q # <<>> => ~ AtOrBelow(q, <<>>)
    BY RootIsFirst
  <2> QED
    BY <2>1, PathFacts
<1>2. ASSUME NEW x \in T, NEW c \in Name PROVE Down(x, c) \in T
  <2> SUFFICES ASSUME Stat(f, Down(x, c)) # NoIno, AtOrBelow(q, Down(x, c))
               PROVE  Stat(f, q) # NoIno
    BY BelowNext
  <2>1. Stat(f, Down(x, c)) = Step(f.vol, Stat(f, x), c)
    BY InoAtNext DEF Stat, Path, Name, Down
  <2>2. Stat(f, x) # NoIno
    <3>1. PICK s : s = <<Stat(f, x), c>>
      OBVIOUS
    <3>2. s \in DOMAIN f.vol /\ s[1] = Stat(f, x)
      BY <2>1, <3>1 DEF Step
    <3> QED
      BY <3>2 DEF IsOpen, Fresh
  <2>3. q = Down(x, c) \/ AtOrBelow(q, x)
    BY BelowNext
  <2> QED
    BY <2>2, <2>3
<1> HIDE DEF G
<1>3. T = Path
  BY <1>1, <1>2, PathInduction
<1> QED
  BY <1>3 DEF G

\* What is shown at a path with the inode that is there in the base is what is there, unless that
\* inode has another name; and it is recorded as gone only if it was put back.
LEMMA StillThere ==
  ASSUME NEW f, NEW Z, IsOpen(f, Z), OnePath(f), NEW o, Sound(f, o),
         NEW b \in Path, b # <<>>, ~ IsPrivate(b), Stat(f, b) # NoIno,
         \A q \in Path : q # <<>> /\ AtOrBelow(q, b) => Node(f, Resolve(f, o, q)).ino = Stat(f, q),
         \A x \in Path : ~ IsPrivate(x) /\ Stat(f, x) = Stat(f, b) => x = b,
         b \in DOMAIN o.detached
  PROVE  b \in Noops(f, o)
<1>0. Resolve(f, o, b) # NoEntry
  BY BelowOrder DEF Node, NoEntry
<1>1. ASSUME NEW q \in Path, q # <<>>, AtOrBelow(q, b)
      PROVE  IsBaseAt(Resolve(f, o, q), q)
  <2>1. PICK e : e = Resolve(f, o, q)
    OBVIOUS
  <2>2. Stat(f, q) # NoIno
    BY <1>1, LeadsAbove
  <2>3. e.from = "base" /\ e.id = Stat(f, q)
    BY <1>1, <2>1, <2>2 DEF Node
  <2>4. e.origin \in Path /\ ~ IsPrivate(e.origin) /\ e = BaseLookup(f, e.origin)
    BY <1>1, <2>1, <2>3, ShownIs DEF IsBase, UserPath
  <2>5. e.id = Stat(f, e.origin)
    BY <2>3, <2>4, BaseIs DEF BaseLookup, Base, NoEntry
  <2>6. e.origin = q
    <3>1. CASE q = b
      BY <2>3, <2>4, <2>5, <3>1
    <3>2. CASE q # b
      <4>1. ~ IsPrivate(q)
        BY <1>1, PrivateAbove
      <4>2. e.kind = "dir"
        BY <1>1, <1>0, <2>1, <3>2, NothingBelow
      <4>3. e = Base(f.kind[Stat(f, e.origin)], e.origin, Stat(f, e.origin))
        BY <2>2, <2>3, <2>4, <2>5 DEF BaseLookup
      <4>4. ASSUME NEW k, NEW x, NEW y PROVE Base(k, x, y).kind = k
        BY DEF Base, NoEntry
      <4>5. f.kind[Stat(f, q)] = "dir"
        BY <2>3, <2>5, <4>2, <4>3, <4>4
      <4> QED
        BY <2>2, <2>3, <2>4, <2>5, <4>1, <4>5 DEF OnePath
    <3> QED
      BY <3>1, <3>2
  <2> QED
    BY <2>1, <2>3, <2>6 DEF IsBaseAt
<1>2. PICK w \in Path, c \in Name : b = Down(w, c)
  BY DownFrom
<1>3. IsBaseAt(Resolve(f, o, b), b)
  BY <1>1, BelowOrder
<1>4. b \in DOMAIN o.placed /\ Resolve(f, o, b) = o.placed[b]
  BY <1>2, <1>3, WhereFrom DEF IsBaseAt
<1>5. b \in Placements(o) /\ IsBaseAt(o.placed[b], b)
  BY <1>3, <1>4, BaseIs DEF Placements, IsBaseAt
<1>6. \A q \in Range(ProperPrefixes(b)) : IsBaseAt(Resolve(f, o, q), q)
  BY <1>1, PrefixIs
<1> QED
  BY <1>5, <1>6 DEF Noops

\* In the two file systems of a commit the base is the same.
LEMMA SameNoops ==
  ASSUME NEW f, NEW o, Sound(f, o), NEW g, \A b \in Path : BaseLookup(g, b) = BaseLookup(f, b)
  PROVE  Noops(g, o) = Noops(f, o)
<1>1. \A p \in Placements(o) : p \in Path
  BY DEF Sound, Placements
<1>2. \A p \in Path : Resolve(g, o, p) = Resolve(f, o, p)
  BY SameShown
<1>3. \A p \in Placements(o) : \A q \in Range(ProperPrefixes(p)) :
        Resolve(g, o, q) = Resolve(f, o, q)
  BY <1>1, <1>2, PrefixIs
<1> QED
  BY <1>3 DEF Noops

\* A token of the plan that is made of what is in the tree is of an entry that left its place, or
\* that a directory above it left with.
LEMMA OnlyWhatLeft ==
  ASSUME DInv, HInv, NEW X, ReadyAs(fs, ov, Ready, X),
         NEW tok \in Range(Compiled.plan.tokens), NEW b, b = tok.locs[1].path, ~ IsPrivate(b)
  PROVE  /\ b \in Path /\ b # <<>> /\ Stat(fs, b) # NoIno /\ Len(b) < DepthBound
         /\ b \in DOMAIN ov.detached /\ b \notin Noops(fs, ov)
<1> PICK g : g = Ready
  OBVIOUS
<1> PICK o : o = ov
  OBVIOUS
<1> PICK tokens : tokens = TokensIn(g, o)
  OBVIOUS
<1>1. Compilable(g, o, X) /\ \A p \in Path : BaseLookup(g, p) = BaseLookup(fs, p)
  BY DEF ReadyAs
<1>2. PICK out, in : Known(g, o, X, tokens, out, in)
  BY <1>1, TokensKnown
<1>3. PICK t \in DOMAIN tokens : tok = tokens[t]
  <2>1. Compiled.plan.tokens = tokens
    BY CompileIs DEF Compiled, CompileIn, ApplyTo, Ready, PlanFor
  <2> QED
    BY <2>1 DEF Range
<1>4. (\E k, d : Leaver(g, o, X, tok, k, d)) \/ (\E p : Comer(g, o, tok, p))
  BY <1>2, <1>3 DEF Known, Parted
<1>5. ASSUME NEW p, Comer(g, o, tok, p) PROVE FALSE
  <2>1. p \in Arriving(o, g) /\ b = StagedPath(Tx, o.placed[p])
    BY <1>5 DEF Comer
  <2>2. InHome(b, StagedHome)
    BY <1>1, <2>1, ArrivingIs
  <2> QED
    BY <2>2 DEF InHome
<1>6. PICK k, d : Leaver(g, o, X, tok, k, d)
  BY <1>4, <1>5
<1>7. LeftFrom(g, o, X, b)
  BY <1>6 DEF Leaver
<1>8. b \in DOMAIN o.detached /\ b \in Path /\ Len(b) < DepthBound /\ b # <<>>
  BY <1>1, <1>7 DEF LeftFrom, Compilable, NotedIn, UserPath, Root
<1>9. Stat(fs, b) # NoIno
  <2>1. BaseLookup(g, b) # NoEntry
    BY <1>7, BaseIs DEF LeftFrom
  <2>2. BaseLookup(fs, b) # NoEntry
    BY <1>1, <1>8, <2>1
  <2> QED
    BY <2>2, BaseIs
<1>10. Noops(g, o) = Noops(fs, o)
  BY <1>1, SameNoops DEF DInv
<1> QED
  BY <1>7, <1>8, <1>9, <1>10 DEF LeftFrom

\* The plan moves a base entry only if it, or a directory above it, is no longer shown at its place,
\* or if the file has another name (plan.rs, compile: the identity no-ops).
THEOREM OnlyNetDifference == Spec => []PlanIsNetDifference
<1>1. ASSUME DInv, HInv PROVE PlanIsNetDifference
  <2>1. PICK X : ReadyAs(fs, ov, Ready, X)
    BY <1>1, AlwaysCompilable
  <2> SUFFICES ASSUME NEW tok \in Range(Compiled.plan.tokens), NEW b, b = tok.locs[1].path,
                      ~ IsPrivate(b), ~ HasOtherName(b),
                      \A q \in {b} \union Range(ProperPrefixes(b)) :
                        q \in DOMAIN view /\ view[q].ino = Stat(fs, q)
               PROVE  FALSE
    BY DEF PlanIsNetDifference
  <2>2. /\ b \in Path /\ b # <<>> /\ Stat(fs, b) # NoIno /\ Len(b) < DepthBound
        /\ b \in DOMAIN ov.detached /\ b \notin Noops(fs, ov)
    BY <1>1, <2>1, OnlyWhatLeft
  <2>3. PICK Z : IsOpen(fs, Z)
    BY <1>1 DEF DInv, Open
  <2>4. Sound(fs, ov) /\ OnePath(fs) /\ Shallow(fs) /\ view = Tree(fs, ov)
    BY <1>1, ViewIs DEF DInv, HInv, Prepared
  <2>5. ASSUME NEW q \in Path, q # <<>>, AtOrBelow(q, b)
        PROVE  Node(fs, Resolve(fs, ov, q)).ino = Stat(fs, q)
    <3>1. q \in {b} \union Range(ProperPrefixes(b))
      BY <2>2, <2>5, PrefixIs
    <3> QED
      BY <2>4, <3>1 DEF Tree
  <2>6. ASSUME NEW x \in Path, ~ IsPrivate(x), Stat(fs, x) = Stat(fs, b)
        PROVE  x = b
    <3>1. IsPath(fs.vol, x)
      BY <2>2, <2>3, <2>6, LeadsSomewhere
    <3>2. Len(x) <= DepthBound
      <4>1. BaseLookup(fs, x) # NoEntry
        BY <2>2, <2>6, BaseIs
      <4>2. Len(x) < DepthBound /\ Len(x) \in Nat
        BY <2>4, <4>1, PathFacts DEF Shallow
      <4> QED
        BY <4>2 DEF DepthBound
    <3>3. x # Root
      BY <2>2, <2>3, <2>6, UserPathsStayOutside, InoAtRoot DEF IsOpen, Stat, Path, Name, Root
    <3>4. IsImage(fs.vol) /\ x \in Seq(STRING)
      BY <2>3 DEF IsOpen, IsZone, Path, Name
    <3>5. x \in PathsOf(fs.vol)
      BY <3>1, <3>2, <3>4, PathsOfAre
    <3>6. x \in DOMAIN TreeOf(fs) /\ TreeOf(fs)[x].ino = Stat(fs, x)
      BY <2>6, <3>3, <3>5 DEF TreeOf
    <3> QED
      BY <2>6, <3>6 DEF HasOtherName
  <2> QED
    BY <2>2, <2>3, <2>4, <2>5, <2>6, StillThere
<1> QED
  BY <1>1, ViewInvariance, HeldInvariance, PTL

=============================================================================
