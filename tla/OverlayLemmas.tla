--------------------------- MODULE OverlayLemmas ---------------------------
(* Lemmas about SimFs and Overlay, for every file system and every overlay that is sound: what a    *)
(* path leads to and which paths there are, that what happens inside .fstx is not seen outside, what *)
(* is shown at a path (resolve and list of src/src/overlay.rs), and what writing, making, renaming   *)
(* and removing make of what is shown.  Overlays are compared by the entry resolve() finds at every  *)
(* path, never by how they record it.  Then about plans (src/src/plan.rs), for every sequence of     *)
(* tokens: which waves they are put in, and that a plan for tokens that are apart and whose parents  *)
(* are known passes validation.  And about Staging, still for every file system and every overlay:   *)
(* that what is shown is a tree, on which each operation is the operation of DirectTree, and that    *)
(* what compile makes of it is a sane plan.                                                          *)
EXTENDS Staging, TLAPS, SequenceTheorems, FiniteSetTheorems

-----------------------------------------------------------------------------
\* A set of natural numbers has a least element: what the proofs by induction of this project use.
LEMMA Least ==
  ASSUME NEW T \in SUBSET Nat, T # {}
  PROVE  \E n \in T : \A k \in T : n <= k
<1> DEFINE R == OpToRel(<, Nat)
<1>1. IsWellFoundedOn(R, Nat)
  BY Zenon, NatLessThanWellFounded
<1>2. \A k, n \in Nat : k < n => <<k, n>> \in R
  BY DEF OpToRel
<1> HIDE DEF R
<1>3. PICK n \in T : \A k \in T : <<k, n>> \notin R
  BY <1>1, WFMin
<1>4. ASSUME NEW k \in T PROVE n <= k
  <2>1. ~ (k < n)
    BY <1>2, <1>3
  <2> QED
    BY <2>1
<1> QED
  BY <1>4

-----------------------------------------------------------------------------
(* What a path leads to, one component at a time. *)

\* The walk starts at the root, and goes on by the entry of the next component.
AtRoot(img) == RootIno
Step(img, d, c) == IF <<d, c>> \in DOMAIN img THEN img[<<d, c>>] ELSE NoIno

Walk == INSTANCE FoldLemmas WITH Op <- Step, Base <- AtRoot

\* InoAt is such a fold.
LEMMA InoAtIsFold ==
  ASSUME NEW img, NEW p
  PROVE  InoAt(img, p) = Walk!Fold(img, p)
BY DEF InoAt, Step, AtRoot, Walk!Fold, FoldLeft, MapThenFoldSet,
       Walk!MapThenFoldSet, Max, Walk!Largest

\* The empty path leads to the root ...
LEMMA InoAtRoot ==
  ASSUME NEW img
  PROVE  InoAt(img, <<>>) = RootIno
BY InoAtIsFold, Walk!FoldEmpty, Least DEF Walk!WellOrdered, AtRoot

\* ... and one name more to the entry of that name, if there is one.
LEMMA InoAtNext ==
  ASSUME NEW img, NEW S, NEW p \in Seq(S), NEW c \in S
  PROVE  InoAt(img, Append(p, c)) = Step(img, InoAt(img, p), c)
BY InoAtIsFold, Walk!FoldAppend, Least DEF Walk!WellOrdered

-----------------------------------------------------------------------------
(* The paths of an image. *)

\* The entries of an image: of a directory, under a name.
IsImage(img) == DOMAIN img \subseteq Nat \X STRING

\* Every component is an entry of the directory that the ones before it lead to.
IsPath(img, p) ==
  \A k \in 1 .. Len(p) : <<InoAt(img, SubSeq(p, 1, k - 1)), p[k]>> \in DOMAIN img

\* The paths of n components, and where they lead.
PathsAt(img, n) == {p \in Seq(STRING) : Len(p) = n /\ IsPath(img, p)}
FoundAt(img, p) == <<p, InoAt(img, p)>>

\* AllPaths, level by level: what is entered below a path found, and one level more.
Below(img, at) == {<<Append(at[1], s[2]), img[s]>> : s \in {x \in DOMAIN img : x[1] = at[2]}}
Deeper(img, found, n) ==
  LET new == UNION {Below(img, at) : at \in found.last}
  IN  [all |-> found.all \union new, last |-> new]
Top(img) == [all |-> {<<Root, RootIno>>}, last |-> {<<Root, RootIno>>}]

Levels == INSTANCE FoldLemmas WITH Op <- Deeper, Base <- Top

\* The levels.
UpTo(n) == [i \in 1 .. n |-> i]

\* PathsOf is such a fold, over the levels.
LEMMA PathsOfIsFold ==
  ASSUME NEW img
  PROVE  PathsOf(img) = {at[1] : at \in Levels!Fold(img, UpTo(DepthBound)).all}
BY DEF PathsOf, Deeper, Below, Top, UpTo, Levels!Fold, FoldLeft, MapThenFoldSet,
       Levels!MapThenFoldSet, Max, Levels!Largest

\* What Append adds is the last element, and leaves the rest.
LEMMA AppendFacts ==
  ASSUME NEW S, NEW p \in Seq(S), NEW c \in S
  PROVE  /\ Append(p, c) \in Seq(S) /\ Len(Append(p, c)) = Len(p) + 1 /\ Len(p) \in Nat
         /\ Append(p, c)[Len(p) + 1] = c /\ SubSeq(Append(p, c), 1, Len(p)) = p
<1>1. /\ Append(p, c) \in Seq(S) /\ Len(Append(p, c)) = Len(p) + 1 /\ Len(p) \in Nat
      /\ Append(p, c)[Len(p) + 1] = c
  OBVIOUS
<1>2. \A i \in 1 .. Len(p) : Append(p, c)[i] = p[i]
  OBVIOUS
<1> DEFINE q == Append(p, c)
<1> HIDE DEF q
<1>3. SubSeq(q, 1, Len(p)) = p
  BY <1>1, <1>2 DEF q
<1> QED
  BY <1>1, <1>3 DEF q

\* What comes before the last component is left as it was by appending one.
LEMMA AppendPrefix ==
  ASSUME NEW S, NEW p \in Seq(S), NEW c \in S, NEW k \in 1 .. Len(p)
  PROVE  Append(p, c)[k] = p[k] /\ SubSeq(Append(p, c), 1, k - 1) = SubSeq(p, 1, k - 1)
<1>1. /\ Append(p, c) \in Seq(S) /\ Len(Append(p, c)) = Len(p) + 1 /\ Len(p) \in Nat
      /\ \A i \in 1 .. Len(p) : Append(p, c)[i] = p[i]
  OBVIOUS
<1> DEFINE q == Append(p, c)
<1> HIDE DEF q
<1>2. SubSeq(q, 1, k - 1) = SubSeq(p, 1, k - 1)
  BY <1>1 DEF q
<1> QED
  BY <1>1, <1>2 DEF q

\* A sequence that is not empty is its front and its last element.
LEMMA FrontAndLast ==
  ASSUME NEW S, NEW q \in Seq(S), NEW n \in Nat, Len(q) = n + 1
  PROVE  /\ SubSeq(q, 1, n) \in Seq(S) /\ Len(SubSeq(q, 1, n)) = n /\ q[n + 1] \in S
         /\ q = Append(SubSeq(q, 1, n), q[n + 1])
OBVIOUS

\* A path one component longer.
LEMMA PathNext ==
  ASSUME NEW img, NEW p \in Seq(STRING), NEW c \in STRING
  PROVE  IsPath(img, Append(p, c)) <=> IsPath(img, p) /\ <<InoAt(img, p), c>> \in DOMAIN img
<1> PICK q : q = Append(p, c)
  OBVIOUS
<1> PICK n \in Nat : n = Len(p)
  OBVIOUS
<1>1. Len(q) = n + 1 /\ q[n + 1] = c /\ SubSeq(q, 1, (n + 1) - 1) = p
  <2>1. (n + 1) - 1 = n
    OBVIOUS
  <2> QED
    BY <2>1, AppendFacts
<1>2. ASSUME NEW k \in 1 .. n PROVE q[k] = p[k] /\ SubSeq(q, 1, k - 1) = SubSeq(p, 1, k - 1)
  BY AppendPrefix
<1> DEFINE P(k) == <<InoAt(img, SubSeq(q, 1, k - 1)), q[k]>> \in DOMAIN img
<1>3. P(n + 1) <=> <<InoAt(img, p), c>> \in DOMAIN img
  BY <1>1
<1>4. ASSUME NEW k \in 1 .. n
      PROVE  P(k) <=> <<InoAt(img, SubSeq(p, 1, k - 1)), p[k]>> \in DOMAIN img
  BY <1>2
<1>5. IsPath(img, q) <=> \A k \in 1 .. n + 1 : P(k)
  BY <1>1 DEF IsPath
<1> HIDE DEF P
<1>6. (\A k \in 1 .. n + 1 : P(k)) <=> (\A k \in 1 .. n : P(k)) /\ P(n + 1)
  OBVIOUS
<1> QED
  BY <1>3, <1>4, <1>5, <1>6 DEF IsPath

\* The paths of n components with where they lead, as AllPaths keeps them.
Level(img, n) == {FoundAt(img, p) : p \in PathsAt(img, n)}

\* One level further down.
LEMMA LevelNext ==
  ASSUME NEW img, IsImage(img), NEW m \in Nat
  PROVE  UNION {Below(img, at) : at \in Level(img, m)} = Level(img, m + 1)
<1>1. ASSUME NEW p \in PathsAt(img, m), NEW s \in DOMAIN img, s[1] = InoAt(img, p)
      PROVE  <<Append(p, s[2]), img[s]>> \in Level(img, m + 1)
  <2>1. p \in Seq(STRING) /\ Len(p) = m /\ IsPath(img, p)
    BY DEF PathsAt
  <2>2. s = <<InoAt(img, p), s[2]>> /\ s[2] \in STRING
    BY <1>1 DEF IsImage
  <2>3. IsPath(img, Append(p, s[2]))
    BY <2>1, <2>2, PathNext
  <2>4. InoAt(img, Append(p, s[2])) = img[s]
    BY <2>1, <2>2, InoAtNext DEF Step
  <2>5. Append(p, s[2]) \in PathsAt(img, m + 1)
    BY <2>1, <2>2, <2>3, AppendFacts DEF PathsAt
  <2> QED
    BY <2>4, <2>5 DEF FoundAt, Level
<1>2. ASSUME NEW q \in PathsAt(img, m + 1)
      PROVE  \E at \in Level(img, m) : FoundAt(img, q) \in Below(img, at)
  <2>1. q \in Seq(STRING) /\ Len(q) = m + 1 /\ IsPath(img, q)
    BY DEF PathsAt
  <2> DEFINE p == SubSeq(q, 1, m)
             c == q[m + 1]
  <2>2. p \in Seq(STRING) /\ Len(p) = m /\ c \in STRING /\ q = Append(p, c)
    BY <2>1, FrontAndLast
  <2> HIDE DEF p, c
  <2>3. IsPath(img, p) /\ <<InoAt(img, p), c>> \in DOMAIN img
    BY <2>1, <2>2, PathNext
  <2>4. InoAt(img, q) = img[<<InoAt(img, p), c>>]
    BY <2>2, <2>3, InoAtNext DEF Step
  <2>5. FoundAt(img, p) \in Level(img, m)
    BY <2>2, <2>3 DEF PathsAt, Level
  <2>6. FoundAt(img, q) \in Below(img, FoundAt(img, p))
    BY <2>2, <2>3, <2>4 DEF Below, FoundAt
  <2> QED
    BY <2>5, <2>6
<1>3. UNION {Below(img, at) : at \in Level(img, m)} \subseteq Level(img, m + 1)
  <2> SUFFICES ASSUME NEW at \in Level(img, m), NEW x \in Below(img, at)
               PROVE  x \in Level(img, m + 1)
    OBVIOUS
  <2>1. PICK p \in PathsAt(img, m) : at[1] = p /\ at[2] = InoAt(img, p)
    BY DEF Level, FoundAt
  <2>2. PICK s \in DOMAIN img : s[1] = at[2] /\ x = <<Append(at[1], s[2]), img[s]>>
    BY DEF Below
  <2> QED
    BY <1>1, <2>1, <2>2
<1>4. Level(img, m + 1) \subseteq UNION {Below(img, at) : at \in Level(img, m)}
  BY <1>2 DEF Level
<1> QED
  BY <1>3, <1>4

\* After n levels, the paths of at most n components have been found, with what they lead to.
HasLevels(img, f, n) ==
  f.last = Level(img, n) /\ f.all = UNION {Level(img, m) : m \in 0 .. n}

\* The first level is the root.
LEMMA LevelsFirst ==
  ASSUME NEW img
  PROVE  HasLevels(img, Levels!Fold(img, UpTo(0)), 0)
<1>1. UpTo(0) = <<>>
  BY DEF UpTo
<1>2. Levels!Fold(img, UpTo(0)) = Top(img)
  BY <1>1, Levels!FoldEmpty, Least DEF Levels!WellOrdered
<1>3. PathsAt(img, 0) = {<<>>}
  <2>1. \A p \in Seq(STRING) : Len(p) = 0 <=> p = <<>>
    OBVIOUS
  <2>2. <<>> \in Seq(STRING) /\ IsPath(img, <<>>)
    BY DEF IsPath
  <2> QED
    BY <2>1, <2>2 DEF PathsAt
<1>4. Level(img, 0) = {<<Root, RootIno>>}
  BY <1>3, InoAtRoot DEF Level, FoundAt, Root
<1>5. 0 .. 0 = {0}
  OBVIOUS
<1>6. UNION {Level(img, m) : m \in 0 .. 0} = Level(img, 0)
  BY <1>5
<1> QED
  BY <1>2, <1>4, <1>6 DEF HasLevels, Top

\* With one level more, the paths of one component more are found.
LEMMA LevelsNext ==
  ASSUME NEW img, IsImage(img), NEW m \in Nat, HasLevels(img, Levels!Fold(img, UpTo(m)), m)
  PROVE  HasLevels(img, Levels!Fold(img, UpTo(m + 1)), m + 1)
<1>1. UpTo(m + 1) = Append(UpTo(m), m + 1) /\ UpTo(m) \in Seq(Nat) /\ m + 1 \in Nat
  BY DEF UpTo
<1> PICK f : f = Levels!Fold(img, UpTo(m))
  OBVIOUS
<1>2. Levels!Fold(img, Append(UpTo(m), m + 1)) = Deeper(img, Levels!Fold(img, UpTo(m)), m + 1)
  <2> PICK u : u = UpTo(m)
    OBVIOUS
  <2>1. u \in Seq(Nat) /\ m + 1 \in Nat
    BY <1>1
  <2>2. Levels!Fold(img, Append(u, m + 1)) = Deeper(img, Levels!Fold(img, u), m + 1)
    BY <2>1, Levels!FoldAppend, Least DEF Levels!WellOrdered
  <2> QED
    BY <2>2
<1>3. Levels!Fold(img, UpTo(m + 1)) = Deeper(img, f, m + 1)
  BY <1>1, <1>2
<1>4. f.last = Level(img, m) /\ f.all = UNION {Level(img, k) : k \in 0 .. m}
  BY DEF HasLevels
<1>5. UNION {Below(img, at) : at \in f.last} = Level(img, m + 1)
  BY <1>4, LevelNext
<1>6. 0 .. m + 1 = (0 .. m) \union {m + 1}
  OBVIOUS
<1>7. UNION {Level(img, k) : k \in 0 .. m + 1} = f.all \union Level(img, m + 1)
  BY <1>4, <1>6
<1> DEFINE new == UNION {Below(img, at) : at \in f.last}
<1>8. Deeper(img, f, m + 1) = [all |-> f.all \union new, last |-> new]
  BY DEF Deeper
<1> HIDE DEF new
<1>9. Deeper(img, f, m + 1).last = new /\ Deeper(img, f, m + 1).all = f.all \union new
  BY <1>8
<1> QED
  BY <1>3, <1>5, <1>7, <1>9 DEF HasLevels, new

\* By induction, the paths of n components are found at level n.
LEMMA LevelsFind ==
  ASSUME NEW img, IsImage(img), NEW n \in Nat
  PROVE  HasLevels(img, Levels!Fold(img, UpTo(n)), n)
<1> DEFINE Good(m) == HasLevels(img, Levels!Fold(img, UpTo(m)), m)
           T == {m \in Nat : ~ Good(m)}
<1>1. Good(0) /\ \A m \in Nat : Good(m) => Good(m + 1)
  BY LevelsFirst, LevelsNext
<1> HIDE DEF Good
<1> SUFFICES ASSUME T # {} PROVE FALSE
  BY DEF Good
<1>2. PICK m \in T : \A k \in T : m <= k
  BY Least
<1>3. m - 1 \in Nat /\ m - 1 \notin T /\ (m - 1) + 1 = m
  BY <1>1, <1>2
<1> QED
  BY <1>1, <1>3

\* The paths of an image, of no more components than it is looked through for.
LEMMA PathsOfAre ==
  ASSUME NEW img, IsImage(img)
  PROVE  PathsOf(img) = {p \in Seq(STRING) : Len(p) <= DepthBound /\ IsPath(img, p)}
<1>1. DepthBound \in Nat
  BY DEF DepthBound
<1>2. Levels!Fold(img, UpTo(DepthBound)).all = UNION {Level(img, m) : m \in 0 .. DepthBound}
  BY <1>1, LevelsFind DEF HasLevels
<1>3. ASSUME NEW m PROVE {at[1] : at \in Level(img, m)} = PathsAt(img, m)
  <2>1. \A p : FoundAt(img, p)[1] = p
    BY DEF FoundAt
  <2>2. \A p \in PathsAt(img, m) : FoundAt(img, p) \in Level(img, m)
    BY DEF Level
  <2>3. \A at \in Level(img, m) : at[1] \in PathsAt(img, m)
    BY <2>1 DEF Level
  <2> QED
    BY <2>1, <2>2, <2>3
<1>4. PathsOf(img) = UNION {PathsAt(img, m) : m \in 0 .. DepthBound}
  BY <1>2, <1>3, PathsOfIsFold
<1>5. \A p \in Seq(STRING) : Len(p) \in Nat /\ (Len(p) <= DepthBound <=> Len(p) \in 0 .. DepthBound)
  BY <1>1
<1> QED
  BY <1>4, <1>5 DEF PathsAt

-----------------------------------------------------------------------------
(* Inside and outside of .fstx.  A zone is what is reached through the entry .fstx of the root, and *)
(* in no other way.                                                                                 *)

\* Z is such a zone.
IsZone(img, Z) ==
  /\ IsImage(img) /\ RootIno \notin Z /\ NoIno \notin Z
  /\ \A s \in DOMAIN img :
       img[s] # RootIno /\ (img[s] \in Z <=> s[1] \in Z \/ s = <<RootIno, PrivateDir>>)

\* The two have the same entries outside the zone.
SameOutside(img, jmg, Z) ==
  \A d, c : d \notin Z => /\ <<d, c>> \in DOMAIN img <=> <<d, c>> \in DOMAIN jmg
                          /\ <<d, c>> \in DOMAIN img => img[<<d, c>>] = jmg[<<d, c>>]

\* The first k components, and one more.
LEMMA PrefixNext ==
  ASSUME NEW S, NEW p \in Seq(S), NEW k \in Nat, k < Len(p)
  PROVE  /\ SubSeq(p, 1, k) \in Seq(S) /\ p[k + 1] \in S /\ (k + 1) - 1 = k
         /\ SubSeq(p, 1, k + 1) = Append(SubSeq(p, 1, k), p[k + 1])
OBVIOUS

\* The walk along a path, one component further.
LEMMA InoAtPrefix ==
  ASSUME NEW img, NEW S, NEW p \in Seq(S), NEW k \in Nat, k < Len(p)
  PROVE  InoAt(img, SubSeq(p, 1, k + 1)) = Step(img, InoAt(img, SubSeq(p, 1, k)), p[k + 1])
<1>1. \A q \in Seq(S), c \in S : InoAt(img, Append(q, c)) = Step(img, InoAt(img, q), c)
  BY InoAtNext
<1>2. SubSeq(p, 1, k) \in Seq(S) /\ p[k + 1] \in S
  BY PrefixNext
<1>3. InoAt(img, Append(SubSeq(p, 1, k), p[k + 1])) = Step(img, InoAt(img, SubSeq(p, 1, k)), p[k + 1])
  BY <1>1, <1>2, Zenon
<1> QED
  BY <1>3, PrefixNext

\* A path that does not begin with .fstx does not lead into the zone, nor back to the root.
LEMMA PathsStayOutside ==
  ASSUME NEW img, NEW Z, IsZone(img, Z), NEW p \in Seq(STRING), ~ IsPrivate(p),
         NEW n \in 0 .. Len(p)
  PROVE  InoAt(img, SubSeq(p, 1, n)) \notin Z /\ (n # 0 => InoAt(img, SubSeq(p, 1, n)) # RootIno)
<1> DEFINE Good(k) == InoAt(img, SubSeq(p, 1, k)) \notin Z
                      /\ (k # 0 => InoAt(img, SubSeq(p, 1, k)) # RootIno)
           T == {k \in 0 .. Len(p) : ~ Good(k)}
<1>1. Good(0)
  <2>1. SubSeq(p, 1, 0) = <<>>
    OBVIOUS
  <2> QED
    BY <2>1, InoAtRoot DEF IsZone
<1>2. ASSUME NEW k \in Nat, k < Len(p), Good(k) PROVE Good(k + 1)
  <2> DEFINE d == InoAt(img, SubSeq(p, 1, k))
             c == p[k + 1]
  <2>2. InoAt(img, SubSeq(p, 1, k + 1)) = Step(img, d, c)
    BY <1>2, InoAtPrefix
  <2>3. d \notin Z /\ (k # 0 => d # RootIno)
    BY <1>2
  <2>4. k = 0 => c # PrivateDir
    BY <1>2 DEF IsPrivate, Root
  <2> HIDE DEF d, c
  <2>5. <<d, c>> # <<RootIno, PrivateDir>>
    BY <2>3, <2>4
  <2>6. CASE <<d, c>> \in DOMAIN img
    <3>1. Step(img, d, c) = img[<<d, c>>]
      BY <2>6 DEF Step
    <3>2. img[<<d, c>>] # RootIno /\ img[<<d, c>>] \notin Z
      BY <2>3, <2>5, <2>6 DEF IsZone
    <3> QED
      BY <2>2, <3>1, <3>2
  <2>7. CASE <<d, c>> \notin DOMAIN img
    <3>1. Step(img, d, c) = NoIno /\ NoIno # RootIno
      BY <2>7 DEF Step, NoIno, RootIno
    <3> QED
      BY <2>2, <3>1 DEF IsZone
  <2> QED
    BY <2>6, <2>7
<1> HIDE DEF Good
<1> SUFFICES ASSUME T # {} PROVE FALSE
  BY DEF Good
<1>3. T \in SUBSET Nat
  OBVIOUS
<1>4. PICK k \in T : \A m \in T : k <= m
  BY <1>3, Least
<1>5. k # 0 /\ k \in 0 .. Len(p)
  BY <1>1
<1>6. k - 1 \in Nat /\ k - 1 < Len(p) /\ k - 1 \notin T /\ (k - 1) + 1 = k /\ k - 1 \in 0 .. Len(p)
  BY <1>4, <1>5
<1> QED
  BY <1>2, <1>4, <1>6

\* Where nothing outside the zone differs, such a path leads to the same in both.
LEMMA SamePath ==
  ASSUME NEW img, NEW jmg, NEW Z, IsZone(img, Z), SameOutside(img, jmg, Z),
         NEW p \in Seq(STRING), ~ IsPrivate(p), NEW n \in 0 .. Len(p)
  PROVE  InoAt(jmg, SubSeq(p, 1, n)) = InoAt(img, SubSeq(p, 1, n))
<1> DEFINE Good(k) == InoAt(jmg, SubSeq(p, 1, k)) = InoAt(img, SubSeq(p, 1, k))
           T == {k \in 0 .. Len(p) : ~ Good(k)}
<1>1. Good(0)
  <2>1. SubSeq(p, 1, 0) = <<>>
    OBVIOUS
  <2> QED
    BY <2>1, InoAtRoot
<1>2. ASSUME NEW k \in Nat, k < Len(p), Good(k) PROVE Good(k + 1)
  <2> DEFINE d == InoAt(img, SubSeq(p, 1, k))
             c == p[k + 1]
  <2>1. InoAt(img, SubSeq(p, 1, k + 1)) = Step(img, d, c)
    BY <1>2, InoAtPrefix
  <2>2. InoAt(jmg, SubSeq(p, 1, k)) = d
    BY <1>2
  <2>3. InoAt(jmg, SubSeq(p, 1, k + 1)) = Step(jmg, d, c)
    BY <1>2, <2>2, InoAtPrefix
  <2>4. d \notin Z
    BY <1>2, PathsStayOutside
  <2> HIDE DEF d, c
  <2>5. Step(img, d, c) = Step(jmg, d, c)
    BY <2>4 DEF Step, SameOutside
  <2> QED
    BY <2>1, <2>3, <2>5
<1> HIDE DEF Good
<1> SUFFICES ASSUME T # {} PROVE FALSE
  BY DEF Good
<1>3. T \in SUBSET Nat
  OBVIOUS
<1>4. PICK k \in T : \A m \in T : k <= m
  BY <1>3, Least
<1>5. k # 0 /\ k \in 0 .. Len(p)
  BY <1>1
<1>6. k - 1 \in Nat /\ k - 1 < Len(p) /\ k - 1 \notin T /\ (k - 1) + 1 = k /\ k - 1 \in 0 .. Len(p)
  BY <1>4, <1>5
<1> QED
  BY <1>2, <1>4, <1>6

\* The whole of a path is a prefix of it.
LEMMA WholePrefix ==
  ASSUME NEW S, NEW p \in Seq(S)
  PROVE  SubSeq(p, 1, Len(p)) = p /\ Len(p) \in 0 .. Len(p)
OBVIOUS

\* And it is a path of both or of neither.
LEMMA SamePaths ==
  ASSUME NEW img, NEW jmg, NEW Z, IsZone(img, Z), SameOutside(img, jmg, Z),
         NEW p \in Seq(STRING), ~ IsPrivate(p)
  PROVE  (IsPath(img, p) <=> IsPath(jmg, p)) /\ InoAt(jmg, p) = InoAt(img, p)
<1>1. ASSUME NEW k \in 1 .. Len(p)
      PROVE  <<InoAt(img, SubSeq(p, 1, k - 1)), p[k]>> \in DOMAIN img
               <=> <<InoAt(jmg, SubSeq(p, 1, k - 1)), p[k]>> \in DOMAIN jmg
  <2>1. k - 1 \in 0 .. Len(p)
    OBVIOUS
  <2> PICK n : n = k - 1
    OBVIOUS
  <2>2. InoAt(jmg, SubSeq(p, 1, n)) = InoAt(img, SubSeq(p, 1, n)) /\ InoAt(img, SubSeq(p, 1, n)) \notin Z
    BY <2>1, SamePath, PathsStayOutside
  <2> QED
    BY <2>2 DEF SameOutside
<1>2. InoAt(jmg, SubSeq(p, 1, Len(p))) = InoAt(img, SubSeq(p, 1, Len(p)))
  BY WholePrefix, SamePath
<1>3. IsPath(img, p) <=> IsPath(jmg, p)
  BY <1>1 DEF IsPath
<1>4. SubSeq(p, 1, Len(p)) = p
  BY WholePrefix
<1> QED
  BY <1>2, <1>3, <1>4

\* What a path other than the root's leads to is what its last entry leads to.
LEMMA PathEndsInAnEntry ==
  ASSUME NEW img, NEW p \in Seq(STRING), p # Root, IsPath(img, p)
  PROVE  \E s \in DOMAIN img : InoAt(img, p) = img[s]
<1> PICK n \in Nat : Len(p) = n + 1
  <2>1. Len(p) \in Nat /\ Len(p) # 0
    BY DEF Root
  <2>2. Len(p) - 1 \in Nat /\ Len(p) = (Len(p) - 1) + 1
    BY <2>1
  <2> QED
    BY Zenon, <2>2
<1> DEFINE q == SubSeq(p, 1, n)
           c == p[n + 1]
<1>1. q \in Seq(STRING) /\ c \in STRING /\ p = Append(q, c)
  BY FrontAndLast
<1> HIDE DEF q, c
<1>2. <<InoAt(img, q), c>> \in DOMAIN img
  BY <1>1, PathNext
<1> QED
  BY Zenon, <1>1, <1>2, InoAtNext DEF Step

\* Two file systems that differ in .fstx only show the same tree: TreeOf.
LEMMA SameTree ==
  ASSUME NEW f, NEW g, NEW Z, IsZone(f.vol, Z), IsImage(g.vol), SameOutside(f.vol, g.vol, Z),
         \A s \in DOMAIN f.vol : f.vol[s] \notin Z =>
           g.kind[f.vol[s]] = f.kind[f.vol[s]] /\ g.data[f.vol[s]] = f.data[f.vol[s]]
  PROVE  TreeOf(g) = TreeOf(f)
<1> DEFINE Q(img) == {q \in PathsOf(img) : q # Root /\ ~ IsPrivate(q)}
           V(h, p) == [kind |-> h.kind[Stat(h, p)], ino |-> Stat(h, p), text |-> h.data[Stat(h, p)].text]
<1>1. Q(f.vol) = Q(g.vol)
  <2>1. IsImage(f.vol)
    BY DEF IsZone
  <2> QED
    BY <2>1, PathsOfAre, SamePaths
<1>2. ASSUME NEW p \in Q(f.vol) PROVE V(g, p) = V(f, p)
  <2>1. p \in Seq(STRING) /\ IsPath(f.vol, p) /\ p # Root /\ ~ IsPrivate(p)
    BY PathsOfAre DEF IsZone
  <2>2. Stat(g, p) = Stat(f, p)
    BY <2>1, SamePaths DEF Stat
  <2>3. \E s \in DOMAIN f.vol : Stat(f, p) = f.vol[s]
    BY <2>1, PathEndsInAnEntry DEF Stat
  <2>4. Stat(f, p) \notin Z
    <3>1. InoAt(f.vol, SubSeq(p, 1, Len(p))) \notin Z
      BY <2>1, WholePrefix, PathsStayOutside
    <3> QED
      BY <2>1, <3>1, WholePrefix DEF Stat
  <2> QED
    BY <2>2, <2>3, <2>4
<1>3. TreeOf(f) = [p \in Q(f.vol) |-> V(f, p)] /\ TreeOf(g) = [p \in Q(g.vol) |-> V(g, p)]
  BY DEF TreeOf
<1> HIDE DEF Q, V
<1> QED
  BY <1>1, <1>2, <1>3

-----------------------------------------------------------------------------
(* Paths. *)

\* Names are opaque to the provers from here on, and paths are sequences of them.
Name == STRING
Path == Seq(Name)

\* p is q or above it.
AtOrBelow(p, q) == \E s \in Path : q = p \o s

\* What is at or below a path, and what is below it.
LEMMA BelowIs ==
  ASSUME NEW p \in Path, NEW q \in Path
  PROVE  IsAncestorOf(p, q) <=> p # q /\ AtOrBelow(p, q)
<1>1. Len(p) \in Nat /\ Len(q) \in Nat
  BY LenProperties DEF Path
<1>2. SubSeq(p, 1, Len(p)) = p
  BY SubSeqFull DEF Path
<1>3. ASSUME Len(p) <= Len(q), SubSeq(p, 1, Len(p)) = SubSeq(q, 1, Len(p))
      PROVE  AtOrBelow(p, q)
  <2> DEFINE s == SubSeq(q, Len(p) + 1, Len(q))
  <2>1. SubSeq(q, 1, Len(p)) \o s = SubSeq(q, 1, Len(q))
    <3>1. 1 \in 1 .. Len(q) + 1 /\ Len(p) \in 1 - 1 .. Len(q) /\ Len(q) \in Len(p) .. Len(q)
      BY <1>1, <1>3
    <3> QED
      BY <3>1, ConcatAdjacentSubSeq DEF Path
  <2>2. s \in Path
    <3>1. Len(p) + 1 \in Int /\ Len(q) \in Int /\ \A i \in Len(p) + 1 .. Len(q) : i \in 1 .. Len(q)
      BY <1>1
    <3>2. \A i \in Len(p) + 1 .. Len(q) : q[i] \in Name
      BY <3>1, ElementOfSeq DEF Path
    <3> QED
      BY <3>1, <3>2, SubSeqProperties DEF Path
  <2>3. SubSeq(q, 1, Len(q)) = q
    BY SubSeqFull DEF Path
  <2> QED
    BY Zenon, <1>2, <1>3, <2>1, <2>2, <2>3 DEF AtOrBelow
<1>4. ASSUME NEW s \in Path, q = p \o s
      PROVE  Len(p) <= Len(q) /\ SubSeq(p, 1, Len(p)) = SubSeq(q, 1, Len(p))
  <2>1. Len(q) = Len(p) + Len(s) /\ Len(s) \in Nat
    BY <1>4, ConcatProperties, LenProperties DEF Path
  <2>2. CASE p = <<>>
    BY <1>1, <2>2, SubSeqEmpty
  <2>3. CASE p # <<>>
    <3>1. 1 \in 1 .. Len(p) /\ Len(p) \in 1 .. Len(p)
      BY <1>1, <2>3, EmptySeq DEF Path
    <3> QED
      BY <1>1, <1>4, <2>1, <3>1, SubSeqOfConcat1 DEF Path
  <2> QED
    BY <1>1, <2>1, <2>2, <2>3
<1> QED
  BY <1>3, <1>4 DEF IsAncestorOf, IsStrictPrefix, IsPrefix, AtOrBelow

\* Concatenation, one element further.
LEMMA ConcatNext ==
  ASSUME NEW S, NEW s \in Seq(S), NEW t \in Seq(S), NEW c \in S
  PROVE  s \o Append(t, c) = Append(s \o t, c) /\ s \o t \in Seq(S)
OBVIOUS

\* What the library says of sequences, of paths: one with a component more ...
Down(p, c) == Append(p, c)

\* They are paths, each comes from a shorter one, and from one only.
LEMMA PathFacts ==
  /\ <<>> \in Path
  /\ \A p \in Path : Len(p) \in Nat /\ (p # <<>> => Len(p) # 0)
  /\ \A p \in Path : p # <<>> => \E q \in Path : \E c \in Name : p = Down(q, c)
  /\ \A p \in Path : \A c \in Name :
       Down(p, c) \in Path /\ Down(p, c) # <<>> /\ Len(Down(p, c)) = Len(p) + 1
  /\ \A p, q \in Path : \A c, d \in Name : Down(p, c) = Down(q, d) => p = q /\ c = d
<1>1. <<>> \in Path
  BY EmptySeq DEF Path
<1>2. ASSUME NEW p \in Path PROVE Len(p) \in Nat /\ (p # <<>> => Len(p) # 0)
  BY EmptySeq DEF Path
<1>3. ASSUME NEW p \in Path, p # <<>> PROVE \E q \in Path : \E c \in Name : p = Down(q, c)
  <2>1. \E q \in Seq(Name), c \in Name : p = Append(q, c)
    BY <1>3, SequenceEmptyOrAppend, Zenon DEF Path
  <2> QED
    BY <2>1, Zenon DEF Path, Down
<1>4. ASSUME NEW p \in Path, NEW c \in Name
      PROVE  Down(p, c) \in Path /\ Down(p, c) # <<>> /\ Len(Down(p, c)) = Len(p) + 1
  BY AppendProperties DEF Path, Down
<1>5. ASSUME NEW p \in Path, NEW q \in Path, NEW c \in Name, NEW d \in Name,
             Down(p, c) = Down(q, d)
      PROVE  p = q /\ c = d
  BY <1>5, AppendInjective DEF Path, Down
<1> QED
  BY <1>1, <1>2, <1>3, <1>4, <1>5

\* ... and one after the other.
Join(p, q) == p \o q

\* It is associative, leaves the root alone and can be cancelled on the left.
LEMMA JoinFacts ==
  /\ \A p \in Path : Join(p, <<>>) = p
  /\ \A p, q \in Path : Join(p, q) \in Path /\ Len(Join(p, q)) = Len(p) + Len(q)
  /\ \A p, q \in Path : \A c \in Name : Join(p, Down(q, c)) = Down(Join(p, q), c)
  /\ \A p, q, r \in Path : Join(Join(p, q), r) = Join(p, Join(q, r))
  /\ \A p, q, r \in Path : Join(p, q) = Join(p, r) => q = r
<1>1. \A p \in Path : Join(p, <<>>) = p
  BY ConcatEmptySeq DEF Path, Join
<1>2. ASSUME NEW p \in Path, NEW q \in Path
      PROVE  Join(p, q) \in Path /\ Len(Join(p, q)) = Len(p) + Len(q)
  BY DEF Path, Join
<1>3. ASSUME NEW p \in Path, NEW q \in Path, NEW c \in Name
      PROVE  Join(p, Down(q, c)) = Down(Join(p, q), c)
  BY DEF Path, Join, Down
<1>4. ASSUME NEW p \in Path, NEW q \in Path, NEW r \in Path
      PROVE  Join(Join(p, q), r) = Join(p, Join(q, r))
  BY ConcatAssociative DEF Path, Join
<1>5. ASSUME NEW p \in Path, NEW q \in Path, NEW r \in Path, Join(p, q) = Join(p, r)
      PROVE  q = r
  <2>1. \A S : \A x, y, z \in Seq(S) : x \o y = x \o z => y = z
    BY ConcatSimplifications
  <2> QED
    BY <1>5, <2>1, Zenon DEF Path, Join
<1> QED
  BY <1>1, <1>2, <1>3, <1>4, <1>5

\* The facts above one by one: a component more makes a path that is not the root ...
LEMMA DownPath ==
  ASSUME NEW p \in Path, NEW c \in Name
  PROVE  Down(p, c) \in Path /\ Down(p, c) # <<>>
BY PathFacts

\* ... every path but the root is made so ...
LEMMA DownFrom ==
  ASSUME NEW p \in Path, p # <<>>
  PROVE  \E q \in Path : \E c \in Name : p = Down(q, c)
BY PathFacts

\* ... in one way.
LEMMA DownSame ==
  ASSUME NEW p \in Path, NEW q \in Path, NEW c \in Name, NEW d \in Name, Down(p, c) = Down(q, d)
  PROVE  p = q /\ c = d
BY PathFacts

\* What holds of the root, and below every path it holds of, holds of every path.
LEMMA PathInduction ==
  ASSUME NEW T \in SUBSET Path, <<>> \in T, \A q \in T : \A c \in Name : Down(q, c) \in T
  PROVE  T = Path
<1> DEFINE L == {n \in Nat : \E p \in Path : Len(p) = n /\ p \notin T}
<1> SUFFICES ASSUME T # Path PROVE FALSE
  OBVIOUS
<1>1. PICK p \in Path : p \notin T
  OBVIOUS
<1>2. Len(p) \in L
  BY <1>1, PathFacts
<1>3. PICK n \in L : \A k \in L : n <= k
  BY <1>2, Least
<1>4. PICK q \in Path : Len(q) = n /\ q \notin T
  BY <1>3
<1>5. q # <<>>
  BY <1>4
<1>6. PICK r \in Path : \E c \in Name : q = Down(r, c)
  BY <1>5, PathFacts
<1>7. Len(q) = Len(r) + 1 /\ Len(r) \in Nat
  BY <1>6, PathFacts
<1>8. Len(r) \notin L
  BY <1>3, <1>4, <1>7
<1>9. r \in T
  BY <1>7, <1>8
<1> QED
  BY <1>4, <1>6, <1>9

\* What is at or below a path goes on from it.
LEMMA BelowJoin ==
  ASSUME NEW p \in Path, NEW q \in Path
  PROVE  AtOrBelow(p, q) <=> \E s \in Path : q = Join(p, s)
BY DEF AtOrBelow, Join

\* One component further down.
LEMMA BelowNext ==
  ASSUME NEW p \in Path, NEW q \in Path, NEW c \in Name
  PROVE  /\ AtOrBelow(p, Down(q, c)) <=> p = Down(q, c) \/ AtOrBelow(p, q)
         /\ Down(q, c) \in Path /\ ~ AtOrBelow(Down(q, c), q)
<1> PICK r \in Path : r = Down(q, c)
  BY PathFacts
<1>2. ASSUME NEW s \in Path, r = Join(p, s)
      PROVE  p = r \/ AtOrBelow(p, q)
  <2>1. CASE s = <<>>
    BY <1>2, <2>1, JoinFacts
  <2>2. CASE s # <<>>
    <3>1. PICK t \in Path : \E d \in Name : s = Down(t, d)
      BY <2>2, PathFacts
    <3>2. PICK d \in Name : s = Down(t, d)
      BY <3>1
    <3>3. Join(p, s) = Down(Join(p, t), d) /\ Join(p, t) \in Path
      BY <3>2, JoinFacts
    <3>4. q = Join(p, t)
      <4> PICK x \in Path : x = Join(p, t)
        BY <3>3
      <4>1. Down(q, c) = Down(x, d)
        BY <1>2, <3>2, <3>3
      <4> QED
        BY <4>1, PathFacts
    <3> QED
      BY <3>4, BelowJoin
  <2> QED
    BY <2>1, <2>2
<1>3. ASSUME NEW s \in Path, q = Join(p, s) PROVE AtOrBelow(p, r)
  <2>1. Down(s, c) \in Path /\ r = Join(p, Down(s, c))
    BY <1>3, PathFacts, JoinFacts
  <2> QED
    BY <2>1, BelowJoin
<1>4. p = r => AtOrBelow(p, r)
  BY PathFacts, JoinFacts, BelowJoin
<1>5. ASSUME NEW s \in Path, q = Join(r, s) PROVE FALSE
  <2>1. Len(r) = Len(q) + 1 /\ Len(q) \in Nat /\ Len(s) \in Nat
    BY PathFacts
  <2>2. Len(q) = Len(r) + Len(s)
    BY <1>5, JoinFacts
  <2> QED
    BY <2>1, <2>2
<1> QED
  BY <1>2, <1>3, <1>4, <1>5, BelowJoin

\* A path is at itself, and what is below what is below it is below it.
LEMMA BelowOrder ==
  /\ \A p \in Path : AtOrBelow(p, p)
  /\ \A p, q, r \in Path : AtOrBelow(p, q) /\ AtOrBelow(q, r) => AtOrBelow(p, r)
<1>1. ASSUME NEW p \in Path PROVE AtOrBelow(p, p)
  BY PathFacts, JoinFacts, BelowJoin
<1>2. ASSUME NEW p \in Path, NEW q \in Path, NEW r \in Path, AtOrBelow(p, q), AtOrBelow(q, r)
      PROVE  AtOrBelow(p, r)
  <2>1. PICK s \in Path : q = Join(p, s)
    BY <1>2, BelowJoin
  <2>2. PICK t \in Path : r = Join(q, t)
    BY <1>2, BelowJoin
  <2>3. r = Join(p, Join(s, t)) /\ Join(s, t) \in Path
    BY <2>1, <2>2, JoinFacts
  <2> QED
    BY <2>3, BelowJoin
<1> QED
  BY <1>1, <1>2

\* Two paths above a third are one above the other.
LEMMA BelowBoth ==
  ASSUME NEW p \in Path, NEW q \in Path, NEW r \in Path, AtOrBelow(p, r), AtOrBelow(q, r)
  PROVE  AtOrBelow(p, q) \/ AtOrBelow(q, p)
<1> DEFINE T == {x \in Path : AtOrBelow(p, x) /\ AtOrBelow(q, x) => AtOrBelow(p, q) \/ AtOrBelow(q, p)}
<1>1. <<>> \in T
  <2>1. <<>> \in Path
    BY PathFacts
  <2>2. AtOrBelow(p, <<>>) => p = <<>>
    <3>1. ASSUME NEW t \in Path, <<>> = Join(p, t) PROVE p = <<>>
      <4>1. Len(p) + Len(t) = 0 /\ Len(p) \in Nat /\ Len(t) \in Nat
        BY <3>1, PathFacts, JoinFacts
      <4> QED
        BY <4>1, PathFacts
    <3> QED
      BY <2>1, <3>1, BelowJoin
  <2> QED
    BY <2>1, <2>2
<1>2. ASSUME NEW x \in T, NEW c \in Name PROVE Down(x, c) \in T
  <2> PICK y : y = Down(x, c)
    OBVIOUS
  <2>1. y \in Path
    BY PathFacts
  <2>2. /\ AtOrBelow(p, y) <=> p = y \/ AtOrBelow(p, x)
        /\ AtOrBelow(q, y) <=> q = y \/ AtOrBelow(q, x)
    BY BelowNext
  <2> QED
    BY <2>1, <2>2
<1>3. T = Path
  <2> HIDE DEF T
  <2>1. T \in SUBSET Path
    BY DEF T
  <2> QED
    BY <1>1, <1>2, <2>1, PathInduction
<1> QED
  BY <1>3

-----------------------------------------------------------------------------
(* What is shown at a path, one component at a time. *)

\* resolve() as a fold: from the entry of the root, a component at a time.
TopEntry == Base("dir", Root, RootIno)

Descending(x, at, c) == Descend(x[1], x[2], at, c)
AtTop(x) == [view |-> Root, cur |-> TopEntry]

Going == INSTANCE FoldLemmas WITH Op <- Descending, Base <- AtTop

\* Resolve is such a fold.
LEMMA ResolveIsFold ==
  ASSUME NEW f, NEW o, NEW p
  PROVE  Resolve(f, o, p) = Going!Fold(<<f, o>>, p).cur
BY DEF Resolve, Descending, AtTop, TopEntry, Going!Fold, FoldLeft, MapThenFoldSet,
       Going!MapThenFoldSet, Max, Going!Largest

\* What the base has below the entry e under the name c, and what is shown of it at q.
Kept(f, o, e, c) ==
  IF e.from = "base" /\ Down(e.origin, c) \notin DOMAIN o.detached
  THEN BaseLookup(f, Down(e.origin, c)) ELSE NoEntry
Child(f, o, e, q, c) ==
  IF e.kind # "dir" THEN NoEntry
  ELSE IF q \in DOMAIN o.placed THEN o.placed[q] ELSE Kept(f, o, e, c)

\* One step of the fold.
LEMMA DescendIs ==
  ASSUME NEW f, NEW o, NEW at, NEW c
  PROVE  /\ Descend(f, o, at, c).view = Down(at.view, c)
         /\ Descend(f, o, at, c).cur = Child(f, o, at.cur, Down(at.view, c), c)
<1> PICK seen : seen = Append(at.view, c)
  OBVIOUS
<1> PICK origin : origin = Append(at.cur.origin, c)
  OBVIOUS
<1> DEFINE below == CASE at.cur.kind # "dir" -> NoEntry
                 [] at.cur.kind = "dir" /\ seen \in DOMAIN o.placed -> o.placed[seen]
                 [] OTHER -> IF at.cur.from = "base" /\ origin \notin DOMAIN o.detached
                             THEN BaseLookup(f, origin) ELSE NoEntry
<1>1. Descend(f, o, at, c) = [view |-> seen, cur |-> below]
  BY Zenon DEF Descend
<1>2. CASE at.cur.kind # "dir"
  <2>1. below = NoEntry
    BY <1>2
  <2> HIDE DEF below
  <2> QED
    BY <1>1, <1>2, <2>1 DEF Child, Down
<1>3. CASE at.cur.kind = "dir" /\ seen \in DOMAIN o.placed
  <2>1. below = o.placed[seen]
    BY <1>3
  <2> HIDE DEF below
  <2> QED
    BY <1>1, <1>3, <2>1 DEF Child, Down
<1>4. CASE at.cur.kind = "dir" /\ seen \notin DOMAIN o.placed
  <2>1. below = IF at.cur.from = "base" /\ origin \notin DOMAIN o.detached
                THEN BaseLookup(f, origin) ELSE NoEntry
    BY <1>4
  <2> HIDE DEF below
  <2> QED
    BY <1>1, <1>4, <2>1 DEF Child, Kept, Down
<1> QED
  BY <1>2, <1>3, <1>4

\* The step on a fold.
LEMMA GoingNext ==
  ASSUME NEW x, NEW p \in Path, NEW c \in Name
  PROVE  Going!Fold(x, Down(p, c)) = Descending(x, Going!Fold(x, p), c)
BY Going!FoldAppend, Least DEF Going!WellOrdered, Down, Path

\* It comes to the path it was given.
LEMMA GoingView ==
  ASSUME NEW x, NEW p \in Path
  PROVE  Going!Fold(x, p).view = p
<1> DEFINE T == {q \in Path : Going!Fold(x, q).view = q}
<1>1. <<>> \in T
  <2>1. Going!Fold(x, <<>>) = AtTop(x)
    BY Going!FoldEmpty, Least DEF Going!WellOrdered
  <2> QED
    BY <2>1, PathFacts DEF AtTop, Root
<1>2. ASSUME NEW q \in T, NEW c \in Name PROVE Down(q, c) \in T
  <2>1. Going!Fold(x, Down(q, c)) = Descending(x, Going!Fold(x, q), c)
    BY GoingNext
  <2>2. Descending(x, Going!Fold(x, q), c).view = Down(Going!Fold(x, q).view, c)
    BY DescendIs DEF Descending
  <2> QED
    BY <2>1, <2>2, PathFacts
<1> HIDE DEF T
<1>3. T \in SUBSET Path
  BY DEF T
<1>4. T = Path
  BY <1>1, <1>2, <1>3, PathInduction
<1> QED
  BY <1>4 DEF T

\* The empty path shows the top of the tree ...
LEMMA ResolveRoot ==
  ASSUME NEW f, NEW o
  PROVE  Resolve(f, o, <<>>) = TopEntry
<1> PICK x : x = <<f, o>>
  OBVIOUS
<1>1. Resolve(f, o, <<>>) = Going!Fold(x, <<>>).cur
  BY ResolveIsFold
<1>2. Going!Fold(x, <<>>) = AtTop(x)
  BY Going!FoldEmpty, Least DEF Going!WellOrdered
<1> QED
  BY <1>1, <1>2 DEF AtTop

\* ... and one name more what is below that.
LEMMA ResolveNext ==
  ASSUME NEW f, NEW o, NEW p \in Path, NEW c \in Name
  PROVE  Resolve(f, o, Down(p, c)) = Child(f, o, Resolve(f, o, p), Down(p, c), c)
<1> PICK x : x = <<f, o>>
  OBVIOUS
<1>0. x[1] = f /\ x[2] = o
  OBVIOUS
<1>1. Resolve(f, o, Down(p, c)) = Going!Fold(x, Down(p, c)).cur
  BY ResolveIsFold
<1>2. Going!Fold(x, Down(p, c)) = Descend(f, o, Going!Fold(x, p), c)
  BY <1>0, GoingNext DEF Descending
<1>3. Going!Fold(x, p).view = p
  BY GoingView
<1>4. Going!Fold(x, p).cur = Resolve(f, o, p)
  BY ResolveIsFold
<1>5. Descend(f, o, Going!Fold(x, p), c).cur = Child(f, o, Resolve(f, o, p), Down(p, c), c)
  BY <1>3, <1>4, DescendIs
<1> QED
  BY <1>1, <1>2, <1>5

-----------------------------------------------------------------------------
(* The shape of an overlay, and what follows for what it shows. *)

\* The parent and the last component of a path with a component more.
LEMMA DownParent ==
  ASSUME NEW q \in Path, NEW c \in Name
  PROVE  Parent(Down(q, c)) = q /\ Leaf(Down(q, c)) = c
<1> PICK p : p = Down(q, c)
  OBVIOUS
<1>1. p \in Seq(Name) /\ Len(p) = Len(q) + 1 /\ Len(q) \in Nat
  BY AppendFacts DEF Path, Down
<1>2. p[Len(q) + 1] = c /\ SubSeq(p, 1, Len(q)) = q
  BY AppendFacts DEF Path, Down
<1>3. p # <<>> /\ Len(p) - 1 = Len(q)
  BY <1>1, PathFacts
<1>4. Parent(p) = q
  BY <1>2, <1>3 DEF Parent, Front, Root
<1>5. Leaf(p) = c
  BY <1>1, <1>2 DEF Leaf, Last
<1> QED
  BY <1>4, <1>5

\* A path is private from its first component on.
LEMMA PrivateNext ==
  ASSUME NEW q \in Path, NEW c \in Name
  PROVE  /\ q # <<>> => (IsPrivate(Down(q, c)) <=> IsPrivate(q))
         /\ q = <<>> => (IsPrivate(Down(q, c)) <=> c = PrivateDir)
<1>1. Down(q, c) # <<>>
  BY PathFacts
<1>2. ASSUME q # <<>> PROVE Down(q, c)[1] = q[1]
  <2>1. 1 \in 1 .. Len(q)
    BY <1>2, PathFacts
  <2> QED
    BY <2>1, AppendPrefix DEF Path, Down
<1>3. q = <<>> => Down(q, c)[1] = c
  BY DEF Down
<1> QED
  BY <1>1, <1>2, <1>3 DEF IsPrivate, Root

\* Every entry of the base has a kind, and is in its directory under its name.
Regular(f) ==
  /\ \A b \in Path : BaseLookup(f, b) # NoEntry => BaseLookup(f, b).kind \in {"file", "dir"}
  /\ \A b \in Path : \A c : c \in Names(f, b) <=> c \in Name /\ Stat(f, Down(b, c)) # NoIno

\* An entry that is there has a kind.
IsEntry(e) == e = NoEntry \/ e.kind \in {"file", "dir"}

\* An overlay the operations make: in shape (Overlay), over a base that is regular.
Sound(f, o) ==
  /\ Regular(f) /\ InShape(f, o)
  /\ \A k \in DOMAIN o.placed :
       /\ k \in Path /\ IsEntry(o.placed[k])
       /\ o.placed[k].from = "base" => o.placed[k].origin \in Path

\* An entry of the base.
IsBase(f, e) == e.origin \in Path /\ UserPath(e.origin) /\ e = BaseLookup(f, e.origin)

\* What the base has at a path.
LEMMA BaseIs ==
  ASSUME NEW f, NEW b
  PROVE  /\ BaseLookup(f, b) # NoEntry =>
              /\ BaseLookup(f, b).origin = b /\ BaseLookup(f, b).from = "base" /\ ~ IsPrivate(b)
         /\ BaseLookup(f, b) # NoEntry <=> ~ IsPrivate(b) /\ Stat(f, b) # NoIno
         /\ NoEntry.from = "none" /\ NoEntry.kind = "none"
         /\ BaseLookup(f, b).from = "base" => BaseLookup(f, b) # NoEntry
<1>1. NoEntry.from = "none" /\ NoEntry.kind = "none"
  BY DEF NoEntry
<1>2. ASSUME NEW k, NEW id PROVE Base(k, b, id).origin = b /\ Base(k, b, id).from = "base"
  BY DEF Base, NoEntry
<1>3. IsPrivate(b) \/ Stat(f, b) = NoIno => BaseLookup(f, b) = NoEntry
  BY DEF BaseLookup
<1>4. ~ (IsPrivate(b) \/ Stat(f, b) = NoIno) =>
        BaseLookup(f, b).origin = b /\ BaseLookup(f, b).from = "base"
  BY <1>2 DEF BaseLookup
<1>5. "base" # "none"
  OBVIOUS
<1> QED
  BY <1>1, <1>3, <1>4, <1>5

\* What is shown at a path.
LEMMA ShownIs ==
  ASSUME NEW f, NEW o, Sound(f, o), NEW p \in Path
  PROVE  /\ IsEntry(Resolve(f, o, p))
         /\ Resolve(f, o, p).from = "base" =>
              IsBase(f, Resolve(f, o, p)) \/ (p = <<>> /\ Resolve(f, o, p) = TopEntry)
         /\ IsPrivate(p) => Resolve(f, o, p) = NoEntry
<1> DEFINE G(q) ==
      /\ IsEntry(Resolve(f, o, q))
      /\ Resolve(f, o, q).from = "base" =>
           IsBase(f, Resolve(f, o, q)) \/ (q = <<>> /\ Resolve(f, o, q) = TopEntry)
      /\ IsPrivate(q) => Resolve(f, o, q) = NoEntry
    T == {q \in Path : G(q)}
<1>0. TopEntry.kind = "dir" /\ TopEntry.origin = <<>> /\ TopEntry.from = "base"
  BY DEF TopEntry, Base, NoEntry, Root
<1>1. <<>> \in T
  BY <1>0, ResolveRoot, PathFacts DEF IsEntry, IsPrivate, Root
<1>2. ASSUME NEW q \in Path, G(q), NEW c \in Name PROVE G(Down(q, c))
  <2> PICK e : e = Resolve(f, o, q)
    OBVIOUS
  <2> PICK k \in Path : k = Down(q, c)
    BY PathFacts
  <2>1. Resolve(f, o, k) = Child(f, o, e, k, c)
    BY ResolveNext
  <2>2. NoEntry.from = "none" /\ IsEntry(NoEntry) /\ NoEntry.from # "base"
    BY BaseIs DEF IsEntry
  <2>3. CASE e.kind # "dir"
    BY <2>1, <2>2, <2>3 DEF Child
  <2>4. CASE e.kind = "dir" /\ k \in DOMAIN o.placed
    <3>1. Resolve(f, o, k) = o.placed[k]
      BY <2>1, <2>4 DEF Child
    <3>2. IsEntry(o.placed[k]) /\ UserPath(k)
      BY <2>4 DEF Sound, InShape
    <3>3. o.placed[k].from = "base" => IsBase(f, o.placed[k])
      BY <2>4 DEF Sound, InShape, Wanderers, IsBase
    <3>4. ~ IsPrivate(k)
      BY <3>2 DEF UserPath
    <3> QED
      BY <3>1, <3>2, <3>3, <3>4
  <2>5. CASE e.kind = "dir" /\ k \notin DOMAIN o.placed
    <3>1. Resolve(f, o, k) = Kept(f, o, e, c)
      BY <2>1, <2>5 DEF Child
    <3>2. CASE Resolve(f, o, k) = NoEntry
      BY <3>2, <2>2
    <3>3. CASE Resolve(f, o, k) # NoEntry
      <4>1. e.from = "base" /\ Resolve(f, o, k) = BaseLookup(f, Down(e.origin, c))
        BY <3>1, <3>3 DEF Kept
      <4>2. e.origin \in Path
        BY <1>2, <1>0, <4>1, PathFacts DEF IsBase
      <4> PICK d \in Path : d = e.origin
        BY <4>2
      <4> PICK b \in Path : b = Down(e.origin, c) /\ b # <<>>
        BY DownPath
      <4>3. Resolve(f, o, k).origin = b /\ ~ IsPrivate(b)
        BY <3>3, <4>1, BaseIs
      <4>4. IsBase(f, Resolve(f, o, k))
        BY <4>1, <4>3 DEF IsBase, UserPath, Root
      <4>5. IsEntry(Resolve(f, o, k))
        BY <3>3, <4>1 DEF Sound, Regular, IsEntry
      <4>6. ~ IsPrivate(k)
        <5>1. CASE q = <<>>
          <6>1. e.origin = <<>>
            <7>1. e = TopEntry
              BY <5>1, ResolveRoot
            <7> QED
              BY <1>0, <7>1
          <6> QED
            BY <4>3, <5>1, <6>1, PrivateNext
        <5>2. CASE q # <<>>
          <6>1. e # NoEntry
            BY <4>1, <2>2
          <6> QED
            BY <1>2, <5>2, <6>1, PrivateNext
        <5> QED
          BY <5>1, <5>2
      <4> QED
        BY <4>4, <4>5, <4>6
    <3> QED
      BY <3>2, <3>3
  <2> QED
    BY <2>3, <2>4, <2>5
<1> HIDE DEF G
<1>3. \A q \in T : \A c \in Name : Down(q, c) \in T
  BY <1>2, PathFacts
<1>4. T = Path
  <2>1. T \in SUBSET Path
    OBVIOUS
  <2> HIDE DEF T
  <2> QED
    BY <1>1, <1>3, <2>1, PathInduction
<1>5. G(p)
  BY <1>4
<1> QED
  BY <1>5 DEF G

\* What is in a slot is shown there.
LEMMA PlacedIsShown ==
  ASSUME NEW f, NEW o, Sound(f, o), NEW k \in DOMAIN o.placed
  PROVE  k \in Path /\ k # <<>> /\ Resolve(f, o, k) = o.placed[k]
<1>1. k \in Path /\ k # <<>> /\ Resolve(f, o, Parent(k)).kind = "dir"
  BY DEF Sound, InShape, UserPath, Root
<1>2. PICK q \in Path : \E c \in Name : k = Down(q, c)
  BY <1>1, PathFacts
<1>3. PICK c \in Name : k = Down(q, c)
  BY <1>2
<1>4. Resolve(f, o, k) = Child(f, o, Resolve(f, o, q), k, c) /\ Resolve(f, o, q).kind = "dir"
  BY <1>1, <1>3, ResolveNext, DownParent
<1> QED
  BY <1>1, <1>4 DEF Child

\* Where a base entry that is shown comes from: it is placed, and gone from its base path, or is
\* where it was in the base, in a directory of the base.
LEMMA WhereFrom ==
  ASSUME NEW f, NEW o, Sound(f, o), NEW w \in Path, NEW c \in Name,
         Resolve(f, o, Down(w, c)).from = "base"
  PROVE  LET v == Down(w, c)
             e == Resolve(f, o, v)
             d == Resolve(f, o, w)
         IN  \/ v \in DOMAIN o.placed /\ e = o.placed[v] /\ e.origin \in DOMAIN o.detached
             \/ /\ d.from = "base" /\ d.kind = "dir" /\ d.origin \in Path
                /\ e.origin = Down(d.origin, c) /\ e.origin \notin DOMAIN o.detached
<1> PICK v : v = Down(w, c)
  OBVIOUS
<1> PICK d : d = Resolve(f, o, w)
  OBVIOUS
<1>1. Resolve(f, o, v) = Child(f, o, d, v, c)
  BY ResolveNext
<1>2. NoEntry.from # "base"
  BY BaseIs
<1>3. CASE v \in DOMAIN o.placed
  <2>1. Resolve(f, o, v) = o.placed[v]
    BY <1>3, PlacedIsShown
  <2>2. o.placed[v].origin \in DOMAIN o.detached
    BY <1>3, <2>1 DEF Sound, InShape, Wanderers
  <2> QED
    BY <1>3, <2>1, <2>2
<1>4. CASE v \notin DOMAIN o.placed
  <2>1. d.kind = "dir" /\ Resolve(f, o, v) = Kept(f, o, d, c)
    BY <1>1, <1>2, <1>4 DEF Child
  <2>2. d.from = "base" /\ Down(d.origin, c) \notin DOMAIN o.detached
        /\ Resolve(f, o, v) = BaseLookup(f, Down(d.origin, c))
    BY <1>2, <2>1 DEF Kept
  <2>3. Resolve(f, o, v).origin = Down(d.origin, c)
    BY <2>2, BaseIs
  <2>4. d.origin \in Path
    <3>1. TopEntry.origin \in Path
      BY PathFacts DEF TopEntry, Base, NoEntry, Root
    <3> QED
      BY <2>2, <3>1, ShownIs DEF IsBase
  <2> QED
    BY <2>1, <2>2, <2>3, <2>4
<1> QED
  BY <1>3, <1>4

\* A base entry is shown at one path only.
LEMMA ShownOnce ==
  ASSUME NEW f, NEW o, Sound(f, o), NEW v1 \in Path, NEW v2 \in Path,
         Resolve(f, o, v1).from = "base", Resolve(f, o, v2).from = "base",
         Resolve(f, o, v1).origin = Resolve(f, o, v2).origin
  PROVE  v1 = v2
<1> DEFINE R(v) == Resolve(f, o, v)
           G(b) == \A v, w \in Path : R(v).from = "base" /\ R(w).from = "base" /\ R(v).origin = b
                                        /\ R(w).origin = b => v = w
           T == {b \in Path : G(b)}
<1>0. TopEntry.origin = <<>>
  BY DEF TopEntry, Base, NoEntry, Root
<1>1. G(<<>>)
  <2>1. ASSUME NEW v \in Path, R(v).from = "base", R(v).origin = <<>> PROVE v = <<>>
    BY <2>1, ShownIs DEF IsBase, UserPath, Root
  <2> QED
    BY <2>1
<1>2. ASSUME NEW b \in Path, G(b), NEW c \in Name PROVE G(Down(b, c))
  <2> PICK a \in Path : a = Down(b, c) /\ a # <<>>
    BY PathFacts
  <2>1. ASSUME NEW v \in Path, R(v).from = "base", R(v).origin = a
        PROVE  \/ v \in DOMAIN o.placed /\ R(v) = o.placed[v] /\ a \in DOMAIN o.detached
               \/ /\ a \notin DOMAIN o.detached
                  /\ \E w \in Path : /\ v = Down(w, c) /\ R(w).from = "base"
                                       /\ R(w).origin = b
    <3>1. v # <<>>
      BY <1>0, <2>1, ResolveRoot
    <3>2. PICK w \in Path : \E x \in Name : v = Down(w, x)
      BY <3>1, PathFacts
    <3>3. PICK x \in Name : v = Down(w, x)
      BY <3>2
    <3>4. CASE v \in DOMAIN o.placed /\ R(v) = o.placed[v] /\ R(v).origin \in DOMAIN o.detached
      BY <2>1, <3>4
    <3>5. CASE /\ R(w).from = "base" /\ R(w).origin \in Path /\ R(v).origin = Down(R(w).origin, x)
               /\ R(v).origin \notin DOMAIN o.detached
      <4> PICK d \in Path : d = R(w).origin
        BY <3>5
      <4>1. Down(d, x) = Down(b, c)
        BY <2>1, <3>5
      <4>2. d = b /\ x = c
        BY <4>1, DownSame
      <4> QED
        BY <2>1, <3>3, <3>5, <4>2
    <3>6. \/ v \in DOMAIN o.placed /\ R(v) = o.placed[v] /\ R(v).origin \in DOMAIN o.detached
          \/ /\ R(w).from = "base" /\ R(w).origin \in Path /\ R(v).origin = Down(R(w).origin, x)
             /\ R(v).origin \notin DOMAIN o.detached
      BY <2>1, <3>3, WhereFrom
    <3> QED
      BY <3>4, <3>5, <3>6
  <2> SUFFICES ASSUME NEW v \in Path, NEW w \in Path, R(v).from = "base", R(w).from = "base",
                      R(v).origin = a, R(w).origin = a
               PROVE  v = w
    OBVIOUS
  <2>2. CASE a \in DOMAIN o.detached
    <3>1. /\ v \in DOMAIN o.placed /\ R(v) = o.placed[v]
          /\ w \in DOMAIN o.placed /\ R(w) = o.placed[w]
      BY <2>1, <2>2
    <3> QED
      BY <3>1 DEF Sound, InShape, Wanderers
  <2>3. CASE a \notin DOMAIN o.detached
    <3>1. PICK v0 \in Path : v = Down(v0, c) /\ R(v0).from = "base" /\ R(v0).origin = b
      BY <2>1, <2>3
    <3>2. PICK w0 \in Path : w = Down(w0, c) /\ R(w0).from = "base" /\ R(w0).origin = b
      BY <2>1, <2>3
    <3>3. v0 = w0
      BY <1>2, <3>1, <3>2
    <3> QED
      BY <3>1, <3>2, <3>3
  <2> QED
    BY <2>2, <2>3
<1>3. <<>> \in T
  BY <1>1, PathFacts
<1>4. \A q \in T : \A c \in Name : Down(q, c) \in T
  <2> HIDE DEF G
  <2> QED
    BY <1>2, PathFacts
<1>5. T = Path
  <2>1. T \in SUBSET Path
    OBVIOUS
  <2> HIDE DEF T
  <2> QED
    BY <1>3, <1>4, <2>1, PathInduction
<1>6. R(v1).origin \in Path
  BY <1>0, ShownIs, PathFacts DEF IsBase
<1>7. G(R(v1).origin)
  <2> HIDE DEF G, R
  <2> QED
    BY <1>5, <1>6
<1> QED
  BY <1>7

-----------------------------------------------------------------------------
(* The view of a whole overlay: list() leads to what resolve() finds. *)

\* The paths of one component more.
LEMMA NextBelow ==
  ASSUME NEW p \in Path, NEW q \in Path
  PROVE  IsAncestorOf(p, q) /\ Len(q) = Len(p) + 1 <=> \E c \in Name : q = Down(p, c)
<1>1. ASSUME AtOrBelow(p, q), p # q, Len(q) = Len(p) + 1 PROVE \E c \in Name : q = Down(p, c)
  <2>1. q # <<>>
    <3>1. Len(<<>>) = 0 /\ Len(p) \in Nat
      BY PathFacts
    <3> QED
      BY <1>1, <3>1
  <2>2. PICK r \in Path : \E c \in Name : q = Down(r, c)
    BY <2>1, PathFacts
  <2>3. PICK c \in Name : q = Down(r, c)
    BY <2>2
  <2>4. Len(r) = Len(p) /\ Len(p) \in Nat
    <3>1. Len(q) = Len(r) + 1 /\ Len(r) \in Nat /\ Len(p) \in Nat
      BY <2>3, PathFacts
    <3> QED
      BY <1>1, <3>1
  <2>5. AtOrBelow(p, r)
    BY <1>1, <2>3, BelowNext
  <2>6. PICK s \in Path : r = Join(p, s)
    BY <2>5, BelowJoin
  <2>7. Len(r) = Len(p) + Len(s) /\ Len(s) \in Nat
    BY <2>6, JoinFacts, PathFacts
  <2>8. s = <<>>
    <3>1. Len(s) = 0
      BY <2>4, <2>7
    <3> QED
      BY <3>1, PathFacts
  <2>9. r = p
    BY <2>6, <2>8, JoinFacts
  <2> QED
    BY <2>3, <2>9
<1>2. ASSUME NEW c \in Name, q = Down(p, c) PROVE AtOrBelow(p, q) /\ p # q /\ Len(q) = Len(p) + 1
  <2>1. Len(q) = Len(p) + 1 /\ Len(p) \in Nat
    BY <1>2, PathFacts
  <2>2. AtOrBelow(p, q)
    BY <1>2, BelowNext, BelowOrder
  <2> QED
    BY <2>1, <2>2
<1> QED
  BY <1>1, <1>2, BelowIs

\* The names that list() gives of a directory are those at which resolve() finds something.
LEMMA ListIs ==
  ASSUME NEW f, NEW o, Sound(f, o), NEW p \in Path, Resolve(f, o, p).kind = "dir", NEW c
  PROVE  c \in List(f, o, p) <=> c \in Name /\ Resolve(f, o, Down(p, c)) # NoEntry
<1> DEFINE e == Resolve(f, o, p)
           shown == {Leaf(k) : k \in {q \in PlacedUnder(o, p) :
                                         Len(q) = Len(p) + 1 /\ o.placed[q] # NoEntry}}
           kept == {n \in Names(f, e.origin) :
                      /\ ~ IsPrivate(Down(p, n))
                      /\ Down(p, n) \notin DOMAIN o.placed
                      /\ Down(e.origin, n) \notin DOMAIN o.detached}
<1>1. List(f, o, p) = shown \union (IF e.from = "base" THEN kept ELSE {})
  BY DEF List, Down
<1>2. c \in shown <=> c \in Name /\ Down(p, c) \in DOMAIN o.placed /\ o.placed[Down(p, c)] # NoEntry
  <2>1. \A k \in DOMAIN o.placed : k \in Path
    BY DEF Sound
  <2>2. ASSUME NEW k \in DOMAIN o.placed, IsAncestorOf(p, k), Len(k) = Len(p) + 1
        PROVE  Leaf(k) \in Name /\ k = Down(p, Leaf(k))
    <3>1. PICK d \in Name : k = Down(p, d)
      BY <2>1, <2>2, NextBelow
    <3> QED
      BY <3>1, DownParent
  <2>3. ASSUME c \in Name, Down(p, c) \in DOMAIN o.placed
        PROVE  /\ IsAncestorOf(p, Down(p, c)) /\ Len(Down(p, c)) = Len(p) + 1
               /\ Leaf(Down(p, c)) = c
    <3>1. Down(p, c) \in Path
      BY <2>3, DownPath
    <3> QED
      BY <2>3, <3>1, NextBelow, DownParent
  <2> QED
    BY <2>2, <2>3 DEF PlacedUnder
<1>3. ASSUME c \in Name, Down(p, c) \in DOMAIN o.placed
      PROVE  c \notin kept /\ Resolve(f, o, Down(p, c)) = o.placed[Down(p, c)]
  BY <1>3, PlacedIsShown
<1>4. ASSUME c \in Name, Down(p, c) \notin DOMAIN o.placed
      PROVE  Resolve(f, o, Down(p, c)) = Kept(f, o, e, c)
  BY <1>4, ResolveNext DEF Child
<1>5. ASSUME e.from # "base" PROVE Kept(f, o, e, c) = NoEntry
  BY <1>5 DEF Kept
<1>6. ASSUME e.from = "base", Down(p, c) \notin DOMAIN o.placed
      PROVE  c \in kept <=> c \in Name /\ Kept(f, o, e, c) # NoEntry
  <2>0. TopEntry.origin = <<>>
    BY DEF TopEntry, Base, NoEntry, Root
  <2>1. IsBase(f, e) \/ (p = <<>> /\ e.origin = <<>>)
    BY <1>6, <2>0, ShownIs
  <2> PICK b \in Path : b = e.origin
    BY <2>1, PathFacts DEF IsBase
  <2>2. c \in Names(f, b) <=> c \in Name /\ Stat(f, Down(b, c)) # NoIno
    BY DEF Sound, Regular
  <2>3. ASSUME c \in Name PROVE IsPrivate(Down(p, c)) <=> IsPrivate(Down(b, c))
    <3>1. CASE p = <<>> /\ e.origin = <<>>
      BY <2>3, <3>1, PrivateNext
    <3>2. CASE IsBase(f, e) /\ p # <<>>
      <4>1. b # <<>> /\ ~ IsPrivate(b) /\ ~ IsPrivate(p)
        BY <3>2, <1>6, ShownIs, BaseIs DEF IsBase, UserPath, Root
      <4> QED
        BY <2>3, <3>2, <4>1, PrivateNext
    <3>3. CASE IsBase(f, e) /\ p = <<>>
      <4>1. e.origin = <<>>
        BY <2>0, <3>3, ResolveRoot
      <4> QED
        BY <2>3, <3>3, <4>1, PrivateNext
    <3> QED
      BY <2>1, <3>1, <3>2, <3>3
  <2>4. Kept(f, o, e, c) # NoEntry <=>
          Down(b, c) \notin DOMAIN o.detached /\ ~ IsPrivate(Down(b, c)) /\ Stat(f, Down(b, c)) # NoIno
    BY <1>6, BaseIs DEF Kept
  <2> QED
    BY <1>6, <2>2, <2>3, <2>4
<1> QED
  BY <1>1, <1>2, <1>3, <1>4, <1>5, <1>6

-----------------------------------------------------------------------------
\* Each level of the view comes from the directories of the one above.
ViewDeeper(x, found, n) ==
  LET new == UNION {{Append(p, name) : name \in List(x[1], x[2], p)} :
                      p \in {q \in found.last : Resolve(x[1], x[2], q).kind = "dir"}}
  IN  [all |-> found.all \union new, last |-> new]
ViewTop(x) == [all |-> {}, last |-> {Root}]

Looking == INSTANCE FoldLemmas WITH Op <- ViewDeeper, Base <- ViewTop

\* What is shown on the n-th level.
ShownAt(f, o, n) == {p \in Path : Len(p) = n /\ Resolve(f, o, p) # NoEntry}

\* One level further down.
LEMMA ShownNext ==
  ASSUME NEW f, NEW o, Sound(f, o), NEW m \in Nat
  PROVE  UNION {{Append(p, name) : name \in List(f, o, p)} :
                  p \in {q \in ShownAt(f, o, m) : Resolve(f, o, q).kind = "dir"}}
           = ShownAt(f, o, m + 1)
<1>1. ASSUME NEW p \in ShownAt(f, o, m), Resolve(f, o, p).kind = "dir", NEW c \in List(f, o, p)
      PROVE  Append(p, c) \in ShownAt(f, o, m + 1)
  <2>1. p \in Path /\ Len(p) = m
    BY DEF ShownAt
  <2>2. c \in Name /\ Resolve(f, o, Down(p, c)) # NoEntry
    BY <1>1, <2>1, ListIs
  <2>3. Down(p, c) \in Path /\ Len(Down(p, c)) = m + 1
    BY <2>1, <2>2, PathFacts
  <2>4. Down(p, c) \in ShownAt(f, o, m + 1)
    BY <2>2, <2>3 DEF ShownAt
  <2> QED
    BY <2>4 DEF Down
<1>2. ASSUME NEW q \in ShownAt(f, o, m + 1)
      PROVE  \E p \in ShownAt(f, o, m) : /\ Resolve(f, o, p).kind = "dir"
                                         /\ \E c \in List(f, o, p) : q = Append(p, c)
  <2>1. q \in Path /\ Len(q) = m + 1 /\ Resolve(f, o, q) # NoEntry
    BY DEF ShownAt
  <2>2. q # <<>>
    <3>1. Len(<<>>) = 0
      BY EmptySeq
    <3> QED
      BY <2>1, <3>1
  <2>3. PICK p \in Path : \E c \in Name : q = Down(p, c)
    BY <2>1, <2>2, DownFrom
  <2>4. PICK c \in Name : q = Down(p, c)
    BY <2>3
  <2>5. Len(q) = Len(p) + 1 /\ Len(p) \in Nat
    BY <2>4, PathFacts
  <2>6. Resolve(f, o, p).kind = "dir"
    BY <2>1, <2>4, ResolveNext DEF Child
  <2>7. c \in List(f, o, p)
    BY <2>1, <2>4, <2>6, ListIs
  <2>8. p \in ShownAt(f, o, m)
    <3>1. NoEntry.kind # "dir"
      BY DEF NoEntry
    <3> QED
      BY <2>1, <2>5, <2>6, <3>1 DEF ShownAt
  <2> QED
    BY <2>4, <2>6, <2>7, <2>8 DEF Down
<1> DEFINE Dirs == {q \in ShownAt(f, o, m) : Resolve(f, o, q).kind = "dir"}
           In(p) == {Append(p, name) : name \in List(f, o, p)}
<1>3. \A p \in Dirs : In(p) \subseteq ShownAt(f, o, m + 1)
  BY <1>1
<1>4. \A q \in ShownAt(f, o, m + 1) : \E p \in Dirs : q \in In(p)
  BY <1>2
<1> HIDE DEF Dirs, In
<1>5. UNION {In(p) : p \in Dirs} = ShownAt(f, o, m + 1)
  BY <1>3, <1>4
<1> QED
  BY <1>5 DEF Dirs, In

\* After n levels, what is shown at no more than n components has been found.
ShowsLevels(f, o, found, n) ==
  found.last = ShownAt(f, o, n) /\ found.all = UNION {ShownAt(f, o, m) : m \in 1 .. n}

\* Nothing has been found at first ...
LEMMA ShowsFirst ==
  ASSUME NEW f, NEW o
  PROVE  ShowsLevels(f, o, Looking!Fold(<<f, o>>, UpTo(0)), 0)
<1> PICK x : x = <<f, o>>
  OBVIOUS
<1>1. UpTo(0) = <<>>
  BY DEF UpTo
<1>2. Looking!Fold(x, UpTo(0)) = ViewTop(x)
  BY <1>1, Looking!FoldEmpty, Least DEF Looking!WellOrdered
<1>3. ShownAt(f, o, 0) = {<<>>}
  <2>1. \A p \in Path : Len(p) = 0 <=> p = <<>>
    <3>1. Len(<<>>) = 0
      BY EmptySeq
    <3> QED
      BY <3>1, PathFacts
  <2>2. Resolve(f, o, <<>>) # NoEntry
    <3>1. TopEntry # NoEntry
      BY DEF TopEntry, Base, NoEntry
    <3> QED
      BY <3>1, ResolveRoot
  <2> QED
    BY <2>1, <2>2, PathFacts DEF ShownAt
<1>4. 1 .. 0 = {}
  OBVIOUS
<1>5. UNION {ShownAt(f, o, m) : m \in 1 .. 0} = {}
  BY <1>4
<1> QED
  BY <1>2, <1>3, <1>5 DEF ShowsLevels, ViewTop, Root

\* ... the next level finds what is shown one component further ...
LEMMA ShowsNext ==
  ASSUME NEW f, NEW o, Sound(f, o), NEW m \in Nat,
         ShowsLevels(f, o, Looking!Fold(<<f, o>>, UpTo(m)), m)
  PROVE  ShowsLevels(f, o, Looking!Fold(<<f, o>>, UpTo(m + 1)), m + 1)
<1> PICK x : x = <<f, o>>
  OBVIOUS
<1>0. x[1] = f /\ x[2] = o
  OBVIOUS
<1>1. UpTo(m + 1) = Append(UpTo(m), m + 1) /\ UpTo(m) \in Seq(Nat) /\ m + 1 \in Nat
  BY DEF UpTo
<1> PICK g : g = Looking!Fold(x, UpTo(m))
  OBVIOUS
<1>2. Looking!Fold(x, Append(UpTo(m), m + 1)) = ViewDeeper(x, Looking!Fold(x, UpTo(m)), m + 1)
  <2> PICK u : u = UpTo(m)
    OBVIOUS
  <2>1. u \in Seq(Nat) /\ m + 1 \in Nat
    BY <1>1
  <2>2. Looking!Fold(x, Append(u, m + 1)) = ViewDeeper(x, Looking!Fold(x, u), m + 1)
    BY <2>1, Looking!FoldAppend, Least DEF Looking!WellOrdered
  <2> QED
    BY <2>2
<1>3. Looking!Fold(x, UpTo(m + 1)) = ViewDeeper(x, g, m + 1)
  BY <1>1, <1>2
<1>4. g.last = ShownAt(f, o, m) /\ g.all = UNION {ShownAt(f, o, k) : k \in 1 .. m}
  BY DEF ShowsLevels
<1> DEFINE new == UNION {{Append(p, name) : name \in List(f, o, p)} :
                           p \in {q \in g.last : Resolve(f, o, q).kind = "dir"}}
<1>5. new = ShownAt(f, o, m + 1)
  BY <1>4, ShownNext
<1>6. 1 .. m + 1 = (1 .. m) \union {m + 1}
  OBVIOUS
<1>7. UNION {ShownAt(f, o, k) : k \in 1 .. m + 1} = g.all \union ShownAt(f, o, m + 1)
  BY <1>4, <1>6
<1>8. ViewDeeper(x, g, m + 1) = [all |-> g.all \union new, last |-> new]
  BY <1>0 DEF ViewDeeper
<1> HIDE DEF new
<1>9. ViewDeeper(x, g, m + 1).last = new /\ ViewDeeper(x, g, m + 1).all = g.all \union new
  BY <1>8
<1> QED
  BY <1>3, <1>5, <1>7, <1>9 DEF ShowsLevels

\* ... and so every level is found.
LEMMA ShowsAll ==
  ASSUME NEW f, NEW o, Sound(f, o), NEW n \in Nat
  PROVE  ShowsLevels(f, o, Looking!Fold(<<f, o>>, UpTo(n)), n)
<1> DEFINE Good(m) == ShowsLevels(f, o, Looking!Fold(<<f, o>>, UpTo(m)), m)
           T == {m \in Nat : ~ Good(m)}
<1>1. Good(0) /\ \A m \in Nat : Good(m) => Good(m + 1)
  BY ShowsFirst, ShowsNext
<1> HIDE DEF Good
<1> SUFFICES ASSUME T # {} PROVE FALSE
  BY DEF Good
<1>2. PICK m \in T : \A k \in T : m <= k
  BY Least
<1>3. m - 1 \in Nat /\ m - 1 \notin T /\ (m - 1) + 1 = m
  BY <1>1, <1>2
<1> QED
  BY <1>1, <1>3

-----------------------------------------------------------------------------
(* What an operation leaves alone. *)

\* The fields of an overlay.
IsOverlay(o) ==
  o = [placed |-> o.placed, detached |-> o.detached, nextDir |-> o.nextDir]

\* The base path that e leaves, if it is a base entry.
Vacates(e) == IF e.from = "base" THEN {e.origin} ELSE {}

\* With one more entry gone from the base, the others are where they were.
LEMMA KeptSame ==
  ASSUME NEW f, NEW o, Sound(f, o), NEW p \in Path, NEW o2,
         DOMAIN o2.detached = DOMAIN o.detached \union Vacates(Resolve(f, o, p)),
         NEW w \in Path, NEW c \in Name, Resolve(f, o, w).kind = "dir",
         Down(w, c) \notin DOMAIN o.placed, Down(w, c) # p
  PROVE  Kept(f, o2, Resolve(f, o, w), c) = Kept(f, o, Resolve(f, o, w), c)
<1> PICK v \in Path : v = Down(w, c)
  BY DownPath
<1> PICK d : d = Resolve(f, o, w)
  OBVIOUS
<1> SUFFICES ASSUME d.from = "base", Down(d.origin, c) \notin DOMAIN o.detached,
                    Down(d.origin, c) \in DOMAIN o2.detached
             PROVE  FALSE
  BY DEF Kept
<1>0. TopEntry.origin = <<>>
  BY DEF TopEntry, Base, NoEntry, Root
<1>1. d.origin \in Path
  <2>1. d.origin = <<>> => d.origin \in Path
    BY PathFacts
  <2>2. IsBase(f, d) \/ d.origin = <<>>
    BY <1>0, ShownIs
  <2> QED
    BY <2>1, <2>2 DEF IsBase
<1> PICK b \in Path : b = Down(d.origin, c) /\ b # <<>>
  BY <1>1, DownPath
<1>2. Resolve(f, o, p).from = "base" /\ Resolve(f, o, p).origin = b
  BY DEF Vacates
<1>3. Resolve(f, o, p) = BaseLookup(f, b) /\ BaseLookup(f, b) # NoEntry
  <2>1. IsBase(f, Resolve(f, o, p))
    BY <1>0, <1>2, ShownIs
  <2> QED
    BY <1>2, <2>1, BaseIs DEF IsBase
<1>4. Resolve(f, o, v) = Kept(f, o, d, c)
  BY ResolveNext DEF Child
<1>5. Kept(f, o, d, c) = BaseLookup(f, b)
  BY DEF Kept
<1>6. Resolve(f, o, v).from = "base" /\ Resolve(f, o, v).origin = b
  BY <1>2, <1>3, <1>4, <1>5
<1> QED
  BY <1>2, <1>6, ShownOnce

\* Where nothing is, nothing is below, and nothing is placed.
LEMMA NothingBelow ==
  ASSUME NEW f, NEW o, Sound(f, o), NEW p \in Path, Resolve(f, o, p).kind # "dir",
         NEW q \in Path, AtOrBelow(p, q), q # p
  PROVE  Resolve(f, o, q) = NoEntry /\ q \notin DOMAIN o.placed
<1> DEFINE G(x) == AtOrBelow(p, x) /\ x # p => Resolve(f, o, x) = NoEntry /\ x \notin DOMAIN o.placed
           T == {x \in Path : G(x)}
<1>1. G(<<>>)
  <2>1. ASSUME AtOrBelow(p, <<>>) PROVE p = <<>>
    <3>1. PICK s \in Path : <<>> = Join(p, s)
      BY <2>1, PathFacts, BelowJoin
    <3>2. Len(<<>>) = Len(p) + Len(s) /\ Len(<<>>) = 0 /\ Len(p) \in Nat /\ Len(s) \in Nat
      BY <3>1, JoinFacts, PathFacts, EmptySeq
    <3>3. Len(p) = 0
      BY <3>2
    <3> QED
      BY <3>3, PathFacts
  <2> QED
    BY <2>1
<1>2. ASSUME NEW x \in Path, G(x), NEW c \in Name PROVE G(Down(x, c))
  <2> PICK y \in Path : y = Down(x, c)
    BY DownPath
  <2> SUFFICES ASSUME AtOrBelow(p, y), y # p PROVE Resolve(f, o, y) = NoEntry /\ y \notin DOMAIN o.placed
    OBVIOUS
  <2>1. AtOrBelow(p, x)
    BY BelowNext
  <2>2. Resolve(f, o, x).kind # "dir"
    BY <1>2, <2>1 DEF NoEntry
  <2>3. Resolve(f, o, y) = NoEntry
    BY <2>2, ResolveNext DEF Child
  <2>4. y \notin DOMAIN o.placed
    BY <2>2, DownParent DEF Sound, InShape
  <2> QED
    BY <2>3, <2>4
<1> HIDE DEF G
<1>3. T = Path
  <2>1. T \in SUBSET Path
    OBVIOUS
  <2>2. <<>> \in T /\ \A x \in T : \A c \in Name : Down(x, c) \in T
    BY <1>1, <1>2, PathFacts
  <2> HIDE DEF T
  <2> QED
    BY <2>1, <2>2, PathInduction
<1> QED
  BY <1>3 DEF G

-----------------------------------------------------------------------------
(* Removing. *)

\* o2 is o with nothing at p and nothing placed below it.
Cuts(f, o, o2, p) ==
  /\ IsOverlay(o2)
  /\ DOMAIN o2.placed = {k \in DOMAIN o.placed : ~ IsAncestorOf(p, k)} \union {p}
  /\ o2.placed[p] = NoEntry
  /\ \A k \in DOMAIN o2.placed : k # p => o2.placed[k] = o.placed[k]
  /\ DOMAIN o2.detached = DOMAIN o.detached \union Vacates(Resolve(f, o, p))

\* That is what remove() and remove_dir_all() make.
LEMMA RemovedIs ==
  ASSUME NEW f, NEW o, IsOverlay(o), NEW p
  PROVE  Cuts(f, o, Removed(f, o, p), p)
<1> PICK e : e = Resolve(f, o, p)
  OBVIOUS
<1> DEFINE less == Restrict(o.placed, DOMAIN o.placed \ PlacedUnder(o, p))
           o1 == [o EXCEPT !.placed = Put(less, p, NoEntry)]
<1>1. Place(DropUnder(o, p), p, NoEntry) = o1
  BY DEF Place, DropUnder, IsOverlay
<1>2. DOMAIN less = {k \in DOMAIN o.placed : ~ IsAncestorOf(p, k)}
      /\ \A k \in DOMAIN less : less[k] = o.placed[k]
  BY DEF PlacedUnder, Restrict
<1>3. IsOverlay(o1) /\ o1.placed = Put(less, p, NoEntry) /\ o1.detached = o.detached
  BY DEF IsOverlay
<1> HIDE DEF less, o1
<1>4. /\ DOMAIN o1.placed = {k \in DOMAIN o.placed : ~ IsAncestorOf(p, k)} \union {p}
      /\ o1.placed[p] = NoEntry
      /\ \A k \in DOMAIN o1.placed : k # p => o1.placed[k] = o.placed[k]
  BY <1>2, <1>3 DEF Put
<1>5. /\ IsOverlay(Detach(o1, e)) /\ Detach(o1, e).placed = o1.placed
      /\ DOMAIN Detach(o1, e).detached = DOMAIN o.detached \union Vacates(e)
  BY <1>3 DEF Detach, Vacates, Put, IsOverlay
<1>6. Removed(f, o, p) = Detach(o1, e)
  BY <1>1 DEF Removed
<1> QED
  BY <1>4, <1>5, <1>6 DEF Cuts

\* What is removed is gone with all below it, and the rest is shown as before.
LEMMA CutsShow ==
  ASSUME NEW f, NEW o, Sound(f, o), NEW p \in Path, UserPath(p), Resolve(f, o, p) # NoEntry,
         NEW o2, Cuts(f, o, o2, p), NEW q \in Path
  PROVE  Resolve(f, o2, q) = IF AtOrBelow(p, q) THEN NoEntry ELSE Resolve(f, o, q)
<1> DEFINE G(x) == Resolve(f, o2, x) = IF AtOrBelow(p, x) THEN NoEntry ELSE Resolve(f, o, x)
           T == {x \in Path : G(x)}
<1>0. NoEntry.kind # "dir"
  BY DEF NoEntry
<1>1. G(<<>>)
  <2>1. ~ AtOrBelow(p, <<>>)
    <3> SUFFICES ASSUME AtOrBelow(p, <<>>) PROVE FALSE
      OBVIOUS
    <3>1. PICK s \in Path : <<>> = Join(p, s)
      BY PathFacts, BelowJoin
    <3>2. Len(<<>>) = Len(p) + Len(s) /\ Len(<<>>) = 0 /\ Len(p) \in Nat /\ Len(s) \in Nat
      BY <3>1, JoinFacts, PathFacts, EmptySeq
    <3>3. Len(p) = 0
      BY <3>2
    <3> QED
      BY <3>3, PathFacts DEF UserPath, Root
  <2> QED
    BY <2>1, ResolveRoot
<1>2. ASSUME NEW x \in Path, G(x), NEW c \in Name PROVE G(Down(x, c))
  <2> PICK y \in Path : y = Down(x, c)
    BY DownPath
  <2> PICK d : d = Resolve(f, o, x)
    OBVIOUS
  <2>1. AtOrBelow(p, y) <=> p = y \/ AtOrBelow(p, x)
    BY BelowNext
  <2>2. Resolve(f, o2, y) = Child(f, o2, Resolve(f, o2, x), y, c) /\ Resolve(f, o, y) = Child(f, o, d, y, c)
    BY ResolveNext
  <2>3. CASE AtOrBelow(p, x)
    BY <1>0, <1>2, <2>1, <2>2, <2>3 DEF Child
  <2>4. CASE p = y
    <3>1. ~ AtOrBelow(p, x)
      BY <2>4, BelowNext
    <3>2. d.kind = "dir" /\ Resolve(f, o2, x) = d
      BY <1>2, <2>2, <2>4, <3>1 DEF Child
    <3> QED
      BY <2>1, <2>2, <2>4, <3>2 DEF Child, Cuts
  <2>5. CASE p # y /\ ~ AtOrBelow(p, x)
    <3>1. Resolve(f, o2, x) = d /\ ~ AtOrBelow(p, y)
      BY <1>2, <2>1, <2>5
    <3>2. ~ IsAncestorOf(p, y)
      BY <3>1, BelowIs
    <3>3. y \in DOMAIN o2.placed <=> y \in DOMAIN o.placed
      BY <2>5, <3>2 DEF Cuts
    <3>4. y \in DOMAIN o2.placed => o2.placed[y] = o.placed[y]
      BY <2>5 DEF Cuts
    <3>5. d.kind = "dir" /\ y \notin DOMAIN o.placed => Kept(f, o2, d, c) = Kept(f, o, d, c)
      BY <2>5, KeptSame DEF Cuts
    <3>6. Resolve(f, o2, y) = Resolve(f, o, y)
      BY <2>2, <3>1, <3>3, <3>4, <3>5 DEF Child
    <3> QED
      BY <3>1, <3>6
  <2> QED
    BY <2>3, <2>4, <2>5
<1> HIDE DEF G
<1>3. T = Path
  <2>1. T \in SUBSET Path
    OBVIOUS
  <2>2. <<>> \in T /\ \A x \in T : \A c \in Name : Down(x, c) \in T
    BY <1>1, <1>2, PathFacts
  <2> HIDE DEF T
  <2> QED
    BY <2>1, <2>2, PathInduction
<1> QED
  BY <1>3 DEF G

\* What is shown is in a directory that is shown.
LEMMA InADirectory ==
  ASSUME NEW f, NEW o, NEW q \in Path, NEW c \in Name, Resolve(f, o, Down(q, c)) # NoEntry
  PROVE  Resolve(f, o, q).kind = "dir"
BY ResolveNext DEF Child

\* Nothing but the root is above the root.
LEMMA RootIsFirst ==
  ASSUME NEW p \in Path, p # <<>>
  PROVE  ~ AtOrBelow(p, <<>>)
<1> SUFFICES ASSUME AtOrBelow(p, <<>>) PROVE FALSE
  OBVIOUS
<1>1. PICK s \in Path : <<>> = Join(p, s)
  BY PathFacts, BelowJoin
<1>2. Len(<<>>) = Len(p) + Len(s) /\ Len(<<>>) = 0 /\ Len(p) \in Nat /\ Len(s) \in Nat
  BY <1>1, JoinFacts, PathFacts, EmptySeq
<1>3. Len(p) = 0
  BY <1>2
<1> QED
  BY <1>3, PathFacts

\* The overlay keeps its shape.
LEMMA CutsSound ==
  ASSUME NEW f, NEW o, Sound(f, o), NEW p \in Path, UserPath(p), Resolve(f, o, p) # NoEntry,
         NEW o2, Cuts(f, o, o2, p)
  PROVE  Sound(f, o2)
<1>0. NoEntry.from # "base"
  BY BaseIs
<1>1. ASSUME NEW k \in DOMAIN o2.placed, k # p
      PROVE  k \in DOMAIN o.placed /\ ~ IsAncestorOf(p, k) /\ o2.placed[k] = o.placed[k]
  BY <1>1 DEF Cuts
<1>2. ASSUME NEW k \in DOMAIN o2.placed
      PROVE  /\ k \in Path /\ UserPath(k) /\ IsEntry(o2.placed[k])
             /\ o2.placed[k].from = "base" => o2.placed[k].origin \in Path
  <2>1. CASE k = p
    BY <1>0, <2>1 DEF Cuts, IsEntry
  <2>2. CASE k # p
    BY <1>1, <2>2 DEF Sound, InShape
  <2> QED
    BY <2>1, <2>2
<1>3. ASSUME NEW k \in DOMAIN o2.placed PROVE Resolve(f, o2, Parent(k)).kind = "dir"
  <2>1. k \in Path /\ k # <<>>
    BY <1>2 DEF UserPath, Root
  <2>2. PICK q \in Path : \E c \in Name : k = Down(q, c)
    BY <2>1, DownFrom
  <2>3. PICK c \in Name : k = Down(q, c)
    BY <2>2
  <2>4. Parent(k) = q
    BY <2>3, DownParent
  <2>5. Resolve(f, o, q).kind = "dir"
    <3>1. CASE k = p
      BY <2>3, <3>1, InADirectory
    <3>2. CASE k # p
      BY <1>1, <2>4, <3>2 DEF Sound, InShape
    <3> QED
      BY <3>1, <3>2
  <2>6. ~ AtOrBelow(p, q)
    <3>1. CASE k = p
      <4>1. ~ AtOrBelow(Down(q, c), q)
        BY BelowNext
      <4> QED
        BY <2>3, <3>1, <4>1
    <3>2. CASE k # p
      <4>1. ~ AtOrBelow(p, k)
        BY <1>1, <2>1, <3>2, BelowIs
      <4> QED
        BY <2>3, <4>1, BelowNext
    <3> QED
      BY <3>1, <3>2
  <2> QED
    BY <2>4, <2>5, <2>6, CutsShow
<1>4. ASSUME NEW k \in Wanderers(o2) PROVE k \in Wanderers(o) /\ o2.placed[k] = o.placed[k]
  <2>1. k # p /\ k \in DOMAIN o2.placed
    BY <1>0 DEF Wanderers, Cuts
  <2> QED
    BY <1>1, <2>1 DEF Wanderers
<1>5. DOMAIN o.detached \subseteq DOMAIN o2.detached
  BY DEF Cuts
<1>6. InShape(f, o2)
  BY <1>2, <1>3, <1>4, <1>5 DEF Sound, InShape
<1> QED
  BY <1>2, <1>6 DEF Sound

-----------------------------------------------------------------------------
(* Writing a file, making a directory. *)

\* o2 is o with e at p in place of what was there.
Sets(f, o, o2, p, e) ==
  /\ IsOverlay(o2)
  /\ DOMAIN o2.placed = DOMAIN o.placed \union {p}
  /\ o2.placed[p] = e
  /\ \A k \in DOMAIN o.placed : k # p => o2.placed[k] = o.placed[k]
  /\ DOMAIN o2.detached = DOMAIN o.detached \union Vacates(Resolve(f, o, p))

\* What may be set: something new, where no directory is, in a directory.
Settable(f, o, p, e) ==
  /\ UserPath(p) /\ Resolve(f, o, p).kind # "dir" /\ Resolve(f, o, Parent(p)).kind = "dir"
  /\ e.from # "base" /\ e.kind \in {"file", "dir"}

\* It is shown there, and the rest as before.
LEMMA SetsShow ==
  ASSUME NEW f, NEW o, Sound(f, o), NEW p \in Path, NEW e, Settable(f, o, p, e),
         NEW o2, Sets(f, o, o2, p, e), NEW q \in Path
  PROVE  Resolve(f, o2, q) = IF q = p THEN e ELSE Resolve(f, o, q)
<1> DEFINE G(x) == Resolve(f, o2, x) = IF x = p THEN e ELSE Resolve(f, o, x)
           T == {x \in Path : G(x)}
<1>1. G(<<>>)
  <2>1. p # <<>>
    BY DEF Settable, UserPath, Root
  <2> QED
    BY <2>1, ResolveRoot
<1>2. ASSUME NEW x \in Path, G(x), NEW c \in Name PROVE G(Down(x, c))
  <2> PICK y \in Path : y = Down(x, c)
    BY DownPath
  <2> PICK d : d = Resolve(f, o, x)
    OBVIOUS
  <2>1. Resolve(f, o2, y) = Child(f, o2, Resolve(f, o2, x), y, c) /\ Resolve(f, o, y) = Child(f, o, d, y, c)
    BY ResolveNext
  <2>2. CASE y = p
    <3>1. x # p
      BY <2>2, BelowNext, BelowOrder
    <3>2. d.kind = "dir"
      BY <2>2, DownParent DEF Settable
    <3> QED
      BY <1>2, <2>1, <2>2, <3>1, <3>2 DEF Child, Sets
  <2>3. CASE x = p
    <3>1. AtOrBelow(p, y) /\ y # p
      BY <2>3, BelowNext, BelowOrder
    <3>2. Resolve(f, o, y) = NoEntry /\ y \notin DOMAIN o.placed
      BY <3>1, NothingBelow DEF Settable
    <3>3. Resolve(f, o2, x) = e /\ y \notin DOMAIN o2.placed
      BY <1>2, <2>3, <3>1, <3>2 DEF Sets
    <3>4. Resolve(f, o2, y) = NoEntry
      BY <2>1, <3>3 DEF Child, Kept, Settable
    <3> QED
      BY <3>1, <3>2, <3>4
  <2>4. CASE x # p /\ y # p
    <3>1. Resolve(f, o2, x) = d
      BY <1>2, <2>4
    <3>2. y \in DOMAIN o2.placed <=> y \in DOMAIN o.placed
      BY <2>4 DEF Sets
    <3>3. y \in DOMAIN o2.placed => o2.placed[y] = o.placed[y]
      BY <2>4, <3>2 DEF Sets
    <3>4. d.kind = "dir" /\ y \notin DOMAIN o.placed => Kept(f, o2, d, c) = Kept(f, o, d, c)
      BY <2>4, KeptSame DEF Sets
    <3>5. Resolve(f, o2, y) = Resolve(f, o, y)
      BY <2>1, <3>1, <3>2, <3>3, <3>4 DEF Child
    <3> QED
      BY <2>4, <3>5
  <2> QED
    BY <2>2, <2>3, <2>4
<1> HIDE DEF G
<1>3. T = Path
  <2>1. T \in SUBSET Path
    OBVIOUS
  <2>2. <<>> \in T /\ \A x \in T : \A c \in Name : Down(x, c) \in T
    BY <1>1, <1>2, PathFacts
  <2> HIDE DEF T
  <2> QED
    BY <2>1, <2>2, PathInduction
<1> QED
  BY <1>3 DEF G

\* The overlay keeps its shape.
LEMMA SetsSound ==
  ASSUME NEW f, NEW o, Sound(f, o), NEW p \in Path, NEW e, Settable(f, o, p, e),
         NEW o2, Sets(f, o, o2, p, e)
  PROVE  Sound(f, o2)
<1>1. ASSUME NEW k \in DOMAIN o2.placed, k # p
      PROVE  k \in DOMAIN o.placed /\ o2.placed[k] = o.placed[k]
  BY <1>1 DEF Sets
<1>2. ASSUME NEW k \in DOMAIN o2.placed
      PROVE  /\ k \in Path /\ UserPath(k) /\ IsEntry(o2.placed[k])
             /\ o2.placed[k].from = "base" => o2.placed[k].origin \in Path
             /\ Resolve(f, o, Parent(k)).kind = "dir"
  <2>1. CASE k = p
    BY <2>1 DEF Sets, Settable, IsEntry
  <2>2. CASE k # p
    BY <1>1, <2>2 DEF Sound, InShape
  <2> QED
    BY <2>1, <2>2
<1>3. ASSUME NEW k \in DOMAIN o2.placed PROVE Resolve(f, o2, Parent(k)).kind = "dir"
  <2>1. k \in Path /\ k # <<>>
    BY <1>2 DEF UserPath, Root
  <2>2. PICK q \in Path : \E c \in Name : k = Down(q, c)
    BY <2>1, DownFrom
  <2>3. Parent(k) = q
    BY <2>2, DownParent
  <2>4. q # p
    BY <1>2, <2>3 DEF Settable
  <2> QED
    BY <1>2, <2>3, <2>4, SetsShow
<1>4. ASSUME NEW k \in Wanderers(o2) PROVE k \in Wanderers(o) /\ o2.placed[k] = o.placed[k]
  <2>1. k # p /\ k \in DOMAIN o2.placed
    BY DEF Wanderers, Sets, Settable
  <2> QED
    BY <1>1, <2>1 DEF Wanderers
<1>5. DOMAIN o.detached \subseteq DOMAIN o2.detached
  BY DEF Sets
<1>6. InShape(f, o2)
  BY <1>2, <1>3, <1>4, <1>5 DEF Sound, InShape
<1> QED
  BY <1>2, <1>6 DEF Sound

\* A file is written ...
LEMMA WriteSets ==
  ASSUME NEW f, NEW o, IsOverlay(o), NEW p, NEW n
  PROVE  Sets(f, o, Write(f, o, p, n), p, Blob(n))
<1> PICK e : e = Resolve(f, o, p)
  OBVIOUS
<1> PICK b : b = Blob(n)
  OBVIOUS
<1> PICK o1 : o1 = Detach(o, e)
  OBVIOUS
<1>1. IsOverlay(o1) /\ o1.placed = o.placed /\ DOMAIN o1.detached = DOMAIN o.detached \union Vacates(e)
  BY DEF Detach, Vacates, Put, IsOverlay
<1>2. Write(f, o, p, n) = Place(o1, p, b)
  BY DEF Write
<1>3. /\ IsOverlay(Place(o1, p, b)) /\ Place(o1, p, b).placed = Put(o.placed, p, b)
      /\ Place(o1, p, b).detached = o1.detached
  BY <1>1 DEF Place, IsOverlay
<1> QED
  BY <1>1, <1>2, <1>3 DEF Sets, Put

\* ... a directory is made.
MakeDir(o, p) == [Place(o, p, NewDir(o.nextDir)) EXCEPT !.nextDir = @ + 1]

\* ... and so is a new directory.
LEMMA MakeDirSets ==
  ASSUME NEW f, NEW o, IsOverlay(o), NEW p, Resolve(f, o, p) = NoEntry
  PROVE  Sets(f, o, MakeDir(o, p), p, NewDir(o.nextDir))
<1> PICK b : b = NewDir(o.nextDir)
  OBVIOUS
<1> PICK o1 : o1 = Place(o, p, b)
  OBVIOUS
<1>1. IsOverlay(o1) /\ o1.placed = Put(o.placed, p, b) /\ o1.detached = o.detached
  BY DEF Place, IsOverlay
<1>2. /\ IsOverlay(MakeDir(o, p)) /\ MakeDir(o, p).placed = o1.placed
      /\ MakeDir(o, p).detached = o1.detached
  BY <1>1 DEF MakeDir, IsOverlay
<1>3. Vacates(Resolve(f, o, p)) = {}
  BY BaseIs DEF Vacates
<1> QED
  BY <1>1, <1>2, <1>3 DEF Sets, Put

-----------------------------------------------------------------------------
(* Renaming. *)

\* What is placed below from, as it goes on from there.
Riders(o, from) == {s \in Path : s # <<>> /\ Join(from, s) \in DOMAIN o.placed}

\* o1 is the overlay with `from` gone, o2 the one with the entry at `to`.
Moves(f, o, o1, o2, from, to) ==
  /\ IsOverlay(o2)
  /\ DOMAIN o2.placed = DOMAIN o1.placed \union {to} \union {Join(to, s) : s \in Riders(o, from)}
  /\ o2.placed[to] = Resolve(f, o, from)
  /\ \A s \in Riders(o, from) : o2.placed[Join(to, s)] = o.placed[Join(from, s)]
  /\ \A k \in DOMAIN o1.placed :
       k # to /\ (\A s \in Riders(o, from) : k # Join(to, s)) => o2.placed[k] = o1.placed[k]
  /\ DOMAIN o2.detached = DOMAIN o1.detached

\* What goes on from one path is what goes on from another, in its place.
LEMMA RebaseIs ==
  ASSUME NEW from \in Path, NEW to \in Path, NEW s \in Path
  PROVE  Rebase(Join(from, s), from, to) = Join(to, s)
<1> PICK p : p = from \o s
  OBVIOUS
<1>1. p \in Path /\ Len(p) = Len(from) + Len(s) /\ Len(from) \in Nat /\ Len(s) \in Nat
  BY ConcatProperties DEF Path
<1>2. SubSeq(p, Len(from) + 1, Len(p)) = s
  <2>1. CASE s = <<>>
    <3>1. Len(s) = 0
      BY <2>1, EmptySeq
    <3>2. Len(p) = Len(from)
      BY <1>1, <3>1
    <3>3. SubSeq(p, Len(from) + 1, Len(from)) = <<>>
      BY <1>1, SubSeqEmpty
    <3> QED
      BY <2>1, <3>2, <3>3
  <2>2. CASE s # <<>>
    <3>1. Len(s) # 0
      BY <2>2, EmptySeq DEF Path
    <3>2. /\ Len(from) + 1 \in Len(from) + 1 .. Len(from) + Len(s)
          /\ Len(p) \in Len(from) + 1 .. Len(from) + Len(s)
      BY <1>1, <3>1
    <3>3. SubSeq(from \o s, Len(from) + 1, Len(p)) =
            SubSeq(s, (Len(from) + 1) - Len(from), Len(p) - Len(from))
      BY <3>2, SubSeqOfConcat2 DEF Path
    <3>4. (Len(from) + 1) - Len(from) = 1 /\ Len(p) - Len(from) = Len(s)
      BY <1>1
    <3> QED
      BY <3>3, <3>4, SubSeqFull DEF Path
  <2> QED
    BY <2>1, <2>2
<1> QED
  BY <1>2 DEF Rebase, Join

\* What goes on from a path is not that path unless it is nothing, and is below it otherwise.
LEMMA JoinBelow ==
  ASSUME NEW p \in Path, NEW s \in Path
  PROVE  /\ Join(p, s) \in Path /\ (Join(p, s) = p <=> s = <<>>)
         /\ AtOrBelow(p, Join(p, s)) /\ (IsAncestorOf(p, Join(p, s)) <=> s # <<>>)
<1>1. Join(p, s) \in Path /\ Join(p, <<>>) = p
  BY JoinFacts
<1>2. Join(p, s) = p => s = <<>>
  <2>1. Join(p, s) = Join(p, <<>>) => s = <<>>
    BY JoinFacts, PathFacts
  <2> QED
    BY <1>1, <2>1
<1>3. AtOrBelow(p, Join(p, s))
  <2> PICK q \in Path : q = Join(p, s)
    BY <1>1
  <2> QED
    BY BelowJoin
<1> QED
  BY <1>1, <1>2, <1>3, BelowIs

\* That is what rename() makes: remove, then place at the other path, with all that was placed below.
LEMMA RenameMoves ==
  ASSUME NEW f, NEW o, IsOverlay(o), \A k \in DOMAIN o.placed : k \in Path,
         NEW from \in Path, NEW to \in Path, from # to
  PROVE  Moves(f, o, Removed(f, o, from), RenameTo(f, o, from, to), from, to)
<1> PICK e : e = Resolve(f, o, from)
  OBVIOUS
<1> PICK o1 : o1 = Removed(f, o, from)
  OBVIOUS
<1>0. IsOverlay(o1)
  BY RemovedIs DEF Cuts
<1> DEFINE landed == {Rebase(k, from, to) : k \in PlacedUnder(o, from)}
           rode == [k \in DOMAIN o1.placed \union landed |->
                      IF k \in landed THEN o.placed[Rebase(k, to, from)] ELSE o1.placed[k]]
           o3 == [o1 EXCEPT !.placed = rode]
<1>1. landed = {Join(to, s) : s \in Riders(o, from)}
  <2>1. ASSUME NEW k \in PlacedUnder(o, from)
        PROVE  \E s \in Riders(o, from) : Rebase(k, from, to) = Join(to, s)
    <3>1. k \in DOMAIN o.placed /\ k \in Path /\ IsAncestorOf(from, k)
      BY DEF PlacedUnder
    <3>2. PICK s \in Path : k = Join(from, s)
      BY <3>1, BelowIs, BelowJoin
    <3>3. s # <<>>
      BY <3>1, <3>2, JoinBelow
    <3> QED
      BY <3>1, <3>2, <3>3, RebaseIs DEF Riders
  <2>2. ASSUME NEW s \in Riders(o, from)
        PROVE  \E k \in PlacedUnder(o, from) : Rebase(k, from, to) = Join(to, s)
    <3>1. s \in Path /\ s # <<>> /\ Join(from, s) \in DOMAIN o.placed
      BY DEF Riders
    <3>2. Join(from, s) \in PlacedUnder(o, from)
      BY <3>1, JoinBelow DEF PlacedUnder
    <3> QED
      BY <3>1, <3>2, RebaseIs
  <2> QED
    BY <2>1, <2>2
<1>2. RenameTo(f, o, from, to) = Place(o3, to, e)
  BY DEF RenameTo, Removed
<1>3. IsOverlay(o3) /\ o3.placed = rode /\ o3.detached = o1.detached
  BY <1>0 DEF IsOverlay
<1>4. /\ DOMAIN rode = DOMAIN o1.placed \union landed
      /\ \A s \in Riders(o, from) : rode[Join(to, s)] = o.placed[Join(from, s)]
      /\ \A k \in DOMAIN o1.placed : k \notin landed => rode[k] = o1.placed[k]
  <2>1. ASSUME NEW s \in Riders(o, from) PROVE rode[Join(to, s)] = o.placed[Join(from, s)]
    <3>1. s \in Path
      BY DEF Riders
    <3>2. Join(to, s) \in landed
      BY <1>1
    <3>3. Rebase(Join(to, s), to, from) = Join(from, s)
      BY <3>1, RebaseIs
    <3> HIDE DEF landed
    <3> QED
      BY <3>2, <3>3
  <2> QED
    BY <2>1
<1>5. ASSUME NEW s \in Riders(o, from) PROVE Join(to, s) # to
  BY JoinBelow DEF Riders
<1> HIDE DEF landed, rode, o3
<1>6. /\ IsOverlay(Place(o3, to, e)) /\ Place(o3, to, e).placed = Put(rode, to, e)
      /\ Place(o3, to, e).detached = o1.detached
  BY <1>3 DEF Place, IsOverlay
<1>7. /\ DOMAIN Put(rode, to, e) = DOMAIN rode \union {to} /\ Put(rode, to, e)[to] = e
      /\ \A k \in DOMAIN rode : k # to => Put(rode, to, e)[k] = rode[k]
  BY DEF Put
<1>8. \A s \in Riders(o, from) : Join(to, s) \in DOMAIN rode
  BY <1>1, <1>4
<1> QED
  BY <1>1, <1>2, <1>4, <1>5, <1>6, <1>7, <1>8 DEF Moves

\* What may be moved: something that is there, to where nothing is, in a directory, and not below itself.
Movable(f, o, from, to) ==
  /\ UserPath(from) /\ UserPath(to) /\ Resolve(f, o, from) # NoEntry
  /\ from # to /\ ~ IsAncestorOf(from, to)
  /\ Resolve(f, o, Parent(to)).kind = "dir" /\ Resolve(f, o, to) = NoEntry

\* Between the two halves of a move.
LEMMA HalfMoved ==
  ASSUME NEW f, NEW o, Sound(f, o), NEW from \in Path, NEW to \in Path, Movable(f, o, from, to),
         NEW o1, Cuts(f, o, o1, from)
  PROVE  /\ Sound(f, o1)
         /\ \A q \in Path : Resolve(f, o1, q) = IF AtOrBelow(from, q) THEN NoEntry ELSE Resolve(f, o, q)
         /\ Resolve(f, o1, to) = NoEntry
         /\ \E q \in Path : \E c \in Name :
              /\ to = Down(q, c) /\ Parent(to) = q
              /\ Resolve(f, o1, q) = Resolve(f, o, q) /\ Resolve(f, o, q).kind = "dir"
              /\ ~ AtOrBelow(to, q) /\ ~ AtOrBelow(from, q)
<1>1. UserPath(from) /\ Resolve(f, o, from) # NoEntry
  BY DEF Movable
<1>2. Sound(f, o1)
  BY <1>1, CutsSound
<1>3. \A q \in Path : Resolve(f, o1, q) = IF AtOrBelow(from, q) THEN NoEntry ELSE Resolve(f, o, q)
  BY <1>1, CutsShow
<1>4. Resolve(f, o1, to) = NoEntry
  BY <1>3 DEF Movable
<1>5. to # <<>>
  BY DEF Movable, UserPath, Root
<1>6. PICK q \in Path : \E c \in Name : to = Down(q, c)
  BY <1>5, DownFrom
<1>7. PICK c \in Name : to = Down(q, c)
  BY <1>6
<1>8. Parent(to) = q
  BY <1>7, DownParent
<1>9. ~ AtOrBelow(to, q)
  <2>1. ~ AtOrBelow(Down(q, c), q)
    BY BelowNext
  <2> QED
    BY <1>7, <2>1
<1>10. ~ AtOrBelow(from, q)
  <2>1. ~ AtOrBelow(from, to)
    BY BelowIs DEF Movable
  <2> QED
    BY <1>7, <2>1, BelowNext
<1>11. Resolve(f, o, q).kind = "dir"
  BY <1>8 DEF Movable
<1> QED
  BY <1>2, <1>3, <1>4, <1>7, <1>8, <1>9, <1>10, <1>11

\* Outside of where it goes, all is as in between.
LEMMA MovesLeave ==
  ASSUME NEW f, NEW o, Sound(f, o), NEW from \in Path, NEW to \in Path, Movable(f, o, from, to),
         NEW o1, Cuts(f, o, o1, from), NEW o2, Moves(f, o, o1, o2, from, to),
         NEW q \in Path, ~ AtOrBelow(to, q)
  PROVE  Resolve(f, o2, q) = Resolve(f, o1, q)
<1> DEFINE G(x) == ~ AtOrBelow(to, x) => Resolve(f, o2, x) = Resolve(f, o1, x)
           T == {x \in Path : G(x)}
<1>1. G(<<>>)
  BY ResolveRoot
<1>2. ASSUME NEW x \in Path, G(x), NEW c \in Name PROVE G(Down(x, c))
  <2> PICK y \in Path : y = Down(x, c)
    BY DownPath
  <2> PICK d : d = Resolve(f, o1, x)
    OBVIOUS
  <2> SUFFICES ASSUME ~ AtOrBelow(to, y) PROVE Resolve(f, o2, y) = Resolve(f, o1, y)
    OBVIOUS
  <2>1. Resolve(f, o2, x) = d
    BY <1>2, BelowNext
  <2>2. Resolve(f, o2, y) = Child(f, o2, d, y, c) /\ Resolve(f, o1, y) = Child(f, o1, d, y, c)
    BY <2>1, ResolveNext
  <2>3. y # to /\ \A s \in Riders(o, from) : y # Join(to, s)
    BY BelowOrder, JoinBelow DEF Riders
  <2>4. /\ y \in DOMAIN o2.placed <=> y \in DOMAIN o1.placed
        /\ y \in DOMAIN o1.placed => o2.placed[y] = o1.placed[y]
    BY <2>3 DEF Moves
  <2>5. Kept(f, o2, d, c) = Kept(f, o1, d, c)
    BY DEF Moves, Kept
  <2> QED
    BY <2>2, <2>4, <2>5 DEF Child
<1> HIDE DEF G
<1>3. T = Path
  <2>1. T \in SUBSET Path
    OBVIOUS
  <2>2. <<>> \in T /\ \A x \in T : \A c \in Name : Down(x, c) \in T
    BY <1>1, <1>2, PathFacts
  <2> HIDE DEF T
  <2> QED
    BY <2>1, <2>2, PathInduction
<1> QED
  BY <1>3 DEF G

\* What is placed where it goes: what was placed where it was.
LEMMA RidersLand ==
  ASSUME NEW f, NEW o, Sound(f, o), NEW from \in Path, NEW to \in Path, Movable(f, o, from, to),
         NEW o1, Cuts(f, o, o1, from), NEW o2, Moves(f, o, o1, o2, from, to),
         NEW s \in Path, s # <<>>
  PROVE  /\ Join(to, s) \in DOMAIN o2.placed <=> Join(from, s) \in DOMAIN o.placed
         /\ Join(from, s) \in DOMAIN o.placed => o2.placed[Join(to, s)] = o.placed[Join(from, s)]
<1>1. Sound(f, o1) /\ Resolve(f, o1, to).kind # "dir"
  <2>1. NoEntry.kind # "dir"
    BY BaseIs
  <2> QED
    BY <2>1, HalfMoved
<1> PICK y \in Path : y = Join(to, s)
  BY JoinFacts
<1>2. y # to /\ AtOrBelow(to, y)
  BY JoinBelow
<1>3. y \notin DOMAIN o1.placed
  BY <1>1, <1>2, NothingBelow
<1>4. ASSUME NEW t \in Riders(o, from), y = Join(to, t) PROVE t = s
  <2>1. t \in Path
    BY DEF Riders
  <2>2. Join(to, t) = Join(to, s)
    BY <1>4
  <2> QED
    BY <2>1, <2>2, JoinFacts
<1>5. y \in DOMAIN o2.placed <=> s \in Riders(o, from)
  BY <1>2, <1>3, <1>4 DEF Moves
<1> QED
  BY <1>5 DEF Moves, Riders

\* Where it goes, it is shown with all that was below it.
LEMMA MovesBring ==
  ASSUME NEW f, NEW o, Sound(f, o), NEW from \in Path, NEW to \in Path, Movable(f, o, from, to),
         NEW o1, Cuts(f, o, o1, from), NEW o2, Moves(f, o, o1, o2, from, to), NEW s \in Path
  PROVE  Resolve(f, o2, Join(to, s)) = Resolve(f, o, Join(from, s))
<1> DEFINE G(x) == Resolve(f, o2, Join(to, x)) = Resolve(f, o, Join(from, x))
           T == {x \in Path : G(x)}
<1>1. G(<<>>)
  <2>1. PICK q \in Path : \E c \in Name :
          /\ to = Down(q, c) /\ Resolve(f, o1, q) = Resolve(f, o, q)
          /\ Resolve(f, o, q).kind = "dir" /\ ~ AtOrBelow(to, q)
    BY HalfMoved
  <2>2. PICK c \in Name : to = Down(q, c)
    BY <2>1
  <2>3. Resolve(f, o2, to) = Child(f, o2, Resolve(f, o2, q), to, c)
    BY <2>2, ResolveNext
  <2>4. Resolve(f, o2, q).kind = "dir"
    BY <2>1, MovesLeave
  <2>5. Resolve(f, o2, to) = Resolve(f, o, from)
    BY <2>3, <2>4 DEF Child, Moves
  <2> QED
    BY <2>5, JoinFacts
<1>2. ASSUME NEW t \in Path, G(t), NEW c \in Name PROVE G(Down(t, c))
  <2> PICK x \in Path : x = Down(t, c) /\ x # <<>>
    BY DownPath
  <2> PICK d : d = Resolve(f, o, Join(from, t))
    OBVIOUS
  <2> PICK w \in Path : w = Join(from, t)
    BY JoinFacts
  <2> PICK v \in Path : v = Join(to, t)
    BY JoinFacts
  <2>1. Join(from, x) = Down(w, c) /\ Join(to, x) = Down(v, c)
    BY JoinFacts
  <2>2. /\ Resolve(f, o, Join(from, x)) = Child(f, o, d, Join(from, x), c)
        /\ Resolve(f, o2, Join(to, x)) = Child(f, o2, d, Join(to, x), c)
    BY <1>2, <2>1, ResolveNext
  <2>3. /\ Join(to, x) \in DOMAIN o2.placed <=> Join(from, x) \in DOMAIN o.placed
        /\ Join(from, x) \in DOMAIN o.placed => o2.placed[Join(to, x)] = o.placed[Join(from, x)]
    BY RidersLand
  <2>4. ASSUME d.kind = "dir", Join(from, x) \notin DOMAIN o.placed
        PROVE  Kept(f, o2, d, c) = Kept(f, o, d, c)
    <3>1. Down(w, c) # from
      BY <2>1, JoinBelow
    <3>2. DOMAIN o2.detached = DOMAIN o.detached \union Vacates(Resolve(f, o, from))
      BY DEF Moves, Cuts
    <3> QED
      BY <2>1, <2>4, <3>1, <3>2, KeptSame
  <2>5. Resolve(f, o2, Join(to, x)) = Resolve(f, o, Join(from, x))
    BY <2>2, <2>3, <2>4 DEF Child
  <2> QED
    BY <2>5
<1> HIDE DEF G
<1>3. T = Path
  <2>1. T \in SUBSET Path
    OBVIOUS
  <2>2. <<>> \in T /\ \A x \in T : \A c \in Name : Down(x, c) \in T
    BY <1>1, <1>2, PathFacts
  <2> HIDE DEF T
  <2> QED
    BY <2>1, <2>2, PathInduction
<1> QED
  BY <1>3 DEF G

\* What is below a path is a path of the user if that is one.
LEMMA UserBelow ==
  ASSUME NEW p \in Path, p # <<>>, NEW s \in Path
  PROVE  Join(p, s) # <<>> /\ (UserPath(Join(p, s)) <=> UserPath(p))
<1> DEFINE G(x) == Join(p, x) # <<>> /\ (UserPath(Join(p, x)) <=> UserPath(p))
           T == {x \in Path : G(x)}
<1>1. G(<<>>)
  BY JoinFacts
<1>2. ASSUME NEW x \in Path, G(x), NEW c \in Name PROVE G(Down(x, c))
  <2> PICK q \in Path : q = Join(p, x)
    BY JoinFacts
  <2>1. Join(p, Down(x, c)) = Down(q, c) /\ Down(q, c) # <<>>
    BY JoinFacts, DownPath
  <2>2. q # <<>> /\ (UserPath(q) <=> UserPath(p))
    BY <1>2
  <2> QED
    BY <2>1, <2>2, PrivateNext DEF UserPath, Root
<1> HIDE DEF G
<1>3. T = Path
  <2>1. T \in SUBSET Path
    OBVIOUS
  <2>2. <<>> \in T /\ \A x \in T : \A c \in Name : Down(x, c) \in T
    BY <1>1, <1>2, PathFacts
  <2> HIDE DEF T
  <2> QED
    BY <2>1, <2>2, PathInduction
<1> QED
  BY <1>3 DEF G

\* What goes on from a path, one component before.
LEMMA JoinFrom ==
  ASSUME NEW p \in Path, NEW s \in Path, s # <<>>
  PROVE  \E t \in Path : \E c \in Name :
           s = Down(t, c) /\ Join(p, s) = Down(Join(p, t), c) /\ Parent(Join(p, s)) = Join(p, t)
<1>1. PICK t \in Path : \E c \in Name : s = Down(t, c)
  BY DownFrom
<1>2. PICK c \in Name : s = Down(t, c)
  BY <1>1
<1> PICK q \in Path : q = Join(p, t)
  BY JoinFacts
<1>3. Join(p, s) = Down(q, c)
  BY <1>2, JoinFacts
<1>4. Parent(Down(q, c)) = q
  BY DownParent
<1> QED
  BY <1>2, <1>3, <1>4

\* What is placed after a move: what was moved, what travelled with it, and the rest.
LEMMA MovesPlace ==
  ASSUME NEW f, NEW o, Sound(f, o), NEW from \in Path, NEW to \in Path, Movable(f, o, from, to),
         NEW o1, Cuts(f, o, o1, from), NEW o2, Moves(f, o, o1, o2, from, to),
         NEW k \in DOMAIN o2.placed
  PROVE  \/ k = to /\ o2.placed[k] = Resolve(f, o, from)
         \/ \E s \in Riders(o, from) : k = Join(to, s) /\ o2.placed[k] = o.placed[Join(from, s)]
         \/ /\ k \in DOMAIN o1.placed /\ o2.placed[k] = o1.placed[k] /\ ~ AtOrBelow(to, k)
<1>1. CASE k = to
  BY <1>1 DEF Moves
<1>2. CASE \E s \in Riders(o, from) : k = Join(to, s)
  BY <1>2 DEF Moves
<1>3. CASE k # to /\ \A s \in Riders(o, from) : k # Join(to, s)
  <2>1. k \in DOMAIN o1.placed /\ o2.placed[k] = o1.placed[k]
    BY <1>3 DEF Moves
  <2>2. Sound(f, o1) /\ Resolve(f, o1, to).kind # "dir"
    <3>1. NoEntry.kind # "dir"
      BY BaseIs
    <3> QED
      BY <3>1, HalfMoved
  <2>3. k \in Path
    BY <2>1, <2>2 DEF Sound
  <2>4. ~ AtOrBelow(to, k)
    BY <1>3, <2>1, <2>2, <2>3, NothingBelow
  <2> QED
    BY <2>1, <2>4
<1> QED
  BY <1>1, <1>2, <1>3

\* Each is in a directory.
LEMMA MovesInDirectories ==
  ASSUME NEW f, NEW o, Sound(f, o), NEW from \in Path, NEW to \in Path, Movable(f, o, from, to),
         NEW o1, Cuts(f, o, o1, from), NEW o2, Moves(f, o, o1, o2, from, to),
         NEW k \in DOMAIN o2.placed
  PROVE  /\ k \in Path /\ UserPath(k) /\ IsEntry(o2.placed[k])
         /\ o2.placed[k].from = "base" => o2.placed[k].origin \in Path
         /\ Resolve(f, o2, Parent(k)).kind = "dir"
<1>0. UserPath(from) /\ UserPath(to) /\ from # <<>> /\ to # <<>>
  BY DEF Movable, UserPath, Root
<1>1. CASE k = to /\ o2.placed[k] = Resolve(f, o, from)
  <2>1. IsEntry(o2.placed[k]) /\ (o2.placed[k].from = "base" => o2.placed[k].origin \in Path)
    BY <1>0, <1>1, ShownIs DEF IsBase
  <2>2. PICK q \in Path : \E c \in Name :
          /\ to = Down(q, c) /\ Parent(to) = q /\ Resolve(f, o1, q) = Resolve(f, o, q)
          /\ Resolve(f, o, q).kind = "dir" /\ ~ AtOrBelow(to, q)
    BY HalfMoved
  <2>3. Resolve(f, o2, q).kind = "dir"
    BY <2>2, MovesLeave
  <2> QED
    BY <1>0, <1>1, <2>1, <2>2, <2>3
<1>2. ASSUME NEW s \in Riders(o, from), k = Join(to, s), o2.placed[k] = o.placed[Join(from, s)]
      PROVE  /\ k \in Path /\ UserPath(k) /\ IsEntry(o2.placed[k])
             /\ o2.placed[k].from = "base" => o2.placed[k].origin \in Path
             /\ Resolve(f, o2, Parent(k)).kind = "dir"
  <2>1. s \in Path /\ s # <<>> /\ Join(from, s) \in DOMAIN o.placed
    BY DEF Riders
  <2>2. k \in Path /\ UserPath(k)
    BY <1>0, <1>2, <2>1, UserBelow, JoinFacts
  <2>3. IsEntry(o2.placed[k]) /\ (o2.placed[k].from = "base" => o2.placed[k].origin \in Path)
    BY <1>2, <2>1 DEF Sound
  <2>4. PICK t \in Path : \E c \in Name : s = Down(t, c) /\ Parent(Join(to, s)) = Join(to, t)
    BY <2>1, JoinFrom
  <2>5. PICK c \in Name : s = Down(t, c)
    BY <2>4
  <2>6. Parent(Join(from, s)) = Join(from, t)
    <3> PICK v \in Path : v = Join(from, t)
      BY JoinFacts
    <3>1. Join(from, s) = Down(v, c)
      BY <2>5, JoinFacts
    <3>2. Parent(Down(v, c)) = v
      BY DownParent
    <3> QED
      BY <3>1, <3>2
  <2>7. Resolve(f, o, Join(from, t)).kind = "dir"
    BY <2>1, <2>6 DEF Sound, InShape
  <2>8. Resolve(f, o2, Join(to, t)).kind = "dir"
    BY <2>7, MovesBring
  <2> QED
    BY <1>2, <2>2, <2>3, <2>4, <2>8
<1>3. CASE k \in DOMAIN o1.placed /\ o2.placed[k] = o1.placed[k] /\ ~ AtOrBelow(to, k)
  <2>1. Sound(f, o1)
    BY HalfMoved
  <2>2. /\ k \in Path /\ UserPath(k) /\ IsEntry(o2.placed[k])
        /\ o2.placed[k].from = "base" => o2.placed[k].origin \in Path
        /\ Resolve(f, o1, Parent(k)).kind = "dir"
    BY <1>3, <2>1 DEF Sound, InShape
  <2>3. k # <<>>
    BY <2>2 DEF UserPath, Root
  <2>4. PICK q \in Path : \E c \in Name : k = Down(q, c)
    BY <2>2, <2>3, DownFrom
  <2>5. PICK c \in Name : k = Down(q, c)
    BY <2>4
  <2>6. Parent(k) = q /\ ~ AtOrBelow(to, q)
    BY <1>3, <2>5, DownParent, BelowNext
  <2>7. Resolve(f, o2, q).kind = "dir"
    BY <2>2, <2>6, MovesLeave
  <2> QED
    BY <2>2, <2>6, <2>7
<1> QED
  BY <1>1, <1>2, <1>3, MovesPlace

\* Each base entry that is placed was shown before, where it has moved from.
MovedFrom(from, to, k, v) ==
  \/ ~ AtOrBelow(from, v) /\ k = v
  \/ \E s \in Path : v = Join(from, s) /\ k = Join(to, s)

\* A base entry away from its base path was shown before: where it is, or where it was moved from.
LEMMA MovesWander ==
  ASSUME NEW f, NEW o, Sound(f, o), NEW from \in Path, NEW to \in Path, Movable(f, o, from, to),
         NEW o1, Cuts(f, o, o1, from), NEW o2, Moves(f, o, o1, o2, from, to),
         NEW k \in Wanderers(o2)
  PROVE  /\ o2.placed[k].origin \in DOMAIN o2.detached
         /\ \E v \in Path : /\ v # <<>> /\ Resolve(f, o, v) = o2.placed[k]
                            /\ MovedFrom(from, to, k, v)
<1>0. UserPath(from) /\ UserPath(to) /\ from # <<>> /\ to # <<>>
  BY DEF Movable, UserPath, Root
<1>1. k \in DOMAIN o2.placed /\ o2.placed[k].from = "base"
  BY DEF Wanderers
<1>2. DOMAIN o2.detached = DOMAIN o.detached \union Vacates(Resolve(f, o, from))
  BY DEF Moves, Cuts
<1>3. CASE k = to /\ o2.placed[k] = Resolve(f, o, from)
  <2>1. o2.placed[k].origin \in DOMAIN o2.detached
    BY <1>1, <1>2, <1>3 DEF Vacates
  <2>2. MovedFrom(from, to, k, from)
    BY <1>3, JoinFacts, PathFacts DEF MovedFrom
  <2> QED
    BY <1>0, <1>3, <2>1, <2>2
<1>4. ASSUME NEW s \in Riders(o, from), k = Join(to, s), o2.placed[k] = o.placed[Join(from, s)]
      PROVE  /\ o2.placed[k].origin \in DOMAIN o2.detached
             /\ \E v \in Path : /\ v # <<>> /\ Resolve(f, o, v) = o2.placed[k]
                                /\ MovedFrom(from, to, k, v)
  <2>1. s \in Path /\ Join(from, s) \in DOMAIN o.placed
    BY DEF Riders
  <2> PICK v \in DOMAIN o.placed : v = Join(from, s)
    BY <2>1
  <2>2. v \in Path /\ v # <<>> /\ Resolve(f, o, v) = o2.placed[k]
    BY <1>4, PlacedIsShown
  <2>3. v \in Wanderers(o)
    BY <1>1, <1>4 DEF Wanderers
  <2>4. o2.placed[k].origin \in DOMAIN o2.detached
    BY <1>2, <1>4, <2>3 DEF Sound, InShape
  <2>5. MovedFrom(from, to, k, v)
    BY <1>4, <2>1 DEF MovedFrom
  <2> QED
    BY <2>2, <2>4, <2>5
<1>5. CASE k \in DOMAIN o1.placed /\ o2.placed[k] = o1.placed[k] /\ ~ AtOrBelow(to, k)
  <2>1. Sound(f, o1)
    BY HalfMoved
  <2>2. k \in Wanderers(o1)
    BY <1>1, <1>5 DEF Wanderers
  <2>3. o2.placed[k].origin \in DOMAIN o2.detached
    BY <1>5, <2>1, <2>2 DEF Sound, InShape, Moves
  <2>4. k \in Path /\ k # <<>> /\ Resolve(f, o1, k) = o2.placed[k]
    BY <1>5, <2>1, PlacedIsShown
  <2>5. ~ AtOrBelow(from, k) /\ Resolve(f, o, k) = o2.placed[k]
    <3>1. Resolve(f, o1, k) = IF AtOrBelow(from, k) THEN NoEntry ELSE Resolve(f, o, k)
      BY <2>4, HalfMoved
    <3>2. NoEntry.from # "base"
      BY BaseIs
    <3> QED
      BY <1>1, <2>4, <3>1, <3>2
  <2> QED
    BY <2>3, <2>4, <2>5 DEF MovedFrom
<1> QED
  BY <1>1, <1>3, <1>4, <1>5, MovesPlace

\* The overlay keeps its shape.
LEMMA MovesSound ==
  ASSUME NEW f, NEW o, Sound(f, o), NEW from \in Path, NEW to \in Path, Movable(f, o, from, to),
         NEW o1, Cuts(f, o, o1, from), NEW o2, Moves(f, o, o1, o2, from, to)
  PROVE  Sound(f, o2)
<1>1. ASSUME NEW k \in DOMAIN o2.placed
      PROVE  /\ k \in Path /\ UserPath(k) /\ IsEntry(o2.placed[k])
             /\ o2.placed[k].from = "base" => o2.placed[k].origin \in Path
             /\ Resolve(f, o2, Parent(k)).kind = "dir"
  BY MovesInDirectories
<1>2. ASSUME NEW k \in Wanderers(o2)
      PROVE  /\ o2.placed[k].origin \in DOMAIN o2.detached
             /\ UserPath(o2.placed[k].origin)
             /\ o2.placed[k] = BaseLookup(f, o2.placed[k].origin)
  <2>1. /\ o2.placed[k].origin \in DOMAIN o2.detached
        /\ \E v \in Path : v # <<>> /\ Resolve(f, o, v) = o2.placed[k]
    BY MovesWander
  <2>2. IsBase(f, o2.placed[k])
    BY <2>1, ShownIs DEF Wanderers
  <2> QED
    BY <2>1, <2>2 DEF IsBase
<1>3. ASSUME NEW k \in Wanderers(o2), NEW j \in Wanderers(o2),
             o2.placed[j].origin = o2.placed[k].origin
      PROVE  j = k
  <2>1. PICK v \in Path : Resolve(f, o, v) = o2.placed[k] /\ MovedFrom(from, to, k, v)
    BY MovesWander
  <2>2. PICK w \in Path : Resolve(f, o, w) = o2.placed[j] /\ MovedFrom(from, to, j, w)
    BY MovesWander
  <2>3. v = w
    BY <1>3, <2>1, <2>2, ShownOnce DEF Wanderers
  <2>4. CASE AtOrBelow(from, v)
    <3>1. PICK s \in Path : v = Join(from, s) /\ k = Join(to, s)
      BY <2>1, <2>4 DEF MovedFrom
    <3>2. PICK t \in Path : v = Join(from, t) /\ j = Join(to, t)
      BY <2>2, <2>3, <2>4 DEF MovedFrom
    <3>3. Join(from, s) = Join(from, t)
      BY <3>1, <3>2
    <3>4. s = t
      BY <3>3, JoinFacts
    <3> QED
      BY <3>1, <3>2, <3>4
  <2>5. CASE ~ AtOrBelow(from, v)
    <3>1. \A s \in Path : v # Join(from, s)
      BY <2>5, BelowJoin
    <3> QED
      BY <2>1, <2>2, <2>3, <3>1 DEF MovedFrom
  <2> QED
    BY <2>4, <2>5
<1>4. InShape(f, o2)
  BY <1>1, <1>2, <1>3 DEF InShape, Wanderers
<1> QED
  BY <1>1, <1>4 DEF Sound

\* The element that the fold over a set takes next, and the fold as a function on the subsets of S.
Chosen(s) == CHOOSE x \in s : TRUE
IsListing(it, S) ==
  it = [s \in SUBSET S |-> IF s = {} THEN <<>> ELSE Append(it[s \ {Chosen(s)}], Chosen(s))]

\* A listing is what the iteration makes of the whole set.
LEMMA ListingIsIter ==
  ASSUME NEW S
  PROVE  Listing(S) = (CHOOSE it : IsListing(it, S))[S]
BY DEF Listing, FoldSet, MapThenFoldSet, IsListing, Chosen

\* What is chosen from a set that is not empty is one of its members.
LEMMA ChosenIn ==
  ASSUME NEW s, s # {}
  PROVE  Chosen(s) \in s
BY DEF Chosen

\* It lists S: every element, each once.
Lists(out, S) ==
  /\ out \in Seq(S) /\ \A x \in S : \E k \in DOMAIN out : out[k] = x
  /\ \A j, k \in DOMAIN out : out[j] = out[k] => j = k

\* One more member is put at the end of the listing of the others.
LEMMA ListsNext ==
  ASSUME NEW S, NEW x \in S, NEW out, Lists(out, S \ {x})
  PROVE  Lists(Append(out, x), S)
<1>1. out \in Seq(S \ {x}) /\ out \in Seq(S)
  BY DEF Lists
<1> PICK n \in Nat : n = Len(out)
  BY <1>1
<1> PICK o2 : o2 = Append(out, x)
  OBVIOUS
<1>2. o2 \in Seq(S) /\ DOMAIN o2 = 1 .. n + 1 /\ o2[n + 1] = x /\ DOMAIN out = 1 .. n
  BY <1>1
<1>3. \A k \in 1 .. n : o2[k] = out[k] /\ out[k] \in S \ {x}
  BY <1>1
<1>4. \A y \in S : \E k \in DOMAIN o2 : o2[k] = y
  <2> SUFFICES ASSUME NEW y \in S PROVE \E k \in DOMAIN o2 : o2[k] = y
    OBVIOUS
  <2>1. CASE y = x
    BY <1>2, <2>1
  <2>2. CASE y # x
    <3>1. PICK k \in DOMAIN out : out[k] = y
      BY <2>2 DEF Lists
    <3> QED
      BY <1>2, <1>3, <3>1
  <2> QED
    BY <2>1, <2>2
<1>5. ASSUME NEW j \in DOMAIN o2, NEW k \in DOMAIN o2, o2[j] = o2[k] PROVE j = k
  <2>1. CASE j \in 1 .. n /\ k \in 1 .. n
    BY <1>2, <1>3, <1>5, <2>1 DEF Lists
  <2>2. CASE j = n + 1 /\ k \in 1 .. n
    BY <1>2, <1>3, <1>5, <2>2
  <2>3. CASE k = n + 1 /\ j \in 1 .. n
    BY <1>2, <1>3, <1>5, <2>3
  <2> QED
    BY <1>2, <2>1, <2>2, <2>3
<1> QED
  BY <1>2, <1>4, <1>5 DEF Lists

\* The sets of at most n elements of S, and the function on these alone.
Small(S, n) == {s \in SUBSET S : Cardinality(s) <= n}
IsListingUpTo(it, S, n) ==
  it = [s \in Small(S, n) |-> IF s = {} THEN <<>> ELSE Append(it[s \ {Chosen(s)}], Chosen(s))]

\* Without the element taken next a set is smaller.
LEMMA Smaller ==
  ASSUME NEW S, IsFiniteSet(S), NEW s \in SUBSET S, s # {}
  PROVE  /\ Chosen(s) \in s /\ s \ {Chosen(s)} \in SUBSET S
         /\ Cardinality(s) \in Nat /\ Cardinality(s) # 0
         /\ Cardinality(s \ {Chosen(s)}) = Cardinality(s) - 1
<1>1. IsFiniteSet(s) /\ Cardinality(s) \in Nat
  BY FS_Subset, FS_CardinalityType
<1>2. Chosen(s) \in s
  BY ChosenIn
<1>3. Cardinality(s) # 0
  BY <1>1, FS_EmptySet
<1>4. Cardinality(s \ {Chosen(s)}) = Cardinality(s) - 1
  BY <1>1, <1>2, FS_RemoveElement
<1> QED
  BY <1>1, <1>2, <1>3, <1>4

\* The function exists for a finite set: each set refers to a smaller one.
LEMMA ListingExists ==
  ASSUME NEW S, IsFiniteSet(S), NEW n \in Nat
  PROVE  \E it : IsListingUpTo(it, S, n)
<1> DEFINE T == {k \in Nat : ~ \E it : IsListingUpTo(it, S, k)}
<1> SUFFICES ASSUME T # {} PROVE FALSE
  OBVIOUS
<1>1. PICK m \in T : \A k \in T : m <= k
  BY Least
<1>2. CASE m = 0
  <2> DEFINE g == [s \in Small(S, 0) |-> <<>>]
  <2>1. ASSUME NEW s \in Small(S, 0) PROVE s = {}
    <3>1. s \in SUBSET S /\ IsFiniteSet(s) /\ Cardinality(s) <= 0
      BY FS_Subset DEF Small
    <3>2. Cardinality(s) \in Nat
      BY <3>1, FS_CardinalityType
    <3> QED
      BY <3>1, <3>2, FS_EmptySet
  <2>2. IsListingUpTo(g, S, 0)
    BY <2>1 DEF IsListingUpTo
  <2> QED
    BY <1>2, <2>2
<1>3. CASE m # 0
  <2>1. m - 1 \in Nat /\ m - 1 \notin T
    BY <1>1, <1>3
  <2>2. PICK g : IsListingUpTo(g, S, m - 1)
    BY <2>1
  <2> DEFINE h == [s \in Small(S, m) |->
                     IF s = {} THEN <<>> ELSE Append(g[s \ {Chosen(s)}], Chosen(s))]
  <2>3. ASSUME NEW s \in Small(S, m), s # {} PROVE h[s \ {Chosen(s)}] = g[s \ {Chosen(s)}]
    <3> PICK u : u = s \ {Chosen(s)}
      OBVIOUS
    <3>1. Cardinality(s) \in Nat /\ Cardinality(u) = Cardinality(s) - 1 /\ u \in SUBSET S /\ Cardinality(s) <= m
      BY <2>3, Smaller DEF Small
    <3>2. u \in Small(S, m) /\ u \in Small(S, m - 1)
      BY <2>1, <3>1 DEF Small
    <3>3. h[u] = IF u = {} THEN <<>> ELSE Append(g[u \ {Chosen(u)}], Chosen(u))
      BY <3>2
    <3>4. g[u] = IF u = {} THEN <<>> ELSE Append(g[u \ {Chosen(u)}], Chosen(u))
      BY <2>2, <3>2 DEF IsListingUpTo
    <3> QED
      BY <3>3, <3>4
  <2>4. \A s \in Small(S, m) : h[s] = IF s = {} THEN <<>> ELSE Append(h[s \ {Chosen(s)}], Chosen(s))
    BY <2>3
  <2>5. h = [s \in Small(S, m) |-> IF s = {} THEN <<>> ELSE Append(h[s \ {Chosen(s)}], Chosen(s))]
    BY <2>4
  <2> QED
    BY <2>5 DEF IsListingUpTo
<1> QED
  BY <1>1, <1>2, <1>3

\* It is the function on all the subsets.
LEMMA ListingIsThere ==
  ASSUME NEW S, IsFiniteSet(S)
  PROVE  \E it : IsListing(it, S)
<1>1. Cardinality(S) \in Nat /\ Small(S, Cardinality(S)) = SUBSET S
  BY FS_CardinalityType, FS_Subset DEF Small
<1>2. PICK it : IsListingUpTo(it, S, Cardinality(S))
  BY <1>1, ListingExists
<1> QED
  BY <1>1, <1>2 DEF IsListingUpTo, IsListing

\* What the listing of a finite set is: every element, each once.
LEMMA ListingIs ==
  ASSUME NEW S, IsFiniteSet(S)
  PROVE  Lists(Listing(S), S)
<1> PICK it : IsListing(it, S) /\ Listing(S) = it[S]
  BY ListingIsThere, ListingIsIter
<1> DEFINE T == {n \in Nat : \E s \in SUBSET S : Cardinality(s) = n /\ ~ Lists(it[s], s)}
<1>1. T = {}
  <2> SUFFICES ASSUME T # {} PROVE FALSE
    OBVIOUS
  <2>1. PICK m \in T : \A k \in T : m <= k
    BY Least
  <2>2. PICK s \in SUBSET S : Cardinality(s) = m /\ ~ Lists(it[s], s)
    OBVIOUS
  <2>3. it[s] = IF s = {} THEN <<>> ELSE Append(it[s \ {Chosen(s)}], Chosen(s))
    BY DEF IsListing
  <2>4. CASE s = {}
    <3>1. it[s] = <<>>
      BY <2>3, <2>4
    <3>2. Lists(<<>>, {})
      BY DEF Lists
    <3> QED
      BY <2>2, <2>4, <3>1, <3>2
  <2>5. CASE s # {}
    <3> PICK x, u : x = Chosen(s) /\ u = s \ {x}
      OBVIOUS
    <3>1. x \in s /\ u \in SUBSET S /\ Cardinality(u) = m - 1 /\ m - 1 \in Nat
      BY <2>2, <2>5, Smaller
    <3>2. m - 1 \notin T
      BY <2>1, <3>1
    <3>3. Lists(it[u], u)
      BY <3>1, <3>2
    <3>4. Lists(Append(it[u], x), s)
      BY <3>1, <3>3, ListsNext
    <3> QED
      BY <2>2, <2>3, <2>5, <3>4
  <2> QED
    BY <2>4, <2>5
<1>2. Cardinality(S) \in Nat
  BY FS_CardinalityType
<1> QED
  BY <1>1, <1>2

\* So the listing is a sequence of elements.
LEMMA ListingSeq ==
  ASSUME NEW S, NEW out, Lists(out, S)
  PROVE  \E n \in Nat : DOMAIN out = 1 .. n /\ \A k \in 1 .. n : out[k] \in S
BY DEF Lists

-----------------------------------------------------------------------------
(* The waves of a plan: of the waves by depth, those that have steps, in that order. *)

DropEmpty(x, waves, w) == IF w = <<>> THEN waves ELSE Append(waves, w)
NoWaves(x) == <<>>
Dropping == INSTANCE FoldLemmas WITH Op <- DropEmpty, Base <- NoWaves

\* The waves of a plan are the waves of each depth, the empty ones left out one after the other.
LEMMA WavesForIsFold ==
  ASSUME NEW tokens
  PROVE  WavesFor(tokens) = Dropping!Fold(0, WavesByDepth(tokens))
BY DEF WavesFor, DropEmpty, NoWaves, Dropping!Fold, FoldLeft, MapThenFoldSet,
   Dropping!MapThenFoldSet, Max, Dropping!Largest

\* The place of each in the sequence it is taken from.
PlacesIn(out, s, pos) ==
  /\ pos \in [DOMAIN out -> DOMAIN s]
  /\ \A i, j \in DOMAIN out : i < j => pos[i] < pos[j]
  /\ \A i \in DOMAIN out : out[i] = s[pos[i]] /\ out[i] # <<>>
  /\ \A k \in DOMAIN s : s[k] # <<>> => \E i \in DOMAIN out : pos[i] = k

\* One element more, and its domain.
LEMMA OneMore ==
  ASSUME NEW S, NEW p \in Seq(S), NEW c \in S
  PROVE  /\ Append(p, c) \in Seq(S)
         /\ \E n \in Nat : /\ DOMAIN p = 1 .. n /\ DOMAIN Append(p, c) = 1 .. n + 1
                           /\ Append(p, c)[n + 1] = c /\ \A i \in 1 .. n : Append(p, c)[i] = p[i]
OBVIOUS

\* A place more, at the end.
MorePlaces(p2, pos, n, m) ==
  /\ p2 \in [1 .. m + 1 -> 1 .. n + 1] /\ p2[m + 1] = n + 1 /\ \A i \in 1 .. m : p2[i] = pos[i]
  /\ \A i, j \in 1 .. m + 1 : i < j => p2[i] < p2[j]

\* Places in increasing order, and one more after them.
LEMMA PlaceNext ==
  ASSUME NEW n \in Nat, NEW m \in Nat, NEW pos \in [1 .. m -> 1 .. n],
         \A i, j \in 1 .. m : i < j => pos[i] < pos[j]
  PROVE  \E p2 : MorePlaces(p2, pos, n, m)
<1> DEFINE p2 == [i \in 1 .. m + 1 |-> IF i = m + 1 THEN n + 1 ELSE pos[i]]
<1>1. \A i \in 1 .. m + 1 : i # m + 1 => i \in 1 .. m
  OBVIOUS
<1>2. \A i \in 1 .. m : pos[i] \in 1 .. n /\ i \in 1 .. m + 1 /\ i # m + 1
  OBVIOUS
<1>3. m + 1 \in 1 .. m + 1 /\ n + 1 \in 1 .. n + 1 /\ \A x \in 1 .. n : x \in 1 .. n + 1 /\ x < n + 1
  OBVIOUS
<1>4. p2 \in [1 .. m + 1 -> 1 .. n + 1]
  BY <1>1, <1>2, <1>3
<1>5. p2[m + 1] = n + 1 /\ \A i \in 1 .. m : p2[i] = pos[i]
  BY <1>2, <1>3
<1>6. ASSUME NEW i \in 1 .. m + 1, NEW j \in 1 .. m + 1, i < j PROVE p2[i] < p2[j]
  <2>1. i \in 1 .. m
    BY <1>6
  <2> QED
    BY <1>1, <1>2, <1>3, <1>5, <1>6, <2>1
<1> QED
  BY <1>4, <1>5, <1>6 DEF MorePlaces

\* One wave more: it is left out when it is empty, and else it takes the next place.
LEMMA ThinNext ==
  ASSUME NEW S, NEW s \in Seq(S), NEW w \in S, NEW out, out \in Seq(S), \E pos : PlacesIn(out, s,
         pos)
  PROVE  /\ DropEmpty(0, out, w) \in Seq(S)
         /\ \E pos : PlacesIn(DropEmpty(0, out, w), Append(s, w), pos)
<1> PICK pos : PlacesIn(out, s, pos)
  OBVIOUS
<1> PICK s2 : s2 = Append(s, w)
  OBVIOUS
<1> PICK n \in Nat : /\ DOMAIN s = 1 .. n /\ DOMAIN s2 = 1 .. n + 1 /\ s2[n + 1] = w
                     /\ \A i \in 1 .. n : s2[i] = s[i]
  BY OneMore
<1>1. DOMAIN s2 = 1 .. n + 1 /\ s2[n + 1] = w /\ \A i \in 1 .. n : s2[i] = s[i] /\ i \in 1 .. n + 1
  OBVIOUS
<1>2. CASE w = <<>>
  <2>1. DropEmpty(0, out, w) = out
    BY <1>2 DEF DropEmpty
  <2>2. PlacesIn(out, s2, pos)
    BY <1>1, <1>2 DEF PlacesIn
  <2> QED
    BY <2>1, <2>2
<1>3. CASE w # <<>>
  <2> PICK o2 : o2 = Append(out, w)
    OBVIOUS
  <2>0. o2 \in Seq(S)
    BY OneMore
  <2> PICK m \in Nat : /\ DOMAIN out = 1 .. m /\ DOMAIN o2 = 1 .. m + 1 /\ o2[m + 1] = w
                       /\ \A i \in 1 .. m : o2[i] = out[i]
    BY OneMore
  <2>1. DropEmpty(0, out, w) = o2
    BY <1>3 DEF DropEmpty
  <2>2. DOMAIN o2 = 1 .. m + 1 /\ o2[m + 1] = w /\ \A i \in 1 .. m : o2[i] = out[i]
    OBVIOUS
  <2>3. /\ pos \in [1 .. m -> 1 .. n] /\ \A i, j \in 1 .. m : i < j => pos[i] < pos[j]
        /\ \A i \in 1 .. m : pos[i] \in 1 .. n /\ out[i] = s[pos[i]] /\ out[i] # <<>>
    BY DEF PlacesIn
  <2>a. \E p2 : MorePlaces(p2, pos, n, m)
    BY <2>3, PlaceNext
  <2> PICK p2 \in [1 .. m + 1 -> 1 .. n + 1] :
        /\ p2[m + 1] = n + 1 /\ \A i \in 1 .. m : p2[i] = pos[i]
        /\ \A i, j \in 1 .. m + 1 : i < j => p2[i] < p2[j]
    BY <2>a DEF MorePlaces
  <2>4. p2 \in [DOMAIN o2 -> DOMAIN s2]
    OBVIOUS
  <2>5. \A i, j \in DOMAIN o2 : i < j => p2[i] < p2[j]
    OBVIOUS
  <2>6. ASSUME NEW i \in DOMAIN o2 PROVE o2[i] = s2[p2[i]] /\ o2[i] # <<>>
    <3>1. i = m + 1 \/ i \in 1 .. m
      OBVIOUS
    <3>2. CASE i = m + 1
      BY <1>3, <3>2
    <3>3. CASE i \in 1 .. m
      <4>1. o2[i] = out[i] /\ p2[i] = pos[i] /\ s2[pos[i]] = s[pos[i]]
        BY <2>3, <3>3
      <4> QED
        BY <2>3, <3>3, <4>1
    <3> QED
      BY <3>1, <3>2, <3>3
  <2>7. ASSUME NEW k \in DOMAIN s2, s2[k] # <<>> PROVE \E i \in DOMAIN o2 : p2[i] = k
    <3>1. k = n + 1 \/ k \in 1 .. n
      OBVIOUS
    <3>2. CASE k = n + 1
      <4>1. m + 1 \in DOMAIN o2
        OBVIOUS
      <4> QED
        BY <3>2, <4>1
    <3>3. CASE k \in 1 .. n
      <4>1. s[k] # <<>>
        BY <2>7, <3>3
      <4>2. PICK i \in 1 .. m : pos[i] = k
        BY <3>3, <4>1 DEF PlacesIn
      <4>3. i \in DOMAIN o2
        OBVIOUS
      <4> QED
        BY <4>2, <4>3
    <3> QED
      BY <3>1, <3>2, <3>3
  <2>8. PlacesIn(o2, s2, p2)
    BY <2>4, <2>5, <2>6, <2>7 DEF PlacesIn
  <2> QED
    BY <2>0, <2>1, <2>8
<1> QED
  BY <1>2, <1>3

\* Of any sequence.
LEMMA ThinIs ==
  ASSUME NEW S, NEW s \in Seq(S)
  PROVE  Dropping!Fold(0, s) \in Seq(S) /\ \E pos : PlacesIn(Dropping!Fold(0, s), s, pos)
<1> DEFINE G(n) == \A t \in Seq(S) : Len(t) = n =>
                     Dropping!Fold(0, t) \in Seq(S) /\ \E pos : PlacesIn(Dropping!Fold(0, t), t, pos)
           T == {n \in Nat : ~ G(n)}
<1> SUFFICES ASSUME T # {} PROVE FALSE
  OBVIOUS
<1>1. PICK n \in T : \A k \in T : n <= k
  BY Least
<1>2. PICK t \in Seq(S) : Len(t) = n /\ ~ (Dropping!Fold(0, t) \in Seq(S) /\ \E pos : PlacesIn(Dropping!Fold(0, t), t, pos))
  OBVIOUS
<1>3. CASE n = 0
  <2>1. t = <<>>
    BY <1>2, <1>3
  <2>2. Dropping!Fold(0, <<>>) = <<>>
    BY Dropping!FoldEmpty, Least DEF Dropping!WellOrdered, NoWaves
  <2>3. PlacesIn(<<>>, <<>>, <<>>)
    BY DEF PlacesIn
  <2>4. <<>> \in Seq(S)
    OBVIOUS
  <2> QED
    BY <1>2, <2>1, <2>2, <2>3, <2>4
<1>4. CASE n # 0
  <2> PICK m \in Nat : n = m + 1
    <3>1. n - 1 \in Nat /\ n = (n - 1) + 1
      BY <1>4
    <3> QED
      BY <3>1
  <2>1. SubSeq(t, 1, m) \in Seq(S) /\ t[m + 1] \in S /\ t = Append(SubSeq(t, 1, m), t[m + 1]) /\ Len(SubSeq(t, 1, m)) = m
    BY <1>2
  <2> PICK u \in Seq(S), w \in S : t = Append(u, w) /\ Len(u) = m
    BY <2>1
  <2>2. m \notin T
    BY <1>1
  <2>3. Dropping!Fold(0, u) \in Seq(S) /\ \E pos : PlacesIn(Dropping!Fold(0, u), u, pos)
    BY <2>2
  <2>4. Dropping!Fold(0, Append(u, w)) = DropEmpty(0, Dropping!Fold(0, u), w)
    BY Dropping!FoldAppend, Least DEF Dropping!WellOrdered
  <2> PICK out : out = Dropping!Fold(0, u)
    OBVIOUS
  <2>5. /\ DropEmpty(0, out, w) \in Seq(S)
        /\ \E pos : PlacesIn(DropEmpty(0, out, w), Append(u, w), pos)
    BY <2>3, ThinNext
  <2> QED
    BY <1>2, <2>4, <2>5
<1> QED
  BY <1>3, <1>4

-----------------------------------------------------------------------------
(* Plans that pass validate(). *)

\* The bound on depths is a number (what number plays no role).
LEMMA BoundIs == DepthBound \in Nat
BY DEF DepthBound

\* A token out of the tree into .fstx, and on to where it ends, if it ends anywhere; or out of .fstx.
IsMove(tok) ==
  /\ Len(tok.locs) \in {2, 3} /\ DOMAIN tok.locs = 1 .. Len(tok.locs)
  /\ IsPrivate(tok.locs[1].path) => Len(tok.locs) = 2 /\ ~ IsPrivate(tok.locs[2].path)
  /\ ~ IsPrivate(tok.locs[1].path) => IsPrivate(tok.locs[2].path)
  /\ Len(tok.locs) = 3 => ~ IsPrivate(tok.locs[1].path) /\ ~ IsPrivate(tok.locs[3].path)
  /\ \A i \in 1 .. Len(tok.locs) :
       /\ tok.locs[i].path \in Path /\ tok.locs[i].path # <<>>
       /\ IsPrivate(tok.locs[i].path) => Len(tok.locs[i].path) = 4
       /\ ~ IsPrivate(tok.locs[i].path) => Len(tok.locs[i].path) \in 1 .. DepthBound

\* The steps of such a token, and the place, among the waves by depth, of the wave each is in.
StepsIn(tok) == 1 .. Len(tok.locs) - 1
When(tok, f) ==
  IF f = 1 /\ ~ IsPrivate(tok.locs[1].path) THEN DepthBound + 1 - Len(tok.locs[1].path)
  ELSE DepthBound + Len(tok.locs[f + 1].path)

\* Tokens that are.
Moving(tokens) == (\E n \in Nat : DOMAIN tokens = 1 .. n) /\ \A t \in DOMAIN tokens : IsMove(tokens[t])

AStep(t, f) == [token |-> t, from |-> f]

\* A number from 1 up to one less than two or three.
LEMMA OneOrTwo ==
  ASSUME NEW n \in {2, 3}, NEW f \in 1 .. n - 1
  PROVE  (f = 1 \/ (f = 2 /\ n = 3)) /\ f + 1 \in 1 .. n /\ f \in 1 .. n /\ f \in Nat
<1>1. CASE n = 2
  BY <1>1
<1>2. CASE n = 3
  BY <1>2
<1> QED
  BY <1>1, <1>2

\* A step goes out of the tree, or into it.
Outwards(tok, f) ==
  /\ f = 1 /\ ~ IsPrivate(tok.locs[1].path) /\ IsPrivate(tok.locs[2].path)
  /\ When(tok, f) = DepthBound + 1 - Len(tok.locs[1].path) /\ When(tok, f) \in 1 .. DepthBound
Inwards(tok, f) ==
  /\ f + 1 = Len(tok.locs) /\ IsPrivate(tok.locs[f].path) /\ ~ IsPrivate(tok.locs[f + 1].path)
  /\ When(tok, f) = DepthBound + Len(tok.locs[f + 1].path)
  /\ When(tok, f) \in DepthBound + 1 .. 2 * DepthBound

\* Each step of a token takes it out of the tree or into it.
LEMMA MoveIs ==
  ASSUME NEW tok, IsMove(tok), NEW f \in StepsIn(tok)
  PROVE  /\ f \in {1, 2} /\ f + 1 \in DOMAIN tok.locs /\ f \in DOMAIN tok.locs
         /\ Outwards(tok, f) \/ Inwards(tok, f)
<1> PICK n \in {2, 3} : n = Len(tok.locs)
  BY DEF IsMove
<1>0. DOMAIN tok.locs = 1 .. n
  BY DEF IsMove
<1>1. (f = 1 \/ (f = 2 /\ n = 3)) /\ f + 1 \in 1 .. n /\ f \in 1 .. n
  BY OneOrTwo DEF StepsIn
<1> PICK D \in Nat : D = DepthBound
  BY BoundIs
<1>3. CASE f = 1 /\ ~ IsPrivate(tok.locs[1].path)
  <2>1. Len(tok.locs[1].path) \in 1 .. DepthBound
    BY <1>1, <1>3 DEF IsMove
  <2> PICK k \in 1 .. D : k = Len(tok.locs[1].path)
    BY <2>1
  <2>2. When(tok, f) = D + 1 - k
    BY <1>3 DEF When
  <2>3. D + 1 - k \in 1 .. D
    OBVIOUS
  <2>4. IsPrivate(tok.locs[2].path)
    BY <1>3 DEF IsMove
  <2>5. Outwards(tok, f)
    BY <1>3, <2>2, <2>3, <2>4 DEF Outwards
  <2> QED
    BY <1>0, <1>1, <2>5
<1>4. CASE ~ (f = 1 /\ ~ IsPrivate(tok.locs[1].path))
  <2>1. ~ IsPrivate(tok.locs[f + 1].path) /\ f + 1 = n /\ IsPrivate(tok.locs[f].path)
    <3>1. CASE f = 1
      <4>1. IsPrivate(tok.locs[1].path)
        BY <1>4, <3>1
      <4>2. n = 2 /\ ~ IsPrivate(tok.locs[2].path)
        BY <4>1 DEF IsMove
      <4> QED
        BY <3>1, <4>1, <4>2
    <3>2. CASE f = 2 /\ n = 3
      <4>1. ~ IsPrivate(tok.locs[1].path) /\ ~ IsPrivate(tok.locs[3].path)
        BY <3>2 DEF IsMove
      <4>2. IsPrivate(tok.locs[2].path)
        BY <4>1 DEF IsMove
      <4> QED
        BY <3>2, <4>1, <4>2
    <3> QED
      BY <1>1, <3>1, <3>2
  <2>2. Len(tok.locs[f + 1].path) \in 1 .. DepthBound
    BY <1>1, <2>1 DEF IsMove
  <2> PICK k \in 1 .. D : k = Len(tok.locs[f + 1].path)
    BY <2>2
  <2>3. When(tok, f) = D + k
    BY <1>4 DEF When
  <2>4. D + k \in D + 1 .. 2 * D
    OBVIOUS
  <2>5. Inwards(tok, f)
    BY <2>1, <2>3, <2>4 DEF Inwards
  <2> QED
    BY <1>0, <1>1, <2>5
<1> QED
  BY <1>3, <1>4

\* In terms of the number of the wave.
LEMMA WhenIs ==
  ASSUME NEW tok, IsMove(tok), NEW f \in StepsIn(tok), NEW D, D = DepthBound, NEW x, x = When(tok,
         f)
  PROVE  /\ D \in Nat /\ x \in 1 .. 2 * D /\ f \in {1, 2}
         /\ x <= D => Outwards(tok, f)
         /\ x > D => Inwards(tok, f)
         /\ Outwards(tok, f) => x <= D
         /\ Inwards(tok, f) => x > D
<1>1. D \in Nat
  BY BoundIs
<1>2. Outwards(tok, f) => x \in 1 .. D
  BY DEF Outwards
<1>3. Inwards(tok, f) => x \in D + 1 .. 2 * D
  BY DEF Inwards
<1>4. Outwards(tok, f) \/ Inwards(tok, f)
  BY MoveIs
<1>5. f \in {1, 2}
  BY MoveIs
<1> HIDE DEF Outwards, Inwards
<1> QED
  BY <1>1, <1>2, <1>3, <1>4, <1>5

\* The wave of a depth: a step of every token that has one there.
WaveHas(tokens, v, i) ==
  /\ (\E m \in Nat : DOMAIN v = 1 .. m) /\ v \in Seq(Range(v))
  /\ \A s \in Range(v) : \E t \in DOMAIN tokens : \E f \in StepsIn(tokens[t]) :
       s = AStep(t, f) /\ When(tokens[t], f) = i
  /\ \A t \in DOMAIN tokens : \A f \in StepsIn(tokens[t]) : When(tokens[t], f) = i => AStep(t, f) \in Range(v)
  /\ \A j, k \in DOMAIN v : v[j].token = v[k].token => j = k

\* The wave that detaches at a depth has the steps of that depth, each once.
LEMMA DetachWaveHas ==
  ASSUME NEW tokens, Moving(tokens), NEW i \in 1 .. DepthBound
  PROVE  WaveHas(tokens, DetachWave(tokens, DepthBound + 1 - i), i)
<1> DEFINE d == DepthBound + 1 - i
           S == {t \in DOMAIN tokens : /\ ~ IsPrivate(tokens[t].locs[1].path)
                                       /\ Len(tokens[t].locs[1].path) = d}
<1> PICK ts : ts = Listing(S)
  OBVIOUS
<1> PICK v : v = [k \in DOMAIN ts |-> [token |-> ts[k], from |-> 1]]
  OBVIOUS
<1>1. DetachWave(tokens, d) = v
  BY DEF DetachWave
<1>2. IsFiniteSet(S)
  <2>1. PICK n \in Nat : DOMAIN tokens = 1 .. n
    BY DEF Moving
  <2>2. IsFiniteSet(1 .. n) /\ S \in SUBSET (1 .. n)
    BY <2>1, FS_Interval
  <2> QED
    BY <2>2, FS_Subset
<1>3. Lists(ts, S)
  BY <1>2, ListingIs
<1>4. \A t : t \in S <=> t \in DOMAIN tokens /\ 1 \in StepsIn(tokens[t]) /\ When(tokens[t], 1) = i
  <2> SUFFICES ASSUME NEW t \in DOMAIN tokens
               PROVE  t \in S <=> 1 \in StepsIn(tokens[t]) /\ When(tokens[t], 1) = i
    OBVIOUS
  <2>1. IsMove(tokens[t])
    BY DEF Moving
  <2> PICK l : l = tokens[t].locs[1].path
    OBVIOUS
  <2>2. 1 \in StepsIn(tokens[t])
    BY <2>1 DEF IsMove, StepsIn
  <2> PICK D \in Nat : D = DepthBound
    BY BoundIs
  <2> PICK x : x = When(tokens[t], 1)
    OBVIOUS
  <2>3. /\ x \in 1 .. 2 * D
        /\ x <= D => ~ IsPrivate(l) /\ x = D + 1 - Len(l)
        /\ ~ (x > D /\ ~ IsPrivate(l))
    <3>1. ~ IsPrivate(l) => Len(l) \in 1 .. D
      BY <2>1 DEF IsMove
    <3>2. x \in 1 .. 2 * D /\ (x <= D => Outwards(tokens[t], 1)) /\ (x > D => Inwards(tokens[t], 1))
      BY <2>1, <2>2, WhenIs
    <3>3. Outwards(tokens[t], 1) => ~ IsPrivate(l) /\ x = D + 1 - Len(l)
      BY DEF Outwards
    <3>4. Inwards(tokens[t], 1) => IsPrivate(l)
      BY DEF Inwards
    <3> QED
      BY <3>2, <3>3, <3>4
  <2>4. ~ IsPrivate(l) => Len(l) \in 1 .. D
    BY <2>1 DEF IsMove
  <2>5. t \in S <=> ~ IsPrivate(l) /\ Len(l) = D + 1 - i
    OBVIOUS
  <2>6. i \in 1 .. D
    OBVIOUS
  <2> HIDE DEF S
  <2>7. CASE IsPrivate(l)
    BY <2>2, <2>3, <2>5, <2>6, <2>7
  <2>8. CASE ~ IsPrivate(l)
    <3> PICK k \in 1 .. D : k = Len(l)
      BY <2>4, <2>8
    <3>0. x <= D
      <4>1. x \in 1 .. 2 * D /\ ~ (x > D)
        BY <2>3, <2>8
      <4> QED
        BY <4>1
    <3>1. x = D + 1 - k
      BY <2>3, <3>0
    <3>2. t \in S <=> k = D + 1 - i
      BY <2>5, <2>8
    <3>3. (D + 1 - k = i) <=> (k = D + 1 - i)
      BY <2>6
    <3> QED
      BY <2>2, <3>1, <3>2, <3>3
  <2> QED
    BY <2>7, <2>8
<1> PICK m \in Nat : DOMAIN ts = 1 .. m /\ \A k \in 1 .. m : ts[k] \in S
  BY Zenon, <1>3, ListingSeq
<1> HIDE DEF S
<1>5. \A k \in 1 .. m : v[k] = AStep(ts[k], 1) /\ v[k].token = ts[k] /\ ts[k] \in S
  BY <1>3 DEF Lists, AStep
<1>6. DOMAIN v = 1 .. m /\ v \in Seq(Range(v))
  <2>1. \A k \in 1 .. m : v[k] \in Range(v)
    BY DEF Range
  <2> QED
    BY <2>1
<1>7. ASSUME NEW t \in DOMAIN tokens, NEW f \in StepsIn(tokens[t]), When(tokens[t], f) = i
      PROVE  AStep(t, f) \in Range(v)
  <2>1. f = 1
    <3> PICK D, x : D = DepthBound /\ x = When(tokens[t], f)
      OBVIOUS
    <3>1. D \in Nat /\ (x <= D => Outwards(tokens[t], f))
      BY WhenIs DEF Moving
    <3>2. i \in 1 .. D /\ x = i
      BY <1>7
    <3>3. x <= D
      BY <3>1, <3>2
    <3> QED
      BY <3>1, <3>3 DEF Outwards
  <2>2. t \in S
    BY <1>4, <1>7, <2>1
  <2>3. PICK k \in 1 .. m : ts[k] = t
    BY <1>3, <2>2 DEF Lists
  <2> QED
    BY <1>5, <1>6, <2>1, <2>3 DEF Range
<1>8. ASSUME NEW s \in Range(v)
      PROVE  \E t \in DOMAIN tokens : \E f \in StepsIn(tokens[t]) : s = AStep(t, f) /\ When(tokens[t], f) = i
  <2>1. PICK k \in 1 .. m : s = v[k]
    BY <1>6 DEF Range
  <2> QED
    BY <1>4, <1>5, <2>1
<1>9. \A j, k \in DOMAIN v : v[j].token = v[k].token => j = k
  BY <1>3, <1>5, <1>6 DEF Lists
<1> QED
  BY <1>1, <1>6, <1>7, <1>8, <1>9 DEF WaveHas

\* Adding the same to two numbers.
LEMMA AddSame ==
  ASSUME NEW D, D \in Nat, NEW k \in 1 .. D, NEW d \in 1 .. D
  PROVE  D + k = D + d <=> k = d
OBVIOUS

\* The wave that attaches at a depth has the steps of that depth, each once.
LEMMA AttachWaveHas ==
  ASSUME NEW tokens, Moving(tokens), NEW d \in 1 .. DepthBound
  PROVE  WaveHas(tokens, AttachWave(tokens, d), DepthBound + d)
<1> DEFINE S == {t \in DOMAIN tokens : /\ ~ IsPrivate(Last(tokens[t].locs).path)
                                       /\ Len(Last(tokens[t].locs).path) = d}
           at(t) == Len(tokens[t].locs) - 1
<1> PICK ts : ts = Listing(S)
  OBVIOUS
<1> PICK v : v = [k \in DOMAIN ts |-> [token |-> ts[k], from |-> Len(tokens[ts[k]].locs) - 1]]
  OBVIOUS
<1>1. AttachWave(tokens, d) = v
  BY DEF AttachWave
<1>2. IsFiniteSet(S)
  <2>1. PICK n \in Nat : DOMAIN tokens = 1 .. n
    BY DEF Moving
  <2>2. IsFiniteSet(1 .. n) /\ S \in SUBSET (1 .. n)
    BY <2>1, FS_Interval
  <2> QED
    BY <2>2, FS_Subset
<1>3. Lists(ts, S)
  BY <1>2, ListingIs
<1>4. ASSUME NEW t \in DOMAIN tokens
      PROVE  /\ at(t) \in StepsIn(tokens[t])
             /\ t \in S <=> When(tokens[t], at(t)) = DepthBound + d
             /\ \A f \in StepsIn(tokens[t]) : When(tokens[t], f) = DepthBound + d => f = at(t)
  <2>1. IsMove(tokens[t])
    BY DEF Moving
  <2>2. at(t) \in StepsIn(tokens[t]) /\ at(t) + 1 = Len(tokens[t].locs)
    BY <2>1 DEF IsMove, StepsIn
  <2>3. Last(tokens[t].locs) = tokens[t].locs[at(t) + 1]
    BY Zenon, <2>2 DEF Last
  <2> PICK a, l : a = at(t) /\ l = tokens[t].locs[at(t) + 1].path
    OBVIOUS
  <2> PICK D \in Nat : D = DepthBound
    BY BoundIs
  <2> PICK x : x = When(tokens[t], a)
    OBVIOUS
  <2>4. /\ x \in 1 .. 2 * D
        /\ x <= D => IsPrivate(l)
        /\ x > D => ~ IsPrivate(l) /\ x = D + Len(l)
    <3>1. /\ x \in 1 .. 2 * D /\ (x <= D => Outwards(tokens[t], a)) /\ (x > D => Inwards(tokens[t], a))
      BY <2>1, <2>2, WhenIs
    <3>2. Outwards(tokens[t], a) => IsPrivate(l)
      <4> SUFFICES ASSUME Outwards(tokens[t], a) PROVE IsPrivate(l)
        OBVIOUS
      <4>1. a = 1 /\ IsPrivate(tokens[t].locs[2].path)
        BY DEF Outwards
      <4>2. at(t) + 1 = 2
        BY <4>1
      <4> QED
        BY <4>1, <4>2
    <3>3. Inwards(tokens[t], a) => ~ IsPrivate(l) /\ x = D + Len(l)
      BY DEF Inwards
    <3> QED
      BY <3>1, <3>2, <3>3
  <2>5. ~ IsPrivate(l) => Len(l) \in 1 .. D
    BY <2>1, <2>2 DEF IsMove
  <2>6. t \in S <=> When(tokens[t], at(t)) = DepthBound + d
    <3>1. t \in S <=> ~ IsPrivate(l) /\ Len(l) = d
      BY <2>3
    <3> HIDE DEF S, at
    <3>2. d \in 1 .. D
      OBVIOUS
    <3>a. x = When(tokens[t], at(t))
      OBVIOUS
    <3>3. CASE IsPrivate(l)
      <4>1. x \in 1 .. 2 * D /\ ~ (x > D)
        BY <2>4, <3>3
      <4>2. x # D + d
        BY <3>2, <4>1
      <4> QED
        BY <3>1, <3>3, <3>a, <4>2
    <3>4. CASE ~ IsPrivate(l)
      <4> PICK k \in 1 .. D : k = Len(l)
        BY <2>5, <3>4
      <4>1. x = D + k
        BY <2>4, <3>4
      <4>2. t \in S <=> k = d
        BY <3>1, <3>4
      <4>3. (D + k = D + d) <=> (k = d)
        BY <3>2, AddSame
      <4> QED
        BY <3>a, <4>1, <4>2, <4>3
    <3> QED
      BY <3>3, <3>4
  <2>7. ASSUME NEW f \in StepsIn(tokens[t]), When(tokens[t], f) = DepthBound + d PROVE f = at(t)
    <3> PICK y : y = When(tokens[t], f)
      OBVIOUS
    <3>1. (y > D => Inwards(tokens[t], f)) /\ f \in {1, 2}
      BY <2>1, WhenIs
    <3>2. y > D
      BY <2>7
    <3>3. f + 1 = Len(tokens[t].locs)
      BY <3>1, <3>2 DEF Inwards
    <3> QED
      BY <3>1, <3>3
  <2> QED
    BY <2>2, <2>6, <2>7
<1> PICK m \in Nat : DOMAIN ts = 1 .. m /\ \A k \in 1 .. m : ts[k] \in S
  BY Zenon, <1>3, ListingSeq
<1>5. \A k \in 1 .. m : v[k] = AStep(ts[k], at(ts[k])) /\ v[k].token = ts[k] /\ ts[k] \in S /\ ts[k] \in DOMAIN tokens
  BY Zenon DEF AStep
<1>a. \A t \in S : t \in DOMAIN tokens
  BY Zenon
<1> HIDE DEF S, at
<1>6. DOMAIN v = 1 .. m /\ v \in Seq(Range(v))
  <2>1. \A k \in 1 .. m : v[k] \in Range(v)
    BY DEF Range
  <2> QED
    BY <2>1
<1>7. ASSUME NEW t \in DOMAIN tokens, NEW f \in StepsIn(tokens[t]), When(tokens[t], f) = DepthBound + d
      PROVE  AStep(t, f) \in Range(v)
  <2>1. f = at(t) /\ t \in S
    BY <1>4, <1>7
  <2>3. PICK k \in 1 .. m : ts[k] = t
    BY <1>3, <2>1 DEF Lists
  <2> QED
    BY <1>5, <1>6, <2>1, <2>3 DEF Range
<1>8. ASSUME NEW s \in Range(v)
      PROVE  \E t \in DOMAIN tokens : \E f \in StepsIn(tokens[t]) : s = AStep(t, f) /\ When(tokens[t], f) = DepthBound + d
  <2>1. PICK k \in 1 .. m : s = v[k]
    BY <1>6 DEF Range
  <2> QED
    BY <1>4, <1>5, <2>1
<1>9. \A j, k \in DOMAIN v : v[j].token = v[k].token => j = k
  BY <1>3, <1>5, <1>6 DEF Lists
<1> QED
  BY <1>1, <1>6, <1>7, <1>8, <1>9 DEF WaveHas

\* The waves of the plan of tokens, each with the depth it is of.
Timed(plan, time) ==
  /\ \E m \in Nat : /\ DOMAIN plan.waves = 1 .. m /\ DOMAIN time = 1 .. m
  /\ \A v \in DOMAIN time : time[v] \in 1 .. 2 * DepthBound
  /\ \A v, w \in DOMAIN time : v < w => time[v] < time[w]
  /\ \A w \in DOMAIN time : WaveHas(plan.tokens, plan.waves[w], time[w])
  /\ \A t \in DOMAIN plan.tokens : \A f \in StepsIn(plan.tokens[t]) :
       \E w \in DOMAIN time : time[w] = When(plan.tokens[t], f)

\* The waves of each depth, in the order they run, have the steps of their times.
LEMMA ByDepthHas ==
  ASSUME NEW tokens, Moving(tokens)
  PROVE  /\ WavesByDepth(tokens) \in Seq(Range(WavesByDepth(tokens)))
         /\ DOMAIN WavesByDepth(tokens) = 1 .. 2 * DepthBound
         /\ \A i \in 1 .. 2 * DepthBound : WaveHas(tokens, WavesByDepth(tokens)[i], i)
<1> PICK D \in Nat : D = DepthBound
  BY BoundIs
<1> PICK W : W = WavesByDepth(tokens)
  OBVIOUS
<1>1. W = [i \in 1 .. 2 * D |-> IF i <= D THEN DetachWave(tokens, D + 1 - i) ELSE AttachWave(tokens, i - D)]
  BY DEF WavesByDepth
<1>2. DOMAIN W = 1 .. 2 * D
  BY <1>1
<1>3. W \in Seq(Range(W))
  <2>1. \A i \in 1 .. 2 * D : W[i] \in Range(W)
    BY <1>2 DEF Range
  <2> QED
    BY <1>1, <2>1
<1>4. ASSUME NEW i \in 1 .. 2 * D PROVE WaveHas(tokens, W[i], i)
  <2>1. CASE i <= D
    <3>1. i \in 1 .. D
      BY <2>1
    <3>2. WaveHas(tokens, DetachWave(tokens, DepthBound + 1 - i), i)
      BY <3>1, DetachWaveHas
    <3> QED
      BY <1>1, <2>1, <3>2
  <2>2. CASE ~ (i <= D)
    <3>1. i - D \in 1 .. D /\ D + (i - D) = i
      BY <2>2
    <3>2. WaveHas(tokens, AttachWave(tokens, i - D), DepthBound + (i - D))
      BY <3>1, AttachWaveHas
    <3>3. W[i] = AttachWave(tokens, i - D)
      BY <1>1, <2>2
    <3> QED
      BY <3>1, <3>2, <3>3
  <2> QED
    BY <2>1, <2>2
<1> QED
  BY <1>2, <1>3, <1>4

\* The plan for tokens that move keeps them, and its waves have increasing times: that a wave is
\* left out when it is empty changes the number of a wave and no order.
LEMMA PlanIsTimed ==
  ASSUME NEW tokens, Moving(tokens)
  PROVE  PlanFor(tokens).tokens = tokens /\ \E time : Timed(PlanFor(tokens), time)
<1> PICK plan : plan = PlanFor(tokens)
  OBVIOUS
<1>1. plan.tokens = tokens /\ plan.waves = WavesFor(tokens)
  BY DEF PlanFor
<1> PICK W : W = WavesByDepth(tokens)
  OBVIOUS
<1> PICK S : S = Range(W)
  OBVIOUS
<1> PICK out : out = plan.waves
  OBVIOUS
<1>2. W \in Seq(S) /\ DOMAIN W = 1 .. 2 * DepthBound /\ \A i \in DOMAIN W : WaveHas(tokens, W[i], i)
  BY ByDepthHas
<1>3. out = Dropping!Fold(0, W)
  BY <1>1, WavesForIsFold
<1>4. Dropping!Fold(0, W) \in Seq(S) /\ \E pos : PlacesIn(Dropping!Fold(0, W), W, pos)
  BY <1>2, ThinIs
<1> PICK pos : PlacesIn(out, W, pos)
  BY <1>3, <1>4
<1>5. \E m \in Nat : DOMAIN out = 1 .. m /\ DOMAIN pos = 1 .. m
  <2>1. out \in Seq(S)
    BY <1>3, <1>4
  <2>2. DOMAIN out = 1 .. Len(out) /\ Len(out) \in Nat
    BY <2>1
  <2> QED
    BY <2>2 DEF PlacesIn
<1>6. /\ \A v \in DOMAIN pos : pos[v] \in 1 .. 2 * DepthBound /\ out[v] = W[pos[v]]
      /\ \A v, w \in DOMAIN pos : v < w => pos[v] < pos[w]
  BY <1>2 DEF PlacesIn
<1>7. \A w \in DOMAIN pos : WaveHas(tokens, out[w], pos[w])
  BY <1>2, <1>6
<1>8. ASSUME NEW t \in DOMAIN tokens, NEW f \in StepsIn(tokens[t])
      PROVE  \E w \in DOMAIN pos : pos[w] = When(tokens[t], f)
  <2> PICK i : i = When(tokens[t], f)
    OBVIOUS
  <2>1. i \in DOMAIN W
    BY <1>2, WhenIs DEF Moving
  <2>2. AStep(t, f) \in Range(W[i])
    BY <1>2, <2>1 DEF WaveHas
  <2>3. W[i] # <<>>
    BY <2>2 DEF Range
  <2>4. \E w \in DOMAIN out : pos[w] = i
    BY <2>1, <2>3 DEF PlacesIn
  <2> QED
    BY <2>4, <1>5
<1>9. Timed(plan, pos)
  BY <1>1, <1>5, <1>6, <1>7, <1>8 DEF Timed
<1> QED
  BY <1>1, <1>9

\* The one wave of a step.
LEMMA WavesOfIs ==
  ASSUME NEW plan, NEW time, Timed(plan, time), NEW t \in DOMAIN plan.tokens,
         NEW f \in StepsIn(plan.tokens[t])
  PROVE  \E w \in DOMAIN time : /\ time[w] = When(plan.tokens[t], f) /\ w \in DOMAIN plan.waves
                                /\ WavesOf(plan, t, f) = {w}
<1> PICK m \in Nat : DOMAIN plan.waves = 1 .. m /\ DOMAIN time = 1 .. m
  BY DEF Timed
<1> PICK w \in DOMAIN time : time[w] = When(plan.tokens[t], f)
  BY DEF Timed
<1>1. AStep(t, f) \in Range(plan.waves[w])
  BY DEF Timed, WaveHas
<1>2. w \in WavesOf(plan, t, f)
  BY <1>1 DEF WavesOf, Waves, StepsOf, AStep
<1>3. ASSUME NEW v \in WavesOf(plan, t, f) PROVE v = w
  <2>1. v \in DOMAIN time /\ AStep(t, f) \in Range(plan.waves[v])
    BY DEF WavesOf, Waves, StepsOf, AStep
  <2>2. WaveHas(plan.tokens, plan.waves[v], time[v])
    BY <2>1 DEF Timed
  <2>3. PICK t2 \in DOMAIN plan.tokens : \E f2 \in StepsIn(plan.tokens[t2]) :
          AStep(t, f) = AStep(t2, f2) /\ When(plan.tokens[t2], f2) = time[v]
    BY <2>1, <2>2 DEF WaveHas
  <2>4. time[v] = time[w]
    BY <2>3 DEF AStep
  <2>5. ~ (v < w) /\ ~ (w < v)
    <3>1. v < w => time[v] < time[w]
      BY <2>1 DEF Timed
    <3>2. w < v => time[w] < time[v]
      BY <2>1 DEF Timed
    <3>3. time[v] \in 1 .. 2 * DepthBound
      BY <2>1 DEF Timed
    <3>4. ~ (time[v] < time[v])
      BY <3>3, BoundIs
    <3> QED
      BY <2>4, <3>1, <3>2, <3>4
  <2> QED
    BY <2>1, <2>5
<1>4. WavesOf(plan, t, f) = {w}
  BY <1>2, <1>3
<1> QED
  BY <1>4

\* The order of waves is that of their times.
LEMMA TimeOrder ==
  ASSUME NEW plan, NEW time, Timed(plan, time), NEW v \in DOMAIN time, NEW w \in DOMAIN time
  PROVE  v < w <=> time[v] < time[w]
<1> PICK m \in Nat : DOMAIN plan.waves = 1 .. m /\ DOMAIN time = 1 .. m
  BY DEF Timed
<1>1. v < w => time[v] < time[w]
  BY DEF Timed
<1>2. w < v => time[w] < time[v]
  BY DEF Timed
<1>3. PICK x, y \in 1 .. 2 * DepthBound : x = time[v] /\ y = time[w]
  BY DEF Timed
<1>4. v = w => ~ (time[v] < time[w])
  BY <1>3, BoundIs
<1> QED
  BY <1>1, <1>2, <1>3, <1>4, BoundIs

\* The least of one number.
LEMMA MinOne ==
  ASSUME NEW w \in Nat
  PROVE  Min({w}) = w
BY DEF Min

\* The sizes of the smallest sets.
LEMMA UpToTwo == Cardinality({1}) = 1 /\ Cardinality({}) = 0 /\ Cardinality({1, 2}) = 2
<1>1. PICK S : S = {1}
  OBVIOUS
<1>2. PICK T : T = S \union {2}
  OBVIOUS
<1>3. Cardinality(S) = 1 /\ IsFiniteSet(S) /\ Cardinality({}) = 0
  BY <1>1, FS_Singleton, FS_EmptySet
<1>4. 2 \notin S /\ T = {1, 2}
  BY <1>1, <1>2
<1>5. Cardinality(T) = Cardinality(S) + 1
  BY <1>2, <1>3, <1>4, FS_AddElement
<1>6. Cardinality(T) = 2
  BY <1>3, <1>5
<1> QED
  BY Zenon, <1>1, <1>3, <1>4, <1>6

\* Where a token is before a wave: past the locations it has left in earlier waves.
LEMMA PosIs ==
  ASSUME NEW plan, NEW time, Timed(plan, time), Moving(plan.tokens),
         NEW t \in DOMAIN plan.tokens, NEW w \in DOMAIN time
  PROVE  /\ PosBefore(plan, t, w) \in DOMAIN plan.tokens[t].locs
         /\ \A f \in StepsIn(plan.tokens[t]) :
              f < PosBefore(plan, t, w) <=> When(plan.tokens[t], f) < time[w]
<1> PICK tok : tok = plan.tokens[t]
  OBVIOUS
<1>0. IsMove(tok)
  BY DEF Moving
<1> PICK n \in {2, 3} : n = Len(tok.locs) /\ DOMAIN tok.locs = 1 .. n /\ StepsIn(tok) = 1 .. n - 1
  BY <1>0 DEF IsMove, StepsIn
<1> PICK P : P = {f \in 1 .. n - 1 : Min(WavesOf(plan, t, f)) < w}
  OBVIOUS
<1>1. PosBefore(plan, t, w) = 1 + Cardinality(P)
  BY DEF PosBefore
<1>2. ASSUME NEW f \in 1 .. n - 1 PROVE f \in P <=> When(tok, f) < time[w]
  <2>0. f \in StepsIn(plan.tokens[t])
    OBVIOUS
  <2>1. PICK v \in DOMAIN time : time[v] = When(tok, f) /\ WavesOf(plan, t, f) = {v} /\ v \in DOMAIN plan.waves
    BY <2>0, WavesOfIs
  <2>2. v \in Nat
    BY <2>1 DEF Timed
  <2>3. Min(WavesOf(plan, t, f)) = v
    BY <2>1, <2>2, MinOne
  <2>4. v < w <=> time[v] < time[w]
    BY TimeOrder
  <2> QED
    BY <2>1, <2>3, <2>4
<1> PICK D, x, y : D = DepthBound /\ x = time[w] /\ y = When(tok, 1)
  OBVIOUS
<1>3. x \in 1 .. 2 * D /\ D \in Nat
  BY BoundIs DEF Timed
<1>4. CASE n = 2
  <2>1. P = {1} \/ P = {}
    BY <1>4
  <2>2. Cardinality({1}) = 1 /\ Cardinality({}) = 0
    BY FS_Singleton, FS_EmptySet
  <2>3. 1 \in 1 .. n - 1 /\ \A f \in 1 .. n - 1 : f = 1
    BY <1>4
  <2>4. CASE P = {1}
    <3>1. PosBefore(plan, t, w) = 2
      <4>1. Cardinality(P) = 1
        BY <2>2, <2>4
      <4> QED
        BY <1>1, <4>1
    <3>2. 1 \in P /\ When(tok, 1) < time[w]
      BY <1>2, <2>3, <2>4
    <3> QED
      BY <1>4, <2>3, <3>1, <3>2
  <2>5. CASE P = {}
    <3>1. PosBefore(plan, t, w) = 1
      <4>1. Cardinality(P) = 0
        BY <2>2, <2>5
      <4> QED
        BY <1>1, <4>1
    <3>2. ~ (When(tok, 1) < time[w])
      BY <1>2, <2>3, <2>5
    <3> QED
      BY <1>4, <2>3, <3>1, <3>2
  <2> QED
    BY <2>1, <2>4, <2>5
<1>5. CASE n = 3
  <2>1. 1 .. n - 1 = {1, 2}
    BY <1>5
  <2> PICK z : z = When(tok, 2)
    OBVIOUS
  <2>2. y < z /\ y \in Int /\ z \in Int
    <3>1. 1 \in StepsIn(tok) /\ 2 \in StepsIn(tok)
      BY <2>1
    <3>2. ~ IsPrivate(tok.locs[1].path)
      BY <1>0, <1>5 DEF IsMove
    <3>3. ~ Inwards(tok, 1)
      BY <3>2 DEF Inwards
    <3>4. ~ Outwards(tok, 2)
      BY DEF Outwards
    <3>5. y \in 1 .. 2 * D /\ (y > D => Inwards(tok, 1))
      BY <1>0, <3>1, WhenIs
    <3>6. z \in 1 .. 2 * D /\ (z <= D => Outwards(tok, 2))
      BY <1>0, <3>1, WhenIs
    <3> HIDE DEF Outwards, Inwards
    <3> QED
      BY <1>3, <3>3, <3>4, <3>5, <3>6
  <2>3. P \subseteq {1, 2} /\ (1 \in P <=> y < x) /\ (2 \in P <=> z < x)
    BY <1>2, <2>1
  <2>4. z < x => y < x
    BY <1>3, <2>2
  <2>5. Cardinality({1}) = 1 /\ Cardinality({}) = 0 /\ Cardinality({1, 2}) = 2
    BY UpToTwo
  <2>6. CASE P = {1, 2}
    <3>1. PosBefore(plan, t, w) = 3
      <4>1. Cardinality(P) = 2
        BY <2>5, <2>6
      <4> QED
        BY <1>1, <4>1
    <3> QED
      BY <1>5, <2>1, <2>3, <2>6, <3>1
  <2>7. CASE P = {1}
    <3>1. PosBefore(plan, t, w) = 2
      <4>1. Cardinality(P) = 1
        BY <2>5, <2>7
      <4> QED
        BY <1>1, <4>1
    <3>2. ~ (2 \in P) /\ 1 \in P
      BY <2>7
    <3> QED
      BY <1>5, <2>1, <2>3, <3>1, <3>2
  <2>8. CASE P = {}
    <3>1. PosBefore(plan, t, w) = 1
      <4>1. Cardinality(P) = 0
        BY <2>5, <2>8
      <4> QED
        BY <1>1, <4>1
    <3> QED
      BY <1>5, <2>1, <2>3, <2>8, <3>1
  <2>9. P = {1, 2} \/ P = {1} \/ P = {}
    BY <2>3, <2>4
  <2> QED
    BY <2>6, <2>7, <2>8, <2>9
<1> QED
  BY <1>4, <1>5

\* Two tokens are never at one path, but that one may leave the path that another ends at.
Apart(tokens) ==
  \A t, u \in DOMAIN tokens : t # u =>
    \A i \in DOMAIN tokens[t].locs, j \in DOMAIN tokens[u].locs :
      tokens[t].locs[i].path = tokens[u].locs[j].path =>
        ~ IsPrivate(tokens[t].locs[i].path) /\ ~ (i = 1 <=> j = 1)

\* A token that is the parent of a location is where the location expects it, at the same end of
\* its way; no token is the parent of what is in .fstx.
EndOf(tok, i) == tok.locs[IF i = 1 THEN 1 ELSE Len(tok.locs)]
ParentsAgree(loc, i, u) ==
  /\ IsPrivate(loc.path) =>
       /\ ~ (u.kind = "dir" /\ u.id = loc.parent)
       /\ \A j \in DOMAIN u.locs : u.locs[j].path # Parent(loc.path)
  /\ ~ IsPrivate(loc.path) =>
       /\ u.kind = "dir" /\ u.id = loc.parent => EndOf(u, i).path = Parent(loc.path)
       /\ EndOf(u, i).path = Parent(loc.path) => u.id = loc.parent
Rooted(tokens) ==
  \A t, u \in DOMAIN tokens : \A i \in DOMAIN tokens[t].locs :
    ParentsAgree(tokens[t].locs[i], i, tokens[u])
Sane(tokens) == Moving(tokens) /\ Apart(tokens) /\ Rooted(tokens)

\* Paths that overlap are both in .fstx or both outside; of the same length they are the same.
LEMMA OverlapIs ==
  ASSUME NEW p \in Path, NEW q \in Path, p # <<>>, q # <<>>, Overlaps(p, q)
  PROVE  (IsPrivate(p) <=> IsPrivate(q)) /\ (Len(p) = Len(q) => p = q)
<1>1. ASSUME NEW x \in Path, NEW y \in Path, x # <<>>, y # <<>>, AtOrBelow(x, y)
      PROVE  (IsPrivate(x) <=> IsPrivate(y)) /\ (Len(x) = Len(y) => x = y)
  <2>1. PICK s \in Path : y = Join(x, s)
    BY <1>1, BelowJoin
  <2>2. UserPath(y) <=> UserPath(x)
    BY <1>1, <2>1, UserBelow
  <2>3. IsPrivate(x) <=> IsPrivate(y)
    BY <1>1, <2>2 DEF UserPath, Root
  <2>4. ASSUME Len(x) = Len(y) PROVE x = y
    <3>1. Len(y) = Len(x) + Len(s) /\ Len(x) \in Nat /\ Len(s) \in Nat
      BY <2>1, JoinFacts, PathFacts
    <3>2. Len(s) = 0
      BY <2>4, <3>1
    <3>3. s = <<>>
      BY <3>2, PathFacts
    <3> QED
      BY <2>1, <3>3, JoinFacts
  <2> QED
    BY <2>3, <2>4
<1>2. AtOrBelow(p, q) \/ AtOrBelow(q, p)
  BY BelowIs, BelowOrder DEF Overlaps
<1> QED
  BY <1>1, <1>2

\* The parent of a path outside .fstx.
LEMMA ParentOutside ==
  ASSUME NEW p \in Path, p # <<>>, ~ IsPrivate(p)
  PROVE  Parent(p) \in Path /\ ~ IsPrivate(Parent(p)) /\ Len(p) = Len(Parent(p)) + 1
         /\ (Parent(p) = <<>> \/ UserPath(Parent(p)))
<1> PICK q \in Path, c \in Name : p = Down(q, c)
  BY DownFrom
<1>1. Parent(p) = q
  BY DownParent
<1>2. ~ IsPrivate(q)
  BY PrivateNext DEF IsPrivate, Root
<1>3. Len(p) = Len(q) + 1
  BY PathFacts
<1> QED
  BY <1>1, <1>2, <1>3 DEF UserPath, Root

\* What the locations of a token are like.
LEMMA LocIs ==
  ASSUME NEW tokens, Moving(tokens), NEW t \in DOMAIN tokens, NEW i \in DOMAIN tokens[t].locs,
         NEW p, p = tokens[t].locs[i].path
  PROVE  /\ p \in Path /\ p # <<>> /\ Len(p) \in Nat
         /\ IsPrivate(p) => Len(p) = 4
         /\ ~ IsPrivate(p) => Len(p) \in 1 .. DepthBound /\ (i = 1 \/ i = Len(tokens[t].locs))
         /\ i \in {1, 2, 3} /\ Len(tokens[t].locs) \in DOMAIN tokens[t].locs
         /\ Len(tokens[t].locs) \in {2, 3}
<1> PICK tok : tok = tokens[t]
  OBVIOUS
<1>1. IsMove(tok)
  BY DEF Moving
<1> PICK n \in {2, 3} : n = Len(tok.locs) /\ DOMAIN tok.locs = 1 .. n
  BY <1>1 DEF IsMove
<1>2. i \in 1 .. n /\ n \in 1 .. n
  OBVIOUS
<1>a. p = tok.locs[i].path
  OBVIOUS
<1>3. /\ p \in Path /\ p # <<>>
      /\ IsPrivate(p) => Len(p) = 4
      /\ ~ IsPrivate(p) => Len(p) \in 1 .. DepthBound
  BY <1>1, <1>2, <1>a DEF IsMove
<1>4. Len(p) \in Nat
  BY <1>3, PathFacts
<1>5. ASSUME ~ IsPrivate(p) PROVE i = 1 \/ i = n
  <2>1. CASE n = 2
    BY <1>2, <2>1
  <2>2. CASE n = 3
    <3>1. ~ IsPrivate(tok.locs[1].path)
      BY <1>1, <2>2 DEF IsMove
    <3>2. IsPrivate(tok.locs[2].path)
      BY <1>1, <3>1 DEF IsMove
    <3>3. i # 2
      BY <1>5, <3>2
    <3> QED
      BY <1>2, <2>2, <3>3
  <2> QED
    BY <2>1, <2>2
<1>6. i \in {1, 2, 3}
  BY <1>2
<1> QED
  BY <1>2, <1>3, <1>4, <1>5, <1>6

\* A path that a token can be at.
GoodPath(p) ==
  /\ p \in Path /\ p # <<>> /\ (IsPrivate(p) => Len(p) = 4)
  /\ ~ IsPrivate(p) => Len(p) \in 1 .. DepthBound

\* Every location of a token is at a path that a token can be at.
LEMMA LocsGood ==
  ASSUME NEW tokens, Moving(tokens)
  PROVE  \A t \in DOMAIN tokens : \A i \in DOMAIN tokens[t].locs : GoodPath(tokens[t].locs[i].path)
BY LocIs DEF GoodPath

\* A step of a wave.
LEMMA StepIs ==
  ASSUME NEW plan, NEW time, Timed(plan, time), Moving(plan.tokens), NEW w \in DOMAIN time,
         NEW s \in StepsOf(plan, w)
  PROVE  /\ s.token \in DOMAIN plan.tokens /\ s.from \in StepsIn(plan.tokens[s.token])
         /\ When(plan.tokens[s.token], s.from) = time[w]
         /\ s.from \in DOMAIN plan.tokens[s.token].locs /\ s.from + 1 \in DOMAIN plan.tokens[s.token].locs
         /\ s.from \in {1, 2}
         /\ \/ Outwards(plan.tokens[s.token], s.from) /\ time[w] <= DepthBound
            \/ Inwards(plan.tokens[s.token], s.from) /\ time[w] > DepthBound
<1>1. s \in Range(plan.waves[w]) /\ WaveHas(plan.tokens, plan.waves[w], time[w])
  BY DEF StepsOf, Timed
<1>2. PICK t \in DOMAIN plan.tokens : \E f \in StepsIn(plan.tokens[t]) :
        s = AStep(t, f) /\ When(plan.tokens[t], f) = time[w]
  BY <1>1 DEF WaveHas
<1>3. PICK f \in StepsIn(plan.tokens[t]) : s = AStep(t, f) /\ When(plan.tokens[t], f) = time[w]
  BY <1>2
<1>4. s.token = t /\ s.from = f
  BY <1>3 DEF AStep
<1>5. IsMove(plan.tokens[t])
  BY DEF Moving
<1>6. f \in {1, 2} /\ f + 1 \in DOMAIN plan.tokens[t].locs /\ f \in DOMAIN plan.tokens[t].locs
      /\ (Outwards(plan.tokens[t], f) \/ Inwards(plan.tokens[t], f))
  BY <1>5, MoveIs
<1> PICK D, x : D = DepthBound /\ x = time[w]
  OBVIOUS
<1>7. (Outwards(plan.tokens[t], f) => x <= D) /\ (Inwards(plan.tokens[t], f) => x > D)
  BY <1>3, <1>5, WhenIs
<1> QED
  BY <1>3, <1>4, <1>6, <1>7

\* The waves are complete, each step is in one, and those of a token are in order.
LEMMA StepsOnce ==
  ASSUME NEW plan, NEW time, Timed(plan, time), Moving(plan.tokens)
  PROVE  EveryStepOnce(plan) /\ InIncreasingWaves(plan)
<1>0. DOMAIN plan.waves = DOMAIN time
  BY DEF Timed
<1>1. ASSUME NEW w \in Waves(plan), NEW s \in StepsOf(plan, w)
      PROVE  s.token \in Tokens(plan) /\ s.from + 1 <= Len(plan.tokens[s.token].locs)
  <2>1. s.token \in DOMAIN plan.tokens /\ s.from + 1 \in DOMAIN plan.tokens[s.token].locs /\ s.from \in {1, 2}
    BY <1>0, StepIs DEF Waves
  <2> PICK n \in {2, 3} : n = Len(plan.tokens[s.token].locs) /\ DOMAIN plan.tokens[s.token].locs = 1 .. n
    BY <2>1 DEF Moving, IsMove
  <2>2. s.from + 1 <= n
    BY <2>1
  <2> QED
    BY <2>1, <2>2 DEF Tokens
<1>2. ASSUME NEW t \in Tokens(plan), NEW f \in 1 .. Len(plan.tokens[t].locs) - 1
      PROVE  Cardinality(WavesOf(plan, t, f)) = 1
  <2>1. \E w : WavesOf(plan, t, f) = {w}
    BY WavesOfIs DEF Tokens, StepsIn
  <2> QED
    BY <2>1, FS_Singleton
<1>3. ASSUME NEW t \in Tokens(plan), NEW f \in 1 .. Len(plan.tokens[t].locs) - 2
      PROVE  Min(WavesOf(plan, t, f)) < Min(WavesOf(plan, t, f + 1))
  <2> PICK tok : tok = plan.tokens[t]
    OBVIOUS
  <2>1. IsMove(tok) /\ t \in DOMAIN plan.tokens
    BY DEF Moving, Tokens
  <2> PICK n \in {2, 3} : n = Len(tok.locs)
    BY <2>1 DEF IsMove
  <2>2. n = 3 /\ f = 1
    <3>1. CASE n = 2
      BY <3>1
    <3>2. CASE n = 3
      BY <3>2
    <3> QED
      BY <3>1, <3>2
  <2>3. 1 \in StepsIn(tok) /\ 2 \in StepsIn(tok)
    BY <2>2 DEF StepsIn
  <2>4. PICK v \in DOMAIN time : time[v] = When(tok, 1) /\ v \in DOMAIN plan.waves /\ WavesOf(plan, t, 1) = {v}
    BY <2>1, <2>3, WavesOfIs
  <2>5. PICK w \in DOMAIN time : time[w] = When(tok, 2) /\ w \in DOMAIN plan.waves /\ WavesOf(plan, t, 2) = {w}
    BY <2>1, <2>3, WavesOfIs
  <2>6. v \in Nat /\ w \in Nat
    BY DEF Timed
  <2> PICK D, x, y : D = DepthBound /\ x = time[v] /\ y = time[w]
    OBVIOUS
  <2>7. D \in Nat /\ x \in 1 .. 2 * D /\ (x > D => Inwards(tok, 1))
    BY <2>1, <2>3, <2>4, WhenIs
  <2>8. y \in 1 .. 2 * D /\ (y <= D => Outwards(tok, 2))
    BY <2>1, <2>3, <2>5, WhenIs
  <2>9. ~ Inwards(tok, 1) /\ ~ Outwards(tok, 2)
    BY <2>1, <2>2 DEF Inwards, Outwards, IsMove
  <2>10. x < y
    BY <2>7, <2>8, <2>9
  <2>11. v < w
    BY <2>10, TimeOrder
  <2>12. Min({v}) = v /\ Min({w}) = w
    BY <2>6, MinOne
  <2>13. f + 1 = 2
    BY <2>2
  <2> QED
    BY <2>2, <2>4, <2>5, <2>11, <2>12, <2>13
<1>4. EveryStepOnce(plan)
  BY <1>1, <1>2 DEF EveryStepOnce
<1> QED
  BY <1>3, <1>4 DEF InIncreasingWaves

\* The ends of the steps of a wave are paths of one depth, or in .fstx.
LEMMA NoOverlap ==
  ASSUME NEW plan, NEW time, Timed(plan, time), Sane(plan.tokens)
  PROVE  WavesDoNotOverlap(plan)
<1>0. DOMAIN plan.waves = DOMAIN time /\ Moving(plan.tokens) /\ Apart(plan.tokens)
  BY DEF Timed, Sane
<1> SUFFICES ASSUME NEW w \in DOMAIN time, NEW i \in DOMAIN plan.waves[w], NEW j \in DOMAIN plan.waves[w], i < j,
                    NEW p \in {Src(plan, plan.waves[w][i]).path, Dst(plan, plan.waves[w][i]).path},
                    NEW q \in {Src(plan, plan.waves[w][j]).path, Dst(plan, plan.waves[w][j]).path},
                    Overlaps(p, q)
             PROVE  FALSE
  BY <1>0 DEF WavesDoNotOverlap, Waves
<1> PICK a, b : a = plan.waves[w][i] /\ b = plan.waves[w][j]
  OBVIOUS
<1>1. a \in StepsOf(plan, w) /\ b \in StepsOf(plan, w)
  BY DEF StepsOf, Range
<1>2. a.token # b.token
  <2>1. i # j
    <3>1. i \in Nat
      BY DEF Timed, WaveHas
    <3> QED
      BY <3>1
  <2> QED
    BY <2>1 DEF Timed, WaveHas
<1> PICK t, u, f, g, D : t = a.token /\ u = b.token /\ f = a.from /\ g = b.from /\ D = DepthBound
  OBVIOUS
<1> PICK T, U : T = plan.tokens[t] /\ U = plan.tokens[u]
  OBVIOUS
<1> PICK x : x = time[w]
  OBVIOUS
<1>3. /\ t \in DOMAIN plan.tokens /\ f \in DOMAIN T.locs /\ f + 1 \in DOMAIN T.locs /\ f \in {1, 2}
      /\ When(T, f) = x
      /\ (Outwards(T, f) /\ x <= D) \/ (Inwards(T, f) /\ x > D)
  BY <1>0, <1>1, StepIs
<1>4. /\ u \in DOMAIN plan.tokens /\ g \in DOMAIN U.locs /\ g + 1 \in DOMAIN U.locs /\ g \in {1, 2}
      /\ When(U, g) = x
      /\ (Outwards(U, g) /\ x <= D) \/ (Inwards(U, g) /\ x > D)
  BY <1>0, <1>1, StepIs
<1>5. x \in 1 .. 2 * D /\ D \in Nat
  BY BoundIs DEF Timed
<1>6. PICK k \in {f, f + 1} : p = T.locs[k].path /\ k \in DOMAIN T.locs
  BY Zenon, <1>3 DEF Src, Dst
<1>7. PICK l \in {g, g + 1} : q = U.locs[l].path /\ l \in DOMAIN U.locs
  BY Zenon, <1>4 DEF Src, Dst
<1>a. p \in Path /\ p # <<>> /\ (IsPrivate(p) => Len(p) = 4) /\ (~ IsPrivate(p) => Len(p) \in 1 .. D)
  <2>1. k \in DOMAIN plan.tokens[t].locs /\ p = plan.tokens[t].locs[k].path
    BY Zenon, <1>6
  <2>2. Moving(plan.tokens) /\ t \in DOMAIN plan.tokens
    BY <1>0, <1>3
  <2>3. \A i2 \in DOMAIN plan.tokens[t].locs : GoodPath(plan.tokens[t].locs[i2].path)
    BY <2>2, LocsGood
  <2>4. GoodPath(p)
    BY Zenon, <2>1, <2>3
  <2> QED
    BY <2>4 DEF GoodPath
<1>b. q \in Path /\ q # <<>> /\ (IsPrivate(q) => Len(q) = 4) /\ (~ IsPrivate(q) => Len(q) \in 1 .. D)
  <2>1. l \in DOMAIN plan.tokens[u].locs /\ q = plan.tokens[u].locs[l].path
    BY Zenon, <1>7
  <2>2. Moving(plan.tokens) /\ u \in DOMAIN plan.tokens
    BY <1>0, <1>4
  <2>3. \A i2 \in DOMAIN plan.tokens[u].locs : GoodPath(plan.tokens[u].locs[i2].path)
    BY <2>2, LocsGood
  <2>4. GoodPath(q)
    BY Zenon, <2>1, <2>3
  <2> QED
    BY <2>4 DEF GoodPath
<1>8. /\ p \in Path /\ p # <<>> /\ q \in Path /\ q # <<>>
      /\ (IsPrivate(p) => Len(p) = 4) /\ (IsPrivate(q) => Len(q) = 4)
      /\ (~ IsPrivate(p) => Len(p) \in 1 .. D) /\ (~ IsPrivate(q) => Len(q) \in 1 .. D)
  BY <1>a, <1>b
<1>9. (IsPrivate(p) <=> IsPrivate(q)) /\ (Len(p) = Len(q) => p = q)
  BY <1>8, OverlapIs
<1>10. p = q => ~ IsPrivate(p) /\ ~ (k = 1 <=> l = 1)
  <2>1. k \in DOMAIN plan.tokens[t].locs /\ p = plan.tokens[t].locs[k].path
    BY <1>6
  <2>2. l \in DOMAIN plan.tokens[u].locs /\ q = plan.tokens[u].locs[l].path
    BY <1>7
  <2>3. t \in DOMAIN plan.tokens /\ u \in DOMAIN plan.tokens /\ t # u
    BY <1>2, <1>3, <1>4
  <2>4. \A i2 \in DOMAIN plan.tokens[t].locs, j2 \in DOMAIN plan.tokens[u].locs :
          plan.tokens[t].locs[i2].path = plan.tokens[u].locs[j2].path =>
            ~ IsPrivate(plan.tokens[t].locs[i2].path) /\ ~ (i2 = 1 <=> j2 = 1)
    BY Zenon, <1>0, <2>3 DEF Apart
  <2> QED
    BY Zenon, <2>1, <2>2, <2>4
<1>11. CASE IsPrivate(p)
  BY <1>8, <1>9, <1>10, <1>11
<1>12. CASE ~ IsPrivate(p)
  <2>1. CASE Outwards(T, f) /\ x <= D
    <3>1. Outwards(U, g)
      <4>1. ~ (x > D)
        BY <1>5, <2>1
      <4> QED
        BY <1>4, <4>1
    <3>2. k = 1 /\ D + 1 - Len(p) = x
      <4>1. f = 1 /\ IsPrivate(T.locs[2].path) /\ x = D + 1 - Len(T.locs[1].path)
        BY Zenon, <1>3, <2>1 DEF Outwards
      <4>2. k # 2
        BY Zenon, <1>6, <1>12, <4>1
      <4>3. k = 1
        <5>1. 1 + 1 = 2
          OBVIOUS
        <5> QED
          BY <1>6, <4>1, <4>2, <5>1, Zenon
      <4> QED
        BY Zenon, <1>6, <4>1, <4>3
    <3>3. l = 1 /\ D + 1 - Len(q) = x
      <4>1. g = 1 /\ IsPrivate(U.locs[2].path) /\ x = D + 1 - Len(U.locs[1].path)
        BY Zenon, <1>4, <3>1 DEF Outwards
      <4>2. l # 2
        BY Zenon, <1>7, <1>9, <1>12, <4>1
      <4>3. l = 1
        <5>1. 1 + 1 = 2
          OBVIOUS
        <5> QED
          BY <1>7, <4>1, <4>2, <5>1, Zenon
      <4> QED
        BY Zenon, <1>7, <4>1, <4>3
    <3>4. PICK m, n \in 1 .. D : m = Len(p) /\ n = Len(q)
      BY <1>8, <1>9, <1>12
    <3>5. m = n
      BY <1>5, <3>2, <3>3, <3>4
    <3> QED
      BY <1>9, <1>10, <3>2, <3>3, <3>4, <3>5
  <2>2. CASE Inwards(T, f) /\ x > D
    <3>1. Inwards(U, g)
      <4>1. ~ (x <= D)
        BY <1>5, <2>2
      <4> QED
        BY <1>4, <4>1
    <3>2. k = f + 1 /\ D + Len(p) = x
      <4>1. IsPrivate(T.locs[f].path) /\ x = D + Len(T.locs[f + 1].path)
        BY Zenon, <1>3, <2>2 DEF Inwards
      <4>2. k # f
        BY Zenon, <1>6, <1>12, <4>1
      <4> QED
        BY Zenon, <1>6, <4>1, <4>2
    <3>3. l = g + 1 /\ D + Len(q) = x
      <4>1. IsPrivate(U.locs[g].path) /\ x = D + Len(U.locs[g + 1].path)
        BY Zenon, <1>4, <3>1 DEF Inwards
      <4>2. l # g
        BY Zenon, <1>7, <1>9, <1>12, <4>1
      <4> QED
        BY Zenon, <1>7, <4>1, <4>2
    <3>4. PICK m, n \in 1 .. D : m = Len(p) /\ n = Len(q)
      BY <1>8, <1>9, <1>12
    <3>5. m = n
      BY <1>5, <3>2, <3>3, <3>4
    <3>6. k # 1 /\ l # 1
      BY <1>3, <1>4, <3>2, <3>3
    <3> QED
      BY <1>9, <1>10, <3>4, <3>5, <3>6
  <2> QED
    BY <1>3, <2>1, <2>2
<1> QED
  BY <1>11, <1>12

\* Every token ends at a path of its own.
LEMMA FinalsApart ==
  ASSUME NEW plan, Sane(plan.tokens)
  PROVE  DistinctFinals(plan)
<1> SUFFICES ASSUME NEW t \in DOMAIN plan.tokens, NEW u \in DOMAIN plan.tokens, t # u,
                    Last(plan.tokens[t].locs).path = Last(plan.tokens[u].locs).path
             PROVE  FALSE
  BY DEF DistinctFinals, Tokens
<1> PICK T, U : T = plan.tokens[t] /\ U = plan.tokens[u]
  OBVIOUS
<1>1. IsMove(T) /\ IsMove(U)
  BY DEF Sane, Moving
<1> PICK m \in {2, 3} : m = Len(T.locs) /\ m \in DOMAIN T.locs
  BY <1>1 DEF IsMove
<1> PICK n \in {2, 3} : n = Len(U.locs) /\ n \in DOMAIN U.locs
  BY <1>1 DEF IsMove
<1>2. T.locs[m].path = U.locs[n].path
  BY DEF Last
<1>3. \A i \in DOMAIN T.locs, j \in DOMAIN U.locs :
        T.locs[i].path = U.locs[j].path => ~ (i = 1 <=> j = 1)
  BY DEF Sane, Apart
<1>4. ~ (m = 1 <=> n = 1)
  BY <1>2, <1>3
<1>5. m # 1 /\ n # 1
  OBVIOUS
<1> QED
  BY <1>4, <1>5

\* Whether a token is at its first location, or at its last one, before a wave.
StandsAt(tok, k, x) ==
  /\ k \in DOMAIN tok.locs
  /\ ~ IsPrivate(tok.locs[1].path) => (k = 1 <=> x <= DepthBound + 1 - Len(tok.locs[1].path))
  /\ ~ IsPrivate(tok.locs[Len(tok.locs)].path) =>
       (k = Len(tok.locs) <=> DepthBound + Len(tok.locs[Len(tok.locs)].path) < x)

\* Two or three locations: the first, and the last one.
LEMMA TwoOrThree ==
  ASSUME NEW n \in {2, 3}
  PROVE  /\ 1 \in 1 .. n - 1 /\ n - 1 \in 1 .. n - 1 /\ (n - 1) + 1 = n /\ n - 1 \in Nat /\ n \in Nat
         /\ n \in 1 .. n /\ 1 \in 1 .. n /\ n # 1
<1>1. CASE n = 2
  BY <1>1
<1>2. CASE n = 3
  BY <1>2
<1> QED
  BY <1>1, <1>2

\* Not after the first location is at the first location.
LEMMA Earlier ==
  ASSUME NEW D, D \in Nat, NEW l \in 1 .. D, NEW x, x \in Int, NEW k, k \in Int, k >= 1,
         1 < k <=> D + 1 - l < x
  PROVE  k = 1 <=> x <= D + 1 - l
OBVIOUS

\* Where a token stands before a wave, from the time of the wave alone.
LEMMA StandsIs ==
  ASSUME NEW plan, NEW time, Timed(plan, time), Moving(plan.tokens),
         NEW t \in DOMAIN plan.tokens, NEW w \in DOMAIN time
  PROVE  StandsAt(plan.tokens[t], PosBefore(plan, t, w), time[w])
<1> PICK tok : tok = plan.tokens[t]
  OBVIOUS
<1>1. IsMove(tok)
  BY DEF Moving
<1> PICK n \in {2, 3} : n = Len(tok.locs) /\ DOMAIN tok.locs = 1 .. n
  BY <1>1 DEF IsMove
<1> PICK k : k = PosBefore(plan, t, w)
  OBVIOUS
<1> PICK x, D : x = time[w] /\ D = DepthBound
  OBVIOUS
<1>2. x \in 1 .. 2 * D /\ D \in Nat
  BY BoundIs DEF Timed
<1>3. k \in 1 .. n /\ \A f \in StepsIn(tok) : f < k <=> When(tok, f) < x
  BY PosIs
<1>4. 1 \in StepsIn(tok) /\ n - 1 \in StepsIn(tok) /\ (n - 1) + 1 = n
  BY TwoOrThree DEF StepsIn
<1>5. ASSUME ~ IsPrivate(tok.locs[1].path) PROVE k = 1 <=> x <= D + 1 - Len(tok.locs[1].path)
  <2>1. When(tok, 1) = D + 1 - Len(tok.locs[1].path)
    BY <1>5 DEF When
  <2>2. Len(tok.locs[1].path) \in 1 .. D
    BY <1>1, <1>5 DEF IsMove
  <2> PICK l \in 1 .. D : l = Len(tok.locs[1].path)
    BY <2>2
  <2>3. 1 < k <=> D + 1 - l < x
    BY <1>3, <1>4, <2>1
  <2>4. k \in Int /\ k >= 1
    BY <1>3
  <2>5. x \in Int /\ D \in Nat
    BY <1>2
  <2>6. k = 1 <=> x <= D + 1 - l
    BY <2>3, <2>4, <2>5, Earlier
  <2> QED
    BY <2>6
<1>6. ASSUME ~ IsPrivate(tok.locs[n].path) PROVE k = n <=> D + Len(tok.locs[n].path) < x
  <2>0. n \in 1 .. n
    BY TwoOrThree
  <2>1. When(tok, n - 1) = D + Len(tok.locs[n].path)
    <3>1. ~ Outwards(tok, n - 1)
      <4>1. n - 1 = 1 => n = 2
        OBVIOUS
      <4> QED
        BY <1>6, <4>1 DEF Outwards
    <3>2. Inwards(tok, n - 1)
      BY <1>1, <1>4, <3>1, MoveIs
    <3> QED
      BY <1>4, <3>2 DEF Inwards
  <2>2. Len(tok.locs[n].path) \in 1 .. D
    BY <1>1, <1>6, <2>0 DEF IsMove
  <2> PICK l \in 1 .. D : l = Len(tok.locs[n].path)
    BY <2>2
  <2>3. n - 1 < k <=> D + l < x
    BY <1>3, <1>4, <2>1
  <2>4. n - 1 < k <=> k = n
    BY <1>3
  <2> QED
    BY <2>3, <2>4
<1>7. /\ k \in DOMAIN tok.locs
      /\ ~ IsPrivate(tok.locs[1].path) => (k = 1 <=> x <= D + 1 - Len(tok.locs[1].path))
      /\ ~ IsPrivate(tok.locs[n].path) => (k = n <=> D + Len(tok.locs[n].path) < x)
  BY <1>3, <1>5, <1>6
<1>8. StandsAt(tok, k, x)
  BY <1>7 DEF StandsAt
<1> QED
  BY <1>8

\* The token of a step is at its source.
LEMMA SourceHolds ==
  ASSUME NEW plan, NEW time, Timed(plan, time), Moving(plan.tokens),
         NEW w \in DOMAIN time, NEW s \in StepsOf(plan, w)
  PROVE  PosBefore(plan, s.token, w) = s.from
<1> PICK t, f : t = s.token /\ f = s.from
  OBVIOUS
<1> PICK tok : tok = plan.tokens[t]
  OBVIOUS
<1>1. t \in DOMAIN plan.tokens /\ f \in StepsIn(tok) /\ When(tok, f) = time[w]
  BY StepIs
<1>2. IsMove(tok)
  BY <1>1 DEF Moving
<1> PICK n \in {2, 3} : n = Len(tok.locs) /\ DOMAIN tok.locs = 1 .. n /\ StepsIn(tok) = 1 .. n - 1
  BY <1>2 DEF IsMove, StepsIn
<1> PICK k : k = PosBefore(plan, t, w)
  OBVIOUS
<1> PICK x, D : x = time[w] /\ D = DepthBound
  OBVIOUS
<1>3. k \in 1 .. n /\ \A g \in StepsIn(tok) : g < k <=> When(tok, g) < x
  BY <1>1, PosIs
<1>4. x \in 1 .. 2 * D /\ D \in Nat
  BY BoundIs DEF Timed
<1>5. ~ (f < k)
  <2>1. f < k <=> x < x
    BY <1>1, <1>3
  <2>2. ~ (x < x)
    BY <1>4
  <2> QED
    BY <2>1, <2>2
<1>6. (f = 1 \/ (f = 2 /\ n = 3)) /\ f \in Nat
  BY <1>1, OneOrTwo
<1>7. CASE f = 1
  BY <1>3, <1>5, <1>7
<1>8. CASE f = 2 /\ n = 3
  <2>1. 1 \in StepsIn(tok) /\ 2 \in StepsIn(tok)
    BY <1>8
  <2>2. Outwards(tok, 1) /\ Inwards(tok, 2)
    <3>1. ~ Inwards(tok, 1) /\ ~ Outwards(tok, 2)
      BY Zenon, <1>2, <1>8 DEF Inwards, Outwards, IsMove
    <3> QED
      BY <1>2, <2>1, <3>1, MoveIs
  <2> PICK y : y = When(tok, 1)
    OBVIOUS
  <2>3. y \in 1 .. 2 * D /\ y <= D
    BY <1>2, <2>1, <2>2, WhenIs
  <2>4. x > D
    BY <1>1, <1>2, <1>8, <2>1, <2>2, WhenIs
  <2>5. y < x
    BY <1>4, <2>3, <2>4
  <2>6. 1 < k
    BY <1>3, <2>1, <2>5
  <2>7. k = 2
    BY <1>3, <1>5, <1>8, <2>6
  <2> QED
    BY <1>8, <2>7
<1> QED
  BY <1>6, <1>7, <1>8

\* A path outside .fstx has a length between 1 and the bound.
LEMMA GoodLength ==
  ASSUME NEW p, GoodPath(p), ~ IsPrivate(p), NEW D, D = DepthBound
  PROVE  D \in Nat /\ \E n \in 1 .. D : n = Len(p)
BY BoundIs DEF GoodPath

\* Its destination is free.
LEMMA DestinationFree ==
  ASSUME NEW plan, NEW time, Timed(plan, time), Sane(plan.tokens),
         NEW w \in DOMAIN time, NEW s \in StepsOf(plan, w), NEW u \in DOMAIN plan.tokens
  PROVE  PathBefore(plan, u, w) # Dst(plan, s).path
<1> SUFFICES ASSUME PathBefore(plan, u, w) = Dst(plan, s).path PROVE FALSE
  OBVIOUS
<1>0. Moving(plan.tokens) /\ Apart(plan.tokens)
  BY DEF Sane
<1> PICK t, f : t = s.token /\ f = s.from
  OBVIOUS
<1> PICK T, U, k, x, D : T = plan.tokens[t] /\ U = plan.tokens[u] /\ k = PosBefore(plan, u, w)
                          /\ x = time[w] /\ D = DepthBound
  OBVIOUS
<1> PICK p : p = T.locs[f + 1].path
  OBVIOUS
<1>1. /\ t \in DOMAIN plan.tokens /\ f \in StepsIn(T) /\ f \in DOMAIN T.locs /\ f + 1 \in DOMAIN T.locs /\ f \in {1, 2}
      /\ (Outwards(T, f) /\ x <= D) \/ (Inwards(T, f) /\ x > D)
  BY <1>0, StepIs
<1>2. U.locs[k].path = p
  BY DEF PathBefore, Dst
<1>3. StandsAt(U, k, x)
  BY <1>0, StandsIs
<1>4. CASE u = t
  <2>1. k = f
    BY <1>0, <1>4, SourceHolds
  <2>2. (IsPrivate(T.locs[f].path) /\ ~ IsPrivate(p)) \/ (~ IsPrivate(T.locs[f].path) /\ IsPrivate(p))
    <3>1. CASE Outwards(T, f)
      <4>1. f = 1 /\ ~ IsPrivate(T.locs[1].path) /\ IsPrivate(T.locs[2].path)
        BY <3>1 DEF Outwards
      <4>2. 1 + 1 = 2
        OBVIOUS
      <4> QED
        BY <4>1, <4>2, Zenon
    <3>2. CASE Inwards(T, f)
      BY Zenon, <3>2 DEF Inwards
    <3> QED
      BY <1>1, <3>1, <3>2
  <2> QED
    BY <1>2, <1>4, <2>1, <2>2
<1>5. CASE u # t
  <2>1. k \in DOMAIN U.locs
    BY <1>3 DEF StandsAt
  <2>2. \A i \in DOMAIN T.locs, j \in DOMAIN U.locs :
          T.locs[i].path = U.locs[j].path => ~ IsPrivate(T.locs[i].path) /\ ~ (i = 1 <=> j = 1)
    BY <1>0, <1>1, <1>5 DEF Apart
  <2>3. ~ IsPrivate(p) /\ ~ (f + 1 = 1 <=> k = 1)
    BY <1>1, <1>2, <2>1, <2>2
  <2>4. k = 1
    BY <1>1, <2>3
  <2>5. ~ IsPrivate(U.locs[1].path) /\ U.locs[1].path = p
    BY <1>2, <2>3, <2>4
  <2>6. x <= D + 1 - Len(p)
    BY <1>3, <2>4, <2>5 DEF StandsAt
  <2>7. x > D
    <3>1. ~ Outwards(T, f)
      <4>1. 1 + 1 = 2
        OBVIOUS
      <4> QED
        BY <2>3, <4>1, Zenon DEF Outwards
    <3> QED
      BY <1>1, <3>1
  <2>8. GoodPath(p)
    BY <1>0, <1>1, LocsGood
  <2>9. D \in Nat /\ \E n \in 1 .. D : n = Len(p)
    BY Zenon, <2>3, <2>8, GoodLength
  <2>10. PICK n \in 1 .. D : n = Len(p)
    BY <2>9
  <2>11. x \in Int
    BY DEF Timed
  <2>12. x <= D + 1 - n
    BY <2>6, <2>10
  <2>13. n \in Int /\ n >= 1 /\ D \in Int
    BY <2>9
  <2> QED
    BY <2>7, <2>11, <2>12, <2>13
<1> QED
  BY <1>4, <1>5

\* A path and its parent, both outside .fstx.
LEMMA ParentLength ==
  ASSUME NEW p, GoodPath(p), ~ IsPrivate(p), NEW q, q = Parent(p), q # <<>>, NEW D, D = DepthBound
  PROVE  ~ IsPrivate(q) /\ D \in Nat /\ \E n \in 1 .. D - 1 : Len(q) = n /\ Len(p) = n + 1
<1>1. D \in Nat /\ \E n \in 1 .. D : n = Len(p)
  BY GoodLength
<1>2. p \in Path /\ p # <<>>
  BY DEF GoodPath
<1>3. q \in Path /\ ~ IsPrivate(q) /\ Len(p) = Len(q) + 1
  BY <1>2, ParentOutside
<1>4. Len(q) \in Nat /\ Len(q) # 0
  BY <1>3, PathFacts
<1>5. Len(q) \in 1 .. D - 1
  BY <1>1, <1>3, <1>4
<1> QED
  BY <1>1, <1>3, <1>5

\* A token that is the parent of a location is there, and what is there is the parent.
LEMMA ParentsHold ==
  ASSUME NEW plan, NEW time, Timed(plan, time), Sane(plan.tokens),
         NEW w \in DOMAIN time, NEW s \in StepsOf(plan, w), NEW u \in DOMAIN plan.tokens,
         NEW i \in {s.from, s.from + 1}, NEW loc, loc = plan.tokens[s.token].locs[i]
  PROVE  /\ plan.tokens[u].kind = "dir" /\ plan.tokens[u].id = loc.parent
              => PathBefore(plan, u, w) = Parent(loc.path)
         /\ PathBefore(plan, u, w) = Parent(loc.path) => plan.tokens[u].id = loc.parent
<1>0. Moving(plan.tokens) /\ Rooted(plan.tokens)
  BY DEF Sane
<1> PICK t, f : t = s.token /\ f = s.from
  OBVIOUS
<1> PICK T, U, k, x, D : T = plan.tokens[t] /\ U = plan.tokens[u] /\ k = PosBefore(plan, u, w)
                          /\ x = time[w] /\ D = DepthBound
  OBVIOUS
<1> PICK p, q : p = loc.path /\ q = Parent(p)
  OBVIOUS
<1>1. /\ t \in DOMAIN plan.tokens /\ f \in StepsIn(T) /\ f \in DOMAIN T.locs /\ f + 1 \in DOMAIN T.locs /\ f \in {1, 2}
      /\ (Outwards(T, f) /\ x <= D) \/ (Inwards(T, f) /\ x > D)
  BY <1>0, StepIs
<1>2. PathBefore(plan, u, w) = U.locs[k].path
  BY DEF PathBefore
<1>3. StandsAt(U, k, x) /\ k \in DOMAIN U.locs
  BY <1>0, StandsIs DEF StandsAt
<1>4. i \in DOMAIN T.locs /\ p = T.locs[i].path
  BY <1>1
<1>5. ParentsAgree(loc, i, U)
  BY <1>0, <1>1, <1>4 DEF Rooted
<1>6. GoodPath(p)
  BY <1>0, <1>1, <1>4, LocsGood
<1>7. \A j \in DOMAIN U.locs : GoodPath(U.locs[j].path)
  BY <1>0, LocsGood
<1> PICK n \in {2, 3} : n = Len(U.locs) /\ DOMAIN U.locs = 1 .. n
  BY <1>0 DEF Moving, IsMove
<1>8. x \in Int
  BY DEF Timed
<1>9. CASE IsPrivate(p)
  BY Zenon, <1>2, <1>3, <1>5, <1>9 DEF ParentsAgree
<1>10. CASE ~ IsPrivate(p)
  <2>1. /\ U.kind = "dir" /\ U.id = loc.parent => EndOf(U, i).path = q
        /\ EndOf(U, i).path = q => U.id = loc.parent
    BY <1>5, <1>10 DEF ParentsAgree
  <2>2. U.locs[k].path = q => k = 1 \/ k = n
    <3> SUFFICES ASSUME U.locs[k].path = q PROVE k = 1 \/ k = n
      OBVIOUS
    <3>1. q # <<>>
      BY Zenon, <1>3, <1>7 DEF GoodPath
    <3>2. ~ IsPrivate(q)
      BY <1>6, <1>10, <3>1, ParentLength
    <3> QED
      BY <1>0, <1>3, <3>2, LocIs
  <2>3. 1 \in DOMAIN U.locs /\ n \in DOMAIN U.locs /\ n # 1
    BY TwoOrThree
  <2>4. CASE Outwards(T, f) /\ x <= D
    <3>1. i = 1 /\ x = D + 1 - Len(p)
      <4>0. When(T, f) = x
        BY <1>0, StepIs
      <4>1. f = 1 /\ IsPrivate(T.locs[2].path) /\ x = D + 1 - Len(T.locs[1].path)
        BY <2>4, <4>0 DEF Outwards
      <4>2. i # 2
        BY <1>4, <1>10, <4>1
      <4>3. i = 1
        <5>1. 1 + 1 = 2
          OBVIOUS
        <5> QED
          BY <4>1, <4>2, <5>1, Zenon
      <4> QED
        BY <1>4, <4>1, <4>3
    <3>2. EndOf(U, i) = U.locs[1]
      BY <3>1 DEF EndOf
    <3>3. ASSUME U.locs[1].path = q PROVE k = 1
      <4>1. q # <<>>
        BY <1>7, <2>3, <3>3 DEF GoodPath
      <4>2. ~ IsPrivate(q) /\ D \in Nat /\ \E m \in 1 .. D - 1 : Len(q) = m /\ Len(p) = m + 1
        BY Zenon, <1>6, <1>10, <4>1, ParentLength
      <4>3. PICK m \in 1 .. D - 1 : Len(q) = m /\ Len(p) = m + 1
        BY <4>2
      <4>4. x <= D + 1 - m
        BY <3>1, <4>2, <4>3
      <4> QED
        BY <1>3, <3>3, <4>2, <4>3, <4>4 DEF StandsAt
    <3>4. ASSUME U.locs[k].path = q PROVE k = 1
      <4>1. q # <<>>
        BY <1>3, <1>7, <3>4 DEF GoodPath
      <4>2. ~ IsPrivate(q) /\ D \in Nat /\ \E m \in 1 .. D - 1 : Len(q) = m /\ Len(p) = m + 1
        BY <1>6, <1>10, <4>1, ParentLength
      <4>3. PICK m \in 1 .. D - 1 : Len(q) = m /\ Len(p) = m + 1
        BY <4>2
      <4>4. k = n => D + m < x
        BY <1>3, <3>4, <4>2, <4>3 DEF StandsAt
      <4>5. ~ (D + m < x)
        BY <1>8, <2>4, <4>2, <4>3
      <4> QED
        BY <2>2, <3>4, <4>4, <4>5
    <3> QED
      BY <1>2, <2>1, <3>2, <3>3, <3>4
  <2>5. CASE Inwards(T, f) /\ x > D
    <3>1. i # 1 /\ x = D + Len(p)
      <4>0. When(T, f) = x
        BY <1>0, StepIs
      <4>1. IsPrivate(T.locs[f].path) /\ x = D + Len(T.locs[f + 1].path)
        BY Zenon, <2>5, <4>0 DEF Inwards
      <4>2. i # f
        BY Zenon, <1>4, <1>10, <4>1
      <4>3. i = f + 1
        BY <4>2
      <4>4. i # 1
        BY <1>1, <4>3
      <4> QED
        BY Zenon, <1>4, <4>1, <4>3, <4>4
    <3>2. EndOf(U, i) = U.locs[n]
      BY <3>1 DEF EndOf
    <3>3. ASSUME U.locs[n].path = q PROVE k = n
      <4>1. q # <<>>
        BY <1>7, <2>3, <3>3 DEF GoodPath
      <4>2. ~ IsPrivate(q) /\ D \in Nat /\ \E m \in 1 .. D - 1 : Len(q) = m /\ Len(p) = m + 1
        BY <1>6, <1>10, <4>1, ParentLength
      <4>3. PICK m \in 1 .. D - 1 : Len(q) = m /\ Len(p) = m + 1
        BY <4>2
      <4>4. D + m < x
        BY <3>1, <4>2, <4>3
      <4> QED
        BY <1>3, <3>3, <4>2, <4>3, <4>4 DEF StandsAt
    <3>4. ASSUME U.locs[k].path = q PROVE k = n
      <4>1. q # <<>>
        BY <1>3, <1>7, <3>4 DEF GoodPath
      <4>2. ~ IsPrivate(q) /\ D \in Nat /\ \E m \in 1 .. D - 1 : Len(q) = m /\ Len(p) = m + 1
        BY <1>6, <1>10, <4>1, ParentLength
      <4>3. PICK m \in 1 .. D - 1 : Len(q) = m /\ Len(p) = m + 1
        BY <4>2
      <4>4. k = 1 => x <= D + 1 - m
        BY <1>3, <3>4, <4>2, <4>3 DEF StandsAt
      <4>5. ~ (x <= D + 1 - m)
        BY <1>8, <2>5, <4>2, <4>3
      <4> QED
        BY <2>2, <3>4, <4>4, <4>5
    <3> QED
      BY <1>2, <2>1, <3>2, <3>3, <3>4
  <2> QED
    BY <1>1, <2>4, <2>5
<1> QED
  BY <1>9, <1>10

\* A plan of sane tokens passes validate().
LEMMA SanePlanIsValid ==
  ASSUME NEW tokens, Sane(tokens)
  PROVE  Validate(PlanFor(tokens))
<1> PICK plan : plan = PlanFor(tokens)
  OBVIOUS
<1>1. plan.tokens = tokens /\ Moving(tokens)
  BY DEF PlanFor, Sane
<1>2. PICK time : Timed(plan, time)
  BY <1>1, PlanIsTimed
<1>3. Sane(plan.tokens) /\ Moving(plan.tokens) /\ DOMAIN plan.waves = DOMAIN time
  BY <1>1, <1>2 DEF Timed
<1>4. EveryStepOnce(plan) /\ InIncreasingWaves(plan) /\ WavesDoNotOverlap(plan) /\ DistinctFinals(plan)
  BY <1>2, <1>3, StepsOnce, NoOverlap, FinalsApart
<1>5. ASSUME NEW w \in Waves(plan), NEW s \in StepsOf(plan, w)
      PROVE  /\ PosBefore(plan, s.token, w) = s.from
             /\ \A t \in Tokens(plan) : PathBefore(plan, t, w) # Dst(plan, s).path
             /\ \A loc \in {Src(plan, s), Dst(plan, s)}, t \in Tokens(plan) :
                  /\ (plan.tokens[t].kind = "dir" /\ plan.tokens[t].id = loc.parent)
                       => PathBefore(plan, t, w) = Parent(loc.path)
                  /\ PathBefore(plan, t, w) = Parent(loc.path) => plan.tokens[t].id = loc.parent
  <2>0. w \in DOMAIN time
    BY <1>3 DEF Waves
  <2>1. PosBefore(plan, s.token, w) = s.from
    BY <1>2, <1>3, <2>0, SourceHolds
  <2>2. \A t \in Tokens(plan) : PathBefore(plan, t, w) # Dst(plan, s).path
    BY <1>2, <1>3, <2>0, DestinationFree DEF Tokens
  <2>3. ASSUME NEW loc \in {Src(plan, s), Dst(plan, s)}, NEW t \in Tokens(plan)
        PROVE  /\ (plan.tokens[t].kind = "dir" /\ plan.tokens[t].id = loc.parent)
                    => PathBefore(plan, t, w) = Parent(loc.path)
               /\ PathBefore(plan, t, w) = Parent(loc.path) => plan.tokens[t].id = loc.parent
    <3>1. PICK i \in {s.from, s.from + 1} : loc = plan.tokens[s.token].locs[i]
      BY DEF Src, Dst
    <3>2. t \in DOMAIN plan.tokens
      BY DEF Tokens
    <3> QED
      BY <1>2, <1>3, <2>0, <3>1, <3>2, ParentsHold
  <2> QED
    BY <2>1, <2>2, <2>3
<1>6. ExecutesSymbolically(plan)
  BY <1>5 DEF ExecutesSymbolically
<1> QED
  BY <1>4, <1>6 DEF Validate
-----------------------------------------------------------------------------
(* What is shown, as a tree of DirectTree. *)

\* An entry as a node of a tree.
Node(f, e) ==
  [kind |-> e.kind, ino |-> IF e.from = "base" THEN e.id ELSE NoIno, text |-> ReadText(f, e)]

\* The paths at which something is shown.
Shown(f, o) == {p \in Path : p # <<>> /\ Resolve(f, o, p) # NoEntry}

\* What is shown of f through o, as a tree.
Tree(f, o) == [p \in Shown(f, o) |-> Node(f, Resolve(f, o, p))]

\* The paths that list() leads to are those at which something is shown.
LEMMA ViewPathsAre ==
  ASSUME NEW f, NEW o, Sound(f, o)
  PROVE  ViewPaths(f, o) = {p \in Path : Len(p) \in 1 .. DepthBound /\ Resolve(f, o, p) # NoEntry}
<1> PICK x : x = <<f, o>>
  OBVIOUS
<1>0. x[1] = f /\ x[2] = o
  OBVIOUS
<1>1. ViewPaths(f, o) = Looking!Fold(x, UpTo(DepthBound)).all
  BY <1>0 DEF ViewPaths, ViewDeeper, ViewTop, UpTo, Looking!Fold, FoldLeft, MapThenFoldSet,
     Looking!MapThenFoldSet, Max, Looking!Largest
<1>2. DepthBound \in Nat
  BY DEF DepthBound
<1>3. Looking!Fold(x, UpTo(DepthBound)).all = UNION {ShownAt(f, o, m) : m \in 1 .. DepthBound}
  BY <1>2, ShowsAll DEF ShowsLevels
<1> QED
  BY <1>1, <1>3 DEF ShownAt

\* The numbers below the bound.
LEMMA InBound ==
  ASSUME NEW n \in Nat, n < DepthBound
  PROVE  n \in 1 .. DepthBound <=> n # 0
BY DEF DepthBound

\* If nothing is shown at the bound up to which paths are looked for, nothing is out of sight.
LEMMA ViewIsTree ==
  ASSUME NEW f, NEW o, Sound(f, o), Fits(View(f, o))
  PROVE  View(f, o) = Tree(f, o)
<1>1. ASSUME NEW p \in Path, Len(p) \in 1 .. DepthBound, Resolve(f, o, p) # NoEntry
      PROVE  Len(p) < DepthBound
  <2>1. p \in ViewPaths(f, o)
    BY <1>1, ViewPathsAre
  <2>2. DOMAIN View(f, o) = ViewPaths(f, o)
    BY DEF View
  <2> QED
    BY <2>1, <2>2 DEF Fits
<1> DEFINE G(p) == Resolve(f, o, p) # NoEntry => Len(p) < DepthBound
           T == {p \in Path : G(p)}
<1>2. G(<<>>)
  <2>1. Len(<<>>) = 0
    BY EmptySeq
  <2> QED
    BY <2>1 DEF DepthBound
<1>3. ASSUME NEW p \in Path, G(p), NEW c \in Name PROVE G(Down(p, c))
  <2> SUFFICES ASSUME Resolve(f, o, Down(p, c)) # NoEntry PROVE Len(Down(p, c)) < DepthBound
    OBVIOUS
  <2>1. NoEntry.kind # "dir"
    BY BaseIs
  <2>2. Resolve(f, o, p) # NoEntry
    BY <2>1, InADirectory
  <2>3. Len(p) \in Nat /\ Len(p) < DepthBound
    BY <1>3, <2>2, PathFacts
  <2>4. Len(Down(p, c)) = Len(p) + 1 /\ Down(p, c) \in Path
    BY PathFacts
  <2>5. Len(Down(p, c)) \in 1 .. DepthBound
    BY <2>3, <2>4 DEF DepthBound
  <2> QED
    BY <1>1, <2>4, <2>5
<1> HIDE DEF G
<1>4. T = Path
  <2>1. T \in SUBSET Path
    OBVIOUS
  <2>2. <<>> \in T /\ \A x \in T : \A c \in Name : Down(x, c) \in T
    BY <1>2, <1>3, PathFacts
  <2> HIDE DEF T
  <2> QED
    BY <2>1, <2>2, PathInduction
<1>5. ASSUME NEW p \in Path, Resolve(f, o, p) # NoEntry
      PROVE  p # <<>> <=> Len(p) \in 1 .. DepthBound
  <2>1. Len(p) < DepthBound
    BY <1>4, <1>5 DEF G
  <2>2. Len(p) \in Nat /\ (p # <<>> => Len(p) # 0) /\ (p = <<>> => Len(p) = 0)
    BY PathFacts, EmptySeq
  <2>3. Len(p) \in 1 .. DepthBound <=> Len(p) # 0
    BY <2>1, <2>2, InBound
  <2> QED
    BY <2>2, <2>3
<1>6. ViewPaths(f, o) = Shown(f, o)
  BY <1>5, ViewPathsAre DEF Shown
<1> QED
  BY <1>6 DEF View, Tree, Node

-----------------------------------------------------------------------------
(* What is accepted. *)

\* A path of the tree.
LEMMA TreeIs ==
  ASSUME NEW f, NEW o, Sound(f, o), NEW p \in Path, p # <<>>
  PROVE  /\ p \in DOMAIN Tree(f, o) <=> Resolve(f, o, p) # NoEntry
         /\ Resolve(f, o, p) # NoEntry <=> Resolve(f, o, p).kind \in {"file", "dir"}
         /\ Resolve(f, o, p).kind \in {"none", "file", "dir"}
         /\ p \in DOMAIN Tree(f, o) => Tree(f, o)[p] = Node(f, Resolve(f, o, p))
         /\ p \in DOMAIN Tree(f, o) => Tree(f, o)[p].kind = Resolve(f, o, p).kind
<1>1. IsEntry(Resolve(f, o, p)) /\ NoEntry.kind = "none"
  BY ShownIs, BaseIs
<1>2. \A e : Node(f, e).kind = e.kind
  BY DEF Node
<1> QED
  BY <1>1, <1>2 DEF Tree, Shown, IsEntry

\* The directories of the tree.
LEMMA TreeDirs ==
  ASSUME NEW f, NEW o, Sound(f, o), NEW p \in Path
  PROVE  Direct!HasDir(Tree(f, o), p) <=> Resolve(f, o, p).kind = "dir"
<1>1. CASE p = <<>>
  <2>1. TopEntry.kind = "dir"
    BY DEF TopEntry, Base, NoEntry, Root
  <2>2. Resolve(f, o, p).kind = "dir"
    BY <1>1, <2>1, ResolveRoot
  <2> QED
    BY <1>1, <2>2 DEF Direct!HasDir, Root, Direct!Root
<1>2. CASE p # <<>>
  <2>1. /\ p \in DOMAIN Tree(f, o) <=> Resolve(f, o, p) # NoEntry
        /\ p \in DOMAIN Tree(f, o) => Tree(f, o)[p].kind = Resolve(f, o, p).kind
        /\ NoEntry.kind # "dir"
    BY <1>2, TreeIs, BaseIs
  <2> QED
    BY <1>2, <2>1 DEF Direct!HasDir, Root, Direct!Root
<1> QED
  BY <1>1, <1>2

\* What list() shows nothing in is empty.
LEMMA EmptyIs ==
  ASSUME NEW f, NEW o, Sound(f, o), NEW p \in Path, p # <<>>, Resolve(f, o, p).kind = "dir"
  PROVE  List(f, o, p) = {} <=> Direct!Below(Tree(f, o), p) = {}
<1>1. ASSUME List(f, o, p) = {}, NEW k \in Path, IsAncestorOf(p, k) PROVE Resolve(f, o, k) = NoEntry
  <2> DEFINE G(x) == AtOrBelow(p, x) /\ x # p => Resolve(f, o, x) = NoEntry
             T == {x \in Path : G(x)}
  <2>1. G(<<>>)
    BY RootIsFirst
  <2>2. ASSUME NEW x \in Path, G(x), NEW c \in Name PROVE G(Down(x, c))
    <3> PICK y \in Path : y = Down(x, c)
      BY DownPath
    <3> SUFFICES ASSUME AtOrBelow(p, y), y # p PROVE Resolve(f, o, y) = NoEntry
      OBVIOUS
    <3>1. AtOrBelow(p, x)
      BY BelowNext
    <3>2. CASE x = p
      BY <1>1, <3>2, ListIs
    <3>3. CASE x # p
      <4>1. Resolve(f, o, x) = NoEntry /\ NoEntry.kind # "dir"
        BY <2>2, <3>1, <3>3, BaseIs
      <4> QED
        BY <4>1, InADirectory
    <3> QED
      BY <3>2, <3>3
  <2> HIDE DEF G
  <2>3. T = Path
    <3>1. T \in SUBSET Path
      OBVIOUS
    <3>2. <<>> \in T /\ \A x \in T : \A c \in Name : Down(x, c) \in T
      BY <2>1, <2>2, PathFacts
    <3> HIDE DEF T
    <3> QED
      BY <3>1, <3>2, PathInduction
  <2>4. G(k)
    BY <2>3
  <2> QED
    BY <1>1, <2>4, BelowIs DEF G
<1>2. ASSUME NEW c \in List(f, o, p)
      PROVE  \E k \in Path : k # <<>> /\ IsAncestorOf(p, k) /\ Resolve(f, o, k) # NoEntry
  <2>1. c \in Name /\ Resolve(f, o, Down(p, c)) # NoEntry
    BY ListIs
  <2>2. Down(p, c) \in Path /\ Down(p, c) # <<>>
    BY <2>1, DownPath
  <2>3. IsAncestorOf(p, Down(p, c))
    BY <2>1, <2>2, NextBelow
  <2> QED
    BY <2>1, <2>2, <2>3
<1>3. \A q, k : Direct!IsAncestorOf(q, k) <=> IsAncestorOf(q, k)
  BY DEF Direct!IsAncestorOf, IsAncestorOf, Direct!IsStrictPrefix, IsStrictPrefix, Direct!IsPrefix,
     IsPrefix
<1>4. \A k : k \in Direct!Below(Tree(f, o), p) <=>
               k \in Path /\ k # <<>> /\ Resolve(f, o, k) # NoEntry /\ IsAncestorOf(p, k)
  BY <1>3 DEF Direct!Below, Tree, Shown
<1> QED
  BY <1>1, <1>2, <1>4

\* The first components of a path.
LEMMA PrefixPath ==
  ASSUME NEW p \in Path, NEW n \in 1 .. Len(p)
  PROVE  SubSeq(p, 1, n) \in Path /\ SubSeq(p, 1, n) # <<>>
<1>1. Len(p) \in Nat
  BY PathFacts
<1>2. \A i \in 1 .. n : p[i] \in Name
  <2>1. \A i \in 1 .. n : i \in 1 .. Len(p)
    BY <1>1
  <2> QED
    BY <2>1, ElementOfSeq DEF Path
<1>3. SubSeq(p, 1, n) \in Path /\ Len(SubSeq(p, 1, n)) = n
  <2>1. 1 \in Int /\ n \in Int
    BY <1>1
  <2>2. SubSeq(p, 1, n) \in Path
    BY <1>2, <2>1, SubSeqProperties DEF Path
  <2>3. Len(SubSeq(p, 1, n)) = IF 1 <= n THEN (n - 1) + 1 ELSE 0
    BY <1>2, <2>1, SubSeqProperties DEF Path
  <2> QED
    BY <2>2, <2>3
<1> QED
  BY <1>3, EmptySeq

\* The tree and the overlay mean the same by a parent ...
LEMMA SameParent ==
  ASSUME NEW p
  PROVE  Direct!Parent(p) = Parent(p)
BY DEF Direct!Parent, Parent, Direct!Root, Root, Direct!Front, Front

\* ... and by an ancestor.
LEMMA SameAncestor ==
  ASSUME NEW p, NEW q
  PROVE  Direct!IsAncestorOf(p, q) <=> IsAncestorOf(p, q)
BY DEF Direct!IsAncestorOf, IsAncestorOf, Direct!IsStrictPrefix, IsStrictPrefix, Direct!IsPrefix,
   IsPrefix

\* A path of the user, and the directory it is in.
LEMMA UserIs ==
  ASSUME NEW p \in Path, UserPath(p)
  PROVE  p # <<>> /\ Parent(p) \in Path
<1>1. p # <<>>
  BY DEF UserPath, Root
<1>2. PICK q \in Path : \E c \in Name : p = Down(q, c)
  BY <1>1, DownFrom
<1> QED
  BY <1>1, <1>2, DownParent

\* write() is accepted where a tree would accept it ...
LEMMA WriteAccepted ==
  ASSUME NEW f, NEW o, Sound(f, o), NEW p \in Path, UserPath(p)
  PROVE  CanWrite(f, o, p) <=> Direct!CanWrite(Tree(f, o), p)
<1>1. p # <<>> /\ Parent(p) \in Path
  BY UserIs
<1>2. Direct!HasDir(Tree(f, o), Parent(p)) <=> Resolve(f, o, Parent(p)).kind = "dir"
  BY <1>1, TreeDirs
<1>3. Resolve(f, o, p).kind \in {"file", "none"} <=> ~ (p \in DOMAIN Tree(f, o) /\ Tree(f, o)[p].kind = "dir")
  BY <1>1, TreeIs
<1> QED
  BY <1>2, <1>3, SameParent DEF CanWrite, Direct!CanWrite

\* ... so is create_dir_all() ...
LEMMA MkdirsAccepted ==
  ASSUME NEW f, NEW o, Sound(f, o), NEW p \in Path
  PROVE  CanCreateDirAll(f, o, p) <=> Direct!CanMkdirs(Tree(f, o), p)
<1>1. ASSUME NEW n \in 1 .. Len(p)
      PROVE  Resolve(f, o, SubSeq(p, 1, n)).kind \in {"dir", "none"} <=>
               (SubSeq(p, 1, n) \in DOMAIN Tree(f, o) => Direct!HasDir(Tree(f, o), SubSeq(p, 1, n)))
  <2> PICK q \in Path : q = SubSeq(p, 1, n) /\ q # <<>>
    BY PrefixPath
  <2>1. Direct!HasDir(Tree(f, o), q) <=> Resolve(f, o, q).kind = "dir"
    BY TreeDirs
  <2>2. /\ q \in DOMAIN Tree(f, o) <=> Resolve(f, o, q).kind \in {"file", "dir"}
        /\ Resolve(f, o, q).kind \in {"none", "file", "dir"}
    BY TreeIs
  <2> QED
    BY <2>1, <2>2
<1> QED
  BY <1>1 DEF CanCreateDirAll, Direct!CanMkdirs

\* ... rename() ...
LEMMA RenameAccepted ==
  ASSUME NEW f, NEW o, Sound(f, o), NEW p \in Path, UserPath(p), NEW q \in Path, UserPath(q)
  PROVE  CanRename(f, o, p, q) <=> Direct!CanRename(Tree(f, o), p, q)
<1>1. p # <<>> /\ q # <<>> /\ Parent(q) \in Path
  BY UserIs
<1>2. Direct!HasDir(Tree(f, o), Parent(q)) <=> Resolve(f, o, Parent(q)).kind = "dir"
  BY <1>1, TreeDirs
<1>3. Resolve(f, o, p).kind \in {"file", "dir"} <=> p \in DOMAIN Tree(f, o)
  BY <1>1, TreeIs
<1>4. Resolve(f, o, q) = NoEntry <=> q \notin DOMAIN Tree(f, o)
  BY <1>1, TreeIs
<1> QED
  BY <1>2, <1>3, <1>4, SameParent, SameAncestor DEF CanRename, Direct!CanRename

\* ... and so are remove() and remove_dir_all().
LEMMA RemoveAccepted ==
  ASSUME NEW f, NEW o, Sound(f, o), NEW p \in Path, UserPath(p)
  PROVE  /\ CanRemove(f, o, p) <=> Direct!CanRemove(Tree(f, o), p)
         /\ CanRemoveDirAll(f, o, p) <=> Direct!CanRemoveAll(Tree(f, o), p)
<1>1. p # <<>>
  BY UserIs
<1>2. /\ p \in DOMAIN Tree(f, o) <=> Resolve(f, o, p).kind \in {"file", "dir"}
      /\ p \in DOMAIN Tree(f, o) => Tree(f, o)[p].kind = Resolve(f, o, p).kind
  BY <1>1, TreeIs
<1>3. Resolve(f, o, p).kind = "dir" => (List(f, o, p) = {} <=> Direct!Below(Tree(f, o), p) = {})
  BY <1>1, EmptyIs
<1> QED
  BY <1>2, <1>3 DEF CanRemove, Direct!CanRemove, CanRemoveDirAll, Direct!CanRemoveAll

-----------------------------------------------------------------------------
(* What the operations do to the tree. *)

\* Something new at a path.
LEMMA SetsTree ==
  ASSUME NEW f, NEW o, Sound(f, o), NEW p \in Path, NEW e, Settable(f, o, p, e),
         NEW o2, Sets(f, o, o2, p, e)
  PROVE  Tree(f, o2) = Direct!Set(Tree(f, o), p, Node(f, e))
<1>0. p # <<>> /\ e # NoEntry
  BY BaseIs DEF Settable, UserPath, Root
<1>1. \A q \in Path : Resolve(f, o2, q) = IF q = p THEN e ELSE Resolve(f, o, q)
  BY SetsShow
<1>2. Shown(f, o2) = Shown(f, o) \union {p}
  BY <1>0, <1>1 DEF Shown
<1>3. \A q \in Shown(f, o2) :
        Node(f, Resolve(f, o2, q)) = IF q = p THEN Node(f, e) ELSE Node(f, Resolve(f, o, q))
  BY <1>1 DEF Shown
<1>4. \A q \in Shown(f, o2) : q # p => q \in Shown(f, o)
  BY <1>2
<1> QED
  BY <1>2, <1>3, <1>4 DEF Tree, Direct!Set

\* A path gone, and what is below it.
LEMMA CutsTree ==
  ASSUME NEW f, NEW o, Sound(f, o), NEW p \in Path, UserPath(p), Resolve(f, o, p) # NoEntry,
         NEW o2, Cuts(f, o, o2, p)
  PROVE  Tree(f, o2) = Direct!Cut(Tree(f, o), p)
<1>1. \A q \in Path : Resolve(f, o2, q) = IF AtOrBelow(p, q) THEN NoEntry ELSE Resolve(f, o, q)
  BY CutsShow
<1>2. Shown(f, o2) = {q \in Shown(f, o) : ~ AtOrBelow(p, q)}
  BY <1>1 DEF Shown
<1>3. ASSUME NEW q \in Shown(f, o) PROVE AtOrBelow(p, q) <=> q \in {p} \union Direct!Below(Tree(f, o), p)
  <2>1. q \in Path
    BY DEF Shown
  <2>2. AtOrBelow(p, p)
    BY BelowOrder
  <2> QED
    BY <1>3, <2>1, <2>2, BelowIs, SameAncestor DEF Direct!Below, Tree
<1>4. Shown(f, o2) = Shown(f, o) \ ({p} \union Direct!Below(Tree(f, o), p))
  BY <1>2, <1>3
<1>5. \A q \in Shown(f, o2) : Node(f, Resolve(f, o2, q)) = Node(f, Resolve(f, o, q)) /\ q \in Shown(f, o)
  BY <1>1, <1>2 DEF Shown
<1>6. DOMAIN Tree(f, o) = Shown(f, o)
  BY DEF Tree
<1> DEFINE S == {p} \union Direct!Below(Tree(f, o), p)
<1> HIDE DEF S
<1>7. Shown(f, o2) = Shown(f, o) \ S
  BY <1>4 DEF S
<1>8. Direct!Without(Tree(f, o), S) = [q \in Shown(f, o) \ S |-> Tree(f, o)[q]]
  BY <1>6 DEF Direct!Without, Restrict, Direct!Restrict
<1>9. \A q \in Shown(f, o) \ S : Tree(f, o)[q] = Node(f, Resolve(f, o2, q))
  BY <1>5, <1>7 DEF Tree
<1>10. Tree(f, o2) = Direct!Without(Tree(f, o), S)
  BY <1>7, <1>8, <1>9 DEF Tree
<1> QED
  BY <1>10 DEF S, Direct!Cut

\* They mean the same by a path moved along.
LEMMA SameRebase ==
  ASSUME NEW p, NEW q, NEW r
  PROVE  Direct!Rebase(p, q, r) = Rebase(p, q, r)
BY DEF Direct!Rebase, Rebase

\* What a rename moves, and where it lands.
Moved(f, o, from) == {from} \union Direct!Below(Tree(f, o), from)
Landed(f, o, from, to) == {Direct!Rebase(x, from, to) : x \in Moved(f, o, from)}

\* That is what is shown at or below the path, and goes on from the other as it did from the first.
LEMMA MovedAre ==
  ASSUME NEW f, NEW o, NEW from \in Path, from \in Shown(f, o), NEW to \in Path
  PROVE  /\ \A k : k \in Moved(f, o, from) <=> k \in Shown(f, o) /\ AtOrBelow(from, k)
         /\ \A k : k \in Landed(f, o, from, to) <=>
                    \E s \in Path : k = Join(to, s) /\ Join(from, s) \in Shown(f, o)
<1>1. ASSUME NEW k PROVE k \in Moved(f, o, from) <=> k \in Shown(f, o) /\ AtOrBelow(from, k)
  <2>1. k \in Shown(f, o) => k \in Path
    BY DEF Shown
  <2>2. AtOrBelow(from, from)
    BY BelowOrder
  <2>3. k \in Moved(f, o, from) <=> k = from \/ (k \in Shown(f, o) /\ IsAncestorOf(from, k))
    BY SameAncestor DEF Moved, Direct!Below, Tree
  <2> QED
    BY <2>1, <2>2, <2>3, BelowIs
<1>2. ASSUME NEW x \in Moved(f, o, from)
      PROVE  \E s \in Path : Rebase(x, from, to) = Join(to, s) /\ Join(from, s) \in Shown(f, o)
  <2>1. x \in Shown(f, o) /\ x \in Path /\ AtOrBelow(from, x)
    BY <1>1 DEF Shown
  <2>2. PICK s \in Path : x = Join(from, s)
    BY <2>1, BelowJoin
  <2> QED
    BY <2>1, <2>2, RebaseIs
<1>3. ASSUME NEW s \in Path, Join(from, s) \in Shown(f, o)
      PROVE  Join(from, s) \in Moved(f, o, from) /\ Rebase(Join(from, s), from, to) = Join(to, s)
  BY <1>1, <1>3, JoinBelow, RebaseIs
<1>4. \A k : k \in Landed(f, o, from, to) <=> \E s \in Path : k = Join(to, s) /\ Join(from, s) \in Shown(f, o)
  BY <1>2, <1>3, SameRebase DEF Landed
<1> QED
  BY <1>1, <1>4

\* A path and all below it somewhere else.
LEMMA MovesTree ==
  ASSUME NEW f, NEW o, Sound(f, o), NEW from \in Path, NEW to \in Path, Movable(f, o, from, to),
         NEW o1, Cuts(f, o, o1, from), NEW o2, Moves(f, o, o1, o2, from, to)
  PROVE  Tree(f, o2) = Direct!Rename(Tree(f, o), from, to)
<1>0. from # <<>> /\ to # <<>> /\ from \in Shown(f, o)
  BY DEF Movable, UserPath, Root, Shown
<1> PICK moved : moved = Moved(f, o, from)
  OBVIOUS
<1> PICK landed : landed = Landed(f, o, from, to)
  OBVIOUS
<1>1. \A k : k \in moved <=> k \in Shown(f, o) /\ AtOrBelow(from, k)
  BY <1>0, MovedAre
<1>2. \A k : k \in landed <=> \E s \in Path : k = Join(to, s) /\ Join(from, s) \in Shown(f, o)
  BY <1>0, MovedAre
<1>3. Direct!Rename(Tree(f, o), from, to) =
        [k \in (Shown(f, o) \ moved) \union landed |->
           IF k \in landed THEN Tree(f, o)[Direct!Rebase(k, to, from)] ELSE Tree(f, o)[k]]
  BY DEF Direct!Rename, Tree, Moved, Landed
<1>4. ASSUME NEW s \in Path
      PROVE  /\ Resolve(f, o2, Join(to, s)) = Resolve(f, o, Join(from, s))
             /\ Join(to, s) \in Shown(f, o2) <=> Join(from, s) \in Shown(f, o)
  <2>1. Resolve(f, o2, Join(to, s)) = Resolve(f, o, Join(from, s))
    BY MovesBring
  <2>2. /\ Join(to, s) \in Path /\ Join(from, s) \in Path
        /\ Join(to, s) # <<>> /\ Join(from, s) # <<>>
    BY <1>0, JoinBelow, RootIsFirst
  <2> QED
    BY <2>1, <2>2 DEF Shown
<1>5. ASSUME NEW q \in Path, ~ AtOrBelow(to, q)
      PROVE  /\ q \in Shown(f, o2) <=> q \in Shown(f, o) /\ ~ AtOrBelow(from, q)
             /\ q \in Shown(f, o2) => Resolve(f, o2, q) = Resolve(f, o, q)
  <2>1. Resolve(f, o2, q) = Resolve(f, o1, q)
    BY <1>5, MovesLeave
  <2>2. Resolve(f, o1, q) = IF AtOrBelow(from, q) THEN NoEntry ELSE Resolve(f, o, q)
    BY HalfMoved
  <2> QED
    BY <2>1, <2>2 DEF Shown
<1>6. ASSUME NEW q \in Shown(f, o) PROVE ~ AtOrBelow(to, q)
  <2>1. q \in Path /\ Resolve(f, o, q) # NoEntry
    BY DEF Shown
  <2>2. Resolve(f, o, to) = NoEntry /\ NoEntry.kind # "dir"
    BY BaseIs DEF Movable
  <2> QED
    BY <2>1, <2>2, NothingBelow
<1>7. ASSUME NEW q \in Shown(f, o2) PROVE q \in (Shown(f, o) \ moved) \union landed
  <2>1. q \in Path
    BY DEF Shown
  <2>2. CASE AtOrBelow(to, q)
    <3>1. PICK s \in Path : q = Join(to, s)
      BY <2>1, <2>2, BelowJoin
    <3> QED
      BY <1>2, <1>4, <3>1
  <2>3. CASE ~ AtOrBelow(to, q)
    BY <1>1, <1>5, <2>1, <2>3
  <2> QED
    BY <2>2, <2>3
<1>8. ASSUME NEW q \in landed
      PROVE  /\ q \in Shown(f, o2)
             /\ Tree(f, o)[Direct!Rebase(q, to, from)] = Node(f, Resolve(f, o2, q))
  <2>1. PICK s \in Path : q = Join(to, s) /\ Join(from, s) \in Shown(f, o)
    BY <1>2
  <2>2. Direct!Rebase(q, to, from) = Join(from, s)
    BY <2>1, RebaseIs, SameRebase
  <2>3. Tree(f, o)[Join(from, s)] = Node(f, Resolve(f, o, Join(from, s)))
    BY <2>1 DEF Tree
  <2> QED
    BY <1>4, <2>1, <2>2, <2>3
<1>9. ASSUME NEW q \in Shown(f, o) \ moved, q \notin landed
      PROVE  q \in Shown(f, o2) /\ Tree(f, o)[q] = Node(f, Resolve(f, o2, q))
  <2>1. q \in Path /\ ~ AtOrBelow(to, q) /\ ~ AtOrBelow(from, q)
    BY <1>1, <1>6 DEF Shown
  <2>2. q \in Shown(f, o2) /\ Resolve(f, o2, q) = Resolve(f, o, q)
    BY <1>5, <2>1
  <2> QED
    BY <2>2 DEF Tree
<1>10. Shown(f, o2) = (Shown(f, o) \ moved) \union landed
  BY <1>7, <1>8, <1>9
<1> QED
  BY <1>3, <1>8, <1>9, <1>10 DEF Tree

\* Nothing is moved to where it is.
LEMMA StaysTree ==
  ASSUME NEW f, NEW o, NEW p \in Path, p # <<>>, p \in Shown(f, o)
  PROVE  Tree(f, o) = Direct!Rename(Tree(f, o), p, p)
<1> PICK moved : moved = Moved(f, o, p)
  OBVIOUS
<1> PICK landed : landed = Landed(f, o, p, p)
  OBVIOUS
<1>1. \A k : k \in moved <=> k \in Shown(f, o) /\ AtOrBelow(p, k)
  BY MovedAre
<1>2. \A k : k \in landed <=> \E s \in Path : k = Join(p, s) /\ Join(p, s) \in Shown(f, o)
  BY MovedAre
<1>3. Direct!Rename(Tree(f, o), p, p) =
        [k \in (Shown(f, o) \ moved) \union landed |->
           IF k \in landed THEN Tree(f, o)[Direct!Rebase(k, p, p)] ELSE Tree(f, o)[k]]
  BY DEF Direct!Rename, Tree, Moved, Landed
<1>4. landed = moved
  <2>1. \A k : k \in Shown(f, o) => k \in Path
    BY DEF Shown
  <2>2. \A k : k \in landed <=> k \in moved
    BY <1>1, <1>2, <2>1, BelowJoin
  <2> QED
    BY <2>2
<1>5. ASSUME NEW k \in landed PROVE Direct!Rebase(k, p, p) = k
  <2>1. PICK s \in Path : k = Join(p, s)
    BY <1>2
  <2> QED
    BY <2>1, RebaseIs, SameRebase
<1>6. (Shown(f, o) \ moved) \union landed = Shown(f, o)
  BY <1>1, <1>4
<1> QED
  BY <1>3, <1>5, <1>6 DEF Tree

\* A path and those above it, shortest first.
Chain(p) == [i \in 1 .. Len(p) |-> SubSeq(p, 1, i)]

\* It grows with the path.
LEMMA ChainIs ==
  /\ Chain(<<>>) = <<>>
  /\ \A q \in Path : Chain(q) \in Seq(Path)
  /\ \A q \in Path : \A c \in Name : /\ ProperPrefixes(Down(q, c)) = Chain(q)
                                     /\ Chain(Down(q, c)) = Append(Chain(q), Down(q, c))
<1>1. Chain(<<>>) = <<>>
  BY DEF Chain
<1>2. ASSUME NEW q \in Path PROVE Chain(q) \in Seq(Path)
  <2>1. \A i \in 1 .. Len(q) : SubSeq(q, 1, i) \in Path
    BY PrefixPath
  <2>2. Len(q) \in Nat
    BY PathFacts
  <2> QED
    BY <2>1, <2>2 DEF Chain
<1>3. ASSUME NEW q \in Path, NEW c \in Name
      PROVE  /\ ProperPrefixes(Down(q, c)) = Chain(q)
             /\ Chain(Down(q, c)) = Append(Chain(q), Down(q, c))
  <2> PICK p \in Path : p = Down(q, c)
    BY DownPath
  <2> PICK n \in Nat : n = Len(q)
    BY PathFacts
  <2>1. Len(p) = n + 1
    BY PathFacts
  <2>2. ASSUME NEW i \in 1 .. n PROVE SubSeq(p, 1, i) = SubSeq(q, 1, i)
    <3>1. CASE i = n
      <4>1. SubSeq(p, 1, n) = q /\ SubSeq(q, 1, n) = q
        BY AppendFacts, SubSeqFull DEF Down, Path
      <4> QED
        BY <3>1, <4>1
    <3>2. CASE i # n
      <4>1. i + 1 \in 1 .. Len(q) /\ (i + 1) - 1 = i
        BY <3>2
      <4>2. SubSeq(p, 1, (i + 1) - 1) = SubSeq(q, 1, (i + 1) - 1)
        BY <4>1, AppendPrefix DEF Down, Path
      <4> QED
        BY <4>1, <4>2
    <3> QED
      BY <3>1, <3>2
  <2>3. SubSeq(p, 1, n + 1) = p
    BY <2>1, SubSeqFull DEF Path
  <2>4. ProperPrefixes(p) = Chain(q)
    <3>1. (n + 1) - 1 = n
      OBVIOUS
    <3> QED
      BY <2>1, <2>2, <3>1 DEF ProperPrefixes, Chain
  <2>5. Chain(p) = Append(Chain(q), p)
    <3>1. Chain(q) \in Seq(Path) /\ Chain(p) \in Seq(Path)
      BY <1>2
    <3>2. Len(Chain(q)) = n /\ Len(Chain(p)) = n + 1
      BY <2>1 DEF Chain
    <3> PICK r : r = Append(Chain(q), p)
      OBVIOUS
    <3>3. /\ r \in Seq(Path) /\ Len(r) = n + 1 /\ r[n + 1] = p
          /\ \A i \in 1 .. n : r[i] = Chain(q)[i]
      BY <3>1, <3>2, AppendProperties
    <3>4. ASSUME NEW i \in 1 .. n + 1 PROVE r[i] = Chain(p)[i]
      <4>1. Chain(p)[i] = SubSeq(p, 1, i)
        BY <2>1 DEF Chain
      <4>2. CASE i \in 1 .. n
        <5>1. Chain(q)[i] = SubSeq(q, 1, i)
          BY <4>2 DEF Chain
        <5> QED
          BY <2>2, <3>3, <4>1, <4>2, <5>1
      <4>3. CASE i = n + 1
        BY <2>3, <3>3, <4>1, <4>3
      <4>4. i \in 1 .. n \/ i = n + 1
        OBVIOUS
      <4> QED
        BY <4>2, <4>3, <4>4
    <3> QED
      BY <3>1, <3>2, <3>3, <3>4, SeqEqual
  <2> QED
    BY <2>4, <2>5
<1> QED
  BY <1>1, <1>2, <1>3

\* What a path goes through, and the path itself.
LEMMA ChainEnds ==
  ASSUME NEW p \in Path, p # <<>>
  PROVE  Append(ProperPrefixes(p), p) = Chain(p)
<1>1. PICK q \in Path : \E c \in Name : p = Down(q, c)
  BY DownFrom
<1>2. PICK c \in Name : p = Down(q, c)
  BY <1>1
<1>3. ProperPrefixes(Down(q, c)) = Chain(q) /\ Chain(Down(q, c)) = Append(Chain(q), Down(q, c))
  BY ChainIs
<1> QED
  BY <1>2, <1>3, Zenon

-----------------------------------------------------------------------------
(* Directories made one below the other. *)

\* create_dir_all() as a fold over that chain, on the overlay and on a tree.
MakeNext(x, a, q) == IF Resolve(x[1], a, q) # NoEntry THEN a ELSE MakeDir(a, q)
MakeFrom(x) == x[2]
Making == INSTANCE FoldLemmas WITH Op <- MakeNext, Base <- MakeFrom

GrowNext(x, t, q) == IF q \in DOMAIN t THEN t ELSE Direct!Set(t, q, Direct!Dir)
GrowFrom(x) == x
Growing == INSTANCE FoldLemmas WITH Op <- GrowNext, Base <- GrowFrom

\* It is that fold on the overlay ...
LEMMA CreateDirAllIs ==
  ASSUME NEW f, NEW o, NEW p \in Path, p # <<>>
  PROVE  CreateDirAll(f, o, p) = Making!Fold(<<f, o>>, Chain(p))
<1>1. Append(ProperPrefixes(p), p) = Chain(p)
  BY ChainEnds
<1> PICK x : x = <<f, o>>
  OBVIOUS
<1>2. x[1] = f /\ x[2] = o
  OBVIOUS
<1>3. CreateDirAll(x[1], x[2], p) = Making!Fold(x, Append(ProperPrefixes(p), p))
  BY DEF CreateDirAll, MakeNext, MakeFrom, MakeDir, Making!Fold, FoldLeft, MapThenFoldSet,
     Making!MapThenFoldSet, Max, Making!Largest
<1> QED
  BY <1>1, <1>2, <1>3

\* ... and on a tree.
LEMMA MkdirsIs ==
  ASSUME NEW t, NEW p \in Path, p # <<>>
  PROVE  Direct!Mkdirs(t, p) = Growing!Fold(t, Chain(p))
<1>1. Append(ProperPrefixes(p), p) = Chain(p)
  BY ChainEnds
<1>2. Direct!ProperPrefixes(p) = ProperPrefixes(p)
  BY DEF Direct!ProperPrefixes, ProperPrefixes
<1>3. Direct!Mkdirs(t, p) = Growing!Fold(t, Append(Direct!ProperPrefixes(p), p))
  BY DEF Direct!Mkdirs, GrowNext, GrowFrom, Growing!Fold, Direct!FoldLeft, Direct!MapThenFoldSet,
         Growing!MapThenFoldSet, Direct!Max, Growing!Largest
<1> QED
  BY <1>1, <1>2, <1>3

\* Every new directory that is shown has been given a number.
DirsShown(f, o) ==
  /\ o.nextDir \in Nat
  /\ \A p \in Path : Resolve(f, o, p).from = "new" =>
       \E m \in 0 .. o.nextDir - 1 : Resolve(f, o, p) = NewDir(m)

\* The directories down to a path are made: the overlay keeps its shape, and shows what the tree has.
MadeTo(f, o, p, a, t) ==
  /\ Sound(f, a) /\ IsOverlay(a) /\ t = Tree(f, a)
  /\ Resolve(f, a, p).kind = "dir"
  /\ \A x \in Path : ~ AtOrBelow(x, p) => Resolve(f, a, x) = Resolve(f, o, x)
  /\ \A x \in Path : Resolve(f, a, x).from = "blob" => Resolve(f, a, x) = Resolve(f, o, x)
  /\ a.detached = o.detached /\ (DirsShown(f, o) => DirsShown(f, a))

\* One further down.
LEMMA MadeNext ==
  ASSUME NEW f, NEW o, NEW q \in Path, NEW a, NEW t, MadeTo(f, o, q, a, t), NEW c \in Name,
         UserPath(Down(q, c)), Resolve(f, o, Down(q, c)).kind \in {"dir", "none"}
  PROVE  MadeTo(f, o, Down(q, c), MakeNext(<<f, o>>, a, Down(q, c)), GrowNext(Tree(f, o), t, Down(q, c)))
<1> PICK p \in Path : p = Down(q, c)
  BY DownPath
<1> PICK x : x = <<f, o>>
  OBVIOUS
<1>0. x[1] = f /\ p # <<>>
  BY DownPath
<1>1. Sound(f, a) /\ IsOverlay(a) /\ t = Tree(f, a) /\ Resolve(f, a, q).kind = "dir"
  BY DEF MadeTo
<1>2. Resolve(f, a, p) = Resolve(f, o, p)
  <2>1. ~ AtOrBelow(p, q)
    <3>1. ~ AtOrBelow(Down(q, c), q)
      BY BelowNext
    <3> QED
      BY <3>1
  <2> QED
    BY <2>1 DEF MadeTo
<1>3. \A y \in Path : ~ AtOrBelow(y, p) => ~ AtOrBelow(y, q) /\ y # p
  BY BelowNext, BelowOrder
<1>4. p \in DOMAIN t <=> Resolve(f, a, p) # NoEntry
  BY <1>0, <1>1, TreeIs
<1>5. CASE Resolve(f, a, p) # NoEntry
  <2>1. Resolve(f, a, p).kind = "dir"
    BY <1>0, <1>1, <1>2, <1>5, TreeIs
  <2>2. MakeNext(x, a, p) = a /\ GrowNext(Tree(f, o), t, p) = t
    BY <1>0, <1>4, <1>5 DEF MakeNext, GrowNext
  <2>3. MadeTo(f, o, p, a, t)
    BY <1>3, <2>1 DEF MadeTo
  <2> QED
    BY <2>2, <2>3
<1>6. CASE Resolve(f, a, p) = NoEntry
  <2> PICK e : e = NewDir(a.nextDir)
    OBVIOUS
  <2> PICK b : b = MakeDir(a, p)
    OBVIOUS
  <2>1. e.from = "new" /\ e.kind = "dir"
    BY DEF NewDir, NoEntry
  <2>2. Settable(f, a, p, e)
    BY <1>1, <1>6, <2>1, BaseIs, DownParent DEF Settable
  <2>3. Sets(f, a, b, p, e)
    BY <1>1, <1>6, MakeDirSets
  <2>4. Sound(f, b) /\ IsOverlay(b)
    BY <1>1, <2>2, <2>3, SetsSound DEF Sets
  <2>5. \A y \in Path : Resolve(f, b, y) = IF y = p THEN e ELSE Resolve(f, a, y)
    BY <1>1, <2>2, <2>3, SetsShow
  <2>6. Tree(f, b) = Direct!Set(t, p, Node(f, e))
    BY <1>1, <2>2, <2>3, SetsTree
  <2>7. Node(f, e) = Direct!Dir
    BY <2>1 DEF Node, ReadText, Direct!Dir
  <2>8. MakeNext(x, a, p) = b /\ GrowNext(Tree(f, o), t, p) = Tree(f, b)
    BY <1>0, <1>4, <1>6, <2>6, <2>7 DEF MakeNext, GrowNext
  <2>9. \A y \in Path : ~ AtOrBelow(y, p) => Resolve(f, b, y) = Resolve(f, o, y)
    BY <1>3, <2>5 DEF MadeTo
  <2>10. MadeTo(f, o, p, b, Tree(f, b))
    <3>1. \A y \in Path : Resolve(f, b, y).from = "blob" => Resolve(f, b, y) = Resolve(f, o, y)
      BY <2>1, <2>5 DEF MadeTo
    <3>2. b.nextDir = a.nextDir + 1 /\ b.detached = a.detached
      BY <1>1 DEF MakeDir, Place, IsOverlay
    <3>3. DirsShown(f, a) => DirsShown(f, b)
      <4> SUFFICES ASSUME DirsShown(f, a), NEW y \in Path, Resolve(f, b, y).from = "new"
                   PROVE  \E m \in 0 .. b.nextDir - 1 : Resolve(f, b, y) = NewDir(m)
        BY <3>2 DEF DirsShown
      <4>1. a.nextDir \in 0 .. b.nextDir - 1 /\ \A m \in 0 .. a.nextDir - 1 : m \in 0 .. b.nextDir - 1
        BY <3>2 DEF DirsShown
      <4> QED
        BY <2>5, <4>1 DEF DirsShown
    <3> QED
      BY <2>1, <2>4, <2>5, <2>9, <3>1, <3>2, <3>3 DEF MadeTo
  <2> QED
    BY <2>8, <2>10
<1> QED
  BY <1>5, <1>6

\* What a path goes through can be made.
LEMMA CanMakeAll ==
  ASSUME NEW f, NEW o, NEW p \in Path, UserPath(p), CanCreateDirAll(f, o, p),
         NEW x \in Path, x # <<>>, AtOrBelow(x, p)
  PROVE  UserPath(x) /\ Resolve(f, o, x).kind \in {"dir", "none"}
<1>1. UserPath(x)
  <2>1. PICK s \in Path : p = Join(x, s)
    BY BelowJoin
  <2> QED
    BY <2>1, UserBelow
<1>2. Len(x) \in 1 .. Len(p) /\ SubSeq(p, 1, Len(x)) = x
  <2>0. Len(x) \in Nat /\ Len(p) \in Nat /\ Len(x) # 0
    BY PathFacts
  <2>1. SubSeq(x, 1, Len(x)) = x
    BY SubSeqFull DEF Path
  <2>2. CASE x = p
    BY <2>0, <2>1, <2>2
  <2>3. CASE x # p
    <3>1. IsAncestorOf(x, p)
      BY <2>3, BelowIs
    <3>2. Len(x) <= Len(p) /\ SubSeq(x, 1, Len(x)) = SubSeq(p, 1, Len(x))
      BY <3>1 DEF IsAncestorOf, IsStrictPrefix, IsPrefix
    <3> QED
      BY <2>0, <2>1, <3>2
  <2> QED
    BY <2>2, <2>3
<1> QED
  BY <1>1, <1>2 DEF CanCreateDirAll

\* The directories down to a path, all of them.
LEMMA MadeAll ==
  ASSUME NEW f, NEW o, Sound(f, o), IsOverlay(o),
         NEW p \in Path, UserPath(p), CanCreateDirAll(f, o, p)
  PROVE  MadeTo(f, o, p, Making!Fold(<<f, o>>, Chain(p)), Growing!Fold(Tree(f, o), Chain(p)))
<1> PICK w : w = <<f, o>>
  OBVIOUS
<1> PICK t : t = Tree(f, o)
  OBVIOUS
<1>0. w[2] = o
  OBVIOUS
<1> DEFINE G(q) == AtOrBelow(q, p) => MadeTo(f, o, q, Making!Fold(w, Chain(q)), Growing!Fold(t, Chain(q)))
           T == {q \in Path : G(q)}
<1>1. G(<<>>)
  <2>1. Making!Fold(w, <<>>) = o /\ Growing!Fold(t, <<>>) = t
    BY <1>0, Making!FoldEmpty, Growing!FoldEmpty, Least DEF Making!WellOrdered,
       Growing!WellOrdered, MakeFrom, GrowFrom
  <2>2. TopEntry.kind = "dir"
    BY DEF TopEntry, Base, NoEntry, Root
  <2>3. MadeTo(f, o, <<>>, o, t)
    BY <2>2, ResolveRoot DEF MadeTo
  <2> QED
    BY <2>1, <2>3, ChainIs
<1>2. ASSUME NEW q \in Path, G(q), NEW c \in Name PROVE G(Down(q, c))
  <2> PICK y \in Path : y = Down(q, c) /\ y # <<>>
    BY DownPath
  <2> SUFFICES ASSUME AtOrBelow(y, p)
               PROVE  MadeTo(f, o, y, Making!Fold(w, Chain(y)), Growing!Fold(t, Chain(y)))
    OBVIOUS
  <2>1. AtOrBelow(q, y)
    BY BelowNext, BelowOrder
  <2>2. AtOrBelow(q, p)
    BY <2>1, BelowOrder
  <2>3. UserPath(y) /\ Resolve(f, o, y).kind \in {"dir", "none"}
    BY CanMakeAll
  <2> PICK a : a = Making!Fold(w, Chain(q))
    OBVIOUS
  <2> PICK u : u = Growing!Fold(t, Chain(q))
    OBVIOUS
  <2>4. MadeTo(f, o, q, a, u)
    BY <1>2, <2>2
  <2>5. MadeTo(f, o, y, MakeNext(w, a, y), GrowNext(t, u, y))
    BY <2>3, <2>4, MadeNext
  <2> PICK C \in Seq(Path) : C = Chain(q)
    BY ChainIs
  <2>6. Chain(y) = Append(C, y)
    BY ChainIs
  <2>7. Making!Fold(w, Append(C, y)) = MakeNext(w, a, y)
    BY Making!FoldAppend, Least DEF Making!WellOrdered
  <2>8. Growing!Fold(t, Append(C, y)) = GrowNext(t, u, y)
    BY Growing!FoldAppend, Least DEF Growing!WellOrdered
  <2> QED
    BY <2>5, <2>6, <2>7, <2>8
<1> HIDE DEF G
<1>3. T = Path
  <2>1. T \in SUBSET Path
    OBVIOUS
  <2>2. <<>> \in T /\ \A x \in T : \A c \in Name : Down(x, c) \in T
    BY <1>1, <1>2, PathFacts
  <2> HIDE DEF T
  <2> QED
    BY <2>1, <2>2, PathInduction
<1>4. AtOrBelow(p, p)
  BY BelowOrder
<1> QED
  BY <1>3, <1>4 DEF G

\* create_dir_all() is what it is on a tree, and touches no blob and nothing of the base.
LEMMA MakesTree ==
  ASSUME NEW f, NEW o, Sound(f, o), IsOverlay(o),
         NEW p \in Path, UserPath(p), CanCreateDirAll(f, o, p)
  PROVE  /\ Sound(f, CreateDirAll(f, o, p)) /\ IsOverlay(CreateDirAll(f, o, p))
         /\ Tree(f, CreateDirAll(f, o, p)) = Direct!Mkdirs(Tree(f, o), p)
         /\ \A x \in Path : Resolve(f, CreateDirAll(f, o, p), x).from = "blob" =>
              Resolve(f, CreateDirAll(f, o, p), x) = Resolve(f, o, x)
         /\ CreateDirAll(f, o, p).detached = o.detached
         /\ DirsShown(f, o) => DirsShown(f, CreateDirAll(f, o, p))
<1>1. p # <<>>
  BY DEF UserPath, Root
<1>2. CreateDirAll(f, o, p) = Making!Fold(<<f, o>>, Chain(p))
  BY <1>1, CreateDirAllIs
<1>3. Direct!Mkdirs(Tree(f, o), p) = Growing!Fold(Tree(f, o), Chain(p))
  BY <1>1, MkdirsIs
<1> QED
  BY <1>2, <1>3, MadeAll DEF MadeTo

-----------------------------------------------------------------------------
(* What compile makes of a sound overlay is a sane plan. *)

\* The transaction directory, by name.
LEMMA TxPaths ==
  /\ <<>> \in Seq(STRING) /\ <<PrivateDir>> \in Seq(STRING) /\ Tx \in Seq(STRING)
  /\ <<PrivateDir>> = Append(<<>>, PrivateDir) /\ Tx = Append(<<PrivateDir>>, "tx")
<1> PICK r : r = <<PrivateDir>>
  OBVIOUS
<1>1. r = Append(<<>>, PrivateDir)
  OBVIOUS
<1>2. r \in Seq(STRING)
  BY NamesAssumption
<1>3. Tx = Append(r, "tx")
  BY DEF Tx
<1>4. Tx \in Seq(STRING)
  BY <1>2, <1>3, NamesAssumption
<1> QED
  BY <1>1, <1>2, <1>3, <1>4

\* The directories of what is staged and of what is removed.
StagedHome == Append(Tx, "staged")
BackupHome == Append(Tx, "backup")

\* What is placed and shown: of the base, a blob, or a staged directory; under a name of its own in
\* staged/ unless it is of the base; and nowhere too deep.
FromStaged(o) == {p \in Placements(o) : o.placed[p].from # "base"}
EntriesKnown(o) ==
  \A p \in Placements(o) :
    /\ Len(p) < DepthBound
    /\ o.placed[p].from \in {"base", "blob", "new"}
    /\ o.placed[p].from = "blob" => o.placed[p].kind = "file"
    /\ p \in FromStaged(o) =>
         /\ StagedName(o.placed[p]) \in Name
         /\ \A q \in FromStaged(o) : StagedName(o.placed[q]) = StagedName(o.placed[p]) => q = p

\* A directory outside .fstx has one path, and none of its paths leads into the zone.
OnePath(f) ==
  \A p, q \in Path : ~ IsPrivate(p) /\ ~ IsPrivate(q) /\ Stat(f, p) = Stat(f, q) /\ Stat(f, p) # NoIno
                     /\ f.kind[Stat(f, p)] = "dir" => p = q
OutsideIs(f, Z) == NoIno \notin Z /\ \A p \in Path : ~ IsPrivate(p) => Stat(f, p) \notin Z
HomesIn(f, Z) == Stat(f, StagedHome) \in Z \union {NoIno} /\ Stat(f, BackupHome) \in Z \union {NoIno}

\* Each staged directory that is shown is made, and is none of the others.
NewDirsMade(f, o, Z) ==
  \A p \in Placements(o) : o.placed[p].from = "new" =>
    /\ Stat(f, StagedPath(Tx, o.placed[p])) \in Z \ {Stat(f, StagedHome), Stat(f, BackupHome)}
    /\ \A q \in Placements(o) :
         /\ o.placed[q].from = "new"
         /\ Stat(f, StagedPath(Tx, o.placed[q])) = Stat(f, StagedPath(Tx, o.placed[p]))
         => q = p

\* What is detached is recorded as it is.
NotedIn(f, o) ==
  \A b \in DOMAIN o.detached :
    /\ b \in Path /\ UserPath(b) /\ Len(b) < DepthBound /\ Stat(f, b) # NoIno
    /\ o.detached[b].id = Stat(f, b) /\ o.detached[b].kind = f.kind[Stat(f, b)]

Compilable(f, o, Z) ==
  /\ Sound(f, o) /\ IsFiniteSet(DOMAIN o.placed) /\ IsFiniteSet(DOMAIN o.detached)
  /\ Cardinality(DOMAIN o.detached) <= MaxOps
  /\ EntriesKnown(o) /\ NotedIn(f, o) /\ OnePath(f) /\ OutsideIs(f, Z) /\ HomesIn(f, Z)
  /\ NewDirsMade(f, o, Z)

\* Appending to a sequence of two, or of three.
LEMMA AppendShort ==
  ASSUME NEW S, NEW p \in Seq(S), NEW c \in S
  PROVE  /\ Append(p, c) \in Seq(S)
         /\ Len(p) = 2 => /\ Len(Append(p, c)) = 3 /\ Append(p, c)[1] = p[1]
                          /\ Append(p, c)[2] = p[2] /\ Append(p, c)[3] = c
         /\ Len(p) = 3 => /\ Len(Append(p, c)) = 4 /\ Append(p, c)[1] = p[1]
                          /\ Append(p, c)[2] = p[2] /\ Append(p, c)[3] = p[3]
<1> PICK q : q = Append(p, c)
  OBVIOUS
<1> PICK n \in Nat : n = Len(p)
  OBVIOUS
<1>1. q \in Seq(S) /\ Len(q) = n + 1
  BY AppendProperties
<1>2. q[n + 1] = c /\ \A i \in 1 .. n : q[i] = p[i]
  BY AppendProperties
<1>3. n = 2 => Len(q) = 3 /\ q[1] = p[1] /\ q[2] = p[2] /\ q[3] = c
  <2> SUFFICES ASSUME n = 2 PROVE Len(q) = 3 /\ q[1] = p[1] /\ q[2] = p[2] /\ q[3] = c
    OBVIOUS
  <2>1. n + 1 = 3 /\ 1 \in 1 .. n /\ 2 \in 1 .. n
    OBVIOUS
  <2> QED BY <1>1, <1>2, <2>1
<1>4. n = 3 => Len(q) = 4 /\ q[1] = p[1] /\ q[2] = p[2] /\ q[3] = p[3]
  <2> SUFFICES ASSUME n = 3 PROVE Len(q) = 4 /\ q[1] = p[1] /\ q[2] = p[2] /\ q[3] = p[3]
    OBVIOUS
  <2>1. n + 1 = 4 /\ 1 \in 1 .. n /\ 2 \in 1 .. n /\ 3 \in 1 .. n
    OBVIOUS
  <2> QED BY <1>1, <1>2, <2>1
<1> QED BY <1>1, <1>3, <1>4

\* The directories, spelt out.
LEMMA HomesAre ==
  /\ StagedHome \in Path /\ BackupHome \in Path
  /\ Len(StagedHome) = 3 /\ Len(BackupHome) = 3
  /\ StagedHome[1] = PrivateDir /\ StagedHome[2] = Tx[2] /\ StagedHome[3] = "staged"
  /\ BackupHome[1] = PrivateDir /\ BackupHome[2] = Tx[2] /\ BackupHome[3] = "backup"
<1> PICK t : t = Tx
  OBVIOUS
<1>1. Len(t) = 2 /\ t[1] = PrivateDir
  BY DEF Tx
<1>2. t \in Seq(Name) /\ "staged" \in Name /\ "backup" \in Name
  BY TxPaths, NamesAssumption DEF Name
<1>3. \A c \in Name : /\ Append(t, c) \in Seq(Name) /\ Len(Append(t, c)) = 3
                        /\ Append(t, c)[3] = c /\ Append(t, c)[1] = t[1] /\ Append(t, c)[2] = t[2]
  BY <1>1, <1>2, AppendShort
<1> QED BY <1>1, <1>2, <1>3 DEF StagedHome, BackupHome, Path

\* An entry of the transaction's own backup/ or staged/, as its journal may name it.
InHome(p, home) ==
  /\ p \in Path /\ p # <<>> /\ IsPrivate(p) /\ Len(p) = 4 /\ p[2] = Tx[2] /\ Parent(p) = home
  /\ home = StagedHome => p[3] = "staged"
  /\ home = BackupHome => p[3] = "backup"

\* Paths in staged/ and in backup/.
LEMMA InHomeIs ==
  ASSUME NEW c \in Name, NEW home \in {StagedHome, BackupHome}
  PROVE  /\ InHome(Append(home, c), home) /\ home \in Path
         /\ \A d \in Name, other \in {StagedHome, BackupHome} :
              Append(home, c) = Append(other, d) => home = other /\ c = d
<1>1. home \in Path /\ \A other \in {StagedHome, BackupHome} : other \in Path
  BY HomesAre
<1>2. /\ Down(home, c) \in Path /\ Down(home, c) # <<>> /\ Parent(Down(home, c)) = home
  BY <1>1, DownParent, DownPath
<1>3. home \in Seq(Name) /\ Len(home) = 3
  BY HomesAre DEF Path
<1>4. /\ Append(home, c)[1] = home[1] /\ Append(home, c)[2] = home[2] /\ Append(home, c)[3] = home[3]
      /\ Len(Append(home, c)) = 4
  BY <1>3, AppendShort
<1>5. home[1] = PrivateDir /\ home[2] = Tx[2]
  BY HomesAre
<1>6. (home = StagedHome => home[3] = "staged") /\ (home = BackupHome => home[3] = "backup")
  BY HomesAre
<1>7. InHome(Append(home, c), home)
  BY <1>2, <1>4, <1>5, <1>6 DEF InHome, Down, IsPrivate, Root
<1>8. \A d \in Name, other \in {StagedHome, BackupHome} :
        Down(home, c) = Down(other, d) => home = other /\ c = d
  BY <1>1, DownSame
<1> QED BY <1>1, <1>7, <1>8 DEF Down

\* The paths of what is staged, and of what is removed.
LEMMA StagedPathIs ==
  ASSUME NEW e
  PROVE  StagedPath(Tx, e) = Append(StagedHome, StagedName(e))
BY DEF StagedPath, StagedHome

\* The home of a backup is a name in the directory of backups.
LEMMA BackupPathIs ==
  ASSUME NEW k, ToString(k) \in Name
  PROVE  BackupPath(Tx, k) = Append(BackupHome, ToString(k))
<1>1. PrivateDir \in Name /\ "tx" \in Name /\ "backup" \in Name
  BY NamesAssumption DEF Name
<1> QED BY <1>1 DEF BackupPath, BackupHome, Tx, Name

\* A set of at most one element, listed.
LEMMA ListingOne ==
  /\ Listing({}) = <<>>
  /\ \A x : Listing({x}) = <<x>>
<1>1. Listing({}) = <<>>
  <2>1. Lists(Listing({}), {})
    BY ListingIs, FS_EmptySet
  <2> QED BY <2>1 DEF Lists
<1>2. ASSUME NEW x PROVE Listing({x}) = <<x>>
  <2>1. Lists(Listing({x}), {x})
    BY ListingIs, FS_Singleton
  <2>2. PICK n \in Nat : DOMAIN Listing({x}) = 1 .. n /\ \A k \in 1 .. n : Listing({x})[k] \in {x}
    BY <2>1, ListingSeq
  <2>3. Listing({x}) \in Seq({x}) /\ \E k \in DOMAIN Listing({x}) : Listing({x})[k] = x
    BY <2>1 DEF Lists
  <2>4. \A j, k \in 1 .. n : j = k
    BY <2>1, <2>2 DEF Lists
  <2>5. n = 1
    BY <2>2, <2>3, <2>4
  <2> QED BY <2>2, <2>3, <2>5
<1> QED BY <1>1, <1>2

-----------------------------------------------------------------------------
(* The tokens of such a plan. *)

Arriving(o, f) == {p \in Attached(f, o) : o.placed[p].from # "base"}
TokensIn(f, o) ==
  OutTokens(f, o, Tx, Listing(Detaching(f, o))) \o InTokens(f, o, Tx, Listing(Arriving(o, f)))

\* The plan is made for the tokens of what leaves and of what comes from the staged directory.
LEMMA CompileIs ==
  ASSUME NEW f, NEW o
  PROVE  Compile(f, o, Tx) = PlanFor(TokensIn(f, o))
BY DEF Compile, TokensIn, Arriving

\* The token of the base entry at b, the k-th of those that leave: it ends in backup/ ...
Leaving(f, o, tok, k, b) ==
  /\ k \in 1 .. MaxOps /\ b \in Detaching(f, o)
  /\ tok.kind = o.detached[b].kind /\ tok.id = o.detached[b].id
  /\ DOMAIN tok.locs = 1 .. Len(tok.locs)
  /\ tok.locs[1] = PrivateLoc(f, b) /\ tok.locs[2] = PrivateLoc(f, BackupPath(Tx, k))

\* ... or, by way of it, where it is now shown.
EndsAs(f, o, tok, b) ==
  \/ /\ Len(tok.locs) = 2
     /\ \A p \in Attached(f, o) : ~ IsBaseAt(o.placed[p], b)
  \/ /\ Len(tok.locs) = 3
     /\ \E p \in Attached(f, o) :
          IsBaseAt(o.placed[p], b) /\ tok.locs[3] = FinalLoc(f, o, Tx, p)

\* The token of what is staged and shown at p.
Coming(f, o, tok, p) ==
  /\ p \in Arriving(o, f)
  /\ tok.kind = o.placed[p].kind /\ tok.id = Stat(f, StagedPath(Tx, o.placed[p]))
  /\ Len(tok.locs) = 2 /\ DOMAIN tok.locs = 1 .. Len(tok.locs)
  /\ tok.locs[1] = PrivateLoc(f, StagedPath(Tx, o.placed[p]))
  /\ tok.locs[2] = FinalLoc(f, o, Tx, p)

\* A base entry is shown at one place.
LEMMA EndsOnce ==
  ASSUME NEW f, NEW o, Sound(f, o), NEW b,
         NEW p \in Attached(f, o), IsBaseAt(o.placed[p], b),
         NEW q \in Attached(f, o), IsBaseAt(o.placed[q], b)
  PROVE  p = q
<1>1. p \in Wanderers(o) /\ q \in Wanderers(o) /\ o.placed[p].origin = o.placed[q].origin
  BY DEF Wanderers, Attached, Placements, IsBaseAt
<1>2. InShape(f, o)
  BY DEF Sound
<1> QED BY <1>1, <1>2 DEF InShape

\* The locations of a token: two, or three.
Two(x, y) == <<x, y>>

\* Two locations, as a sequence.
LEMMA TwoLocs ==
  ASSUME NEW x, NEW y
  PROVE  /\ Len(Two(x, y)) = 2 /\ DOMAIN Two(x, y) = 1 .. 2 /\ Two(x, y)[1] = x /\ Two(x, y)[2] = y
         /\ Two(x, y) \in Seq({x, y})
BY DEF Two

\* Nothing joined to a sequence.
LEMMA JoinNone ==
  ASSUME NEW S, NEW s \in Seq(S)
  PROVE  s \o <<>> = s
OBVIOUS

\* One thing joined to a sequence.
LEMMA JoinOne ==
  ASSUME NEW S, NEW s \in Seq(S), NEW z \in S
  PROVE  s \o <<z>> = Append(s, z)
OBVIOUS

\* Two locations and no third.
LEMMA NoMoreLocs ==
  ASSUME NEW x, NEW y
  PROVE  Two(x, y) \o <<>> = Two(x, y)
<1>1. Two(x, y) \in Seq({x, y})
  BY TwoLocs
<1> QED BY <1>1, JoinNone

\* Two locations and a third.
LEMMA MoreLocs ==
  ASSUME NEW x, NEW y, NEW z
  PROVE  LET s == Two(x, y) \o <<z>>
         IN  /\ Len(s) = 3 /\ DOMAIN s = 1 .. 3 /\ s[1] = x /\ s[2] = y /\ s[3] = z
<1> PICK S : x \in S /\ y \in S /\ z \in S
  <2>1. x \in {x, y, z} /\ y \in {x, y, z} /\ z \in {x, y, z}
    OBVIOUS
  <2> QED BY Zenon, <2>1
<1>1. Two(x, y) \in Seq(S)
  BY DEF Two
<1>3. Two(x, y) \o <<z>> = Append(Two(x, y), z)
  BY <1>1, JoinOne
<1> PICK t : t = Two(x, y)
  OBVIOUS
<1>6. t \in Seq(S) /\ Len(t) = 2 /\ t[1] = x /\ t[2] = y
  BY <1>1, TwoLocs
<1> PICK s : s = Append(t, z)
  OBVIOUS
<1>4. s \in Seq(S) /\ Len(s) = 3 /\ s[1] = x /\ s[2] = y /\ s[3] = z
  BY <1>6, AppendShort
<1>5. DOMAIN s = 1 .. 3
  BY <1>4
<1> QED BY <1>3, <1>4, <1>5

\* What OutTokens makes of the entries that leave.
OutToken(f, o, out, k) ==
  [kind |-> o.detached[out[k]].kind, id |-> o.detached[out[k]].id,
   locs |-> <<PrivateLoc(f, out[k]), PrivateLoc(f, BackupPath(Tx, k))>>
            \o Listing({FinalLoc(f, o, Tx, p) :
                          p \in {q \in Attached(f, o) : IsBaseAt(o.placed[q], out[k])}})]

\* The token of a base entry that leaves its path: to a backup, and from there to where it is shown.
LEMMA OutTokenIs ==
  ASSUME NEW f, NEW o, Sound(f, o), NEW out, NEW k \in 1 .. MaxOps, out[k] \in Detaching(f, o)
  PROVE  /\ Leaving(f, o, OutToken(f, o, out, k), k, out[k])
         /\ EndsAs(f, o, OutToken(f, o, out, k), out[k])
<1> DEFINE b == out[k]
           AtLoc == {q \in Attached(f, o) : IsBaseAt(o.placed[q], b)}
           Finals == {FinalLoc(f, o, Tx, p) : p \in AtLoc}
           tok == OutToken(f, o, out, k)
           x == PrivateLoc(f, b)
           y == PrivateLoc(f, BackupPath(Tx, k))
<1>0. /\ tok.kind = o.detached[b].kind /\ tok.id = o.detached[b].id
      /\ tok.locs = Two(x, y) \o Listing(Finals)
  BY DEF OutToken, Two
<1> HIDE DEF tok, x, y
<1>1. CASE AtLoc = {}
  <2>1. Listing(Finals) = <<>>
    BY <1>1, ListingOne
  <2>2. tok.locs = Two(x, y)
    BY <1>0, <2>1, NoMoreLocs
  <2> PICK s : s = Two(x, y)
    OBVIOUS
  <2>6. Len(s) = 2 /\ DOMAIN s = 1 .. 2 /\ s[1] = x /\ s[2] = y
    BY TwoLocs
  <2>3. Len(tok.locs) = 2 /\ DOMAIN tok.locs = 1 .. 2 /\ tok.locs[1] = x /\ tok.locs[2] = y
    BY <2>2, <2>6
  <2>4. Leaving(f, o, tok, k, b)
    BY <1>0, <2>3 DEF Leaving, x, y
  <2>5. EndsAs(f, o, tok, b)
    BY <1>1, <2>3 DEF EndsAs
  <2> QED BY <2>4, <2>5 DEF tok
<1>2. CASE AtLoc # {}
  <2>1. PICK p \in AtLoc : TRUE
    BY <1>2
  <2>2. \A q \in AtLoc : q = p
    BY <2>1, EndsOnce
  <2>3. Finals = {FinalLoc(f, o, Tx, p)}
    BY <2>1, <2>2
  <2>4. Listing(Finals) = <<FinalLoc(f, o, Tx, p)>>
    BY <2>3, ListingOne
  <2> PICK z : z = FinalLoc(f, o, Tx, p)
    OBVIOUS
  <2>5. tok.locs = Two(x, y) \o <<z>>
    BY <1>0, <2>4
  <2>6. /\ Len(tok.locs) = 3 /\ DOMAIN tok.locs = 1 .. 3 /\ tok.locs[1] = x /\ tok.locs[2] = y
        /\ tok.locs[3] = z
    BY <2>5, MoreLocs
  <2>7. Leaving(f, o, tok, k, b)
    BY <1>0, <2>6 DEF Leaving, x, y
  <2>8. EndsAs(f, o, tok, b)
    BY <2>1, <2>6 DEF EndsAs
  <2> QED BY <2>7, <2>8 DEF tok
<1> QED BY <1>1, <1>2

\* Two sequences, one after the other.
LEMMA JoinedIs ==
  ASSUME NEW S, NEW n \in Nat, NEW m \in Nat, NEW s \in [1 .. n -> S], NEW t \in [1 .. m -> S]
  PROVE  /\ DOMAIN (s \o t) = 1 .. n + m
         /\ \A i \in 1 .. n : (s \o t)[i] = s[i]
         /\ \A k \in 1 .. m : (s \o t)[n + k] = t[k]
<1>1. s \in Seq(S) /\ t \in Seq(S) /\ Len(s) = n /\ Len(t) = m
  OBVIOUS
<1> PICK st : st = s \o t
  OBVIOUS
<1>2. st \in Seq(S) /\ Len(st) = n + m
  BY <1>1, ConcatProperties
<1>3. \A i \in 1 .. n + m : st[i] = IF i <= n THEN s[i] ELSE t[i - n]
  BY <1>1, ConcatProperties
<1>4. DOMAIN st = 1 .. n + m
  BY <1>2
<1>5. \A i \in 1 .. n : i \in 1 .. n + m /\ i <= n
  OBVIOUS
<1>6. \A k \in 1 .. m : n + k \in 1 .. n + m /\ ~ (n + k <= n) /\ (n + k) - n = k
  OBVIOUS
<1>7. \A i \in 1 .. n : st[i] = s[i]
  BY <1>3, <1>5
<1>8. \A k \in 1 .. m : st[n + k] = t[k]
  BY <1>3, <1>6
<1> QED BY <1>4, <1>7, <1>8

\* The tokens: those of what leaves, then those of what is staged, each once.
OutAt(f, o, tokens, out, t, b) ==
  /\ t \in DOMAIN out /\ b = out[t]
  /\ Leaving(f, o, tokens[t], t, b) /\ EndsAs(f, o, tokens[t], b)
InAt(f, o, tokens, out, in, t, p) ==
  \E k \in DOMAIN in : t = Len(out) + k /\ p = in[k] /\ Coming(f, o, tokens[t], p)
Parted(f, o, tokens, out, in) ==
  /\ \E n \in Nat : DOMAIN tokens = 1 .. n
  /\ \A t \in DOMAIN tokens : (\E b : OutAt(f, o, tokens, out, t, b))
                              \/ (\E p : InAt(f, o, tokens, out, in, t, p))
  /\ \A t, u \in DOMAIN tokens : \A b :
       OutAt(f, o, tokens, out, t, b) /\ OutAt(f, o, tokens, out, u, b) => t = u
  /\ \A t, u \in DOMAIN tokens : \A p :
       InAt(f, o, tokens, out, in, t, p) /\ InAt(f, o, tokens, out, in, u, p) => t = u

\* How many leave.
LEMMA FewLeave ==
  ASSUME NEW S, IsFiniteSet(S), NEW D, IsFiniteSet(D), S \subseteq D, Cardinality(D) <= MaxOps,
         NEW out, Lists(out, S), NEW n \in Nat, DOMAIN out = 1 .. n
  PROVE  n <= MaxOps
<1>1. Cardinality(D) \in Nat /\ Cardinality(S) \in Nat /\ Cardinality(S) <= Cardinality(D) /\ MaxOps \in Nat
  BY FS_Subset, FS_CardinalityType, StagingAssumption
<1>2. out \in [1 .. n -> S] /\ \A j, k \in 1 .. n : out[j] = out[k] => j = k
  BY DEF Lists
<1>3. out \in Injection(1 .. n, S)
  BY <1>2 DEF Injection, IsInjective
<1>4. IsFiniteSet(1 .. n) /\ Cardinality(1 .. n) = n
  BY FS_Interval
<1>5. Cardinality(1 .. n) <= Cardinality(S)
  BY <1>3, <1>4, FS_Injection
<1> QED BY <1>1, <1>4, <1>5

\* The tokens are those of the listing of what leaves, then those of the listing of what comes.
LEMMA TokensParted ==
  ASSUME NEW f, NEW o, NEW Z, Compilable(f, o, Z)
  PROVE  \E out, in : Parted(f, o, TokensIn(f, o), out, in)
<1> DEFINE out == Listing(Detaching(f, o))
           in == Listing(Arriving(o, f))
           tokens == TokensIn(f, o)
           outs == OutTokens(f, o, Tx, out)
           ins == InTokens(f, o, Tx, in)
<1>1. /\ Sound(f, o) /\ IsFiniteSet(DOMAIN o.placed) /\ IsFiniteSet(DOMAIN o.detached)
      /\ Cardinality(DOMAIN o.detached) <= MaxOps
  BY DEF Compilable
<1>2. Detaching(f, o) \subseteq DOMAIN o.detached /\ Arriving(o, f) \subseteq DOMAIN o.placed
  BY DEF Detaching, Arriving, Attached, Placements
<1>3. IsFiniteSet(Detaching(f, o)) /\ IsFiniteSet(Arriving(o, f))
  BY <1>1, <1>2, FS_Subset
<1>4. Lists(out, Detaching(f, o)) /\ Lists(in, Arriving(o, f))
  BY <1>3, ListingIs
<1>5. PICK n \in Nat : DOMAIN out = 1 .. n /\ \A k \in 1 .. n : out[k] \in Detaching(f, o)
  BY <1>4, ListingSeq
<1>6. PICK m \in Nat : DOMAIN in = 1 .. m /\ \A k \in 1 .. m : in[k] \in Arriving(o, f)
  BY <1>4, ListingSeq
<1> HIDE DEF out, in
<1>7. n <= MaxOps /\ Len(out) = n
  <2>1. n <= MaxOps
    BY <1>1, <1>2, <1>3, <1>4, <1>5, FewLeave
  <2>2. out \in Seq(Detaching(f, o))
    BY <1>4 DEF Lists
  <2>3. Len(out) \in Nat /\ DOMAIN out = 1 .. Len(out)
    BY <2>2
  <2>4. \A i, j \in Nat : 1 .. i = 1 .. j => i = j
    OBVIOUS
  <2> QED BY <1>5, <2>1, <2>3, <2>4
<1>8. outs = [k \in 1 .. n |-> OutToken(f, o, out, k)]
  BY <1>5 DEF OutTokens, OutToken
<1>9. ins = [k \in 1 .. m |-> ins[k]]
  BY <1>6 DEF InTokens
<1>10. \A k \in 1 .. m : Coming(f, o, ins[k], in[k])
  <2> SUFFICES ASSUME NEW k \in 1 .. m PROVE Coming(f, o, ins[k], in[k])
    OBVIOUS
  <2>1. ins[k] = [kind |-> o.placed[in[k]].kind, id |-> Stat(f, StagedPath(Tx, o.placed[in[k]])),
                  locs |-> Two(PrivateLoc(f, StagedPath(Tx, o.placed[in[k]])), FinalLoc(f, o, Tx, in[k]))]
    BY <1>6 DEF InTokens, Two
  <2> PICK x : x = PrivateLoc(f, StagedPath(Tx, o.placed[in[k]]))
    OBVIOUS
  <2> PICK y : y = FinalLoc(f, o, Tx, in[k])
    OBVIOUS
  <2>2. ins[k].locs = Two(x, y) /\ ins[k].kind = o.placed[in[k]].kind
        /\ ins[k].id = Stat(f, StagedPath(Tx, o.placed[in[k]]))
    BY <2>1
  <2>4. Len(Two(x, y)) = 2 /\ DOMAIN Two(x, y) = 1 .. 2 /\ Two(x, y)[1] = x /\ Two(x, y)[2] = y
    BY ONLY TwoLocs
  <2> PICK l : l = Two(x, y)
    OBVIOUS
  <2>3. Len(l) = 2 /\ DOMAIN l = 1 .. 2 /\ l[1] = x /\ l[2] = y
    BY <2>4
  <2> QED BY <1>6, <2>2, <2>3 DEF Coming
<1>11. \A k \in 1 .. n : Leaving(f, o, outs[k], k, out[k]) /\ EndsAs(f, o, outs[k], out[k])
  <2> SUFFICES ASSUME NEW k \in 1 .. n
               PROVE  Leaving(f, o, outs[k], k, out[k]) /\ EndsAs(f, o, outs[k], out[k])
    OBVIOUS
  <2>1. k \in 1 .. MaxOps
    BY <1>7, StagingAssumption
  <2> QED BY <1>1, <1>5, <1>8, <2>1, OutTokenIs
<1>12. tokens = outs \o ins
  BY DEF TokensIn, out, in
<1> HIDE DEF tokens, outs, ins
<1>13. /\ DOMAIN tokens = 1 .. n + m
       /\ \A i \in 1 .. n : tokens[i] = outs[i]
       /\ \A k \in 1 .. m : tokens[n + k] = ins[k]
  <2> DEFINE S == {outs[k] : k \in 1 .. n} \union {ins[k] : k \in 1 .. m}
  <2>1. outs \in [1 .. n -> S] /\ ins \in [1 .. m -> S]
    BY <1>8, <1>9
  <2> HIDE DEF S
  <2> PICK s \in [1 .. n -> S] : s = outs
    BY <2>1
  <2> PICK t \in [1 .. m -> S] : t = ins
    BY <2>1
  <2>2. tokens = s \o t
    BY <1>12
  <2>3. /\ DOMAIN (s \o t) = 1 .. n + m
        /\ \A i \in 1 .. n : (s \o t)[i] = s[i]
        /\ \A k \in 1 .. m : (s \o t)[n + k] = t[k]
    BY JoinedIs
  <2> PICK st : st = s \o t
    OBVIOUS
  <2>4. /\ DOMAIN st = 1 .. n + m
        /\ \A i \in 1 .. n : st[i] = s[i]
        /\ \A k \in 1 .. m : st[n + k] = t[k]
    BY <2>3
  <2>5. tokens = st /\ outs = s /\ ins = t
    BY <2>2
  <2> QED BY <2>4, <2>5
<1>14. \A t \in 1 .. n : OutAt(f, o, tokens, out, t, out[t])
  BY <1>5, <1>11, <1>13 DEF OutAt
<1>15. \A k \in 1 .. m : InAt(f, o, tokens, out, in, n + k, in[k])
  BY <1>6, <1>7, <1>10, <1>13 DEF InAt
<1>16. \A t \in 1 .. n + m : t \in 1 .. n \/ \E k \in 1 .. m : t = n + k
  <2> SUFFICES ASSUME NEW t \in 1 .. n + m, t \notin 1 .. n PROVE \E k \in 1 .. m : t = n + k
    OBVIOUS
  <2>1. t - n \in 1 .. m /\ t = n + (t - n)
    OBVIOUS
  <2> QED BY <2>1
<1>17. \A t \in DOMAIN tokens : (\E b : OutAt(f, o, tokens, out, t, b))
                                \/ (\E p : InAt(f, o, tokens, out, in, t, p))
  <2> SUFFICES ASSUME NEW t \in DOMAIN tokens
               PROVE  (\E b : OutAt(f, o, tokens, out, t, b))
                      \/ (\E p : InAt(f, o, tokens, out, in, t, p))
    OBVIOUS
  <2>1. CASE t \in 1 .. n
    BY <1>14, <2>1
  <2>2. CASE t \notin 1 .. n
    <3>1. PICK k \in 1 .. m : t = n + k
      BY <1>13, <1>16, <2>2
    <3>2. InAt(f, o, tokens, out, in, t, in[k])
      BY <1>15, <3>1
    <3> QED BY <3>2
  <2> QED BY <2>1, <2>2
<1>18. \A t, u \in DOMAIN tokens : \A b :
         OutAt(f, o, tokens, out, t, b) /\ OutAt(f, o, tokens, out, u, b) => t = u
  BY <1>4 DEF OutAt, Lists
<1>19. \A t, u \in DOMAIN tokens : \A p :
         InAt(f, o, tokens, out, in, t, p) /\ InAt(f, o, tokens, out, in, u, p) => t = u
  BY <1>4 DEF InAt, Lists
<1>20. n + m \in Nat
  OBVIOUS
<1>21. Parted(f, o, tokens, out, in)
  BY <1>13, <1>17, <1>18, <1>19, <1>20 DEF Parted
<1> QED BY <1>21 DEF tokens

\* Where a base entry leaves from.
LeftFrom(f, o, Z, b) ==
  /\ GoodPath(b) /\ ~ IsPrivate(b) /\ b \in DOMAIN o.detached /\ b \notin Noops(f, o)
  /\ o.detached[b].id = Stat(f, b) /\ Stat(f, b) \notin Z /\ Stat(f, b) # NoIno
  /\ o.detached[b].kind = f.kind[Stat(f, b)]

\* What leaves is a base entry outside the private directory, in a directory of the base, and
\* detached by the overlay.
LEMMA DetachingIs ==
  ASSUME NEW f, NEW o, NEW Z, Compilable(f, o, Z), NEW b \in Detaching(f, o)
  PROVE  LeftFrom(f, o, Z, b)
<1>1. b \in DOMAIN o.detached /\ b \notin Noops(f, o)
  BY DEF Detaching
<1>2. /\ b \in Path /\ UserPath(b) /\ Len(b) < DepthBound /\ Stat(f, b) # NoIno
      /\ o.detached[b].id = Stat(f, b) /\ o.detached[b].kind = f.kind[Stat(f, b)]
  BY <1>1 DEF Compilable, NotedIn
<1>3. b # <<>> /\ ~ IsPrivate(b)
  BY <1>2 DEF UserPath, Root
<1>4. Len(b) \in Nat /\ Len(b) # 0
  BY <1>2, <1>3, PathFacts
<1>5. Len(b) \in 1 .. DepthBound
  BY <1>2, <1>4, BoundIs
<1>6. Stat(f, b) \notin Z
  BY <1>2, <1>3 DEF Compilable, OutsideIs
<1> QED BY <1>1, <1>2, <1>3, <1>5, <1>6 DEF LeftFrom, GoodPath

\* Where an entry comes to.
LEMMA AttachedIs ==
  ASSUME NEW f, NEW o, NEW Z, Compilable(f, o, Z), NEW p \in Placements(o)
  PROVE  GoodPath(p) /\ ~ IsPrivate(p) /\ Resolve(f, o, p) = o.placed[p]
<1>1. p \in DOMAIN o.placed /\ Sound(f, o)
  BY DEF Placements, Compilable
<1>2. p \in Path /\ p # <<>> /\ Resolve(f, o, p) = o.placed[p]
  BY <1>1, PlacedIsShown
<1>3. ~ IsPrivate(p)
  BY <1>1 DEF Sound, InShape, UserPath
<1>4. Len(p) < DepthBound
  BY DEF Compilable, EntriesKnown
<1>5. Len(p) \in Nat /\ Len(p) # 0
  BY <1>2, PathFacts
<1>6. Len(p) \in 1 .. DepthBound
  BY <1>4, <1>5, BoundIs
<1> QED BY <1>2, <1>3, <1>6 DEF GoodPath

\* What comes is a blob or a new directory, with a name of its own in the staged directory.
LEMMA ArrivingIs ==
  ASSUME NEW f, NEW o, NEW Z, Compilable(f, o, Z), NEW p \in Arriving(o, f)
  PROVE  /\ p \in Attached(f, o) /\ p \in FromStaged(o) /\ o.placed[p].from \in {"blob", "new"}
         /\ o.placed[p].kind = "dir" => o.placed[p].from = "new"
         /\ InHome(StagedPath(Tx, o.placed[p]), StagedHome)
         /\ \A q \in Arriving(o, f) :
              StagedPath(Tx, o.placed[p]) = StagedPath(Tx, o.placed[q]) => p = q
<1>1. p \in Attached(f, o) /\ p \in FromStaged(o)
      /\ \A q \in Arriving(o, f) : q \in FromStaged(o)
  BY DEF Arriving, FromStaged, Attached
<1>2. \A q \in FromStaged(o) :
        /\ StagedName(o.placed[q]) \in Name /\ o.placed[q].from \in {"blob", "new"}
        /\ o.placed[q].from = "blob" => o.placed[q].kind = "file"
        /\ \A r \in FromStaged(o) : StagedName(o.placed[r]) = StagedName(o.placed[q]) => r = q
  BY DEF Compilable, EntriesKnown, FromStaged
<1>3. \A q \in FromStaged(o) : StagedPath(Tx, o.placed[q]) = Append(StagedHome, StagedName(o.placed[q]))
  BY StagedPathIs
<1>4. InHome(StagedPath(Tx, o.placed[p]), StagedHome)
  BY <1>1, <1>2, <1>3, InHomeIs
<1>5. ASSUME NEW q \in Arriving(o, f), StagedPath(Tx, o.placed[p]) = StagedPath(Tx, o.placed[q])
      PROVE  p = q
  <2>1. Append(StagedHome, StagedName(o.placed[p])) = Append(StagedHome, StagedName(o.placed[q]))
    BY <1>1, <1>3, <1>5
  <2>2. StagedName(o.placed[p]) = StagedName(o.placed[q])
    BY <1>1, <1>2, <2>1, InHomeIs
  <2> QED BY <1>1, <1>2, <2>2
<1>6. "file" # "dir"
  OBVIOUS
<1> QED BY <1>1, <1>2, <1>4, <1>5, <1>6

\* The directory an entry comes into: one of the base, or one that comes in itself.
IntoBase(f, o, p, e) ==
  /\ e.from = "base" /\ e.origin \in Path /\ ~ IsPrivate(e.origin)
  /\ ViewParentId(f, o, Tx, p) = Stat(f, e.origin)
  /\ \A b \in Detaching(f, o) : b = e.origin => Parent(p) \in Attached(f, o)
                                               /\ IsBaseAt(o.placed[Parent(p)], b)
IntoNew(f, o, p, e) ==
  /\ Parent(p) \in Arriving(o, f) /\ o.placed[Parent(p)] = e /\ e.from = "new"
  /\ ViewParentId(f, o, Tx, p) = Stat(f, StagedPath(Tx, e))

\* The empty path is the root.
LEMMA RootStat ==
  ASSUME NEW f
  PROVE  Stat(f, Root) = RootIno
BY InoAtRoot DEF Stat, Root

\* The parent of what is attached is a directory, of the base or a new one, that is there when it
\* is attached.
LEMMA ParentIs ==
  ASSUME NEW f, NEW o, NEW Z, Compilable(f, o, Z), NEW p \in Attached(f, o),
         NEW e, e = Resolve(f, o, Parent(p))
  PROVE  e.kind = "dir" /\ (IntoBase(f, o, p, e) \/ IntoNew(f, o, p, e))
<1>1. p \in Placements(o) /\ p \in DOMAIN o.placed /\ Sound(f, o)
  BY DEF Attached, Placements, Compilable
<1>2. GoodPath(p) /\ ~ IsPrivate(p)
  BY <1>1, AttachedIs
<1>3. Parent(p) \in Path /\ ~ IsPrivate(Parent(p))
  BY <1>2, ParentOutside DEF GoodPath
<1>4. e.kind = "dir"
  BY <1>1 DEF Sound, InShape
<1> PICK q \in Path : q = Parent(p)
  BY <1>3
<1>5. CASE e.from = "base"
  <2>1. ViewParentId(f, o, Tx, p) = e.id
    BY <1>5 DEF ViewParentId
  <2>2. CASE q = <<>>
    <3>1. e = TopEntry
      BY <2>2, ResolveRoot
    <3>2. e.origin = <<>> /\ e.id = RootIno
      BY <3>1 DEF TopEntry, Base, NoEntry, Root
    <3>3. \A b \in Detaching(f, o) : b # <<>>
      BY DetachingIs DEF LeftFrom, GoodPath
    <3>4. <<>> \in Path /\ ~ IsPrivate(<<>>)
      BY PathFacts DEF IsPrivate, Root
    <3>5. Stat(f, <<>>) = RootIno
      BY RootStat DEF Root
    <3>6. IntoBase(f, o, p, e)
      BY <1>5, <2>1, <3>2, <3>3, <3>4, <3>5 DEF IntoBase
    <3> QED BY <1>4, <3>6
  <2>3. CASE q # <<>>
    <3>1. IsBase(f, e)
      BY <1>1, <1>5, <2>3, ShownIs
    <3>2. e.origin \in Path /\ ~ IsPrivate(e.origin) /\ e = BaseLookup(f, e.origin)
      BY <3>1 DEF IsBase, UserPath
    <3>3. e # NoEntry
      BY <1>5, BaseIs
    <3>4. e.id = Stat(f, e.origin)
      BY <3>2, <3>3 DEF BaseLookup, Base, NoEntry
    <3>5. ASSUME NEW b \in Detaching(f, o), b = e.origin
          PROVE  q \in Attached(f, o) /\ IsBaseAt(o.placed[q], b)
      <4>1. b \in DOMAIN o.detached /\ b \notin Noops(f, o)
        BY DEF Detaching
      <4>2. PICK w \in Path, c \in Name : q = Down(w, c)
        BY <2>3, DownFrom
      <4>3. Resolve(f, o, Down(w, c)) = e /\ Resolve(f, o, Down(w, c)).from = "base"
        BY <1>5, <4>2
      <4>7. \/ Down(w, c) \in DOMAIN o.placed /\ Resolve(f, o, Down(w, c)) = o.placed[Down(w, c)]
            \/ Resolve(f, o, Down(w, c)).origin \notin DOMAIN o.detached
        BY <1>1, <4>3, WhereFrom
      <4>4. q \in DOMAIN o.placed /\ e = o.placed[q]
        BY <3>5, <4>1, <4>2, <4>3, <4>7
      <4>5. q \in Placements(o) /\ IsBaseAt(o.placed[q], b)
        BY <1>5, <3>3, <3>5, <4>4 DEF Placements, IsBaseAt
      <4>6. q \notin Noops(f, o)
        BY <1>5, <3>5, <4>1, <4>4 DEF Noops, IsBaseAt
      <4> QED BY <4>5, <4>6 DEF Attached
    <3>6. IntoBase(f, o, p, e)
      BY <1>5, <2>1, <3>2, <3>4, <3>5 DEF IntoBase
    <3> QED BY <1>4, <3>6
  <2> QED BY <2>2, <2>3
<1>6. CASE e.from # "base"
  <2>1. q # <<>>
    <3>1. q = <<>> => e = TopEntry
      BY ResolveRoot
    <3> QED BY <1>6, <3>1 DEF TopEntry, Base, NoEntry
  <2>2. PICK w \in Path, c \in Name : q = Down(w, c)
    BY <2>1, DownFrom
  <2>3. e = Child(f, o, Resolve(f, o, w), q, c)
    BY <2>2, ResolveNext
  <2>4. e # NoEntry
    BY <1>4 DEF NoEntry
  <2>5. q \in DOMAIN o.placed /\ e = o.placed[q]
    <3> PICK d : d = Resolve(f, o, w)
      OBVIOUS
    <3>1. Kept(f, o, d, c) = NoEntry \/ Kept(f, o, d, c) = BaseLookup(f, Down(d.origin, c))
      BY DEF Kept
    <3>2. BaseLookup(f, Down(d.origin, c)) # NoEntry => BaseLookup(f, Down(d.origin, c)).from = "base"
      BY BaseIs
    <3>3. Kept(f, o, d, c) # e
      BY <1>6, <2>4, <3>1, <3>2
    <3>4. e = Child(f, o, d, q, c)
      BY <2>3
    <3> PICK kept : kept = Kept(f, o, d, c)
      OBVIOUS
    <3>5. e = IF d.kind # "dir" THEN NoEntry ELSE IF q \in DOMAIN o.placed THEN o.placed[q] ELSE kept
      BY <3>4 DEF Child
    <3>6. kept # e
      BY <3>3
    <3> QED BY <2>4, <3>5, <3>6
  <2>6. q \in Placements(o)
    BY <2>4, <2>5 DEF Placements
  <2>7. e.from = "new"
    <3>1. e.from \in {"base", "blob", "new"} /\ (e.from = "blob" => e.kind = "file")
      BY <2>5, <2>6 DEF Compilable, EntriesKnown
    <3> QED BY <1>4, <1>6, <3>1
  <2>8. q \in Arriving(o, f)
    BY <1>6, <2>5, <2>6 DEF Arriving, Attached, Noops, IsBaseAt
  <2>9. ViewParentId(f, o, Tx, p) = Stat(f, StagedPath(Tx, e))
    BY <1>6 DEF ViewParentId
  <2>10. IntoNew(f, o, p, e)
    BY <2>5, <2>7, <2>8, <2>9 DEF IntoNew
  <2> QED BY <1>4, <2>10
<1> QED BY <1>5, <1>6

-----------------------------------------------------------------------------
(* That plan is sane. *)

\* What is known of the token of an entry that leaves b ...
Leaver(f, o, Z, tok, k, b) ==
  /\ LeftFrom(f, o, Z, b) /\ b \in Detaching(f, o) /\ k \in 1 .. MaxOps
  /\ tok.id = Stat(f, b) /\ tok.kind = f.kind[Stat(f, b)]
  /\ Len(tok.locs) \in {2, 3} /\ DOMAIN tok.locs = 1 .. Len(tok.locs)
  /\ tok.locs[1].path = b /\ tok.locs[1].parent = Stat(f, Parent(b))
  /\ tok.locs[2].path = BackupPath(Tx, k) /\ tok.locs[2].parent = Stat(f, BackupHome)
  /\ InHome(BackupPath(Tx, k), BackupHome)
  /\ Len(tok.locs) = 2 => \A p \in Attached(f, o) : ~ IsBaseAt(o.placed[p], b)
  /\ Len(tok.locs) = 3 =>
       /\ tok.locs[3].path \in Attached(f, o) /\ IsBaseAt(o.placed[tok.locs[3].path], b)
       /\ tok.locs[3].parent = ViewParentId(f, o, Tx, tok.locs[3].path)

\* ... and of one that comes to p.
Comer(f, o, tok, p) ==
  /\ p \in Arriving(o, f)
  /\ tok.id = Stat(f, StagedPath(Tx, o.placed[p])) /\ tok.kind = o.placed[p].kind
  /\ Len(tok.locs) = 2 /\ DOMAIN tok.locs = 1 .. Len(tok.locs)
  /\ tok.locs[1].path = StagedPath(Tx, o.placed[p]) /\ tok.locs[1].parent = Stat(f, StagedHome)
  /\ tok.locs[2].path = p /\ tok.locs[2].parent = ViewParentId(f, o, Tx, p)

\* A token of what leaves: its locations, the inodes it names, and its moves.
LEMMA LeaverIs ==
  ASSUME NEW f, NEW o, NEW Z, Compilable(f, o, Z), NEW tok, NEW k, NEW b,
         Leaving(f, o, tok, k, b), EndsAs(f, o, tok, b)
  PROVE  Leaver(f, o, Z, tok, k, b)
<1>1. LeftFrom(f, o, Z, b) /\ k \in 1 .. MaxOps /\ b \in Detaching(f, o)
  BY DetachingIs DEF Leaving
<1>2. ToString(k) \in Name
  BY <1>1, NamesAssumption DEF Name
<1>3. InHome(BackupPath(Tx, k), BackupHome)
  BY <1>2, BackupPathIs, InHomeIs
<1>4. /\ tok.locs[1].path = b /\ tok.locs[1].parent = Stat(f, Parent(b))
      /\ tok.locs[2].path = BackupPath(Tx, k) /\ tok.locs[2].parent = Stat(f, Parent(BackupPath(Tx, k)))
  BY DEF Leaving, PrivateLoc, Loc
<1>5. /\ DOMAIN tok.locs = 1 .. Len(tok.locs)
      /\ tok.kind = o.detached[b].kind /\ tok.id = o.detached[b].id
  BY DEF Leaving
<1>6. /\ Len(tok.locs) \in {2, 3}
      /\ Len(tok.locs) = 2 => \A p \in Attached(f, o) : ~ IsBaseAt(o.placed[p], b)
  BY DEF EndsAs
<1>7. Len(tok.locs) = 3 =>
        /\ tok.locs[3].path \in Attached(f, o) /\ IsBaseAt(o.placed[tok.locs[3].path], b)
        /\ tok.locs[3].parent = ViewParentId(f, o, Tx, tok.locs[3].path)
  <2> SUFFICES ASSUME Len(tok.locs) = 3
               PROVE  /\ tok.locs[3].path \in Attached(f, o) /\ IsBaseAt(o.placed[tok.locs[3].path], b)
                      /\ tok.locs[3].parent = ViewParentId(f, o, Tx, tok.locs[3].path)
    OBVIOUS
  <2>1. PICK p \in Attached(f, o) : IsBaseAt(o.placed[p], b) /\ tok.locs[3] = FinalLoc(f, o, Tx, p)
    BY DEF EndsAs
  <2>2. tok.locs[3].path = p /\ tok.locs[3].parent = ViewParentId(f, o, Tx, p)
    BY <2>1 DEF FinalLoc, Loc
  <2> QED BY <2>1, <2>2
<1>8. tok.id = Stat(f, b) /\ tok.kind = f.kind[Stat(f, b)]
  BY <1>1, <1>5 DEF LeftFrom
<1>9. tok.locs[2].parent = Stat(f, BackupHome)
  BY <1>3, <1>4 DEF InHome
<1> QED BY <1>1, <1>3, <1>4, <1>5, <1>6, <1>7, <1>8, <1>9 DEF Leaver

\* A token of what comes: its locations, the inodes it names, and its move.
LEMMA ComerIs ==
  ASSUME NEW f, NEW o, NEW Z, Compilable(f, o, Z), NEW tok, NEW p, Coming(f, o, tok, p)
  PROVE  Comer(f, o, tok, p)
<1>1. p \in Arriving(o, f)
  BY DEF Coming
<1>2. InHome(StagedPath(Tx, o.placed[p]), StagedHome)
  BY <1>1, ArrivingIs
<1>3. /\ tok.locs[1].path = StagedPath(Tx, o.placed[p])
      /\ tok.locs[1].parent = Stat(f, Parent(StagedPath(Tx, o.placed[p])))
      /\ tok.locs[2].path = p /\ tok.locs[2].parent = ViewParentId(f, o, Tx, p)
  BY DEF Coming, PrivateLoc, FinalLoc, Loc
<1>4. tok.locs[1].parent = Stat(f, StagedHome)
  BY <1>2, <1>3 DEF InHome
<1>5. /\ tok.kind = o.placed[p].kind /\ tok.id = Stat(f, StagedPath(Tx, o.placed[p]))
      /\ Len(tok.locs) = 2 /\ DOMAIN tok.locs = 1 .. Len(tok.locs)
  BY DEF Coming
<1> QED BY <1>1, <1>3, <1>4, <1>5 DEF Comer

\* Two or three locations are numbered 1, 2 and 3.
LEMMA UpToThree ==
  ASSUME NEW n \in {2, 3}, NEW i \in 1 .. n
  PROVE  i = 1 \/ i = 2 \/ (i = 3 /\ n = 3)
OBVIOUS

\* Each is a move.
LEMMA LeaverMoves ==
  ASSUME NEW f, NEW o, NEW Z, Compilable(f, o, Z), NEW tok, NEW k, NEW b, Leaver(f, o, Z, tok, k, b)
  PROVE  IsMove(tok)
<1>1. GoodPath(b) /\ ~ IsPrivate(b)
  BY DEF Leaver, LeftFrom
<1>2. GoodPath(tok.locs[2].path) /\ IsPrivate(tok.locs[2].path) /\ tok.locs[1].path = b
  BY DEF Leaver, InHome, GoodPath
<1>3. Len(tok.locs) \in {2, 3} /\ DOMAIN tok.locs = 1 .. Len(tok.locs)
  BY DEF Leaver
<1>4. Len(tok.locs) = 3 => GoodPath(tok.locs[3].path) /\ ~ IsPrivate(tok.locs[3].path)
  BY AttachedIs DEF Leaver, Attached
<1>5. \A i \in 1 .. Len(tok.locs) : GoodPath(tok.locs[i].path)
  <2> SUFFICES ASSUME NEW i \in 1 .. Len(tok.locs) PROVE GoodPath(tok.locs[i].path)
    OBVIOUS
  <2>1. i = 1 \/ i = 2 \/ (i = 3 /\ Len(tok.locs) = 3)
    BY <1>3, UpToThree
  <2> QED BY <1>1, <1>2, <1>4, <2>1
<1> QED BY <1>1, <1>2, <1>3, <1>4, <1>5 DEF IsMove, GoodPath

\* What comes makes one step, into the tree.
LEMMA ComerMoves ==
  ASSUME NEW f, NEW o, NEW Z, Compilable(f, o, Z), NEW tok, NEW p, Comer(f, o, tok, p)
  PROVE  IsMove(tok)
<1>1. p \in Arriving(o, f) /\ p \in Placements(o)
  BY DEF Comer, Arriving, Attached
<1>2. GoodPath(tok.locs[1].path) /\ IsPrivate(tok.locs[1].path)
  BY <1>1, ArrivingIs DEF Comer, InHome, GoodPath
<1>3. GoodPath(tok.locs[2].path) /\ ~ IsPrivate(tok.locs[2].path)
  BY <1>1, AttachedIs DEF Comer
<1>4. Len(tok.locs) = 2 /\ DOMAIN tok.locs = 1 .. Len(tok.locs)
  BY DEF Comer
<1>5. \A i \in 1 .. Len(tok.locs) : GoodPath(tok.locs[i].path)
  <2> SUFFICES ASSUME NEW i \in 1 .. Len(tok.locs) PROVE GoodPath(tok.locs[i].path)
    OBVIOUS
  <2>1. i = 1 \/ i = 2
    BY <1>4
  <2> QED BY <1>2, <1>3, <2>1
<1> QED BY <1>2, <1>3, <1>4, <1>5 DEF IsMove, GoodPath

\* What a location of a token is: where its entry leaves from, a place in .fstx, or where it ends.
FirstOf(f, o, tok, l, i, b) == i = 1 /\ l.path = b /\ ~ IsPrivate(b) /\ l.parent = Stat(f, Parent(b))
AwayAt(f, l, home, c) ==
  /\ l.path = Append(home, c) /\ c \in Name /\ InHome(l.path, home) /\ l.parent = Stat(f, home)
EndAt(f, o, tok, l, i) ==
  /\ i = Len(tok.locs) /\ i # 1 /\ l.path \in Attached(f, o) /\ GoodPath(l.path)
  /\ ~ IsPrivate(l.path) /\ l.parent = ViewParentId(f, o, Tx, l.path)

\* A location of what leaves is its place in the base, its backup, or where it is shown.
LEMMA LeaverLocs ==
  ASSUME NEW f, NEW o, NEW Z, Compilable(f, o, Z), NEW tok, NEW k, NEW b,
         Leaver(f, o, Z, tok, k, b), NEW i \in DOMAIN tok.locs, NEW l, l = tok.locs[i]
  PROVE  \/ FirstOf(f, o, tok, l, i, b)
         \/ AwayAt(f, l, BackupHome, ToString(k))
         \/ EndAt(f, o, tok, l, i) /\ IsBaseAt(o.placed[l.path], b)
<1>1. i = 1 \/ i = 2 \/ (i = 3 /\ Len(tok.locs) = 3)
  BY UpToThree DEF Leaver
<1>2. CASE i = 1
  BY <1>2 DEF Leaver, FirstOf, LeftFrom
<1>3. CASE i = 2
  <2>1. k \in 1 .. MaxOps
    BY DEF Leaver
  <2>2. ToString(k) \in Name
    BY <2>1, NamesAssumption DEF Name
  <2>3. BackupPath(Tx, k) = Append(BackupHome, ToString(k))
    BY <2>2, BackupPathIs
  <2> QED BY <1>3, <2>2, <2>3 DEF Leaver, AwayAt
<1>4. CASE i = 3 /\ Len(tok.locs) = 3
  <2>1. /\ l.path \in Attached(f, o) /\ IsBaseAt(o.placed[l.path], b)
        /\ l.parent = ViewParentId(f, o, Tx, l.path)
    BY <1>4 DEF Leaver
  <2>2. GoodPath(l.path) /\ ~ IsPrivate(l.path)
    BY <2>1, AttachedIs DEF Attached
  <2> QED BY <1>4, <2>1, <2>2 DEF EndAt
<1> QED BY <1>1, <1>2, <1>3, <1>4

\* A location of what comes is its staged name, or where it is shown.
LEMMA ComerLocs ==
  ASSUME NEW f, NEW o, NEW Z, Compilable(f, o, Z), NEW tok, NEW p, Comer(f, o, tok, p),
         NEW i \in DOMAIN tok.locs, NEW l, l = tok.locs[i]
  PROVE  \/ i = 1 /\ AwayAt(f, l, StagedHome, StagedName(o.placed[p]))
         \/ EndAt(f, o, tok, l, i) /\ l.path = p
<1>1. i = 1 \/ i = 2
  <2>1. i \in 1 .. 2
    BY DEF Comer
  <2> QED BY <2>1, UpToThree
<1>2. p \in Arriving(o, f) /\ p \in FromStaged(o) /\ p \in Attached(f, o) /\ p \in Placements(o)
  BY DEF Comer, Arriving, FromStaged, Attached
<1>3. CASE i = 1
  <2>1. StagedName(o.placed[p]) \in Name
    BY <1>2 DEF Compilable, EntriesKnown
  <2>2. StagedPath(Tx, o.placed[p]) = Append(StagedHome, StagedName(o.placed[p]))
    BY StagedPathIs
  <2>3. InHome(StagedPath(Tx, o.placed[p]), StagedHome)
    BY <1>2, ArrivingIs
  <2> QED BY <1>3, <2>1, <2>2, <2>3 DEF Comer, AwayAt
<1>4. CASE i = 2
  <2>1. GoodPath(p) /\ ~ IsPrivate(p)
    BY <1>2, AttachedIs
  <2> QED BY <1>2, <1>4, <2>1 DEF Comer, EndAt
<1> QED BY <1>1, <1>3, <1>4

\* The tokens of a plan.
Known(f, o, Z, tokens, out, in) ==
  /\ Parted(f, o, tokens, out, in)
  /\ \A t \in DOMAIN tokens :
       /\ \A b : OutAt(f, o, tokens, out, t, b) => Leaver(f, o, Z, tokens[t], t, b)
       /\ \A p : InAt(f, o, tokens, out, in, t, p) => Comer(f, o, tokens[t], p)

\* Every token is known: it leaves for its backup, or it comes from its staged name.
LEMMA TokensKnown ==
  ASSUME NEW f, NEW o, NEW Z, Compilable(f, o, Z)
  PROVE  \E out, in : Known(f, o, Z, TokensIn(f, o), out, in)
<1>1. PICK out, in : Parted(f, o, TokensIn(f, o), out, in)
  BY TokensParted
<1> PICK tokens : tokens = TokensIn(f, o)
  OBVIOUS
<1>2. \A t \in DOMAIN tokens : \A b :
        OutAt(f, o, tokens, out, t, b) => Leaver(f, o, Z, tokens[t], t, b)
  BY LeaverIs DEF OutAt
<1>3. \A t \in DOMAIN tokens : \A p :
        InAt(f, o, tokens, out, in, t, p) => Comer(f, o, tokens[t], p)
  BY ComerIs DEF InAt
<1>4. Known(f, o, Z, tokens, out, in)
  BY <1>1, <1>2, <1>3 DEF Known
<1> QED BY <1>4

\* All tokens move.
LEMMA AllMove ==
  ASSUME NEW f, NEW o, NEW Z, Compilable(f, o, Z), NEW tokens, NEW out, NEW in,
         Known(f, o, Z, tokens, out, in)
  PROVE  Moving(tokens)
<1>1. ASSUME NEW t \in DOMAIN tokens PROVE IsMove(tokens[t])
  <2>1. CASE \E b : OutAt(f, o, tokens, out, t, b)
    BY <2>1, LeaverMoves DEF Known
  <2>2. CASE \E p : InAt(f, o, tokens, out, in, t, p)
    BY <2>2, ComerMoves DEF Known
  <2> QED BY <2>1, <2>2 DEF Known, Parted
<1> QED BY <1>1 DEF Moving, Known, Parted

\* No two tokens are to be at one place, but for one that leaves it and one that comes to it.
ApartAt(l, i, m, j) == l.path = m.path => ~ IsPrivate(l.path) /\ ~ (i = 1 <=> j = 1)

\* Two entries that leave never have the same location at the same time.
LEMMA LeaversApart ==
  ASSUME NEW f, NEW o, NEW Z, Compilable(f, o, Z), NEW t1, NEW k1, NEW b1, Leaver(f, o, Z, t1, k1,
         b1),
         NEW t2, NEW k2, NEW b2, Leaver(f, o, Z, t2, k2, b2), k1 # k2, b1 # b2,
         NEW i \in DOMAIN t1.locs, NEW j \in DOMAIN t2.locs,
         NEW l, l = t1.locs[i], NEW m, m = t2.locs[j]
  PROVE  ApartAt(l, i, m, j)
<1>1. \/ FirstOf(f, o, t1, l, i, b1) \/ AwayAt(f, l, BackupHome, ToString(k1))
      \/ EndAt(f, o, t1, l, i) /\ IsBaseAt(o.placed[l.path], b1)
  BY LeaverLocs
<1>2. \/ FirstOf(f, o, t2, m, j, b2) \/ AwayAt(f, m, BackupHome, ToString(k2))
      \/ EndAt(f, o, t2, m, j) /\ IsBaseAt(o.placed[m.path], b2)
  BY LeaverLocs
<1>3. CASE AwayAt(f, l, BackupHome, ToString(k1)) /\ AwayAt(f, m, BackupHome, ToString(k2))
  <2>1. k1 \in 1 .. MaxOps /\ k2 \in 1 .. MaxOps
    BY DEF Leaver
  <2>2. ToString(k1) # ToString(k2)
    BY <2>1, NamesAssumption
  <2>3. ToString(k1) \in Name /\ ToString(k2) \in Name
    BY <1>3 DEF AwayAt
  <2>4. Append(BackupHome, ToString(k1)) # Append(BackupHome, ToString(k2))
    BY <2>2, <2>3, InHomeIs
  <2> QED BY <1>3, <2>4 DEF AwayAt, ApartAt
<1>4. CASE AwayAt(f, l, BackupHome, ToString(k1)) /\ ~ AwayAt(f, m, BackupHome, ToString(k2))
  <2>1. IsPrivate(l.path) /\ ~ IsPrivate(m.path)
    BY <1>2, <1>4 DEF AwayAt, InHome, FirstOf, EndAt
  <2> QED BY <2>1 DEF ApartAt
<1>5. CASE ~ AwayAt(f, l, BackupHome, ToString(k1)) /\ AwayAt(f, m, BackupHome, ToString(k2))
  <2>1. ~ IsPrivate(l.path) /\ IsPrivate(m.path)
    BY <1>1, <1>5 DEF AwayAt, InHome, FirstOf, EndAt
  <2> QED BY <2>1 DEF ApartAt
<1>6. CASE FirstOf(f, o, t1, l, i, b1) /\ FirstOf(f, o, t2, m, j, b2)
  BY <1>6 DEF FirstOf, ApartAt
<1>7. CASE FirstOf(f, o, t1, l, i, b1) /\ EndAt(f, o, t2, m, j)
  BY <1>7 DEF FirstOf, EndAt, ApartAt
<1>8. CASE EndAt(f, o, t1, l, i) /\ FirstOf(f, o, t2, m, j, b2)
  BY <1>8 DEF FirstOf, EndAt, ApartAt
<1>9. CASE /\ EndAt(f, o, t1, l, i) /\ IsBaseAt(o.placed[l.path], b1)
           /\ EndAt(f, o, t2, m, j) /\ IsBaseAt(o.placed[m.path], b2)
  BY <1>9 DEF IsBaseAt, ApartAt
<1> QED BY <1>1, <1>2, <1>3, <1>4, <1>5, <1>6, <1>7, <1>8, <1>9

\* What leaves and what comes never have the same location at the same time.
LEMMA LeaverComerApart ==
  ASSUME NEW f, NEW o, NEW Z, Compilable(f, o, Z), NEW t1, NEW k, NEW b, Leaver(f, o, Z, t1, k, b),
         NEW t2, NEW p, Comer(f, o, t2, p),
         NEW i \in DOMAIN t1.locs, NEW j \in DOMAIN t2.locs,
         NEW l, l = t1.locs[i], NEW m, m = t2.locs[j]
  PROVE  ApartAt(l, i, m, j) /\ ApartAt(m, j, l, i)
<1> DEFINE c == StagedName(o.placed[p])
<1>1. \/ FirstOf(f, o, t1, l, i, b) \/ AwayAt(f, l, BackupHome, ToString(k))
      \/ EndAt(f, o, t1, l, i) /\ IsBaseAt(o.placed[l.path], b)
  BY LeaverLocs
<1>2. \/ j = 1 /\ AwayAt(f, m, StagedHome, c)
      \/ EndAt(f, o, t2, m, j) /\ m.path = p
  BY ComerLocs
<1> HIDE DEF c
<1>3. CASE AwayAt(f, l, BackupHome, ToString(k)) /\ AwayAt(f, m, StagedHome, c)
  <2>1. Append(BackupHome, ToString(k)) # Append(StagedHome, c)
    <3>1. BackupHome # StagedHome
      BY HomesAre
    <3>2. ToString(k) \in Name /\ c \in Name
      BY <1>3 DEF AwayAt
    <3> QED BY <3>1, <3>2, InHomeIs
  <2> QED BY <1>3, <2>1 DEF AwayAt, ApartAt
<1>4. CASE AwayAt(f, l, BackupHome, ToString(k)) /\ ~ AwayAt(f, m, StagedHome, c)
  <2>1. IsPrivate(l.path) /\ ~ IsPrivate(m.path)
    BY <1>2, <1>4 DEF AwayAt, InHome, EndAt
  <2> QED BY <2>1 DEF ApartAt
<1>5. CASE ~ AwayAt(f, l, BackupHome, ToString(k)) /\ AwayAt(f, m, StagedHome, c)
  <2>1. ~ IsPrivate(l.path) /\ IsPrivate(m.path)
    BY <1>1, <1>5 DEF AwayAt, InHome, FirstOf, EndAt
  <2> QED BY <2>1 DEF ApartAt
<1>6. CASE FirstOf(f, o, t1, l, i, b) /\ EndAt(f, o, t2, m, j)
  BY <1>6 DEF FirstOf, EndAt, ApartAt
<1>7. CASE EndAt(f, o, t1, l, i) /\ IsBaseAt(o.placed[l.path], b) /\ m.path = p
  <2>1. o.placed[p].from # "base" /\ o.placed[l.path].from = "base"
    BY <1>7 DEF Comer, Arriving, IsBaseAt
  <2> QED BY <1>7, <2>1 DEF ApartAt
<1> QED BY <1>1, <1>2, <1>3, <1>4, <1>5, <1>6, <1>7

\* Two entries that come never have the same location at the same time.
LEMMA ComersApart ==
  ASSUME NEW f, NEW o, NEW Z, Compilable(f, o, Z), NEW t1, NEW p, Comer(f, o, t1, p),
         NEW t2, NEW q, Comer(f, o, t2, q), p # q,
         NEW i \in DOMAIN t1.locs, NEW j \in DOMAIN t2.locs,
         NEW l, l = t1.locs[i], NEW m, m = t2.locs[j]
  PROVE  ApartAt(l, i, m, j)
<1> DEFINE c == StagedName(o.placed[p])
           d == StagedName(o.placed[q])
<1>1. \/ i = 1 /\ AwayAt(f, l, StagedHome, c)
      \/ EndAt(f, o, t1, l, i) /\ l.path = p
  BY ComerLocs
<1>2. \/ j = 1 /\ AwayAt(f, m, StagedHome, d)
      \/ EndAt(f, o, t2, m, j) /\ m.path = q
  BY ComerLocs
<1>3. p \in Arriving(o, f) /\ q \in Arriving(o, f)
  BY DEF Comer
<1>4. c # d
  <2>1. StagedPath(Tx, o.placed[p]) # StagedPath(Tx, o.placed[q])
    BY <1>3, ArrivingIs
  <2> QED BY <2>1, StagedPathIs
<1> HIDE DEF c, d
<1>5. CASE AwayAt(f, l, StagedHome, c) /\ AwayAt(f, m, StagedHome, d)
  <2>1. Append(StagedHome, c) # Append(StagedHome, d)
    BY <1>4, <1>5, InHomeIs DEF AwayAt
  <2> QED BY <1>5, <2>1 DEF AwayAt, ApartAt
<1>6. CASE AwayAt(f, l, StagedHome, c) /\ EndAt(f, o, t2, m, j)
  <2>1. IsPrivate(l.path) /\ ~ IsPrivate(m.path)
    BY <1>6 DEF AwayAt, InHome, EndAt
  <2> QED BY <2>1 DEF ApartAt
<1>7. CASE EndAt(f, o, t1, l, i) /\ AwayAt(f, m, StagedHome, d)
  <2>1. ~ IsPrivate(l.path) /\ IsPrivate(m.path)
    BY <1>7 DEF AwayAt, InHome, EndAt
  <2> QED BY <2>1 DEF ApartAt
<1>8. CASE l.path = p /\ m.path = q
  BY <1>8 DEF ApartAt
<1> QED BY <1>1, <1>2, <1>5, <1>6, <1>7, <1>8

\* No two tokens have the same location at the same time.
LEMMA AllApart ==
  ASSUME NEW f, NEW o, NEW Z, Compilable(f, o, Z), NEW tokens, NEW out, NEW in,
         Known(f, o, Z, tokens, out, in)
  PROVE  Apart(tokens)
<1> SUFFICES ASSUME NEW t \in DOMAIN tokens, NEW u \in DOMAIN tokens, t # u,
                    NEW i \in DOMAIN tokens[t].locs, NEW j \in DOMAIN tokens[u].locs
             PROVE  ApartAt(tokens[t].locs[i], i, tokens[u].locs[j], j)
  BY DEF Apart, ApartAt
<1> DEFINE Out(v, b) == OutAt(f, o, tokens, out, v, b)
           In(v, p) == InAt(f, o, tokens, out, in, v, p)
<1>1. \A v \in DOMAIN tokens : (\E b : Out(v, b)) \/ (\E p : In(v, p))
  BY DEF Known, Parted
<1>2. \A v \in DOMAIN tokens : /\ \A b : Out(v, b) => Leaver(f, o, Z, tokens[v], v, b)
                               /\ \A p : In(v, p) => Comer(f, o, tokens[v], p)
  BY DEF Known
<1>3. \A b : ~ (Out(t, b) /\ Out(u, b))
  BY DEF Known, Parted
<1>4. \A p : ~ (In(t, p) /\ In(u, p))
  BY DEF Known, Parted
<1> HIDE DEF Out, In
<1>5. CASE (\E b : Out(t, b)) /\ (\E b : Out(u, b))
  <2>1. PICK b1, b2 : Out(t, b1) /\ Out(u, b2)
    BY <1>5
  <2>2. b1 # b2 /\ Leaver(f, o, Z, tokens[t], t, b1) /\ Leaver(f, o, Z, tokens[u], u, b2)
    BY <1>2, <1>3, <2>1
  <2> QED BY <2>2, LeaversApart
<1>6. CASE (\E b : Out(t, b)) /\ (\E p : In(u, p))
  <2>1. PICK b, p : Leaver(f, o, Z, tokens[t], t, b) /\ Comer(f, o, tokens[u], p)
    BY <1>2, <1>6
  <2> QED BY <2>1, LeaverComerApart
<1>7. CASE (\E p : In(t, p)) /\ (\E b : Out(u, b))
  <2>1. PICK b, p : Leaver(f, o, Z, tokens[u], u, b) /\ Comer(f, o, tokens[t], p)
    BY <1>2, <1>7
  <2> QED BY <2>1, LeaverComerApart
<1>8. CASE (\E p : In(t, p)) /\ (\E p : In(u, p))
  <2>1. PICK p, q : In(t, p) /\ In(u, q)
    BY <1>8
  <2>2. p # q /\ Comer(f, o, tokens[t], p) /\ Comer(f, o, tokens[u], q)
    BY <1>2, <1>4, <2>1
  <2> QED BY <2>2, ComersApart
<1> QED BY <1>1, <1>5, <1>6, <1>7, <1>8

\* The inode of an entry that leaves is in the tree, that of a directory that comes is in .fstx.
LEMMA LeaverIno ==
  ASSUME NEW f, NEW o, NEW Z, Compilable(f, o, Z), NEW u, NEW k, NEW b, Leaver(f, o, Z, u, k, b)
  PROVE  /\ u.id \notin Z /\ u.id # NoIno
         /\ \A d \in Path : ~ IsPrivate(d) /\ u.kind = "dir" /\ u.id = Stat(f, d) => b = d
<1>1. b \in Path /\ ~ IsPrivate(b) /\ u.id = Stat(f, b) /\ u.kind = f.kind[Stat(f, b)]
  BY DEF Leaver, LeftFrom, GoodPath
<1>2. Stat(f, b) \notin Z /\ Stat(f, b) # NoIno
  BY DEF Leaver, LeftFrom
<1>3. OnePath(f)
  BY DEF Compilable
<1> QED BY <1>1, <1>2, <1>3 DEF OnePath

\* The inode of a new directory is in the transaction directory, and is none of its directories.
LEMMA ComerIno ==
  ASSUME NEW f, NEW o, NEW Z, Compilable(f, o, Z), NEW u, NEW p, Comer(f, o, u, p), u.kind = "dir"
  PROVE  /\ u.id \in Z /\ u.id # NoIno /\ u.id # Stat(f, StagedHome) /\ u.id # Stat(f, BackupHome)
         /\ o.placed[p].from = "new" /\ p \in Placements(o)
         /\ u.id = Stat(f, StagedPath(Tx, o.placed[p]))
<1>1. p \in Arriving(o, f) /\ o.placed[p].kind = "dir" /\ u.id = Stat(f, StagedPath(Tx, o.placed[p]))
  BY DEF Comer
<1>2. o.placed[p].from = "new" /\ p \in Placements(o)
  BY <1>1, ArrivingIs DEF Attached
<1>3. u.id \in Z \ {Stat(f, StagedHome), Stat(f, BackupHome)}
  BY <1>1, <1>2 DEF Compilable, NewDirsMade
<1> QED BY <1>1, <1>2, <1>3 DEF Compilable, OutsideIs

\* No token is ever one of the directories of .fstx.
LEMMA HomeIsNoToken ==
  ASSUME NEW f, NEW o, NEW Z, Compilable(f, o, Z), NEW l, NEW home \in {StagedHome, BackupHome},
         NEW c,
         AwayAt(f, l, home, c), NEW i, NEW u,
         (\E k, b : Leaver(f, o, Z, u, k, b)) \/ (\E p : Comer(f, o, u, p))
  PROVE  ParentsAgree(l, i, u)
<1>1. IsPrivate(l.path) /\ Parent(l.path) = home /\ l.parent = Stat(f, home)
  BY DEF AwayAt, InHome
<1>2. Stat(f, home) \in Z \union {NoIno}
  BY DEF Compilable, HomesIn
<1>3. Len(home) = 3 /\ IsPrivate(home)
  <2>1. Len(home) = 3 /\ home[1] = PrivateDir
    BY HomesAre
  <2>2. home # <<>>
    <3>1. Len(<<>>) = 0
      OBVIOUS
    <3> QED BY <2>1, <3>1
  <2> QED BY <2>1, <2>2 DEF IsPrivate, Root
<1>4. ASSUME NEW j \in DOMAIN u.locs PROVE u.locs[j].path # home
  <2> PICK m : m = u.locs[j]
    OBVIOUS
  <2>1. (~ IsPrivate(m.path)) \/ Len(m.path) = 4
    <3>1. CASE \E k, b : Leaver(f, o, Z, u, k, b)
      <4>1. PICK k, b : Leaver(f, o, Z, u, k, b)
        BY <3>1
      <4>2. \/ FirstOf(f, o, u, m, j, b) \/ AwayAt(f, m, BackupHome, ToString(k))
            \/ EndAt(f, o, u, m, j) /\ IsBaseAt(o.placed[m.path], b)
        BY <4>1, LeaverLocs
      <4> QED BY <4>2 DEF FirstOf, AwayAt, EndAt, InHome
    <3>2. CASE \E p : Comer(f, o, u, p)
      <4>1. PICK p : Comer(f, o, u, p)
        BY <3>2
      <4>2. \/ j = 1 /\ AwayAt(f, m, StagedHome, StagedName(o.placed[p]))
            \/ EndAt(f, o, u, m, j) /\ m.path = p
        BY <4>1, ComerLocs
      <4> QED BY <4>2 DEF AwayAt, EndAt, InHome
    <3> QED BY <3>1, <3>2
  <2>2. m.path # home
    BY <1>3, <2>1
  <2> QED BY <2>2
<1>5. u.kind = "dir" => u.id # Stat(f, home)
  <2>1. CASE \E k, b : Leaver(f, o, Z, u, k, b)
    BY <1>2, <2>1, LeaverIno
  <2>2. CASE \E p : Comer(f, o, u, p)
    BY <2>2, ComerIno
  <2> QED BY <2>1, <2>2
<1> QED BY <1>1, <1>4, <1>5 DEF ParentsAgree

\* The directory that an entry leaves is the token that leaves that place, if it is one.
LEMMA FirstAgrees ==
  ASSUME NEW f, NEW o, NEW Z, Compilable(f, o, Z), NEW t, NEW l, NEW i, NEW b, GoodPath(b),
         FirstOf(f, o, t, l, i, b), NEW u,
         (\E k, d : Leaver(f, o, Z, u, k, d)) \/ (\E p : Comer(f, o, u, p))
  PROVE  ParentsAgree(l, i, u)
<1>1. i = 1 /\ l.path = b /\ ~ IsPrivate(b) /\ l.parent = Stat(f, Parent(b))
  BY DEF FirstOf
<1>2. Parent(b) \in Path /\ ~ IsPrivate(Parent(b))
  BY <1>1, ParentOutside DEF GoodPath
<1>3. EndOf(u, i) = u.locs[1]
  BY <1>1 DEF EndOf
<1>4. Stat(f, Parent(b)) \notin Z
  BY <1>2 DEF Compilable, OutsideIs
<1>5. CASE \E k, d : Leaver(f, o, Z, u, k, d)
  <2>1. PICK k, d : Leaver(f, o, Z, u, k, d)
    BY <1>5
  <2>2. u.locs[1].path = d /\ u.id = Stat(f, d)
    BY <2>1 DEF Leaver
  <2>3. u.kind = "dir" /\ u.id = Stat(f, Parent(b)) => d = Parent(b)
    BY <1>2, <2>1, LeaverIno
  <2> QED BY <1>1, <1>3, <2>2, <2>3 DEF ParentsAgree
<1>6. CASE \E p : Comer(f, o, u, p)
  <2>1. PICK p : Comer(f, o, u, p)
    BY <1>6
  <2>2. u.kind = "dir" => u.id \in Z
    BY <2>1, ComerIno
  <2>3. IsPrivate(u.locs[1].path)
    BY <2>1, ArrivingIs DEF Comer, InHome
  <2> QED BY <1>1, <1>2, <1>3, <1>4, <2>2, <2>3 DEF ParentsAgree
<1> QED BY <1>5, <1>6

\* The last location of an entry that leaves.
LEMMA LastOfLeaver ==
  ASSUME NEW f, NEW o, NEW Z, Compilable(f, o, Z), NEW u, NEW k, NEW b, Leaver(f, o, Z, u, k, b),
         NEW x \in Placements(o), NEW i, i # 1
  PROVE  EndOf(u, i).path = x <=> x \in Attached(f, o) /\ IsBaseAt(o.placed[x], b)
<1>1. Len(u.locs) \in {2, 3} /\ EndOf(u, i) = u.locs[Len(u.locs)]
  BY DEF Leaver, EndOf
<1>2. CASE Len(u.locs) = 2
  <2>1. IsPrivate(EndOf(u, i).path)
    BY <1>1, <1>2 DEF Leaver, InHome
  <2>2. ~ IsPrivate(x)
    BY AttachedIs
  <2>3. \A p \in Attached(f, o) : ~ IsBaseAt(o.placed[p], b)
    BY <1>2 DEF Leaver
  <2> QED BY <2>1, <2>2, <2>3
<1>3. CASE Len(u.locs) = 3
  <2> PICK y : y = EndOf(u, i).path
    OBVIOUS
  <2>1. y \in Attached(f, o) /\ IsBaseAt(o.placed[y], b)
    BY <1>1, <1>3 DEF Leaver
  <2>2. x \in Attached(f, o) /\ IsBaseAt(o.placed[x], b) => x = y
    BY <2>1, EndsOnce DEF Compilable
  <2> QED BY <2>1, <2>2
<1> QED BY <1>1, <1>2, <1>3

\* The directory that an entry comes into is the token that comes to that place, if it is one.
LEMMA EndAgrees ==
  ASSUME NEW f, NEW o, NEW Z, Compilable(f, o, Z), NEW t, NEW l, NEW i, EndAt(f, o, t, l, i), NEW u,
         (\E k, d : Leaver(f, o, Z, u, k, d)) \/ (\E p : Comer(f, o, u, p))
  PROVE  ParentsAgree(l, i, u)
<1> PICK q : q = l.path
  OBVIOUS
<1> PICK e : e = Resolve(f, o, Parent(q))
  OBVIOUS
<1> PICK d : d = Parent(q)
  OBVIOUS
<1>1. i # 1 /\ q \in Attached(f, o) /\ GoodPath(q) /\ ~ IsPrivate(q) /\ l.parent = ViewParentId(f, o, Tx, q)
  BY DEF EndAt
<1>2. e.kind = "dir" /\ (IntoBase(f, o, q, e) \/ IntoNew(f, o, q, e))
  BY <1>1, ParentIs
<1>3. d \in Path /\ ~ IsPrivate(d)
  BY <1>1, ParentOutside DEF GoodPath
<1> SUFFICES /\ u.kind = "dir" /\ u.id = l.parent => EndOf(u, i).path = d
             /\ EndOf(u, i).path = d => u.id = l.parent
  BY <1>1 DEF ParentsAgree
<1>4. ASSUME NEW p, Comer(f, o, u, p) PROVE EndOf(u, i).path = p /\ p \in Arriving(o, f)
  BY <1>1, <1>4 DEF Comer, EndOf
<1>5. ASSUME NEW k, NEW b, Leaver(f, o, Z, u, k, b) PROVE u.id = Stat(f, b) /\ b \in Detaching(f, o)
  BY <1>5 DEF Leaver
<1>6. ASSUME NEW k, NEW b, Leaver(f, o, Z, u, k, b), EndOf(u, i).path = d
      PROVE  d \in Placements(o) /\ IsBaseAt(o.placed[d], b)
  <2>1. EndOf(u, i) = u.locs[Len(u.locs)] /\ Len(u.locs) \in {2, 3}
    BY <1>1, <1>6 DEF Leaver, EndOf
  <2>2. Len(u.locs) # 2
    <3>1. Len(u.locs) = 2 => IsPrivate(EndOf(u, i).path)
      BY <1>6, <2>1 DEF Leaver, InHome
    <3> QED BY <1>3, <1>6, <3>1
  <2>3. d \in Attached(f, o) /\ IsBaseAt(o.placed[d], b)
    BY <1>6, <2>1, <2>2 DEF Leaver
  <2> QED BY <2>3 DEF Attached
<1>7. CASE IntoBase(f, o, q, e)
  <2>1. /\ e.from = "base" /\ e.origin \in Path /\ ~ IsPrivate(e.origin) /\ l.parent = Stat(f, e.origin)
        /\ \A b \in Detaching(f, o) : b = e.origin => d \in Attached(f, o) /\ IsBaseAt(o.placed[d], b)
    BY <1>1, <1>7 DEF IntoBase
  <2>2. CASE \E k, b : Leaver(f, o, Z, u, k, b)
    <3>1. PICK k, b : Leaver(f, o, Z, u, k, b)
      BY <2>2
    <3>2. ASSUME u.kind = "dir", u.id = l.parent PROVE EndOf(u, i).path = d
      <4>1. b = e.origin
        BY <2>1, <3>1, <3>2, LeaverIno
      <4>2. d \in Attached(f, o) /\ IsBaseAt(o.placed[d], b) /\ d \in Placements(o)
        BY <1>5, <2>1, <3>1, <4>1 DEF Attached
      <4> QED BY <1>1, <3>1, <4>2, LastOfLeaver
    <3>3. ASSUME EndOf(u, i).path = d PROVE u.id = l.parent
      <4>1. d \in Placements(o) /\ IsBaseAt(o.placed[d], b)
        BY <1>6, <3>1, <3>3
      <4>2. e = o.placed[d]
        BY <4>1, AttachedIs
      <4>3. e.origin = b
        BY <4>1, <4>2 DEF IsBaseAt
      <4> QED BY <1>5, <2>1, <3>1, <4>3
    <3> QED BY <3>2, <3>3
  <2>3. CASE \E p : Comer(f, o, u, p)
    <3>1. PICK p : Comer(f, o, u, p)
      BY <2>3
    <3>2. ~ (u.kind = "dir" /\ u.id = l.parent)
      <4>1. Stat(f, e.origin) \notin Z
        BY <2>1 DEF Compilable, OutsideIs
      <4> QED BY <2>1, <3>1, <4>1, ComerIno
    <3>3. EndOf(u, i).path # d
      <4>1. SUFFICES ASSUME p = d PROVE FALSE
        BY <1>4, <3>1
      <4>2. p \in Arriving(o, f) /\ p \in Placements(o) /\ o.placed[p].from # "base"
        BY <1>4, <3>1 DEF Arriving, Attached
      <4>3. e = o.placed[p]
        BY <4>1, <4>2, AttachedIs
      <4> QED BY <2>1, <4>2, <4>3
    <3> QED BY <3>2, <3>3
  <2> QED BY <2>2, <2>3
<1>8. CASE IntoNew(f, o, q, e)
  <2>1. /\ d \in Arriving(o, f) /\ o.placed[d] = e /\ e.from = "new" /\ d \in Placements(o)
        /\ l.parent = Stat(f, StagedPath(Tx, e))
    BY <1>1, <1>8 DEF IntoNew, Arriving, Attached
  <2>2. Stat(f, StagedPath(Tx, e)) \in Z
    BY <2>1 DEF Compilable, NewDirsMade
  <2>3. CASE \E k, b : Leaver(f, o, Z, u, k, b)
    <3>1. PICK k, b : Leaver(f, o, Z, u, k, b)
      BY <2>3
    <3>2. u.id # l.parent
      BY <2>1, <2>2, <3>1, LeaverIno
    <3>3. EndOf(u, i).path # d
      BY <1>6, <2>1, <3>1 DEF IsBaseAt
    <3> QED BY <3>2, <3>3
  <2>4. CASE \E p : Comer(f, o, u, p)
    <3>1. PICK p : Comer(f, o, u, p)
      BY <2>4
    <3>2. ASSUME u.kind = "dir", u.id = l.parent PROVE EndOf(u, i).path = d
      <4>1. /\ o.placed[p].from = "new" /\ p \in Placements(o)
            /\ Stat(f, StagedPath(Tx, o.placed[p])) = Stat(f, StagedPath(Tx, o.placed[d]))
        BY <2>1, <3>1, <3>2, ComerIno
      <4>2. p = d
        BY <2>1, <4>1 DEF Compilable, NewDirsMade
      <4> QED BY <1>4, <3>1, <4>2
    <3>3. ASSUME EndOf(u, i).path = d PROVE u.id = l.parent
      <4>1. p = d
        BY <1>4, <3>1, <3>3
      <4> QED BY <2>1, <3>1, <4>1 DEF Comer
    <3> QED BY <3>2, <3>3
  <2> QED BY <2>3, <2>4
<1> QED BY <1>2, <1>7, <1>8

\* So every parent that is itself a token is in place when it is needed.
LEMMA AllRooted ==
  ASSUME NEW f, NEW o, NEW Z, Compilable(f, o, Z), NEW tokens, NEW out, NEW in,
         Known(f, o, Z, tokens, out, in)
  PROVE  Rooted(tokens)
<1> SUFFICES ASSUME NEW t \in DOMAIN tokens, NEW u \in DOMAIN tokens, NEW i \in DOMAIN tokens[t].locs
             PROVE  ParentsAgree(tokens[t].locs[i], i, tokens[u])
  BY DEF Rooted
<1>1. \A v \in DOMAIN tokens : \/ \E k, b : Leaver(f, o, Z, tokens[v], k, b)
                               \/ \E p : Comer(f, o, tokens[v], p)
  BY DEF Known, Parted
<1> PICK tok : tok = tokens[t]
  OBVIOUS
<1> PICK l : l = tok.locs[i]
  OBVIOUS
<1> PICK w : w = tokens[u]
  OBVIOUS
<1>2. (\E k, b : Leaver(f, o, Z, w, k, b)) \/ (\E p : Comer(f, o, w, p))
  BY <1>1
<1>3. CASE \E k, b : Leaver(f, o, Z, tok, k, b)
  <2>1. PICK k, b : Leaver(f, o, Z, tok, k, b)
    BY <1>3
  <2>2. \/ FirstOf(f, o, tok, l, i, b) \/ AwayAt(f, l, BackupHome, ToString(k))
        \/ EndAt(f, o, tok, l, i) /\ IsBaseAt(o.placed[l.path], b)
    BY <2>1, LeaverLocs
  <2>3. GoodPath(b)
    BY <2>1 DEF Leaver, LeftFrom
  <2>4. ParentsAgree(l, i, w)
    BY <1>2, <2>2, <2>3, FirstAgrees, HomeIsNoToken, EndAgrees
  <2> QED BY <2>4
<1>4. CASE \E p : Comer(f, o, tok, p)
  <2>1. PICK p : Comer(f, o, tok, p)
    BY <1>4
  <2>2. \/ i = 1 /\ AwayAt(f, l, StagedHome, StagedName(o.placed[p]))
        \/ EndAt(f, o, tok, l, i) /\ l.path = p
    BY <2>1, ComerLocs
  <2>3. ParentsAgree(l, i, w)
    BY <1>2, <2>2, HomeIsNoToken, EndAgrees
  <2> QED BY <2>3
<1> QED BY <1>1, <1>3, <1>4

\* The plan made from what can be compiled passes the validation that the engine runs before it
\* writes the journal.
LEMMA CompiledIsSane ==
  ASSUME NEW f, NEW o, NEW Z, Compilable(f, o, Z)
  PROVE  Sane(TokensIn(f, o)) /\ Validate(Compile(f, o, Tx))
<1>1. PICK out, in : Known(f, o, Z, TokensIn(f, o), out, in)
  BY TokensKnown
<1>2. Sane(TokensIn(f, o))
  BY <1>1, AllMove, AllApart, AllRooted DEF Sane
<1>3. Validate(PlanFor(TokensIn(f, o)))
  BY <1>2, SanePlanIsValid
<1> QED BY <1>2, <1>3, CompileIs
=============================================================================
