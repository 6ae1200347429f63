------------------------- MODULE ProgressLogProofs -------------------------
(* Proofs about ProgressLog, for any records and any number of appends, failures and power losses:  *)
(* what parse finds, that it finds what was synced and nothing that was not begun, and that the     *)
(* file is the set of records that the other modules take the log to be.                            *)
EXTENDS ProgressLog, TLAPS, WellFoundedInduction

-----------------------------------------------------------------------------
(* What parse finds. *)

Symbol == Junk \union {Checksum(r) : r \in Records}

\* A record stands at i.
Whole(b, i, r) == b[i] = Magic /\ b[i + 1] = Kind(r) /\ b[i + 2] = Checksum(r)

\* The records that stand anywhere from i on.
From(b, i) == {r \in Records : \E j \in i .. Len(b) - 2 : Whole(b, j, r)}

\* What stands at i, and what the scan finds from where it goes on.
ScanAt(f, b, i) ==
  IF i + LEN - 1 > Len(b) THEN {}
  ELSE LET found == {r \in Records : Valid(b, i, r)}
       IN  found \union f[IF found # {} THEN i + LEN ELSE i + 1]

IsScan(f, b) == f = [i \in 1 .. Len(b) + LEN |-> ScanAt(f, b, i)]

\* No symbol of a record is one of another kind.
LEMMA SymbolsDiffer ==
  /\ \A r : Magic # Kind(r) /\ Magic # Checksum(r)
  /\ \A r, s : Kind(r) # Checksum(s)
  /\ \A r, s : Checksum(r) = Checksum(s) => r = s
  /\ \A r : Checksum(r) \notin Junk
<1>1. Len(Magic) = 1 /\ \A r : Len(Kind(r)) = 2 /\ Len(Checksum(r)) = 2
  BY DEF Magic, Kind, Checksum
<1>2. \A r : Kind(r)[1] = "kind and wave" /\ Checksum(r)[1] = "checksum" /\ Checksum(r)[2] = r
  BY DEF Kind, Checksum
<1>3. Len(<<"junk">>) = 1 /\ "kind and wave" # "checksum"
  OBVIOUS
<1>4. \A r : Magic # Kind(r) /\ Magic # Checksum(r)
  BY <1>1
<1>5. \A r, s : Kind(r) # Checksum(s)
  BY <1>2, <1>3
<1>6. ASSUME NEW r, NEW s, Checksum(r) = Checksum(s) PROVE r = s
  <2>1. Checksum(r)[2] = r /\ Checksum(s)[2] = s
    BY DEF Checksum
  <2> QED
    BY <1>6, <2>1
<1>7. \A r : Checksum(r) # <<"junk">>
  BY <1>1, <1>3
<1> QED
  BY <1>4, <1>5, <1>6, <1>7 DEF Junk

\* The test of parse at one place, a comparison of three symbols with an encoding.
LEMMA ValidIsWhole ==
  ASSUME NEW S, NEW b \in Seq(S), NEW i \in 1 .. Len(b) - 2, NEW r
  PROVE  Valid(b, i, r) <=> Whole(b, i, r)
<1> DEFINE s == SubSeq(b, i, i + 2)
           t == encode(r)
<1>1. DOMAIN s = 1 .. 3 /\ s[1] = b[i] /\ s[2] = b[i + 1] /\ s[3] = b[i + 2]
  OBVIOUS
<1>2. s \in Seq(S) /\ Len(s) = 3
  OBVIOUS
<1>3. t = <<Magic, Kind(r), Checksum(r)>>
  BY DEF encode
<1>4. s = t <=> s[1] = Magic /\ s[2] = Kind(r) /\ s[3] = Checksum(r)
  <2> HIDE DEF s
  <2>1. s = <<s[1], s[2], s[3]>>
    BY <1>2
  <2> QED
    BY <1>3, <2>1
<1>5. i + LEN - 1 = i + 2
  BY DEF LEN
<1> QED
  BY <1>1, <1>4, <1>5 DEF Valid, Whole

\* parse returns what its scan has found at the first symbol.
LEMMA ParseIsAScan ==
  ASSUME NEW b
  PROVE  parse(b) = (CHOOSE f : IsScan(f, b))[1]
BY DEF parse, IsScan, ScanAt

\* The scan is a function, and it finds at each place the records that stand from there on: behind
\* the start of a record there is no start of another before its end.
LEMMA ScanExists ==
  ASSUME NEW S, NEW b \in Seq(S)
  PROVE  IsScan([i \in 1 .. Len(b) + LEN |-> From(b, i)], b)
<1> DEFINE f == [i \in 1 .. Len(b) + LEN |-> From(b, i)]
<1>1. ASSUME NEW i \in 1 .. Len(b) + LEN PROVE From(b, i) = ScanAt(f, b, i)
  <2>1. CASE i > Len(b) - 2
    BY <2>1 DEF From, ScanAt, LEN
  <2>2. CASE i <= Len(b) - 2
    <3> DEFINE found == {r \in Records : Valid(b, i, r)}
    <3>1. found = {r \in Records : Whole(b, i, r)}
      BY <2>2, ValidIsWhole
    <3>2. ScanAt(f, b, i) = found \union f[IF found # {} THEN i + LEN ELSE i + 1]
      BY <2>2 DEF ScanAt, LEN
    <3>3. CASE found = {}
      <4>1. ScanAt(f, b, i) = f[i + 1]
        <5> HIDE DEF f, found
        <5> QED
          BY <3>2, <3>3
      <4>2. i + 1 \in 1 .. Len(b) + LEN
        BY <2>2 DEF LEN
      <4>3. From(b, i) = From(b, i + 1)
        BY <3>1, <3>3, <2>2 DEF From
      <4>4. f[i + 1] = From(b, i + 1)
        BY <4>2
      <4> QED
        BY <4>1, <4>3, <4>4
    <3>4. CASE found # {}
      <4>1. ScanAt(f, b, i) = found \union From(b, i + LEN)
        BY <3>2, <3>4, <2>2 DEF LEN
      <4>2. \A r : ~ Whole(b, i + 1, r) /\ ~ Whole(b, i + 2, r)
        BY <3>1, <3>4, SymbolsDiffer DEF Whole
      <4>3. \A j \in i .. Len(b) - 2 : j = i \/ j = i + 1 \/ j = i + 2 \/ j \in i + LEN .. Len(b) - 2
        BY <2>2 DEF LEN
      <4>4. From(b, i) = found \union From(b, i + LEN)
        BY <3>1, <4>2, <4>3, <2>2 DEF From, LEN
      <4> QED
        BY <4>1, <4>4
    <3> QED
      BY <3>3, <3>4
  <2> QED
    BY <2>1, <2>2
<1> QED
  BY <1>1 DEF IsScan

\* A set of natural numbers has a least element: what the proofs by induction of this project use.
LEMMA Least ==
  ASSUME NEW T \in SUBSET Nat, T # {}
  PROVE  \E n \in T : \A k \in T : n <= k
<1> DEFINE R == OpToRel(<, Nat)
<1>1. IsWellFoundedOn(R, Nat)
  BY NatLessThanWellFounded
<1>2. \A k, n \in Nat : k < n => <<k, n>> \in R
  BY DEF OpToRel
<1> HIDE DEF R
<1>3. PICK n \in T : \A k \in T : <<k, n>> \notin R
  BY <1>1, WFMin
<1>4. ASSUME NEW k \in T PROVE n <= k
  <2>1. ~ (k < n)
    BY <1>2, <1>3
  <2> QED
    BY <2>1
<1> QED
  BY <1>4

\* There is no other such function: the scan goes up, and it ends.
LEMMA ScanIsUnique ==
  ASSUME NEW S, NEW b \in Seq(S), NEW f, IsScan(f, b), NEW g, IsScan(g, b)
  PROVE  \A i \in 1 .. Len(b) + LEN : f[i] = g[i]
<1> DEFINE n == Len(b) + LEN
           T == {k \in Nat : \E i \in 1 .. n : k = n - i /\ f[i] # g[i]}
<1> SUFFICES ASSUME NEW i \in 1 .. n, f[i] # g[i] PROVE FALSE
  OBVIOUS
<1>1. n - i \in T
  BY DEF LEN
<1>2. PICK k \in T : \A m \in T : k <= m
  BY <1>1, Least
<1>3. PICK j \in 1 .. n : k = n - j /\ f[j] # g[j]
  BY <1>2
<1>4. f[j] = ScanAt(f, b, j) /\ g[j] = ScanAt(g, b, j)
  BY DEF IsScan
<1>5. j <= Len(b) - 2
  BY <1>3, <1>4 DEF ScanAt, LEN
<1>6. ASSUME NEW m \in {j + 1, j + LEN} PROVE f[m] = g[m]
  <2>1. m \in 1 .. n /\ n - m \in Nat /\ ~ (k <= n - m)
    BY <1>3, <1>5 DEF LEN
  <2>2. n - m \notin T
    BY <1>2, <2>1
  <2> QED
    BY <2>1, <2>2
<1>7. ScanAt(f, b, j) = ScanAt(g, b, j)
  BY <1>6 DEF ScanAt
<1> QED
  BY <1>3, <1>4, <1>7

\* parse finds the records that stand in the file, all of them and nothing else.
LEMMA ParseFindsAll ==
  ASSUME NEW S, NEW b \in Seq(S)
  PROVE  parse(b) = From(b, 1)
<1> DEFINE f == CHOOSE f : IsScan(f, b)
           g == [i \in 1 .. Len(b) + LEN |-> From(b, i)]
<1>1. IsScan(g, b)
  BY ScanExists
<1>2. IsScan(f, b)
  BY <1>1
<1>3. 1 \in 1 .. Len(b) + LEN /\ parse(b) = f[1]
  BY ParseIsAScan DEF LEN
<1>4. g[1] = From(b, 1)
  BY <1>3
<1> HIDE DEF f, g
<1>5. f[1] = g[1]
  BY <1>1, <1>2, <1>3, ScanIsUnique
<1> QED
  BY <1>3, <1>4, <1>5

-----------------------------------------------------------------------------
(* The records that stand in the first n symbols. *)

Standing(b, n) == {r \in Records : \E j \in 1 .. n - 2 : Whole(b, j, r)}

\* What parse returns of a file.
LEMMA ParseIsStanding ==
  ASSUME NEW S, NEW b \in Seq(S)
  PROVE  parse(b) = Standing(b, Len(b))
BY ParseFindsAll DEF From, Standing

\* What parse returns of the first n symbols of a file.
LEMMA ParsePrefix ==
  ASSUME NEW S, NEW b \in Seq(S), NEW n \in 0 .. Len(b)
  PROVE  parse(SubSeq(b, 1, n)) = Standing(b, n)
<1>1. SubSeq(b, 1, n) \in Seq(S) /\ Len(SubSeq(b, 1, n)) = n
  OBVIOUS
<1>2. \A i \in 1 .. n : SubSeq(b, 1, n)[i] = b[i]
  OBVIOUS
<1>3. Standing(SubSeq(b, 1, n), n) = Standing(b, n)
  BY <1>2 DEF Standing, Whole
<1> QED
  BY <1>1, <1>3, ParseIsStanding

\* c is b with a record, or the beginning of one, behind it.
Longer(b, c, r) ==
  /\ Len(b) <= Len(c) /\ Len(c) <= Len(b) + 3
  /\ \A i \in 1 .. Len(b) : c[i] = b[i]
  /\ \A i \in 1 .. Len(c) - Len(b) : c[Len(b) + i] = encode(r)[i]

\* What an append puts behind the file, whole or not, makes a record of nothing that stood there.
LEMMA StandingAppended ==
  ASSUME NEW b \in Seq(Symbol), NEW c \in Seq(Symbol), NEW r \in Records, Longer(b, c, r)
  PROVE  Standing(c, Len(c)) = Standing(b, Len(b)) \union (IF Len(c) = Len(b) + 3 THEN {r} ELSE {})
<1>0. /\ Len(b) <= Len(c) /\ Len(c) <= Len(b) + 3
      /\ \A i \in 1 .. Len(b) : c[i] = b[i]
      /\ \A i \in 1 .. Len(c) - Len(b) : c[Len(b) + i] = encode(r)[i]
  BY DEF Longer
<1>1. Standing(c, Len(b)) = Standing(b, Len(b))
  <2>1. ASSUME NEW j \in 1 .. Len(b) - 2 PROVE c[j] = b[j] /\ c[j + 1] = b[j + 1] /\ c[j + 2] = b[j + 2]
    <3>1. j \in 1 .. Len(b) /\ j + 1 \in 1 .. Len(b) /\ j + 2 \in 1 .. Len(b)
      OBVIOUS
    <3> QED
      BY <1>0, <3>1
  <2> QED
    BY <2>1 DEF Standing, Whole
<1>2. encode(r)[1] = Magic /\ encode(r)[2] = Kind(r) /\ encode(r)[3] = Checksum(r)
  BY DEF encode
<1>3. ASSUME NEW j \in 1 .. Len(c) - 2, j > Len(b) - 2, NEW s, Whole(c, j, s)
      PROVE  Len(c) = Len(b) + 3 /\ s = r
  <2>1. c[j + 2] = Checksum(s) /\ j + 2 > Len(b) /\ j + 2 <= Len(c)
    BY <1>3 DEF Whole
  <2>2. PICK i \in 1 .. 3 : i = j + 2 - Len(b) /\ i <= Len(c) - Len(b) /\ c[j + 2] = encode(r)[i]
    <3>1. /\ j + 2 - Len(b) \in 1 .. Len(c) - Len(b) /\ j + 2 - Len(b) \in 1 .. 3
          /\ Len(b) + (j + 2 - Len(b)) = j + 2
      BY <1>0, <2>1
    <3> QED
      BY <1>0, <3>1
  <2>3. i # 1 /\ i # 2
    <3>1. Magic # Checksum(s) /\ Kind(r) # Checksum(s)
      BY SymbolsDiffer
    <3>2. encode(r)[i] = Checksum(s)
      BY <2>1, <2>2
    <3> QED
      BY <3>1, <3>2, <1>2
  <2>4. i = 3
    BY <2>3
  <2>5. Checksum(s) = Checksum(r)
    BY <2>1, <2>2, <2>4, <1>2
  <2>6. Len(c) = Len(b) + 3
    BY <1>0, <2>2, <2>4
  <2> QED
    BY <2>5, <2>6, SymbolsDiffer
<1>4. ASSUME Len(c) = Len(b) + 3 PROVE Whole(c, Len(b) + 1, r) /\ Len(b) + 1 \in 1 .. Len(c) - 2
  <2>1. c[Len(b) + 1] = encode(r)[1] /\ c[Len(b) + 2] = encode(r)[2] /\ c[Len(b) + 3] = encode(r)[3]
    BY <1>0, <1>4
  <2> QED
    BY <1>2, <1>4, <2>1 DEF Whole
<1>5. \A j \in 1 .. Len(b) - 2 : j \in 1 .. Len(c) - 2
  BY <1>0
<1>6. Standing(c, Len(c)) = Standing(c, Len(b)) \union (IF Len(c) = Len(b) + 3 THEN {r} ELSE {})
  <2>1. Standing(c, Len(b)) \subseteq Standing(c, Len(c))
    BY <1>5 DEF Standing
  <2>2. CASE Len(c) = Len(b) + 3
    <3>1. r \in Standing(c, Len(c))
      BY <1>4, <2>2 DEF Standing
    <3>2. Standing(c, Len(c)) \subseteq Standing(c, Len(b)) \union {r}
      BY <1>3, <2>2 DEF Standing
    <3> QED
      BY <2>1, <2>2, <3>1, <3>2
  <2>3. CASE Len(c) # Len(b) + 3
    <3>1. Standing(c, Len(c)) \subseteq Standing(c, Len(b))
      BY <1>3, <2>3 DEF Standing
    <3> QED
      BY <2>1, <2>3, <3>1
  <2> QED
    BY <2>2, <2>3
<1> QED
  BY <1>1, <1>6

-----------------------------------------------------------------------------
(* The inductive invariant. *)

\* A checksum in the file is that of a record somebody began to append ...
BegunOnly == \A i \in 1 .. Len(file) : \A r : file[i] = Checksum(r) => r \in begun
\* ... and behind what is durable, that of a record that stands there whole.
FreshIsWhole ==
  \A j \in durable + 1 .. Len(file) : \A r :
    file[j] = Checksum(r) => j > 2 /\ Whole(file, j - 2, r)
KeptIsDurable == kept \subseteq Standing(file, durable)
\* What is to be synced is the whole record that was appended.
LastIsWhole ==
  pc = "appended" => Len(file) > 2 /\ \E r \in begun : Whole(file, Len(file) - 2, r)

IInv == TypeOK /\ BegunOnly /\ FreshIsWhole /\ KeptIsDurable /\ LastIsWhole

\* It is enough for what a reader finds.
LEMMA InvFinds == IInv => FindsTheRecords
<1> SUFFICES ASSUME IInv PROVE FindsTheRecords
  OBVIOUS
<1>1. file \in Seq(Symbol) /\ durable \in 0 .. Len(file)
  BY DEF IInv, TypeOK, Symbol
<1>2. parse(file) = Standing(file, Len(file))
  BY <1>1, ParseIsStanding
<1>3. Standing(file, durable) \subseteq Standing(file, Len(file))
  BY <1>1 DEF Standing
<1>4. Standing(file, Len(file)) \subseteq begun
  BY <1>1 DEF IInv, BegunOnly, Standing, Whole
<1> QED
  BY <1>2, <1>3, <1>4 DEF IInv, KeptIsDurable, FindsTheRecords, AcknowledgedIsFound, NothingInvented

\* What the invariant says of types, and of what a reader and a power loss leave to find.
LEMMA Types ==
  ASSUME IInv
  PROVE  /\ file \in Seq(Symbol) /\ Len(file) \in Nat /\ durable \in 0 .. Len(file)
         /\ parse(file) = Standing(file, Len(file))
         /\ parse(SubSeq(file, 1, durable)) = Standing(file, durable)
BY ParseIsStanding, ParsePrefix DEF IInv, TypeOK, Symbol

-----------------------------------------------------------------------------
(* Every step keeps it, and is a step of the set of records. *)

\* The first k elements of a sequence.
LEMMA FirstOfThem ==
  ASSUME NEW S, NEW e \in Seq(S), NEW k \in 0 .. Len(e)
  PROVE  /\ SubSeq(e, 1, k) \in Seq(S) /\ Len(SubSeq(e, 1, k)) = k
         /\ \A i \in 1 .. k : SubSeq(e, 1, k)[i] = e[i]
OBVIOUS

\* The file grows by the first k symbols of a record.
LEMMA FileGrows ==
  ASSUME IInv, NEW r \in Records, NEW k \in 0 .. 3, file' = file \o SubSeq(encode(r), 1, k),
         durable' = durable, begun' = begun \union {r}
  PROVE  /\ file' \in Seq(Symbol) /\ Len(file') = Len(file) + k
         /\ \A i \in 1 .. Len(file) : file'[i] = file[i]
         /\ \A i \in 1 .. k : file'[Len(file) + i] = encode(r)[i]
         /\ BegunOnly' /\ FreshIsWhole'
         /\ Standing(file', durable) = Standing(file, durable)
         /\ Standing(file', Len(file')) =
               Standing(file, Len(file)) \union (IF k = 3 THEN {r} ELSE {})
<1>1. file \in Seq(Symbol) /\ durable \in 0 .. Len(file)
  BY Types
<1>2. /\ encode(r) \in Seq(Symbol) /\ Len(encode(r)) = 3
      /\ encode(r)[1] = Magic /\ encode(r)[2] = Kind(r) /\ encode(r)[3] = Checksum(r)
  BY DEF encode, Symbol, Junk
<1>3. /\ SubSeq(encode(r), 1, k) \in Seq(Symbol) /\ Len(SubSeq(encode(r), 1, k)) = k
      /\ \A i \in 1 .. k : SubSeq(encode(r), 1, k)[i] = encode(r)[i]
  <2>1. k \in 0 .. Len(encode(r))
    BY <1>2
  <2> QED
    BY <1>2, <2>1, FirstOfThem, Zenon
<1>4. /\ file' \in Seq(Symbol) /\ Len(file') = Len(file) + k
      /\ \A i \in 1 .. Len(file) : file'[i] = file[i]
      /\ \A i \in 1 .. k : file'[Len(file) + i] = encode(r)[i]
  <2> DEFINE e == SubSeq(encode(r), 1, k)
  <2>1. e \in Seq(Symbol) /\ Len(e) = k /\ file' = file \o e
    BY <1>3
  <2> HIDE DEF e
  <2>2. \A i \in 1 .. k : file'[Len(file) + i] = e[i]
    BY <1>1, <2>1
  <2>3. \A i \in 1 .. k : e[i] = encode(r)[i]
    BY <1>3 DEF e
  <2> QED
    BY <1>1, <2>1, <2>2, <2>3
<1>5. ASSUME NEW i \in 1 .. Len(file'), i > Len(file), NEW s, file'[i] = Checksum(s)
      PROVE  k = 3 /\ i = Len(file) + 3 /\ s = r
  <2>1. PICK j \in 1 .. k : i = Len(file) + j
    <3>1. i - Len(file) \in 1 .. k /\ i = Len(file) + (i - Len(file))
      BY <1>1, <1>4, <1>5
    <3> QED
      BY <3>1
  <2>2. encode(r)[j] = Checksum(s)
    BY <1>4, <1>5, <2>1
  <2>3. Magic # Checksum(s) /\ Kind(r) # Checksum(s)
    BY SymbolsDiffer
  <2>4. j = 3
    BY <1>2, <2>2, <2>3
  <2>5. Checksum(r) = Checksum(s)
    BY <1>2, <2>2, <2>4
  <2> QED
    BY <2>1, <2>4, <2>5, SymbolsDiffer
<1>6. BegunOnly'
  <2> SUFFICES ASSUME NEW i \in 1 .. Len(file'), NEW s, file'[i] = Checksum(s) PROVE s \in begun'
    BY DEF BegunOnly
  <2>1. CASE i \in 1 .. Len(file)
    BY <2>1, <1>4 DEF IInv, BegunOnly
  <2>2. CASE i > Len(file)
    BY <2>2, <1>5
  <2> QED
    BY <1>1, <1>4, <2>1, <2>2
<1>7. ASSUME k = 3 PROVE Whole(file', Len(file) + 1, r)
  <2>1. /\ file'[Len(file) + 1] = encode(r)[1] /\ file'[Len(file) + 2] = encode(r)[2]
        /\ file'[Len(file) + 3] = encode(r)[3]
    BY <1>4, <1>7
  <2>2. (Len(file) + 1) + 1 = Len(file) + 2 /\ (Len(file) + 1) + 2 = Len(file) + 3
    BY <1>1
  <2> QED
    BY <1>2, <2>1, <2>2 DEF Whole
<1>8. FreshIsWhole'
  <2> SUFFICES ASSUME NEW j \in durable + 1 .. Len(file'), NEW s, file'[j] = Checksum(s)
               PROVE  j > 2 /\ Whole(file', j - 2, s)
    BY DEF FreshIsWhole
  <2>1. CASE j \in 1 .. Len(file)
    <3>1. j > 2 /\ Whole(file, j - 2, s)
      BY <2>1, <1>1, <1>4 DEF IInv, FreshIsWhole
    <3>2. j - 2 \in 1 .. Len(file) /\ j - 1 \in 1 .. Len(file) /\ (j - 2) + 1 = j - 1 /\ (j - 2) + 2 = j
      BY <2>1, <3>1, <1>1
    <3> QED
      BY <2>1, <3>1, <3>2, <1>4 DEF Whole
  <2>2. CASE j > Len(file)
    <3>1. k = 3 /\ j = Len(file) + 3 /\ s = r
      BY <2>2, <1>1, <1>4, <1>5
    <3>2. j - 2 = Len(file) + 1
      BY <3>1, <1>1
    <3> QED
      BY <3>1, <3>2, <1>1, <1>7
  <2> QED
    BY <1>1, <1>4, <2>1, <2>2
<1>9. Standing(file', durable) = Standing(file, durable)
  <2>1. ASSUME NEW j \in 1 .. durable - 2, NEW s PROVE Whole(file', j, s) <=> Whole(file, j, s)
    <3>1. j \in 1 .. Len(file) /\ j + 1 \in 1 .. Len(file) /\ j + 2 \in 1 .. Len(file)
      BY <1>1
    <3> QED
      BY <3>1, <1>4 DEF Whole
  <2> QED
    BY <2>1 DEF Standing
<1>10. Standing(file', Len(file')) = Standing(file, Len(file)) \union (IF k = 3 THEN {r} ELSE {})
  <2>1. Longer(file, file', r)
    BY <1>1, <1>4 DEF Longer
  <2>2. Standing(file', Len(file')) =
          Standing(file, Len(file)) \union (IF Len(file') = Len(file) + 3 THEN {r} ELSE {})
    BY <1>1, <1>4, <2>1, StandingAppended
  <2>3. Len(file') = Len(file) + 3 <=> k = 3
    BY <1>1, <1>4
  <2> QED
    BY <2>2, <2>3
<1> QED
  BY <1>4, <1>6, <1>8, <1>9, <1>10

\* An append puts its record in the file, and makes none durable.
LEMMA AppendStep ==
  ASSUME IInv, NEW r \in Records, AppendProgress(r)
  PROVE  /\ IInv' /\ parse(file') = parse(file) \union {r}
         /\ parse(SubSeq(file', 1, durable')) = parse(SubSeq(file, 1, durable))
<1>1. file' = file \o SubSeq(encode(r), 1, 3)
  <2>1. encode(r) = SubSeq(encode(r), 1, 3)
    BY DEF encode
  <2> QED
    BY <2>1 DEF AppendProgress
<1>2. /\ durable' = durable /\ begun' = begun \union {r} /\ kept' = kept /\ losses' = losses
      /\ appends' = appends + 1 /\ appends < MaxAppends /\ pc' = "appended"
  BY DEF AppendProgress
<1>3. /\ file' \in Seq(Symbol) /\ Len(file') = Len(file) + 3
      /\ \A i \in 1 .. 3 : file'[Len(file) + i] = encode(r)[i]
      /\ BegunOnly' /\ FreshIsWhole' /\ Standing(file', durable) = Standing(file, durable)
      /\ Standing(file', Len(file')) = Standing(file, Len(file)) \union {r}
  BY <1>1, <1>2, FileGrows
<1>4. file \in Seq(Symbol) /\ durable \in 0 .. Len(file) /\ durable \in 0 .. Len(file')
  BY <1>3, Types
<1>5. TypeOK'
  <2>1. file' \in Seq(Junk \union {Checksum(s) : s \in Records}) /\ appends + 1 \in 0 .. MaxAppends
    BY <1>2, <1>3, BoundAssumption DEF Symbol, IInv, TypeOK
  <2> QED
    BY <1>2, <1>4, <2>1 DEF IInv, TypeOK
<1>6. KeptIsDurable'
  BY <1>2, <1>3 DEF IInv, KeptIsDurable
<1>7. LastIsWhole'
  <2>1. /\ file'[Len(file) + 1] = Magic /\ file'[Len(file) + 2] = Kind(r)
        /\ file'[Len(file) + 3] = Checksum(r)
    BY <1>3 DEF encode
  <2>2. Len(file') - 2 = Len(file) + 1 /\ (Len(file) + 1) + 1 = Len(file) + 2
        /\ (Len(file) + 1) + 2 = Len(file) + 3 /\ Len(file') > 2
    BY <1>3, <1>4
  <2>3. Whole(file', Len(file') - 2, r)
    BY <2>1, <2>2 DEF Whole
  <2> QED
    BY <1>2, <2>2, <2>3 DEF LastIsWhole
<1>8. parse(file') = parse(file) \union {r}
  BY <1>3, <1>4, ParseIsStanding
<1>9. parse(SubSeq(file', 1, durable')) = parse(SubSeq(file, 1, durable))
  BY <1>2, <1>3, <1>4, ParsePrefix
<1> QED
  BY <1>3, <1>5, <1>6, <1>7, <1>8, <1>9 DEF IInv

\* One that stops leaves no record: what it wrote is passed over.
LEMMA StopStep ==
  ASSUME IInv, NEW r \in Records, AppendStops(r)
  PROVE  /\ IInv' /\ parse(file') = parse(file)
         /\ parse(SubSeq(file', 1, durable')) = parse(SubSeq(file, 1, durable))
<1>1. PICK k \in 0 .. 2 : file' = file \o SubSeq(encode(r), 1, k)
  BY DEF AppendStops, LEN
<1>2. /\ durable' = durable /\ begun' = begun \union {r} /\ kept' = kept /\ losses' = losses
      /\ appends' = appends + 1 /\ appends < MaxAppends /\ pc' = pc /\ pc = "idle"
  BY DEF AppendStops
<1>3. /\ file' \in Seq(Symbol) /\ Len(file') = Len(file) + k
      /\ BegunOnly' /\ FreshIsWhole' /\ Standing(file', durable) = Standing(file, durable)
      /\ Standing(file', Len(file')) = Standing(file, Len(file))
  <2>1. k \in 0 .. 3 /\ k # 3
    OBVIOUS
  <2> QED
    BY <1>1, <1>2, <2>1, FileGrows
<1>4. file \in Seq(Symbol) /\ durable \in 0 .. Len(file) /\ durable \in 0 .. Len(file')
  BY <1>3, Types
<1>5. TypeOK'
  <2>1. file' \in Seq(Junk \union {Checksum(s) : s \in Records}) /\ appends + 1 \in 0 .. MaxAppends
    BY <1>2, <1>3, BoundAssumption DEF Symbol, IInv, TypeOK
  <2> QED
    BY <1>2, <1>4, <2>1 DEF IInv, TypeOK
<1>6. KeptIsDurable' /\ LastIsWhole'
  BY <1>2, <1>3 DEF IInv, KeptIsDurable, LastIsWhole
<1>7. parse(file') = parse(file)
  BY <1>3, <1>4, ParseIsStanding
<1>8. parse(SubSeq(file', 1, durable')) = parse(SubSeq(file, 1, durable))
  BY <1>2, <1>3, <1>4, ParsePrefix
<1> QED
  BY <1>3, <1>5, <1>6, <1>7, <1>8 DEF IInv

\* A sync makes what is there durable, and with it the record that is acknowledged.
LEMMA SyncStep ==
  ASSUME IInv, Sync
  PROVE  /\ IInv' /\ parse(file') = parse(file)
         /\ parse(SubSeq(file', 1, durable')) = parse(file)
<1>1. /\ file' = file /\ begun' = begun /\ appends' = appends /\ losses' = losses
      /\ durable' = Len(file) /\ kept' = kept \union Pending /\ pc = "appended" /\ pc' = "idle"
  BY DEF Sync
<1>2. file \in Seq(Symbol) /\ Len(file) \in Nat /\ durable \in 0 .. Len(file)
  BY Types
<1>3. Len(file) > 2
  BY <1>1 DEF IInv, LastIsWhole
<1>4. ASSUME NEW r \in Pending
      PROVE  r \in Records /\ r \in begun /\ r \in Standing(file, Len(file))
  <2>1. Len(file) - 2 \in 1 .. Len(file) - 2 /\ Len(file) - LEN + 1 = Len(file) - 2
    BY <1>2, <1>3 DEF LEN
  <2>2. r \in Records /\ Whole(file, Len(file) - 2, r)
    BY <1>2, <2>1, ValidIsWhole DEF Pending
  <2>3. (Len(file) - 2) + 2 = Len(file) /\ Len(file) \in 1 .. Len(file)
    BY <1>2, <1>3
  <2>4. r \in begun
    BY <2>2, <2>3 DEF IInv, BegunOnly, Whole
  <2> QED
    BY <2>1, <2>2, <2>4 DEF Standing
<1>5. Standing(file, durable) \subseteq Standing(file, Len(file))
  BY <1>2 DEF Standing
<1>6. TypeOK'
  BY <1>1, <1>2, <1>4 DEF IInv, TypeOK
<1>7. KeptIsDurable'
  BY <1>1, <1>4, <1>5 DEF IInv, KeptIsDurable
<1>8. BegunOnly' /\ FreshIsWhole' /\ LastIsWhole'
  BY <1>1, <1>2 DEF IInv, BegunOnly, FreshIsWhole, LastIsWhole
<1>9. parse(SubSeq(file', 1, durable')) = parse(file)
  <2>1. Len(file) \in 0 .. Len(file)
    BY <1>2
  <2>2. parse(SubSeq(file, 1, Len(file))) = Standing(file, Len(file))
    BY <1>2, <2>1, ParsePrefix
  <2> QED
    BY <1>1, <1>2, <2>2, ParseIsStanding
<1> QED
  BY <1>1, <1>6, <1>7, <1>8, <1>9 DEF IInv

\* A power loss leaves what was durable, and of the rest no record that was not there: to find one
\* takes its checksum, and behind what is durable a checksum stands behind the rest of its record.
LEMMA LossStep ==
  ASSUME IInv, PowerLoss
  PROVE  /\ IInv' /\ parse(file') \subseteq parse(file)
         /\ parse(SubSeq(file, 1, durable)) \subseteq parse(file')
         /\ parse(SubSeq(file', 1, durable')) = parse(file')
<1>1. /\ begun' = begun /\ kept' = kept /\ appends' = appends /\ pc' = "idle"
      /\ losses < MaxLosses /\ losses' = losses + 1
  BY DEF PowerLoss
<1>2. /\ file \in Seq(Symbol) /\ Len(file) \in Nat /\ durable \in 0 .. Len(file)
      /\ parse(file) = Standing(file, Len(file))
      /\ parse(SubSeq(file, 1, durable)) = Standing(file, durable)
  BY Types
<1>3. PICK n \in durable .. Len(file) :
        \E tail \in [durable + 1 .. n -> Junk \union {file[i] : i \in durable + 1 .. n}] :
          /\ \A i \in durable + 1 .. n : tail[i] \in Junk \union {file[i]}
          /\ file' = [i \in 1 .. n |-> IF i <= durable THEN file[i] ELSE tail[i]]
          /\ durable' = n
  BY DEF PowerLoss
<1>4. PICK tail :
        /\ \A i \in durable + 1 .. n : tail[i] \in Junk \union {file[i]}
        /\ file' = [i \in 1 .. n |-> IF i <= durable THEN file[i] ELSE tail[i]]
        /\ durable' = n
  BY <1>3
<1>5. n \in Nat /\ n <= Len(file) /\ durable <= n
  BY <1>2
<1>6. /\ \A i \in 1 .. durable : file'[i] = file[i]
      /\ \A i \in durable + 1 .. n : file'[i] \in Junk \union {file[i]}
  BY <1>2, <1>4, <1>5
<1>7. file' \in Seq(Symbol) /\ Len(file') = n
  <2>1. ASSUME NEW i \in 1 .. n PROVE file'[i] \in Symbol
    <3>1. file[i] \in Symbol
      BY <1>2, <1>5
    <3>2. Junk \subseteq Symbol
      BY DEF Symbol
    <3>3. i \in 1 .. durable \/ i \in durable + 1 .. n
      BY <1>2, <1>5
    <3> QED
      BY <1>6, <3>1, <3>2, <3>3
  <2>2. file' = [i \in 1 .. n |-> file'[i]]
    BY <1>4
  <2> QED
    BY <1>5, <2>1, <2>2
<1>8. ASSUME NEW i \in 1 .. n, NEW r, file'[i] = Checksum(r) PROVE file[i] = Checksum(r)
  <2>1. i \in 1 .. durable \/ i \in durable + 1 .. n
    BY <1>2, <1>5
  <2>2. Checksum(r) \notin Junk
    BY SymbolsDiffer
  <2> QED
    BY <1>6, <1>8, <2>1, <2>2
<1>9. ASSUME NEW j \in 1 .. n - 2, NEW r, Whole(file', j, r) PROVE Whole(file, j, r)
  <2>1. j + 2 \in 1 .. n /\ file[j + 2] = Checksum(r)
    <3>1. j + 2 \in 1 .. n
      BY <1>5
    <3> QED
      BY <3>1, <1>8, <1>9 DEF Whole
  <2>2. CASE j + 2 \in 1 .. durable
    <3>1. j \in 1 .. durable /\ j + 1 \in 1 .. durable
      BY <2>2, <1>2
    <3> QED
      BY <2>2, <3>1, <1>6, <1>9 DEF Whole
  <2>3. CASE j + 2 \in durable + 1 .. Len(file)
    <3>1. Whole(file, (j + 2) - 2, r)
      BY <2>1, <2>3 DEF IInv, FreshIsWhole
    <3>2. (j + 2) - 2 = j
      OBVIOUS
    <3> QED
      BY <3>1, <3>2
  <2> QED
    BY <1>2, <1>5, <2>1, <2>2, <2>3
<1>10. Standing(file', n) \subseteq Standing(file, Len(file))
  BY <1>5, <1>9 DEF Standing
<1>11. Standing(file, durable) \subseteq Standing(file', n)
  <2>1. ASSUME NEW j \in 1 .. durable - 2, NEW r, Whole(file, j, r)
        PROVE  Whole(file', j, r) /\ j \in 1 .. n - 2
    <3>1. j \in 1 .. durable /\ j + 1 \in 1 .. durable /\ j + 2 \in 1 .. durable /\ j \in 1 .. n - 2
      BY <1>2, <1>5
    <3> QED
      BY <3>1, <1>6, <2>1 DEF Whole
  <2> QED
    BY <2>1 DEF Standing
<1>12. TypeOK'
  <2>1. file' \in Seq(Junk \union {Checksum(s) : s \in Records}) /\ losses + 1 \in 0 .. MaxLosses
    BY <1>1, <1>7, BoundAssumption DEF Symbol, IInv, TypeOK
  <2>2. durable' \in 0 .. Len(file')
    BY <1>4, <1>5, <1>7
  <2> QED
    BY <1>1, <2>1, <2>2 DEF IInv, TypeOK
<1>13. BegunOnly' /\ FreshIsWhole' /\ LastIsWhole'
  <2>1. ASSUME NEW i \in 1 .. Len(file'), NEW r, file'[i] = Checksum(r) PROVE r \in begun'
    <3>1. i \in 1 .. n /\ i \in 1 .. Len(file)
      BY <1>2, <1>5, <1>7
    <3> QED
      BY <2>1, <3>1, <1>1, <1>8 DEF IInv, BegunOnly
  <2>2. durable' + 1 .. Len(file') = {}
    BY <1>4, <1>5, <1>7
  <2> QED
    BY <1>1, <2>1, <2>2 DEF BegunOnly, FreshIsWhole, LastIsWhole
<1>14. KeptIsDurable'
  BY <1>1, <1>4, <1>11 DEF IInv, KeptIsDurable
<1>15. parse(file') = Standing(file', n) /\ parse(SubSeq(file', 1, durable')) = Standing(file', n)
  <2>1. n \in 0 .. Len(file') /\ durable' = n
    BY <1>4, <1>5, <1>7
  <2> QED
    BY <1>7, <2>1, ParseIsStanding, ParsePrefix
<1> QED
  BY <1>2, <1>10, <1>11, <1>12, <1>13, <1>14, <1>15 DEF IInv

\* A sync that fails changes neither the file nor what is durable of it.
LEMMA QuietStep ==
  ASSUME IInv, SyncFails \/ UNCHANGED vars
  PROVE  /\ IInv' /\ file' = file /\ durable' = durable
<1>1. /\ file' = file /\ durable' = durable /\ begun' = begun /\ kept' = kept /\ appends' = appends
      /\ losses' = losses /\ (pc' = "idle" \/ pc' = pc)
  BY DEF SyncFails, vars
<1> QED
  BY <1>1 DEF IInv, TypeOK, BegunOnly, FreshIsWhole, KeptIsDurable, LastIsWhole

\* At first there is nothing, and nothing to find.
LEMMA InitStep ==
  ASSUME Init
  PROVE  IInv /\ parse(file) = {} /\ parse(SubSeq(file, 1, durable)) = {}
<1>1. file = <<>> /\ file \in Seq(Symbol) /\ Len(file) = 0 /\ durable = 0 /\ durable \in 0 .. Len(file)
  BY DEF Init
<1>2. IInv
  BY <1>1, BoundAssumption
  DEF Init, IInv, TypeOK, BegunOnly, FreshIsWhole, KeptIsDurable, LastIsWhole, Symbol
<1>3. Standing(file, 0) = {}
  BY DEF Standing
<1> QED
  BY <1>1, <1>2, <1>3, Types

\* The inductive invariant holds of every reachable state, for any records and any bounds.
THEOREM Invariance == Spec => []IInv
<1>1. IInv /\ [Next]_vars => IInv'
  BY AppendStep, StopStep, SyncStep, LossStep, QuietStep DEF Next
<1> QED
  BY <1>1, InitStep, PTL DEF Spec

\* parse finds what was acknowledged and nothing that was not begun: FindsTheRecords.
THEOREM RecordsAreFound == Spec => []FindsTheRecords
BY Invariance, InvFinds, PTL

-----------------------------------------------------------------------------
(* The file is the set of records. *)

\* Every step writes one record of the set, makes the set durable, or loses what was not.
LEMMA StepImplements ==
  ASSUME IInv, [Next]_vars
  PROVE  [Set!RNext]_<<parse(file), parse(SubSeq(file, 1, durable))>>
<1>1. ASSUME NEW r \in Records, AppendProgress(r)
      PROVE  parse(file)' = parse(file) \union {r}
             /\ parse(SubSeq(file, 1, durable))' = parse(SubSeq(file, 1, durable))
  BY <1>1, AppendStep
<1>2. ASSUME NEW r \in Records, AppendStops(r)
      PROVE  parse(file)' = parse(file)
             /\ parse(SubSeq(file, 1, durable))' = parse(SubSeq(file, 1, durable))
  BY <1>2, StopStep
<1>3. CASE Sync
  BY <1>3, SyncStep DEF Set!RNext, Set!Synced
<1>4. CASE PowerLoss
  BY <1>4, LossStep DEF Set!RNext, Set!LostUnsynced
<1>5. CASE SyncFails \/ UNCHANGED vars
  BY <1>5, QuietStep
<1> QED
  BY <1>1, <1>2, <1>3, <1>4, <1>5 DEF Next, Set!RNext, Set!RecordAppended

\* Every behaviour of the file is one of the set of records: ImplementsRecordLog.
THEOREM FileImplementsRecordLog == Spec => ImplementsRecordLog
<1>1. Init => Set!RInit
  BY InitStep DEF Set!RInit
<1>2. IInv /\ [Next]_vars => [Set!RNext]_<<parse(file), parse(SubSeq(file, 1, durable))>>
  BY StepImplements
<1> QED
  BY <1>1, <1>2, Invariance, PTL DEF Spec, ImplementsRecordLog, Set!RSpec
=============================================================================
