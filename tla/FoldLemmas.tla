---------------------------- MODULE FoldLemmas ----------------------------
(* What a left fold computes.  The model walks paths, replays queues and makes calls one after the  *)
(* other with FoldLeft, whose definition goes through a recursive function on sets of indices; the  *)
(* proofs need it one element at a time.  The operation and its base come as constants, with a      *)
(* parameter x for what the fold reads besides the sequence, and a module takes the lemmas with     *)
(* INSTANCE ... WITH.                                                                               *)
EXTENDS Integers, Sequences, Folds

CONSTANTS Op(_, _, _), Base(_)

\* FoldLeft as SequencesExt defines it, with its operators spelt out.
Largest(S) == CHOOSE i \in S : \A j \in S : i >= j
Fold(x, s) ==
  MapThenFoldSet(LAMBDA c, a : Op(x, a, c), Base(x), LAMBDA i : s[i], LAMBDA S : Largest(S), DOMAIN s)

\* The recursive function inside the fold of p, when p has n elements.
IsIter(x, n, it, p) ==
  it = [s \in SUBSET (1 .. n) |-> IF s = {} THEN Base(x)
                                  ELSE Op(x, it[s \ {Largest(s)}], p[Largest(s)])]

-----------------------------------------------------------------------------
\* What the proofs by induction of this project use: a set of natural numbers has a least element.
\* It is a hypothesis of the lemmas below, which a module that takes them proves once.
WellOrdered == \A T \in SUBSET Nat : T # {} => \E n \in T : \A k \in T : n <= k

\* The last index: of the sets of 1 .. n that hold n, n ...
LEMMA LargestIs ==
  ASSUME NEW n \in Nat, NEW s \in SUBSET (1 .. n), n \in s
  PROVE  Largest(s) = n
<1>1. \A x \in s : (\A y \in s : x >= y) <=> x = n
  OBVIOUS
<1> QED
  BY <1>1 DEF Largest

\* ... and of any other, one of its elements.
LEMMA LargestIn ==
  ASSUME WellOrdered, NEW n \in Nat, NEW s \in SUBSET (1 .. n), s # {}
  PROVE  Largest(s) \in s
<1> DEFINE T == {k \in Nat : \A x \in s : x <= k}
<1>1. n \in T
  OBVIOUS
<1>2. PICK k \in T : \A j \in T : k <= j
  BY <1>1 DEF WellOrdered
<1>3. k \in s
  <2> SUFFICES ASSUME k \notin s PROVE FALSE
    OBVIOUS
  <2>1. \A x \in s : x <= k - 1
    OBVIOUS
  <2>2. PICK x \in s : TRUE
    OBVIOUS
  <2>3. k - 1 \in Nat
    BY <2>1, <2>2
  <2> QED
    BY <2>1, <2>3, <1>2
<1>4. \A x \in s : k >= x
  OBVIOUS
<1> QED
  BY <1>3, <1>4 DEF Largest

-----------------------------------------------------------------------------
\* The recursive function exists, for any number of elements: from n - 1 to n, the sets that hold n
\* are added, each of which refers to one that does not.
LEMMA IterExists ==
  ASSUME WellOrdered, NEW x, NEW p, NEW n \in Nat
  PROVE  \E it : IsIter(x, n, it, p)
<1> DEFINE T == {k \in Nat : ~ \E it : IsIter(x, k, it, p)}
<1> SUFFICES ASSUME T # {} PROVE FALSE
  OBVIOUS
<1>1. PICK m \in T : \A k \in T : m <= k
  BY DEF WellOrdered
<1>2. CASE m = 0
  <2> DEFINE g == [s \in SUBSET (1 .. 0) |-> Base(x)]
  <2>1. 1 .. 0 = {}
    OBVIOUS
  <2>2. IsIter(x, 0, g, p)
    BY <2>1 DEF IsIter
  <2> QED
    BY <1>2, <2>2
<1>3. CASE m # 0
  <2>1. m - 1 \in Nat /\ m - 1 \notin T
    BY <1>1, <1>3
  <2>2. PICK g : IsIter(x, m - 1, g, p)
    BY <2>1
  <2> DEFINE h == [s \in SUBSET (1 .. m) |->
                     IF m \in s THEN Op(x, g[s \ {m}], p[m]) ELSE g[s]]
             b(s) == IF s = {} THEN Base(x) ELSE Op(x, h[s \ {Largest(s)}], p[Largest(s)])
  <2>3. ASSUME NEW s \in SUBSET (1 .. m) PROVE h[s] = b(s)
    <3>1. CASE s = {}
      BY <2>1, <2>2, <3>1 DEF IsIter
    <3>2. CASE m \in s
      <4>1. Largest(s) = m
        BY <3>2, LargestIs
      <4>2. s \ {m} \in SUBSET (1 .. m) /\ m \notin s \ {m}
        OBVIOUS
      <4>3. h[s \ {m}] = g[s \ {m}]
        BY <4>2
      <4>4. h[s] = Op(x, g[s \ {m}], p[m])
        BY <3>2
      <4> QED
        BY <4>1, <4>3, <4>4, <3>2
    <3>3. CASE s # {} /\ m \notin s
      <4>1. s \in SUBSET (1 .. m - 1)
        BY <3>3
      <4>2. Largest(s) \in s
        BY <3>3, LargestIn
      <4>3. g[s] = Op(x, g[s \ {Largest(s)}], p[Largest(s)])
        BY <2>2, <4>1, <3>3 DEF IsIter
      <4>4. h[s] = g[s]
        BY <3>3
      <4>5. h[s \ {Largest(s)}] = g[s \ {Largest(s)}]
        BY <3>3
      <4> QED
        BY <4>3, <4>4, <4>5, <3>3
    <3> QED
      BY <3>1, <3>2, <3>3
  <2>4. h = [s \in SUBSET (1 .. m) |-> b(s)]
    BY <2>3
  <2>5. IsIter(x, m, h, p)
    BY <2>4 DEF IsIter
  <2> QED
    BY <2>5
<1> QED
  BY <1>2, <1>3

\* Its value on the first k indices, for each k: for none, the base ...
LEMMA IterFirst ==
  ASSUME NEW x, NEW p, NEW n \in Nat, NEW it, IsIter(x, n, it, p)
  PROVE  it[1 .. 0] = Base(x)
<1>1. 1 .. 0 = {}
  OBVIOUS
<1> QED
  BY <1>1 DEF IsIter

\* ... and for one more, one operation more.
LEMMA IterNext ==
  ASSUME NEW x, NEW p, NEW n \in Nat, NEW it, IsIter(x, n, it, p), NEW k \in 1 .. n
  PROVE  it[1 .. k] = Op(x, it[1 .. k - 1], p[k])
<1>1. 1 .. k \in SUBSET (1 .. n) /\ k \in 1 .. k
  OBVIOUS
<1>2. Largest(1 .. k) = k
  BY LargestIs
<1>3. (1 .. k) \ {k} = 1 .. k - 1
  OBVIOUS
<1>4. it[1 .. k] = Op(x, it[(1 .. k) \ {Largest(1 .. k)}], p[Largest(1 .. k)])
  BY <1>1 DEF IsIter
<1> QED
  BY <1>2, <1>3, <1>4

\* Two sequences that agree up to k have folds that agree up to k.
LEMMA IterSame ==
  ASSUME WellOrdered, NEW x, NEW p, NEW q, NEW m \in Nat, NEW n \in Nat, NEW k \in Nat, k <= m,
         k <= n,
         \A i \in 1 .. k : p[i] = q[i],
         NEW f, IsIter(x, m, f, p), NEW g, IsIter(x, n, g, q)
  PROVE  f[1 .. k] = g[1 .. k]
<1>1. f[1 .. 0] = Base(x) /\ \A i \in 1 .. m : f[1 .. i] = Op(x, f[1 .. i - 1], p[i])
  BY IterFirst, IterNext
<1>2. g[1 .. 0] = Base(x) /\ \A i \in 1 .. n : g[1 .. i] = Op(x, g[1 .. i - 1], q[i])
  BY IterFirst, IterNext
<1> DEFINE T == {j \in Nat : j <= k /\ f[1 .. j] # g[1 .. j]}
<1> SUFFICES ASSUME T # {} PROVE FALSE
  OBVIOUS
<1>3. PICK j \in T : \A i \in T : j <= i
  BY DEF WellOrdered
<1>4. j # 0
  BY <1>1, <1>2
<1>5. j - 1 \in Nat /\ j - 1 \notin T
  BY <1>3, <1>4
<1>6. f[1 .. j - 1] = g[1 .. j - 1]
  BY <1>5
<1>7. j \in 1 .. m /\ j \in 1 .. n /\ j \in 1 .. k
  BY <1>4
<1>8. p[j] = q[j]
  BY <1>7
<1>9. f[1 .. j] = Op(x, f[1 .. j - 1], p[j]) /\ g[1 .. j] = Op(x, g[1 .. j - 1], q[j])
  BY <1>1, <1>2, <1>7
<1> QED
  BY <1>6, <1>8, <1>9

\* One element appended to p is one operation more on the fold of p.
LEMMA IterOneMore ==
  ASSUME WellOrdered, NEW x, NEW p, NEW q, NEW n \in Nat, \A i \in 1 .. n : p[i] = q[i],
         NEW f, IsIter(x, n, f, p), NEW g, IsIter(x, n + 1, g, q)
  PROVE  g[1 .. n + 1] = Op(x, f[1 .. n], q[n + 1])
<1>1. PICK m \in Nat : m = n + 1
  OBVIOUS
<1>2. IsIter(x, m, g, q) /\ n <= m /\ m \in 1 .. m
  BY <1>1
<1>3. f[1 .. n] = g[1 .. n]
  BY <1>2, IterSame
<1>4. \A k \in 1 .. m : g[1 .. k] = Op(x, g[1 .. k - 1], q[k])
  <2>1. ASSUME NEW k \in 1 .. m PROVE g[1 .. k] = Op(x, g[1 .. k - 1], q[k])
    BY <1>2, <2>1, IterNext
  <2> QED
    BY <2>1
<1>5. m - 1 = n
  BY <1>1
<1> QED
  BY <1>1, <1>2, <1>3, <1>4, <1>5

-----------------------------------------------------------------------------
\* FoldLeft is the value of that recursive function on all the indices.
LEMMA FoldIsIter ==
  ASSUME NEW x, NEW p, NEW n \in Nat, DOMAIN p = 1 .. n
  PROVE  Fold(x, p) = (CHOOSE it : IsIter(x, n, it, p))[1 .. n]
BY DEF Fold, MapThenFoldSet, IsIter

\* The fold of nothing is the base ...
LEMMA FoldEmpty ==
  ASSUME WellOrdered, NEW x
  PROVE  Fold(x, <<>>) = Base(x)
<1> DEFINE f == CHOOSE it : IsIter(x, 0, it, <<>>)
<1>1. IsIter(x, 0, f, <<>>)
  BY IterExists
<1>2. Fold(x, <<>>) = f[1 .. 0]
  BY FoldIsIter
<1> HIDE DEF f
<1>3. f[1 .. 0] = Base(x)
  BY <1>1, IterFirst
<1> QED
  BY <1>2, <1>3

\* ... and each further element is one more operation.
LEMMA FoldAppend ==
  ASSUME WellOrdered, NEW x, NEW S, NEW s \in Seq(S), NEW c \in S
  PROVE  Fold(x, Append(s, c)) = Op(x, Fold(x, s), c)
<1> DEFINE n == Len(s)
           t == Append(s, c)
           f == CHOOSE it : IsIter(x, n, it, s)
           g == CHOOSE it : IsIter(x, n + 1, it, t)
<1>1. /\ n \in Nat /\ DOMAIN s = 1 .. n /\ DOMAIN t = 1 .. n + 1
      /\ t[n + 1] = c /\ \A i \in 1 .. n : t[i] = s[i]
  OBVIOUS
<1> HIDE DEF n, t
<1>2. n + 1 \in Nat /\ n <= n + 1 /\ n <= n
  BY <1>1
<1>3. IsIter(x, n, f, s)
  BY <1>1, IterExists
<1>4. IsIter(x, n + 1, g, t)
  BY <1>2, IterExists
<1>5. Fold(x, s) = f[1 .. n]
  BY <1>1, FoldIsIter
<1>6. Fold(x, t) = g[1 .. n + 1]
  BY <1>1, <1>2, FoldIsIter
<1> HIDE DEF f, g
<1>7. g[1 .. n + 1] = Op(x, f[1 .. n], t[n + 1])
  BY <1>1, <1>3, <1>4, IterOneMore
<1> QED
  BY <1>1, <1>5, <1>6, <1>7 DEF t
=============================================================================
