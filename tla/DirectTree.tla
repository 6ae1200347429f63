----------------------------- MODULE DirectTree -----------------------------
(* What a transaction promises its caller: every operation acts at once on a  *)
(* tree that maps each path to what is there.  This is the identity-tracking  *)
(* reference of src/tests/model.rs: a node is [kind, ino, text], and ino is   *)
(* NewIno for what the transaction itself creates.                            *)
EXTENDS Paths, Functions

CONSTANTS UserPaths, Texts, NewIno

VARIABLE tree

File(t) == [kind |-> "file", ino |-> NewIno, text |-> t]
Dir == [kind |-> "dir", ino |-> NewIno, text |-> ""]

HasDir(t, p) == p = Root \/ (p \in DOMAIN t /\ t[p].kind = "dir")
Below(t, p) == {k \in DOMAIN t : IsAncestorOf(p, k)}
Set(t, p, node) == [k \in DOMAIN t \union {p} |-> IF k = p THEN node ELSE t[k]]
Without(t, S) == Restrict(t, DOMAIN t \ S)

CanWrite(t, p) == HasDir(t, Parent(p)) /\ ~ (p \in DOMAIN t /\ t[p].kind = "dir")
Write(t, p, text) == Set(t, p, File(text))

CanMkdirs(t, p) ==
  \A n \in 1 .. Len(p) : SubSeq(p, 1, n) \in DOMAIN t => HasDir(t, SubSeq(p, 1, n))
Mkdirs(t, p) ==
  FoldLeft(LAMBDA u, q : IF q \in DOMAIN u THEN u ELSE Set(u, q, Dir),
           t, Append(ProperPrefixes(p), p))

CanRename(t, from, to) ==
  /\ from \in DOMAIN t
  /\ \/ from = to
     \/ ~ IsAncestorOf(from, to) /\ HasDir(t, Parent(to)) /\ to \notin DOMAIN t
Rename(t, from, to) ==
  LET moved == {from} \union Below(t, from)
      landed == {Rebase(k, from, to) : k \in moved}
  IN  [k \in (DOMAIN t \ moved) \union landed |->
         IF k \in landed THEN t[Rebase(k, to, from)] ELSE t[k]]

CanRemove(t, p) == p \in DOMAIN t /\ (t[p].kind = "dir" => Below(t, p) = {})
CanRemoveAll(t, p) == p \in DOMAIN t /\ t[p].kind = "dir"
Cut(t, p) == Without(t, {p} \union Below(t, p))

-----------------------------------------------------------------------------
DoWrite(p, text) == CanWrite(tree, p) /\ tree' = Write(tree, p, text)
DoMkdirs(p) == CanMkdirs(tree, p) /\ tree' = Mkdirs(tree, p)
DoRename(from, to) == CanRename(tree, from, to) /\ tree' = Rename(tree, from, to)
DoRemove(p) == CanRemove(tree, p) /\ tree' = Cut(tree, p)
DoRemoveAll(p) == CanRemoveAll(tree, p) /\ tree' = Cut(tree, p)

Next ==
  \/ \E p \in UserPaths, text \in Texts : DoWrite(p, text)
  \/ \E p \in UserPaths : DoMkdirs(p)
  \/ \E from, to \in UserPaths : DoRename(from, to)
  \/ \E p \in UserPaths : DoRemove(p)
  \/ \E p \in UserPaths : DoRemoveAll(p)

\* Where it starts is for the user of the module to say.
Behaviour == [][Next]_tree
=============================================================================
