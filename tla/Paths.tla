------------------------------- MODULE Paths -------------------------------
(* Relative paths inside the transaction root (src/src/path.rs).  A path is  *)
(* the sequence of its components, as in RelPath(Vec<OsString>); the root is *)
(* the empty sequence.  Names are compared byte for byte: the model is of a  *)
(* case-sensitive file system.                                               *)
EXTENDS Integers, SequencesExt

Root == <<>>

\* `.fstx`, the private directory at the top of the root.
PrivateDir == ".fstx"

\* RelPath::parent().unwrap_or_default(): the root is its own parent here.
Parent(p) == IF p = Root THEN Root ELSE Front(p)

Leaf(p) == Last(p)

IsAncestorOf(a, p) == IsStrictPrefix(a, p)

Overlaps(p, q) == p = q \/ IsAncestorOf(p, q) \/ IsAncestorOf(q, p)

\* proper_prefixes(): neither the root nor p itself, shortest first.
ProperPrefixes(p) == [n \in 1 .. Len(p) - 1 |-> SubSeq(p, 1, n)]

\* to.join_path(&p.strip_prefix(from)), for p at or below `from`.
Rebase(p, from, to) == to \o SubSeq(p, Len(from) + 1, Len(p))

IsPrivate(p) == p # Root /\ p[1] = PrivateDir

\* The elements of a finite set in a fixed order (the code's BTreeMap order; no
\* property depends on which order it is).
Listing(S) == FoldSet(LAMBDA x, s : Append(s, x), <<>>, S)
=============================================================================
