--------------------------- MODULE MCTransaction ---------------------------
(* Small instances of Transaction. *)
EXTENDS Transaction

W(p, t) == [op |-> "write", path |-> p, to |-> Root, text |-> t]
M(p) == [op |-> "create_dir_all", path |-> p, to |-> Root, text |-> ""]
R(p, q) == [op |-> "rename", path |-> p, to |-> q, text |-> ""]
D(p) == [op |-> "remove", path |-> p, to |-> Root, text |-> ""]
DA(p) == [op |-> "remove_dir_all", path |-> p, to |-> Root, text |-> ""]
Outside(p, t) == [op |-> "outside", path |-> p, to |-> Root, text |-> t]

a == <<"a">>
b == <<"b">>
t == <<"t">>
d == <<"d">>
dx == <<"d", "x">>
e == <<"e">>
ex == <<"e", "x">>

\* A file replaced.
Replace == [items |-> <<AFile(a, "A")>>, scripts |-> <<<<W(a, "new")>>>>]

\* Two files change places.
Swap == [items |-> <<AFile(a, "A"), AFile(b, "B")>>,
         scripts |-> <<<<R(a, t), R(b, a), R(t, b)>>>>]

\* A directory moves, something in it is replaced on the way.
MoveDir == [items |-> <<ADir(d), AFile(dx, "X")>>,
            scripts |-> <<<<R(d, e), W(ex, "new")>>>>]

\* Like Replace, but one level down: the root directory itself does not change.
ReplaceBelow == [items |-> <<ADir(d), AFile(dx, "X")>>, scripts |-> <<<<W(dx, "new")>>>>]

\* A tree removed, a file put where it was; a directory put where a file was.
Retype == [items |-> <<ADir(d), AFile(dx, "X"), AFile(a, "A")>>,
           scripts |-> <<<<DA(d), W(d, "file"), D(a), M(<<"a", "m">>)>>>>]

\* Two names of one file: b takes over the name c, which is another link to b.
Links == [items |-> <<AFile(b, "B"), ALink(<<"c">>, b)>>,
          scripts |-> <<<<R(b, t), R(<<"c">>, b)>>>>]

\* Nothing changes in the end; an operation is refused; then another transaction.
Twice == [items |-> <<AFile(a, "A"), AFile(b, "B")>>,
          scripts |-> <<<<R(a, t), R(a, b), R(t, a)>>, <<W(a, "new")>>>>]

\* Another program replaces what the transaction is about to replace.
Disturbed == [items |-> <<AFile(a, "A")>>,
              scripts |-> <<<<W(a, "new"), Outside(a, "theirs")>>>>]

\* The same in a root that fstx has been used in: .fstx is there, durably.
Used(s) == [s EXCEPT !.items = <<ADir(<<PrivateDir>>)>> \o @]

Rare == {Retype, Twice, Disturbed}
Common == {Replace, Swap, MoveDir}

Every == Common \union Rare \union {ReplaceBelow}

\* A scenario on a profile, with its bounds: begins, crashes, faults, intrusions.
On(s, profile, begins, crashes, faults, intrusions) ==
  [items |-> s.items, scripts |-> s.scripts, profile |-> profile, begins |-> begins,
   crashes |-> crashes, faults |-> faults, intrusions |-> intrusions]

CrashTwice == {On(Used(MoveDir), "Weak", 1, 2, 0, 0)}
FirstUse == {On(s, "Weak", 2, 1, 0, 0) : s \in Every}
Faults == {On(Used(s), "Strict", 2, 0, 2, 0) : s \in Every}
CrashAndFault == {On(Used(ReplaceBelow), "Strict", 1, 1, 1, 0)}
Interference == {On(Used(ReplaceBelow), "Strict", 1, 1, 0, 1)}
Ours == CrashTwice \union FirstUse \union Faults \union CrashAndFault

PrivateDirUnsynced == {On(ReplaceBelow, "Strict", 1, 2, 0, 0)}
HardLinks == {On(Used(Links), "Strict", 1, 1, 0, 0)}
=============================================================================
