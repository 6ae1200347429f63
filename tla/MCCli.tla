------------------------------- MODULE MCCli -------------------------------
(* A file, and a directory with a file in it; change sets that use every operation; *)
(* and sources that add to it, replace in it, and do not fit it.                    *)
EXTENDS Sync

a == <<"a">>
d == <<"d">>
dx == <<"d", "x">>
e == <<"e">>
ex == <<"e", "x">>

SmallTree == <<AFile(a, "A"), ADir(d), AFile(dx, "X")>>
SmallPaths == {a, d, dx, e, ex}

W(p) == [op |-> "write", path |-> p, text |-> "new"]
R(p, t) == [op |-> "replace", path |-> p, find |-> t, text |-> "new"]
M(p) == [op |-> "mkdir", path |-> p]
Mv(p, q) == [op |-> "rename", path |-> p, to |-> q]
Rm(p) == [op |-> "remove", path |-> p]
RmAll(p) == [op |-> "remove_all", path |-> p]
Bad == [op |-> "bad"]

\* Every sequence of two of these, with and without what it expects of the tree.
Steps == {W(a), W(ex), R(a, "A"), R(dx, "new"), M(e), Mv(a, e), Mv(d, e), Mv(ex, a), Rm(a), Rm(d),
          RmAll(d), Bad}
Has(p, t) == [path |-> p, exists |-> "any", text |-> t]
Is(p, yes) == [path |-> p, exists |-> yes, text |-> "any"]

ACs(dry, expect, ops_) == [sync |-> FALSE, parses |-> TRUE, dry |-> dry, expect |-> expect, ops |-> ops_]
Sets ==
  {ACs(FALSE, <<Has(a, "A"), Is(e, "no")>>, <<s, t>>) : s \in Steps, t \in Steps}
    \union {ACs(FALSE, <<Is(a, "yes"), Has(dx, t)>>, <<R(a, "A"), Mv(d, e), W(ex)>>) : t \in {"X", "Y"}}
    \union {ACs(TRUE, <<>>, <<Mv(d, e), RmAll(e), W(a)>>),
            ACs(FALSE, <<Is(e, "no")>>, <<M(e), W(ex), Mv(ex, dx)>>),
            [ACs(FALSE, <<>>, <<Bad>>) EXCEPT !.parses = FALSE]}

Git(p) == Append(p, ".git")

Syncs == {[sync |-> TRUE, parses |-> TRUE, dry |-> dry, expect |-> <<>>, ops |-> <<>>] : dry \in BOOLEAN}

File(t) == [kind |-> "file", text |-> t]
Directory == [kind |-> "dir", text |-> ""]
Link == [kind |-> "link", text |-> ""]

Dotfiles ==
  (a :> File("new")) @@ (d :> Directory) @@ (Append(d, "y") :> File("new"))
    @@ (Git(d) :> Directory) @@ (Append(Git(d), "x") :> File("git"))
    @@ (Append(d, "l") :> Link) @@ (<<".git">> :> File("git"))
Misfit == (<<"b">> :> File("new")) @@ (d :> File("new"))
Misfit2 == (a :> Directory) @@ (Append(a, "z") :> File("new"))
AllSets == Sets \union Syncs
Trees == {Dotfiles, Misfit, Misfit2}
=============================================================================
