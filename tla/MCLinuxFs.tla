----------------------------- MODULE MCLinuxFs -----------------------------
(* In the root, a holds b, which holds the file x; d looks like a, and its b is the mount point of  *)
(* another file system.  The plan moves a/b/x to d/y; n is made in a, as in a directory of fstx's   *)
(* own.                                                                                             *)
EXTENDS LinuxFs, TLC

CONSTANTS R, A, B, D, M, Out, X, Y, N1, N2, L, None_

Names == {"a", "b", "d", "x", "y", "n"}
Entries == (<<R, "a">> :> A) @@ (<<A, "b">> :> B) @@ (<<B, "x">> :> X)
             @@ (<<R, "d">> :> D) @@ (<<D, "b">> :> M) @@ (<<M, "x">> :> Y)

Spots == {<<R, "a">>, <<R, "d">>, <<Out, "a">>, <<A, "b">>, <<Out, "b">>, <<D, "y">>}

From(p, d) == [path |-> p, parent |-> d]
Calls == {[op |-> "rename", from |-> From(<<"a", "b", "x">>, B), to |-> From(<<"d", "y">>, D)],
          [op |-> "probe", from |-> From(<<"a", "b", "x">>, B)],
          [op |-> "unlink", from |-> From(<<"d", "y">>, D)],
          [op |-> "create", from |-> From(<<"a", "n">>, None_)],
          [op |-> "read", from |-> From(<<"a", "b", "x">>, None_)],
          [op |-> "barrier", from |-> From(<<"a", "b", "x">>, B)]}
=============================================================================
