----------------------------- MODULE MCStaging -----------------------------
(* Three levels, a file in a directory in a directory, on a file system that folds the case of      *)
(* names: E is e, and B is b.  As long as an operation names no other spelling nothing folds, so     *)
(* the behaviours of Staging on LowPaths are among those of CaseStaging on DeepPaths.               *)
EXTENDS PlanLemmas, CaseStaging

a == <<"a">>
ab == <<"a", "b">>
abc == <<"a", "b", "c">>
e == <<"e">>
aB == <<"a", "B">>
E == <<"E">>
DeepTree == <<ADir(a), ADir(ab), AFile(abc, "C")>>
LowPaths == {a, ab, abc, e}
DeepPaths == LowPaths \union {aB, E}
Folded == [n \in {"a", "b", "B", "c", "e", "E"} |->
             CASE n = "B" -> "b" [] n = "E" -> "e" [] OTHER -> n]
=============================================================================
