--------------------------- MODULE MCNodeBinding ---------------------------
(* Two calls on one root and one on another. *)
EXTENDS NodeBinding, TLC

CONSTANTS c1, c2, c3, r1, r2

Calls3 == {c1, c2, c3}
Roots2 == {r1, r2}
On == (c1 :> r1) @@ (c2 :> r1) @@ (c3 :> r2)
=============================================================================
