---------------------------- MODULE MCWaveCommit ----------------------------
(* A small plan: a file written through staged/, a directory that leaves and  *)
(* comes back elsewhere, a file that does the same one level deeper.          *)
EXTENDS WaveCommit, TLC

CONSTANTS t1, t2, t3

Plan3 == (t1 :> {3}) @@ (t2 :> {2, 3}) @@ (t3 :> {1, 4})
Tokens3 == {t1, t2, t3}
Files3 == {t1, t3}
=============================================================================
