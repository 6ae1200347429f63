----------------------------- MODULE MCInspect -----------------------------
(* Inspect in scenarios of MCTransaction: two crashes, or a crash and another *)
(* program.                                                                   *)
EXTENDS Inspect, MCTransaction

Inspected == {On(Used(Replace), "Strict", 1, 2, 0, 0)} \union Interference
=============================================================================
