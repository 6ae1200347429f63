---------------------------- MODULE AtomicCommit ----------------------------
(* What one commit promises (src/src/lib.rs, "all of them, or none"), with no journal, wave or     *)
(* marker in it.  `before` and `after` say of every tree a power loss may leave that it is the     *)
(* before-tree, or the after-tree.  While the outcome is open, or being taken back, the tree may   *)
(* be anything; a committed or rolled-back outcome is true of the tree and stays so, one that is   *)
(* being taken back is never committed, and the transaction is closed on one of the two only.      *)
VARIABLES outcome, before, after

AInit == outcome = "open" /\ before = TRUE /\ after \in BOOLEAN

(* A tree that is one of the two remains it. *)
Stays == (before => before') /\ (after => after')

Work == outcome \in {"open", "aborting"} /\ outcome' = outcome
Abort == outcome = "open" /\ outcome' = "aborting"
Commit == outcome = "open" /\ outcome' = "committed" /\ after'
RollBack == outcome = "aborting" /\ outcome' = "rolled back" /\ before'
Close == outcome # "closed" /\ outcome' = "closed" /\ (before \/ after) /\ Stays
Rest == outcome \in {"committed", "rolled back", "closed"} /\ outcome' = outcome /\ Stays

ANext == Work \/ Abort \/ Commit \/ RollBack \/ Close \/ Rest
ASpec == AInit /\ [][ANext]_<<outcome, before, after>>
=============================================================================
