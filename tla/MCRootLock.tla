----------------------------- MODULE MCRootLock -----------------------------
(* Two users of one root, as RootLock.cfg names them. *)
EXTENDS RootLock
=============================================================================
