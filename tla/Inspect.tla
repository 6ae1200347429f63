------------------------------- MODULE Inspect -------------------------------
(* Inspection beside the transactions and recoveries of a root: what          *)
(* `inspect` announces (src/src/inspect.rs) against what the next recovery    *)
(* then does to the tree.                                                     *)
EXTENDS Transaction

\* What the last inspection said, while it still applies.
announced == ghost.announced

TxDirs == {i \in 1 .. MaxBegins : Stat(fs, TxDir(i)) # NoIno}

\* The plan in the journal of transaction i, and where inspect finds its tokens.
PlanOf(i) == fs.data[JournalOf(i)].plan
PositionsOf(i) == Positions(fs, PlanOf(i))

\* Slip: the markers are not looked at.
ActionFromJournal(i) ==
  IF JournalOf(i) = NoIno THEN "discard"
  ELSE IF \E t \in DOMAIN PositionsOf(i) : PositionsOf(i)[t] = Anomaly
       THEN "required" ELSE "roll_back"

\* RecoveryAction: the decision, unless a token of what is to be rolled back is not
\* where it could be.
Action(i) ==
  IF Decide(i) = "roll_back" /\ \E t \in DOMAIN PositionsOf(i) : PositionsOf(i)[t] = Anomaly
  THEN "required"
  ELSE Decide(i)

\* inspect_on: without the exclusive lock nothing can be under way.
InspectCall ==
  /\ pc = "idle" /\ TxDirs # {} /\ ~ announced.asked
  /\ ghost' = [ghost EXCEPT !.announced =
       [txs |-> [i \in TxDirs |-> Action(i)], tree |-> Tree, asked |-> TRUE,
        garbage |-> {d \in Range(RecoveryOrder) : ~ IsTx(d) /\ Stat(fs, d) # NoIno}]]
  /\ UNCHANGED <<fs, pc, todo, mem, result, spent, scenario>>

INext == InspectCall \/ Next

ISpec == Init /\ [][INext]_vars

-----------------------------------------------------------------------------
(* Properties. *)

Announced(a) == \E i \in DOMAIN announced.txs : announced.txs[i] = a

\* A recovery has been through all names since the inspection; a kill in between only
\* makes it start over.
RecoveredSince == announced.asked /\ At0("scan") /\ mem.queue = <<>>

\* What inspect announces is what recovery then does to the tree.  When inspect says that
\* recovery will not touch anything, it refuses and does not, even after other programs or
\* damage.  As long as no other program has changed the root, rolled back is the tree
\* before, cleaned up the tree it had, and so on, whether recovery gets there at once or
\* is killed on its way and starts over from what it left.
AnnouncedHappens ==
  RecoveredSince =>
    /\ Announced("required") => mem.refused /\ Tree = announced.tree
    /\ spent.intrusions = 0 =>
         /\ mem.refused => Announced("required")
         /\ Announced("roll_back") => Matches(Tree, ghost.before)
         /\ Announced("committed") => Matches(Tree, ghost.want)
         /\ Announced("discard") \/ Announced("committed") \/ Announced("rolled_back")
              => Tree = announced.tree
=============================================================================
