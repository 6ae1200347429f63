------------------------------ MODULE RecordLog ------------------------------
(* What the progress log promises to those who append to it and read it (src/src/progress.rs, and  *)
(* append_progress and read_progress of src/src/recover.rs), with no file in it: a set of records, *)
(* of which a part is durable.  A record is there for good once its append has returned; one whose *)
(* append did not return may be found later, or not, and nothing else is ever found.               *)
CONSTANT Records

VARIABLES
  log,     \* the records a reader would find
  durLog   \* the records a power loss cannot take

RInit == log = {} /\ durLog = {}

RecordAppended == \E r \in Records : log' = log \union {r} /\ UNCHANGED durLog

Synced == durLog' = log /\ UNCHANGED log

LostUnsynced == log' \in SUBSET log /\ durLog \subseteq log' /\ durLog' = log'

RNext == RecordAppended \/ Synced \/ LostUnsynced
RSpec == RInit /\ [][RNext]_<<log, durLog>>
=============================================================================
