---------------------------- MODULE ProgressLog ----------------------------
(* The progress file of one transaction, byte group by byte group (src/src/progress.rs), under an  *)
(* append that may stop half way and a power loss that may leave anything behind what was synced.  *)
(* A record of 16 bytes is three symbols: the magic number, the kind and wave, and the checksum of *)
(* both.  Garbage may look like the first two; that it ever looks like a checksum is left out.     *)
EXTENDS Naturals, Sequences, FiniteSets

CONSTANTS
  Records,     \* ApplyDone(w) and UndoDone(w)
  MaxAppends,  \* bound: calls of append
  MaxLosses,   \* bound: power losses
  MaxTail      \* bound: symbols that may be unsynced when the power goes

ASSUME BoundAssumption == MaxAppends \in Nat /\ MaxLosses \in Nat /\ MaxTail \in Nat

VARIABLES
  file,     \* what a reader sees
  durable,  \* how many symbols of it are on the disk for good
  pc,       \* "idle", or "appended": append has returned and sync_file has not
  begun,    \* the records whose append was called
  kept,     \* the records whose append and sync_file returned
  appends, losses

vars == <<file, durable, pc, begun, kept, appends, losses>>

-----------------------------------------------------------------------------
Magic == <<"magic">>
Kind(r) == <<"kind and wave", r>>
Checksum(r) == <<"checksum", r>>
LEN == 3
\* What a sector that was never written may hold.
Junk == {<<"junk">>, Magic} \union {Kind(r) : r \in Records}

encode(r) == <<Magic, Kind(r), Checksum(r)>>

\* Slip: the checksum is not looked at.
ValidUnchecked(b, i, r) == b[i] = Magic /\ b[i + 1] = Kind(r)

Valid(b, i, r) == SubSeq(b, i, i + LEN - 1) = encode(r)

\* Slip: the scan stops at the first region that is not a record.
parseToFirstTorn(b) ==
  LET from[i \in 1 .. Len(b) + LEN] ==
        IF i + LEN - 1 > Len(b) THEN {}
        ELSE LET found == {r \in Records : Valid(b, i, r)}
             IN  IF found # {} THEN found \union from[i + LEN] ELSE {}
  IN from[1]

\* parse: one symbol further where there is no record, behind the record where there is one.
parse(b) ==
  LET from[i \in 1 .. Len(b) + LEN] ==
        IF i + LEN - 1 > Len(b) THEN {}
        ELSE LET found == {r \in Records : Valid(b, i, r)}
             IN  found \union from[IF found # {} THEN i + LEN ELSE i + 1]
  IN from[1]

-----------------------------------------------------------------------------
Init ==
  /\ file = <<>> /\ durable = 0 /\ pc = "idle" /\ begun = {} /\ kept = {}
  /\ appends = 0 /\ losses = 0

\* append_progress: the whole record is in the file.
AppendProgress(r) ==
  /\ pc = "idle" /\ appends < MaxAppends
  /\ file' = file \o encode(r) /\ pc' = "appended"
  /\ begun' = begun \union {r} /\ appends' = appends + 1
  /\ UNCHANGED <<durable, kept, losses>>

\* The write stops part of the way, or fails before it: the call returns the error, or the process
\* is gone.  Whoever recovers next appends behind the torn record.
AppendStops(r) ==
  /\ pc = "idle" /\ appends < MaxAppends
  /\ \E k \in 0 .. LEN - 1 : file' = file \o SubSeq(encode(r), 1, k)
  /\ begun' = begun \union {r} /\ appends' = appends + 1
  /\ UNCHANGED <<durable, pc, kept, losses>>

Pending == {r \in Records : Valid(file, Len(file) - LEN + 1, r)}

Sync ==
  /\ pc = "appended" /\ pc' = "idle"
  /\ durable' = Len(file) /\ kept' = kept \union Pending
  /\ UNCHANGED <<file, begun, appends, losses>>

\* sync_file fails, or the process is killed before it.
SyncFails ==
  /\ pc = "appended" /\ pc' = "idle"
  /\ UNCHANGED <<file, durable, begun, kept, appends, losses>>

\* The data behind the last sync may be there, shorter, or not what was written, in any part.
PowerLoss ==
  /\ losses < MaxLosses /\ losses' = losses + 1 /\ pc' = "idle"
  /\ Len(file) <= durable + MaxTail
  /\ \E n \in durable .. Len(file) :
       \E tail \in [durable + 1 .. n -> Junk \union {file[i] : i \in durable + 1 .. n}] :
         /\ \A i \in durable + 1 .. n : tail[i] \in Junk \union {file[i]}
         /\ file' = [i \in 1 .. n |-> IF i <= durable THEN file[i] ELSE tail[i]]
         /\ durable' = n
  /\ UNCHANGED <<begun, kept, appends>>

Next ==
  \/ \E r \in Records : AppendProgress(r) \/ AppendStops(r)
  \/ Sync \/ SyncFails \/ PowerLoss

Spec == Init /\ [][Next]_vars

-----------------------------------------------------------------------------
(* Properties. *)

\* Every value is of its kind, and what is durable is part of the file.
TypeOK ==
  /\ file \in Seq(Junk \union {Checksum(r) : r \in Records})
  /\ durable \in 0 .. Len(file) /\ pc \in {"idle", "appended"}
  /\ begun \in SUBSET Records /\ kept \in SUBSET begun
  /\ appends \in 0 .. MaxAppends /\ losses \in 0 .. MaxLosses

\* A record whose append was acknowledged is found whatever stands before it: torn records of
\* earlier attempts, or garbage a power loss left (parse scans forward, so that "later records are
\* never hidden behind garbage").
AcknowledgedIsFound == kept \subseteq parse(file)

\* No record is found that nobody appended: check_progress would refuse a sound transaction on it.
NothingInvented == parse(file) \subseteq begun

\* What a reader finds at any time: what was acknowledged, and nothing that was not asked for.
FindsTheRecords == TypeOK /\ AcknowledgedIsFound /\ NothingInvented

\* The file is a set of records of which the synced ones stay: what WaveCommit and Transaction take
\* the log to be.
Set == INSTANCE RecordLog WITH log <- parse(file), durLog <- parse(SubSeq(file, 1, durable))
ImplementsRecordLog == Set!RSpec
=============================================================================
