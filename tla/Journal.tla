------------------------------ MODULE Journal ------------------------------
(* The journal file (src/src/journal.rs): the plan, sealed with a checksum, as recovery decodes it  *)
(* from whatever it finds.  The bytes are pieces: the two halves of a serialised journal, the       *)
(* separator, a checksum, the newline, and bytes that are none of these.  Two different bodies have *)
(* different checksums.                                                                             *)
EXTENDS Plan

FORMAT == 1

SEP == [piece |-> "sep"]
NL == [piece |-> "newline"]
Garbage == [piece |-> "garbage"]
Half(j, n) == [piece |-> "half", of |-> j, n |-> n]
Sum(body) == [piece |-> "sum", body |-> body]

serialised(j) == <<Half(j, 1), Half(j, 2)>>
encode(j) == serialised(j) \o <<SEP, Sum(serialised(j)), NL>>

NoJournal == [format |-> 0, tx |-> "", root |-> NoIno, plan |-> NoPlan]

\* serde_json::from_slice: the journal a body is the serialisation of, if it is one.
Parsed(body) ==
  IF Len(body) = 2 /\ body[1].piece = "half" /\ body = serialised(body[1].of) THEN body[1].of
  ELSE NoJournal

\* Up to the last separator is the body; its checksum and a newline are all that follows.
Unsealed(bytes) ==
  LET cuts == {i \in DOMAIN bytes : bytes[i] = SEP}
      body == SubSeq(bytes, 1, Max(cuts) - 1)
  IN  IF cuts # {} /\ SubSeq(bytes, Max(cuts) + 1, Len(bytes)) = <<Sum(body), NL>> THEN Parsed(body)
      ELSE NoJournal

\* A location is in the tree, or an entry of the transaction's own backup/ or staged/.
LocationOk(tx, path) ==
  /\ path # Root
  /\ IsPrivate(path) => Len(path) = 4 /\ path[2] = tx /\ path[3] \in {"backup", "staged"}

\* decode(): the journal, or NoJournal for any of its errors.
decode(bytes, tx, root) ==
  LET j == Unsealed(bytes)
  IN  IF /\ j.format = FORMAT /\ j.tx = tx /\ j.root = root
         /\ \A tok \in Range(j.plan.tokens) :
              Len(tok.locs) >= 2 /\ \A loc \in Range(tok.locs) : LocationOk(tx, loc.path)
         /\ Validate(j.plan)
      THEN j ELSE NoJournal
=============================================================================
