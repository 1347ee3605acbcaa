----------------------------- MODULE WalRecords -----------------------------
(***************************************************************************)
(* Log records (WalRecord of wal.h) and what DurableVDB::apply_ does with  *)
(* one.  A row is a vector and its metadata, both opaque; the VDB is the   *)
(* map from live external ids to rows.  A log is a sequence of records,    *)
(* indexed by lsn.                                                         *)
(***************************************************************************)
EXTENDS Integers, Sequences, Functions

CONSTANTS Vecs, Metas,    \* the vectors and the valid metadata records callers pass
          NoVec, NoMeta,  \* a record without a vector, without metadata
          BadMeta         \* metadata MetadataStore::validate refuses

\* What is refused is neither valid metadata nor its absence, and an absence is no metadata.
ASSUME RecordsAssumption == BadMeta \notin Metas \cup {NoMeta} /\ NoMeta \notin Metas

Row   == [vec : Vecs \cup {NoVec}, meta : Metas \cup {NoMeta, BadMeta}]
NoRow == [vec |-> NoVec, meta |-> NoMeta]

RecordTypes == {"Insert", "Update", "SetMeta", "Delete", "Checkpoint"}
WalRecord   == [type : RecordTypes, ext : Nat, row : Row]
Record(type, ext, row) == [type |-> type, ext |-> ext, row |-> row]

\* validate() refuses the record's metadata: VDB throws before it touches anything.
Refused(r) == r.row.meta = BadMeta

EmptyDb == [e \in {} |-> NoRow]
Put(d, e, row) == [x \in DOMAIN d \cup {e} |-> IF x = e THEN row ELSE d[x]]

\* apply_(): update, set_metadata and remove do nothing when the id is not live.
ApplyTo(d, r) ==
    CASE r.type = "Insert" -> Put(d, r.ext, r.row)
      [] r.type = "Update" /\ r.ext \in DOMAIN d -> Put(d, r.ext, r.row)
      [] r.type = "SetMeta" /\ r.ext \in DOMAIN d ->
            Put(d, r.ext, [vec |-> d[r.ext].vec, meta |-> r.row.meta])
      [] r.type = "Delete" -> Restrict(d, DOMAIN d \ {r.ext})
      [] OTHER -> d

\* The records of log whose lsn is in S, applied to d in lsn order.
Replay(log, d, S) ==
    LET state[n \in 0..Len(log)] ==
          IF n = 0 THEN d
          ELSE IF n \in S THEN ApplyTo(state[n - 1], log[n]) ELSE state[n - 1]
    IN  state[Len(log)]

IsDb(d) == /\ DOMAIN d \subseteq Nat
           /\ d = [e \in DOMAIN d |-> d[e]]
           /\ \A e \in DOMAIN d : d[e] \in Row
=============================================================================
