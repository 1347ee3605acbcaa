------------------------------ MODULE RowStore ------------------------------
(***************************************************************************)
(* What an in-memory VDB is to its callers (vdb.h:39-43): a map from       *)
(* external ids that never change to rows, each mutation taking effect at  *)
(* once.  VDB is shown to implement it; DurableVDB models its VDB by it.   *)
(***************************************************************************)
EXTENDS WalRecords

VARIABLES rows,
          nextId,    \* the next id to be handed out
          reserved   \* ids handed out to inserts that have not shown yet

vars == <<rows, nextId, reserved>>

Init == rows = EmptyDb /\ nextId = 0 /\ reserved = {}

\* reserve_id: ids are handed out once.
Reserve == /\ nextId' = nextId + 1 /\ reserved' = reserved \cup {nextId}
           /\ UNCHANGED rows

FullRows == [vec : Vecs, meta : Metas]

Insert == /\ \E e \in reserved, row \in FullRows :
                /\ rows' = ApplyTo(rows, Record("Insert", e, row))
                /\ reserved' = reserved \ {e}
          /\ UNCHANGED nextId

Update == \E e \in DOMAIN rows, row \in FullRows :
             rows' = ApplyTo(rows, Record("Update", e, row))
\* update() without metadata leaves the row's metadata alone.
UpdateVec == \E e \in DOMAIN rows, v \in Vecs :
             rows' = ApplyTo(rows, Record("Update", e, [rows[e] EXCEPT !.vec = v]))
SetMeta == \E e \in DOMAIN rows, m \in Metas :
             rows' = ApplyTo(rows, Record("SetMeta", e, [vec |-> NoVec, meta |-> m]))
Delete == \E e \in DOMAIN rows : rows' = ApplyTo(rows, Record("Delete", e, NoRow))

Mutate == (Update \/ UpdateVec \/ SetMeta \/ Delete) /\ UNCHANGED <<nextId, reserved>>

Next == Reserve \/ Insert \/ Mutate
Spec == Init /\ [][Next]_vars
=============================================================================
