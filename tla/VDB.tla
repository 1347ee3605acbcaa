-------------------------------- MODULE VDB --------------------------------
(***************************************************************************)
(* The in-memory vector store of src/vdb.cpp: identity maps and parallel   *)
(* arrays under mu_, an index, and the metadata store.  Threads insert and *)
(* update in three phases (allocate under mu_, link into the index without *)
(* it, publish under mu_), remove, rewrite metadata, compact, and search.  *)
(*                                                                         *)
(* Grain.  One action per exclusive hold of mu_, and one for link().       *)
(* Searches change nothing; VDBSearch says what they return in a state.    *)
(*                                                                         *)
(* Data.  Internal ids start at 1.  The index is the set of its nodes and  *)
(* of those that are linked.  Rows the schema refuses throw before         *)
(* anything is touched and are left out.                                   *)
(***************************************************************************)
EXTENDS WalRecords, Metadata

CONSTANTS Threads,
          MaxExt,      \* bound: external ids minted
          MaxNodes,    \* bound: nodes between two compactions
          MaxPostings  \* bound: a row is rewritten while its postings are fewer than this

ASSUME VDBAssumption ==
    /\ MaxExt \in Nat /\ MaxNodes \in Nat /\ MaxPostings \in Nat
    /\ \A m \in Metas : m \in [Attrs -> UNION {Values(a) : a \in Attrs}]

VARIABLES
    extToInt,      \* ext_to_int_
    intToExt,      \* int_to_ext_
    deleted,       \* deleted_: tombstones, and nodes that are not published yet
    vectors,       \* vectors_, and the vectors the index holds
    meta,          \* meta_
    nextExt, liveCount, deletedCount,
    linked,        \* the nodes link() has wired into the index
    pc,            \* "idle", "reserved", "link" or "publish": where each thread stands
    op,            \* the insert or update it runs
    iid, oldIid    \* the node it allocated, and the one an update replaces

arrays == <<intToExt, vectors>>
counts == <<liveCount, deletedCount>>
thread == <<pc, op, iid, oldIid>>
vars   == <<extToInt, arrays, deleted, meta, nextExt, counts, linked, thread>>

Nodes == 1..Len(intToExt)
Live  == {i \in Nodes : ~deleted[i]}
NoOp  == Record("None", 0, NoRow)

IsMap(m) == m = [e \in DOMAIN m |-> m[e]]

TypeOK ==
    /\ IsMap(extToInt) /\ DOMAIN extToInt \subseteq 0..(nextExt - 1)
    /\ \A e \in DOMAIN extToInt : extToInt[e] \in Nodes
    /\ intToExt \in Seq(0..(nextExt - 1))
    /\ deleted \in Seq(BOOLEAN) /\ vectors \in Seq(Vecs) /\ meta.data \in Seq(Metas)
    /\ {Len(deleted), Len(vectors), Len(meta.data)} = {Len(intToExt)}
    /\ meta.count \in [Attrs -> [Codes -> Nat]] /\ meta.docs \in [Attrs -> Nat]
    /\ \A a \in Attrs : /\ meta.tree[a] \subseteq {SortableBits(c) : c \in Codes} \X Nodes
                        /\ \A c \in Codes : IsABag(meta.postings[a][c])
    /\ nextExt \in Nat /\ liveCount \in Nat /\ deletedCount \in Nat
    /\ linked \subseteq Nodes
    /\ pc \in [Threads -> {"idle", "reserved", "link", "publish"}]
    /\ \A t \in Threads : op[t].type \in {"None", "Insert", "Update"}
    /\ iid \in [Threads -> 0..MaxNodes] /\ oldIid \in [Threads -> 0..MaxNodes]

Init ==
    /\ extToInt = [e \in {} |-> 0] /\ intToExt = <<>> /\ deleted = <<>> /\ vectors = <<>>
    /\ meta = NoRows
    /\ nextExt = 0 /\ liveCount = 0 /\ deletedCount = 0
    /\ linked = {}
    /\ pc = [t \in Threads |-> "idle"] /\ op = [t \in Threads |-> NoOp]
    /\ iid = [t \in Threads |-> 0] /\ oldIid = [t \in Threads |-> 0]

-----------------------------------------------------------------------------
Goto(t, p) == pc' = [pc EXCEPT ![t] = p]

Return(t) == /\ Goto(t, "idle")
             /\ op' = [op EXCEPT ![t] = NoOp]
             /\ iid' = [iid EXCEPT ![t] = 0] /\ oldIid' = [oldIid EXCEPT ![t] = 0]

\* Callers do not mutate one id from two threads at once (vdb.h:59-60).
Busy(e) == \E t \in Threads : pc[t] # "idle" /\ op[t].ext = e

\* insert(): reserve_id() takes mu_ by itself, before insert_reserved() does.
ReserveId(t) ==
    /\ pc[t] = "idle" /\ nextExt < MaxExt
    /\ \E row \in [vec : Vecs, meta : Metas] :
          op' = [op EXCEPT ![t] = Record("Insert", nextExt, row)]
    /\ nextExt' = nextExt + 1
    /\ Goto(t, "reserved")
    /\ UNCHANGED <<extToInt, arrays, deleted, meta, counts, linked, iid, oldIid>>

\* Phase 1: a new node under id e, pending, with a row.
Allocate(t, e, vec) ==
    /\ Len(intToExt) < MaxNodes
    /\ intToExt' = Append(intToExt, e)
    /\ deleted' = Append(deleted, TRUE)
    /\ deletedCount' = deletedCount + 1
    /\ vectors' = Append(vectors, vec)
    /\ iid' = [iid EXCEPT ![t] = Len(intToExt) + 1]
    /\ Goto(t, "link")
    /\ UNCHANGED <<extToInt, liveCount, linked>>

AllocateInsert(t) ==
    /\ pc[t] = "reserved"
    /\ Allocate(t, op[t].ext, op[t].row.vec)
    /\ meta' = AppendRow(meta, op[t].row.meta)
    /\ nextExt' = IF op[t].ext >= nextExt THEN op[t].ext + 1 ELSE nextExt
    /\ UNCHANGED <<op, oldIid>>

\* update(), with the caller's metadata or with the row the id has now.
AllocateUpdate(t) ==
    /\ pc[t] = "idle"
    /\ \E e \in DOMAIN extToInt, vec \in Vecs, rec \in Metas \cup {NoMeta} :
          /\ ~Busy(e)
          /\ Allocate(t, e, vec)
          /\ meta' = IF rec = NoMeta THEN AppendRowCopy(meta, extToInt[e])
                                     ELSE AppendRow(meta, rec)
          /\ op' = [op EXCEPT ![t] = Record("Update", e, [vec |-> vec, meta |-> rec])]
          /\ oldIid' = [oldIid EXCEPT ![t] = extToInt[e]]
    /\ UNCHANGED nextExt

\* Phase 2: the index wires the node in, beside searches and other links.
Link(t) ==
    /\ pc[t] = "link"
    /\ linked' = linked \cup {iid[t]}
    /\ Goto(t, "publish")
    /\ UNCHANGED <<extToInt, arrays, deleted, meta, nextExt, counts, op, iid, oldIid>>

\* Phase 3 of an insert.
PublishInsert(t) ==
    /\ pc[t] = "publish" /\ op[t].type = "Insert"
    /\ deleted' = [deleted EXCEPT ![iid[t]] = FALSE]
    /\ deletedCount' = deletedCount - 1 /\ liveCount' = liveCount + 1
    /\ meta' = MarkLive(meta, iid[t])
    /\ extToInt' = [e \in DOMAIN extToInt \cup {op[t].ext} |->
                      IF e = op[t].ext THEN iid[t] ELSE extToInt[e]]
    /\ Return(t)
    /\ UNCHANGED <<arrays, nextExt, linked>>

\* (mutated form of PublishUpdate: the old node stays live)
PublishUpdateKeepsOld(t) ==
    /\ pc[t] = "publish" /\ op[t].type = "Update"
    /\ deleted' = [deleted EXCEPT ![iid[t]] = FALSE]
    /\ deletedCount' = deletedCount - 1 /\ liveCount' = liveCount + 1
    /\ meta' = MarkLive(meta, iid[t])
    /\ extToInt' = [extToInt EXCEPT ![op[t].ext] = iid[t]]
    /\ Return(t)
    /\ UNCHANGED <<arrays, nextExt, linked>>

\* Phase 3 of an update: the new node goes live and the old one becomes a tombstone.
PublishUpdate(t) ==
    /\ pc[t] = "publish" /\ op[t].type = "Update"
    /\ deleted' = [deleted EXCEPT ![iid[t]] = FALSE, ![oldIid[t]] = TRUE]
    /\ meta' = MarkDead(MarkLive(meta, iid[t]), oldIid[t])
    /\ extToInt' = [extToInt EXCEPT ![op[t].ext] = iid[t]]
    /\ Return(t)
    /\ UNCHANGED <<arrays, nextExt, counts, linked>>

-----------------------------------------------------------------------------
(* Mutations under one hold of mu_. *)

\* (mutated form of Remove: the tombstone is not counted)
RemoveUncounted(e) ==
    /\ ~Busy(e)
    /\ deleted' = [deleted EXCEPT ![extToInt[e]] = TRUE]
    /\ meta' = MarkDead(meta, extToInt[e])
    /\ extToInt' = Restrict(extToInt, DOMAIN extToInt \ {e})
    /\ liveCount' = liveCount - 1 /\ UNCHANGED deletedCount
    /\ UNCHANGED <<arrays, nextExt, linked, thread>>

Remove(e) ==
    /\ ~Busy(e)
    /\ deleted' = [deleted EXCEPT ![extToInt[e]] = TRUE]
    /\ meta' = MarkDead(meta, extToInt[e])
    /\ extToInt' = Restrict(extToInt, DOMAIN extToInt \ {e})
    /\ liveCount' = liveCount - 1 /\ deletedCount' = deletedCount + 1
    /\ UNCHANGED <<arrays, nextExt, linked, thread>>

SetMetadata(e) ==
    /\ ~Busy(e)
    /\ \A a \in Attrs, c \in Codes : BagIn(extToInt[e], meta.postings[a][c]) =>
          meta.postings[a][c][extToInt[e]] < MaxPostings
    /\ \E rec \in Metas : meta' = SetRow(meta, extToInt[e], rec)
    /\ UNCHANGED <<extToInt, arrays, deleted, nextExt, counts, linked, thread>>

\* Nobody is between two phases: compact() asks its callers to quiesce first
\* (bplus_tree.h:112-113, vdb.h:236), although it takes mu_.
Quiet == \A t \in Threads : pc[t] \in {"idle", "reserved"}

\* The rows live[1], live[2], ... are all there is, renumbered in this order.
Renumber(live) ==
    /\ meta' = Permute(meta, live)
    /\ intToExt' = [i \in DOMAIN live |-> intToExt[live[i]]]
    /\ vectors' = [i \in DOMAIN live |-> vectors[live[i]]]
    /\ deleted' = [i \in DOMAIN live |-> FALSE]
    /\ linked' = DOMAIN live
    /\ deletedCount' = 0
    /\ UNCHANGED <<nextExt, liveCount, thread>>

\* The one sequence of the live nodes in the order of their internal ids.
LiveInOrder == {s \in Bijection(1..Cardinality(Live), Live) :
                  \A i, j \in DOMAIN s : i < j => s[i] < s[j]}
IdsOf(live) == [e \in {intToExt[i] : i \in Live} |->
                  CHOOSE i \in DOMAIN live : intToExt[live[i]] = e]

\* (mutated form of Compact: the id map is not rebuilt)
CompactKeepsIds == Quiet /\ (\E live \in LiveInOrder : Renumber(live)) /\ UNCHANGED extToInt

\* (mutated form of Compact: beside threads that are between two phases)
CompactAmidWrites == \E live \in LiveInOrder : Renumber(live) /\ extToInt' = IdsOf(live)

\* compact(): live rows keep the order of their internal ids.
Compact == Quiet /\ \E live \in LiveInOrder : Renumber(live) /\ extToInt' = IdsOf(live)

\* save_snapshot(), and load_snapshot() into a new process: tombstones, counters and
\* columns are saved, the id map and the metadata's derived state rebuilt.
Reload ==
    /\ \A t \in Threads : pc[t] = "idle"
    /\ meta' = Rebuild(Deserialized(Serialized(meta)), deleted)
    /\ extToInt' = [e \in {intToExt[i] : i \in Live} |->
                      CHOOSE i \in Live : intToExt[i] = e /\ \A j \in Live : intToExt[j] = e => j <= i]
    /\ UNCHANGED <<arrays, deleted, nextExt, counts, linked, thread>>

Insert(t) == ReserveId(t) \/ AllocateInsert(t) \/ PublishInsert(t)
Update(t) == AllocateUpdate(t) \/ PublishUpdate(t)

Next == \/ \E t \in Threads : Insert(t) \/ Update(t) \/ Link(t)
        \/ \E e \in DOMAIN extToInt : Remove(e) \/ SetMetadata(e)
        \/ Compact \/ Reload

Spec == Init /\ [][Next]_vars

-----------------------------------------------------------------------------
(* Properties. *)

\* ext_to_int_ holds the live nodes, and int_to_ext_ is its inverse there: what a search
\* returns is an id that update and remove will find, once (vdb.h:221-222).
IdsAreInverse ==
    /\ \A e \in DOMAIN extToInt : extToInt[e] \in Live /\ intToExt[extToInt[e]] = e
    /\ \A i \in Live : intToExt[i] \in DOMAIN extToInt /\ extToInt[intToExt[i]] = i

\* The internal id a thread carries from one hold of mu_ to the next is still its own
\* pending node, and the old one of an update is still what the external id means.
PendingIdsAreTheWriters ==
    \A t \in Threads : pc[t] \in {"link", "publish"} =>
       /\ iid[t] \in Nodes \ Live /\ intToExt[iid[t]] = op[t].ext
       /\ \A u \in Threads : pc[u] \in {"link", "publish"} /\ iid[u] = iid[t] => u = t
       /\ IF op[t].type = "Insert" THEN op[t].ext \notin DOMAIN extToInt
          ELSE op[t].ext \in DOMAIN extToInt /\ extToInt[op[t].ext] = oldIid[t]

\* size() and deleted_count() are exact, with tombstones and pending nodes counted
\* (vdb.cpp:116, 128, 151-152, 192-194), and every live node is linked: "a half-inserted
\* node is never observed" (vdb.h:57-58).
CountersAreExact == /\ liveCount = Cardinality(DOMAIN extToInt)
                    /\ deletedCount = Cardinality(Nodes \ Live)
                    /\ Live \subseteq linked

Matching(a, C) == {i \in Live : CodesOf(meta.data[i][a]) \cap C # {}}

\* What queries rest on is kept up at four call sites and rebuilt at two: the live count
\* of every code (metadata.h:245) and of the documents of a text column, a range
\* predicate's rows (metadata.h:300-309), and postings that overlook no live row
\* (metadata.h:257-262).
DerivedStateIsExact ==
    \A a \in Attrs :
       /\ Posted(a) => \A c \in Codes :
             /\ meta.count[a][c] = Cardinality(Matching(a, {c}))
             /\ Matching(a, {c}) \subseteq DOMAIN ResolveEq(meta, deleted, a, c)
       /\ AttrType[a] = "Text" =>
             /\ meta.docs[a] = Cardinality({i \in Live : meta.data[i][a] # NoValue})
             /\ \A c \in Codes : Matching(a, {c}) \subseteq TextCandidates(meta, deleted, a, {c})
       /\ AttrType[a] = "Indexed" => \A lo, hi \in Codes :
             ResolveRange(meta, a, lo, hi) = Matching(a, {c \in Codes : lo <= c /\ c <= hi})

\* What callers can read back: the rows behind the external ids.
Contents == [e \in DOMAIN extToInt |-> [vec  |-> vectors[extToInt[e]],
                                       meta |-> meta.data[extToInt[e]]]]

\* "postings.size() only equals count() exactly right after compact() rebuilds it"
\* (metadata.h:262-263): a compaction leaves no stale entry and no tombstone, and every
\* row where its external id finds it (vdb.cpp:495-498).
Compacted ==
    /\ Live = Nodes
    /\ \A a \in Attrs, c \in Codes : Posted(a) =>
          /\ meta.postings[a][c] = SetToBag(Matching(a, {c}))
          /\ Cardinality(BagToSet(meta.postings[a][c])) = meta.count[a][c]
CompactReclaims == [][Compact => Compacted' /\ Contents' = Contents]_vars

\* An insert or update makes the caller's row appear, with the metadata the row has at
\* that moment if the caller gave none, whatever others did since it was allocated
\* (vdb.h:85-88, vdb.cpp:187-189).
CallersRow(t) == [vec |-> op[t].row.vec,
                  meta |-> IF op[t].row.meta = NoMeta THEN Contents[op[t].ext].meta
                                                      ELSE op[t].row.meta]
PublishesCallersRow ==
    [][\A t \in Threads : PublishInsert(t) \/ PublishUpdate(t) =>
          Contents' = Put(Contents, op[t].ext, CallersRow(t))]_vars

\* "every live InternalId matching the predicate, exact" (metadata.h:145).
EqIsExact ==
    \A a \in Attrs, c \in Codes : AttrType[a] = "Tag" =>
       ResolveEq(meta, deleted, a, c) = SetToBag(Matching(a, {c}))

\* The store is a map from external ids to rows whose mutations take effect at once.
Rows == INSTANCE RowStore WITH
           rows <- Contents,
           nextId <- nextExt,
           reserved <- {op[t].ext : t \in {u \in Threads : op[u].type = "Insert"}}
ImplementsRowStore == Rows!Spec
=============================================================================
