----------------------------- MODULE VDBProofs ------------------------------
(***************************************************************************)
(* The identity of rows in the in-memory store (VDB) and what its callers  *)
(* see:                                                                    *)
(*   IdsHoldTogether        IdsAreInverse                                  *)
(*   PendingIdsStayTrue     PendingIdsAreTheWriters                        *)
(*   CountersStayExact      CountersAreExact                               *)
(*   TheCallersRowAppears   PublishesCallersRow                            *)
(*   TheStoreIsARowStore    ImplementsRowStore                             *)
(* All of them rest on IdsInv, which one lemma per action preserves.       *)
(* What its queries rest on is exact:                                      *)
(*   TypesHold              TypeOK                                         *)
(*   QueriesRestOnTheTruth  DerivedStateIsExact                            *)
(*   CompactionReclaims     CompactReclaims                                *)
(*   EverySearchIsExact     SearchesAreExact                               *)
(* That part says what each method of the metadata store does to a store   *)
(* whose live rows are those in some set, and follows that set, Live, and  *)
(* the pending nodes through the actions.                                  *)
(***************************************************************************)
EXTENDS VDBInductive, VDBSearch, FiniteInduction

-----------------------------------------------------------------------------
(* The methods of the metadata store, field by field. *)

\* The postings with those of row id added.
WithPostings(m, id) ==
    [a \in Attrs |-> [c \in Codes |->
       IF Posted(a) /\ Has(m, id, a, c) THEN m.postings[a][c] (+) SetToBag({id}) ELSE m.postings[a][c]]]

(* add_posting_ touches the postings alone. *)
LEMMA AddPostingsFields ==
    ASSUME NEW m, IsStore(m), NEW id
    PROVE  /\ IsStore(AddPostings(m, id)) /\ AddPostings(m, id).data = m.data
           /\ AddPostings(m, id).count = m.count /\ AddPostings(m, id).docs = m.docs
           /\ AddPostings(m, id).tree = m.tree
           /\ AddPostings(m, id).postings = WithPostings(m, id)
<1>1. AddPostings(m, id) = [m EXCEPT !.postings = WithPostings(m, id)]
  BY DEF AddPostings, WithPostings
<1> QED BY <1>1 DEF IsStore

(* append_row adds a row, and posts it. *)
LEMMA AppendRowFields ==
    ASSUME NEW m, IsStore(m), NEW rec
    PROVE  /\ IsStore(AppendRow(m, rec)) /\ AppendRow(m, rec).data = Append(m.data, rec)
           /\ AppendRow(m, rec).count = m.count /\ AppendRow(m, rec).docs = m.docs
           /\ AppendRow(m, rec).tree = m.tree
           /\ AppendRow(m, rec).postings =
                WithPostings([m EXCEPT !.data = Append(m.data, rec)], Len(m.data) + 1)
<1> DEFINE n == [m EXCEPT !.data = Append(m.data, rec)]
<1>1. /\ IsStore(n) /\ n.data = Append(m.data, rec) /\ n.count = m.count /\ n.docs = m.docs
      /\ n.tree = m.tree
  BY DEF IsStore
<1>2. AppendRow(m, rec) = AddPostings(n, Len(m.data) + 1)
  BY DEF AppendRow
<1> HIDE DEF n
<1>3. /\ IsStore(AppendRow(m, rec)) /\ AppendRow(m, rec).data = Append(m.data, rec)
      /\ AppendRow(m, rec).count = m.count /\ AppendRow(m, rec).docs = m.docs
      /\ AppendRow(m, rec).tree = m.tree
      /\ AppendRow(m, rec).postings = WithPostings(n, Len(m.data) + 1)
  BY <1>1, <1>2, AddPostingsFields
<1> QED BY <1>3 DEF n

\* The counts with n more rows like row id.
WithCount(m, id, n) ==
    [a \in Attrs |-> [c \in Codes |->
       IF Posted(a) /\ Has(m, id, a, c) THEN m.count[a][c] + n ELSE m.count[a][c]]]
WithDocs(m, id, n) ==
    [a \in Attrs |-> IF AttrType[a] = "Text" /\ m.data[id][a] # NoValue THEN m.docs[a] + n ELSE m.docs[a]]

(* adjust_count_ touches the counts alone. *)
LEMMA AdjustCountFields ==
    ASSUME NEW m, IsStore(m), NEW id, NEW n
    PROVE  /\ IsStore(AdjustCount(m, id, n)) /\ AdjustCount(m, id, n).data = m.data
           /\ AdjustCount(m, id, n).count = WithCount(m, id, n)
           /\ AdjustCount(m, id, n).docs = WithDocs(m, id, n)
           /\ AdjustCount(m, id, n).postings = m.postings /\ AdjustCount(m, id, n).tree = m.tree
<1>1. AdjustCount(m, id, n) = [m EXCEPT !.count = WithCount(m, id, n), !.docs = WithDocs(m, id, n)]
  BY DEF AdjustCount, WithCount, WithDocs
<1> QED BY <1>1 DEF IsStore

(* mark_live counts the row and puts it into the range indexes. *)
LEMMA MarkLiveFields ==
    ASSUME NEW m, IsStore(m), NEW id
    PROVE  /\ IsStore(MarkLive(m, id)) /\ MarkLive(m, id).data = m.data
           /\ MarkLive(m, id).count = WithCount(m, id, 1) /\ MarkLive(m, id).docs = WithDocs(m, id, 1)
           /\ MarkLive(m, id).postings = m.postings
           /\ MarkLive(m, id).tree = [a \in Attrs |-> m.tree[a] \cup TreePairs(m, id, a)]
<1> DEFINE n == AdjustCount(m, id, 1)
<1>1. /\ IsStore(n) /\ n.data = m.data /\ n.count = WithCount(m, id, 1) /\ n.docs = WithDocs(m, id, 1)
      /\ n.postings = m.postings /\ n.tree = m.tree
  BY AdjustCountFields
<1>2. MarkLive(m, id) = [n EXCEPT !.tree = [a \in Attrs |-> n.tree[a] \cup TreePairs(m, id, a)]]
  BY DEF MarkLive
<1> HIDE DEF n
<1> QED BY <1>1, <1>2 DEF IsStore

(* mark_dead uncounts the row and takes it out of the range indexes. *)
LEMMA MarkDeadFields ==
    ASSUME NEW m, IsStore(m), NEW id
    PROVE  /\ IsStore(MarkDead(m, id)) /\ MarkDead(m, id).data = m.data
           /\ MarkDead(m, id).count = WithCount(m, id, -1) /\ MarkDead(m, id).docs = WithDocs(m, id, -1)
           /\ MarkDead(m, id).postings = m.postings
           /\ MarkDead(m, id).tree = [a \in Attrs |-> m.tree[a] \ TreePairs(m, id, a)]
<1> DEFINE n == AdjustCount(m, id, -1)
<1>1. /\ IsStore(n) /\ n.data = m.data /\ n.count = WithCount(m, id, -1) /\ n.docs = WithDocs(m, id, -1)
      /\ n.postings = m.postings /\ n.tree = m.tree
  BY AdjustCountFields
<1>2. MarkDead(m, id) = [n EXCEPT !.tree = [a \in Attrs |-> n.tree[a] \ TreePairs(m, id, a)]]
  BY DEF MarkDead
<1> HIDE DEF n
<1> QED BY <1>1, <1>2 DEF IsStore

\* The store of set_row while it overwrites the row: the old one is taken out.
Overwritten(m, id, rec) == [MarkDead(m, id) EXCEPT !.data = [m.data EXCEPT ![id] = rec]]

(* set_row takes the old row out of the derived state ... *)
LEMMA OverwrittenFields ==
    ASSUME NEW m, IsStore(m), NEW id, NEW rec
    PROVE  /\ IsStore(Overwritten(m, id, rec))
           /\ Overwritten(m, id, rec).data = [m.data EXCEPT ![id] = rec]
           /\ Overwritten(m, id, rec).count = MarkDead(m, id).count
           /\ Overwritten(m, id, rec).docs = MarkDead(m, id).docs
           /\ Overwritten(m, id, rec).postings = MarkDead(m, id).postings
           /\ Overwritten(m, id, rec).tree = MarkDead(m, id).tree
<1> DEFINE dead == MarkDead(m, id)
<1>1. IsStore(dead)
  BY MarkDeadFields
<1>2. Overwritten(m, id, rec) = [dead EXCEPT !.data = [m.data EXCEPT ![id] = rec]]
  BY DEF Overwritten
<1> HIDE DEF dead
<1>3. LET set == [dead EXCEPT !.data = [m.data EXCEPT ![id] = rec]]
      IN  /\ IsStore(set) /\ set.data = [m.data EXCEPT ![id] = rec] /\ set.count = dead.count
          /\ set.docs = dead.docs /\ set.postings = dead.postings /\ set.tree = dead.tree
  BY <1>1 DEF IsStore
<1> QED BY <1>2, <1>3 DEF dead

(* ... puts the new one in, and posts it. *)
LEMMA SetRowFields ==
    ASSUME NEW m, IsStore(m), NEW id, NEW rec
    PROVE  LET live == MarkLive(Overwritten(m, id, rec), id)
           IN  SetRow(m, id, rec) = AddPostings(live, id)
<1>1. SetRow(m, id, rec) = AddPostings(MarkLive([MarkDead(m, id) EXCEPT !.data = [MarkDead(m, id).data EXCEPT ![id] = rec]], id), id)
  BY DEF SetRow
<1>2. MarkDead(m, id).data = m.data
  BY MarkDeadFields
<1> QED BY <1>1, <1>2 DEF Overwritten

(* ... and leaves the columns with the new row in its place. *)
LEMMA SetRowData ==
    ASSUME NEW m, IsStore(m), NEW id, NEW rec
    PROVE  IsStore(SetRow(m, id, rec)) /\ SetRow(m, id, rec).data = [m.data EXCEPT ![id] = rec]
<1> DEFINE set  == Overwritten(m, id, rec)
           live == MarkLive(set, id)
<1>1. IsStore(set)
  BY ONLY IsStore(m), OverwrittenFields
<1>4. set.data = [m.data EXCEPT ![id] = rec]
  <2> DEFINE dead == MarkDead(m, id)
             data == [m.data EXCEPT ![id] = rec]
  <2>1. IsStore(dead)
    BY MarkDeadFields
  <2>2. set = [dead EXCEPT !.data = data]
    BY DEF Overwritten
  <2> HIDE DEF dead, data, set
  <2>3. set.data = data
    BY <2>1, <2>2 DEF IsStore
  <2> QED BY <2>3 DEF data
<1>2. SetRow(m, id, rec) = AddPostings(live, id)
  BY SetRowFields
<1> HIDE DEF set
<1>3. IsStore(live) /\ live.data = set.data
  BY <1>1, MarkLiveFields
<1> HIDE DEF live
<1> QED BY <1>1, <1>2, <1>3, <1>4, AddPostingsFields

\* Postings and range indexes of the rows ids, and of nothing else.
PostingsOf(m, ids) ==
    [a \in Attrs |-> [c \in Codes |-> SetToBag({i \in ids : Posted(a) /\ Has(m, i, a, c)})]]
TreesOf(m, ids) == [a \in Attrs |-> UNION {TreePairs(m, i, a) : i \in ids}]

(* Derived rebuilds both from the columns. *)
LEMMA DerivedFields ==
    ASSUME NEW m, IsStore(m), NEW ids
    PROVE  /\ IsStore(Derived(m, ids)) /\ Derived(m, ids).data = m.data
           /\ Derived(m, ids).count = m.count /\ Derived(m, ids).docs = m.docs
           /\ Derived(m, ids).postings = PostingsOf(m, ids) /\ Derived(m, ids).tree = TreesOf(m, ids)
<1>1. Derived(m, ids) = [m EXCEPT !.postings = PostingsOf(m, ids), !.tree = TreesOf(m, ids)]
  BY DEF Derived, PostingsOf, TreesOf
<1> QED BY <1>1 DEF IsStore

(* compact() renumbers the rows of the store and keeps the counts. *)
LEMMA PermuteFields ==
    ASSUME NEW m, IsStore(m), NEW live
    PROVE  LET rows == [m EXCEPT !.data = [i \in 1..Len(live) |-> m.data[live[i]]]]
           IN  /\ IsStore(Permute(m, live)) /\ Permute(m, live).data = rows.data
               /\ rows.data = [i \in 1..Len(live) |-> m.data[live[i]]]
               /\ Permute(m, live).count = m.count /\ Permute(m, live).docs = m.docs
               /\ Permute(m, live).postings = PostingsOf(rows, 1..Len(live))
               /\ Permute(m, live).tree = TreesOf(rows, 1..Len(live))
<1> DEFINE data == [i \in 1..Len(live) |-> m.data[live[i]]]
           rows == [m EXCEPT !.data = data]
<1>1. IsStore(rows) /\ rows.data = data /\ rows.count = m.count /\ rows.docs = m.docs
  <2> HIDE DEF data
  <2> QED BY DEF IsStore
<1>2. Permute(m, live) = Derived(rows, 1..Len(live))
  BY DEF Permute
<1> HIDE DEF rows
<1>3. /\ IsStore(Permute(m, live)) /\ Permute(m, live).data = rows.data
      /\ Permute(m, live).count = m.count /\ Permute(m, live).docs = m.docs
      /\ Permute(m, live).postings = PostingsOf(rows, 1..Len(live))
      /\ Permute(m, live).tree = TreesOf(rows, 1..Len(live))
  BY <1>1, <1>2, DerivedFields
<1> QED BY <1>1, <1>3 DEF rows

(* What compact() leaves of the columns. *)
LEMMA PermuteData ==
    ASSUME NEW m, IsStore(m), NEW live
    PROVE  /\ IsStore(Permute(m, live))
           /\ Permute(m, live).data = [i \in 1..Len(live) |-> m.data[live[i]]]
<1> DEFINE rows == [m EXCEPT !.data = [i \in 1..Len(live) |-> m.data[live[i]]]]
<1>1. IsStore(rows) /\ rows.data = [i \in 1..Len(live) |-> m.data[live[i]]]
  BY DEF IsStore
<1>2. Permute(m, live) = Derived(rows, 1..Len(live))
  BY DEF Permute
<1> HIDE DEF rows
<1> QED BY <1>1, <1>2, DerivedFields

\* The counts of the rows ids.
CountOf(m, ids) ==
    [a \in Attrs |-> [c \in Codes |-> Cardinality({i \in ids : Posted(a) /\ Has(m, i, a, c)})]]
DocsOf(m, ids) ==
    [a \in Attrs |-> Cardinality({i \in ids : AttrType[a] = "Text" /\ m.data[i][a] # NoValue})]

(* A store read back from a snapshot has the columns of the one that was saved, and its derived
   state is rebuilt from them.                                                                  *)
LEMMA ReloadFields ==
    ASSUME NEW m, IsStore(m), NEW dead
    PROVE  LET r    == Rebuild(Deserialized(Serialized(m)), dead)
               live == {i \in 1..Len(m.data) : ~dead[i]}
           IN  /\ IsStore(r) /\ r.data = m.data
               /\ r.count = CountOf(m, live) /\ r.docs = DocsOf(m, live)
               /\ r.postings = PostingsOf(m, live) /\ r.tree = TreesOf(m, live)
<1> DEFINE n    == Deserialized(Serialized(m))
           live == {i \in 1..Len(m.data) : ~dead[i]}
           d    == Derived(n, live)
<1>1. IsStore(n) /\ n.data = m.data
  <2>1. Serialized(m).data = m.data
    BY DEF Serialized
  <2>2. n = [NoRows EXCEPT !.data = m.data]
    BY <2>1 DEF Deserialized
  <2>3. IsStore(NoRows)
    BY DEF NoRows, IsStore
  <2> QED BY <2>2, <2>3 DEF IsStore
<1>2. Rebuild(n, dead) = [d EXCEPT !.count = CountOf(n, live), !.docs = DocsOf(n, live)]
  <2> HIDE DEF n
  <2> QED BY <1>1 DEF Rebuild, CountOf, DocsOf
<1> HIDE DEF n, live
<1>3. /\ IsStore(d) /\ d.data = n.data /\ d.postings = PostingsOf(n, live) /\ d.tree = TreesOf(n, live)
  BY <1>1, DerivedFields
<1>4. /\ CountOf(n, live) = CountOf(m, live) /\ DocsOf(n, live) = DocsOf(m, live)
      /\ PostingsOf(n, live) = PostingsOf(m, live) /\ TreesOf(n, live) = TreesOf(m, live)
  BY <1>1 DEF CountOf, DocsOf, PostingsOf, TreesOf, Has, TreePairs
<1> HIDE DEF d
<1>5. /\ IsStore(Rebuild(n, dead)) /\ Rebuild(n, dead).data = m.data
      /\ Rebuild(n, dead).count = CountOf(m, live) /\ Rebuild(n, dead).docs = DocsOf(m, live)
      /\ Rebuild(n, dead).postings = PostingsOf(m, live) /\ Rebuild(n, dead).tree = TreesOf(m, live)
  BY <1>1, <1>2, <1>3, <1>4 DEF IsStore
<1> QED BY <1>5 DEF n, live

-----------------------------------------------------------------------------
(* Identity maps, threads and counters. *)

USE DEF Goto, Return, IsMap, Writing, arrays, counts, thread

(* What the arrays of a store are. *)
LEMMA Arrays ==
    ASSUME ArraysInv
    PROVE  /\ Len(intToExt) \in Nat /\ Nodes = 1..Len(intToExt) /\ IsFiniteSet(Nodes)
           /\ DOMAIN intToExt = Nodes /\ DOMAIN deleted = Nodes /\ DOMAIN vectors = Nodes
           /\ DOMAIN meta.data = Nodes /\ Len(meta.data) = Len(intToExt)
           /\ \A i \in Nodes : /\ intToExt[i] \in Nat /\ deleted[i] \in BOOLEAN
                               /\ vectors[i] \in Vecs /\ meta.data[i] \in Metas
           /\ Live \subseteq Nodes /\ IsFiniteSet(Live) /\ IsFiniteSet(Nodes \ Live)
<1>1. Len(intToExt) \in Nat /\ Nodes = 1..Len(intToExt)
  BY DEF ArraysInv, Nodes
<1>2. IsFiniteSet(Nodes)
  <2>1. 1 \in Int /\ Len(intToExt) \in Int
    BY <1>1
  <2>2. IsFiniteSet(1..Len(intToExt))
    BY ONLY <2>1, FS_Interval
  <2> QED BY <1>1, <2>2
<1>3. Live \subseteq Nodes /\ IsFiniteSet(Live) /\ IsFiniteSet(Nodes \ Live)
  <2>1. Live \subseteq Nodes
    BY DEF Live
  <2>2. Live \in SUBSET Nodes /\ Nodes \ Live \in SUBSET Nodes
    BY <2>1
  <2> QED BY ONLY <1>2, <2>2, FS_Subset
<1>4. /\ DOMAIN intToExt = Nodes /\ DOMAIN deleted = Nodes /\ DOMAIN vectors = Nodes
      /\ DOMAIN meta.data = Nodes /\ Len(meta.data) = Len(intToExt)
  BY <1>1 DEF ArraysInv
<1>5. \A i \in Nodes : /\ intToExt[i] \in Nat /\ deleted[i] \in BOOLEAN
                       /\ vectors[i] \in Vecs /\ meta.data[i] \in Metas
  BY <1>4 DEF ArraysInv
<1> QED BY <1>1, <1>2, <1>3, <1>4, <1>5

(* The external ids in use are finitely many. *)
LEMMA IdsFinite ==
    ASSUME ArraysInv, IdsAreInverse
    PROVE  IsFiniteSet(DOMAIN extToInt) /\ \A e \in DOMAIN extToInt : e \in Nat /\ e < nextExt /\ extToInt[e] \in Nodes
<1>1. /\ Live \subseteq Nodes /\ nextExt \in Nat /\ DOMAIN extToInt \subseteq Nat
      /\ \A i \in Nodes : intToExt[i] < nextExt
  BY Arrays DEF ArraysInv
<1>2. \A e \in DOMAIN extToInt : e \in Nat /\ e < nextExt /\ extToInt[e] \in Nodes
  BY <1>1 DEF IdsAreInverse
<1>3. 0 \in Int /\ nextExt - 1 \in Int /\ DOMAIN extToInt \in SUBSET (0..(nextExt - 1))
  BY <1>1, <1>2
<1>4. IsFiniteSet(0..(nextExt - 1))
  BY ONLY <1>3, FS_Interval
<1>5. IsFiniteSet(DOMAIN extToInt)
  BY ONLY <1>3, <1>4, FS_Subset
<1> QED BY <1>2, <1>5

(* One more element of a sequence. *)
LEMMA OneMore ==
    ASSUME NEW S, NEW l \in Seq(S), NEW x \in S, NEW a, a = Append(l, x)
    PROVE  /\ a \in Seq(S) /\ Len(a) = Len(l) + 1 /\ a[Len(l) + 1] = x
           /\ \A i \in 1..Len(l) : a[i] = l[i]
  OBVIOUS

(* One more flag: a boolean is not a value to the provers, so the lemma is stated again. *)
LEMMA OneMoreFlag ==
    ASSUME NEW l \in Seq(BOOLEAN), NEW a, a = Append(l, TRUE)
    PROVE  /\ a \in Seq(BOOLEAN) /\ Len(a) = Len(l) + 1 /\ a[Len(l) + 1] = TRUE
           /\ \A i \in 1..Len(l) : a[i] = l[i]
<1>1. a \in Seq(BOOLEAN) /\ Len(a) = Len(l) + 1
  OBVIOUS
<1>2. a[Len(l) + 1] = TRUE
  OBVIOUS
<1>3. \A i \in 1..Len(l) : a[i] = l[i]
  OBVIOUS
<1> QED BY <1>1, <1>2, <1>3

(* Replacing elements keeps a sequence and its length. *)
LEMMA SameShape ==
    ASSUME NEW S, NEW l \in Seq(S), NEW a \in [1..Len(l) -> S]
    PROVE  a \in Seq(S) /\ Len(a) = Len(l)
<1>1. Len(l) \in Nat
  OBVIOUS
<1>2. a \in Seq(S) /\ DOMAIN a = 1..Len(l)
  BY <1>1
<1> QED BY <1>1, <1>2

(* A function on 1..n is a sequence of length n. *)
LEMMA SeqOf ==
    ASSUME NEW S, NEW n \in Nat, NEW a \in [1..n -> S]
    PROVE  a \in Seq(S) /\ Len(a) = n
<1>1. a \in Seq(S) /\ DOMAIN a = 1..n
  OBVIOUS
<1> QED BY <1>1

(* reserve_id hands out an id nobody has (vdb.cpp:91-94). *)
LEMMA ReserveIdIds ==
    ASSUME IdsInv, NEW t \in Threads, ReserveId(t)
    PROVE  IdsInv'
<1> USE DEF IdsInv
<1>1. PICK row \in [vec : Vecs, meta : Metas] : op' = [op EXCEPT ![t] = Record("Insert", nextExt, row)]
  BY DEF ReserveId
<1>2. /\ pc[t] = "idle" /\ pc' = [pc EXCEPT ![t] = "reserved"] /\ nextExt' = nextExt + 1
      /\ UNCHANGED <<extToInt, arrays, deleted, meta, counts, linked, iid, oldIid>>
  BY DEF ReserveId
<1>3. Nodes' = Nodes /\ Live' = Live
  BY <1>2 DEF Nodes, Live
<1>4. ArraysInv'
  BY <1>2, <1>3, Arrays DEF ArraysInv
<1>5. CallsInv'
  <2>1. Record("Insert", nextExt, row) \in Call
    BY DEF Record, Call, ArraysInv
  <2>2. op' \in [Threads -> Call] /\ \A u \in Threads : op'[u] = IF u = t THEN Record("Insert", nextExt, row) ELSE op[u]
    BY <1>1, <2>1 DEF CallsInv
  <2>3. nextExt \in Nat /\ nextExt \notin DOMAIN extToInt
    BY IdsFinite DEF ArraysInv
  <2>4. \A u \in Threads : op[u].ext \in Nat
    BY DEF CallsInv, Call
  <2>5. \A u \in Threads : pc'[u] = IF u = t THEN "reserved" ELSE pc[u]
    BY <1>2 DEF CallsInv
  <2>6. op'[t].type = "Insert" /\ op'[t].ext = nextExt /\ op'[t].row \in [vec : Vecs, meta : Metas]
    BY <2>2 DEF Record
  <2>7. pc' \in [Threads -> {"idle", "reserved", "link", "publish"}]
    BY <1>2 DEF CallsInv
  <2>8. \A u \in Threads : u # t => op'[u] = op[u]
    BY <2>2
  <2>9. \A u \in Threads : pc[u] # "idle" => op[u].ext # nextExt
    BY <2>3, <2>4 DEF CallsInv
  <2>10. \A u \in Threads :
          /\ pc'[u] = "idle" <=> op'[u].type = "None"
          /\ pc'[u] = "reserved" => op'[u].type = "Insert"
          /\ pc'[u] # "idle" => op'[u].ext < nextExt' /\ op'[u].row.vec \in Vecs
          /\ op'[u].type = "Insert" => op'[u].row.meta \in Metas /\ op'[u].ext \notin DOMAIN extToInt'
    <3> TAKE u \in Threads
    <3>1. CASE u = t
      BY <1>2, <2>3, <2>5, <2>6, <3>1
    <3>2. CASE u # t
      BY <1>2, <2>3, <2>4, <2>5, <2>8, <3>2 DEF CallsInv
    <3> QED BY <3>1, <3>2
  <2>11. \A u, v \in Threads : (pc'[u] # "idle" /\ pc'[v] # "idle" /\ op'[u].ext = op'[v].ext) => u = v
    BY <2>5, <2>6, <2>8, <2>9 DEF CallsInv
  <2> QED BY <1>2, <2>2, <2>7, <2>10, <2>11 DEF CallsInv
<1>6. IdsAreInverse' /\ CountersAreExact' /\ LinkedInv'
  BY <1>2, <1>3 DEF IdsAreInverse, CountersAreExact, LinkedInv, CallsInv
<1>7. PendingIdsAreTheWriters' /\ PendingRows'
  BY <1>1, <1>2, <1>3 DEF PendingIdsAreTheWriters, PendingRows, CallsInv
<1> QED BY <1>4, <1>5, <1>6, <1>7

(* Phase 1 gives the writer a node of its own, which nobody else sees (vdb.cpp:108-116). *)
LEMMA AllocateIds ==
    ASSUME IdsInv, NEW t \in Threads, NEW e \in Nat, NEW vec \in Vecs, NEW rec \in Metas,
           Allocate(t, e, vec), IsStore(meta'), meta'.data = Append(meta.data, rec),
           e < nextExt, nextExt' = nextExt,
           op' \in [Threads -> Call], \A u \in Threads : u # t => op'[u] = op[u] /\ oldIid'[u] = oldIid[u],
           oldIid' \in [Threads -> 0..MaxNodes],
           op'[t].ext = e, op'[t].row.vec = vec, op'[t].type \in {"Insert", "Update"},
           \A u \in Threads \ {t} : pc[u] # "idle" => op[u].ext # e,
           IF op'[t].type = "Insert" THEN e \notin DOMAIN extToInt /\ op'[t].row.meta = rec
           ELSE /\ e \in DOMAIN extToInt /\ oldIid'[t] = extToInt[e]
                /\ rec = IF op'[t].row.meta = NoMeta THEN meta.data[extToInt[e]] ELSE op'[t].row.meta
    PROVE  IdsInv'
<1> USE DEF IdsInv
<1> DEFINE n == Len(intToExt) + 1
<1>1. /\ intToExt' = Append(intToExt, e) /\ deleted' = Append(deleted, TRUE)
      /\ vectors' = Append(vectors, vec) /\ deletedCount' = deletedCount + 1
      /\ iid' = [iid EXCEPT ![t] = n] /\ pc' = [pc EXCEPT ![t] = "link"]
      /\ UNCHANGED <<extToInt, liveCount, linked>> /\ Len(intToExt) < MaxNodes
  BY DEF Allocate
<1>2. /\ Len(intToExt) \in Nat /\ Nodes = 1..Len(intToExt) /\ Live \subseteq Nodes
      /\ IsFiniteSet(Nodes) /\ IsFiniteSet(Nodes \ Live)
  BY Arrays
<1>3. /\ intToExt' \in Seq(Nat) /\ Len(intToExt') = n /\ intToExt'[n] = e
      /\ \A i \in Nodes : intToExt'[i] = intToExt[i]
  BY <1>1, <1>2, OneMore DEF ArraysInv
<1>4. /\ deleted' \in Seq(BOOLEAN) /\ Len(deleted') = n /\ deleted'[n] = TRUE
      /\ \A i \in Nodes : deleted'[i] = deleted[i]
  <2>1. deleted \in Seq(BOOLEAN) /\ Len(deleted) = Len(intToExt) /\ deleted' = Append(deleted, TRUE)
    BY <1>1 DEF ArraysInv
  <2>2. /\ deleted' \in Seq(BOOLEAN) /\ Len(deleted') = Len(deleted) + 1 /\ deleted'[Len(deleted) + 1] = TRUE
        /\ \A i \in 1..Len(deleted) : deleted'[i] = deleted[i]
    BY ONLY <2>1, OneMoreFlag
  <2> QED BY <1>2, <2>1, <2>2
<1>5. /\ vectors' \in Seq(Vecs) /\ Len(vectors') = n /\ vectors'[n] = vec
      /\ \A i \in Nodes : vectors'[i] = vectors[i]
  <2>1. vectors \in Seq(Vecs) /\ Len(vectors) = Len(intToExt) /\ vectors' = Append(vectors, vec)
    BY <1>1 DEF ArraysInv
  <2>2. /\ vectors' \in Seq(Vecs) /\ Len(vectors') = Len(vectors) + 1 /\ vectors'[Len(vectors) + 1] = vec
        /\ \A i \in 1..Len(vectors) : vectors'[i] = vectors[i]
    BY ONLY <2>1, vec \in Vecs, OneMore
  <2> QED BY <1>2, <2>1, <2>2
<1>6. /\ meta'.data \in Seq(Metas) /\ Len(meta'.data) = n /\ meta'.data[n] = rec
      /\ \A i \in Nodes : meta'.data[i] = meta.data[i]
  <2>1. meta.data \in Seq(Metas) /\ Len(meta.data) = Len(intToExt) /\ meta'.data = Append(meta.data, rec)
    BY DEF ArraysInv
  <2>2. rec \in Metas
    OBVIOUS
  <2>3. /\ meta'.data \in Seq(Metas) /\ Len(meta'.data) = Len(meta.data) + 1 /\ meta'.data[Len(meta.data) + 1] = rec
        /\ \A i \in 1..Len(meta.data) : meta'.data[i] = meta.data[i]
    BY ONLY <2>1, <2>2, OneMore
  <2> QED BY <1>2, <2>1, <2>3
<1>7. Nodes' = Nodes \cup {n} /\ n \notin Nodes /\ n \in 1..MaxNodes /\ Nodes' = 1..n
  <2>1. MaxNodes \in Nat
    BY VDBAssumption
  <2> QED BY <1>1, <1>2, <1>3, <2>1 DEF Nodes
<1>8. Live' = Live
  <2>1. Live' = {i \in Nodes \cup {n} : ~deleted'[i]}
    BY <1>7 DEF Live
  <2> QED BY <1>4, <2>1 DEF Live
<1> HIDE DEF n
<1>9. ArraysInv'
  BY <1>1, <1>2, <1>3, <1>4, <1>5, <1>6, <1>7 DEF ArraysInv, n
<1>10. CallsInv'
  <2>1. op[t].ext \in Nat /\ \A u \in Threads : op'[u] \in Call
    BY DEF CallsInv, Call
  <2>2. \A u \in Threads : pc'[u] = IF u = t THEN "link" ELSE pc[u]
    BY <1>1 DEF CallsInv
  <2>3. iid' \in [Threads -> 0..MaxNodes] /\ pc' \in [Threads -> {"idle", "reserved", "link", "publish"}]
    BY <1>1, <1>7 DEF CallsInv
  <2>4. \A u \in Threads : u # t => op'[u] = op[u]
    OBVIOUS
  <2>5. \A u \in Threads :
          /\ pc'[u] = "idle" <=> op'[u].type = "None"
          /\ pc'[u] = "reserved" => op'[u].type = "Insert"
          /\ pc'[u] # "idle" => op'[u].ext < nextExt' /\ op'[u].row.vec \in Vecs
          /\ op'[u].type = "Insert" => op'[u].row.meta \in Metas /\ op'[u].ext \notin DOMAIN extToInt'
    <3> TAKE u \in Threads
    <3>1. CASE u = t
      BY <1>1, <2>2, <3>1
    <3>2. CASE u # t
      BY <1>1, <2>2, <2>4, <3>2 DEF CallsInv
    <3> QED BY <3>1, <3>2
  <2>6. \A u, v \in Threads : (pc'[u] # "idle" /\ pc'[v] # "idle" /\ op'[u].ext = op'[v].ext) => u = v
    <3>1. \A u, v \in Threads : (pc[u] # "idle" /\ pc[v] # "idle" /\ op[u].ext = op[v].ext) => u = v
      BY DEF CallsInv
    <3>2. op'[t].ext = e /\ \A u \in Threads \ {t} : pc[u] # "idle" => op[u].ext # e
      OBVIOUS
    <3> QED BY ONLY <2>2, <2>4, <3>1, <3>2, t \in Threads
  <2> QED BY <2>1, <2>3, <2>5, <2>6 DEF CallsInv
<1>11. IdsAreInverse'
  <2>1. \A i \in Live : intToExt'[i] = intToExt[i]
    BY <1>2, <1>3
  <2>2. extToInt' = extToInt /\ Live' = Live
    BY <1>1, <1>8
  <2>3. /\ \A x \in DOMAIN extToInt : extToInt[x] \in Live /\ intToExt[extToInt[x]] = x
        /\ \A i \in Live : intToExt[i] \in DOMAIN extToInt /\ extToInt[intToExt[i]] = i
    BY DEF IdsAreInverse
  <2> QED BY ONLY <2>1, <2>2, <2>3 DEF IdsAreInverse
<1>12. PendingIdsAreTheWriters'
  <2>1. \A u \in Threads : /\ pc'[u] = IF u = t THEN "link" ELSE pc[u]
                           /\ iid'[u] = IF u = t THEN n ELSE iid[u]
    BY <1>1 DEF CallsInv
  <2>2. \A u \in Threads \ {t} : op'[u] = op[u] /\ oldIid'[u] = oldIid[u]
    OBVIOUS
  <2>3. extToInt' = extToInt /\ op'[t].ext = e /\ op'[t].type \in {"Insert", "Update"}
    BY <1>1
  <2>4. IF op'[t].type = "Insert" THEN op'[t].ext \notin DOMAIN extToInt'
        ELSE op'[t].ext \in DOMAIN extToInt' /\ extToInt'[op'[t].ext] = oldIid'[t]
    BY <2>3
  <2>5. \A u \in Threads \ {t} : Writing(u) =>
           /\ iid[u] \in Nodes \ Live /\ intToExt[iid[u]] = op[u].ext
           /\ \A v \in Threads : Writing(v) /\ iid[v] = iid[u] => v = u
           /\ IF op[u].type = "Insert" THEN op[u].ext \notin DOMAIN extToInt
              ELSE op[u].ext \in DOMAIN extToInt /\ extToInt[op[u].ext] = oldIid[u]
    BY DEF PendingIdsAreTheWriters
  <2>6. ASSUME NEW u \in Threads \ {t}, pc'[u] \in {"link", "publish"}
        PROVE  /\ iid'[u] \in Nodes /\ iid'[u] \in Nodes' \ Live' /\ intToExt'[iid'[u]] = op'[u].ext
               /\ \A v \in Threads : pc'[v] \in {"link", "publish"} /\ iid'[v] = iid'[u] => v = u
               /\ IF op'[u].type = "Insert" THEN op'[u].ext \notin DOMAIN extToInt'
                  ELSE op'[u].ext \in DOMAIN extToInt' /\ extToInt'[op'[u].ext] = oldIid'[u]
    <3>1. Writing(u) /\ iid'[u] = iid[u] /\ op'[u] = op[u] /\ oldIid'[u] = oldIid[u]
      BY <2>1, <2>2, <2>6
    <3>2. iid[u] \in Nodes \ Live
      BY <2>5, <3>1
    <3> QED BY ONLY <1>3, <1>7, <1>8, <2>1, <2>3, <2>5, <3>1, <3>2, t \in Threads, u \in Threads \ {t} DEF Writing
  <2>7. /\ iid'[t] \in Nodes' \ Live' /\ intToExt'[iid'[t]] = op'[t].ext
        /\ \A v \in Threads : pc'[v] \in {"link", "publish"} /\ iid'[v] = iid'[t] => v = t
    BY <1>2, <1>3, <1>7, <1>8, <2>1, <2>3, <2>6
  <2> QED BY <2>4, <2>6, <2>7 DEF PendingIdsAreTheWriters
<1>13. PendingRows'
  <2>1. \A u \in Threads : /\ pc'[u] = IF u = t THEN "link" ELSE pc[u]
                           /\ iid'[u] = IF u = t THEN n ELSE iid[u]
    BY <1>1 DEF CallsInv
  <2>2. ASSUME NEW u \in Threads, u # t, Writing(u)
        PROVE  iid[u] \in Nodes /\ (op[u].row.meta = NoMeta => oldIid[u] \in Nodes)
    <3>1. op[u].type \in {"Insert", "Update"} /\ (op[u].type = "Insert" => op[u].row.meta \in Metas)
      BY <2>2 DEF CallsInv, Call
    <3>2. op[u].type = "Update" => oldIid[u] \in Nodes
      BY <2>2, <3>1, IdsFinite DEF PendingIdsAreTheWriters
    <3> QED BY <2>2, <3>1, <3>2, RecordsAssumption DEF PendingIdsAreTheWriters
  <2>3. op'[t].type = "Update" => oldIid'[t] \in Nodes /\ meta'.data[oldIid'[t]] = meta.data[oldIid'[t]]
    BY <1>6, IdsFinite
  <2>4. op'[t].type = "Insert" => op'[t].row.meta # NoMeta
    BY RecordsAssumption
  <2>5. ASSUME NEW u \in Threads, u # t, Writing(u)'
        PROVE  /\ vectors'[iid'[u]] = op'[u].row.vec
               /\ meta'.data[iid'[u]] = IF op'[u].row.meta = NoMeta THEN meta'.data[oldIid'[u]] ELSE op'[u].row.meta
    <3>1. /\ Writing(u) /\ iid'[u] = iid[u] /\ op'[u] = op[u] /\ oldIid'[u] = oldIid[u]
          /\ iid[u] \in Nodes /\ (op[u].row.meta = NoMeta => oldIid[u] \in Nodes)
      BY <2>1, <2>2, <2>5
    <3>2. /\ vectors[iid[u]] = op[u].row.vec
          /\ meta.data[iid[u]] = IF op[u].row.meta = NoMeta THEN meta.data[oldIid[u]] ELSE op[u].row.meta
      BY <3>1 DEF PendingRows
    <3> QED BY ONLY <1>5, <1>6, <3>1, <3>2
  <2>6. /\ vectors'[n] = op'[t].row.vec
        /\ meta'.data[n] = IF op'[t].row.meta = NoMeta THEN meta'.data[oldIid'[t]] ELSE op'[t].row.meta
    BY <1>5, <1>6, <2>3, <2>4
  <2> QED BY <2>1, <2>5, <2>6 DEF PendingRows
<1>14. LinkedInv'
  <2>1. \A u \in Threads : pc'[u] = "publish" => u # t /\ pc[u] = "publish" /\ iid'[u] = iid[u]
    BY <1>1 DEF CallsInv
  <2> QED BY <1>1, <1>7, <2>1 DEF LinkedInv
<1>15. CountersAreExact'
  <2>1. Nodes' \ Live' = (Nodes \ Live) \cup {n} /\ n \notin Nodes \ Live
    BY <1>2, <1>7, <1>8
  <2>2. Cardinality(Nodes' \ Live') = Cardinality(Nodes \ Live) + 1
    BY ONLY <1>2, <2>1, FS_AddElement
  <2> QED BY <1>1, <1>8, <2>2 DEF CountersAreExact
<1> QED BY <1>9, <1>10, <1>11, <1>12, <1>13, <1>14, <1>15

(* An allocation for an insert keeps the metadata the caller gave. *)
LEMMA AllocateInsertIds ==
    ASSUME IdsInv, NEW t \in Threads, AllocateInsert(t)
    PROVE  IdsInv'
<1> DEFINE e == op[t].ext
           vec == op[t].row.vec
           rec == op[t].row.meta
<1>1. /\ pc[t] = "reserved" /\ Allocate(t, e, vec) /\ meta' = AppendRow(meta, rec)
      /\ nextExt' = IF e >= nextExt THEN e + 1 ELSE nextExt
      /\ op' = op /\ oldIid' = oldIid
  BY DEF AllocateInsert
<1>2. op[t].type = "Insert" /\ e < nextExt /\ vec \in Vecs /\ rec \in Metas /\ e \notin DOMAIN extToInt
  BY <1>1 DEF IdsInv, CallsInv
<1>3. e \in Nat /\ nextExt \in Nat
  BY DEF IdsInv, CallsInv, Call, ArraysInv
<1>4. nextExt' = nextExt
  BY <1>1, <1>2, <1>3
<1>5. IsStore(meta') /\ meta'.data = Append(meta.data, rec)
  <2>1. IsStore(meta)
    BY DEF IdsInv, ArraysInv
  <2> HIDE DEF rec
  <2> QED BY <1>1, <2>1, AppendRowFields
<1>6. \A u \in Threads \ {t} : pc[u] # "idle" => op[u].ext # e
  BY <1>1 DEF IdsInv, CallsInv
<1>7. op' \in [Threads -> Call] /\ oldIid' \in [Threads -> 0..MaxNodes]
  BY <1>1 DEF IdsInv, CallsInv
<1>8. /\ op'[t].ext = e /\ op'[t].row.vec = vec /\ op'[t].type = "Insert" /\ op'[t].row.meta = rec
      /\ \A u \in Threads : u # t => op'[u] = op[u] /\ oldIid'[u] = oldIid[u]
  BY <1>1, <1>2
<1> HIDE DEF e, vec, rec
<1> QED BY <1>1, <1>2, <1>3, <1>4, <1>5, <1>6, <1>7, <1>8, AllocateIds

(* An allocation for an update finds the row it replaces (vdb.cpp:140-159). *)
LEMMA AllocateUpdateIds ==
    ASSUME IdsInv, NEW t \in Threads, AllocateUpdate(t)
    PROVE  IdsInv'
<1>1. PICK e \in DOMAIN extToInt, vec \in Vecs, given \in Metas \cup {NoMeta} :
         /\ ~Busy(e) /\ Allocate(t, e, vec)
         /\ meta' = IF given = NoMeta THEN AppendRowCopy(meta, extToInt[e]) ELSE AppendRow(meta, given)
         /\ op' = [op EXCEPT ![t] = Record("Update", e, [vec |-> vec, meta |-> given])]
         /\ oldIid' = [oldIid EXCEPT ![t] = extToInt[e]]
  BY DEF AllocateUpdate
<1>2. pc[t] = "idle" /\ nextExt' = nextExt
  BY DEF AllocateUpdate
<1>3. e \in Nat /\ e < nextExt /\ extToInt[e] \in Nodes
  BY IdsFinite DEF IdsInv
<1>4. /\ IsStore(meta) /\ Nodes = 1..Len(intToExt) /\ Len(intToExt) \in Nat /\ Len(intToExt) <= MaxNodes
      /\ \A i \in Nodes : meta.data[i] \in Metas
  BY Arrays DEF IdsInv, ArraysInv
<1> DEFINE rec == IF given = NoMeta THEN meta.data[extToInt[e]] ELSE given
<1>5. meta' = AppendRow(meta, rec) /\ rec \in Metas
  BY <1>1, <1>3, <1>4 DEF AppendRowCopy
<1>6. Record("Update", e, [vec |-> vec, meta |-> given]) \in Call
  BY <1>3 DEF Record, Call
<1>7. /\ op' \in [Threads -> Call] /\ op'[t] = Record("Update", e, [vec |-> vec, meta |-> given])
      /\ \A u \in Threads : u # t => op'[u] = op[u]
  BY <1>1, <1>6 DEF IdsInv, CallsInv
<1>8. op'[t].ext = e /\ op'[t].row.vec = vec /\ op'[t].type = "Update" /\ op'[t].row.meta = given
  BY <1>7 DEF Record
<1>9. extToInt[e] \in 0..MaxNodes
  <2>1. MaxNodes \in Nat
    BY VDBAssumption
  <2> QED BY <1>3, <1>4, <2>1
<1>10. /\ oldIid' \in [Threads -> 0..MaxNodes] /\ oldIid'[t] = extToInt[e]
       /\ \A u \in Threads : u # t => oldIid'[u] = oldIid[u]
  BY <1>1, <1>9 DEF IdsInv, CallsInv
<1>11. \A u \in Threads \ {t} : pc[u] # "idle" => op[u].ext # e
  BY <1>1 DEF Busy
<1>12. rec = IF op'[t].row.meta = NoMeta THEN meta.data[extToInt[e]] ELSE op'[t].row.meta
  BY <1>8
<1> HIDE DEF rec
<1>13. IsStore(meta') /\ meta'.data = Append(meta.data, rec)
  BY <1>4, <1>5, AppendRowFields
<1> QED BY <1>1, <1>2, <1>3, <1>5, <1>7, <1>8, <1>10, <1>11, <1>12, <1>13, AllocateIds

(* Linking changes nothing but what is linked. *)
LEMMA LinkIds ==
    ASSUME IdsInv, NEW t \in Threads, Link(t)
    PROVE  IdsInv'
<1>1. /\ pc[t] = "link" /\ linked' = linked \cup {iid[t]} /\ pc' = [pc EXCEPT ![t] = "publish"]
      /\ UNCHANGED <<extToInt, arrays, deleted, meta, nextExt, counts, op, iid, oldIid>>
  BY DEF Link
<1>2. \A u \in Threads : pc'[u] = IF u = t THEN "publish" ELSE pc[u]
  BY <1>1 DEF IdsInv, CallsInv
<1>3. Nodes' = Nodes /\ Live' = Live /\ \A u \in Threads : Writing(u)' <=> Writing(u)
  BY <1>1, <1>2 DEF Nodes, Live
<1>4. ArraysInv'
  BY <1>1, <1>3 DEF IdsInv, ArraysInv
<1>5. CallsInv'
  <2>1. pc' \in [Threads -> {"idle", "reserved", "link", "publish"}]
    BY <1>1 DEF IdsInv, CallsInv
  <2> QED BY <1>1, <1>2, <2>1 DEF IdsInv, CallsInv
<1>6. IdsAreInverse' /\ CountersAreExact'
  <2>1. Live \subseteq linked'
    BY <1>1 DEF IdsInv, CountersAreExact
  <2> QED BY <1>1, <1>3, <2>1 DEF IdsInv, IdsAreInverse, CountersAreExact
<1>7. PendingIdsAreTheWriters' /\ PendingRows'
  BY <1>1, <1>3 DEF IdsInv, PendingIdsAreTheWriters, PendingRows
<1>8. LinkedInv'
  <2>1. iid[t] \in Nodes
    BY <1>1 DEF IdsInv, PendingIdsAreTheWriters
  <2> QED BY <1>1, <1>2, <1>3, <2>1 DEF IdsInv, LinkedInv
<1> QED BY <1>4, <1>5, <1>6, <1>7, <1>8 DEF IdsInv

(* A call that returns leaves its thread idle, and the others as they are. *)
LEMMA ReturnCalls ==
    ASSUME IdsInv, NEW t \in Threads, pc[t] # "idle", Return(t), nextExt' = nextExt,
           DOMAIN extToInt' \subseteq DOMAIN extToInt \cup {op[t].ext}
    PROVE  /\ CallsInv'
           /\ \A u \in Threads \ {t} : /\ pc'[u] = pc[u] /\ op'[u] = op[u]
                                       /\ iid'[u] = iid[u] /\ oldIid'[u] = oldIid[u]
                                       /\ pc[u] # "idle" => op[u].ext # op[t].ext
           /\ pc'[t] = "idle"
<1> USE DEF IdsInv
<1>1. /\ pc' = [pc EXCEPT ![t] = "idle"] /\ op' = [op EXCEPT ![t] = NoOp]
      /\ iid' = [iid EXCEPT ![t] = 0] /\ oldIid' = [oldIid EXCEPT ![t] = 0]
  OBVIOUS
<1>2. NoOp \in Call /\ NoOp.type = "None" /\ 0 \in 0..MaxNodes
  <2>1. MaxNodes \in Nat
    BY VDBAssumption
  <2> QED BY <2>1 DEF NoOp, NoRow, Record, Call
<1>3. /\ pc' \in [Threads -> {"idle", "reserved", "link", "publish"}] /\ op' \in [Threads -> Call]
      /\ iid' \in [Threads -> 0..MaxNodes] /\ oldIid' \in [Threads -> 0..MaxNodes]
  BY <1>1, <1>2 DEF CallsInv
<1>4. /\ pc'[t] = "idle" /\ op'[t] = NoOp
      /\ \A u \in Threads \ {t} : /\ pc'[u] = pc[u] /\ op'[u] = op[u]
                                  /\ iid'[u] = iid[u] /\ oldIid'[u] = oldIid[u]
  BY <1>1 DEF CallsInv
<1>5. \A u \in Threads \ {t} : pc[u] # "idle" => op[u].ext # op[t].ext
  BY DEF CallsInv
<1>6. \A u \in Threads :
          /\ pc'[u] = "idle" <=> op'[u].type = "None"
          /\ pc'[u] = "reserved" => op'[u].type = "Insert"
          /\ pc'[u] # "idle" => op'[u].ext < nextExt' /\ op'[u].row.vec \in Vecs
          /\ op'[u].type = "Insert" => op'[u].row.meta \in Metas /\ op'[u].ext \notin DOMAIN extToInt'
  <2> TAKE u \in Threads
  <2>1. CASE u = t
    BY <1>2, <1>4, <2>1
  <2>2. CASE u # t
    <3>1. /\ pc[u] = "idle" <=> op[u].type = "None"
          /\ pc[u] = "reserved" => op[u].type = "Insert"
          /\ pc[u] # "idle" => op[u].ext < nextExt /\ op[u].row.vec \in Vecs
          /\ op[u].type = "Insert" => op[u].row.meta \in Metas /\ op[u].ext \notin DOMAIN extToInt
      BY DEF CallsInv
    <3> QED BY <1>4, <1>5, <2>2, <3>1
  <2> QED BY <2>1, <2>2
<1>7. \A u, v \in Threads : (pc'[u] # "idle" /\ pc'[v] # "idle" /\ op'[u].ext = op'[v].ext) => u = v
  BY <1>4 DEF CallsInv
<1> QED BY <1>3, <1>4, <1>5, <1>6, <1>7 DEF CallsInv

(* What the writers that are not t hold is untouched when nodes are published or die. *)
LEMMA OthersKeepTheirs ==
    ASSUME IdsInv, NEW t \in Threads, NEW e, NEW old,
           \A u \in Threads \ {t} : /\ pc'[u] = pc[u] /\ op'[u] = op[u]
                                    /\ iid'[u] = iid[u] /\ oldIid'[u] = oldIid[u]
                                    /\ pc[u] # "idle" => op[u].ext # e,
           pc'[t] = "idle", intToExt' = intToExt, vectors' = vectors, meta'.data = meta.data, linked' = linked,
           Nodes' = Nodes, Live' \subseteq Live \cup {old},
           \A u \in Threads \ {t} : Writing(u) => iid[u] # old,
           \A x : x # e => (x \in DOMAIN extToInt' <=> x \in DOMAIN extToInt)
                           /\ (x \in DOMAIN extToInt => extToInt'[x] = extToInt[x])
    PROVE  PendingIdsAreTheWriters' /\ PendingRows' /\ LinkedInv'
<1>1. \A u \in Threads : Writing(u)' => u \in Threads \ {t} /\ Writing(u)
  OBVIOUS
<1>2. PendingIdsAreTheWriters'
  <2>1. ASSUME NEW u \in Threads, Writing(u)'
        PROVE  /\ iid'[u] \in Nodes' \ Live' /\ intToExt'[iid'[u]] = op'[u].ext
               /\ \A v \in Threads : Writing(v)' /\ iid'[v] = iid'[u] => v = u
               /\ IF op'[u].type = "Insert" THEN op'[u].ext \notin DOMAIN extToInt'
                  ELSE op'[u].ext \in DOMAIN extToInt' /\ extToInt'[op'[u].ext] = oldIid'[u]
    <3>1. /\ u \in Threads \ {t} /\ Writing(u) /\ op'[u] = op[u] /\ iid'[u] = iid[u] /\ oldIid'[u] = oldIid[u]
          /\ op[u].ext # e /\ iid[u] # old
      BY <1>1, <2>1
    <3>2. /\ iid[u] \in Nodes \ Live /\ intToExt[iid[u]] = op[u].ext
          /\ \A v \in Threads : Writing(v) /\ iid[v] = iid[u] => v = u
          /\ IF op[u].type = "Insert" THEN op[u].ext \notin DOMAIN extToInt
             ELSE op[u].ext \in DOMAIN extToInt /\ extToInt[op[u].ext] = oldIid[u]
      BY <3>1 DEF IdsInv, PendingIdsAreTheWriters
    <3>3. iid'[u] \in Nodes' \ Live' /\ intToExt'[iid'[u]] = op'[u].ext
      BY <3>1, <3>2
    <3>4. \A v \in Threads : Writing(v)' /\ iid'[v] = iid'[u] => v = u
      BY <1>1, <3>1, <3>2
    <3>5. IF op'[u].type = "Insert" THEN op'[u].ext \notin DOMAIN extToInt'
          ELSE op'[u].ext \in DOMAIN extToInt' /\ extToInt'[op'[u].ext] = oldIid'[u]
      BY <3>1, <3>2
    <3> QED BY <3>3, <3>4, <3>5
  <2> QED BY <2>1 DEF PendingIdsAreTheWriters
<1>3. PendingRows'
  <2>1. ASSUME NEW u \in Threads, Writing(u)'
        PROVE  /\ vectors'[iid'[u]] = op'[u].row.vec
               /\ meta'.data[iid'[u]] = IF op'[u].row.meta = NoMeta THEN meta'.data[oldIid'[u]] ELSE op'[u].row.meta
    <3>1. Writing(u) /\ op'[u] = op[u] /\ iid'[u] = iid[u] /\ oldIid'[u] = oldIid[u]
      BY <1>1, <2>1
    <3> QED BY <3>1 DEF IdsInv, PendingRows
  <2> QED BY <2>1 DEF PendingRows
<1>4. LinkedInv'
  <2>1. \A u \in Threads : pc'[u] = "publish" => pc[u] = "publish" /\ iid'[u] = iid[u]
    BY <1>1
  <2> QED BY <2>1 DEF IdsInv, LinkedInv
<1> QED BY <1>2, <1>3, <1>4

(* Tombstones flip inside the arrays, and nothing else about them changes. *)
LEMMA ArraysKept ==
    ASSUME ArraysInv, intToExt' = intToExt, vectors' = vectors, nextExt' = nextExt,
           deleted' \in Seq(BOOLEAN), Len(deleted') = Len(deleted),
           IsStore(meta'), meta'.data \in Seq(Metas), Len(meta'.data) = Len(meta.data),
           IsMap(extToInt'), DOMAIN extToInt' \subseteq Nat
    PROVE  ArraysInv' /\ Nodes' = Nodes
<1>1. Nodes' = Nodes
  BY DEF Nodes
<1> QED BY <1>1 DEF ArraysInv

(* An insert goes live under the id nobody else has (vdb.cpp:123-131). *)
LEMMA PublishInsertIds ==
    ASSUME IdsInv, NEW t \in Threads, PublishInsert(t)
    PROVE  IdsInv'
<1> DEFINE e == op[t].ext
           n == iid[t]
<1>1. /\ pc[t] = "publish" /\ op[t].type = "Insert" /\ deleted' = [deleted EXCEPT ![n] = FALSE]
      /\ deletedCount' = deletedCount - 1 /\ liveCount' = liveCount + 1 /\ meta' = MarkLive(meta, n)
      /\ extToInt' = [x \in DOMAIN extToInt \cup {e} |-> IF x = e THEN n ELSE extToInt[x]]
      /\ Return(t) /\ UNCHANGED <<arrays, nextExt, linked>>
  BY DEF PublishInsert
<1>2. /\ n \in Nodes \ Live /\ intToExt[n] = e /\ e \notin DOMAIN extToInt /\ n \in linked
      /\ \A u \in Threads \ {t} : Writing(u) => iid[u] # n
  BY <1>1 DEF IdsInv, PendingIdsAreTheWriters, LinkedInv
<1>3. e \in Nat
  BY DEF IdsInv, CallsInv, Call
<1>4. IsStore(meta) /\ IsStore(meta') /\ meta'.data = meta.data
  BY <1>1, MarkLiveFields DEF IdsInv, ArraysInv
<1>5. /\ DOMAIN extToInt' = DOMAIN extToInt \cup {e} /\ IsMap(extToInt') /\ extToInt'[e] = n
      /\ \A x \in DOMAIN extToInt : x # e => extToInt'[x] = extToInt[x]
  BY <1>1
<1> HIDE DEF e, n
<1>6. /\ CallsInv' /\ pc'[t] = "idle"
      /\ \A u \in Threads \ {t} : /\ pc'[u] = pc[u] /\ op'[u] = op[u]
                                  /\ iid'[u] = iid[u] /\ oldIid'[u] = oldIid[u]
                                  /\ pc[u] # "idle" => op[u].ext # e
  BY <1>1, <1>5, ReturnCalls DEF e
<1>7. /\ deleted' \in Seq(BOOLEAN) /\ Len(deleted') = Len(deleted)
      /\ \A i \in Nodes : deleted'[i] = IF i = n THEN FALSE ELSE deleted[i]
  <2>1. deleted \in Seq(BOOLEAN) /\ Nodes = 1..Len(deleted)
    BY Arrays DEF IdsInv, ArraysInv
  <2>2. deleted' = [deleted EXCEPT ![n] = FALSE]
    BY <1>1
  <2>3. /\ deleted' \in [1..Len(deleted) -> BOOLEAN]
        /\ \A i \in 1..Len(deleted) : deleted'[i] = IF i = n THEN FALSE ELSE deleted[i]
    <3>1. deleted \in [1..Len(deleted) -> BOOLEAN]
      BY ONLY <2>1
    <3>2. deleted' \in [1..Len(deleted) -> BOOLEAN]
      BY ONLY <2>2, <3>1
    <3>3. \A i \in 1..Len(deleted) : deleted'[i] = IF i = n THEN FALSE ELSE deleted[i]
      BY ONLY <2>2, <3>1
    <3> QED BY ONLY <3>2, <3>3
  <2>4. deleted' \in Seq(BOOLEAN) /\ Len(deleted') = Len(deleted)
    BY ONLY <2>1, <2>3, SameShape
  <2> QED BY <2>1, <2>3, <2>4
<1>8. ArraysInv' /\ Nodes' = Nodes
  <2>1. /\ ArraysInv /\ meta.data \in Seq(Metas) /\ DOMAIN extToInt \subseteq Nat
    BY DEF IdsInv, ArraysInv
  <2>2. intToExt' = intToExt /\ vectors' = vectors /\ nextExt' = nextExt
    BY <1>1
  <2>3. DOMAIN extToInt' \subseteq Nat
    BY <1>3, <1>5, <2>1
  <2> QED BY ONLY <1>4, <1>5, <1>7, <2>1, <2>2, <2>3, ArraysKept
<1>9. Live' = Live \cup {n} /\ Live \subseteq Nodes /\ n \notin Live
  <2>1. Live' = {i \in Nodes : ~deleted'[i]} /\ Live = {i \in Nodes : ~deleted[i]}
    BY <1>8 DEF Live
  <2> QED BY <1>2, <1>7, <2>1
<1>10. PendingIdsAreTheWriters' /\ PendingRows' /\ LinkedInv'
  <2>1. \A x : x # e => (x \in DOMAIN extToInt' <=> x \in DOMAIN extToInt)
                           /\ (x \in DOMAIN extToInt => extToInt'[x] = extToInt[x])
    BY <1>5
  <2>2. intToExt' = intToExt /\ vectors' = vectors /\ linked' = linked /\ Live' \subseteq Live \cup {n}
    BY <1>1, <1>9
  <2> QED BY ONLY IdsInv, t \in Threads, <1>2, <1>4, <1>6, <1>8, <2>1, <2>2, OthersKeepTheirs
<1>11. IdsAreInverse'
  <2>1. intToExt' = intToExt
    BY <1>1
  <2>2. /\ \A x \in DOMAIN extToInt : extToInt[x] \in Live /\ intToExt[extToInt[x]] = x
        /\ \A i \in Live : intToExt[i] \in DOMAIN extToInt /\ extToInt[intToExt[i]] = i
    BY DEF IdsInv, IdsAreInverse
  <2> QED BY ONLY <1>2, <1>5, <1>9, <2>1, <2>2 DEF IdsAreInverse
<1>12. CountersAreExact'
  <2>1. /\ IsFiniteSet(DOMAIN extToInt) /\ IsFiniteSet(Nodes \ Live)
        /\ liveCount = Cardinality(DOMAIN extToInt) /\ deletedCount = Cardinality(Nodes \ Live) /\ Live \subseteq linked
    BY IdsFinite, Arrays DEF IdsInv, CountersAreExact
  <2>2. Cardinality(DOMAIN extToInt') = Cardinality(DOMAIN extToInt) + 1
    <3>1. DOMAIN extToInt' = DOMAIN extToInt \cup {e}
      BY <1>5
    <3> QED BY ONLY <1>2, <2>1, <3>1, FS_AddElement
  <2>3. Nodes' \ Live' = (Nodes \ Live) \ {n}
    BY <1>8, <1>9
  <2>4. Cardinality(Nodes' \ Live') = Cardinality(Nodes \ Live) - 1
    BY ONLY <1>2, <2>1, <2>3, FS_RemoveElement
  <2> QED BY <1>1, <1>2, <1>9, <2>1, <2>2, <2>4 DEF CountersAreExact
<1> QED BY <1>6, <1>8, <1>10, <1>11, <1>12 DEF IdsInv

(* An update goes live in the place of the node it replaces (vdb.cpp:164-175). *)
LEMMA PublishUpdateIds ==
    ASSUME IdsInv, NEW t \in Threads, PublishUpdate(t)
    PROVE  IdsInv'
<1> DEFINE e == op[t].ext
           n == iid[t]
           old == oldIid[t]
<1>1. /\ pc[t] = "publish" /\ op[t].type = "Update"
      /\ deleted' = [deleted EXCEPT ![n] = FALSE, ![old] = TRUE]
      /\ meta' = MarkDead(MarkLive(meta, n), old)
      /\ extToInt' = [extToInt EXCEPT ![e] = n]
      /\ Return(t) /\ UNCHANGED <<arrays, nextExt, counts, linked>>
  BY DEF PublishUpdate
<1>2. /\ n \in Nodes \ Live /\ intToExt[n] = e /\ e \in DOMAIN extToInt /\ extToInt[e] = old /\ n \in linked
      /\ \A u \in Threads \ {t} : Writing(u) => iid[u] # n
  BY <1>1 DEF IdsInv, PendingIdsAreTheWriters, LinkedInv
<1>3. /\ \A x \in DOMAIN extToInt : extToInt[x] \in Live /\ intToExt[extToInt[x]] = x
      /\ \A i \in Live : intToExt[i] \in DOMAIN extToInt /\ extToInt[intToExt[i]] = i
  BY DEF IdsInv, IdsAreInverse
<1>4. IsStore(meta) /\ IsStore(meta') /\ meta'.data = meta.data
  <2>1. IsStore(meta)
    BY DEF IdsInv, ArraysInv
  <2>2. IsStore(MarkLive(meta, n)) /\ MarkLive(meta, n).data = meta.data
    BY <2>1, MarkLiveFields
  <2> QED BY <1>1, <2>1, <2>2, MarkDeadFields
<1>5. /\ DOMAIN extToInt' = DOMAIN extToInt /\ IsMap(extToInt') /\ extToInt'[e] = n
      /\ \A x \in DOMAIN extToInt : x # e => extToInt'[x] = extToInt[x]
  <2>1. IsMap(extToInt)
    BY DEF IdsInv, ArraysInv
  <2> QED BY <1>1, <1>2, <2>1
<1> HIDE DEF e, n, old
<1>6. /\ CallsInv' /\ pc'[t] = "idle"
      /\ \A u \in Threads \ {t} : /\ pc'[u] = pc[u] /\ op'[u] = op[u]
                                  /\ iid'[u] = iid[u] /\ oldIid'[u] = oldIid[u]
                                  /\ pc[u] # "idle" => op[u].ext # e
  BY <1>1, <1>5, ReturnCalls DEF e
<1>7. /\ deleted' \in Seq(BOOLEAN) /\ Len(deleted') = Len(deleted)
      /\ \A i \in Nodes : deleted'[i] = IF i = old THEN TRUE ELSE IF i = n THEN FALSE ELSE deleted[i]
  <2>1. deleted \in Seq(BOOLEAN) /\ Nodes = 1..Len(deleted)
    BY Arrays DEF IdsInv, ArraysInv
  <2>2. deleted' = [deleted EXCEPT ![n] = FALSE, ![old] = TRUE]
    BY <1>1
  <2>3. /\ deleted' \in [1..Len(deleted) -> BOOLEAN]
        /\ \A i \in 1..Len(deleted) : deleted'[i] = IF i = old THEN TRUE ELSE IF i = n THEN FALSE ELSE deleted[i]
    <3>1. deleted \in [1..Len(deleted) -> BOOLEAN]
      BY ONLY <2>1
    <3>2. deleted' \in [1..Len(deleted) -> BOOLEAN]
      BY ONLY <2>2, <3>1
    <3>3. \A i \in 1..Len(deleted) : deleted'[i] = IF i = old THEN TRUE ELSE IF i = n THEN FALSE ELSE deleted[i]
      BY ONLY <2>2, <3>1
    <3> QED BY ONLY <3>2, <3>3
  <2>4. deleted' \in Seq(BOOLEAN) /\ Len(deleted') = Len(deleted)
    BY ONLY <2>1, <2>3, SameShape
  <2> QED BY <2>1, <2>3, <2>4
<1>8. ArraysInv' /\ Nodes' = Nodes
  <2>1. /\ ArraysInv /\ meta.data \in Seq(Metas) /\ DOMAIN extToInt \subseteq Nat
    BY DEF IdsInv, ArraysInv
  <2>2. intToExt' = intToExt /\ vectors' = vectors /\ nextExt' = nextExt
    BY <1>1
  <2> QED BY ONLY <1>4, <1>5, <1>7, <2>1, <2>2, ArraysKept
<1>9. Live' = (Live \cup {n}) \ {old} /\ Live \subseteq Nodes /\ n \notin Live /\ old \in Live
  <2>1. Live' = {i \in Nodes : ~deleted'[i]} /\ Live = {i \in Nodes : ~deleted[i]}
    BY <1>8 DEF Live
  <2> QED BY <1>2, <1>3, <1>7, <2>1
<1>10. PendingIdsAreTheWriters' /\ PendingRows' /\ LinkedInv'
  <2>1. \A x : x # e => (x \in DOMAIN extToInt' <=> x \in DOMAIN extToInt)
                           /\ (x \in DOMAIN extToInt => extToInt'[x] = extToInt[x])
    BY <1>5
  <2>2. intToExt' = intToExt /\ vectors' = vectors /\ linked' = linked /\ Live' \subseteq Live \cup {n}
    BY <1>1, <1>9
  <2> QED BY ONLY IdsInv, t \in Threads, <1>2, <1>4, <1>6, <1>8, <2>1, <2>2, OthersKeepTheirs
<1>11. IdsAreInverse'
  <2>1. intToExt' = intToExt
    BY <1>1
  <2> QED BY ONLY <1>2, <1>3, <1>5, <1>9, <2>1 DEF IdsAreInverse
<1>12. CountersAreExact'
  <2>1. /\ IsFiniteSet(Nodes \ Live)
        /\ liveCount = Cardinality(DOMAIN extToInt) /\ deletedCount = Cardinality(Nodes \ Live) /\ Live \subseteq linked
    BY Arrays DEF IdsInv, CountersAreExact
  <2> DEFINE rest == (Nodes \ Live) \ {n}
  <2>2. IsFiniteSet(rest) /\ Cardinality(rest) = Cardinality(Nodes \ Live) - 1
    BY ONLY <1>2, <2>1, FS_RemoveElement
  <2>3. Nodes' \ Live' = rest \cup {old} /\ old \notin rest
    BY <1>8, <1>9, <1>2
  <2> HIDE DEF rest
  <2>4. Cardinality(Nodes' \ Live') = Cardinality(rest) + 1
    BY ONLY <2>2, <2>3, FS_AddElement
  <2>5. Cardinality(Nodes \ Live) \in Nat
    BY ONLY <2>1, FS_CardinalityType
  <2> QED BY <1>1, <1>2, <1>5, <1>9, <2>1, <2>2, <2>4, <2>5 DEF CountersAreExact
<1> QED BY <1>6, <1>8, <1>10, <1>11, <1>12 DEF IdsInv

(* A removal: the row of e becomes a tombstone, and nobody is writing e (vdb.cpp:183-198). *)
LEMMA RemoveIds ==
    ASSUME IdsInv, NEW e \in DOMAIN extToInt, Remove(e)
    PROVE  IdsInv'
<1> DEFINE old == extToInt[e]
<1>1. /\ ~Busy(e) /\ deleted' = [deleted EXCEPT ![old] = TRUE] /\ meta' = MarkDead(meta, old)
      /\ extToInt' = Restrict(extToInt, DOMAIN extToInt \ {e})
      /\ liveCount' = liveCount - 1 /\ deletedCount' = deletedCount + 1
      /\ UNCHANGED <<arrays, nextExt, linked, thread>>
  BY DEF Remove
<1>2. /\ \A x \in DOMAIN extToInt : extToInt[x] \in Live /\ intToExt[extToInt[x]] = x
      /\ \A i \in Live : intToExt[i] \in DOMAIN extToInt /\ extToInt[intToExt[i]] = i
  BY DEF IdsInv, IdsAreInverse
<1>3. old \in Live /\ intToExt[old] = e
  BY <1>2
<1>4. IsStore(meta) /\ IsStore(meta') /\ meta'.data = meta.data
  BY <1>1, MarkDeadFields DEF IdsInv, ArraysInv
<1>5. /\ DOMAIN extToInt' = DOMAIN extToInt \ {e} /\ IsMap(extToInt')
      /\ \A x \in DOMAIN extToInt : x # e => extToInt'[x] = extToInt[x]
  BY <1>1 DEF Restrict
<1>6. \A u \in Threads : pc[u] # "idle" => op[u].ext # e
  BY <1>1 DEF Busy
<1> HIDE DEF old
<1>7. /\ deleted' \in Seq(BOOLEAN) /\ Len(deleted') = Len(deleted)
      /\ \A i \in Nodes : deleted'[i] = IF i = old THEN TRUE ELSE deleted[i]
  <2>1. deleted \in Seq(BOOLEAN) /\ Nodes = 1..Len(deleted)
    BY Arrays DEF IdsInv, ArraysInv
  <2>2. deleted' = [deleted EXCEPT ![old] = TRUE]
    BY <1>1
  <2>3. /\ deleted' \in [1..Len(deleted) -> BOOLEAN]
        /\ \A i \in 1..Len(deleted) : deleted'[i] = IF i = old THEN TRUE ELSE deleted[i]
    <3>1. deleted \in [1..Len(deleted) -> BOOLEAN]
      BY ONLY <2>1
    <3>2. deleted' \in [1..Len(deleted) -> BOOLEAN]
      BY ONLY <2>2, <3>1
    <3>3. \A i \in 1..Len(deleted) : deleted'[i] = IF i = old THEN TRUE ELSE deleted[i]
      BY ONLY <2>2, <3>1
    <3> QED BY ONLY <3>2, <3>3
  <2>4. deleted' \in Seq(BOOLEAN) /\ Len(deleted') = Len(deleted)
    BY ONLY <2>1, <2>3, SameShape
  <2> QED BY <2>1, <2>3, <2>4
<1>8. ArraysInv' /\ Nodes' = Nodes
  <2>1. /\ ArraysInv /\ meta.data \in Seq(Metas) /\ DOMAIN extToInt \subseteq Nat
    BY DEF IdsInv, ArraysInv
  <2>2. intToExt' = intToExt /\ vectors' = vectors /\ nextExt' = nextExt
    BY <1>1
  <2>3. DOMAIN extToInt' \subseteq Nat
    BY <1>5, <2>1
  <2> QED BY ONLY <1>4, <1>5, <1>7, <2>1, <2>2, <2>3, ArraysKept
<1>9. Live' = Live \ {old} /\ Live \subseteq Nodes
  <2>1. Live' = {i \in Nodes : ~deleted'[i]} /\ Live = {i \in Nodes : ~deleted[i]}
    BY <1>8 DEF Live
  <2> QED BY <1>3, <1>7, <2>1
<1>10. CallsInv'
  <2>1. UNCHANGED <<pc, op, iid, oldIid, nextExt>>
    BY <1>1
  <2>2. DOMAIN extToInt' \subseteq DOMAIN extToInt
    BY <1>5
  <2> QED BY ONLY IdsInv, <2>1, <2>2 DEF IdsInv, CallsInv
<1>11. PendingIdsAreTheWriters' /\ PendingRows' /\ LinkedInv'
  <2>1. UNCHANGED <<pc, op, iid, oldIid, intToExt, vectors, linked>> /\ Nodes' = Nodes /\ meta'.data = meta.data
    BY <1>1, <1>4, <1>8
  <2>2. PendingIdsAreTheWriters'
    <3>1. PendingIdsAreTheWriters
      BY DEF IdsInv
    <3>2. Nodes \ Live \subseteq Nodes' \ Live'
      BY <1>8, <1>9
    <3> QED BY ONLY <1>5, <1>6, <2>1, <3>1, <3>2 DEF PendingIdsAreTheWriters
  <2> QED BY <2>1, <2>2 DEF IdsInv, PendingRows, LinkedInv
<1>12. IdsAreInverse'
  <2>1. intToExt' = intToExt
    BY <1>1
  <2> QED BY ONLY <1>2, <1>3, <1>5, <1>9, <2>1 DEF IdsAreInverse
<1>13. CountersAreExact'
  <2>1. /\ IsFiniteSet(DOMAIN extToInt) /\ IsFiniteSet(Nodes \ Live)
        /\ liveCount = Cardinality(DOMAIN extToInt) /\ deletedCount = Cardinality(Nodes \ Live) /\ Live \subseteq linked
    BY IdsFinite, Arrays DEF IdsInv, CountersAreExact
  <2>2. Cardinality(DOMAIN extToInt') = Cardinality(DOMAIN extToInt) - 1
    <3>1. DOMAIN extToInt' = DOMAIN extToInt \ {e} /\ e \in DOMAIN extToInt
      BY <1>5
    <3> QED BY ONLY <2>1, <3>1, FS_RemoveElement
  <2>3. Nodes' \ Live' = (Nodes \ Live) \cup {old} /\ old \notin Nodes \ Live
    BY <1>3, <1>8, <1>9
  <2>4. Cardinality(Nodes' \ Live') = Cardinality(Nodes \ Live) + 1
    BY ONLY <2>1, <2>3, FS_AddElement
  <2> QED BY <1>1, <1>9, <2>1, <2>2, <2>4 DEF CountersAreExact
<1> QED BY <1>8, <1>10, <1>11, <1>12, <1>13 DEF IdsInv

(* A rewrite of the metadata of e: no pending node is that of e, nor a copy of its row
   (vdb.cpp:206-214).                                                                  *)
LEMMA SetMetadataIds ==
    ASSUME IdsInv, NEW e \in DOMAIN extToInt, SetMetadata(e)
    PROVE  IdsInv'
<1> DEFINE i == extToInt[e]
<1>1. PICK rec \in Metas : meta' = SetRow(meta, i, rec)
  BY DEF SetMetadata
<1>2. ~Busy(e) /\ UNCHANGED <<extToInt, intToExt, vectors, deleted, nextExt, counts, linked, pc, op, iid, oldIid>>
  BY DEF SetMetadata
<1>3. \A u \in Threads : pc[u] # "idle" => op[u].ext # e
  BY <1>2 DEF Busy
<1>4. i \in Live /\ intToExt[i] = e
  BY DEF IdsInv, IdsAreInverse
<1> HIDE DEF i
<1>5. IsStore(meta') /\ meta'.data = [meta.data EXCEPT ![i] = rec]
  <2>1. IsStore(meta)
    BY DEF IdsInv, ArraysInv
  <2>2. IsStore(SetRow(meta, i, rec)) /\ SetRow(meta, i, rec).data = [meta.data EXCEPT ![i] = rec]
    BY ONLY <2>1, SetRowData
  <2> QED BY <1>1, <2>2
<1>6. Nodes' = Nodes /\ Live' = Live /\ Nodes = 1..Len(meta.data) /\ Live \subseteq Nodes
  BY <1>2, Arrays DEF Nodes, Live, IdsInv
<1>7. /\ meta'.data \in Seq(Metas) /\ Len(meta'.data) = Len(meta.data)
      /\ \A j \in Nodes : meta'.data[j] = IF j = i THEN rec ELSE meta.data[j]
  <2>1. meta.data \in Seq(Metas)
    BY DEF IdsInv, ArraysInv
  <2>2. meta'.data = [meta.data EXCEPT ![i] = rec]
    BY <1>5
  <2>3. /\ meta'.data \in [1..Len(meta.data) -> Metas]
        /\ \A j \in 1..Len(meta.data) : meta'.data[j] = IF j = i THEN rec ELSE meta.data[j]
    <3>1. meta.data \in [1..Len(meta.data) -> Metas]
      BY ONLY <2>1
    <3> QED BY ONLY <2>2, <3>1, rec \in Metas
  <2>4. meta'.data \in Seq(Metas) /\ Len(meta'.data) = Len(meta.data)
    BY ONLY <2>1, <2>3, SameShape
  <2> QED BY <1>6, <2>3, <2>4
<1>8. ArraysInv'
  BY <1>2, <1>5, <1>6, <1>7 DEF IdsInv, ArraysInv
<1>9. CallsInv' /\ IdsAreInverse' /\ LinkedInv'
  BY <1>2, <1>6 DEF IdsInv, CallsInv, IdsAreInverse, LinkedInv
<1>10. PendingIdsAreTheWriters' /\ CountersAreExact'
  BY <1>2, <1>6 DEF IdsInv, PendingIdsAreTheWriters, CountersAreExact
<1>11. PendingRows'
  <2>1. ASSUME NEW u \in Threads, Writing(u)
        PROVE  /\ vectors[iid[u]] = op[u].row.vec
               /\ meta'.data[iid[u]] = IF op[u].row.meta = NoMeta THEN meta'.data[oldIid[u]] ELSE op[u].row.meta
    <3>1. iid[u] \in Nodes /\ iid[u] # i
      BY <1>4, <2>1 DEF IdsInv, PendingIdsAreTheWriters
    <3>2. op[u].row.meta = NoMeta => oldIid[u] \in Nodes /\ oldIid[u] # i
      <4>1. op[u].row.meta = NoMeta => op[u].type # "Insert"
        BY RecordsAssumption DEF IdsInv, CallsInv
      <4>2. op[u].type # "Insert" => op[u].ext \in DOMAIN extToInt /\ extToInt[op[u].ext] = oldIid[u]
        BY <2>1 DEF IdsInv, PendingIdsAreTheWriters
      <4>3. op[u].ext # e
        BY <1>3, <2>1
      <4>4. \A x \in DOMAIN extToInt : extToInt[x] \in Live /\ intToExt[extToInt[x]] = x
        BY DEF IdsInv, IdsAreInverse
      <4> QED BY <1>4, <1>6, <4>1, <4>2, <4>3, <4>4
    <3>3. /\ vectors[iid[u]] = op[u].row.vec
          /\ meta.data[iid[u]] = IF op[u].row.meta = NoMeta THEN meta.data[oldIid[u]] ELSE op[u].row.meta
      BY <2>1 DEF IdsInv, PendingRows
    <3> QED BY <1>7, <3>1, <3>2, <3>3
  <2> QED BY <1>2, <2>1 DEF PendingRows
<1> QED BY <1>8, <1>9, <1>10, <1>11 DEF IdsInv

(* The order in which a compaction takes the live nodes names each of them once. *)
LEMMA InOrder ==
    ASSUME ArraysInv, NEW live \in LiveInOrder
    PROVE  /\ Cardinality(Live) \in Nat /\ Cardinality(Live) <= Len(intToExt)
           /\ live \in Seq(Live) /\ Len(live) = Cardinality(Live)
           /\ DOMAIN live = 1..Len(live) /\ live \in [1..Len(live) -> Live]
           /\ \A i, j \in 1..Len(live) : live[i] = live[j] => i = j
           /\ \A x \in Live : \E i \in 1..Len(live) : live[i] = x
<1> DEFINE N == Cardinality(Live)
<1>1. live \in Bijection(1..N, Live)
  BY DEF LiveInOrder
<1>2. N \in Nat /\ N <= Len(intToExt)
  <2>1. /\ IsFiniteSet(Live) /\ IsFiniteSet(Nodes) /\ Live \in SUBSET Nodes
        /\ Nodes = 1..Len(intToExt) /\ Len(intToExt) \in Nat
    BY Arrays
  <2>2. N \in Nat /\ N <= Cardinality(Nodes)
    BY ONLY <2>1, FS_Subset, FS_CardinalityType
  <2>3. 1 \in Int /\ Len(intToExt) \in Int
    BY <2>1
  <2>4. Cardinality(1..Len(intToExt)) = IF 1 > Len(intToExt) THEN 0 ELSE Len(intToExt) - 1 + 1
    BY ONLY <2>3, FS_Interval
  <2> QED BY <2>1, <2>2, <2>4
<1> HIDE DEF N
<1>3. /\ live \in [1..N -> Live] /\ (\A a, b \in 1..N : live[a] = live[b] => a = b)
      /\ \A x \in Live : \E i \in 1..N : live[i] = x
  BY ONLY <1>1 DEF Bijection, Injection, Surjection, IsInjective
<1>4. live \in Seq(Live) /\ DOMAIN live = 1..N
  BY <1>2, <1>3
<1>5. Len(live) = N
  BY <1>2, <1>4
<1> QED BY <1>2, <1>3, <1>4, <1>5 DEF N

(* Compaction: every external id means the node its row has moved to (vdb.cpp:480-513). *)
LEMMA CompactIds ==
    ASSUME IdsInv, Compact
    PROVE  IdsInv'
<1> USE DEF IdsInv
<1>1. PICK live \in LiveInOrder : Renumber(live) /\ extToInt' = IdsOf(live)
  BY DEF Compact
<1>2. \A t \in Threads : ~Writing(t)
  BY DEF Compact, Quiet
<1> DEFINE N == Len(live)
<1>3. /\ N \in Nat /\ N <= Len(intToExt) /\ live \in [1..N -> Live] /\ DOMAIN live = 1..N
      /\ \A i, j \in 1..N : live[i] = live[j] => i = j
      /\ \A x \in Live : \E i \in 1..N : live[i] = x
  BY InOrder
<1>4. /\ meta' = Permute(meta, live) /\ intToExt' = [i \in 1..N |-> intToExt[live[i]]]
      /\ vectors' = [i \in 1..N |-> vectors[live[i]]] /\ deleted' = [i \in 1..N |-> FALSE]
      /\ linked' = 1..N /\ deletedCount' = 0
      /\ UNCHANGED <<nextExt, liveCount, pc, op, iid, oldIid>>
  BY <1>1, <1>3 DEF Renumber
<1>5. IsStore(meta') /\ meta'.data = [i \in 1..N |-> meta.data[live[i]]]
  <2>1. IsStore(meta)
    BY DEF ArraysInv
  <2>2. IsStore(Permute(meta, live)) /\ Permute(meta, live).data = [i \in 1..Len(live) |-> meta.data[live[i]]]
    BY ONLY <2>1, PermuteData
  <2> QED BY <1>4, <2>2
<1> HIDE DEF N
<1>6. /\ Live \subseteq Nodes
      /\ \A i \in Nodes : intToExt[i] \in Nat /\ intToExt[i] < nextExt /\ vectors[i] \in Vecs /\ meta.data[i] \in Metas
  BY Arrays DEF ArraysInv
<1>7. \A i \in 1..N : live[i] \in Live /\ live[i] \in Nodes
  BY <1>3, <1>6
<1>8. /\ intToExt' \in [1..N -> Nat] /\ vectors' \in [1..N -> Vecs] /\ meta'.data \in [1..N -> Metas]
      /\ \A i \in 1..N : intToExt'[i] = intToExt[live[i]] /\ intToExt'[i] < nextExt
  BY <1>4, <1>5, <1>6, <1>7
<1>9. /\ intToExt' \in Seq(Nat) /\ Len(intToExt') = N /\ vectors' \in Seq(Vecs) /\ Len(vectors') = N
      /\ meta'.data \in Seq(Metas) /\ Len(meta'.data) = N
  BY ONLY <1>3, <1>8, SeqOf
<1>10. deleted' \in Seq(BOOLEAN) /\ Len(deleted') = N /\ \A i \in 1..N : deleted'[i] = FALSE
  <2>1. deleted' \in [1..N -> BOOLEAN] /\ \A i \in 1..N : deleted'[i] = FALSE
    BY <1>4
  <2> QED BY ONLY <1>3, <2>1, SeqOf
<1>11. Nodes' = 1..N /\ Live' = 1..N
  BY <1>9, <1>10 DEF Nodes, Live
<1>12. /\ \A x \in DOMAIN extToInt : extToInt[x] \in Live /\ intToExt[extToInt[x]] = x
       /\ \A i \in Live : intToExt[i] \in DOMAIN extToInt /\ extToInt[intToExt[i]] = i
  BY DEF IdsAreInverse
<1>13. /\ extToInt' = [e \in {intToExt[i] : i \in Live} |-> CHOOSE i \in 1..N : intToExt[live[i]] = e]
       /\ {intToExt[i] : i \in Live} = DOMAIN extToInt
  <2>1. {intToExt[i] : i \in Live} = DOMAIN extToInt
    BY ONLY <1>12
  <2>2. extToInt' = IdsOf(live) /\ DOMAIN live = 1..N
    BY <1>1, <1>3
  <2> QED BY ONLY <2>1, <2>2 DEF IdsOf
<1>14. DOMAIN extToInt' = DOMAIN extToInt /\ IsMap(extToInt')
  BY <1>13
<1>15. \A x \in DOMAIN extToInt : extToInt'[x] \in 1..N /\ live[extToInt'[x]] = extToInt[x]
  <2> TAKE x \in DOMAIN extToInt
  <2>1. \E i \in 1..N : intToExt[live[i]] = x
    BY <1>3, <1>12
  <2>2. extToInt'[x] = CHOOSE i \in 1..N : intToExt[live[i]] = x
    BY <1>13
  <2>3. extToInt'[x] \in 1..N /\ intToExt[live[extToInt'[x]]] = x
    BY <2>1, <2>2
  <2> QED BY <1>7, <1>12, <2>3
<1>16. ArraysInv'
  <2>1. Len(intToExt') <= MaxNodes
    <3>1. MaxNodes \in Nat /\ Len(intToExt) \in Nat /\ Len(intToExt) <= MaxNodes
      BY VDBAssumption DEF ArraysInv
    <3> QED BY <1>3, <1>9, <3>1
  <2>2. nextExt' \in Nat /\ DOMAIN extToInt' \subseteq Nat
    BY <1>4, <1>14 DEF ArraysInv
  <2> QED BY <1>4, <1>5, <1>8, <1>9, <1>10, <1>11, <1>14, <2>1, <2>2 DEF ArraysInv
<1>17. CallsInv'
  BY <1>4, <1>14 DEF CallsInv
<1>18. IdsAreInverse'
  <2>1. \A x \in DOMAIN extToInt' : extToInt'[x] \in Live' /\ intToExt'[extToInt'[x]] = x
    BY <1>8, <1>11, <1>12, <1>14, <1>15
  <2>2. \A i \in Live' : intToExt'[i] \in DOMAIN extToInt' /\ extToInt'[intToExt'[i]] = i
    <3> TAKE i \in Live'
    <3>1. i \in 1..N /\ live[i] \in Live /\ intToExt'[i] = intToExt[live[i]]
      BY <1>7, <1>8, <1>11
    <3>2. intToExt'[i] \in DOMAIN extToInt /\ extToInt[intToExt'[i]] = live[i]
      BY <1>12, <3>1
    <3> QED BY <1>3, <1>14, <1>15, <3>1, <3>2
  <2> QED BY ONLY <2>1, <2>2 DEF IdsAreInverse
<1>19. PendingIdsAreTheWriters' /\ PendingRows'
  BY <1>2, <1>4 DEF PendingIdsAreTheWriters, PendingRows
<1>20. LinkedInv'
  BY <1>2, <1>4, <1>11 DEF LinkedInv
<1>21. CountersAreExact'
  <2>1. Nodes' \ Live' = {} /\ Live' \subseteq linked'
    BY <1>4, <1>11
  <2>2. Cardinality(Nodes' \ Live') = 0
    BY ONLY <2>1, FS_EmptySet
  <2> QED BY <1>4, <1>14, <2>1, <2>2 DEF CountersAreExact
<1> QED BY <1>16, <1>17, <1>18, <1>19, <1>20, <1>21

(* A restart finds the ids as they were: the map is rebuilt from int_to_ext_ and the tombstones
   (vdb.cpp:636-669).                                                                           *)
LEMMA ReloadIds ==
    ASSUME IdsInv, Reload
    PROVE  IdsInv' /\ extToInt' = extToInt
<1> USE DEF IdsInv
<1>1. /\ \A t \in Threads : ~Writing(t)
      /\ UNCHANGED <<intToExt, vectors, deleted, nextExt, counts, linked, pc, op, iid, oldIid>>
  BY DEF Reload
<1>2. IsStore(meta') /\ meta'.data = meta.data
  <2>1. IsStore(meta)
    BY DEF ArraysInv
  <2>2. meta' = Rebuild(Deserialized(Serialized(meta)), deleted)
    BY DEF Reload
  <2> QED BY ONLY <2>1, <2>2, ReloadFields
<1>3. /\ \A x \in DOMAIN extToInt : extToInt[x] \in Live /\ intToExt[extToInt[x]] = x
      /\ \A i \in Live : intToExt[i] \in DOMAIN extToInt /\ extToInt[intToExt[i]] = i
      /\ IsMap(extToInt) /\ Live \subseteq Nodes /\ Nodes \subseteq Nat
  BY Arrays DEF IdsAreInverse, ArraysInv
<1>4. extToInt' = extToInt
  <2>1. {intToExt[i] : i \in Live} = DOMAIN extToInt
    BY <1>3
  <2>2. extToInt' = [e \in DOMAIN extToInt |->
                       CHOOSE i \in Live : intToExt[i] = e /\ \A j \in Live : intToExt[j] = e => j <= i]
    BY <2>1 DEF Reload
  <2>3. ASSUME NEW e \in DOMAIN extToInt
        PROVE  (CHOOSE i \in Live : intToExt[i] = e /\ \A j \in Live : intToExt[j] = e => j <= i) = extToInt[e]
    <3>1. extToInt[e] \in Live /\ intToExt[extToInt[e]] = e /\ extToInt[e] \in Nat
      BY <1>3
    <3>2. \A j \in Live : intToExt[j] = e => j = extToInt[e]
      BY <1>3
    <3> QED BY <3>1, <3>2
  <2> QED BY <1>3, <2>2, <2>3
<1>5. Nodes' = Nodes /\ Live' = Live
  BY <1>1 DEF Nodes, Live
<1>6. ArraysInv' /\ CallsInv' /\ IdsAreInverse' /\ LinkedInv'
  BY <1>1, <1>2, <1>4, <1>5 DEF ArraysInv, CallsInv, IdsAreInverse, LinkedInv
<1>7. PendingIdsAreTheWriters' /\ PendingRows' /\ CountersAreExact'
  BY <1>1, <1>4, <1>5 DEF PendingIdsAreTheWriters, PendingRows, CountersAreExact
<1> QED BY <1>4, <1>6, <1>7

(* The identity maps hold together from the first state on, whatever the threads do. *)
LEMMA IdsInvAlways ==
    Spec => []IdsInv
<1>1. Init => IdsInv
  <2> SUFFICES ASSUME Init PROVE IdsInv
    OBVIOUS
  <2>1. Nodes = {} /\ Live = {}
    BY DEF Init, Nodes, Live
  <2>2. ArraysInv
    BY <2>1, VDBAssumption DEF Init, ArraysInv, IsStore, NoRows
  <2>3. NoOp \in Call /\ NoOp.type = "None" /\ 0 \in 0..MaxNodes
    BY VDBAssumption DEF NoOp, NoRow, Record, Call
  <2>4. CallsInv /\ PendingIdsAreTheWriters /\ PendingRows /\ LinkedInv
    BY <2>1, <2>3 DEF Init, CallsInv, PendingIdsAreTheWriters, PendingRows, LinkedInv
  <2>5. IdsAreInverse
    BY <2>1 DEF Init, IdsAreInverse
  <2>6. CountersAreExact
    BY <2>1, FS_EmptySet DEF Init, CountersAreExact
  <2> QED BY <2>2, <2>4, <2>5, <2>6 DEF IdsInv
<1>2. ASSUME IdsInv, [Next]_vars
      PROVE  IdsInv'
  <2>1. ASSUME NEW t \in Threads, Insert(t)
        PROVE  IdsInv'
    BY <1>2, <2>1, ReserveIdIds, AllocateInsertIds, PublishInsertIds DEF Insert
  <2>2. ASSUME NEW t \in Threads, Update(t)
        PROVE  IdsInv'
    BY <1>2, <2>2, AllocateUpdateIds, PublishUpdateIds DEF Update
  <2>3. ASSUME NEW t \in Threads, Link(t)
        PROVE  IdsInv'
    BY <1>2, <2>3, LinkIds
  <2>4. ASSUME NEW e \in DOMAIN extToInt, Remove(e) \/ SetMetadata(e)
        PROVE  IdsInv'
    BY <1>2, <2>4, RemoveIds, SetMetadataIds
  <2>5. CASE Compact
    BY <1>2, <2>5, CompactIds
  <2>6. CASE Reload
    BY <1>2, <2>6, ReloadIds
  <2>7. CASE UNCHANGED vars
    <3>1. UNCHANGED <<extToInt, intToExt, vectors, deleted, meta, nextExt, liveCount, deletedCount, linked, pc, op, iid, oldIid>>
      BY <2>7 DEF vars
    <3>2. Nodes' = Nodes /\ Live' = Live
      BY <3>1 DEF Nodes, Live
    <3>3. ArraysInv' /\ CallsInv' /\ IdsAreInverse' /\ LinkedInv'
      BY <1>2, <3>1, <3>2 DEF IdsInv, ArraysInv, CallsInv, IdsAreInverse, LinkedInv
    <3>4. PendingIdsAreTheWriters' /\ PendingRows' /\ CountersAreExact'
      BY <1>2, <3>1, <3>2 DEF IdsInv, PendingIdsAreTheWriters, PendingRows, CountersAreExact
    <3> QED BY <3>3, <3>4 DEF IdsInv
  <2> QED BY <1>2, <2>1, <2>2, <2>3, <2>4, <2>5, <2>6, <2>7 DEF Next
<1> QED BY <1>1, <1>2, PTL DEF Spec

(* THEOREM: the maps between external and internal ids are inverse to each other over the live
   nodes, in every state of every call (vdb.h:212-216).                                        *)
THEOREM IdsHoldTogether ==
    Spec => []IdsAreInverse
  BY IdsInvAlways, PTL DEF IdsInv

(* THEOREM: what a thread carries from one hold of mu_ to the next, the internal ids of its
   pending node and of the row it replaces, is still true when it comes back (vdb.cpp:119-131). *)
THEOREM PendingIdsStayTrue ==
    Spec => []PendingIdsAreTheWriters
  BY IdsInvAlways, PTL DEF IdsInv

(* THEOREM: size() and deleted_count() are exact, with pending nodes counted as dead, and every
   live node is linked (vdb.h:180-184, 225-226).                                                         *)
THEOREM CountersStayExact ==
    Spec => []CountersAreExact
  BY IdsInvAlways, PTL DEF IdsInv

-----------------------------------------------------------------------------
(* What the callers see: each action is one operation on a map from external ids to rows. *)

(* The rows behind the ids are as they were ... *)
LEMMA SameContents ==
    ASSUME DOMAIN extToInt' = DOMAIN extToInt,
           \A e \in DOMAIN extToInt : /\ vectors'[extToInt'[e]] = vectors[extToInt[e]]
                                      /\ meta'.data[extToInt'[e]] = meta.data[extToInt[e]]
    PROVE  Contents' = Contents
  BY DEF Contents

(* ... or but for one of them. *)
LEMMA PutContents ==
    ASSUME NEW e, NEW row, DOMAIN extToInt' = DOMAIN extToInt \cup {e},
           row = [vec |-> vectors'[extToInt'[e]], meta |-> meta'.data[extToInt'[e]]],
           \A x \in DOMAIN extToInt : x # e => /\ vectors'[extToInt'[x]] = vectors[extToInt[x]]
                                               /\ meta'.data[extToInt'[x]] = meta.data[extToInt[x]]
    PROVE  Contents' = Put(Contents, e, row)
  BY DEF Contents, Put

(* The rows the store holds. *)
LEMMA RowsAre ==
    ASSUME IdsInv
    PROVE  /\ DOMAIN Contents = DOMAIN extToInt
           /\ \A e \in DOMAIN extToInt :
                 /\ extToInt[e] \in Nodes
                 /\ Contents[e] = [vec |-> vectors[extToInt[e]], meta |-> meta.data[extToInt[e]]]
                 /\ Contents[e].vec \in Vecs /\ Contents[e].meta \in Metas
<1>1. \A e \in DOMAIN extToInt : extToInt[e] \in Nodes
  BY IdsFinite DEF IdsInv
<1>2. \A i \in Nodes : vectors[i] \in Vecs /\ meta.data[i] \in Metas
  BY Arrays DEF IdsInv
<1> QED BY <1>1, <1>2 DEF Contents

(* A pending node is in nobody's contents. *)
LEMMA AllocateIsSilent ==
    ASSUME IdsInv, NEW t \in Threads, NEW e \in Nat, NEW vec \in Vecs, NEW rec \in Metas,
           Allocate(t, e, vec), meta'.data = Append(meta.data, rec)
    PROVE  Contents' = Contents
<1>1. extToInt' = extToInt /\ vectors' = Append(vectors, vec) /\ meta'.data = Append(meta.data, rec)
  BY DEF Allocate
<1>2. /\ vectors \in Seq(Vecs) /\ meta.data \in Seq(Metas)
      /\ Nodes = 1..Len(vectors) /\ Nodes = 1..Len(meta.data)
  BY Arrays DEF IdsInv, ArraysInv
<1>3. \A i \in Nodes : vectors'[i] = vectors[i]
  BY ONLY <1>1, <1>2, vec \in Vecs, OneMore
<1>4. \A i \in Nodes : meta'.data[i] = meta.data[i]
  BY ONLY <1>1, <1>2, rec \in Metas, OneMore
<1>5. \A x \in DOMAIN extToInt : extToInt[x] \in Nodes
  BY RowsAre
<1> QED BY <1>1, <1>3, <1>4, <1>5, SameContents

(* What is published is the caller's row (vdb.cpp:108-131, 140-175). *)
LEMMA PublishPuts ==
    ASSUME IdsInv, NEW t \in Threads, PublishInsert(t) \/ PublishUpdate(t)
    PROVE  /\ Contents' = Put(Contents, op[t].ext, CallersRow(t))
           /\ op[t].row.vec \in Vecs
           /\ op[t].type = "Insert" => op[t].ext \notin DOMAIN Contents /\ op[t].row.meta \in Metas
           /\ op[t].type = "Update" => op[t].ext \in DOMAIN Contents
<1> DEFINE e == op[t].ext
           n == iid[t]
<1>0. IsStore(meta)
  BY DEF IdsInv, ArraysInv
<1>1. pc[t] = "publish" /\ vectors' = vectors
  BY DEF PublishInsert, PublishUpdate
<1>2. /\ n \in Nodes \ Live /\ intToExt[n] = e /\ vectors[n] = op[t].row.vec /\ op[t].row.vec \in Vecs
      /\ meta.data[n] = IF op[t].row.meta = NoMeta THEN meta.data[oldIid[t]] ELSE op[t].row.meta
      /\ op[t].type = "Insert" => op[t].row.meta \in Metas
      /\ IF op[t].type = "Insert" THEN e \notin DOMAIN extToInt
         ELSE e \in DOMAIN extToInt /\ extToInt[e] = oldIid[t]
  BY <1>1 DEF IdsInv, PendingIdsAreTheWriters, PendingRows, CallsInv
<1>3. meta'.data = meta.data
  <2>1. IsStore(MarkLive(meta, n)) /\ MarkLive(meta, n).data = meta.data
    BY ONLY <1>0, MarkLiveFields
  <2>2. CASE PublishInsert(t)
    BY <2>1, <2>2 DEF PublishInsert
  <2>3. CASE PublishUpdate(t)
    <3>1. MarkDead(MarkLive(meta, n), oldIid[t]).data = meta.data
      BY ONLY <2>1, MarkDeadFields
    <3> QED BY <2>3, <3>1 DEF PublishUpdate
  <2> QED BY <2>2, <2>3
<1>4. /\ DOMAIN extToInt' = DOMAIN extToInt \cup {e} /\ extToInt'[e] = n
      /\ \A x \in DOMAIN extToInt : x # e => extToInt'[x] = extToInt[x]
  <2>1. CASE PublishInsert(t)
    <3>1. extToInt' = [x \in DOMAIN extToInt \cup {e} |-> IF x = e THEN n ELSE extToInt[x]]
      BY <2>1 DEF PublishInsert
    <3> QED BY ONLY <3>1
  <2>2. CASE PublishUpdate(t)
    <3>1. extToInt' = [extToInt EXCEPT ![e] = n] /\ e \in DOMAIN extToInt
      BY <1>2, <2>2 DEF PublishUpdate
    <3>2. IsMap(extToInt)
      BY DEF IdsInv, ArraysInv
    <3> QED BY ONLY <3>1, <3>2 DEF IsMap
  <2> QED BY <2>1, <2>2
<1>5. CallersRow(t) = [vec |-> vectors[n], meta |-> meta.data[n]]
  <2>1. CASE op[t].row.meta = NoMeta
    <3>1. op[t].type # "Insert"
      BY <1>2, <2>1, RecordsAssumption
    <3>2. Contents[e].meta = meta.data[oldIid[t]]
      BY <1>2, <3>1, RowsAre
    <3> QED BY <1>2, <2>1, <3>2 DEF CallersRow
  <2>2. CASE op[t].row.meta # NoMeta
    BY <1>2, <2>2 DEF CallersRow
  <2> QED BY <2>1, <2>2
<1> HIDE DEF e, n
<1>6. Contents' = Put(Contents, e, CallersRow(t))
  <2>1. CallersRow(t) = [vec |-> vectors'[extToInt'[e]], meta |-> meta'.data[extToInt'[e]]]
    BY <1>1, <1>3, <1>4, <1>5
  <2>2. \A x \in DOMAIN extToInt : x # e => /\ vectors'[extToInt'[x]] = vectors[extToInt[x]]
                                            /\ meta'.data[extToInt'[x]] = meta.data[extToInt[x]]
    BY <1>1, <1>3, <1>4
  <2>3. DOMAIN extToInt' = DOMAIN extToInt \cup {e}
    BY <1>4
  <2> HIDE DEF CallersRow
  <2> QED BY ONLY <2>1, <2>2, <2>3, PutContents
<1>7. DOMAIN Contents = DOMAIN extToInt
  BY DEF Contents
<1> QED BY <1>2, <1>6, <1>7 DEF e

(* A compaction moves the rows, and each external id to where its row went. *)
LEMMA CompactIsSilent ==
    ASSUME IdsInv, Compact
    PROVE  Contents' = Contents
<1>1. PICK live \in LiveInOrder : Renumber(live) /\ extToInt' = IdsOf(live)
  BY DEF Compact
<1>2. /\ live \in [1..Len(live) -> Live] /\ DOMAIN live = 1..Len(live)
      /\ \A x \in Live : \E i \in 1..Len(live) : live[i] = x
  BY InOrder DEF IdsInv
<1>3. vectors' = [i \in 1..Len(live) |-> vectors[live[i]]] /\ meta' = Permute(meta, live)
  BY <1>1, <1>2 DEF Renumber
<1>4. meta'.data = [i \in 1..Len(live) |-> meta.data[live[i]]]
  <2>1. IsStore(meta)
    BY DEF IdsInv, ArraysInv
  <2>2. Permute(meta, live).data = [i \in 1..Len(live) |-> meta.data[live[i]]]
    BY ONLY <2>1, PermuteData
  <2> QED BY <1>3, <2>2
<1>5. /\ \A x \in DOMAIN extToInt : extToInt[x] \in Live /\ intToExt[extToInt[x]] = x
      /\ \A i \in Live : intToExt[i] \in DOMAIN extToInt /\ extToInt[intToExt[i]] = i
  BY DEF IdsInv, IdsAreInverse
<1>6. {intToExt[i] : i \in Live} = DOMAIN extToInt
  BY ONLY <1>5
<1>7. extToInt' = [e \in DOMAIN extToInt |-> CHOOSE i \in 1..Len(live) : intToExt[live[i]] = e]
  <2>1. extToInt' = IdsOf(live) /\ DOMAIN live = 1..Len(live)
    BY <1>1, <1>2
  <2> QED BY ONLY <1>6, <2>1 DEF IdsOf
<1>8. \A x \in DOMAIN extToInt : extToInt'[x] \in 1..Len(live) /\ live[extToInt'[x]] = extToInt[x]
  <2> TAKE x \in DOMAIN extToInt
  <2>1. \E i \in 1..Len(live) : intToExt[live[i]] = x
    BY <1>2, <1>5
  <2>2. extToInt'[x] = CHOOSE i \in 1..Len(live) : intToExt[live[i]] = x
    BY <1>7
  <2>3. extToInt'[x] \in 1..Len(live) /\ intToExt[live[extToInt'[x]]] = x
    BY <2>1, <2>2
  <2>4. live[extToInt'[x]] \in Live
    BY <1>2, <2>3
  <2> QED BY <1>5, <2>3, <2>4
<1>9. DOMAIN extToInt' = DOMAIN extToInt
  BY <1>7
<1>10. \A x \in DOMAIN extToInt : /\ vectors'[extToInt'[x]] = vectors[extToInt[x]]
                                  /\ meta'.data[extToInt'[x]] = meta.data[extToInt[x]]
  BY <1>3, <1>4, <1>8
<1> QED BY <1>9, <1>10, SameContents

(* THEOREM: an insert or update makes the caller's row appear, whatever others did since it was
   allocated (vdb.h:85-88).                                                                     *)
THEOREM TheCallersRowAppears ==
    Spec => PublishesCallersRow
<1>1. ASSUME IdsInv
      PROVE  \A t \in Threads : PublishInsert(t) \/ PublishUpdate(t) =>
                Contents' = Put(Contents, op[t].ext, CallersRow(t))
  BY <1>1, PublishPuts
<1> QED BY <1>1, IdsInvAlways, PTL DEF PublishesCallersRow

-----------------------------------------------------------------------------
(* Counts and range indexes of a store. *)

(* Two stores with the same rows have the same derived state. *)
LEMMA SameRows ==
    ASSUME NEW m, NEW n, NEW L, \A i \in L : n.data[i] = m.data[i],
           n.count = m.count, n.docs = m.docs, n.tree = m.tree,
           CountsAre(m, L), TreesAre(m, L)
    PROVE  CountsAre(n, L) /\ TreesAre(n, L)
<1>1. \A a \in Attrs, c \in Codes : Having(n, L, a, c) = Having(m, L, a, c)
  BY DEF Having, Has
<1>2. \A a \in Attrs : Texts(n, L, a) = Texts(m, L, a)
  BY DEF Texts
<1>3. \A a \in Attrs : UNION {TreePairs(n, i, a) : i \in L} = UNION {TreePairs(m, i, a) : i \in L}
  BY DEF TreePairs
<1>4. CountsAre(n, L)
  BY <1>1, <1>2 DEF CountsAre
<1> QED BY <1>3, <1>4 DEF TreesAre

(* mark_live puts row x among the live ones (metadata.h:212-216). *)
LEMMA Livens ==
    ASSUME NEW m, IsStore(m), NEW L, IsFiniteSet(L), NEW x, x \notin L,
           CountTypes(m), CountsAre(m, L), TreesAre(m, L)
    PROVE  LET n == MarkLive(m, x)
           IN  CountTypes(n) /\ CountsAre(n, L \cup {x}) /\ TreesAre(n, L \cup {x})
<1> DEFINE n == MarkLive(m, x)
           M == L \cup {x}
<1>1. /\ n.data = m.data /\ n.count = WithCount(m, x, 1) /\ n.docs = WithDocs(m, x, 1)
      /\ n.tree = [a \in Attrs |-> m.tree[a] \cup TreePairs(m, x, a)]
  BY MarkLiveFields
<1> HIDE DEF n
<1>2. CountTypes(n)
  BY <1>1 DEF CountTypes, WithCount, WithDocs
<1>3. ASSUME NEW a \in Attrs, Posted(a), NEW c \in Codes
      PROVE  n.count[a][c] = Cardinality(Having(n, M, a, c))
  <2>1. IsFiniteSet(Having(m, L, a, c)) /\ x \notin Having(m, L, a, c)
    <3>1. Having(m, L, a, c) \in SUBSET L
      BY DEF Having
    <3>2. IsFiniteSet(Having(m, L, a, c))
      BY ONLY <3>1, IsFiniteSet(L), FS_Subset
    <3> QED BY <3>1, <3>2
  <2>2. m.count[a][c] = Cardinality(Having(m, L, a, c))
    BY <1>3 DEF CountsAre
  <2>3. CASE Has(m, x, a, c)
    <3>1. Having(n, M, a, c) = Having(m, L, a, c) \cup {x}
      BY <1>1, <2>3 DEF Having, Has
    <3>2. Cardinality(Having(n, M, a, c)) = Cardinality(Having(m, L, a, c)) + 1
      BY ONLY <2>1, <3>1, FS_AddElement
    <3>3. n.count[a][c] = m.count[a][c] + 1
      BY <1>1, <1>3, <2>3 DEF WithCount
    <3> QED BY <2>2, <3>2, <3>3
  <2>4. CASE ~Has(m, x, a, c)
    <3>1. Having(n, M, a, c) = Having(m, L, a, c)
      BY <1>1, <2>4 DEF Having, Has
    <3>2. n.count[a][c] = m.count[a][c]
      BY <1>1, <2>4 DEF WithCount
    <3> QED BY <2>2, <3>1, <3>2
  <2> QED BY <2>3, <2>4
<1>4. ASSUME NEW a \in Attrs, AttrType[a] = "Text"
      PROVE  n.docs[a] = Cardinality(Texts(n, M, a))
  <2>1. IsFiniteSet(Texts(m, L, a)) /\ x \notin Texts(m, L, a)
    <3>1. Texts(m, L, a) \in SUBSET L
      BY DEF Texts
    <3>2. IsFiniteSet(Texts(m, L, a))
      BY ONLY <3>1, IsFiniteSet(L), FS_Subset
    <3> QED BY <3>1, <3>2
  <2>2. m.docs[a] = Cardinality(Texts(m, L, a))
    BY <1>4 DEF CountsAre
  <2>3. CASE m.data[x][a] # NoValue
    <3>1. Texts(n, M, a) = Texts(m, L, a) \cup {x}
      BY <1>1, <2>3 DEF Texts
    <3>2. Cardinality(Texts(n, M, a)) = Cardinality(Texts(m, L, a)) + 1
      BY ONLY <2>1, <3>1, FS_AddElement
    <3>3. n.docs[a] = m.docs[a] + 1
      BY <1>1, <1>4, <2>3 DEF WithDocs
    <3> QED BY <2>2, <3>2, <3>3
  <2>4. CASE m.data[x][a] = NoValue
    <3>1. Texts(n, M, a) = Texts(m, L, a)
      BY <1>1, <2>4 DEF Texts
    <3>2. n.docs[a] = m.docs[a]
      BY <1>1, <2>4 DEF WithDocs
    <3> QED BY <2>2, <3>1, <3>2
  <2> QED BY <2>3, <2>4
<1>5. TreesAre(n, M)
  <2> SUFFICES ASSUME NEW a \in Attrs PROVE n.tree[a] = UNION {TreePairs(n, i, a) : i \in M}
    BY DEF TreesAre
  <2>1. n.tree[a] = (UNION {TreePairs(m, i, a) : i \in L}) \cup TreePairs(m, x, a)
    BY <1>1 DEF TreesAre
  <2>2. \A i : TreePairs(n, i, a) = TreePairs(m, i, a)
    BY <1>1 DEF TreePairs
  <2> QED BY ONLY <2>1, <2>2
<1>6. CountsAre(n, M)
  BY <1>3, <1>4 DEF CountsAre
<1> QED BY <1>2, <1>5, <1>6 DEF n

(* mark_dead takes row x from among the live ones. *)
LEMMA Dies ==
    ASSUME NEW m, IsStore(m), NEW L, IsFiniteSet(L), NEW x, x \in L,
           CountTypes(m), CountsAre(m, L), TreesAre(m, L)
    PROVE  LET n == MarkDead(m, x)
           IN  CountTypes(n) /\ CountsAre(n, L \ {x}) /\ TreesAre(n, L \ {x})
<1> DEFINE n == MarkDead(m, x)
           M == L \ {x}
<1>1. /\ n.data = m.data /\ n.count = WithCount(m, x, -1) /\ n.docs = WithDocs(m, x, -1)
      /\ n.tree = [a \in Attrs |-> m.tree[a] \ TreePairs(m, x, a)]
  BY MarkDeadFields
<1> HIDE DEF n
<1>2. ASSUME NEW a \in Attrs, Posted(a), NEW c \in Codes
      PROVE  /\ n.count[a][c] = Cardinality(Having(n, M, a, c))
             /\ IsFiniteSet(Having(n, M, a, c))
  <2>1. IsFiniteSet(Having(m, L, a, c)) /\ IsFiniteSet(Having(n, M, a, c))
    <3>1. Having(m, L, a, c) \in SUBSET L /\ Having(n, M, a, c) \in SUBSET L
      BY DEF Having
    <3> QED BY ONLY <3>1, IsFiniteSet(L), FS_Subset
  <2>2. m.count[a][c] = Cardinality(Having(m, L, a, c))
    BY <1>2 DEF CountsAre
  <2>3. CASE Has(m, x, a, c)
    <3>1. Having(n, M, a, c) = Having(m, L, a, c) \ {x} /\ x \in Having(m, L, a, c)
      BY <1>1, <2>3 DEF Having, Has
    <3>2. Cardinality(Having(n, M, a, c)) = Cardinality(Having(m, L, a, c)) - 1
      BY ONLY <2>1, <3>1, FS_RemoveElement
    <3>3. n.count[a][c] = m.count[a][c] + (-1)
      BY <1>1, <1>2, <2>3 DEF WithCount
    <3>4. Cardinality(Having(m, L, a, c)) \in Nat
      BY ONLY <2>1, FS_CardinalityType
    <3> QED BY <2>1, <2>2, <3>2, <3>3, <3>4
  <2>4. CASE ~Has(m, x, a, c)
    <3>1. Having(n, M, a, c) = Having(m, L, a, c)
      BY <1>1, <2>4 DEF Having, Has
    <3>2. n.count[a][c] = m.count[a][c]
      BY <1>1, <2>4 DEF WithCount
    <3> QED BY <2>1, <2>2, <3>1, <3>2
  <2> QED BY <2>3, <2>4
<1>3. ASSUME NEW a \in Attrs, AttrType[a] = "Text"
      PROVE  n.docs[a] = Cardinality(Texts(n, M, a)) /\ IsFiniteSet(Texts(n, M, a))
  <2>1. IsFiniteSet(Texts(m, L, a)) /\ IsFiniteSet(Texts(n, M, a))
    <3>1. Texts(m, L, a) \in SUBSET L /\ Texts(n, M, a) \in SUBSET L
      BY DEF Texts
    <3> QED BY ONLY <3>1, IsFiniteSet(L), FS_Subset
  <2>2. m.docs[a] = Cardinality(Texts(m, L, a))
    BY <1>3 DEF CountsAre
  <2>3. CASE m.data[x][a] # NoValue
    <3>1. Texts(n, M, a) = Texts(m, L, a) \ {x} /\ x \in Texts(m, L, a)
      BY <1>1, <2>3 DEF Texts
    <3>2. Cardinality(Texts(n, M, a)) = Cardinality(Texts(m, L, a)) - 1
      BY ONLY <2>1, <3>1, FS_RemoveElement
    <3>3. n.docs[a] = m.docs[a] + (-1)
      BY <1>1, <1>3, <2>3 DEF WithDocs
    <3>4. Cardinality(Texts(m, L, a)) \in Nat
      BY ONLY <2>1, FS_CardinalityType
    <3> QED BY <2>1, <2>2, <3>2, <3>3, <3>4
  <2>4. CASE m.data[x][a] = NoValue
    <3>1. Texts(n, M, a) = Texts(m, L, a)
      BY <1>1, <2>4 DEF Texts
    <3>2. n.docs[a] = m.docs[a]
      BY <1>1, <2>4 DEF WithDocs
    <3> QED BY <2>1, <2>2, <3>1, <3>2
  <2> QED BY <2>3, <2>4
<1>4. TreesAre(n, M)
  <2> SUFFICES ASSUME NEW a \in Attrs PROVE n.tree[a] = UNION {TreePairs(n, i, a) : i \in M}
    BY DEF TreesAre
  <2>1. n.tree[a] = (UNION {TreePairs(m, i, a) : i \in L}) \ TreePairs(m, x, a)
    BY <1>1 DEF TreesAre
  <2>2. \A i : TreePairs(n, i, a) = TreePairs(m, i, a)
    BY <1>1 DEF TreePairs
  <2>3. \A i, p : p \in TreePairs(m, i, a) => p[2] = i
    BY DEF TreePairs
  <2>4. (UNION {TreePairs(m, i, a) : i \in L}) \ TreePairs(m, x, a) = UNION {TreePairs(m, i, a) : i \in L \ {x}}
    BY ONLY <2>3
  <2> QED BY ONLY <2>1, <2>2, <2>4
<1>5. CountsAre(n, M)
  BY <1>2, <1>3 DEF CountsAre
<1>6. CountTypes(n)
  <2>1. ASSUME NEW a \in Attrs, NEW c \in Codes PROVE n.count[a][c] \in Nat
    <3>1. CASE Posted(a)
      <4>1. n.count[a][c] = Cardinality(Having(n, M, a, c)) /\ IsFiniteSet(Having(n, M, a, c))
        BY <1>2, <3>1
      <4> QED BY ONLY <4>1, FS_CardinalityType
    <3>2. CASE ~Posted(a)
      BY <1>1, <3>2 DEF WithCount, CountTypes
    <3> QED BY <3>1, <3>2
  <2>2. ASSUME NEW a \in Attrs PROVE n.docs[a] \in Nat
    <3>1. CASE AttrType[a] = "Text"
      <4>1. n.docs[a] = Cardinality(Texts(n, M, a)) /\ IsFiniteSet(Texts(n, M, a))
        BY <1>3, <3>1
      <4> QED BY ONLY <4>1, FS_CardinalityType
    <3>2. CASE AttrType[a] # "Text"
      BY <1>1, <3>2 DEF WithDocs, CountTypes
    <3> QED BY <3>1, <3>2
  <2>3. n.count = WithCount(m, x, -1) /\ n.docs = WithDocs(m, x, -1)
    BY <1>1
  <2>4. n.count \in [Attrs -> [Codes -> Nat]]
    BY ONLY <2>1, <2>3 DEF WithCount
  <2>5. n.docs \in [Attrs -> Nat]
    BY ONLY <2>2, <2>3 DEF WithDocs
  <2> QED BY <2>4, <2>5 DEF CountTypes
<1> QED BY <1>4, <1>5, <1>6 DEF n

-----------------------------------------------------------------------------
(* Postings of a store. *)

(* An entry more keeps a bag a bag. *)
LEMMA OneMoreEntry ==
    ASSUME NEW B, IsABag(B), NEW x
    PROVE  LET C == B (+) SetToBag({x})
           IN  IsABag(C) /\ DOMAIN C = DOMAIN B \cup {x}
<1> DEFINE C == B (+) SetToBag({x})
<1>1. C = [e \in DOMAIN B \cup {x} |-> (IF e \in DOMAIN B THEN B[e] ELSE 0) + (IF e \in {x} THEN 1 ELSE 0)]
  BY DEF SetToBag, (+)
<1>2. \A e \in DOMAIN B : B[e] \in Nat /\ B[e] > 0
  BY DEF IsABag
<1> HIDE DEF C
<1>3. DOMAIN C = DOMAIN B \cup {x}
  BY ONLY <1>1
<1>4. \A e \in DOMAIN C : C[e] \in {n \in Nat : n > 0}
  BY ONLY <1>1, <1>2
<1>5. C = [e \in DOMAIN C |-> C[e]]
  BY ONLY <1>1
<1>6. IsABag(C)
  BY ONLY <1>4, <1>5 DEF IsABag
<1> QED BY <1>3, <1>6 DEF C

(* add_posting_ posts row x under its codes, and takes nothing away (metadata.h:257-262). *)
LEMMA PostsOne ==
    ASSUME NEW m, NEW N, NEW S, NEW x \in N, PostingTypes(m, N), PostedAre(m, S \ {x}),
           NEW n, n.data = m.data, n.postings = WithPostings(m, x)
    PROVE  PostingTypes(n, N) /\ PostedAre(n, S \cup {x})
<1>1. ASSUME NEW a \in Attrs, NEW c \in Codes
      PROVE  /\ IsABag(n.postings[a][c]) /\ DOMAIN n.postings[a][c] \subseteq N
             /\ DOMAIN m.postings[a][c] \subseteq DOMAIN n.postings[a][c]
             /\ Posted(a) /\ Has(m, x, a, c) => x \in DOMAIN n.postings[a][c]
  <2>1. IsABag(m.postings[a][c]) /\ DOMAIN m.postings[a][c] \subseteq N
    BY DEF PostingTypes
  <2>2. n.postings[a][c] = IF Posted(a) /\ Has(m, x, a, c) THEN m.postings[a][c] (+) SetToBag({x})
                                                           ELSE m.postings[a][c]
    BY DEF WithPostings
  <2> DEFINE C == m.postings[a][c] (+) SetToBag({x})
  <2>3. IsABag(C) /\ DOMAIN C = DOMAIN m.postings[a][c] \cup {x}
    BY ONLY <2>1, OneMoreEntry
  <2> HIDE DEF C
  <2>4. n.postings[a][c] = IF Posted(a) /\ Has(m, x, a, c) THEN C ELSE m.postings[a][c]
    BY <2>2 DEF C
  <2> QED BY <2>1, <2>3, <2>4
<1>2. \A i, a, c : Has(n, i, a, c) <=> Has(m, i, a, c)
  BY DEF Has
<1>3. PostingTypes(n, N)
  BY <1>1 DEF PostingTypes
<1>4. PostedAre(n, S \cup {x})
  BY <1>1, <1>2 DEF PostedAre, Having
<1> QED BY <1>3, <1>4

(* Rows that are posted stay posted while their columns and the postings are left alone. *)
LEMMA SamePostings ==
    ASSUME NEW m, NEW n, NEW N, NEW S, NEW T, T \subseteq S, \A i \in T : n.data[i] = m.data[i],
           n.postings = m.postings, PostingTypes(m, N), PostedAre(m, S)
    PROVE  PostingTypes(n, N) /\ PostedAre(n, T)
  BY DEF PostingTypes, PostedAre, Having, Has

(* Postings rebuilt from the rows in S post each of them once. *)
LEMMA PostsAll ==
    ASSUME NEW m, NEW S, NEW n, n.data = m.data, n.postings = PostingsOf(m, S)
    PROVE  /\ PostingTypes(n, S) /\ PostedAre(n, S)
           /\ \A a \in Attrs, c \in Codes : Posted(a) => n.postings[a][c] = SetToBag(Having(n, S, a, c))
<1>1. ASSUME NEW a \in Attrs, NEW c \in Codes
      PROVE  n.postings[a][c] = SetToBag({i \in S : Posted(a) /\ Has(m, i, a, c)})
  BY DEF PostingsOf
<1>2. \A T : IsABag(SetToBag(T)) /\ DOMAIN SetToBag(T) = T
  BY DEF IsABag, SetToBag
<1>3. \A a, c : Having(n, S, a, c) = {i \in S : Has(m, i, a, c)}
  BY DEF Having, Has
<1>4. PostingTypes(n, S)
  <2>1. ASSUME NEW a \in Attrs, NEW c \in Codes
        PROVE  IsABag(n.postings[a][c]) /\ DOMAIN n.postings[a][c] \subseteq S
    <3> DEFINE T == {i \in S : Posted(a) /\ Has(m, i, a, c)}
    <3>1. n.postings[a][c] = SetToBag(T) /\ T \subseteq S
      BY <1>1
    <3> HIDE DEF T
    <3> QED BY <1>2, <3>1
  <2> QED BY <2>1 DEF PostingTypes
<1>5. \A a \in Attrs, c \in Codes : Posted(a) => n.postings[a][c] = SetToBag(Having(n, S, a, c))
  BY <1>1, <1>3
<1>6. PostedAre(n, S)
  BY <1>2, <1>5 DEF PostedAre
<1> QED BY <1>4, <1>5, <1>6

-----------------------------------------------------------------------------
(* The actions. *)

\* What two states of the store may differ in without telling them apart here.
SameStore == meta' = meta /\ Nodes' = Nodes /\ Live' = Live /\ Pending' \subseteq Pending

(* Steps that leave the metadata alone leave it right. *)
LEMMA UntouchedMeta ==
    ASSUME DerivedInv, SameStore
    PROVE  DerivedInv'
<1>1. PostedAre(meta', Live' \cup Pending')
  BY DEF DerivedInv, SameStore, PostedAre, Having
<1> QED BY <1>1 DEF DerivedInv, SameStore

(* Where the nodes are. *)
LEMMA WhereNodesAre ==
    ASSUME IdsInv
    PROVE  /\ Pending \subseteq Nodes \ Live /\ Live \subseteq Nodes /\ IsFiniteSet(Live)
           /\ Nodes = 1..Len(meta.data) /\ IsStore(meta) /\ \A e \in DOMAIN extToInt : extToInt[e] \in Live
<1>1. Pending \subseteq Nodes \ Live
  BY DEF Pending, IdsInv, PendingIdsAreTheWriters
<1>2. \A e \in DOMAIN extToInt : extToInt[e] \in Live
  BY DEF IdsInv, IdsAreInverse
<1> QED BY <1>1, <1>2, Arrays DEF IdsInv, ArraysInv

(* reserve_id and link() do not touch the metadata store. *)
LEMMA QuietSteps ==
    ASSUME IdsInv, DerivedInv, NEW t \in Threads, ReserveId(t) \/ Link(t)
    PROVE  DerivedInv'
<1>1. UNCHANGED <<intToExt, deleted, meta, iid>>
  BY DEF ReserveId, Link
<1>2. Nodes' = Nodes /\ Live' = Live
  BY <1>1 DEF Nodes, Live
<1>3. \A u \in Threads : Writing(u)' => Writing(u)
  BY DEF ReserveId, Link, IdsInv, CallsInv
<1>4. Pending' \subseteq Pending
  BY <1>1, <1>3 DEF Pending
<1> QED BY <1>1, <1>2, <1>4, UntouchedMeta DEF SameStore

(* Phase 1 posts the new row, which counts for nothing yet. *)
LEMMA AllocateDerived ==
    ASSUME IdsInv, DerivedInv, NEW t \in Threads, NEW e, NEW vec, NEW rec \in Metas,
           Allocate(t, e, vec), meta' = AppendRow(meta, rec)
    PROVE  DerivedInv'
<1> DEFINE x == Len(meta.data) + 1
           n == [meta EXCEPT !.data = Append(meta.data, rec)]
<1>0. /\ IsStore(meta) /\ meta.data \in Seq(Metas) /\ deleted \in Seq(BOOLEAN)
      /\ Len(deleted) = Len(intToExt) /\ Len(meta.data) = Len(intToExt) /\ Len(intToExt) \in Nat
      /\ Nodes = 1..Len(intToExt)
  BY Arrays DEF IdsInv, ArraysInv
<1>1. /\ meta'.data = Append(meta.data, rec) /\ meta'.count = meta.count /\ meta'.docs = meta.docs
      /\ meta'.tree = meta.tree /\ meta'.postings = WithPostings(n, x)
  BY ONLY <1>0, meta' = AppendRow(meta, rec), AppendRowFields
<1>2. n.data = meta'.data /\ n.postings = meta.postings
  BY <1>0, <1>1 DEF IsStore
<1>3. /\ intToExt' = Append(intToExt, e) /\ deleted' = Append(deleted, TRUE)
      /\ iid' = [iid EXCEPT ![t] = Len(intToExt) + 1] /\ pc' = [pc EXCEPT ![t] = "link"]
  BY DEF Allocate
<1>4. Nodes' = Nodes \cup {x} /\ x \notin Nodes
  <2>1. Len(intToExt') = Len(intToExt) + 1
    BY <1>3 DEF IdsInv, ArraysInv
  <2> QED BY <1>0, <2>1 DEF Nodes
<1>5. \A i \in Nodes : deleted'[i] = deleted[i]
  <2>1. \A i \in 1..Len(deleted) : deleted'[i] = deleted[i]
    BY ONLY <1>0, <1>3, OneMoreFlag
  <2> QED BY <1>0, <2>1
<1>6. deleted'[x] = TRUE
  <2>1. deleted'[Len(deleted) + 1] = TRUE
    BY ONLY <1>0, <1>3, OneMoreFlag
  <2> QED BY <1>0, <2>1
<1>7. Live' = Live
  BY <1>4, <1>5, <1>6 DEF Live
<1>8. \A i \in Nodes : meta'.data[i] = meta.data[i]
  BY ONLY <1>0, <1>1, rec \in Metas, OneMore
<1>9. Pending' \subseteq Pending \cup {x}
  <2>1. \A u \in Threads : u # t => (Writing(u)' <=> Writing(u)) /\ iid'[u] = iid[u]
    BY <1>3 DEF IdsInv, CallsInv
  <2>2. iid'[t] = x
    BY <1>0, <1>3 DEF IdsInv, CallsInv
  <2> QED BY <2>1, <2>2 DEF Pending
<1> HIDE DEF n, x
<1>10. Live \subseteq Nodes /\ Pending \subseteq Nodes
  BY WhereNodesAre
<1>11. CountsAre(meta', Live) /\ TreesAre(meta', Live)
  <2>1. \A i \in Live : meta'.data[i] = meta.data[i]
    BY <1>8, <1>10
  <2>2. CountsAre(meta, Live) /\ TreesAre(meta, Live)
    BY DEF DerivedInv
  <2> QED BY ONLY <1>1, <2>1, <2>2, SameRows
<1>12. PostingTypes(n, Nodes') /\ PostedAre(n, Live \cup Pending)
  <2>1. PostingTypes(meta, Nodes') /\ PostedAre(meta, Live \cup Pending)
    BY <1>4 DEF DerivedInv, PostingTypes
  <2>2. \A i \in Live \cup Pending : n.data[i] = meta.data[i]
    BY <1>2, <1>8, <1>10
  <2> QED BY ONLY <1>2, <2>1, <2>2, SamePostings
<1>13. PostingTypes(meta', Nodes') /\ PostedAre(meta', Live \cup Pending \cup {x})
  <2>1. x \in Nodes' /\ n.data = meta'.data /\ meta'.postings = WithPostings(n, x)
    BY <1>1, <1>2, <1>4
  <2>2. PostedAre(n, (Live \cup Pending) \ {x})
    BY <1>12 DEF PostedAre, Having
  <2> QED BY ONLY <1>12, <2>1, <2>2, PostsOne
<1>14. PostedAre(meta', Live' \cup Pending')
  BY <1>7, <1>9, <1>13 DEF PostedAre, Having
<1>15. CountTypes(meta')
  BY <1>1 DEF DerivedInv, CountTypes
<1> QED BY <1>7, <1>11, <1>13, <1>14, <1>15 DEF DerivedInv

(* Publishing a new row puts its node among the live ones (vdb.cpp:123-131). *)
LEMMA PublishInsertDerived ==
    ASSUME IdsInv, DerivedInv, NEW t \in Threads, PublishInsert(t)
    PROVE  DerivedInv'
<1> DEFINE x == iid[t]
<1>0. /\ IsStore(meta) /\ CountTypes(meta) /\ CountsAre(meta, Live) /\ TreesAre(meta, Live) /\ IsFiniteSet(Live)
      /\ PostingTypes(meta, Nodes) /\ PostedAre(meta, Live \cup Pending)
  BY WhereNodesAre DEF DerivedInv
<1>1. /\ pc[t] = "publish" /\ deleted' = [deleted EXCEPT ![x] = FALSE] /\ meta' = MarkLive(meta, x)
      /\ intToExt' = intToExt /\ pc' = [pc EXCEPT ![t] = "idle"] /\ iid' = [iid EXCEPT ![t] = 0]
  BY DEF PublishInsert
<1>2. x \in Nodes \ Live /\ x \in Pending
  BY <1>1 DEF IdsInv, PendingIdsAreTheWriters, Pending
<1>3. Nodes' = Nodes
  BY <1>1 DEF Nodes
<1>4. Live' = Live \cup {x}
  <2>1. DOMAIN deleted = Nodes
    BY Arrays DEF IdsInv
  <2>2. \A i \in Nodes : deleted'[i] = IF i = x THEN FALSE ELSE deleted[i]
    BY <1>1, <1>2, <2>1
  <2> QED BY <1>2, <1>3, <2>2 DEF Live
<1>5. Pending' \subseteq Pending
  BY <1>1 DEF Pending, IdsInv, CallsInv
<1> HIDE DEF x
<1>6. CountTypes(meta') /\ CountsAre(meta', Live') /\ TreesAre(meta', Live')
  <2> DEFINE n == MarkLive(meta, x)
  <2>1. CountTypes(n) /\ CountsAre(n, Live \cup {x}) /\ TreesAre(n, Live \cup {x})
    BY ONLY <1>0, <1>2, Livens
  <2> QED BY <1>1, <1>4, <2>1
<1>7. meta'.data = meta.data /\ meta'.postings = meta.postings
  BY ONLY <1>0, <1>1, MarkLiveFields
<1>8. PostingTypes(meta', Nodes) /\ PostedAre(meta', Live' \cup Pending')
  <2>1. Live' \cup Pending' \subseteq Live \cup Pending
    BY <1>2, <1>4, <1>5
  <2> QED BY ONLY <1>0, <1>7, <2>1, SamePostings
<1> QED BY <1>3, <1>6, <1>8 DEF DerivedInv

(* Publishing an update puts the new node among the live ones and takes the old one out
   (vdb.cpp:164-175).                                                                   *)
LEMMA PublishUpdateDerived ==
    ASSUME IdsInv, DerivedInv, NEW t \in Threads, PublishUpdate(t)
    PROVE  DerivedInv'
<1> DEFINE x == iid[t]
           old == oldIid[t]
           n == MarkLive(meta, x)
<1>0. /\ IsStore(meta) /\ CountTypes(meta) /\ CountsAre(meta, Live) /\ TreesAre(meta, Live) /\ IsFiniteSet(Live)
      /\ PostingTypes(meta, Nodes) /\ PostedAre(meta, Live \cup Pending)
  BY WhereNodesAre DEF DerivedInv
<1>1. /\ pc[t] = "publish" /\ op[t].type = "Update"
      /\ deleted' = [deleted EXCEPT ![x] = FALSE, ![old] = TRUE] /\ meta' = MarkDead(n, old)
      /\ intToExt' = intToExt /\ pc' = [pc EXCEPT ![t] = "idle"] /\ iid' = [iid EXCEPT ![t] = 0]
  BY DEF PublishUpdate
<1>2. x \in Nodes \ Live /\ x \in Pending /\ old \in Live
  <2>1. op[t].ext \in DOMAIN extToInt /\ extToInt[op[t].ext] = old
    BY <1>1 DEF IdsInv, PendingIdsAreTheWriters
  <2> QED BY <1>1, <2>1 DEF IdsInv, PendingIdsAreTheWriters, IdsAreInverse, Pending
<1>3. Nodes' = Nodes
  BY <1>1 DEF Nodes
<1>4. Live' = (Live \cup {x}) \ {old}
  <2>1. DOMAIN deleted = Nodes /\ Live \subseteq Nodes
    BY Arrays DEF IdsInv
  <2>2. \A i \in Nodes : deleted'[i] = IF i = old THEN TRUE ELSE IF i = x THEN FALSE ELSE deleted[i]
    BY <1>1, <1>2, <2>1
  <2> QED BY <1>2, <1>3, <2>1, <2>2 DEF Live
<1>5. Pending' \subseteq Pending
  BY <1>1 DEF Pending, IdsInv, CallsInv
<1> HIDE DEF x, old
<1>6. /\ IsStore(n) /\ n.data = meta.data /\ n.postings = meta.postings
      /\ CountTypes(n) /\ CountsAre(n, Live \cup {x}) /\ TreesAre(n, Live \cup {x})
  <2>1. IsStore(n) /\ n.data = meta.data /\ n.postings = meta.postings
    BY ONLY <1>0, MarkLiveFields
  <2>2. CountTypes(n) /\ CountsAre(n, Live \cup {x}) /\ TreesAre(n, Live \cup {x})
    BY ONLY <1>0, <1>2, Livens
  <2> QED BY <2>1, <2>2
<1> HIDE DEF n
<1>7. CountTypes(meta') /\ CountsAre(meta', Live') /\ TreesAre(meta', Live')
  <2>1. IsFiniteSet(Live \cup {x})
    BY ONLY <1>0, FS_AddElement
  <2> DEFINE d == MarkDead(n, old)
  <2>2. CountTypes(d) /\ CountsAre(d, (Live \cup {x}) \ {old}) /\ TreesAre(d, (Live \cup {x}) \ {old})
    <3>1. old \in Live \cup {x}
      BY <1>2
    <3> QED BY ONLY <1>6, <2>1, <3>1, Dies
  <2> QED BY <1>1, <1>4, <2>2
<1>8. meta'.data = meta.data /\ meta'.postings = meta.postings
  <2>1. MarkDead(n, old).data = n.data /\ MarkDead(n, old).postings = n.postings
    BY ONLY <1>6, MarkDeadFields
  <2> QED BY <1>1, <1>6, <2>1
<1>9. PostingTypes(meta', Nodes) /\ PostedAre(meta', Live' \cup Pending')
  <2>1. Live' \cup Pending' \subseteq Live \cup Pending
    BY <1>2, <1>4, <1>5
  <2> QED BY ONLY <1>0, <1>8, <2>1, SamePostings
<1> QED BY <1>3, <1>7, <1>9 DEF DerivedInv

(* A removal takes the row of e out (vdb.cpp:183-198). *)
LEMMA RemoveDerived ==
    ASSUME IdsInv, DerivedInv, NEW e \in DOMAIN extToInt, Remove(e)
    PROVE  DerivedInv'
<1> DEFINE old == extToInt[e]
           n == MarkDead(meta, old)
<1>0. /\ IsStore(meta) /\ CountTypes(meta) /\ CountsAre(meta, Live) /\ TreesAre(meta, Live) /\ IsFiniteSet(Live)
      /\ PostingTypes(meta, Nodes) /\ PostedAre(meta, Live \cup Pending) /\ Live \subseteq Nodes
  BY WhereNodesAre DEF DerivedInv
<1>1. /\ deleted' = [deleted EXCEPT ![old] = TRUE] /\ meta' = n /\ UNCHANGED <<intToExt, pc, iid>>
  BY DEF Remove
<1>2. old \in Live
  BY WhereNodesAre
<1>3. Nodes' = Nodes
  BY <1>1 DEF Nodes
<1>4. Live' = Live \ {old}
  <2>1. DOMAIN deleted = Nodes
    BY Arrays DEF IdsInv
  <2>2. \A i \in Nodes : deleted'[i] = IF i = old THEN TRUE ELSE deleted[i]
    BY <1>1, <2>1
  <2> QED BY <1>2, <1>3, <2>2 DEF Live
<1>5. Pending' = Pending
  BY <1>1 DEF Pending
<1> HIDE DEF old
<1>6. CountTypes(n) /\ CountsAre(n, Live \ {old}) /\ TreesAre(n, Live \ {old})
  BY ONLY <1>0, <1>2, Dies
<1>7. n.data = meta.data /\ n.postings = meta.postings
  BY ONLY <1>0, MarkDeadFields
<1> HIDE DEF n
<1>8. PostingTypes(meta', Nodes) /\ PostedAre(meta', Live' \cup Pending')
  <2>1. Live' \cup Pending' \subseteq Live \cup Pending /\ meta' = n
    BY <1>1, <1>4, <1>5
  <2> QED BY ONLY <1>0, <1>7, <2>1, SamePostings
<1> QED BY <1>1, <1>3, <1>4, <1>6, <1>8 DEF DerivedInv

(* set_row: the old row is uncounted before it is overwritten, and the new one counted and
   posted (vdb.cpp:206-214, metadata.h:218-227).                                           *)
LEMMA SetMetadataDerived ==
    ASSUME IdsInv, DerivedInv, NEW e \in DOMAIN extToInt, SetMetadata(e)
    PROVE  DerivedInv'
<1> DEFINE i == extToInt[e]
<1>1. PICK rec \in Metas : meta' = SetRow(meta, i, rec)
  BY DEF SetMetadata
<1>2. UNCHANGED <<intToExt, deleted, pc, iid>>
  BY DEF SetMetadata
<1>3. Nodes' = Nodes /\ Live' = Live /\ Pending' = Pending
  BY <1>2 DEF Nodes, Live, Pending
<1>4. /\ IsStore(meta) /\ CountTypes(meta) /\ CountsAre(meta, Live) /\ TreesAre(meta, Live) /\ IsFiniteSet(Live)
      /\ PostingTypes(meta, Nodes) /\ PostedAre(meta, Live \cup Pending) /\ Live \subseteq Nodes
      /\ i \in Live /\ i \in Nodes
  BY WhereNodesAre DEF DerivedInv
<1> HIDE DEF i
<1> DEFINE dead == MarkDead(meta, i)
           set  == Overwritten(meta, i, rec)
           live == MarkLive(set, i)
<1>5. /\ IsStore(dead) /\ IsStore(set) /\ set.data = [meta.data EXCEPT ![i] = rec] /\ set.count = dead.count
      /\ set.docs = dead.docs /\ set.postings = dead.postings /\ set.tree = dead.tree
      /\ meta' = AddPostings(live, i)
  <2>1. IsStore(meta)
    BY <1>4
  <2>2. IsStore(dead)
    BY ONLY <2>1, MarkDeadFields
  <2>3. /\ IsStore(set) /\ set.data = [meta.data EXCEPT ![i] = rec] /\ set.count = dead.count
        /\ set.docs = dead.docs /\ set.postings = dead.postings /\ set.tree = dead.tree
    BY ONLY <2>1, OverwrittenFields
  <2>4. SetRow(meta, i, rec) = AddPostings(live, i)
    BY ONLY <2>1, SetRowFields
  <2> QED BY <1>1, <2>2, <2>3, <2>4
<1>6. dead.data = meta.data /\ dead.postings = meta.postings
  BY ONLY <1>4, MarkDeadFields
<1>7. CountTypes(dead) /\ CountsAre(dead, Live \ {i}) /\ TreesAre(dead, Live \ {i})
  BY ONLY <1>4, Dies
<1> HIDE DEF dead
<1>8. \A j \in Nodes : j # i => set.data[j] = meta.data[j]
  <2>1. DOMAIN meta.data = Nodes
    BY Arrays DEF IdsInv
  <2> QED BY <1>5, <2>1
<1> HIDE DEF set
<1>9. CountTypes(set) /\ CountsAre(set, Live \ {i}) /\ TreesAre(set, Live \ {i})
  <2>1. CountTypes(set)
    BY <1>5, <1>7 DEF CountTypes
  <2>2. \A j \in Live \ {i} : set.data[j] = dead.data[j]
    BY <1>4, <1>6, <1>8
  <2>3. set.count = dead.count /\ set.docs = dead.docs /\ set.tree = dead.tree
    BY <1>5
  <2>4. CountsAre(set, Live \ {i}) /\ TreesAre(set, Live \ {i})
    BY ONLY <1>7, <2>2, <2>3, SameRows
  <2> QED BY <2>1, <2>4
<1>10. IsStore(live) /\ live.data = set.data /\ live.postings = set.postings
  <2>1. IsStore(set)
    BY <1>5
  <2> QED BY ONLY <2>1, MarkLiveFields
<1>11. CountTypes(live) /\ CountsAre(live, Live) /\ TreesAre(live, Live)
  <2>1. IsStore(set) /\ i \notin Live \ {i} /\ (Live \ {i}) \cup {i} = Live
    BY <1>4, <1>5
  <2>2. IsFiniteSet(Live \ {i})
    BY ONLY <1>4, FS_RemoveElement
  <2>3. CountTypes(live) /\ CountsAre(live, (Live \ {i}) \cup {i}) /\ TreesAre(live, (Live \ {i}) \cup {i})
    BY ONLY <1>9, <2>1, <2>2, Livens
  <2> QED BY <2>1, <2>3
<1> HIDE DEF live
<1>12. /\ meta'.data = live.data /\ meta'.count = live.count /\ meta'.docs = live.docs
       /\ meta'.tree = live.tree /\ meta'.postings = WithPostings(live, i)
  <2>1. meta' = AddPostings(live, i)
    BY <1>5
  <2> QED BY ONLY <1>10, <2>1, AddPostingsFields
<1>13. CountTypes(meta') /\ CountsAre(meta', Live) /\ TreesAre(meta', Live)
  <2>1. CountTypes(meta')
    BY <1>11, <1>12 DEF CountTypes
  <2>2. CountsAre(meta', Live) /\ TreesAre(meta', Live)
    BY ONLY <1>11, <1>12, SameRows
  <2> QED BY <2>1, <2>2
<1>14. PostingTypes(live, Nodes) /\ PostedAre(live, (Live \cup Pending) \ {i})
  <2>1. \A j \in (Live \cup Pending) \ {i} : live.data[j] = meta.data[j]
    BY <1>4, <1>8, <1>10, WhereNodesAre
  <2>2. live.postings = meta.postings /\ (Live \cup Pending) \ {i} \subseteq Live \cup Pending
    BY <1>5, <1>6, <1>10
  <2> QED BY ONLY <1>4, <2>1, <2>2, SamePostings
<1>15. PostingTypes(meta', Nodes) /\ PostedAre(meta', Live \cup Pending)
  <2>1. (Live \cup Pending) \cup {i} = Live \cup Pending
    BY <1>4
  <2>2. PostingTypes(meta', Nodes) /\ PostedAre(meta', (Live \cup Pending) \cup {i})
    BY ONLY <1>4, <1>12, <1>14, PostsOne
  <2> QED BY <2>1, <2>2
<1> QED BY <1>3, <1>13, <1>15 DEF DerivedInv

(* A compaction renumbers the rows: it keeps the counts, and posts and indexes each live row
   once (metadata.h:262-263, vdb.cpp:480-513).                                              *)
LEMMA CompactDerived ==
    ASSUME IdsInv, DerivedInv, Compact
    PROVE  /\ DerivedInv' /\ Live' = Nodes'
           /\ \A a \in Attrs, c \in Codes : Posted(a) =>
                 meta'.postings[a][c] = SetToBag(Having(meta', Live', a, c))
<1>0. /\ IsStore(meta) /\ CountTypes(meta) /\ CountsAre(meta, Live) /\ TreesAre(meta, Live) /\ IsFiniteSet(Live)
  BY WhereNodesAre DEF DerivedInv
<1>1. PICK live \in LiveInOrder : Renumber(live)
  BY DEF Compact
<1> DEFINE N == Len(live)
<1>2. /\ N \in Nat /\ live \in [1..N -> Live] /\ DOMAIN live = 1..N
      /\ \A i, j \in 1..N : live[i] = live[j] => i = j
      /\ \A x \in Live : \E i \in 1..N : live[i] = x
  BY InOrder DEF IdsInv
<1>3. /\ meta' = Permute(meta, live) /\ intToExt' = [i \in 1..N |-> intToExt[live[i]]]
      /\ deleted' = [i \in 1..N |-> FALSE] /\ pc' = pc
  BY <1>1, <1>2 DEF Renumber
<1>4. Nodes' = 1..N /\ Live' = 1..N
  <2>1. Len(intToExt') = N
    <3>1. \A i \in 1..N : intToExt[live[i]] \in Nat
      BY <1>2, Arrays DEF IdsInv
    <3>2. intToExt' \in [1..N -> Nat]
      BY <1>3, <3>1
    <3> QED BY ONLY <1>2, <3>2, SeqOf
  <2>2. \A i \in 1..N : deleted'[i] = FALSE
    BY <1>3
  <2> QED BY <2>1, <2>2 DEF Nodes, Live
<1>5. Pending' = {}
  BY <1>3 DEF Compact, Quiet, Pending
<1> DEFINE n == Permute(meta, live)
           rows == [meta EXCEPT !.data = [i \in 1..Len(live) |-> meta.data[live[i]]]]
<1>6. /\ n.data = [i \in 1..N |-> meta.data[live[i]]] /\ n.count = meta.count /\ n.docs = meta.docs
      /\ n.data = rows.data /\ n.postings = PostingsOf(rows, 1..N) /\ n.tree = TreesOf(rows, 1..N)
  BY ONLY <1>0, PermuteFields
<1> HIDE DEF N, n, rows
<1>7. meta' = n
  BY <1>3 DEF n
<1>8. \A i \in 1..N : n.data[i] = meta.data[live[i]]
  BY <1>6
<1>9. ASSUME NEW A \in SUBSET (1..N), NEW B \in SUBSET Live, \A i \in 1..N : i \in A <=> live[i] \in B
      PROVE  Cardinality(A) = Cardinality(B)
  <2> DEFINE f == [i \in A |-> live[i]]
  <2>1. f \in [A -> B]
    BY <1>2, <1>9
  <2>2. \A i, j \in A : f[i] = f[j] => i = j
    BY <1>2
  <2>3. \A x \in B : \E i \in A : f[i] = x
    BY <1>2, <1>9
  <2> HIDE DEF f
  <2>4. f \in Bijection(A, B)
    BY ONLY <2>1, <2>2, <2>3 DEF Bijection, Injection, Surjection, IsInjective
  <2>5. ExistsBijection(A, B)
    BY <2>4 DEF ExistsBijection
  <2>6. IsFiniteSet(A)
    <3>1. 1 \in Int /\ N \in Int
      BY <1>2
    <3>2. IsFiniteSet(1..N)
      BY ONLY <3>1, FS_Interval
    <3>3. A \in SUBSET (1..N)
      OBVIOUS
    <3> QED BY ONLY <3>2, <3>3, FS_Subset
  <2> QED BY ONLY <2>5, <2>6, FS_Bijection
<1>10. CountsAre(n, 1..N)
  <2>1. ASSUME NEW a \in Attrs, Posted(a), NEW c \in Codes
        PROVE  n.count[a][c] = Cardinality(Having(n, 1..N, a, c))
    <3>1. /\ Having(n, 1..N, a, c) \in SUBSET (1..N) /\ Having(meta, Live, a, c) \in SUBSET Live
          /\ \A i \in 1..N : i \in Having(n, 1..N, a, c) <=> live[i] \in Having(meta, Live, a, c)
      BY <1>2, <1>8 DEF Having, Has
    <3>2. Cardinality(Having(n, 1..N, a, c)) = Cardinality(Having(meta, Live, a, c))
      BY <1>9, <3>1
    <3> QED BY <1>0, <1>6, <2>1, <3>2 DEF CountsAre
  <2>2. ASSUME NEW a \in Attrs, AttrType[a] = "Text"
        PROVE  n.docs[a] = Cardinality(Texts(n, 1..N, a))
    <3>1. /\ Texts(n, 1..N, a) \in SUBSET (1..N) /\ Texts(meta, Live, a) \in SUBSET Live
          /\ \A i \in 1..N : i \in Texts(n, 1..N, a) <=> live[i] \in Texts(meta, Live, a)
      BY <1>2, <1>8 DEF Texts
    <3>2. Cardinality(Texts(n, 1..N, a)) = Cardinality(Texts(meta, Live, a))
      BY <1>9, <3>1
    <3> QED BY <1>0, <1>6, <2>2, <3>2 DEF CountsAre
  <2> QED BY <2>1, <2>2 DEF CountsAre
<1>11. TreesAre(n, 1..N)
  <2>1. ASSUME NEW a \in Attrs, NEW i PROVE TreePairs(n, i, a) = TreePairs(rows, i, a)
    BY <1>6 DEF TreePairs
  <2>2. ASSUME NEW a \in Attrs PROVE n.tree[a] = UNION {TreePairs(n, i, a) : i \in 1..N}
    <3>1. n.tree[a] = UNION {TreePairs(rows, i, a) : i \in 1..N}
      BY <1>6 DEF TreesOf
    <3> QED BY <2>1, <3>1
  <2> QED BY <2>2 DEF TreesAre
<1>12. /\ PostingTypes(n, 1..N) /\ PostedAre(n, 1..N)
       /\ \A a \in Attrs, c \in Codes : Posted(a) => n.postings[a][c] = SetToBag(Having(n, 1..N, a, c))
  BY ONLY <1>6, PostsAll
<1>13. CountTypes(n)
  BY <1>6 DEF DerivedInv, CountTypes
<1>14. Live' \cup Pending' = 1..N
  BY <1>4, <1>5
<1> QED BY <1>4, <1>7, <1>10, <1>11, <1>12, <1>13, <1>14 DEF DerivedInv

(* A restart rebuilds from the columns what it did not save (vdb.cpp:636-669). *)
LEMMA ReloadDerived ==
    ASSUME IdsInv, DerivedInv, Reload
    PROVE  DerivedInv'
<1> DEFINE r == Rebuild(Deserialized(Serialized(meta)), deleted)
           live == {i \in 1..Len(meta.data) : ~deleted[i]}
<1>0. IsStore(meta) /\ IsFiniteSet(Live) /\ Live \subseteq Nodes
  BY WhereNodesAre
<1>1. meta' = r /\ UNCHANGED <<intToExt, deleted, pc, iid>> /\ \A t \in Threads : pc[t] = "idle"
  BY DEF Reload
<1>2. live = Live
  BY WhereNodesAre DEF Live
<1>3. /\ r.data = meta.data /\ r.count = CountOf(meta, live) /\ r.docs = DocsOf(meta, live)
      /\ r.postings = PostingsOf(meta, live) /\ r.tree = TreesOf(meta, live)
  BY ONLY <1>0, ReloadFields
<1> HIDE DEF r, live
<1>4. Nodes' = Nodes /\ Live' = Live /\ Pending' = {}
  BY <1>1 DEF Nodes, Live, Pending
<1>5. CountTypes(r) /\ CountsAre(r, Live)
  <2>1. \A T \in SUBSET Live : Cardinality(T) \in Nat
    <3> TAKE T \in SUBSET Live
    <3>1. IsFiniteSet(T)
      BY ONLY <1>0, T \in SUBSET Live, FS_Subset
    <3> QED BY ONLY <3>1, FS_CardinalityType
  <2>2. ASSUME NEW a \in Attrs, NEW c \in Codes
        PROVE  /\ r.count[a][c] \in Nat
               /\ Posted(a) => r.count[a][c] = Cardinality(Having(r, Live, a, c))
    <3> DEFINE T == {i \in Live : Posted(a) /\ Has(meta, i, a, c)}
    <3>1. r.count[a][c] = Cardinality(T)
      BY <1>2, <1>3 DEF CountOf
    <3>2. T \in SUBSET Live
      OBVIOUS
    <3>3. Posted(a) => T = Having(r, Live, a, c)
      BY <1>3 DEF Having, Has
    <3> HIDE DEF T
    <3> QED BY <2>1, <3>1, <3>2, <3>3
  <2>3. ASSUME NEW a \in Attrs
        PROVE  r.docs[a] \in Nat /\ (AttrType[a] = "Text" => r.docs[a] = Cardinality(Texts(r, Live, a)))
    <3> DEFINE T == {i \in Live : AttrType[a] = "Text" /\ meta.data[i][a] # NoValue}
    <3>1. r.docs[a] = Cardinality(T)
      BY <1>2, <1>3 DEF DocsOf
    <3>2. T \in SUBSET Live
      OBVIOUS
    <3>3. AttrType[a] = "Text" => T = Texts(r, Live, a)
      BY <1>3 DEF Texts
    <3> HIDE DEF T
    <3> QED BY <2>1, <3>1, <3>2, <3>3
  <2>4. r.count \in [Attrs -> [Codes -> Nat]]
    BY <1>3, <2>2 DEF CountOf
  <2>5. r.docs \in [Attrs -> Nat]
    BY <1>3, <2>3 DEF DocsOf
  <2> QED BY <2>2, <2>3, <2>4, <2>5 DEF CountTypes, CountsAre
<1>6. TreesAre(r, Live)
  BY <1>2, <1>3 DEF TreesAre, TreesOf, TreePairs
<1>7. PostingTypes(r, Live) /\ PostedAre(r, Live)
  <2>1. r.data = meta.data /\ r.postings = PostingsOf(meta, Live)
    BY <1>2, <1>3
  <2> QED BY ONLY <2>1, PostsAll
<1>8. PostingTypes(r, Nodes)
  BY <1>0, <1>7 DEF PostingTypes
<1>9. Live' \cup Pending' = Live
  BY <1>4
<1> QED BY <1>1, <1>4, <1>5, <1>6, <1>7, <1>8, <1>9 DEF DerivedInv

(* The derived state is right from the first state on. *)
LEMMA DerivedAlways ==
    Spec => [](IdsInv /\ DerivedInv)
<1>1. Init => DerivedInv
  <2> SUFFICES ASSUME Init PROVE DerivedInv
    OBVIOUS
  <2>1. Nodes = {} /\ Live = {} /\ Pending = {} /\ meta = NoRows
    BY DEF Init, Nodes, Live, Pending
  <2>2. CountTypes(meta)
    BY <2>1 DEF NoRows, CountTypes
  <2>3. PostingTypes(meta, {}) /\ PostedAre(meta, {})
    BY <2>1 DEF NoRows, NoPostings, PostingTypes, PostedAre, Having, EmptyBag, SetToBag, IsABag
  <2>4. CountsAre(meta, {})
    <3>1. \A a, c : Having(meta, {}, a, c) = {} /\ Texts(meta, {}, a) = {}
      BY DEF Having, Texts
    <3>2. Cardinality({}) = 0
      BY FS_EmptySet
    <3> QED BY <2>1, <3>1, <3>2 DEF CountsAre, NoRows
  <2>5. TreesAre(meta, {})
    BY <2>1 DEF TreesAre, NoRows, NoTree
  <2> QED BY <2>1, <2>2, <2>3, <2>4, <2>5 DEF DerivedInv
<1>2. ASSUME IdsInv, DerivedInv, [Next]_vars
      PROVE  DerivedInv'
  <2>1. ASSUME NEW t \in Threads, Insert(t) \/ Update(t) \/ Link(t)
        PROVE  DerivedInv'
    <3>1. CASE AllocateInsert(t)
      <4>1. op[t].row.meta \in Metas
        BY <1>2, <3>1 DEF AllocateInsert, IdsInv, CallsInv
      <4> QED BY <1>2, <3>1, <4>1, AllocateDerived DEF AllocateInsert
    <3>2. CASE AllocateUpdate(t)
      <4>1. PICK e \in DOMAIN extToInt, vec \in Vecs, given \in Metas \cup {NoMeta} :
               /\ Allocate(t, e, vec)
               /\ meta' = IF given = NoMeta THEN AppendRowCopy(meta, extToInt[e]) ELSE AppendRow(meta, given)
        BY <3>2 DEF AllocateUpdate
      <4> DEFINE rec == IF given = NoMeta THEN meta.data[extToInt[e]] ELSE given
      <4>2. extToInt[e] \in Nodes /\ \A i \in Nodes : meta.data[i] \in Metas
        BY <1>2, IdsFinite, Arrays DEF IdsInv
      <4>3. meta' = AppendRow(meta, rec) /\ rec \in Metas
        BY <4>1, <4>2 DEF AppendRowCopy
      <4> HIDE DEF rec
      <4> QED BY <1>2, <4>1, <4>3, AllocateDerived
    <3>3. CASE PublishInsert(t)
      BY <1>2, <3>3, PublishInsertDerived
    <3>4. CASE PublishUpdate(t)
      BY <1>2, <3>4, PublishUpdateDerived
    <3>5. CASE ReserveId(t) \/ Link(t)
      BY <1>2, <3>5, QuietSteps
    <3> QED BY <2>1, <3>1, <3>2, <3>3, <3>4, <3>5 DEF Insert, Update
  <2>2. ASSUME NEW e \in DOMAIN extToInt, Remove(e) \/ SetMetadata(e)
        PROVE  DerivedInv'
    BY <1>2, <2>2, RemoveDerived, SetMetadataDerived
  <2>3. CASE Compact
    BY <1>2, <2>3, CompactDerived
  <2>4. CASE Reload
    BY <1>2, <2>4, ReloadDerived
  <2>5. CASE UNCHANGED vars
    <3>1. UNCHANGED <<meta, intToExt, deleted, pc, iid>>
      BY <2>5 DEF vars
    <3>2. SameStore
      BY <3>1 DEF SameStore, Nodes, Live, Pending
    <3> QED BY <1>2, <3>2, UntouchedMeta
  <2> QED BY <1>2, <2>1, <2>2, <2>3, <2>4, <2>5 DEF Next
<1> QED BY <1>1, <1>2, IdsInvAlways, PTL DEF Spec

-----------------------------------------------------------------------------
(* Values, keys and codes. *)

(* The codes of a row are codes. *)
LEMMA CodesOfARow ==
    ASSUME NEW rec \in Metas, NEW a \in Attrs
    PROVE  CodesOf(rec[a]) \subseteq Codes
<1>1. rec[a] \in UNION {Values(b) : b \in Attrs}
  BY VDBAssumption
<1>2. PICK b \in Attrs : rec[a] \in Values(b)
  BY <1>1
<1>3. rec[a] = NoValue \/ rec[a] \in SUBSET Codes \/ \E c \in Codes : rec[a] = {c}
  BY <1>2 DEF Values
<1> QED BY <1>3 DEF CodesOf

(* The remainder of a number that is less than one modulus off. *)
LEMMA SmallMod ==
    ASSUME NEW m \in Nat, m > 0, NEW v \in Int
    PROVE  /\ (0 <= v /\ v < m) => v % m = v
           /\ (-m <= v /\ v < 0) => v % m = v + m
           /\ (m <= v /\ v < m + m) => v % m = v - m
<1>1. ASSUME 0 <= v, v < m PROVE v % m = v
  BY <1>1
<1>2. ASSUME -m <= v, v < 0 PROVE v % m = v + m
  BY <1>2
<1>3. ASSUME m <= v, v < m + m PROVE v % m = v - m
  BY <1>3
<1> QED BY <1>1, <1>2, <1>3

(* sortable_bits flips the sign bit: keys compare as the numbers do (metadata.h:300-309). *)
LEMMA KeysFollowNumbers ==
    ASSUME NEW v \in Codes
    PROVE  SortableBits(v) = v + SignBit /\ v \in Int /\ SignBit \in Int
<1>1. /\ SignBit \in Nat /\ SignBit > 0 /\ v \in Int /\ -SignBit <= v /\ v < SignBit
  BY SchemaAssumption
<1> DEFINE w == 2 * SignBit
           r == v % w
<1>2. w \in Nat /\ w > 0 /\ w = SignBit + SignBit
  BY <1>1
<1> HIDE DEF w
<1>3. SortableBits(v) = (r + SignBit) % w
  BY DEF SortableBits, w
<1>4. CASE 0 <= v
  <2>1. 0 <= v /\ v < w
    BY <1>1, <1>2, <1>4
  <2>2. r = v
    BY ONLY <1>1, <1>2, <2>1, SmallMod
  <2>3. v + SignBit \in Int /\ 0 <= v + SignBit /\ v + SignBit < w
    BY <1>1, <1>2, <1>4
  <2>4. (v + SignBit) % w = v + SignBit
    BY ONLY <1>2, <2>3, SmallMod
  <2> QED BY <1>1, <1>3, <2>2, <2>4
<1>5. CASE v < 0
  <2>1. -w <= v /\ v < 0
    BY <1>1, <1>2, <1>5
  <2>2. r = v + w
    BY ONLY <1>1, <1>2, <2>1, SmallMod
  <2> DEFINE s == v + w + SignBit
  <2>3. s \in Int /\ w <= s /\ s < w + w /\ s - w = v + SignBit
    BY <1>1, <1>2, <1>5
  <2> HIDE DEF s
  <2>4. s % w = s - w
    BY ONLY <1>2, <2>3, SmallMod
  <2> QED BY <1>1, <1>3, <2>2, <2>3, <2>4 DEF s
<1>6. 0 <= v \/ v < 0
  BY <1>1
<1> QED BY <1>1, <1>4, <1>5, <1>6

(* Matching is Having, of one code. *)
LEMMA MatchingOne ==
    ASSUME NEW a, NEW c
    PROVE  Matching(a, {c}) = Having(meta, Live, a, c)
  BY DEF Matching, Having, Has

(* A range of an indexed column finds the rows with a number in it. *)
LEMMA RangesAreExact ==
    ASSUME IdsInv, DerivedInv, NEW a \in Attrs, AttrType[a] = "Indexed", NEW lo \in Codes, NEW hi \in Codes
    PROVE  ResolveRange(meta, a, lo, hi) = Matching(a, {c \in Codes : lo <= c /\ c <= hi})
<1>1. \A i \in Live : CodesOf(meta.data[i][a]) \subseteq Codes
  BY Arrays, CodesOfARow DEF IdsInv
<1>2. meta.tree[a] = UNION {TreePairs(meta, i, a) : i \in Live}
  BY DEF DerivedInv, TreesAre
<1>3. \A i : TreePairs(meta, i, a) = {SortableBits(c) : c \in CodesOf(meta.data[i][a])} \X {i}
  BY DEF TreePairs
<1>4. \A c \in Codes : SortableBits(lo) <= SortableBits(c) /\ SortableBits(c) <= SortableBits(hi)
                          <=> lo <= c /\ c <= hi
  BY KeysFollowNumbers
<1>5. ASSUME NEW i \in ResolveRange(meta, a, lo, hi)
      PROVE  i \in Matching(a, {c \in Codes : lo <= c /\ c <= hi})
  <2>1. PICK q \in meta.tree[a] : SortableBits(lo) <= q[1] /\ q[1] <= SortableBits(hi) /\ i = q[2]
    BY DEF ResolveRange
  <2>2. PICK j \in Live : q \in {SortableBits(c) : c \in CodesOf(meta.data[j][a])} \X {j}
    BY <1>2, <1>3, <2>1
  <2>3. PICK c \in CodesOf(meta.data[j][a]) : q[1] = SortableBits(c)
    BY <2>2
  <2>4. i = j /\ c \in Codes /\ lo <= c /\ c <= hi
    BY <1>1, <1>4, <2>1, <2>2, <2>3
  <2> QED BY <2>3, <2>4 DEF Matching
<1>6. ASSUME NEW i \in Matching(a, {c \in Codes : lo <= c /\ c <= hi})
      PROVE  i \in ResolveRange(meta, a, lo, hi)
  <2>1. PICK c \in Codes : i \in Live /\ c \in CodesOf(meta.data[i][a]) /\ lo <= c /\ c <= hi
    BY DEF Matching
  <2> DEFINE q == <<SortableBits(c), i>>
  <2>2. q \in TreePairs(meta, i, a)
    BY <1>3, <2>1
  <2>3. q \in meta.tree[a]
    BY <1>2, <2>1, <2>2
  <2>4. SortableBits(lo) <= q[1] /\ q[1] <= SortableBits(hi) /\ q[2] = i
    BY <1>4, <2>1
  <2> QED BY <2>3, <2>4 DEF ResolveRange
<1> QED BY <1>5, <1>6

(* What the invariant says of the store is what queries rest on. *)
LEMMA QueriesAreRight ==
    ASSUME IdsInv, DerivedInv
    PROVE  DerivedStateIsExact
<1> SUFFICES ASSUME NEW a \in Attrs
    PROVE  /\ Posted(a) => \A c \in Codes :
                /\ meta.count[a][c] = Cardinality(Matching(a, {c}))
                /\ Matching(a, {c}) \subseteq DOMAIN ResolveEq(meta, deleted, a, c)
           /\ AttrType[a] = "Text" =>
                /\ meta.docs[a] = Cardinality({i \in Live : meta.data[i][a] # NoValue})
                /\ \A c \in Codes : Matching(a, {c}) \subseteq TextCandidates(meta, deleted, a, {c})
           /\ AttrType[a] = "Indexed" => \A lo, hi \in Codes :
                ResolveRange(meta, a, lo, hi) = Matching(a, {c \in Codes : lo <= c /\ c <= hi})
  BY DEF DerivedStateIsExact
<1>1. ASSUME Posted(a), NEW c \in Codes
      PROVE  /\ meta.count[a][c] = Cardinality(Matching(a, {c}))
             /\ Matching(a, {c}) \subseteq DOMAIN meta.postings[a][c]
  <2>1. meta.count[a][c] = Cardinality(Having(meta, Live, a, c))
    BY <1>1 DEF DerivedInv, CountsAre
  <2>2. Having(meta, Live \cup Pending, a, c) \subseteq DOMAIN meta.postings[a][c]
    BY <1>1 DEF DerivedInv, PostedAre
  <2>3. Having(meta, Live, a, c) \subseteq Having(meta, Live \cup Pending, a, c)
    BY DEF Having
  <2> QED BY <2>1, <2>2, <2>3, MatchingOne
<1>2. ASSUME Posted(a), NEW c \in Codes
      PROVE  Matching(a, {c}) \subseteq DOMAIN ResolveEq(meta, deleted, a, c)
  <2>1. DOMAIN ResolveEq(meta, deleted, a, c) = {j \in DOMAIN meta.postings[a][c] : ~deleted[j]}
    BY DEF ResolveEq
  <2>2. \A i \in Matching(a, {c}) : ~deleted[i]
    BY DEF Matching, Live
  <2> QED BY <1>1, <1>2, <2>1, <2>2
<1>3. ASSUME AttrType[a] = "Text"
      PROVE  meta.docs[a] = Cardinality({i \in Live : meta.data[i][a] # NoValue})
  BY <1>3 DEF DerivedInv, CountsAre, Texts
<1>4. ASSUME AttrType[a] = "Text", NEW c \in Codes
      PROVE  Matching(a, {c}) \subseteq TextCandidates(meta, deleted, a, {c})
  <2>1. Matching(a, {c}) \subseteq DOMAIN meta.postings[a][c]
    BY <1>1, <1>4 DEF Posted
  <2>2. \A i \in Matching(a, {c}) : ~deleted[i] /\ meta.data[i][a] # NoValue
    BY DEF Matching, Live, CodesOf
  <2> QED BY <2>1, <2>2 DEF TextCandidates
<1> QED BY <1>1, <1>2, <1>3, <1>4, RangesAreExact

(* THEOREM: the counts, range indexes and postings that queries rest on are exact, or overlook
   nothing, in every state: with writers between their phases, after rewrites, compactions and
   restarts (metadata.h:245, 257-262, 300-309).                                               *)
THEOREM QueriesRestOnTheTruth ==
    Spec => []DerivedStateIsExact
  BY DerivedAlways, QueriesAreRight, PTL

(* THEOREM: a compaction leaves no tombstone and no stale posting, and every row where its
   external id finds it (metadata.h:262-263, vdb.cpp:495-498).                             *)
THEOREM CompactionReclaims ==
    Spec => CompactReclaims
<1>1. ASSUME IdsInv, DerivedInv, Compact
      PROVE  Compacted' /\ Contents' = Contents
  <2>1. /\ DerivedInv' /\ Live' = Nodes'
        /\ \A a \in Attrs, c \in Codes : Posted(a) =>
              meta'.postings[a][c] = SetToBag(Having(meta', Live', a, c))
    BY <1>1, CompactDerived
  <2>2. ASSUME NEW a \in Attrs, NEW c \in Codes, Posted(a)
        PROVE  /\ meta'.postings[a][c] = SetToBag(Matching(a, {c})')
               /\ Cardinality(BagToSet(meta'.postings[a][c])) = meta'.count[a][c]
    <3>1. Matching(a, {c})' = Having(meta', Live', a, c)
      BY DEF Matching, Having, Has
    <3>2. meta'.count[a][c] = Cardinality(Having(meta', Live', a, c))
      BY <2>1, <2>2 DEF DerivedInv, CountsAre
    <3>3. BagToSet(SetToBag(Having(meta', Live', a, c))) = Having(meta', Live', a, c)
      BY DEF BagToSet, SetToBag
    <3> QED BY <2>1, <2>2, <3>1, <3>2, <3>3
  <2>3. Compacted'
    BY <2>1, <2>2 DEF Compacted
  <2> QED BY <1>1, <2>3, CompactIsSilent
<1> QED BY <1>1, DerivedAlways, PTL DEF CompactReclaims

(* THEOREM: the store's fields are of the types the code gives them: every internal id is in
   the arrays, every key of a range index that of a row, and no counter falls below zero.    *)
THEOREM TypesHold ==
    Spec => []TypeOK
<1>1. ASSUME IdsInv, DerivedInv
      PROVE  TypeOK
  <2>0. ArraysInv /\ CallsInv /\ IdsAreInverse /\ LinkedInv /\ CountersAreExact
    BY <1>1 DEF IdsInv
  <2>1. nextExt \in Nat /\ \A e \in DOMAIN extToInt : e \in Nat /\ e < nextExt /\ extToInt[e] \in Nodes
    BY <2>0, IdsFinite DEF ArraysInv
  <2>2. IsMap(extToInt) /\ DOMAIN extToInt \subseteq 0..(nextExt - 1)
    BY <2>0, <2>1 DEF ArraysInv
  <2>3. intToExt \in Seq(0..(nextExt - 1))
    <3>1. /\ Len(intToExt) \in Nat /\ intToExt \in [1..Len(intToExt) -> Nat]
          /\ \A i \in 1..Len(intToExt) : intToExt[i] < nextExt
      BY <2>0 DEF ArraysInv, Nodes
    <3>2. intToExt \in [1..Len(intToExt) -> 0..(nextExt - 1)]
      BY <2>1, <3>1
    <3> QED BY ONLY <3>1, <3>2, SeqOf
  <2>4. liveCount \in Nat /\ deletedCount \in Nat
    <3>1. IsFiniteSet(DOMAIN extToInt) /\ IsFiniteSet(Nodes \ Live)
      BY <2>0, IdsFinite, Arrays
    <3>2. Cardinality(DOMAIN extToInt) \in Nat /\ Cardinality(Nodes \ Live) \in Nat
      BY ONLY <3>1, FS_CardinalityType
    <3> QED BY <2>0, <3>2 DEF CountersAreExact
  <2>5. ASSUME NEW a \in Attrs
        PROVE  /\ meta.tree[a] \subseteq {SortableBits(c) : c \in Codes} \X Nodes
               /\ \A c \in Codes : IsABag(meta.postings[a][c])
    <3>1. \A c \in Codes : IsABag(meta.postings[a][c])
      BY <1>1 DEF DerivedInv, PostingTypes
    <3>2. \A i \in Live : i \in Nodes /\ CodesOf(meta.data[i][a]) \subseteq Codes
      BY <1>1, Arrays, CodesOfARow DEF IdsInv
    <3>3. meta.tree[a] = UNION {TreePairs(meta, i, a) : i \in Live}
      BY <1>1 DEF DerivedInv, TreesAre
    <3>4. \A i \in Live : TreePairs(meta, i, a) \subseteq {SortableBits(c) : c \in Codes} \X Nodes
      BY <3>2 DEF TreePairs
    <3> QED BY <3>1, <3>3, <3>4
  <2>6. meta.count \in [Attrs -> [Codes -> Nat]] /\ meta.docs \in [Attrs -> Nat]
    BY <1>1 DEF DerivedInv, CountTypes
  <2>7. /\ deleted \in Seq(BOOLEAN) /\ vectors \in Seq(Vecs) /\ meta.data \in Seq(Metas)
        /\ {Len(deleted), Len(vectors), Len(meta.data)} = {Len(intToExt)}
    BY <2>0 DEF ArraysInv
  <2>8. /\ pc \in [Threads -> {"idle", "reserved", "link", "publish"}]
        /\ \A t \in Threads : op[t].type \in {"None", "Insert", "Update"}
        /\ iid \in [Threads -> 0..MaxNodes] /\ oldIid \in [Threads -> 0..MaxNodes]
    BY <2>0 DEF CallsInv, Call
  <2>9. linked \subseteq Nodes
    BY <2>0 DEF LinkedInv
  <2> QED BY <2>1, <2>2, <2>3, <2>4, <2>5, <2>6, <2>7, <2>8, <2>9 DEF TypeOK
<1> QED BY <1>1, DerivedAlways, PTL

-----------------------------------------------------------------------------
(* The store implements RowStore. *)

USE DEF Rows!vars, Rows!FullRows

\* The ids of the inserts under way.
Reserved == {op[t].ext : t \in {u \in Threads : op[u].type = "Insert"}}

(* What RowStore calls a Put is a Put. *)
LEMMA RowsInsert ==
    \A d, e, row : Rows!ApplyTo(d, Rows!Record("Insert", e, row)) = Put(d, e, row)
  BY DEF Rows!ApplyTo, Rows!Put, Put, Rows!Record
(* An update of a row there is replaces it whole. *)
LEMMA RowsUpdate ==
    \A d, e, row : e \in DOMAIN d => Rows!ApplyTo(d, Rows!Record("Update", e, row)) = Put(d, e, row)
  BY DEF Rows!ApplyTo, Rows!Put, Put, Rows!Record
(* set_metadata replaces the metadata and keeps the vector. *)
LEMMA RowsSetMeta ==
    \A d, e, row : e \in DOMAIN d =>
       Rows!ApplyTo(d, Rows!Record("SetMeta", e, row)) = Put(d, e, [vec |-> d[e].vec, meta |-> row.meta])
  BY DEF Rows!ApplyTo, Rows!Put, Put, Rows!Record
(* A removal takes away the row and nothing else. *)
LEMMA RowsDelete ==
    \A d, e, row : Rows!ApplyTo(d, Rows!Record("Delete", e, row)) = [x \in DOMAIN d \ {e} |-> d[x]]
  BY DEF Rows!ApplyTo, Rows!Restrict, Rows!Record

(* Handing out an id is one step of the caller's view, of its own. *)
LEMMA ReserveIsReserve ==
    ASSUME IdsInv, NEW t \in Threads, ReserveId(t)
    PROVE  Rows!Reserve
<1>1. PICK row \in [vec : Vecs, meta : Metas] : op' = [op EXCEPT ![t] = Record("Insert", nextExt, row)]
  BY DEF ReserveId
<1>2. /\ pc[t] = "idle" /\ nextExt' = nextExt + 1
      /\ UNCHANGED <<extToInt, vectors, meta>>
  BY DEF ReserveId
<1>3. /\ op[t].type = "None" /\ op'[t].type = "Insert" /\ op'[t].ext = nextExt
      /\ \A u \in Threads : u # t => op'[u] = op[u]
  BY <1>1, <1>2 DEF IdsInv, CallsInv, Record
<1>4. Reserved' = Reserved \cup {nextExt}
  BY <1>3 DEF Reserved
<1>5. Contents' = Contents
  BY <1>2 DEF Contents
<1> QED BY <1>2, <1>4, <1>5 DEF Rows!Reserve, Reserved

(* The steps nobody outside the store sees. *)
LEMMA SilentSteps ==
    ASSUME IdsInv,
           \/ \E t \in Threads : AllocateInsert(t) \/ AllocateUpdate(t) \/ Link(t)
           \/ Compact \/ Reload
    PROVE  UNCHANGED Rows!vars
<1> SUFFICES Contents' = Contents /\ nextExt' = nextExt /\ Reserved' = Reserved
  BY DEF Reserved
<1>0. IsStore(meta)
  BY DEF IdsInv, ArraysInv
<1>1. ASSUME NEW t \in Threads, AllocateInsert(t)
      PROVE  Contents' = Contents /\ nextExt' = nextExt /\ Reserved' = Reserved
  <2>1. /\ pc[t] = "reserved" /\ Allocate(t, op[t].ext, op[t].row.vec)
        /\ meta' = AppendRow(meta, op[t].row.meta)
        /\ nextExt' = IF op[t].ext >= nextExt THEN op[t].ext + 1 ELSE nextExt
        /\ op' = op
    BY <1>1 DEF AllocateInsert
  <2>2. /\ op[t].ext \in Nat /\ nextExt \in Nat /\ op[t].ext < nextExt
        /\ op[t].row.vec \in Vecs /\ op[t].row.meta \in Metas
    BY <2>1 DEF IdsInv, CallsInv, Call, ArraysInv
  <2>3. AppendRow(meta, op[t].row.meta).data = Append(meta.data, op[t].row.meta)
    BY ONLY <1>0, AppendRowFields
  <2>4. Contents' = Contents
    BY <2>1, <2>2, <2>3, AllocateIsSilent
  <2> QED BY <2>1, <2>2, <2>4 DEF Reserved
<1>2. ASSUME NEW t \in Threads, AllocateUpdate(t)
      PROVE  Contents' = Contents /\ nextExt' = nextExt /\ Reserved' = Reserved
  <2>1. PICK e \in DOMAIN extToInt, vec \in Vecs, given \in Metas \cup {NoMeta} :
           /\ Allocate(t, e, vec)
           /\ meta' = IF given = NoMeta THEN AppendRowCopy(meta, extToInt[e]) ELSE AppendRow(meta, given)
           /\ op' = [op EXCEPT ![t] = Record("Update", e, [vec |-> vec, meta |-> given])]
    BY <1>2 DEF AllocateUpdate
  <2>2. pc[t] = "idle" /\ nextExt' = nextExt
    BY <1>2 DEF AllocateUpdate
  <2>3. e \in Nat /\ extToInt[e] \in Nodes /\ \A i \in Nodes : meta.data[i] \in Metas
    BY IdsFinite, Arrays DEF IdsInv
  <2> DEFINE rec == IF given = NoMeta THEN meta.data[extToInt[e]] ELSE given
  <2>4. meta' = AppendRow(meta, rec) /\ rec \in Metas
    BY <2>1, <2>3 DEF AppendRowCopy
  <2>5. /\ op[t].type = "None" /\ op'[t].type = "Update" /\ \A u \in Threads : u # t => op'[u] = op[u]
    BY <2>1, <2>2 DEF IdsInv, CallsInv, Record
  <2> HIDE DEF rec
  <2>6. AppendRow(meta, rec).data = Append(meta.data, rec)
    BY ONLY <1>0, AppendRowFields
  <2>7. Contents' = Contents
    BY <2>1, <2>3, <2>4, <2>6, AllocateIsSilent
  <2>8. Reserved' = Reserved
    BY <2>5 DEF Reserved
  <2> QED BY <2>2, <2>7, <2>8
<1>3. ASSUME NEW t \in Threads, Link(t)
      PROVE  Contents' = Contents /\ nextExt' = nextExt /\ Reserved' = Reserved
  BY <1>3 DEF Link, Contents, Reserved
<1>4. ASSUME Compact
      PROVE  Contents' = Contents /\ nextExt' = nextExt /\ Reserved' = Reserved
  <2>1. nextExt' = nextExt /\ op' = op
    BY <1>4 DEF Compact, Renumber
  <2> QED BY <1>4, <2>1, CompactIsSilent DEF Reserved
<1>5. ASSUME Reload
      PROVE  Contents' = Contents /\ nextExt' = nextExt /\ Reserved' = Reserved
  <2>1. nextExt' = nextExt /\ op' = op /\ vectors' = vectors /\ extToInt' = extToInt
    BY <1>5, ReloadIds DEF Reload
  <2>2. meta'.data = meta.data
    <3>1. meta' = Rebuild(Deserialized(Serialized(meta)), deleted)
      BY <1>5 DEF Reload
    <3> QED BY ONLY <1>0, <3>1, ReloadFields
  <2> QED BY <2>1, <2>2, SameContents DEF Reserved
<1> QED BY <1>1, <1>2, <1>3, <1>4, <1>5

(* A published insert is an Insert, and a published update an Update or UpdateVec. *)
LEMMA PublishIsMutation ==
    ASSUME IdsInv, NEW t \in Threads, PublishInsert(t) \/ PublishUpdate(t)
    PROVE  Rows!Next
<1> DEFINE e == op[t].ext
           row == CallersRow(t)
<1>1. /\ Contents' = Put(Contents, e, row) /\ op[t].row.vec \in Vecs
      /\ op[t].type = "Insert" => e \notin DOMAIN Contents /\ op[t].row.meta \in Metas
      /\ op[t].type = "Update" => e \in DOMAIN Contents
  BY PublishPuts
<1>2. /\ pc[t] = "publish" /\ nextExt' = nextExt /\ op' = [op EXCEPT ![t] = NoOp]
      /\ op[t].type \in {"Insert", "Update"} /\ op \in [Threads -> Call]
  BY DEF PublishInsert, PublishUpdate, IdsInv, CallsInv
<1>3. op'[t].type = "None" /\ \A u \in Threads : u # t => op'[u] = op[u]
  BY <1>2 DEF NoOp, Record
<1>4. \A u \in Threads : u # t /\ op[u].type = "Insert" => op[u].ext # e
  BY <1>2 DEF IdsInv, CallsInv
<1>5. CASE op[t].type = "Insert"
  <2>1. Reserved' = Reserved \ {e} /\ e \in Reserved
    BY <1>3, <1>4, <1>5 DEF Reserved
  <2>2. row = [vec |-> op[t].row.vec, meta |-> op[t].row.meta]
    BY <1>1, <1>5, RecordsAssumption DEF CallersRow
  <2>3. row \in [vec : Vecs, meta : Metas]
    BY <1>1, <1>5, <2>2
  <2>4. Contents' = Rows!ApplyTo(Contents, Rows!Record("Insert", e, row))
    <3> HIDE DEF e, row
    <3>1. Contents' = Put(Contents, e, row)
      BY <1>1
    <3> QED BY ONLY <3>1, RowsInsert
  <2> HIDE DEF e, row
  <2>5. Rows!Insert
    BY <1>2, <2>1, <2>3, <2>4 DEF Rows!Insert, Reserved
  <2> QED BY <2>5 DEF Rows!Next
<1>6. CASE op[t].type = "Update"
  <2>1. Reserved' = Reserved
    BY <1>3, <1>6 DEF Reserved
  <2>2. e \in DOMAIN Contents
    BY <1>1, <1>6
  <2>3. Contents' = Rows!ApplyTo(Contents, Rows!Record("Update", e, row))
    <3> HIDE DEF e, row
    <3>1. Contents' = Put(Contents, e, row)
      BY <1>1
    <3> QED BY ONLY <2>2, <3>1, RowsUpdate
  <2>4. CASE op[t].row.meta = NoMeta
    <3>1. row = [vec |-> op[t].row.vec, meta |-> Contents[e].meta]
      BY <2>4 DEF CallersRow
    <3>2. Contents[e] = [vec |-> Contents[e].vec, meta |-> Contents[e].meta]
      BY <2>2, RowsAre
    <3> HIDE DEF e, row
    <3>3. row = [Contents[e] EXCEPT !.vec = op[t].row.vec]
      BY <3>1, <3>2
    <3>4. Rows!UpdateVec
      BY <1>1, <2>2, <2>3, <3>3 DEF Rows!UpdateVec
    <3> QED BY <1>2, <2>1, <3>4 DEF Rows!Next, Rows!Mutate, Reserved
  <2>5. CASE op[t].row.meta # NoMeta
    <3>1. row = [vec |-> op[t].row.vec, meta |-> op[t].row.meta]
      BY <2>5 DEF CallersRow
    <3>2. op[t].row.meta \in Metas
      BY <1>2, <2>5 DEF Call
    <3>3. row \in [vec : Vecs, meta : Metas]
      BY <1>1, <3>1, <3>2
    <3> HIDE DEF e, row
    <3>4. Rows!Update
      BY <2>2, <2>3, <3>3 DEF Rows!Update
    <3> QED BY <1>2, <2>1, <3>4 DEF Rows!Next, Rows!Mutate, Reserved
  <2> QED BY <2>4, <2>5
<1> QED BY <1>2, <1>5, <1>6

(* A removal is a Delete. *)
LEMMA RemoveIsDelete ==
    ASSUME IdsInv, NEW e \in DOMAIN extToInt, Remove(e)
    PROVE  Rows!Next
<1>1. /\ meta' = MarkDead(meta, extToInt[e]) /\ extToInt' = Restrict(extToInt, DOMAIN extToInt \ {e})
      /\ vectors' = vectors /\ nextExt' = nextExt /\ op' = op
  BY DEF Remove
<1>2. meta'.data = meta.data
  <2>1. IsStore(meta)
    BY DEF IdsInv, ArraysInv
  <2>2. MarkDead(meta, extToInt[e]).data = meta.data
    BY ONLY <2>1, MarkDeadFields
  <2> QED BY <1>1, <2>2
<1>3. extToInt' = [x \in DOMAIN extToInt \ {e} |-> extToInt[x]]
  BY <1>1 DEF Restrict
<1>4. Contents' = [x \in DOMAIN Contents \ {e} |-> Contents[x]] /\ e \in DOMAIN Contents
  BY <1>1, <1>2, <1>3 DEF Contents
<1>5. Rows!NoRow = NoRow
  BY DEF Rows!NoRow, NoRow
<1>6. Rows!Delete
  BY <1>4, RowsDelete DEF Rows!Delete
<1>7. Reserved' = Reserved
  BY <1>1 DEF Reserved
<1> QED BY <1>1, <1>6, <1>7 DEF Rows!Next, Rows!Mutate, Reserved

(* A rewrite of a row's metadata is a SetMeta. *)
LEMMA SetMetadataIsSetMeta ==
    ASSUME IdsInv, NEW e \in DOMAIN extToInt, SetMetadata(e)
    PROVE  Rows!Next
<1> DEFINE i == extToInt[e]
<1>1. PICK rec \in Metas : meta' = SetRow(meta, i, rec)
  BY DEF SetMetadata
<1>2. UNCHANGED <<extToInt, vectors, nextExt, op>>
  BY DEF SetMetadata
<1> HIDE DEF i
<1>3. meta'.data = [meta.data EXCEPT ![i] = rec]
  <2>1. IsStore(meta)
    BY DEF IdsInv, ArraysInv
  <2>2. SetRow(meta, i, rec).data = [meta.data EXCEPT ![i] = rec]
    BY ONLY <2>1, SetRowData
  <2> QED BY <1>1, <2>2
<1>4. /\ i \in DOMAIN meta.data /\ i = extToInt[e]
      /\ \A x \in DOMAIN extToInt : x # e => extToInt[x] # i
  BY Arrays DEF i, IdsInv, IdsAreInverse
<1>5. meta'.data[i] = rec /\ \A x \in DOMAIN extToInt : x # e => meta'.data[extToInt[x]] = meta.data[extToInt[x]]
  BY <1>3, <1>4
<1>6. e \in DOMAIN Contents /\ Contents[e].vec = vectors[i]
  BY <1>4 DEF Contents
<1>7. Contents' = Put(Contents, e, [vec |-> Contents[e].vec, meta |-> rec])
  <2> DEFINE row == [vec |-> Contents[e].vec, meta |-> rec]
  <2>1. row = [vec |-> vectors'[extToInt'[e]], meta |-> meta'.data[extToInt'[e]]]
    BY <1>2, <1>4, <1>5, <1>6
  <2>2. /\ DOMAIN extToInt' = DOMAIN extToInt \cup {e}
        /\ \A x \in DOMAIN extToInt : x # e => /\ vectors'[extToInt'[x]] = vectors[extToInt[x]]
                                               /\ meta'.data[extToInt'[x]] = meta.data[extToInt[x]]
    BY <1>2, <1>5
  <2> HIDE DEF row
  <2>3. Contents' = Put(Contents, e, row)
    BY ONLY <2>1, <2>2, PutContents
  <2> QED BY <2>3 DEF row
<1>8. Contents' = Rows!ApplyTo(Contents, Rows!Record("SetMeta", e, [vec |-> NoVec, meta |-> rec]))
  <2> DEFINE given == [vec |-> NoVec, meta |-> rec]
  <2>1. given.meta = rec
    OBVIOUS
  <2> HIDE DEF given
  <2>2. Rows!ApplyTo(Contents, Rows!Record("SetMeta", e, given)) = Put(Contents, e, [vec |-> Contents[e].vec, meta |-> given.meta])
    BY ONLY <1>6, RowsSetMeta
  <2> QED BY <1>7, <2>1, <2>2 DEF given
<1>9. Rows!SetMeta
  BY <1>6, <1>8 DEF Rows!SetMeta
<1>10. Reserved' = Reserved
  BY <1>2 DEF Reserved
<1> QED BY <1>2, <1>9, <1>10 DEF Rows!Next, Rows!Mutate, Reserved

(* THEOREM: to its callers the store is a map from external ids to rows whose mutations take
   effect at once (vdb.h:39-43).                                                             *)
THEOREM TheStoreIsARowStore ==
    Spec => ImplementsRowStore
<1>1. Init => Rows!Init
  <2> SUFFICES ASSUME Init PROVE Rows!Init
    OBVIOUS
  <2>1. DOMAIN extToInt = {}
    BY DEF Init
  <2>2. Contents = Rows!EmptyDb
    BY <2>1 DEF Contents, Rows!EmptyDb
  <2>3. Reserved = {}
    BY DEF Init, Reserved, NoOp, Record
  <2> QED BY <2>2, <2>3 DEF Rows!Init, Init, Reserved
<1>2. ASSUME IdsInv, [Next]_vars
      PROVE  [Rows!Next]_(Rows!vars)
  <2>1. ASSUME NEW t \in Threads, Insert(t) \/ Update(t) \/ Link(t)
        PROVE  [Rows!Next]_(Rows!vars)
    <3>1. CASE ReserveId(t)
      BY <1>2, <3>1, ReserveIsReserve DEF Rows!Next
    <3>2. CASE AllocateInsert(t) \/ AllocateUpdate(t) \/ Link(t)
      BY <1>2, <3>2, SilentSteps
    <3>3. CASE PublishInsert(t) \/ PublishUpdate(t)
      BY <1>2, <3>3, PublishIsMutation
    <3> QED BY <2>1, <3>1, <3>2, <3>3 DEF Insert, Update
  <2>2. ASSUME NEW e \in DOMAIN extToInt, Remove(e) \/ SetMetadata(e)
        PROVE  [Rows!Next]_(Rows!vars)
    BY <1>2, <2>2, RemoveIsDelete, SetMetadataIsSetMeta
  <2>3. CASE Compact \/ Reload
    BY <1>2, <2>3, SilentSteps
  <2>4. CASE UNCHANGED vars
    BY <2>4 DEF vars, Contents
  <2> QED BY <1>2, <2>1, <2>2, <2>3, <2>4 DEF Next
<1> QED BY <1>1, <1>2, IdsInvAlways, PTL DEF Spec, ImplementsRowStore, Rows!Spec


-----------------------------------------------------------------------------
(* The searches: what is picked of a ranking, and how much of it must be looked at. *)

\* The members of S among the first nodes of s, one node after the other.
IsPick(f, s, S, N) ==
    f = [n \in 0..N |-> IF n = 0 THEN <<>>
                        ELSE IF s[n] \in S THEN Append(f[n - 1], s[n]) ELSE f[n - 1]]

(* Only walks the sequence once. *)
LEMMA PickExists ==
    ASSUME NEW s, NEW S, NEW N \in Nat
    PROVE  \E f : IsPick(f, s, S, N)
<1> DEFINE T == {n \in 0..N : \E f : IsPick(f, s, S, n)}
<1>1. 0 \in T
  <2>1. IsPick([i \in 0..0 |-> <<>>], s, S, 0)
    BY DEF IsPick
  <2> QED BY <2>1
<1>2. ASSUME NEW n \in 0..(N - 1), n \in T PROVE n + 1 \in T
  <2>1. PICK f : IsPick(f, s, S, n)
    BY <1>2
  <2> DEFINE x == IF s[n + 1] \in S THEN Append(f[n], s[n + 1]) ELSE f[n]
             g == [i \in 0..(n + 1) |-> IF i = n + 1 THEN x ELSE f[i]]
  <2>2. \A i \in 0..n : f[i] = IF i = 0 THEN <<>> ELSE
                                IF s[i] \in S THEN Append(f[i - 1], s[i]) ELSE f[i - 1]
    BY <2>1 DEF IsPick
  <2>3. \A i \in 0..n : g[i] = f[i]
    OBVIOUS
  <2>4. g[n + 1] = x /\ g[n] = f[n]
    OBVIOUS
  <2>5. \A i \in 0..(n + 1) : g[i] = IF i = 0 THEN <<>> ELSE
                                IF s[i] \in S THEN Append(g[i - 1], s[i]) ELSE g[i - 1]
    <3> SUFFICES ASSUME NEW i \in 0..(n + 1)
        PROVE g[i] = IF i = 0 THEN <<>> ELSE IF s[i] \in S THEN Append(g[i - 1], s[i]) ELSE g[i - 1]
      OBVIOUS
    <3> HIDE DEF g
    <3>1. CASE i = n + 1
      BY <3>1, <2>4
    <3>2. CASE i \in 1..n
      <4>1. i - 1 \in 0..n /\ i \in 0..n /\ i # 0
        BY <3>2
      <4> QED BY <4>1, <2>2, <2>3
    <3>3. CASE i = 0
      BY <3>3, <2>2, <2>3
    <3> QED BY <3>1, <3>2, <3>3
  <2>6. g = [i \in 0..(n + 1) |-> g[i]]
    OBVIOUS
  <2> HIDE DEF g
  <2>7. IsPick(g, s, S, n + 1)
    BY <2>5, <2>6 DEF IsPick
  <2> QED BY <2>7
<1> HIDE DEF T
<1>3. N \in T
  BY <1>1, <1>2, Induction
<1> QED BY <1>3 DEF T

\* f[n] is what Only picks of the first n elements of s.
Picks(f, s, S, N) ==
    /\ f \in [0..N -> Seq(Nat)] /\ f[0] = <<>>
    /\ \A i \in 1..N : f[i] = IF s[i] \in S THEN Append(f[i - 1], s[i]) ELSE f[i - 1]

(* What Only picks of the first nodes of a ranking, for all prefixes at once. *)
LEMMA OnlyIs ==
    ASSUME NEW N \in Nat, NEW s \in [1..N -> Nat], NEW S
    PROVE  \E f : Picks(f, s, S, N) /\ \A n \in 0..N : Only(SubSeq(s, 1, n), S) = f[n]
<1>1. PICK f : IsPick(f, s, S, N)
  BY PickExists
<1>2. \A i \in 0..N : f[i] = IF i = 0 THEN <<>> ELSE IF s[i] \in S THEN Append(f[i - 1], s[i]) ELSE f[i - 1]
  BY <1>1 DEF IsPick
<1>3. f = [i \in 0..N |-> f[i]]
  BY <1>1 DEF IsPick
<1> DEFINE T == {i \in 0..N : f[i] \in Seq(Nat)}
<1>4. f[0] = <<>>
  BY <1>2
<1>5. 0 \in T
  <2>1. 0 \in 0..N /\ <<>> \in Seq(Nat)
    OBVIOUS
  <2> QED BY <1>4, <2>1
<1>6. ASSUME NEW i \in 0..(N - 1), i \in T PROVE i + 1 \in T
  <2>1. f[i + 1] = IF s[i + 1] \in S THEN Append(f[i], s[i + 1]) ELSE f[i]
    BY <1>2
  <2>2. s[i + 1] \in Nat /\ f[i] \in Seq(Nat)
    BY <1>6
  <2>3. Append(f[i], s[i + 1]) \in Seq(Nat)
    BY <2>2
  <2>4. f[i + 1] \in Seq(Nat)
    BY <2>1, <2>2, <2>3
  <2> QED BY <2>4
<1>7. 0..N \subseteq T
  <2> HIDE DEF T
  <2> QED BY <1>5, <1>6, Induction
<1>8. f \in [0..N -> Seq(Nat)]
  BY <1>3, <1>7
<1> HIDE DEF T
<1>9. ASSUME NEW w \in 0..N PROVE Only(SubSeq(s, 1, w), S) = f[w]
  <2> DEFINE r == SubSeq(s, 1, w)
             g == CHOOSE h : IsPick(h, r, S, w)
  <2>1. Len(r) = w /\ \A i \in 1..w : r[i] = s[i]
    <3>1. s \in Seq(Nat) /\ Len(s) = N
      OBVIOUS
    <3> QED BY <3>1
  <2> HIDE DEF r
  <2>2. w \in Nat
    OBVIOUS
  <2>3. IsPick(g, r, S, w)
    <3>1. \E h : IsPick(h, r, S, w)
      BY <2>2, PickExists
    <3> QED BY <3>1
  <2>4. Only(r, S) = g[w]
    BY <2>1 DEF Only, IsPick
  <2> HIDE DEF g
  <2>5. \A i \in 0..w : g[i] = IF i = 0 THEN <<>> ELSE IF r[i] \in S THEN Append(g[i - 1], r[i]) ELSE g[i - 1]
    BY <2>3 DEF IsPick
  <2> DEFINE U == {i \in 0..w : g[i] = f[i]}
  <2>6. 0 \in U
    BY <1>2, <2>5
  <2>7. ASSUME NEW i \in 0..(w - 1), i \in U PROVE i + 1 \in U
    <3>1. g[i + 1] = IF r[i + 1] \in S THEN Append(g[i], r[i + 1]) ELSE g[i]
      BY <2>5
    <3>2. f[i + 1] = IF s[i + 1] \in S THEN Append(f[i], s[i + 1]) ELSE f[i]
      BY <1>2
    <3>3. r[i + 1] = s[i + 1] /\ g[i] = f[i]
      BY <2>1, <2>7
    <3> QED BY <3>1, <3>2, <3>3
  <2> HIDE DEF U
  <2>8. w \in U
    <3>1. 0..w \subseteq U
      BY <2>2, <2>6, <2>7, Induction
    <3> QED BY <2>2, <3>1
  <2> QED BY <2>4, <2>8 DEF r, U
<1>10. \A i \in 1..N : f[i] = IF s[i] \in S THEN Append(f[i - 1], s[i]) ELSE f[i - 1]
  <2> SUFFICES ASSUME NEW i \in 1..N
      PROVE f[i] = IF s[i] \in S THEN Append(f[i - 1], s[i]) ELSE f[i - 1]
    OBVIOUS
  <2>1. i \in 0..N /\ i # 0
    OBVIOUS
  <2> QED BY <1>2, <2>1
<1> HIDE DEF IsPick
<1>11. Picks(f, s, S, N)
  BY <1>4, <1>8, <1>10 DEF Picks
<1> QED BY <1>9, <1>11

(* One more. *)
LEMMA Interval ==
    ASSUME NEW i \in Nat
    PROVE  1..(i + 1) = (1..i) \cup {i + 1}
  OBVIOUS

(* Whatever a ranking without repetitions visits is picked or is one of those to leave out. *)
LEMMA PickLengths ==
    ASSUME NEW N \in Nat, NEW s \in [1..N -> 1..N], \A i, j \in 1..N : s[i] = s[j] => i = j,
           NEW S, NEW f, Picks(f, s, S, N)
    PROVE  \A w \in 0..N : Len(f[w]) + Cardinality((1..N) \ S) >= w
<1> DEFINE out == [k \in 0..N |-> {s[j] : j \in 1..k} \ S]
           T == {i \in 0..N : Len(f[i]) + Cardinality(out[i]) = i}
<1>1. /\ \A i \in 0..N : f[i] \in Seq(Nat) /\ Len(f[i]) \in Nat
      /\ IsFiniteSet((1..N) \ S) /\ IsFiniteSet(1..N)
  <2>1. IsFiniteSet(1..N)
    BY FS_Interval
  <2>2. IsFiniteSet((1..N) \ S)
    BY <2>1, FS_Difference
  <2> QED BY <2>1, <2>2 DEF Picks
<1>2. 0 \in T
  <2>1. out[0] = {}
    OBVIOUS
  <2>2. Len(f[0]) = 0
    BY DEF Picks
  <2>3. Cardinality(out[0]) = 0
    BY <2>1, FS_EmptySet
  <2> QED BY <2>2, <2>3
<1>3. ASSUME NEW i \in 0..N PROVE IsFiniteSet(out[i]) /\ out[i] \subseteq (1..N) \ S /\ Cardinality(out[i]) \in Nat
  <2>1. out[i] \subseteq (1..N) \ S
    OBVIOUS
  <2> QED BY <1>1, <2>1, FS_Subset, FS_CardinalityType
<1>4. ASSUME NEW i \in 0..(N - 1), i \in T PROVE i + 1 \in T
  <2>1. i \in Nat /\ i \in 0..N /\ i + 1 \in 1..N /\ i + 1 \in 0..N
    OBVIOUS
  <2>2. (i + 1) - 1 = i
    OBVIOUS
  <2>3. f[i + 1] = IF s[i + 1] \in S THEN Append(f[i], s[i + 1]) ELSE f[i]
    BY <2>1, <2>2 DEF Picks
  <2>4. out[i + 1] = IF s[i + 1] \in S THEN out[i] ELSE out[i] \cup {s[i + 1]}
    <3>1. 1..(i + 1) = (1..i) \cup {i + 1}
      BY <2>1, Interval
    <3>2. {s[j] : j \in 1..(i + 1)} = {s[j] : j \in 1..i} \cup {s[i + 1]}
      BY <3>1
    <3> QED BY <2>1, <3>2
  <2>5. s[i + 1] \notin out[i]
    OBVIOUS
  <2>6. Len(f[i]) + Cardinality(out[i]) = i /\ Len(f[i]) \in Nat /\ Cardinality(out[i]) \in Nat /\ IsFiniteSet(out[i])
    BY <1>1, <1>3, <1>4, <2>1
  <2> HIDE DEF out
  <2>7. PICK a \in Nat : a = Len(f[i])
    BY <2>6
  <2>8. PICK c \in Nat : c = Cardinality(out[i])
    BY <2>6
  <2>9. a + c = i
    BY <2>6, <2>7, <2>8
  <2>10. CASE s[i + 1] \in S
    <3>1. Len(f[i + 1]) = a + 1
      BY <1>1, <2>1, <2>3, <2>7, <2>10
    <3>2. Cardinality(out[i + 1]) = c
      BY <2>4, <2>8, <2>10
    <3>3. (a + 1) + c = i + 1
      BY <2>1, <2>9
    <3> QED BY <2>1, <3>1, <3>2, <3>3
  <2>11. CASE s[i + 1] \notin S
    <3>1. Cardinality(out[i + 1]) = Cardinality(out[i]) + 1
      BY <2>4, <2>5, <2>6, <2>11, FS_AddElement
    <3>2. Len(f[i + 1]) = a
      BY <2>3, <2>7, <2>11
    <3>3. Cardinality(out[i + 1]) = c + 1
      BY <2>8, <3>1
    <3>4. a + (c + 1) = i + 1
      BY <2>1, <2>9
    <3> QED BY <2>1, <3>2, <3>3, <3>4
  <2> QED BY <2>10, <2>11
<1> HIDE DEF T
<1>5. 0..N \subseteq T
  BY <1>2, <1>4, Induction
<1>6. ASSUME NEW w \in 0..N PROVE Len(f[w]) + Cardinality((1..N) \ S) >= w
  <2>1. Len(f[w]) + Cardinality(out[w]) = w
    BY <1>5 DEF T
  <2> HIDE DEF out
  <2>2. Cardinality(out[w]) <= Cardinality((1..N) \ S) /\ Cardinality((1..N) \ S) \in Nat
    BY <1>1, <1>3, FS_Subset, FS_CardinalityType
  <2> QED BY <1>1, <1>3, <2>1, <2>2
<1> QED BY <1>6

IsPrefixOf(p, q) == Len(p) <= Len(q) /\ \A n \in 1..Len(p) : q[n] = p[n]

(* More is only ever picked behind what has been. *)
LEMMA PickPrefix ==
    ASSUME NEW N \in Nat, NEW s \in [1..N -> Nat], NEW S, NEW f, Picks(f, s, S, N), NEW w \in 0..N
    PROVE  IsPrefixOf(f[w], f[N])
<1> DEFINE Starts(i) == Len(f[w]) <= Len(f[i]) /\ \A n \in 1..Len(f[w]) : f[i][n] = f[w][n]
           T == {d \in 0..(N - w) : Starts(w + d)}
<1>1. \A i \in 0..N : f[i] \in Seq(Nat) /\ Len(f[i]) \in Nat
  BY DEF Picks
<1>2. 0 \in T
  BY <1>1
<1>3. ASSUME NEW d \in 0..(N - w - 1), d \in T PROVE d + 1 \in T
  <2> DEFINE i == w + d
  <2>1. i \in 0..N /\ i + 1 \in 1..N /\ i + 1 = w + (d + 1) /\ d + 1 \in 0..(N - w)
    OBVIOUS
  <2>2. f[i + 1] = IF s[i + 1] \in S THEN Append(f[i], s[i + 1]) ELSE f[i]
    BY <2>1 DEF Picks
  <2>3. Starts(i)
    BY <1>3
  <2>4. f[i] \in Seq(Nat) /\ Len(f[i]) \in Nat /\ Len(f[w]) \in Nat /\ s[i + 1] \in Nat
    BY <1>1, <2>1
  <2> HIDE DEF i
  <2>5. Starts(i + 1)
    <3>1. CASE s[i + 1] \in S
      <4>1. f[i + 1] = Append(f[i], s[i + 1])
        BY <2>2, <3>1
      <4>2. Len(f[i + 1]) = Len(f[i]) + 1 /\ \A n \in 1..Len(f[i]) : f[i + 1][n] = f[i][n]
        BY <2>4, <4>1
      <4> QED BY <2>3, <2>4, <4>2
    <3>2. CASE s[i + 1] \notin S
      BY <2>2, <2>3, <3>2
    <3> QED BY <3>1, <3>2
  <2> QED BY <2>1, <2>5
<1> HIDE DEF T
<1>4. N - w \in Nat /\ N - w \in 0..(N - w)
  OBVIOUS
<1>5. 0..(N - w) \subseteq T
  BY <1>2, <1>3, <1>4, Induction
<1>6. Starts(w + (N - w))
  BY <1>4, <1>5 DEF T
<1>7. w + (N - w) = N
  OBVIOUS
<1> QED BY <1>6, <1>7 DEF IsPrefixOf

(* Of a ranking without repetitions, it is enough to look at K more than there are to leave out. *)
LEMMA EnoughFound ==
    ASSUME NEW N \in Nat, NEW s \in [1..N -> 1..N], \A i, j \in 1..N : s[i] = s[j] => i = j,
           NEW S, NEW K \in Nat, NEW w \in 0..N, w = N \/ w >= K + Cardinality((1..N) \ S)
    PROVE  FirstK(Only(FirstK(s, w), S), K) = FirstK(Only(s, S), K)
<1>1. s \in [1..N -> Nat] /\ s \in Seq(Nat) /\ Len(s) = N
  OBVIOUS
<1>2. FirstK(s, w) = SubSeq(s, 1, w) /\ s = SubSeq(s, 1, N)
  BY <1>1 DEF FirstK, AtMost
<1>3. PICK f : Picks(f, s, S, N) /\ \A n \in 0..N : Only(SubSeq(s, 1, n), S) = f[n]
  BY <1>1, OnlyIs
<1>4. Picks(f, s, S, N) /\ f \in [0..N -> Seq(Nat)]
  BY <1>3 DEF Picks
<1>5. Only(FirstK(s, w), S) = f[w] /\ Only(s, S) = f[N]
  <2>1. N \in 0..N
    OBVIOUS
  <2> QED BY <1>2, <1>3, <2>1
<1>6. CASE w = N
  BY <1>5, <1>6
<1>7. CASE w >= K + Cardinality((1..N) \ S)
  <2>1. Len(f[w]) + Cardinality((1..N) \ S) >= w
    BY <1>3, PickLengths
  <2>2. IsPrefixOf(f[w], f[N])
    <3>1. s \in [1..N -> Nat] /\ Picks(f, s, S, N)
      BY <1>1, <1>3
    <3> QED BY <3>1, PickPrefix
  <2>3. Cardinality((1..N) \ S) \in Nat
    <3>1. IsFiniteSet(1..N)
      BY FS_Interval
    <3> QED BY <3>1, FS_Difference, FS_CardinalityType
  <2>4. f[w] \in Seq(Nat) /\ f[N] \in Seq(Nat)
    BY <1>4
  <2>5. K <= Len(f[w]) /\ K <= Len(f[N]) /\ \A n \in 1..K : f[N][n] = f[w][n]
    BY <1>7, <2>1, <2>2, <2>3, <2>4 DEF IsPrefixOf
  <2>6. FirstK(f[w], K) = SubSeq(f[w], 1, K) /\ FirstK(f[N], K) = SubSeq(f[N], 1, K)
    BY <2>4, <2>5 DEF FirstK, AtMost
  <2>7. SubSeq(f[w], 1, K) = [n \in 1..K |-> f[w][n]] /\ SubSeq(f[N], 1, K) = [n \in 1..K |-> f[N][n]]
    BY <2>4, <2>5
  <2> QED BY <1>5, <2>5, <2>6, <2>7
<1> QED BY <1>6, <1>7

\* q is made of sequences of one element, or none.
Singles(q, s, S, N) == Len(q) = N /\ \A i \in 1..N : q[i] = IF s[i] \in S THEN <<s[i]>> ELSE <<>>

(* Sequences of one element, or none, appended to each other are what Only picks. *)
LEMMA FlattensToOnly ==
    ASSUME NEW N \in Nat, N # 0, NEW s \in [1..N -> Nat], NEW S, NEW q, Singles(q, s, S, N)
    PROVE  SX!FlattenSeq(q) = Only(s, S)
<1> DEFINE IsFlat(F) == F = [i \in 1..N |-> IF i = 1 THEN q[i] ELSE F[i - 1] \o q[i]]
<1>1. Len(q) = N /\ \A i \in 1..N : q[i] = IF s[i] \in S THEN <<s[i]>> ELSE <<>>
  BY DEF Singles
<1>2. PICK f : Picks(f, s, S, N) /\ \A n \in 0..N : Only(SubSeq(s, 1, n), S) = f[n]
  <2>1. N \in Nat /\ s \in [1..N -> Nat]
    OBVIOUS
  <2> QED BY ONLY <2>1, OnlyIs
<1>3. \A i \in 1..N : f[i] = IF s[i] \in S THEN Append(f[i - 1], s[i]) ELSE f[i - 1]
  BY <1>2 DEF Picks
<1>4. f \in [0..N -> Seq(Nat)]
  BY <1>2 DEF Picks
<1>5. Only(s, S) = f[N]
  <2>1. s = SubSeq(s, 1, N) /\ N \in 0..N
    OBVIOUS
  <2> QED BY <1>2, <2>1
<1>6. \A i \in 1..N : f[i - 1] \in Seq(Nat) /\ f[i] = f[i - 1] \o q[i]
  <2> SUFFICES ASSUME NEW i \in 1..N PROVE f[i - 1] \in Seq(Nat) /\ f[i] = f[i - 1] \o q[i]
    OBVIOUS
  <2>1. f[i - 1] \in Seq(Nat) /\ s[i] \in Nat
    BY <1>4
  <2>2. f[i] = IF s[i] \in S THEN Append(f[i - 1], s[i]) ELSE f[i - 1]
    BY <1>3
  <2>3. CASE s[i] \in S
    <3>1. q[i] = <<s[i]>> /\ f[i] = Append(f[i - 1], s[i])
      BY <1>1, <2>2, <2>3
    <3>2. f[i - 1] \o <<s[i]>> = Append(f[i - 1], s[i])
      BY <2>1
    <3> QED BY <2>1, <3>1, <3>2
  <2>4. CASE s[i] \notin S
    <3>1. q[i] = <<>> /\ f[i] = f[i - 1]
      BY <1>1, <2>2, <2>4
    <3> QED BY <2>1, <3>1
  <2> QED BY <2>3, <2>4
<1>7. f[1] = q[1]
  <2>1. f[0] = <<>> /\ 1 \in 1..N
    BY <1>2 DEF Picks
  <2>2. f[1] = f[1 - 1] \o q[1]
    BY <1>6, <2>1
  <2>3. q[1] \in Seq(Nat) /\ 1 - 1 = 0
    <3>1. s[1] \in Nat /\ <<>> \in Seq(Nat) /\ <<s[1]>> \in Seq(Nat)
      BY <2>1
    <3>2. CASE s[1] \in S
      <4>1. q[1] = <<s[1]>>
        BY <1>1, <2>1, <3>2
      <4> QED BY <3>1, <4>1
    <3>3. CASE s[1] \notin S
      <4>1. q[1] = <<>>
        BY <1>1, <2>1, <3>3
      <4> QED BY <3>1, <4>1
    <3> QED BY <3>2, <3>3
  <2>4. f[1] = <<>> \o q[1]
    BY <2>1, <2>2, <2>3
  <2> QED BY <2>3, <2>4
<1> DEFINE g == [i \in 1..N |-> f[i]]
<1>8. IsFlat(g)
  <2>1. g = [i \in 1..N |-> g[i]] /\ \A i \in 1..N : g[i] = f[i]
    OBVIOUS
  <2>2. \A i \in 1..N : g[i] = IF i = 1 THEN q[i] ELSE g[i - 1] \o q[i]
    <3> SUFFICES ASSUME NEW i \in 1..N, i # 1 PROVE g[i] = g[i - 1] \o q[i]
      BY <1>7
    <3>1. i - 1 \in 1..N
      OBVIOUS
    <3>2. f[i] = f[i - 1] \o q[i]
      BY <1>6
    <3> QED BY <3>1, <3>2
  <2> HIDE DEF g
  <2> QED BY <2>1, <2>2
<1> HIDE DEF g
<1> DEFINE F == CHOOSE F : IsFlat(F)
<1>9. IsFlat(F)
  BY <1>8
<1>10. SX!FlattenSeq(q) = F[N]
  BY <1>1 DEF SX!FlattenSeq
<1> HIDE DEF F
<1>11. \A i \in 1..N : F[i] = IF i = 1 THEN q[i] ELSE F[i - 1] \o q[i]
  BY <1>9
<1> DEFINE T == {i \in 0..N : i # 0 => F[i] = f[i]}
<1>12. 0 \in T
  OBVIOUS
<1>13. ASSUME NEW i \in 0..(N - 1), i \in T PROVE i + 1 \in T
  <2>1. i + 1 \in 1..N /\ (i + 1) - 1 = i /\ i + 1 \in 0..N
    OBVIOUS
  <2>2. CASE i = 0
    BY <1>7, <1>11, <2>1, <2>2
  <2>3. CASE i # 0
    <3>1. F[i + 1] = F[i] \o q[i + 1] /\ f[i + 1] = f[i] \o q[i + 1]
      <4>1. F[i + 1] = F[(i + 1) - 1] \o q[i + 1]
        <5>1. i + 1 # 1
          BY <2>3
        <5> QED BY <1>11, <2>1, <5>1
      <4>2. f[i + 1] = f[(i + 1) - 1] \o q[i + 1]
        BY <1>6, <2>1
      <4> QED BY <2>1, <4>1, <4>2
    <3> QED BY <1>13, <2>1, <2>3, <3>1
  <2> QED BY <2>2, <2>3
<1> HIDE DEF T
<1>14. N \in T
  <2>1. 0..N \subseteq T
    BY <1>12, <1>13, Induction
  <2> QED BY <2>1
<1> QED BY <1>5, <1>10, <1>14 DEF T

\* F adds up the allowlist B, any part of it.
IsSum(F, B) ==
    F = [A \in SUBSET DOMAIN B |->
           IF A = {} THEN 0 ELSE LET elt == CHOOSE e \in A : TRUE IN B[elt] + F[A \ {elt}]]

(* An allowlist without repetitions is as long as its set. *)
LEMMA EntriesOfASet ==
    ASSUME NEW S, IsFiniteSet(S)
    PROVE  Entries(SetToBag(S)) = Cardinality(S)
<1> DEFINE B == SetToBag(S)
           C == [A \in SUBSET S |-> Cardinality(A)]
           F == CHOOSE F : IsSum(F, B)
           some(A) == CHOOSE e \in A : TRUE
<1>1. B = [e \in S |-> 1]
  BY DEF SetToBag
<1>2. DOMAIN B = S /\ \A e \in S : B[e] = 1
  BY <1>1
<1>3. Entries(B) = F[S]
  BY <1>2 DEF Entries, MapThenSumSet, MapThenFoldSet, IsSum
<1> HIDE DEF B
<1>4. ASSUME NEW A \in SUBSET S, A # {}
      PROVE  /\ some(A) \in A /\ A \ {some(A)} \in SUBSET S /\ Cardinality(A) \in Nat \ {0}
             /\ Cardinality(A) = 1 + Cardinality(A \ {some(A)})
  <2>1. some(A) \in A
    BY <1>4
  <2>2. IsFiniteSet(A)
    BY FS_Subset
  <2> HIDE DEF some
  <2>3. Cardinality(A \ {some(A)}) = Cardinality(A) - 1 /\ Cardinality(A) \in Nat /\ Cardinality(A) # 0
    BY <1>4, <2>1, <2>2, FS_RemoveElement, FS_CardinalityType, FS_EmptySet
  <2> QED BY <2>1, <2>3
<1> HIDE DEF some
<1>5. IsSum(C, B)
  <2>1. ASSUME NEW A \in SUBSET S
        PROVE  C[A] = IF A = {} THEN 0 ELSE B[some(A)] + C[A \ {some(A)}]
    <3>1. CASE A = {}
      BY <3>1, FS_EmptySet
    <3>2. CASE A # {}
      BY <1>2, <1>4, <3>2
    <3> QED BY <3>1, <3>2
  <2>2. C = [A \in SUBSET S |-> C[A]]
    OBVIOUS
  <2> HIDE DEF C
  <2>3. C = [A \in SUBSET S |-> IF A = {} THEN 0 ELSE B[some(A)] + C[A \ {some(A)}]]
    BY <2>1, <2>2
  <2> QED BY <1>2, <2>3 DEF IsSum, some
<1>6. IsSum(F, B)
  BY <1>5
<1> HIDE DEF F
<1>7. \A A \in SUBSET S : F[A] = IF A = {} THEN 0 ELSE B[some(A)] + F[A \ {some(A)}]
  BY <1>2, <1>6 DEF IsSum, some
<1> DEFINE T == {n \in Nat : \A A \in SUBSET S : Cardinality(A) = n => F[A] = n}
<1>8. 0 \in T
  <2>1. \A A \in SUBSET S : Cardinality(A) = 0 => A = {}
    BY FS_Subset, FS_EmptySet
  <2> QED BY <1>7, <2>1
<1>9. ASSUME NEW n \in Nat, n \in T PROVE n + 1 \in T
  <2> SUFFICES ASSUME NEW A \in SUBSET S, Cardinality(A) = n + 1 PROVE F[A] = n + 1
    OBVIOUS
  <2>1. A # {}
    BY FS_EmptySet
  <2>2. Cardinality(A \ {some(A)}) = n /\ A \ {some(A)} \in SUBSET S /\ some(A) \in S
    <3>1. Cardinality(A) = 1 + Cardinality(A \ {some(A)}) /\ A \ {some(A)} \in SUBSET S /\ some(A) \in A
      BY <1>4, <2>1
    <3>2. Cardinality(A \ {some(A)}) \in Nat
      BY <3>1, FS_Subset, FS_CardinalityType
    <3> QED BY <3>1, <3>2
  <2>3. F[A \ {some(A)}] = n
    BY <1>9, <2>2
  <2>4. F[A] = 1 + n
    BY <1>2, <1>7, <2>1, <2>2, <2>3
  <2> QED BY <2>4
<1> HIDE DEF T
<1>10. Cardinality(S) \in Nat
  BY FS_CardinalityType
<1>11. Cardinality(S) \in T
  <2>1. 0..Cardinality(S) \subseteq T
    BY <1>8, <1>9, <1>10, Induction
  <2> QED BY <1>10, <2>1
<1>12. F[S] = Cardinality(S)
  BY <1>11 DEF T
<1> QED BY <1>3, <1>12 DEF B

(* The nodes are 1 to N, a ranking is a sequence of them all. *)
LEMMA RankingIs ==
    ASSUME IdsInv, NEW rank \in Rankings
    PROVE  LET N == IndexSize
           IN  /\ N \in Nat /\ Nodes = 1..N /\ IsFiniteSet(Nodes) /\ Live \subseteq Nodes
               /\ rank \in [1..N -> 1..N] /\ rank \in [1..N -> Nat]
               /\ \A i, j \in 1..N : rank[i] = rank[j] => i = j
<1>1. ArraysInv
  BY DEF IdsInv
<1>2. /\ Len(intToExt) \in Nat /\ Nodes = 1..Len(intToExt) /\ IsFiniteSet(Nodes) /\ Live \subseteq Nodes
      /\ IndexSize = Len(intToExt)
  BY <1>1, Arrays DEF ArraysInv, IndexSize
<1>3. rank \in [Nodes -> Nodes] /\ \A i, j \in Nodes : rank[i] = rank[j] => i = j
  BY DEF Rankings, IsInjective
<1> QED BY <1>2, <1>3

(* Without a predicate, as many nodes as are dead are asked for on top of K. *)
LEMMA SearchIsExact ==
    ASSUME IdsInv, NEW rank \in Rankings, NEW K \in Nat
    PROVE  Search(rank, K) = Best(rank, K, Live)
<1> DEFINE N == IndexSize
           w == Want(K)
<1>1. /\ N \in Nat /\ Nodes = 1..N /\ IsFiniteSet(Nodes) /\ Live \subseteq Nodes
      /\ rank \in [1..N -> 1..N]
      /\ \A i, j \in 1..N : rank[i] = rank[j] => i = j
  BY RankingIs
<1>2. deletedCount = Cardinality((1..N) \ Live) /\ deletedCount \in Nat
  <2>1. deletedCount = Cardinality(Nodes \ Live)
    BY DEF IdsInv, CountersAreExact
  <2>2. IsFiniteSet(Nodes \ Live)
    BY <1>1, FS_Difference
  <2> QED BY <1>1, <2>1, <2>2, FS_CardinalityType
<1>3. w \in 0..N /\ (w = N \/ w >= K + Cardinality((1..N) \ Live))
  <2>1. w = IF K + deletedCount <= N THEN K + deletedCount ELSE N
    BY DEF Want, AtMost
  <2> HIDE DEF w, N
  <2> QED BY <1>1, <1>2, <2>1
<1>4. Search(rank, K) = FirstK(Only(FirstK(rank, w), Live), K)
  <2>1. Live \cap Nodes = Live
    BY <1>1
  <2> QED BY <2>1 DEF Search, Collect, IndexSearch
<1> HIDE DEF w, N
<1>5. FirstK(Only(FirstK(rank, w), Live), K) = FirstK(Only(rank, Live), K)
  BY <1>1, <1>3, EnoughFound
<1> QED BY <1>4, <1>5 DEF Best

(* What a predicate allows are live nodes. *)
LEMMA AllowedAreLive ==
    ASSUME IdsInv, DerivedInv, NEW p \in Predicates
    PROVE  BagToSet(Resolve(p)) \subseteq Live
<1>1. CASE \E a \in Attrs, c \in Codes : AttrType[a] = "Tag" /\ p = Eq(a, c)
  <2>1. PICK a \in Attrs, c \in Codes : p = Eq(a, c)
    BY <1>1
  <2>2. Resolve(p) = ResolveEq(meta, deleted, a, c)
    BY <2>1 DEF Resolve, Eq
  <2>3. DOMAIN Resolve(p) = {j \in DOMAIN meta.postings[a][c] : ~deleted[j]}
    BY <2>2 DEF ResolveEq
  <2>4. DOMAIN meta.postings[a][c] \subseteq Nodes
    BY <2>1 DEF DerivedInv, PostingTypes
  <2> QED BY <2>3, <2>4 DEF BagToSet, Live
<1>2. CASE \E a \in Attrs, l, h \in Codes : AttrType[a] = "Indexed" /\ p = Between(a, l, h)
  <2>1. PICK a \in Attrs, l \in Codes, h \in Codes : AttrType[a] = "Indexed" /\ p = Between(a, l, h)
    BY <1>2
  <2>2. Resolve(p) = SetToBag(ResolveRange(meta, a, l, h))
    BY <2>1 DEF Resolve, Between
  <2>3. ResolveRange(meta, a, l, h) \subseteq Live
    BY <2>1, RangesAreExact DEF Matching
  <2> QED BY <2>2, <2>3 DEF BagToSet, SetToBag
<1> QED BY <1>1, <1>2 DEF Predicates

(* With an allowlist without repetitions, it is enough to ask for K more than it leaves out,
   and to scan the list itself finds the same. *)
LEMMA AutoIsExact ==
    ASSUME IdsInv, NEW rank \in Rankings, NEW K \in 1..IndexSize,
           NEW S \in SUBSET Live, NEW list, list = SetToBag(S)
    PROVE  CollectAuto(rank, K, list) = {Best(rank, K, S)}
<1> DEFINE N == IndexSize
           w == WantAllowed(K, Entries(list))
<1>1. /\ N \in Nat /\ N # 0 /\ Nodes = 1..N /\ IsFiniteSet(Nodes) /\ S \subseteq 1..N
      /\ rank \in [1..N -> 1..N] /\ rank \in [1..N -> Nat]
      /\ \A i, j \in 1..N : rank[i] = rank[j] => i = j
  <2>1. /\ N \in Nat /\ Nodes = 1..N /\ IsFiniteSet(Nodes) /\ Live \subseteq Nodes
        /\ rank \in [1..N -> 1..N] /\ rank \in [1..N -> Nat]
        /\ \A i, j \in 1..N : rank[i] = rank[j] => i = j
    BY RankingIs
  <2> HIDE DEF N
  <2>2. K \in 1..N
    BY DEF N
  <2> QED BY <2>1, <2>2
<1>2. BagToSet(list) = S /\ DOMAIN list = S /\ \A e \in S : list[e] = 1
  BY DEF BagToSet, SetToBag
<1>3. /\ Entries(list) = Cardinality(S) /\ Cardinality(S) \in Nat
      /\ Cardinality((1..N) \ S) = N - Cardinality(S) /\ Cardinality(S) <= N
  <2> HIDE DEF N
  <2>1. IsFiniteSet(1..N) /\ Cardinality(1..N) = N
    BY <1>1, FS_Interval
  <2>2. IsFiniteSet(S) /\ Cardinality(S) <= N /\ Cardinality(S) \in Nat
    <3>1. S \subseteq 1..N /\ N \in Nat
      BY <1>1
    <3>2. IsFiniteSet(S) /\ Cardinality(S) <= Cardinality(1..N)
      BY ONLY <2>1, <3>1, FS_Subset
    <3> QED BY <2>1, <3>1, <3>2, FS_CardinalityType
  <2>3. Cardinality((1..N) \ S) = Cardinality(1..N) - Cardinality((1..N) \cap S)
    BY <2>1, FS_Difference
  <2>4. (1..N) \cap S = S
    BY <1>1
  <2> QED BY <2>1, <2>2, <2>3, <2>4, EntriesOfASet
<1>4. w \in 0..N /\ (w = N \/ w >= K + Cardinality((1..N) \ S))
  <2> DEFINE n == Cardinality(S)
  <2>1. w = LET v == K + (N - n) IN IF v < 0 THEN N ELSE IF v <= N THEN v ELSE N
    BY <1>3 DEF WantAllowed, AtMost
  <2>2. K \in Nat /\ n \in Nat /\ N \in Nat /\ n <= N
    BY <1>1, <1>3
  <2> HIDE DEF w, N, n
  <2>3. w \in 0..N /\ (w = N \/ w >= K + (N - n))
    BY <2>1, <2>2
  <2> QED BY <1>3, <2>3 DEF n
<1>5. PostFiltered(rank, K, list) = FirstK(Only(FirstK(rank, w), S), K)
  <2>1. Live \cap BagToSet(list) = S
    BY <1>2
  <2> QED BY <2>1 DEF PostFiltered, Collect, IndexSearch
<1> DEFINE q == [n \in DOMAIN rank |-> [k \in 1..Copies(rank[n], list) |-> rank[n]]]
<1>6. PreFiltered(rank, K, list) = FirstK(SX!FlattenSeq(q), K)
  BY DEF PreFiltered
<1> HIDE DEF w, N
<1>7. q \in Seq(Seq(Nat)) /\ Len(q) = N /\ \A i \in 1..N : q[i] = IF rank[i] \in S THEN <<rank[i]>> ELSE <<>>
  <2>1. DOMAIN rank = 1..N
    BY <1>1
  <2>2. ASSUME NEW i \in 1..N
        PROVE  /\ [k \in 1..Copies(rank[i], list) |-> rank[i]] = IF rank[i] \in S THEN <<rank[i]>> ELSE <<>>
               /\ [k \in 1..Copies(rank[i], list) |-> rank[i]] \in Seq(Nat)
    <3>1. rank[i] \in Nat
      BY <1>1
    <3>2. CASE rank[i] \in S
      <4>1. Copies(rank[i], list) = 1
        BY <1>2, <3>2 DEF Copies, BagIn, BagToSet
      <4> QED BY <3>1, <3>2, <4>1
    <3>3. CASE rank[i] \notin S
      <4>1. Copies(rank[i], list) = 0
        BY <1>2, <3>3 DEF Copies, BagIn, BagToSet
      <4> QED BY <3>1, <3>3, <4>1
    <3> QED BY <3>2, <3>3
  <2>3. \A i \in 1..N : q[i] \in Seq(Nat) /\ q[i] = IF rank[i] \in S THEN <<rank[i]>> ELSE <<>>
    BY <2>1, <2>2
  <2>4. q = [i \in 1..N |-> q[i]]
    BY <2>1
  <2> HIDE DEF q
  <2>5. N \in Nat
    BY <1>1
  <2>6. q \in Seq(Seq(Nat)) /\ Len(q) = N
    BY ONLY <2>3, <2>4, <2>5
  <2> QED BY <2>3, <2>6
<1> HIDE DEF q
<1>8. SX!FlattenSeq(q) = Only(rank, S)
  <2>1. N \in Nat /\ N # 0 /\ rank \in [1..N -> Nat]
    BY <1>1
  <2>2. Singles(q, rank, S, N)
    BY <1>7 DEF Singles
  <2> QED BY ONLY <2>1, <2>2, FlattensToOnly
<1>9. FirstK(Only(FirstK(rank, w), S), K) = FirstK(Only(rank, S), K)
  <2>1. K \in Nat
    OBVIOUS
  <2> QED BY <1>1, <1>4, <2>1, EnoughFound
<1> QED BY <1>5, <1>6, <1>8, <1>9 DEF CollectAuto, Best

(* THEOREM: in every state, with nodes dead, pending or published, a search finds the K nearest
   live rows, or all there are (vdb.cpp:229-238), and a filtered search the K nearest of its
   allowlist whichever way the planner chose, for any ranking of the nodes.                  *)
THEOREM EverySearchIsExact ==
    Spec => []SearchesAreExact
<1>1. IdsInv /\ DerivedInv => SearchesAreExact
  <2> SUFFICES ASSUME IdsInv, DerivedInv, NEW rank \in Rankings, NEW K \in 1..IndexSize
      PROVE  /\ Search(rank, K) = Best(rank, K, Live)
             /\ \A p \in Predicates : Resolve(p) = SetToBag(BagToSet(Resolve(p))) =>
                   CollectAuto(rank, K, Resolve(p)) = {Best(rank, K, BagToSet(Resolve(p)))}
    BY DEF SearchesAreExact
  <2>1. K \in Nat
    OBVIOUS
  <2>2. ASSUME NEW p \in Predicates, Resolve(p) = SetToBag(BagToSet(Resolve(p)))
        PROVE  CollectAuto(rank, K, Resolve(p)) = {Best(rank, K, BagToSet(Resolve(p)))}
    <3>1. BagToSet(Resolve(p)) \in SUBSET Live
      BY AllowedAreLive
    <3> QED BY <2>2, <3>1, AutoIsExact
  <2> QED BY <2>1, <2>2, SearchIsExact
<1> QED BY <1>1, DerivedAlways, PTL
=============================================================================
