---------------------------- MODULE VDBInductive ----------------------------
(***************************************************************************)
(* The inductive invariants behind the theorems about VDB, in parts:       *)
(* IdsInv for the identity of rows, DerivedInv for what the metadata store *)
(* derives from them, which rests on IdsInv.                               *)
(***************************************************************************)
EXTENDS VDB

Call == [type : {"None", "Insert", "Update"}, ext : Nat,
         row : [vec : Vecs \cup {NoVec}, meta : Metas \cup {NoMeta}]]

\* The thread has a pending node: it is between phase 1 and phase 3.
Writing(t) == pc[t] \in {"link", "publish"}

\* The fields of a metadata store.
IsStore(m) == m = [data |-> m.data, count |-> m.count, docs |-> m.docs,
                   postings |-> m.postings, tree |-> m.tree]

\* The parallel arrays are as long as each other.
ArraysInv ==
    /\ intToExt \in Seq(Nat) /\ deleted \in Seq(BOOLEAN) /\ vectors \in Seq(Vecs)
    /\ IsStore(meta) /\ meta.data \in Seq(Metas)
    /\ Len(deleted) = Len(intToExt) /\ Len(vectors) = Len(intToExt)
    /\ Len(meta.data) = Len(intToExt) /\ Len(intToExt) <= MaxNodes
    /\ nextExt \in Nat /\ \A i \in Nodes : intToExt[i] < nextExt
    /\ IsMap(extToInt) /\ DOMAIN extToInt \subseteq Nat

\* Which calls the threads are in, and that no two are about one external id.
CallsInv ==
    /\ pc \in [Threads -> {"idle", "reserved", "link", "publish"}]
    /\ op \in [Threads -> Call]
    /\ iid \in [Threads -> 0..MaxNodes] /\ oldIid \in [Threads -> 0..MaxNodes]
    /\ \A t \in Threads :
          /\ pc[t] = "idle" <=> op[t].type = "None"
          /\ pc[t] = "reserved" => op[t].type = "Insert"
          /\ pc[t] # "idle" => op[t].ext < nextExt /\ op[t].row.vec \in Vecs
          /\ op[t].type = "Insert" => op[t].row.meta \in Metas /\ op[t].ext \notin DOMAIN extToInt
    /\ \A t, u \in Threads : (pc[t] # "idle" /\ pc[u] # "idle" /\ op[t].ext = op[u].ext) => t = u

\* A pending node holds the row its writer was called with; an update without metadata
\* copied that of the row it replaces, which nobody has rewritten since.
PendingRows ==
    \A t \in Threads : Writing(t) =>
       /\ vectors[iid[t]] = op[t].row.vec
       /\ meta.data[iid[t]] = IF op[t].row.meta = NoMeta THEN meta.data[oldIid[t]]
                                                         ELSE op[t].row.meta

\* A node is linked before it is published.
LinkedInv == linked \subseteq Nodes /\ \A t \in Threads : pc[t] = "publish" => iid[t] \in linked

IdsInv == ArraysInv /\ CallsInv /\ IdsAreInverse /\ PendingIdsAreTheWriters /\ PendingRows
          /\ LinkedInv /\ CountersAreExact

-----------------------------------------------------------------------------
(* The derived state of a metadata store m whose live rows are those in L: the counts and the
   range indexes are exactly those of L, and the postings overlook no row in S.              *)

CountTypes(m) == m.count \in [Attrs -> [Codes -> Nat]] /\ m.docs \in [Attrs -> Nat]

PostingTypes(m, N) ==
    \A a \in Attrs, c \in Codes : IsABag(m.postings[a][c]) /\ DOMAIN m.postings[a][c] \subseteq N

Having(m, L, a, c) == {i \in L : Has(m, i, a, c)}
Texts(m, L, a)     == {i \in L : m.data[i][a] # NoValue}

CountsAre(m, L) ==
    \A a \in Attrs :
       /\ Posted(a) => \A c \in Codes : m.count[a][c] = Cardinality(Having(m, L, a, c))
       /\ AttrType[a] = "Text" => m.docs[a] = Cardinality(Texts(m, L, a))

TreesAre(m, L) == \A a \in Attrs : m.tree[a] = UNION {TreePairs(m, i, a) : i \in L}

PostedAre(m, S) ==
    \A a \in Attrs, c \in Codes : Posted(a) => Having(m, S, a, c) \subseteq DOMAIN m.postings[a][c]

\* The nodes between phase 1 and phase 3: posted, and counted nowhere yet.
Pending == {iid[t] : t \in {u \in Threads : Writing(u)}}

DerivedInv ==
    /\ CountTypes(meta) /\ PostingTypes(meta, Nodes)
    /\ CountsAre(meta, Live) /\ TreesAre(meta, Live)
    /\ PostedAre(meta, Live \cup Pending)
=============================================================================
