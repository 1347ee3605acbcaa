----------------------------- MODULE VDBSearch -----------------------------
(***************************************************************************)
(* The searches of src/vdb.cpp over a VDB: by vector, with a predicate     *)
(* applied after or before the index, by text, and hybrid.  A search holds *)
(* mu_ shared throughout and changes nothing, so it is an operator on the  *)
(* state.  A hybrid search holds it twice, once for each ranker: it is a   *)
(* function of the two states it meets.                                    *)
(*                                                                         *)
(* Distances and scores are a ranking of the nodes, any at all.  The index *)
(* is exact, as BruteIndex is: it answers with the first nodes of the      *)
(* ranking (what HNSWIndex may miss is Hnsw's subject).                    *)
(***************************************************************************)
EXTENDS VDB, FiniteSetsExt
SX == INSTANCE SequencesExt

CONSTANTS HybridK, Depth   \* a hybrid search's hits, and how deep each ranker goes
Eq(a, c)        == [kind |-> "Eq", attr |-> a, lo |-> c, hi |-> c]
Between(a, l, h) == [kind |-> "Range", attr |-> a, lo |-> l, hi |-> h]
Predicates == {Eq(a, c) : a \in {b \in Attrs : AttrType[b] = "Tag"}, c \in Codes}
         \cup {Between(a, l, h) : a \in {b \in Attrs : AttrType[b] = "Indexed"}, l, h \in Codes}

-----------------------------------------------------------------------------
(* One hold of mu_. *)

\* The allowlist, a bag of internal ids.  An unindexed range has none and is refused.
Resolve(p) == IF p.kind = "Eq" THEN ResolveEq(meta, deleted, p.attr, p.lo)
                               ELSE SetToBag(ResolveRange(meta, p.attr, p.lo, p.hi))

\* How often node i is in an allowlist, and how long the allowlist is.
Copies(i, list) == IF BagIn(i, list) THEN list[i] ELSE 0
Entries(list)   == MapThenSumSet(LAMBDA i : list[i], DOMAIN list)

AtMost(a, b) == IF a <= b THEN a ELSE b
FirstK(s, K) == SubSeq(s, 1, AtMost(K, Len(s)))

Rankings == {r \in [Nodes -> Nodes] : IsInjective(r)}

\* Those of a sequence that are in S, in its order.
Only(s, S) ==
    LET from[n \in 0..Len(s)] == IF n = 0 THEN <<>>
                                 ELSE IF s[n] \in S THEN Append(from[n - 1], s[n]) ELSE from[n - 1]
    IN  from[Len(s)]

\* Index::search, by exhaustive comparison.
IndexSearch(rank, n) == FirstK(rank, n)

IndexSize == Len(vectors)

\* (mutated form of Want: no margin for dead nodes)
WantK(K) == AtMost(K, IndexSize)

\* How many nodes collect_() asks the index for, without a predicate ...
Want(K) == AtMost(K + deletedCount, IndexSize)

\* ... and with an allowlist of n entries.  In unsigned arithmetic K + (size - n) below
\* zero is a huge number.
WantAllowed(K, n) ==
    LET w == K + (IndexSize - n) IN IF w < 0 THEN IndexSize ELSE AtMost(w, IndexSize)

\* collect_(): what the index returns, less dead nodes and nodes that are not allowed.
Collect(rank, K, allowed, want) ==
    FirstK(Only(IndexSearch(rank, want), Live \cap allowed), K)

Search(rank, K) == Collect(rank, K, Nodes, Want(K))
PostFiltered(rank, K, list) ==
    Collect(rank, K, BagToSet(list), WantAllowed(K, Entries(list)))

\* prefilter_scan_(): the allowlist itself in order of distance, repetitions and all.
PreFiltered(rank, K, list) ==
    FirstK(SX!FlattenSeq([n \in DOMAIN rank |->
                         [k \in 1..Copies(rank[n], list) |-> rank[n]]]), K)

\* collect_auto_(): the planner's cost model picks either.
CollectAuto(rank, K, list) == {PostFiltered(rank, K, list), PreFiltered(rank, K, list)}

\* search_text(): the best of its candidates, of which there are none when no document is
\* counted.
Candidates(a, terms, allowed) ==
    IF meta.docs[a] = 0 THEN {} ELSE TextCandidates(meta, deleted, a, terms) \cap allowed
TextSearch(rank, K, found) == FirstK(Only(rank, found), K)

-----------------------------------------------------------------------------
(* Hybrid search. *)

RowAt(i) == [vec |-> vectors[i], meta |-> meta.data[i]]

\* A hit carries the external id and the payload, read under the hold that found it; the
\* rest of the row is recorded for the properties.
Hits(ids) == [n \in DOMAIN ids |-> [id |-> intToExt[ids[n]], row |-> RowAt(ids[n])]]

\* What the first hold may bring, and the second.
VectorHits  == {Hits(s) : s \in {Search(r, Depth) : r \in Rankings}}
TextHits(a) == LET lists == {Candidates(a, {c}, Nodes) : c \in Codes}
               IN  {Hits(s) : s \in {TextSearch(r, Depth, found) : r \in Rankings, found \in lists}}

\* 1 / (rrf_k + n) for ranks n up to 3, over a common denominator.
Weight(n) == (61 * 62 * 63) \div (60 + n)

RanksIn(e, hits) == {n \in DOMAIN hits : hits[n].id = e}

\* What an id's ranks in one list come to.
Terms(e, hits) ==
    LET upTo[n \in 0..Len(hits)] ==
            IF n = 0 THEN 0 ELSE upTo[n - 1] + (IF hits[n].id = e THEN Weight(n) ELSE 0)
    IN  upTo[Len(hits)]

\* (mutated form of Score: the second ranking replaces the first)
ScoreLast(e, a, b) == Terms(e, IF RanksIn(e, b) # {} THEN b ELSE a)

Score(e, a, b) == Terms(e, a) + Terms(e, b)

\* rrf_fuse_(): any HybridK ids of the highest scores, each with the payload of the first
\* list it is in.
Payload(e, a, b) == LET l == IF RanksIn(e, a) # {} THEN a ELSE b
                    IN  l[CHOOSE n \in RanksIn(e, l) : TRUE].row
Fused(a, b) ==
    LET ids   == {h.id : h \in Range(a) \cup Range(b)}
        score == [e \in ids |-> Score(e, a, b)]
        top   == {T \in kSubset(AtMost(HybridK, Cardinality(ids)), ids) :
                    \A e \in T, f \in ids \ T : score[e] >= score[f]}
    IN  {[e \in T |-> Payload(e, a, b)] : T \in top}

-----------------------------------------------------------------------------
(* Properties. *)

Best(rank, K, S) == FirstK(Only(rank, S), K)

\* However the nodes are ranked, a search finds the K nearest live rows, or all there are
\* (vdb.cpp:229-238).  With a predicate it finds the K nearest of its allowlist, whichever
\* way the planner chose, unless the allowlist names a row twice.
SearchesAreExact ==
    LET lists == {Resolve(p) : p \in Predicates}
    IN  \A rank \in Rankings, K \in 1..IndexSize :
           /\ Search(rank, K) = Best(rank, K, Live)
           /\ \A list \in lists : list = SetToBag(BagToSet(list)) =>
                 CollectAuto(rank, K, list) = {Best(rank, K, BagToSet(list))}

\* Hits a has e, and f behind it or not at all.
Above(e, f, a) == \E n \in RanksIn(e, a) : \A m \in RanksIn(f, a) : n < m

\* A step of anybody may fall between the two holds of a hybrid search (vdb.cpp:417-418), a
\* compaction that renumbers the nodes among them.  Every hit shows a row as it was at one of
\* the holds.  And a row the step left alone, which the first ranker was deep enough to find,
\* loses its place only to K others that are each above it in one of the two rankings.
HybridSpansAStep(a) ==
    LET old   == Contents
        new   == Contents'
        kept  == {e \in DOMAIN old \cap DOMAIN new : old[e] = new[e]}
    IN  \A first \in VectorHits, second \in TextHits(a)' : \A R \in Fused(first, second) :
           /\ \A e \in DOMAIN R : \/ e \in DOMAIN old /\ R[e] = old[e]
                                  \/ e \in DOMAIN new /\ R[e] = new[e]
           /\ liveCount <= Depth =>
                 \A e \in kept \ DOMAIN R :
                    /\ Cardinality(DOMAIN R) = HybridK
                    /\ \A f \in DOMAIN R : Above(f, e, first) \/ Above(f, e, second)
HybridFindsKeptRows ==
    [][<<extToInt, Contents>>' # <<extToInt, Contents>> =>
         \A a \in Attrs : AttrType[a] = "Text" => HybridSpansAStep(a)]_vars
=============================================================================
