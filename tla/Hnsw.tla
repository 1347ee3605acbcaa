-------------------------------- MODULE Hnsw --------------------------------
(***************************************************************************)
(* The layered graph of src/hnsw_index.cpp, built and searched by several  *)
(* threads: nodes are allocated one at a time, then linked concurrently,   *)
(* with one lock per node and one for the entry point.  VDB links outside  *)
(* its own lock, so links and searches really do overlap.                  *)
(*                                                                         *)
(* Grain.  An action is what a thread does under one lock and, up to the   *)
(* next, with what it copied there.  A vector is a point on a line, so     *)
(* that what is near is settled by real distances; two points are never    *)
(* equally far from a third, which leaves no ties to sort.                 *)
(***************************************************************************)
EXTENDS Integers, SequencesExt

CONSTANTS Threads, Points,
          MaxLayer,            \* bound: the highest layer sample_layer_ returns
          M, Mmax, Mmax0, Ef,  \* HNSWConfig
          EfSearch,            \* max(ef_search_, K)
          MaxSearches          \* bound

Dist(p, q) == IF p < q THEN q - p ELSE p - q

ASSUME HnswAssumption ==
    /\ Points \subseteq Int /\ IsFiniteSet(Points)
    /\ \A p, q, r \in Points : q # r => Dist(p, q) # Dist(p, r)
    /\ {M, Mmax, Mmax0, Ef, EfSearch} \subseteq Nat \ {0}
    /\ {MaxLayer, MaxSearches} \subseteq Nat

VARIABLES
    nodes,        \* nodes_: a point, and for each layer the neighbours in it
    entry, top,   \* entry_point_, max_layer_
    pc, job,      \* where a thread stands; what it links or searches for
    look,         \* the locals of search_layer
    todo,         \* the neighbours that still get their back-link
    linked,       \* history: the nodes whose link() has returned
    dropped,      \* history: a link of layer 0 was pruned or overwritten
    before,       \* history: what could be found when a query's last layer began
    searches      \* history: searches begun

graph  == <<nodes, entry, top>>
thread == <<pc, job, look, todo>>
vars   == <<graph, thread, linked, dropped, before, searches>>

Ids     == 1..Cardinality(Points)
NoNode  == 0
NoJob   == [type |-> "none", id |-> NoNode, point |-> 0, l |-> 0, L |-> 0]
NoLook  == [layer |-> 0, ef |-> 0, visited |-> {}, cands |-> {}, W |-> {}]

Height(n) == Len(nodes[n].links) - 1
Links(n, layer) == IF layer <= Height(n) THEN nodes[n].links[layer + 1] ELSE <<>>

Cap(layer) == IF layer = 0 THEN Mmax0 ELSE Mmax

\* A link of a layer leads to a node that has the layer, or neighbours[lc] is out of bounds.
TypeOK ==
    /\ entry \in 0..Len(nodes) /\ top \in -1..MaxLayer
    /\ \A n \in DOMAIN nodes : \A layer \in 0..Height(n) :
          /\ Len(Links(n, layer)) <= M \/ Len(Links(n, layer)) <= Cap(layer)
          /\ \A e \in ToSet(Links(n, layer)) : e \in DOMAIN nodes /\ layer <= Height(e)
    /\ \A t \in Threads : /\ pc[t] \in {"idle", "entry", "look", "back", "promote"}
                          /\ job[t].type \in {"none", "link", "search"}
                          /\ pc[t] # "idle" => job[t].point \in Points
                          /\ look[t].W \subseteq look[t].visited
                          /\ look[t].visited \subseteq {n \in DOMAIN nodes : Height(n) >= look[t].layer}
    /\ linked \subseteq DOMAIN nodes /\ dropped \in BOOLEAN

Init ==
    /\ nodes = <<>> /\ entry = NoNode /\ top = -1
    /\ pc = [t \in Threads |-> "idle"] /\ job = [t \in Threads |-> NoJob]
    /\ look = [t \in Threads |-> NoLook] /\ todo = [t \in Threads |-> <<>>]
    /\ linked = {} /\ dropped = FALSE /\ searches = 0
    /\ before = [t \in Threads |-> {}]

-----------------------------------------------------------------------------
(* search_layer and select_neighbors. *)

DistTo(p, n)  == Dist(p, nodes[n].point)
Nearest(p, S)  == CHOOSE n \in S : \A m \in S : DistTo(p, n) <= DistTo(p, m)
Farthest(p, S) == CHOOSE n \in S : \A m \in S : DistTo(p, n) >= DistTo(p, m)

From(n, layer, ef) == [layer |-> layer, ef |-> ef, visited |-> {n}, cands |-> {n}, W |-> {n}]

\* (mutated form of Over: a candidate as far as the worst result ends the search)
OverAtOnce(p, s) == s.cands # {} => DistTo(p, Nearest(p, s.cands)) >= DistTo(p, Farthest(p, s.W))

Over(p, s) == s.cands # {} => DistTo(p, Nearest(p, s.cands)) > DistTo(p, Farthest(p, s.W))

\* One neighbour of the node being expanded.
Visit(p, s, n) ==
    LET seen == [s EXCEPT !.visited = @ \cup {n}]
        W    == s.W \cup {n}
    IN  IF n \in s.visited THEN s
        ELSE IF Cardinality(s.W) < s.ef THEN [seen EXCEPT !.cands = @ \cup {n}, !.W = W]
        ELSE IF DistTo(p, n) < DistTo(p, Farthest(p, s.W))
             THEN [seen EXCEPT !.cands = @ \cup {n}, !.W = W \ {Farthest(p, W)}]
             ELSE seen

\* All neighbours in a copied list, one after the other.
VisitAll(p, s, list) ==
    LET after[i \in 0..Len(list)] == IF i = 0 THEN s ELSE Visit(p, after[i - 1], list[i])
    IN  after[Len(list)]

\* The orders of a list, as permutations of its positions, in which Before goes from each
\* to all behind it.
Orders(list, Before(_, _)) ==
    {pi \in Bijection(DOMAIN list, DOMAIN list) : \A i, j \in DOMAIN list : i < j => Before(pi[i], pi[j])}

\* The m candidates to link to: those nearer to p than to any nearer one so kept, then the
\* nearest of the rest (keepPrunedConnections).
SelectNeighbors(p, cands, m) ==
    LET Nearer(i, j) == \/ DistTo(p, cands[i]) < DistTo(p, cands[j])
                        \/ cands[i] = cands[j] /\ i < j
        Spread(K) == \A i \in DOMAIN cands : i \in K <=>
                       \A j \in K : Nearer(j, i) => DistTo(nodes[cands[j]].point, cands[i]) >= DistTo(p, cands[i])
        kept == CHOOSE K \in SUBSET DOMAIN cands : Spread(K)
        Before(i, j) == IF i \in kept <=> j \in kept THEN Nearer(i, j) ELSE i \in kept
    IN  IF Len(cands) <= m THEN {cands}
        ELSE {[i \in 1..m |-> cands[pi[i]]] : pi \in Orders(cands, Before)}

\* The result of search_layer: W, from the farthest to the nearest.
Result(p, W) ==
    {q \in Bijection(1..Cardinality(W), W) : \A i, j \in DOMAIN q : i < j => DistTo(p, q[i]) > DistTo(p, q[j])}

\* What a search of the bottom layer from n comes to, however far it looks: the least set
\* with n in it that no link leads out of.
Closed(S) == \A m \in S : ToSet(Links(m, 0)) \subseteq S
Reach(n)  == {m \in DOMAIN nodes : \A S \in SUBSET DOMAIN nodes : n \in S /\ Closed(S) => m \in S}
Findable == IF entry = NoNode THEN {} ELSE Reach(entry)

-----------------------------------------------------------------------------
Return(t) ==
    /\ pc' = [pc EXCEPT ![t] = "idle"] /\ job' = [job EXCEPT ![t] = NoJob]
    /\ look' = [look EXCEPT ![t] = NoLook] /\ todo' = [todo EXCEPT ![t] = <<>>]
    /\ before' = [before EXCEPT ![t] = {}]

\* allocate_node_, under grow_mutex_.
Allocate(t) ==
    /\ pc[t] = "idle" /\ Len(nodes) < Cardinality(Points)
    /\ \E p \in Points \ {nodes[n].point : n \in DOMAIN nodes}, l \in 0..MaxLayer :
          /\ nodes' = Append(nodes, [point |-> p, links |-> [i \in 1..(l + 1) |-> <<>>]])
          /\ job' = [job EXCEPT ![t] = [NoJob EXCEPT !.type = "link", !.id = Len(nodes) + 1,
                                                     !.point = p, !.l = l]]
    /\ pc' = [pc EXCEPT ![t] = "entry"]
    /\ UNCHANGED <<entry, top, look, todo, linked, dropped, before, searches>>

BeginSearch(t) ==
    /\ pc[t] = "idle" /\ searches < MaxSearches /\ top >= 0
    /\ \E p \in Points : job' = [job EXCEPT ![t] = [NoJob EXCEPT !.type = "search", !.point = p]]
    /\ searches' = searches + 1
    /\ pc' = [pc EXCEPT ![t] = "entry"]
    /\ UNCHANGED <<graph, look, todo, linked, dropped, before>>

\* Above the node's own top layer, or above 0 for a query, the descent is greedy.
LookFrom(t, n, layer) ==
    LET ef == IF layer > job[t].l THEN 1 ELSE IF job[t].type = "link" THEN Ef ELSE EfSearch
    IN  /\ look' = [look EXCEPT ![t] = From(n, layer, ef)]
        /\ pc' = [pc EXCEPT ![t] = "look"]
        /\ before' = [before EXCEPT ![t] = IF layer = 0 /\ job[t].type = "search" THEN Reach(n) ELSE {}]

\* (mutated form of StartLayer: a tall node starts in its own top layer)
StartLayerOwn(t) == IF top < job[t].l THEN job[t].l ELSE top

\* Greedily through layers top..l+1, then from min(top, l) down: either way top is first.
StartLayer(t) == top

\* The entry point and its layer, under entry_mutex_.
ReadEntry(t) ==
    /\ pc[t] = "entry"
    /\ IF top < 0
       THEN /\ entry' = job[t].id /\ top' = job[t].l
            /\ linked' = linked \cup {job[t].id} /\ Return(t)
            /\ UNCHANGED <<nodes, dropped, searches>>
       ELSE /\ job' = [job EXCEPT ![t].L = top]
            /\ LookFrom(t, entry, StartLayer(t))
            /\ UNCHANGED <<graph, todo, linked, dropped, searches>>

\* One candidate of search_layer: its neighbours are copied under its lock.
Expand(t) ==
    LET p == job[t].point
        c == Nearest(p, look[t].cands)
        popped == [look[t] EXCEPT !.cands = @ \ {c}]
    IN  /\ pc[t] = "look" /\ ~Over(p, look[t])
        /\ look' = [look EXCEPT ![t] = VisitAll(p, popped, Links(c, look[t].layer))]
        /\ UNCHANGED <<graph, pc, job, todo, linked, dropped, before, searches>>

Ended(t) == pc[t] = "look" /\ Over(job[t].point, look[t])
Down(t)  == LookFrom(t, Nearest(job[t].point, look[t].W), look[t].layer - 1)

Descend(t) ==
    /\ Ended(t) /\ look[t].layer > job[t].l
    /\ Down(t)
    /\ UNCHANGED <<graph, job, todo, linked, dropped, searches>>

\* A query's last layer; the K nearest of W are returned.
Answer(t) ==
    /\ Ended(t) /\ look[t].layer = 0 /\ job[t].type = "search"
    /\ Return(t)
    /\ UNCHANGED <<graph, linked, dropped, searches>>

\* (mutated form of ToTell: the loop begins with the second neighbour)
ToTellRest(chosen) == Tail(chosen)

\* The neighbours that get a back-link.
ToTell(chosen) == chosen

\* The node's own list is written over whatever others have put there.
SetLinks(t) ==
    LET n == job[t].id
        layer == look[t].layer
        p == job[t].point
    IN  /\ Ended(t) /\ layer <= job[t].l /\ job[t].type = "link"
        /\ \E W \in Result(p, look[t].W) : \E chosen \in SelectNeighbors(p, W, M) :
              /\ nodes' = [nodes EXCEPT ![n].links[layer + 1] = chosen]
              /\ dropped' = (dropped \/ (layer = 0 /\ ~(ToSet(Links(n, 0)) \subseteq ToSet(chosen))))
              /\ todo' = [todo EXCEPT ![t] = ToTell(chosen)]
        /\ pc' = [pc EXCEPT ![t] = "back"]
        /\ UNCHANGED <<entry, top, job, look, linked, before, searches>>

\* The list of e with n in it, pruned to the cap.
WithLink(e, layer, n) == SelectNeighbors(nodes[e].point, Append(Links(e, layer), n), Cap(layer))

BackLink(t) ==
    LET e == Head(todo[t])
        layer == look[t].layer
    IN  /\ pc[t] = "back" /\ todo[t] # <<>>
        /\ \E new \in WithLink(e, layer, job[t].id) :
              /\ nodes' = [nodes EXCEPT ![e].links[layer + 1] = new]
              /\ dropped' = (dropped \/ (layer = 0 /\ ~(ToSet(Links(e, 0)) \cup {job[t].id} \subseteq ToSet(new))))
        /\ todo' = [todo EXCEPT ![t] = Tail(@)]
        /\ UNCHANGED <<entry, top, pc, job, look, linked, before, searches>>

\* All back-links of a layer are made: the next layer, or the end.
NextLayer(t) ==
    /\ pc[t] = "back" /\ todo[t] = <<>>
    /\ IF look[t].layer > 0
       THEN Down(t) /\ UNCHANGED <<job, todo, linked>>
       ELSE IF job[t].l > job[t].L
       THEN pc' = [pc EXCEPT ![t] = "promote"] /\ UNCHANGED <<job, look, todo, linked, before>>
       ELSE Return(t) /\ linked' = linked \cup {job[t].id}
    /\ UNCHANGED <<graph, dropped, searches>>

\* (mutated form of Promotes: no second look under the lock)
PromotesAnyway(t) == TRUE

Promotes(t) == job[t].l > top

Promote(t) ==
    /\ pc[t] = "promote"
    /\ IF Promotes(t) THEN top' = job[t].l /\ entry' = job[t].id ELSE UNCHANGED <<entry, top>>
    /\ Return(t) /\ linked' = linked \cup {job[t].id}
    /\ UNCHANGED <<nodes, dropped, searches>>

Link(t)   == SetLinks(t) \/ BackLink(t) \/ NextLayer(t) \/ Promote(t)
Search(t) == BeginSearch(t) \/ Answer(t)

Next == \E t \in Threads : Allocate(t) \/ ReadEntry(t) \/ Expand(t) \/ Descend(t) \/ Link(t) \/ Search(t)

Spec == Init /\ [][Next]_vars

-----------------------------------------------------------------------------
(* Properties. *)

Quiet == \A t \in Threads : pc[t] = "idle"

\* A search starts at the top of the tallest node: entry point and layer belong together,
\* and no node whose link() has returned is taller (hnsw_index.cpp:249-256).
EntryIsTallest == /\ top >= 0 => entry \in DOMAIN nodes /\ Height(entry) = top
                  /\ \A n \in linked : Height(n) <= top

\* As long as no link was cut, by a prune or by an overwritten list, every linked node can
\* be found when nobody is linking, however the links overlapped.
LinkedAreFound == Quiet /\ ~dropped => linked \subseteq Findable

\* Linking loses nothing for the searches beside it: their walk through the last layer,
\* one copied list after another, comes to every node that was within reach of its start
\* (hnsw_index.h:30-32), as long as no link is cut.
SearchesLoseNothing ==
    \A t \in Threads : Ended(t) /\ ~dropped /\ Cardinality(Points) <= EfSearch => before[t] \subseteq look[t].W

\* (violated) "Every vector inserted concurrently must be in the graph and findable"
\* (test_concurrency.cpp:111-113): with room in every list for every node.
EveryInsertIsFound == Quiet => linked \subseteq Findable
=============================================================================
