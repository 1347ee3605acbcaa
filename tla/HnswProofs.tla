---------------------------- MODULE HnswProofs ------------------------------
(***************************************************************************)
(* Theorems about the layered graph (Hnsw), for any number of threads,     *)
(* points and layers and every configuration:                              *)
(*   GraphIsInShape       TypeOK, EntryIsTallest                           *)
(*   SearchesFindAll      SearchesLoseNothing                              *)
(*   LinkedNodesAreFound  LinkedAreFound                                   *)
(* The first part says what search_layer and select_neighbors return; then *)
(* each of the invariants is followed through the actions.                 *)
(*                                                                         *)
(* That no linked node is cut off rests on a forest.  Linking a node puts  *)
(* it under another one: in each layer under the node its search of the    *)
(* layer started from, and above its own layers under the node its descent *)
(* came by.  These pointers make a forest, with one root among the linked  *)
(* nodes, and the links of layer 0 join what it joins.  The forest is      *)
(* nowhere in the code, so the invariant says that there is one, and each  *)
(* step that places a node makes another one of it.                        *)
(***************************************************************************)
EXTENDS HnswInductive, FiniteInduction

USE DEF graph, thread

-----------------------------------------------------------------------------
(* The nearest and the farthest of some nodes. *)

NodesTyped == nodes \in Seq(Node)

(* Distances are natural numbers. *)
LEMMA Distances ==
    ASSUME NodesTyped, NEW p \in Int
    PROVE  \A n \in DOMAIN nodes : DistTo(p, n) \in Nat /\ nodes[n].point \in Points /\ nodes[n].point \in Int
<1> SUFFICES ASSUME NEW n \in DOMAIN nodes
    PROVE  DistTo(p, n) \in Nat /\ nodes[n].point \in Points /\ nodes[n].point \in Int
  OBVIOUS
<1>1. nodes[n] \in Node
  BY DEF NodesTyped
<1>2. Points \subseteq Int
  BY HnswAssumption, Zenon
<1> DEFINE q == nodes[n].point
<1>3. q \in Points /\ q \in Int
  BY <1>1, <1>2 DEF Node
<1>4. DistTo(p, n) = IF p < q THEN q - p ELSE p - q
  BY DEF DistTo, Dist
<1> HIDE DEF q
<1>5. DistTo(p, n) \in Nat
  BY <1>3, <1>4
<1> QED BY <1>3, <1>5 DEF q

(* The store of nodes is finite. *)
LEMMA NodesFinite ==
    ASSUME NodesTyped
    PROVE  /\ DOMAIN nodes = 1..Len(nodes) /\ Len(nodes) \in Nat
           /\ IsFiniteSet(DOMAIN nodes) /\ Cardinality(DOMAIN nodes) = Len(nodes)
<1>1. DOMAIN nodes = 1..Len(nodes) /\ Len(nodes) \in Nat
  BY DEF NodesTyped
<1>2. IsFiniteSet(1..Len(nodes)) /\ Cardinality(1..Len(nodes)) = Len(nodes)
  <2>1. 1 \in Int /\ Len(nodes) \in Int
    BY <1>1
  <2>2. Cardinality(1..Len(nodes)) = IF 1 > Len(nodes) THEN 0 ELSE Len(nodes) - 1 + 1
    BY <2>1, FS_Interval
  <2> QED BY <1>1, <2>1, <2>2, FS_Interval
<1> QED BY <1>1, <1>2

(* closest_ returns one of its candidates, and none is nearer. *)
LEMMA NearestIs ==
    ASSUME NodesTyped, NEW p \in Int, NEW S, S \subseteq DOMAIN nodes, S # {}
    PROVE  Nearest(p, S) \in S /\ \A m \in S : DistTo(p, Nearest(p, S)) <= DistTo(p, m)
<1> DEFINE f == [n \in S |-> DistTo(p, n)]
<1>1. IsFiniteSet(S)
  BY NodesFinite, FS_Subset
<1>2. \A n \in S : f[n] \in Int /\ f[n] = DistTo(p, n)
  BY Distances
<1> HIDE DEF f
<1>3. \E n \in S : \A m \in S : f[n] <= f[m]
  BY <1>1, <1>2, LeastValue
<1>4. \E n \in S : \A m \in S : DistTo(p, n) <= DistTo(p, m)
  BY <1>2, <1>3
<1> QED BY <1>4 DEF Nearest

(* The top of W, a heap with the worst result first. *)
LEMMA FarthestIs ==
    ASSUME NodesTyped, NEW p \in Int, NEW S, S \subseteq DOMAIN nodes, S # {}
    PROVE  Farthest(p, S) \in S /\ \A m \in S : DistTo(p, Farthest(p, S)) >= DistTo(p, m)
<1> DEFINE f == [n \in S |-> DistTo(p, n)]
<1>1. IsFiniteSet(S)
  BY NodesFinite, FS_Subset
<1>2. \A n \in S : f[n] \in Int /\ f[n] = DistTo(p, n)
  BY Distances
<1> HIDE DEF f
<1>3. \E n \in S : \A m \in S : f[m] <= f[n]
  BY <1>1, <1>2, GreatestValue
<1>4. \E n \in S : \A m \in S : DistTo(p, n) >= DistTo(p, m)
  BY <1>2, <1>3
<1> QED BY <1>4 DEF Farthest

(* When W holds all that was visited, search_layer only ends without a candidate. *)
LEMMA OverIsEmpty ==
    ASSUME NodesTyped, NEW p \in Int, NEW s, s.cands \subseteq s.W, s.W \subseteq DOMAIN nodes, Over(p, s)
    PROVE  s.cands = {}
<1> SUFFICES ASSUME s.cands # {} PROVE FALSE
  OBVIOUS
<1> DEFINE n == Nearest(p, s.cands)
           m == Farthest(p, s.W)
<1>1. n \in s.cands
  BY NearestIs
<1>2. m \in s.W /\ DistTo(p, m) >= DistTo(p, n)
  BY <1>1, FarthestIs
<1>3. DistTo(p, n) > DistTo(p, m)
  BY DEF Over
<1>4. DistTo(p, n) \in Nat /\ DistTo(p, m) \in Nat
  BY <1>1, <1>2, Distances
<1> HIDE DEF n, m
<1> QED BY <1>2, <1>3, <1>4

-----------------------------------------------------------------------------
(* A neighbour is visited, then all of a list. *)

\* What a search holds in its heaps, at any time.
Sound(s) == s \in Look /\ s.W \subseteq s.visited /\ s.cands \subseteq s.visited
            /\ s.visited \subseteq DOMAIN nodes /\ s.W # {} /\ s.ef > 0

\* t has come to nodes of X from s, and, when W is large enough, thrown none out.
Grown(s, t, X) ==
    /\ t.layer = s.layer /\ t.ef = s.ef /\ t.visited = s.visited \cup X
    /\ s.W = s.visited /\ Len(nodes) <= s.ef => /\ t.W = t.visited
                                                /\ t.visited \ t.cands = s.visited \ s.cands

(* One neighbour. *)
LEMMA VisitOne ==
    ASSUME NodesTyped, NEW p \in Int, NEW s, Sound(s), NEW n \in DOMAIN nodes
    PROVE  Sound(Visit(p, s, n)) /\ Grown(s, Visit(p, s, n), {n})
<1>0. n \in Nat /\ DOMAIN nodes \subseteq Nat
  BY NodesFinite
<1>1. CASE n \in s.visited
  <2>1. Visit(p, s, n) = s
    BY <1>1 DEF Visit
  <2> QED BY <1>1, <2>1 DEF Grown
<1>2. CASE n \notin s.visited
  <2> DEFINE seen == [s EXCEPT !.visited = @ \cup {n}]
             V1 == [seen EXCEPT !.cands = @ \cup {n}, !.W = s.W \cup {n}]
             V2 == [seen EXCEPT !.cands = @ \cup {n}, !.W = (s.W \cup {n}) \ {Farthest(p, s.W \cup {n})}]
  <2>1. Sound(seen) /\ Sound(V1) /\ seen.visited = s.visited \cup {n}
    BY <1>0 DEF Sound, Look
  <2>2. (s.W \cup {n}) \ {Farthest(p, s.W \cup {n})} # {}
    BY <1>2 DEF Sound
  <2>3. Sound(V2)
    BY <1>0, <2>2 DEF Sound, Look
  <2>4. Cardinality(s.W) < s.ef => Grown(s, V1, {n})
    BY <1>2 DEF Grown, Sound, Look
  <2>5. ASSUME s.W = s.visited, Len(nodes) <= s.ef PROVE Cardinality(s.W) < s.ef
    <3>1. s.W \subseteq (DOMAIN nodes) \ {n}
      BY <1>2, <2>5 DEF Sound
    <3>2. IsFiniteSet((DOMAIN nodes) \ {n}) /\ Cardinality((DOMAIN nodes) \ {n}) = Len(nodes) - 1
      BY NodesFinite, FS_RemoveElement
    <3>3. Cardinality(s.W) <= Len(nodes) - 1 /\ Cardinality(s.W) \in Nat
      BY <3>1, <3>2, FS_Subset, FS_CardinalityType
    <3> QED BY <2>5, <3>3, NodesFinite DEF Sound, Look
  <2>6. ~(Cardinality(s.W) < s.ef) => Grown(s, seen, {n}) /\ Grown(s, V2, {n})
    BY <2>5 DEF Grown, Sound, Look
  <2>7. Visit(p, s, n) \in {seen, V1, V2}
        /\ (Cardinality(s.W) < s.ef <=> Cardinality(s.W) < s.ef /\ Visit(p, s, n) = V1)
        /\ (~(Cardinality(s.W) < s.ef) => Visit(p, s, n) \in {seen, V2})
    BY <1>2 DEF Visit
  <2> QED BY <2>1, <2>3, <2>4, <2>6, <2>7
<1> QED BY <1>1, <1>2

\* f[i] is the search after the first i neighbours of list.
IsVisit(f, p, s, list, N) == f = [i \in 0..N |-> IF i = 0 THEN s ELSE Visit(p, f[i - 1], list[i])]

(* The loop over a copied list comes to its end. *)
LEMMA VisitExists ==
    ASSUME NEW p, NEW s, NEW list, NEW N \in Nat
    PROVE  \E f : IsVisit(f, p, s, list, N)
<1> DEFINE T == {n \in 0..N : \E f : IsVisit(f, p, s, list, n)}
<1>1. 0 \in T
  <2>1. IsVisit([i \in 0..0 |-> s], p, s, list, 0)
    BY DEF IsVisit
  <2> QED BY <2>1
<1>2. ASSUME NEW n \in 0..(N - 1), n \in T PROVE n + 1 \in T
  <2>1. PICK f : IsVisit(f, p, s, list, n)
    BY <1>2
  <2> DEFINE x == Visit(p, f[n], list[n + 1])
             g == [i \in 0..(n + 1) |-> IF i = n + 1 THEN x ELSE f[i]]
  <2>2. \A i \in 0..n : g[i] = f[i] /\ f[i] = IF i = 0 THEN s ELSE Visit(p, f[i - 1], list[i])
    BY <2>1 DEF IsVisit
  <2>3. g[n + 1] = x /\ g[n] = f[n]
    OBVIOUS
  <2>4. \A i \in 0..(n + 1) : g[i] = IF i = 0 THEN s ELSE Visit(p, g[i - 1], list[i])
    <3> SUFFICES ASSUME NEW i \in 0..(n + 1)
        PROVE g[i] = IF i = 0 THEN s ELSE Visit(p, g[i - 1], list[i])
      OBVIOUS
    <3> HIDE DEF g
    <3>1. CASE i = n + 1
      BY <3>1, <2>3
    <3>2. CASE i \in 1..n
      <4>1. i - 1 \in 0..n /\ i \in 0..n /\ i # 0
        BY <3>2
      <4> QED BY <4>1, <2>2
    <3>3. CASE i = 0
      BY <3>3, <2>2
    <3> QED BY <3>1, <3>2, <3>3
  <2>5. g = [i \in 0..(n + 1) |-> g[i]]
    OBVIOUS
  <2> HIDE DEF g
  <2>6. IsVisit(g, p, s, list, n + 1)
    BY <2>4, <2>5 DEF IsVisit
  <2> QED BY <2>6
<1> HIDE DEF T
<1>3. N \in T
  BY <1>1, <1>2, Induction
<1> QED BY <1>3 DEF T

(* search_layer over one list: it comes to all nodes of it. *)
LEMMA VisitEach ==
    ASSUME NodesTyped, NEW p \in Int, NEW s, Sound(s), NEW list \in Seq(Nat), ToSet(list) \subseteq DOMAIN nodes
    PROVE  Sound(VisitAll(p, s, list)) /\ Grown(s, VisitAll(p, s, list), ToSet(list))
<1> DEFINE N == Len(list)
<1>0. N \in Nat /\ DOMAIN list = 1..N
  OBVIOUS
<1>1. \E f : IsVisit(f, p, s, list, N)
  BY <1>0, VisitExists
<1> DEFINE f == CHOOSE f : IsVisit(f, p, s, list, N)
<1>2. IsVisit(f, p, s, list, N)
  BY <1>1
<1>3. VisitAll(p, s, list) = f[N]
  BY DEF VisitAll, IsVisit
<1>4. \A i \in 0..N : f[i] = IF i = 0 THEN s ELSE Visit(p, f[i - 1], list[i])
  BY <1>2 DEF IsVisit
<1> HIDE DEF f
<1> DEFINE T == {i \in 0..N : Sound(f[i]) /\ Grown(s, f[i], {list[j] : j \in 1..i})}
<1>5. 0 \in T
  <2>1. f[0] = s /\ {list[j] : j \in 1..0} = {}
    BY <1>0, <1>4
  <2> QED BY <1>0, <2>1 DEF Grown
<1>6. ASSUME NEW i \in 0..(N - 1), i \in T PROVE i + 1 \in T
  <2>1. f[i + 1] = Visit(p, f[i], list[i + 1])
    BY <1>4
  <2>2. list[i + 1] \in DOMAIN nodes
    BY <1>0 DEF ToSet
  <2>3. Sound(f[i + 1]) /\ Grown(f[i], f[i + 1], {list[i + 1]})
    BY <1>6, <2>1, <2>2, VisitOne
  <2>4. {list[j] : j \in 1..(i + 1)} = {list[j] : j \in 1..i} \cup {list[i + 1]}
    BY <1>0
  <2>5. Grown(s, f[i], {list[j] : j \in 1..i})
    BY <1>6
  <2>6. Grown(s, f[i + 1], {list[j] : j \in 1..(i + 1)})
    BY <2>3, <2>4, <2>5 DEF Grown
  <2> QED BY <1>0, <2>3, <2>6
<1>7. {list[j] : j \in 1..N} = ToSet(list)
  BY <1>0 DEF ToSet
<1> HIDE DEF T, N
<1>8. N \in T
  <2>1. \A i \in 0..(N - 1) : i \in T => i + 1 \in T
    BY <1>6
  <2>2. 0..N \subseteq T
    BY <1>0, <1>5, <2>1, Induction
  <2> QED BY <1>0, <2>2
<1> QED BY <1>3, <1>7, <1>8 DEF T

-----------------------------------------------------------------------------
(* What is linked to: some of the candidates, and no more than asked for. *)

LEMMA Selected ==
    ASSUME NEW p, NEW cands \in Seq(Nat), NEW m \in Nat, NEW chosen \in SelectNeighbors(p, cands, m)
    PROVE  /\ chosen \in Seq(Nat) /\ ToSet(chosen) \subseteq ToSet(cands) /\ Len(chosen) <= m
           /\ Len(cands) <= m => chosen = cands
           /\ Len(cands) > m => Len(chosen) = m
<1>1. CASE Len(cands) <= m
  BY <1>1 DEF SelectNeighbors
<1>2. CASE ~(Len(cands) <= m)
  <2>1. PICK pi \in Bijection(DOMAIN cands, DOMAIN cands) : chosen = [i \in 1..m |-> cands[pi[i]]]
    BY <1>2 DEF SelectNeighbors, Orders
  <2>2. pi \in [DOMAIN cands -> DOMAIN cands]
    BY DEF Bijection, Injection
  <2>3. \A i \in 1..m : chosen[i] \in Nat /\ chosen[i] \in ToSet(cands)
    <3> SUFFICES ASSUME NEW i \in 1..m PROVE chosen[i] \in Nat /\ chosen[i] \in ToSet(cands)
      OBVIOUS
    <3>1. i \in DOMAIN cands
      BY <1>2
    <3>2. chosen[i] = cands[pi[i]] /\ pi[i] \in DOMAIN cands
      BY <2>1, <2>2, <3>1
    <3> QED BY <3>2 DEF ToSet
  <2>4. DOMAIN chosen = 1..m /\ chosen = [i \in 1..m |-> chosen[i]]
    BY <2>1
  <2>5. chosen \in Seq(Nat) /\ Len(chosen) = m
    BY <2>3, <2>4
  <2>6. ToSet(chosen) \subseteq ToSet(cands)
    BY <2>3, <2>4 DEF ToSet
  <2> QED BY <1>2, <2>5, <2>6
<1> QED BY <1>1, <1>2

(* search_layer returns W in some order. *)
LEMMA Returned ==
    ASSUME NEW p, NEW W, IsFiniteSet(W), NEW q \in Result(p, W)
    PROVE  q \in Seq(W) /\ ToSet(q) \subseteq W /\ (W # {} => q # <<>>)
<1>1. q \in [1..Cardinality(W) -> W] /\ Cardinality(W) \in Nat
  BY FS_CardinalityType DEF Result, Bijection, Injection
<1>2. q \in Seq(W) /\ Len(q) = Cardinality(W)
  BY <1>1
<1>3. W # {} => Cardinality(W) # 0
  BY FS_EmptySet
<1>4. ToSet(q) \subseteq W
  BY <1>1 DEF ToSet
<1> QED BY <1>2, <1>3, <1>4

-----------------------------------------------------------------------------
(* What writing one list, or adding one node, leaves as it was. *)

\* The links of every layer but the list that is written stay, and so do points and heights.
Written(n, layer, list) ==
    /\ DOMAIN nodes' = DOMAIN nodes /\ Len(nodes') = Len(nodes) /\ nodes' \in Seq(Node)
    /\ \A k \in DOMAIN nodes : nodes'[k].point = nodes[k].point /\ Height(k)' = Height(k)
    /\ \A k \in DOMAIN nodes, c \in Layers :
          Links(k, c)' = IF k = n /\ c = layer THEN list ELSE Links(k, c)

(* One list of one node is written; nothing else of the nodes changes. *)
LEMMA ListIsWritten ==
    ASSUME NodesTyped, NEW n \in DOMAIN nodes, NEW layer \in 0..Height(n), NEW list \in Seq(Nat),
           nodes' = [nodes EXCEPT ![n].links[layer + 1] = list]
    PROVE  Written(n, layer, list)
<1>0. \A k \in DOMAIN nodes : nodes[k] \in Node
  BY DEF NodesTyped
<1> DEFINE new == [nodes[n].links EXCEPT ![layer + 1] = list]
<1>1. nodes[n].links \in Seq(Seq(Nat)) /\ layer + 1 \in DOMAIN nodes[n].links
  BY <1>0 DEF Height, Node
<1>2. new \in Seq(Seq(Nat)) /\ Len(new) = Len(nodes[n].links)
  BY <1>1
<1>3. \A c \in Nat : c + 1 <= Len(nodes[n].links) => new[c + 1] = IF c = layer THEN list ELSE nodes[n].links[c + 1]
  BY <1>1
<1>4. nodes' = [nodes EXCEPT ![n] = [nodes[n] EXCEPT !.links = new]]
  OBVIOUS
<1> HIDE DEF new
<1>5. [nodes[n] EXCEPT !.links = new] \in Node /\ [nodes[n] EXCEPT !.links = new].links = new
      /\ [nodes[n] EXCEPT !.links = new].point = nodes[n].point
  BY <1>0, <1>2 DEF Node
<1>6. /\ nodes' \in Seq(Node) /\ DOMAIN nodes' = DOMAIN nodes /\ Len(nodes') = Len(nodes)
      /\ \A k \in DOMAIN nodes : nodes'[k] = IF k = n THEN [nodes[n] EXCEPT !.links = new] ELSE nodes[k]
  <2> DEFINE rec == [nodes[n] EXCEPT !.links = new]
  <2>1. nodes' = [nodes EXCEPT ![n] = rec] /\ rec \in Node
    BY <1>4, <1>5
  <2> HIDE DEF rec
  <2>2. nodes' \in Seq(Node) /\ DOMAIN nodes' = DOMAIN nodes /\ Len(nodes') = Len(nodes)
    BY <2>1 DEF NodesTyped
  <2>3. \A k \in DOMAIN nodes : nodes'[k] = IF k = n THEN rec ELSE nodes[k]
    BY <2>1
  <2> QED BY <2>2, <2>3 DEF rec
<1>7. nodes'[n].links = new /\ nodes'[n].point = nodes[n].point
  BY <1>5, <1>6
<1>8. \A k \in DOMAIN nodes : k # n => nodes'[k] = nodes[k]
  BY <1>6
<1>9. \A k \in DOMAIN nodes : nodes'[k].point = nodes[k].point /\ Height(k)' = Height(k)
  BY <1>2, <1>7, <1>8 DEF Height
<1>10. ASSUME NEW k \in DOMAIN nodes, NEW c \in Layers
       PROVE  Links(k, c)' = IF k = n /\ c = layer THEN list ELSE Links(k, c)
  <2>0. c \in Nat /\ Len(nodes[k].links) \in Nat
    BY <1>0 DEF Layers, Node
  <2>1. CASE k # n
    BY <1>8, <2>1 DEF Links, Height
  <2>2. CASE k = n
    <3>1. Links(k, c)' = IF c <= Len(new) - 1 THEN new[c + 1] ELSE <<>>
      BY <1>7, <2>2 DEF Links, Height
    <3>2. Links(k, c) = IF c <= Len(new) - 1 THEN nodes[n].links[c + 1] ELSE <<>>
      BY <1>2, <2>2 DEF Links, Height
    <3>3. layer <= Len(new) - 1 /\ layer \in Nat /\ Len(new) \in Nat
      BY <1>1, <1>2 DEF Height
    <3>4. CASE c <= Len(new) - 1
      <4>1. c + 1 <= Len(nodes[n].links)
        BY <1>2, <2>0, <3>3, <3>4
      <4>2. new[c + 1] = IF c = layer THEN list ELSE nodes[n].links[c + 1]
        BY <1>3, <2>0, <4>1
      <4> QED BY <2>2, <3>1, <3>2, <3>4, <4>2
    <3>5. CASE ~(c <= Len(new) - 1)
      <4>1. c # layer
        BY <3>3, <3>5
      <4> QED BY <2>2, <3>1, <3>2, <3>5, <4>1
    <3> QED BY <3>4, <3>5
  <2> QED BY <2>1, <2>2
<1> QED BY <1>6, <1>9, <1>10 DEF Written

(* The nearest of some nodes stays the nearest. *)
LEMMA NearestStays ==
    ASSUME NEW p, NEW S, S \subseteq DOMAIN nodes, \A k \in DOMAIN nodes : nodes'[k].point = nodes[k].point
    PROVE  (CHOOSE n \in S : \A m \in S : DistTo(p, n)' <= DistTo(p, m)') = Nearest(p, S)
<1>1. \A n \in S : Dist(p, nodes'[n].point) = Dist(p, nodes[n].point)
  OBVIOUS
<1>2. \A n : n \in S /\ (\A m \in S : Dist(p, nodes'[n].point) <= Dist(p, nodes'[m].point))
             <=> n \in S /\ (\A m \in S : Dist(p, nodes[n].point) <= Dist(p, nodes[m].point))
  BY <1>1
<1> QED BY <1>2, Zenon DEF Nearest, DistTo

(* allocate_node_ leaves the nodes that are there as they are. *)
LEMMA NodeIsAdded ==
    ASSUME NodesTyped, NEW p \in Points, NEW l \in Layers, NEW new, new = Len(nodes) + 1,
           nodes' = Append(nodes, [point |-> p, links |-> [i \in 1..(l + 1) |-> <<>>]])
    PROVE  /\ nodes' \in Seq(Node) /\ Len(nodes') = Len(nodes) + 1
           /\ DOMAIN nodes' = DOMAIN nodes \cup {new} /\ new \notin DOMAIN nodes
           /\ \A k \in DOMAIN nodes : nodes'[k] = nodes[k] /\ Height(k)' = Height(k)
           /\ \A k \in DOMAIN nodes, c \in Layers : Links(k, c)' = Links(k, c)
           /\ nodes'[new].point = p /\ Height(new)' = l
           /\ \A c \in Layers : Links(new, c)' = <<>>
<1> DEFINE lists == [i \in 1..(l + 1) |-> <<>>]
           rec == [point |-> p, links |-> lists]
<1>1. l \in Nat /\ lists \in Seq(Seq(Nat)) /\ Len(lists) = l + 1 /\ \A c \in 0..l : lists[c + 1] = <<>>
  BY DEF Layers
<1>2. nodes' = Append(nodes, rec)
  OBVIOUS
<1> HIDE DEF lists
<1>3. rec \in Node /\ rec.links = lists /\ rec.point = p
  BY <1>1 DEF Node
<1> HIDE DEF rec
<1>4. /\ nodes' \in Seq(Node) /\ Len(nodes') = Len(nodes) + 1 /\ Len(nodes) \in Nat /\ DOMAIN nodes = 1..Len(nodes)
      /\ DOMAIN nodes' = 1..(Len(nodes) + 1) /\ nodes'[new] = rec
      /\ \A k \in DOMAIN nodes : nodes'[k] = nodes[k]
  BY <1>2, <1>3 DEF NodesTyped
<1>5. \A k \in DOMAIN nodes : Height(k)' = Height(k) /\ \A c \in Layers : Links(k, c)' = Links(k, c)
  BY <1>4 DEF Height, Links
<1>6. Height(new)' = l
  <2>1. Height(new)' = Len(lists) - 1
    BY <1>3, <1>4 DEF Height
  <2> QED BY <1>1, <2>1
<1>7. ASSUME NEW c \in Layers PROVE Links(new, c)' = <<>>
  <2>1. c \in Nat
    BY DEF Layers
  <2>2. CASE c <= l
    <3>1. Links(new, c)' = lists[c + 1]
      BY <1>3, <1>4, <1>6, <2>2 DEF Links
    <3> QED BY <1>1, <2>1, <2>2, <3>1
  <2>3. CASE ~(c <= l)
    BY <1>6, <2>3 DEF Links
  <2> QED BY <2>2, <2>3
<1> QED BY <1>3, <1>4, <1>5, <1>6, <1>7

-----------------------------------------------------------------------------
(* Where threads stand. *)

LEMMA Constants ==
    /\ MaxLayer \in Nat /\ M \in Nat /\ M > 0 /\ Ef \in Nat /\ Ef > 0 /\ EfSearch \in Nat /\ EfSearch > 0
    /\ Mmax \in Nat /\ Mmax > 0 /\ Mmax0 \in Nat /\ Mmax0 > 0
    /\ Points \subseteq Int /\ IsFiniteSet(Points)
    /\ Layers \subseteq Nat /\ 0 \in Layers
<1>1. {M, Mmax, Mmax0, Ef, EfSearch} \subseteq Nat \ {0} /\ {MaxLayer, MaxSearches} \subseteq Nat
      /\ Points \subseteq Int /\ IsFiniteSet(Points)
  BY HnswAssumption, Zenon
<1> QED BY <1>1 DEF Layers

\* No node loses a layer, and the entry point does not move down.
HeightsStay == /\ DOMAIN nodes \subseteq DOMAIN nodes' /\ top <= top'
               /\ \A k \in DOMAIN nodes : Height(k)' = Height(k)

(* A list that is written leaves every node its layers. *)
LEMMA TallStays ==
    ASSUME HeightsStay, NEW c
    PROVE  Tall(c) \subseteq Tall(c)'
  BY DEF HeightsStay, Tall

(* A thread that makes no step stands where it stood. *)
LEMMA OthersStand ==
    ASSUME NEW u, JobOK(u), LookOK(u), Types, Types', HeightsStay, u \in Threads,
           pc'[u] = pc[u], job'[u] = job[u], look'[u] = look[u], todo'[u] = todo[u], before'[u] = before[u]
    PROVE  JobOK(u)' /\ LookOK(u)'
<1>1. JobOK(u)'
  <2>1. top \in Int /\ top' \in Int /\ job[u].L \in Int
    <3>1. job[u] \in Job
      BY DEF Types
    <3>2. job[u].L \in Nat
      BY <3>1, Constants DEF Job
    <3> QED BY <3>2, Constants DEF Types
  <2>2. job[u].L <= top => job[u].L <= top'
    BY <2>1 DEF HeightsStay
  <2>3. top >= 0 => top' >= 0
    BY <2>1 DEF HeightsStay
  <2>4. job[u].id \in DOMAIN nodes => job[u].id \in DOMAIN nodes' /\ Height(job[u].id)' = Height(job[u].id)
    BY DEF HeightsStay
  <2> QED BY <2>2, <2>3, <2>4 DEF JobOK
<1>2. LookOK(u)'
  BY TallStays DEF LookOK
<1> QED BY <1>1, <1>2

(* A search of a layer begins. *)
LEMMA LookBegins ==
    ASSUME Types, NEW t \in Threads, NEW layer \in Layers, NEW n \in Nat, LookFrom(t, n, layer)
    PROVE  /\ pc' \in [Threads -> {"idle", "entry", "look", "back", "promote"}]
           /\ look' \in [Threads -> Look]
           /\ pc'[t] = "look" /\ look'[t].layer = layer
           /\ look'[t].visited = {n} /\ look'[t].cands = {n} /\ look'[t].W = {n} /\ look'[t].ef > 0
           /\ \A u \in Threads : u # t => pc'[u] = pc[u] /\ look'[u] = look[u] /\ before'[u] = before[u]
           /\ before'[t] = IF layer = 0 /\ job[t].type = "search" THEN Reach(n) ELSE {}
           /\ before' \in [Threads -> SUBSET Nat]
<1> DEFINE ef == IF layer > job[t].l THEN 1 ELSE IF job[t].type = "link" THEN Ef ELSE EfSearch
<1>1. ef \in Nat /\ ef > 0
  BY Constants
<1>2. look' = [look EXCEPT ![t] = From(n, layer, ef)] /\ pc' = [pc EXCEPT ![t] = "look"]
      /\ before' = [before EXCEPT ![t] = IF layer = 0 /\ job[t].type = "search" THEN Reach(n) ELSE {}]
  BY DEF LookFrom
<1> HIDE DEF ef
<1>3. From(n, layer, ef) \in Look
  BY <1>1 DEF From, Look
<1>4. Reach(n) \in SUBSET Nat
  BY NodesFinite DEF Reach, Types, NodesTyped
<1> QED BY <1>1, <1>2, <1>3, <1>4 DEF Types, Look, From

(* The locals of an idle thread. *)
LEMMA NoneTyped == NoJob \in Job /\ NoLook \in Look
  BY Constants DEF NoJob, NoNode, NoLook, Job, Look

(* There is no node at first, and every thread is idle. *)
LEMMA InitShape == Init => ShapeInv
<1> SUFFICES ASSUME Init PROVE ShapeInv
  OBVIOUS
<1>1. nodes \in Seq(Node) /\ Len(nodes) = 0 /\ DOMAIN nodes = {}
  BY DEF Init
<1>2. Cardinality(Points) \in Nat
  BY Constants, FS_CardinalityType
<1>3. Types
  <2>1. /\ pc \in [Threads -> {"idle", "entry", "look", "back", "promote"}]
        /\ job \in [Threads -> Job] /\ look \in [Threads -> Look]
        /\ todo \in [Threads -> Seq(Nat)] /\ before \in [Threads -> SUBSET Nat]
    BY NoneTyped DEF Init
  <2>2. entry \in 0..Len(nodes) /\ top \in -1..MaxLayer
    BY <1>1, Constants DEF Init, NoNode
  <2>3. linked \subseteq DOMAIN nodes /\ dropped \in BOOLEAN /\ searches \in Nat
    BY DEF Init
  <2> QED BY <1>1, <1>2, <2>1, <2>2, <2>3 DEF Types
<1>4. LinksInLayer
  BY <1>1 DEF LinksInLayer
<1>5. \A t \in Threads : JobOK(t) /\ LookOK(t)
  BY <1>1, Constants DEF Init, JobOK, LookOK, NoLook, ToSet
<1>6. EntryIsTallest
  BY <1>1 DEF Init, EntryIsTallest
<1> QED BY <1>3, <1>4, <1>5, <1>6 DEF ShapeInv

(* A call that returns. *)
LEMMA Returns ==
    ASSUME Types, NEW t \in Threads, Return(t)
    PROVE  /\ pc' \in [Threads -> {"idle", "entry", "look", "back", "promote"}]
           /\ job' \in [Threads -> Job]
           /\ look' \in [Threads -> Look] /\ todo' \in [Threads -> Seq(Nat)] /\ before' \in [Threads -> SUBSET Nat]
           /\ JobOK(t)' /\ LookOK(t)'
           /\ pc'[t] = "idle" /\ job'[t] = NoJob /\ look'[t] = NoLook /\ todo'[t] = <<>> /\ before'[t] = {}
           /\ \A u \in Threads : u # t => /\ pc'[u] = pc[u] /\ job'[u] = job[u] /\ look'[u] = look[u]
                                          /\ todo'[u] = todo[u] /\ before'[u] = before[u]
<1>1. NoJob \in Job
  BY NoneTyped
<1>2. NoLook \in Look /\ <<>> \in Seq(Nat) /\ ToSet(<<>>) = {}
  BY NoneTyped DEF ToSet
<1>3. /\ pc'[t] = "idle" /\ job'[t] = NoJob /\ look'[t] = NoLook /\ todo'[t] = <<>> /\ before'[t] = {}
      /\ \A u \in Threads : u # t => /\ pc'[u] = pc[u] /\ job'[u] = job[u] /\ look'[u] = look[u]
                                     /\ todo'[u] = todo[u] /\ before'[u] = before[u]
  BY DEF Return, Types
<1>4. JobOK(t)' /\ LookOK(t)'
  BY <1>2, <1>3 DEF JobOK, LookOK, NoLook
<1>5. /\ pc' \in [Threads -> {"idle", "entry", "look", "back", "promote"}]
      /\ job' \in [Threads -> Job]
      /\ look' \in [Threads -> Look] /\ todo' \in [Threads -> Seq(Nat)] /\ before' \in [Threads -> SUBSET Nat]
  BY <1>1, <1>2 DEF Return, Types
<1> QED BY <1>3, <1>4, <1>5

(* allocate_node_. *)
LEMMA AllocateShape ==
    ASSUME ShapeInv, NEW t \in Threads, Allocate(t)
    PROVE  ShapeInv'
<1> USE DEF ShapeInv
<1>1. PICK p \in Points, l \in 0..MaxLayer :
         /\ nodes' = Append(nodes, [point |-> p, links |-> [i \in 1..(l + 1) |-> <<>>]])
         /\ job' = [job EXCEPT ![t] = [NoJob EXCEPT !.type = "link", !.id = Len(nodes) + 1, !.point = p, !.l = l]]
  BY DEF Allocate
<1> DEFINE j == [NoJob EXCEPT !.type = "link", !.id = Len(nodes) + 1, !.point = p, !.l = l]
<1>2. PICK new : new = Len(nodes) + 1
  OBVIOUS
<1>3. NodesTyped /\ l \in Layers /\ Len(nodes) \in Nat
  BY NodesFinite DEF Types, NodesTyped, Layers
<1>4. /\ nodes' \in Seq(Node) /\ Len(nodes') = Len(nodes) + 1
      /\ DOMAIN nodes' = DOMAIN nodes \cup {new} /\ new \notin DOMAIN nodes
      /\ \A k \in DOMAIN nodes : nodes'[k] = nodes[k] /\ Height(k)' = Height(k)
      /\ \A k \in DOMAIN nodes, c \in Layers : Links(k, c)' = Links(k, c)
      /\ Height(new)' = l
      /\ \A c \in Layers : Links(new, c)' = <<>>
  BY <1>1, <1>2, <1>3, NodeIsAdded
<1>5. j \in Job
      /\ j.type = "link" /\ j.id = new /\ j.point = p /\ j.l = l
  <2>1. p \in Int /\ new \in Nat /\ j = [NoJob EXCEPT !.type = "link", !.id = new, !.point = p, !.l = l]
    BY <1>2, <1>3, Constants
  <2>2. NoJob \in Job
    BY NoneTyped
  <2> HIDE DEF j
  <2> QED BY <1>3, <2>1, <2>2 DEF Job
<1>6. Len(nodes') <= Cardinality(Points)
  BY <1>3, <1>4, Constants, FS_CardinalityType DEF Allocate
<1> HIDE DEF j
<1>7. Types'
  <2>1. job' = [job EXCEPT ![t] = j] /\ pc' = [pc EXCEPT ![t] = "entry"]
    BY <1>1 DEF Allocate, j
  <2>2. job' \in [Threads -> Job] /\ pc' \in [Threads -> {"idle", "entry", "look", "back", "promote"}]
    BY <1>5, <2>1 DEF Types
  <2> QED BY <1>3, <1>4, <1>6, <2>2 DEF Types, Allocate
<1>8. HeightsStay
  BY <1>4 DEF HeightsStay, Allocate, Types
<1>9. LinksInLayer'
  <2> SUFFICES ASSUME NEW n \in DOMAIN nodes', NEW c \in 0..(Height(n)'), Height(n)' \in Layers
      PROVE /\ Len(Links(n, c))' <= M \/ Len(Links(n, c))' <= Cap(c)
            /\ ToSet(Links(n, c))' \subseteq Tall(c)'
    BY <1>3, <1>4 DEF LinksInLayer, Cap
  <2>1. c \in Layers
    BY Constants DEF Layers
  <2>2. CASE n \in DOMAIN nodes
    BY <1>4, <1>8, <2>1, <2>2, TallStays DEF LinksInLayer, ToSet
  <2>3. CASE n = new
    BY <1>4, <2>1, <2>3, Constants DEF ToSet
  <2> QED BY <1>4, <2>2, <2>3
<1>10. ASSUME NEW u \in Threads PROVE JobOK(u)' /\ LookOK(u)'
  <2>1. CASE u = t
    <3>1. job'[t] = j /\ pc'[t] = "entry" /\ look'[t] = NoLook /\ todo'[t] = <<>> /\ before'[t] = {}
      BY <1>1 DEF Allocate, Types, JobOK, j
    <3>2. JobOK(t)'
      BY <1>4, <1>5, <3>1 DEF JobOK
    <3>3. LookOK(t)'
      BY <3>1 DEF LookOK, NoLook, ToSet
    <3> QED BY <2>1, <3>2, <3>3
  <2>2. CASE u # t
    <3>1. pc'[u] = pc[u] /\ job'[u] = job[u] /\ look'[u] = look[u] /\ todo'[u] = todo[u] /\ before'[u] = before[u]
      BY <1>1, <2>2 DEF Allocate, Types
    <3> QED BY <1>7, <1>8, <3>1, OthersStand
  <2> QED BY <2>1, <2>2
<1>11. EntryIsTallest'
  BY <1>4 DEF EntryIsTallest, Allocate, Types
<1> QED BY <1>7, <1>9, <1>10, <1>11

(* Most steps leave the graph as it is. *)
LEMMA SameNodes ==
    ASSUME nodes' = nodes
    PROVE  /\ \A n : Height(n)' = Height(n) /\ (\A c : Links(n, c)' = Links(n, c))
           /\ \A c : Tall(c)' = Tall(c)
           /\ LinksInLayer => LinksInLayer'
           /\ top \in Int /\ top' = top => HeightsStay
           /\ entry' = entry /\ top' = top /\ linked' = linked /\ EntryIsTallest => EntryIsTallest'
<1>1. \A n : Height(n)' = Height(n)
  BY DEF Height
<1>2. \A n, c : Links(n, c)' = Links(n, c)
  BY <1>1 DEF Links
<1>3. \A c : Tall(c)' = Tall(c)
  BY <1>1 DEF Tall
<1>4. LinksInLayer => LinksInLayer'
  BY <1>1, <1>2, <1>3 DEF LinksInLayer, Cap
<1>5. top \in Int /\ top' = top => HeightsStay
  BY <1>1 DEF HeightsStay
<1>6. entry' = entry /\ top' = top /\ linked' = linked /\ EntryIsTallest => EntryIsTallest'
  BY <1>1 DEF EntryIsTallest
<1> QED BY <1>1, <1>2, <1>3, <1>4, <1>5, <1>6

(* A query comes. *)
LEMMA BeginSearchShape ==
    ASSUME ShapeInv, NEW t \in Threads, BeginSearch(t)
    PROVE  ShapeInv'
<1> USE DEF ShapeInv
<1>1. PICK p \in Points : job' = [job EXCEPT ![t] = [NoJob EXCEPT !.type = "search", !.point = p]]
  BY DEF BeginSearch
<1> DEFINE j == [NoJob EXCEPT !.type = "search", !.point = p]
<1>2. j \in Job /\ j.type = "search" /\ j.point = p /\ j.l = 0
  <2>1. p \in Int /\ NoJob \in Job
    BY Constants, NoneTyped
  <2> QED BY <2>1 DEF Job, NoJob
<1> HIDE DEF j
<1>3. /\ pc' = [pc EXCEPT ![t] = "entry"] /\ job' = [job EXCEPT ![t] = j] /\ top >= 0 /\ pc[t] = "idle"
      /\ nodes' = nodes /\ entry' = entry /\ top' = top /\ look' = look /\ todo' = todo /\ linked' = linked
      /\ dropped' = dropped /\ before' = before /\ searches' = searches + 1
  BY <1>1 DEF BeginSearch, j
<1>4. Types'
  <2>1. job' \in [Threads -> Job] /\ pc' \in [Threads -> {"idle", "entry", "look", "back", "promote"}]
    BY <1>2, <1>3 DEF Types
  <2> QED BY <1>3, <2>1 DEF Types
<1>5. HeightsStay
  BY <1>3 DEF HeightsStay, Types, Height
<1>6. ASSUME NEW u \in Threads PROVE JobOK(u)' /\ LookOK(u)'
  <2>1. CASE u = t
    <3>1. job'[t] = j /\ pc'[t] = "entry" /\ look'[t] = NoLook /\ todo'[t] = <<>> /\ before'[t] = {}
      BY <1>3 DEF Types, JobOK
    <3>2. JobOK(t)'
      BY <1>2, <1>3, <3>1 DEF JobOK
    <3>3. LookOK(t)'
      BY <3>1 DEF LookOK, NoLook, ToSet
    <3> QED BY <2>1, <3>2, <3>3
  <2>2. CASE u # t
    <3>1. pc'[u] = pc[u] /\ job'[u] = job[u]
      BY <1>3, <2>2 DEF Types
    <3> QED BY <1>3, <1>4, <1>5, <3>1, OthersStand
  <2> QED BY <2>1, <2>2
<1>7. LinksInLayer' /\ EntryIsTallest'
  BY <1>3 DEF LinksInLayer, EntryIsTallest, Links, Height, Tall
<1> QED BY <1>4, <1>6, <1>7

(* What a search of a layer starts with. *)
LEMMA LookShape ==
    ASSUME Types, NEW t \in Threads, NEW layer \in Layers, NEW n \in Nat, LookFrom(t, n, layer),
           nodes' = nodes, n \in Tall(layer), todo'[t] = <<>>
    PROVE  LookOK(t)'
<1>1. n \in Tall(layer)'
  BY DEF Tall, Height
<1>2. /\ pc'[t] = "look" /\ look'[t].layer = layer
      /\ look'[t].visited = {n} /\ look'[t].cands = {n} /\ look'[t].W = {n} /\ look'[t].ef > 0
  BY LookBegins
<1>3. ToSet(<<>>) = {}
  BY DEF ToSet
<1> QED BY <1>1, <1>2, <1>3 DEF LookOK

(* The entry point is read, or set for the first node. *)
LEMMA ReadEntryShape ==
    ASSUME ShapeInv, NEW t \in Threads, ReadEntry(t)
    PROVE  ShapeInv'
<1> USE DEF ShapeInv
<1>0. pc[t] = "entry" /\ nodes' = nodes /\ dropped' = dropped /\ searches' = searches /\ top \in Int
  BY DEF ReadEntry, Types
<1>1. CASE top < 0
  <2>1. entry' = job[t].id /\ top' = job[t].l /\ linked' = linked \cup {job[t].id} /\ Return(t)
    BY <1>1 DEF ReadEntry
  <2>2. job[t].type = "link" /\ job[t].id \in DOMAIN nodes /\ job[t].l = Height(job[t].id)
    BY <1>0, <1>1 DEF JobOK
  <2>3. job[t].l \in Layers /\ job[t].l \in Nat /\ job[t].l <= MaxLayer
    <3>1. job[t] \in Job
      BY DEF Types
    <3> QED BY <3>1, Constants DEF Job, Layers
  <2>4. Types'
    <3>1. entry' \in 0..Len(nodes') /\ top' \in -1..MaxLayer /\ linked' \subseteq DOMAIN nodes'
      BY <1>0, <2>1, <2>2, <2>3, NodesFinite, Constants DEF Types, NodesTyped
    <3> QED BY <1>0, <2>1, <3>1, Returns DEF Types
  <2>5. HeightsStay
    BY <1>0, <1>1, <2>1, <2>3 DEF HeightsStay, Height
  <2>6. ASSUME NEW u \in Threads PROVE JobOK(u)' /\ LookOK(u)'
    <3>1. CASE u = t
      BY <2>1, <3>1, Returns
    <3>2. CASE u # t
      BY <2>1, <2>4, <2>5, <3>2, Returns, OthersStand
    <3> QED BY <3>1, <3>2
  <2>7. LinksInLayer'
    BY <1>0, SameNodes
  <2>8. EntryIsTallest'
    <3>1. \A n \in DOMAIN nodes : Height(n)' = Height(n) /\ Height(n) \in Layers
      BY <1>0 DEF Height, LinksInLayer
    <3>2. \A n \in linked : Height(n) <= top
      BY DEF EntryIsTallest
    <3>3. ASSUME NEW n \in linked PROVE FALSE
      <4>1. Height(n) \in Nat /\ Height(n) <= top
        BY <3>1, <3>2, Constants DEF Types
      <4> QED BY <1>0, <1>1, <4>1
    <3> QED BY <1>0, <2>1, <2>2, <2>3, <3>1, <3>3 DEF EntryIsTallest
  <2> QED BY <2>4, <2>6, <2>7, <2>8
<1>2. CASE ~(top < 0)
  <2>1. /\ job' = [job EXCEPT ![t].L = top] /\ LookFrom(t, entry, top)
        /\ entry' = entry /\ top' = top /\ todo' = todo /\ linked' = linked
    BY <1>2 DEF ReadEntry, StartLayer
  <2>2. top \in Layers /\ entry \in Tall(top) /\ entry \in Nat
    BY <1>0, <1>2, Constants DEF Types, EntryIsTallest, Tall, Layers
  <2>3. job' \in [Threads -> Job] /\ job'[t] = [job[t] EXCEPT !.L = top]
        /\ \A u \in Threads : u # t => job'[u] = job[u]
    BY <2>1, <2>2 DEF Types, Job
  <2>4. Types'
    BY <1>0, <2>1, <2>2, <2>3, LookBegins DEF Types
  <2>5. HeightsStay
    BY <1>0, <2>1 DEF HeightsStay, Height
  <2>6. ASSUME NEW u \in Threads PROVE JobOK(u)' /\ LookOK(u)'
    <3>1. CASE u = t
      <4>1. todo'[t] = <<>>
        BY <1>0, <2>1 DEF JobOK
      <4>2. LookOK(t)'
        BY <1>0, <2>1, <2>2, <4>1, LookShape
      <4>3. pc'[t] = "look"
        BY <2>1, <2>2, LookBegins
      <4>4. /\ job[t].type = job'[t].type /\ job[t].id = job'[t].id /\ job[t].l = job'[t].l
            /\ job[t].point = job'[t].point /\ job'[t].L = top
        BY <2>3 DEF Types, Job
      <4>5. \A n \in DOMAIN nodes : Height(n)' = Height(n)
        BY <1>0 DEF Height
      <4>6. JobOK(t)'
        BY <1>0, <2>1, <2>2, <4>1, <4>3, <4>4, <4>5, LookBegins DEF JobOK
      <4> QED BY <3>1, <4>2, <4>6
    <3>2. CASE u # t
      BY <2>1, <2>2, <2>3, <2>4, <2>5, <3>2, LookBegins, OthersStand
    <3> QED BY <3>1, <3>2
  <2>7. LinksInLayer' /\ EntryIsTallest'
    BY <1>0, <2>1 DEF LinksInLayer, EntryIsTallest, Links, Height, Tall
  <2> QED BY <2>4, <2>6, <2>7
<1> QED BY <1>1, <1>2

(* What a thread looks at, and copies. *)
LEMMA LookIsSound ==
    ASSUME ShapeInv, NEW t \in Threads, pc[t] \in {"look", "back"}
    PROVE  /\ Sound(look[t]) /\ look[t].layer \in Layers /\ NodesTyped
           /\ job[t].point \in Int /\ job[t].l \in Layers /\ job[t].L \in Layers
           /\ Nearest(job[t].point, look[t].W) \in look[t].W /\ IsFiniteSet(look[t].W)
<1>1. look[t] \in Look /\ job[t] \in Job /\ NodesTyped
  BY DEF ShapeInv, Types, NodesTyped
<1>2. look[t].layer \in Layers /\ job[t].point \in Int /\ job[t].l \in Layers /\ job[t].L \in Layers
  BY <1>1 DEF Look, Job
<1>3. look[t].visited \subseteq DOMAIN nodes
  BY DEF ShapeInv, LookOK, Tall
<1>4. Sound(look[t])
  BY <1>1, <1>3 DEF ShapeInv, LookOK, Sound
<1>5. look[t].W \subseteq DOMAIN nodes /\ look[t].W # {}
  BY <1>4 DEF Sound
<1>6. Nearest(job[t].point, look[t].W) \in look[t].W
  BY <1>1, <1>2, <1>5, NearestIs
<1>7. IsFiniteSet(look[t].W)
  BY <1>1, <1>5, NodesFinite, FS_Subset
<1> QED BY <1>1, <1>2, <1>4, <1>6, <1>7

(* A copied list. *)
LEMMA CopiedList ==
    ASSUME ShapeInv, NEW n \in DOMAIN nodes, NEW c \in Layers
    PROVE  Links(n, c) \in Seq(Nat) /\ ToSet(Links(n, c)) \subseteq Tall(c) /\ Tall(c) \subseteq DOMAIN nodes
           /\ DOMAIN nodes \subseteq Nat
<1>1. nodes[n] \in Node
  BY DEF ShapeInv, Types
<1>2. Links(n, c) \in Seq(Nat)
  BY <1>1, Constants DEF Links, Height, Node
<1>3. ToSet(Links(n, c)) \subseteq Tall(c)
  <2>1. CASE c <= Height(n)
    <3>1. c \in 0..Height(n)
      BY <2>1, Constants DEF ShapeInv, LinksInLayer
    <3> QED BY <3>1 DEF ShapeInv, LinksInLayer
  <2>2. CASE ~(c <= Height(n))
    BY <2>2 DEF Links, ToSet
  <2> QED BY <2>1, <2>2
<1>4. NodesTyped
  BY DEF ShapeInv, Types, NodesTyped
<1> QED BY <1>2, <1>3, <1>4, NodesFinite DEF Tall

(* search_layer copies the neighbours of a candidate. *)
LEMMA ExpandShape ==
    ASSUME ShapeInv, NEW t \in Threads, Expand(t)
    PROVE  /\ ShapeInv'
           /\ \E c \in look[t].cands :
                 LET s == [look[t] EXCEPT !.cands = @ \ {c}] IN
                 /\ look' = [look EXCEPT ![t] = VisitAll(job[t].point, s, Links(c, look[t].layer))]
                 /\ Sound(s) /\ Sound(look'[t]) /\ c \in DOMAIN nodes
                 /\ Grown(s, look'[t], ToSet(Links(c, look[t].layer)))
<1> DEFINE p == job[t].point
           c == Nearest(p, look[t].cands)
           s == [look[t] EXCEPT !.cands = @ \ {c}]
           list == Links(c, look[t].layer)
<1>1. /\ pc[t] = "look" /\ ~Over(p, look[t])
      /\ look' = [look EXCEPT ![t] = VisitAll(p, s, list)]
      /\ UNCHANGED <<graph, pc, job, todo, linked, dropped, before, searches>>
  BY DEF Expand
<1>2. Sound(look[t]) /\ look[t].layer \in Layers /\ NodesTyped /\ p \in Int
  BY <1>1, LookIsSound
<1>3. look[t].cands # {}
  BY <1>1 DEF Over
<1>4. c \in look[t].cands /\ c \in DOMAIN nodes
  BY <1>2, <1>3, NearestIs DEF Sound
<1>5. Sound(s) /\ s.layer = look[t].layer /\ s.visited = look[t].visited
  BY <1>2 DEF Sound, Look
<1>6. list \in Seq(Nat) /\ ToSet(list) \subseteq Tall(look[t].layer) /\ ToSet(list) \subseteq DOMAIN nodes
  BY <1>2, <1>4, CopiedList
<1> HIDE DEF p, c, s, list
<1>7. Sound(VisitAll(p, s, list)) /\ Grown(s, VisitAll(p, s, list), ToSet(list))
  BY <1>2, <1>5, <1>6, VisitEach
<1>8. look'[t] = VisitAll(p, s, list) /\ \A u \in Threads : u # t => look'[u] = look[u]
  BY <1>1 DEF ShapeInv, Types
<1>9. Types'
  <2>1. look' \in [Threads -> Look]
    BY <1>1, <1>7 DEF ShapeInv, Types, Sound
  <2> QED BY <1>1, <2>1 DEF ShapeInv, Types
<1>10. /\ \A d : Tall(d)' = Tall(d)
       /\ LinksInLayer' /\ HeightsStay /\ EntryIsTallest'
  BY <1>1, SameNodes DEF ShapeInv, Types
<1>11. ASSUME NEW u \in Threads PROVE JobOK(u)' /\ LookOK(u)'
  <2>1. CASE u = t
    <3>1. look'[t].layer = look[t].layer /\ look'[t].visited \subseteq Tall(look[t].layer)
      BY <1>5, <1>6, <1>7, <1>8 DEF Grown, ShapeInv, LookOK
    <3>2. LookOK(t)'
      BY <1>1, <1>7, <1>8, <1>10, <3>1 DEF LookOK, ShapeInv, Sound
    <3>3. JobOK(t)'
      BY <1>1, SameNodes DEF JobOK, ShapeInv
    <3> QED BY <2>1, <3>2, <3>3
  <2>2. CASE u # t
    BY <1>1, <1>8, <1>9, <1>10, <2>2, OthersStand DEF ShapeInv
  <2> QED BY <2>1, <2>2
<1>12. ShapeInv'
  BY <1>9, <1>10, <1>11 DEF ShapeInv
<1> QED BY <1>1, <1>4, <1>5, <1>7, <1>8, <1>12 DEF p, c, s, list

(* The next layer down. *)
LEMMA DownShape ==
    ASSUME ShapeInv, NEW t \in Threads, Down(t), pc[t] \in {"look", "back"}, look[t].layer > 0,
           pc[t] = "back" => todo[t] = <<>>,
           UNCHANGED <<graph, job, todo, linked, dropped, searches>>
    PROVE  ShapeInv'
<1> DEFINE n == Nearest(job[t].point, look[t].W)
           c == look[t].layer - 1
<1>1. LookFrom(t, n, c) /\ todo[t] = <<>>
  BY DEF Down, ShapeInv, JobOK
<1>2. n \in look[t].W /\ look[t].layer \in Layers
  BY LookIsSound
<1>3. c \in Layers /\ n \in Tall(c) /\ n \in Nat
  <2>1. n \in Tall(look[t].layer)
    BY <1>2 DEF ShapeInv, LookOK
  <2>2. c \in Layers /\ c < look[t].layer /\ look[t].layer \in Nat
    BY <1>2, Constants DEF Layers
  <2>3. Height(n) \in Nat
    BY <2>1, Constants DEF ShapeInv, LinksInLayer, Tall
  <2>4. NodesTyped
    BY DEF ShapeInv, Types, NodesTyped
  <2> QED BY <2>1, <2>2, <2>3, <2>4, NodesFinite DEF Tall
<1> HIDE DEF n, c
<1>4. Types'
  BY <1>1, <1>3, LookBegins DEF ShapeInv, Types
<1>5. LinksInLayer' /\ HeightsStay /\ EntryIsTallest'
  BY SameNodes DEF ShapeInv, Types
<1>6. ASSUME NEW u \in Threads PROVE JobOK(u)' /\ LookOK(u)'
  <2>1. CASE u = t
    <3>1. LookOK(t)'
      BY <1>1, <1>3, LookShape DEF ShapeInv
    <3>2. pc'[t] = "look"
      BY <1>1, <1>3, LookBegins DEF ShapeInv
    <3>3. JobOK(t)'
      BY <1>1, <1>3, <3>2, SameNodes, LookBegins DEF JobOK, ShapeInv
    <3> QED BY <2>1, <3>1, <3>3
  <2>2. CASE u # t
    BY <1>1, <1>3, <1>4, <1>5, <2>2, LookBegins, OthersStand DEF ShapeInv
  <2> QED BY <2>1, <2>2
<1> QED BY <1>4, <1>5, <1>6 DEF ShapeInv

(* The greedy descent goes one layer down. *)
LEMMA DescendShape ==
    ASSUME ShapeInv, NEW t \in Threads, Descend(t)
    PROVE  ShapeInv'
<1>1. pc[t] = "look" /\ look[t].layer > job[t].l /\ Down(t)
      /\ UNCHANGED <<graph, job, todo, linked, dropped, searches>>
  BY DEF Descend, Ended
<1>2. look[t].layer > 0
  <2>1. look[t].layer \in Layers /\ job[t].l \in Layers
    BY <1>1, LookIsSound
  <2>2. look[t].layer \in Nat /\ job[t].l \in Nat
    BY <2>1, Constants
  <2> QED BY <1>1, <2>2
<1> QED BY <1>1, <1>2, DownShape

(* A call that returns and leaves the nodes alone. *)
LEMMA ReturnShape ==
    ASSUME ShapeInv, NEW t \in Threads, Return(t), nodes' = nodes, dropped' = dropped, searches' = searches,
           top \in Int, top <= top', top' \in -1..MaxLayer, entry' \in 0..Len(nodes), linked' \subseteq DOMAIN nodes,
           EntryIsTallest'
    PROVE  ShapeInv'
<1>1. Types'
  BY Returns DEF ShapeInv, Types
<1>2. LinksInLayer' /\ HeightsStay
  BY SameNodes DEF ShapeInv, Types, HeightsStay
<1>3. ASSUME NEW u \in Threads PROVE JobOK(u)' /\ LookOK(u)'
  <2>1. CASE u = t
    BY <2>1, Returns DEF ShapeInv
  <2>2. CASE u # t
    BY <1>1, <1>2, <2>2, Returns, OthersStand DEF ShapeInv
  <2> QED BY <2>1, <2>2
<1> QED BY <1>1, <1>2, <1>3 DEF ShapeInv

(* A query is answered. *)
LEMMA AnswerShape ==
    ASSUME ShapeInv, NEW t \in Threads, Answer(t)
    PROVE  ShapeInv'
<1>1. Return(t) /\ UNCHANGED <<graph, linked, dropped, searches>>
  BY DEF Answer
<1>2. EntryIsTallest' /\ top \in Int
  BY <1>1, SameNodes DEF ShapeInv, Types
<1> QED BY <1>1, <1>2, ReturnShape DEF ShapeInv, Types

(* A list is written. *)
LEMMA WrittenShape ==
    ASSUME ShapeInv, NEW n \in DOMAIN nodes, NEW layer \in 0..Height(n), NEW list \in Seq(Nat),
           ToSet(list) \subseteq Tall(layer), Len(list) <= M \/ Len(list) <= Cap(layer),
           nodes' = [nodes EXCEPT ![n].links[layer + 1] = list],
           entry' = entry, top' = top, linked' = linked
    PROVE  /\ Written(n, layer, list) /\ layer \in Layers
           /\ LinksInLayer' /\ HeightsStay /\ EntryIsTallest'
           /\ \A c : Tall(c)' = Tall(c)
<1>1. Written(n, layer, list)
  BY ListIsWritten DEF ShapeInv, Types, NodesTyped
<1>2. \A k \in DOMAIN nodes : Height(k)' = Height(k) /\ DOMAIN nodes' = DOMAIN nodes
  BY <1>1 DEF Written
<1>3. \A c : Tall(c)' = Tall(c)
  BY <1>2 DEF Tall
<1>4. HeightsStay
  BY <1>2 DEF HeightsStay, ShapeInv, Types
<1>5. EntryIsTallest'
  BY <1>2 DEF EntryIsTallest, ShapeInv, Types
<1>6. LinksInLayer'
  <2> SUFFICES ASSUME NEW k \in DOMAIN nodes, NEW c \in 0..Height(k)
      PROVE /\ Len(Links(k, c)') <= M \/ Len(Links(k, c)') <= Cap(c)
            /\ ToSet(Links(k, c)') \subseteq Tall(c)
    BY <1>2, <1>3 DEF LinksInLayer, ToSet, ShapeInv, Cap
  <2>1. c \in Layers
    BY Constants DEF ShapeInv, LinksInLayer, Layers
  <2>2. Links(k, c)' = IF k = n /\ c = layer THEN list ELSE Links(k, c)
    BY <1>1, <2>1 DEF Written
  <2> QED BY <2>2 DEF ShapeInv, LinksInLayer
<1>7. layer \in Layers
  BY Constants DEF ShapeInv, LinksInLayer, Layers
<1> QED BY <1>1, <1>3, <1>4, <1>5, <1>6, <1>7

(* link() writes the list of its node: at most M neighbours, all with the layer. *)
LEMMA SetLinksShape ==
    ASSUME ShapeInv, NEW t \in Threads, SetLinks(t)
    PROVE  /\ ShapeInv' /\ look[t].layer \in Layers /\ look[t].layer <= job[t].l /\ job[t].id \in DOMAIN nodes
           /\ \E chosen \in Seq(Nat) :
                 /\ chosen # <<>> /\ ToSet(chosen) \subseteq look[t].W
                 /\ Written(job[t].id, look[t].layer, chosen)
                 /\ todo' = [todo EXCEPT ![t] = chosen]
                 /\ dropped' = (dropped \/ (look[t].layer = 0 /\ ~(ToSet(Links(job[t].id, 0)) \subseteq ToSet(chosen))))
<1> DEFINE p == job[t].point
           n == job[t].id
           layer == look[t].layer
<1>0. PICK q \in Result(p, look[t].W) : \E chosen \in SelectNeighbors(p, q, M) :
         /\ nodes' = [nodes EXCEPT ![n].links[layer + 1] = chosen]
         /\ dropped' = (dropped \/ (layer = 0 /\ ~(ToSet(Links(n, 0)) \subseteq ToSet(chosen))))
         /\ todo' = [todo EXCEPT ![t] = chosen]
  BY DEF SetLinks, ToTell
<1>1. PICK chosen \in SelectNeighbors(p, q, M) :
         /\ nodes' = [nodes EXCEPT ![n].links[layer + 1] = chosen]
         /\ dropped' = (dropped \/ (layer = 0 /\ ~(ToSet(Links(n, 0)) \subseteq ToSet(chosen))))
         /\ todo' = [todo EXCEPT ![t] = chosen]
  BY <1>0
<1>2. /\ pc[t] = "look" /\ layer <= job[t].l /\ job[t].type = "link" /\ pc' = [pc EXCEPT ![t] = "back"]
      /\ UNCHANGED <<entry, top, job, look, linked, before, searches>>
  BY DEF SetLinks, Ended
<1>3. /\ Sound(look[t]) /\ layer \in Layers /\ IsFiniteSet(look[t].W) /\ layer \in Nat
      /\ n \in DOMAIN nodes /\ job[t].l = Height(n) /\ Height(n) \in Layers /\ Height(n) \in Nat
  BY <1>2, LookIsSound, Constants DEF ShapeInv, JobOK, LinksInLayer
<1>4. q \in Seq(look[t].W) /\ ToSet(q) \subseteq look[t].W /\ q # <<>>
  BY <1>3, Returned DEF Sound
<1>5. look[t].W \subseteq Nat /\ look[t].W \subseteq Tall(layer)
  BY <1>2, <1>3 DEF ShapeInv, LookOK, Sound, Look
<1>6. q \in Seq(Nat)
  BY <1>4, <1>5
<1>7. chosen \in Seq(Nat) /\ ToSet(chosen) \subseteq look[t].W /\ Len(chosen) <= M /\ chosen # <<>>
  <2>1. M \in Nat /\ M > 0
    BY Constants
  <2>2. /\ chosen \in Seq(Nat) /\ ToSet(chosen) \subseteq ToSet(q) /\ Len(chosen) <= M /\ chosen # <<>>
    <3>1. q \in Seq(Nat) /\ q # <<>> /\ chosen \in SelectNeighbors(p, q, M)
      BY <1>4, <1>6
    <3>2. /\ chosen \in Seq(Nat) /\ ToSet(chosen) \subseteq ToSet(q) /\ Len(chosen) <= M
          /\ Len(q) <= M => chosen = q
          /\ Len(q) > M => Len(chosen) = M
      BY <2>1, <3>1, Selected
    <3> QED BY <2>1, <3>1, <3>2
  <2> QED BY <1>4, <2>2
<1>8. layer \in 0..Height(n)
  BY <1>2, <1>3
<1> HIDE DEF p, n, layer
<1>9. /\ Written(n, layer, chosen)
      /\ LinksInLayer' /\ HeightsStay /\ EntryIsTallest' /\ \A c : Tall(c)' = Tall(c)
  BY <1>1, <1>2, <1>3, <1>5, <1>7, <1>8, WrittenShape
<1>10. /\ pc'[t] = "back" /\ todo'[t] = chosen
       /\ \A u \in Threads : u # t => pc'[u] = pc[u] /\ todo'[u] = todo[u]
  BY <1>1, <1>2 DEF ShapeInv, Types
<1>11. Types'
  <2>1. /\ pc' \in [Threads -> {"idle", "entry", "look", "back", "promote"}]
        /\ todo' \in [Threads -> Seq(Nat)] /\ dropped' \in BOOLEAN
    BY <1>1, <1>2, <1>7 DEF ShapeInv, Types
  <2>2. nodes' \in Seq(Node) /\ Len(nodes') = Len(nodes) /\ DOMAIN nodes' = DOMAIN nodes
    BY <1>9 DEF Written
  <2> QED BY <1>2, <2>1, <2>2 DEF ShapeInv, Types
<1>12. ASSUME NEW u \in Threads PROVE JobOK(u)' /\ LookOK(u)'
  <2>1. CASE u = t
    <3>1. LookOK(t)'
      BY <1>2, <1>5, <1>7, <1>9, <1>10 DEF ShapeInv, LookOK, layer
    <3>3. \A k \in DOMAIN nodes : k \in DOMAIN nodes' /\ Height(k)' = Height(k)
      BY <1>9 DEF Written
    <3>4. before[t] = {}
      BY <1>2, <1>3 DEF ShapeInv, JobOK
    <3>5. JobOK(t)'
      BY <1>2, <1>10, <3>3, <3>4 DEF JobOK, ShapeInv
    <3> QED BY <2>1, <3>1, <3>5
  <2>2. CASE u # t
    BY <1>2, <1>9, <1>10, <1>11, <2>2, OthersStand DEF ShapeInv
  <2> QED BY <2>1, <2>2
<1>13. ShapeInv'
  BY <1>9, <1>11, <1>12 DEF ShapeInv
<1> QED BY <1>1, <1>2, <1>3, <1>7, <1>9, <1>13 DEF n, layer

(* link() adds its node to the list of a neighbour, pruned to the cap. *)
LEMMA BackLinkShape ==
    ASSUME ShapeInv, NEW t \in Threads, BackLink(t)
    PROVE  /\ ShapeInv' /\ look[t].layer \in Layers /\ job[t].id \in DOMAIN nodes
           /\ Head(todo[t]) \in DOMAIN nodes /\ Head(todo[t]) \in ToSet(todo[t])
           /\ ToSet(todo[t]) \subseteq ToSet(Tail(todo[t])) \cup {Head(todo[t])}
           /\ ToSet(Tail(todo[t])) \subseteq ToSet(todo[t])
           /\ \E new \in Seq(Nat) :
                 /\ ToSet(new) \subseteq ToSet(Links(Head(todo[t]), look[t].layer)) \cup {job[t].id}
                 /\ Written(Head(todo[t]), look[t].layer, new)
                 /\ dropped' = (dropped \/ (look[t].layer = 0 /\
                        ~(ToSet(Links(Head(todo[t]), 0)) \cup {job[t].id} \subseteq ToSet(new))))
<1> DEFINE e == Head(todo[t])
           n == job[t].id
           layer == look[t].layer
<1>1. PICK new \in WithLink(e, layer, n) :
         /\ nodes' = [nodes EXCEPT ![e].links[layer + 1] = new]
         /\ dropped' = (dropped \/ (layer = 0 /\ ~(ToSet(Links(e, 0)) \cup {n} \subseteq ToSet(new))))
  BY DEF BackLink
<1>2. /\ pc[t] = "back" /\ todo[t] # <<>> /\ todo' = [todo EXCEPT ![t] = Tail(todo[t])]
      /\ UNCHANGED <<entry, top, pc, job, look, linked, before, searches>>
  BY DEF BackLink
<1>3. /\ layer \in Layers /\ layer \in Nat /\ layer <= job[t].l /\ NodesTyped
      /\ n \in DOMAIN nodes /\ job[t].l = Height(n) /\ Height(n) \in Layers /\ Height(n) \in Nat
  BY <1>2, LookIsSound, Constants DEF ShapeInv, JobOK, LookOK, LinksInLayer
<1>4. /\ e \in ToSet(todo[t]) /\ ToSet(todo[t]) \subseteq Tall(layer) /\ Tail(todo[t]) \in Seq(Nat)
      /\ ToSet(Tail(todo[t])) \subseteq ToSet(todo[t])
      /\ ToSet(todo[t]) \subseteq ToSet(Tail(todo[t])) \cup {e}
  <2>1. todo[t] \in Seq(Nat) /\ Len(todo[t]) \in Nat /\ Len(todo[t]) > 0
    BY <1>2 DEF ShapeInv, Types
  <2>2. e = todo[t][1] /\ 1 \in DOMAIN todo[t]
    BY <2>1
  <2>3. \A i \in DOMAIN Tail(todo[t]) : Tail(todo[t])[i] = todo[t][i + 1] /\ i + 1 \in DOMAIN todo[t]
    BY <2>1
  <2>4. \A i \in DOMAIN todo[t] : i = 1 \/ (i - 1 \in DOMAIN Tail(todo[t]) /\ Tail(todo[t])[i - 1] = todo[t][i])
    BY <2>1
  <2>5. Tail(todo[t]) \in Seq(Nat)
    BY <2>1
  <2>6. e \in ToSet(todo[t])
    BY <2>2 DEF ToSet
  <2>7. ToSet(Tail(todo[t])) \subseteq ToSet(todo[t])
    BY <2>3 DEF ToSet
  <2>8. ToSet(todo[t]) \subseteq ToSet(Tail(todo[t])) \cup {e}
    BY <2>2, <2>4 DEF ToSet
  <2>9. ToSet(todo[t]) \subseteq Tall(layer)
    BY DEF ShapeInv, LookOK
  <2> QED BY <2>5, <2>6, <2>7, <2>8, <2>9
<1>5. e \in DOMAIN nodes /\ layer <= Height(e) /\ Height(e) \in Nat
  BY <1>4, Constants DEF Tall, ShapeInv, LinksInLayer
<1>6. Links(e, layer) \in Seq(Nat) /\ ToSet(Links(e, layer)) \subseteq Tall(layer) /\ DOMAIN nodes \subseteq Nat
  BY <1>3, <1>5, CopiedList
<1> DEFINE list == Append(Links(e, layer), n)
<1>7. list \in Seq(Nat) /\ ToSet(list) = ToSet(Links(e, layer)) \cup {n}
  <2>1. n \in Nat
    BY <1>3, <1>6
  <2> HIDE DEF n
  <2>2. list \in Seq(Nat) /\ Len(list) = Len(Links(e, layer)) + 1 /\ Len(Links(e, layer)) \in Nat
        /\ DOMAIN list = 1..(Len(Links(e, layer)) + 1) /\ DOMAIN Links(e, layer) = 1..Len(Links(e, layer))
    BY <1>6, <2>1
  <2>3. list[Len(Links(e, layer)) + 1] = n /\ \A i \in DOMAIN Links(e, layer) : list[i] = Links(e, layer)[i]
    BY <1>6, <2>1
  <2>4. \A i \in DOMAIN list : i = Len(Links(e, layer)) + 1 \/ i \in DOMAIN Links(e, layer)
    BY <2>2
  <2> HIDE DEF list
  <2> QED BY <2>2, <2>3, <2>4 DEF ToSet
<1>8. Cap(layer) \in Nat /\ n \in Tall(layer)
  BY <1>3, Constants DEF Cap, Tall
<1>9. new \in Seq(Nat) /\ ToSet(new) \subseteq ToSet(list) /\ Len(new) <= Cap(layer)
  <2>1. new \in SelectNeighbors(nodes[e].point, list, Cap(layer))
    BY <1>1 DEF WithLink
  <2> HIDE DEF list
  <2> QED BY <1>7, <1>8, <2>1, Selected
<1>10. ToSet(new) \subseteq Tall(layer)
  BY <1>6, <1>7, <1>8, <1>9
<1>11. layer \in 0..Height(e)
  BY <1>3, <1>5
<1> HIDE DEF e, n, layer, list
<1>12. /\ Written(e, layer, new)
       /\ LinksInLayer' /\ HeightsStay /\ EntryIsTallest' /\ \A c : Tall(c)' = Tall(c)
  BY <1>1, <1>2, <1>5, <1>9, <1>10, <1>11, WrittenShape
<1>13. todo'[t] = Tail(todo[t]) /\ \A u \in Threads : u # t => todo'[u] = todo[u]
  BY <1>2 DEF ShapeInv, Types
<1>14. Types'
  <2>1. todo' \in [Threads -> Seq(Nat)] /\ dropped' \in BOOLEAN
    BY <1>1, <1>2, <1>4 DEF ShapeInv, Types
  <2>2. nodes' \in Seq(Node) /\ Len(nodes') = Len(nodes) /\ DOMAIN nodes' = DOMAIN nodes
    BY <1>12 DEF Written
  <2> QED BY <1>2, <2>1, <2>2 DEF ShapeInv, Types
<1>15. ASSUME NEW u \in Threads PROVE JobOK(u)' /\ LookOK(u)'
  <2>1. CASE u = t
    <3>1. LookOK(t)'
      BY <1>2, <1>4, <1>12, <1>13 DEF ShapeInv, LookOK, layer
    <3>2. \A k \in DOMAIN nodes : k \in DOMAIN nodes' /\ Height(k)' = Height(k)
      BY <1>12 DEF Written
    <3>3. JobOK(t)'
      BY <1>2, <3>2 DEF JobOK, ShapeInv
    <3> QED BY <2>1, <3>1, <3>3
  <2>2. CASE u # t
    BY <1>2, <1>12, <1>13, <1>14, <2>2, OthersStand DEF ShapeInv
  <2> QED BY <2>1, <2>2
<1>16. ShapeInv'
  BY <1>12, <1>14, <1>15 DEF ShapeInv
<1> QED BY <1>1, <1>3, <1>4, <1>5, <1>7, <1>9, <1>12, <1>16 DEF e, n, layer

(* link() goes on with the next layer, waits for the entry lock, or returns. *)
LEMMA NextLayerShape ==
    ASSUME ShapeInv, NEW t \in Threads, NextLayer(t)
    PROVE  ShapeInv'
<1>1. pc[t] = "back" /\ todo[t] = <<>> /\ UNCHANGED <<graph, dropped, searches>>
  BY DEF NextLayer
<1>2. job[t].type = "link" /\ job[t].l \in Layers /\ job[t].L \in Layers /\ job[t].id \in DOMAIN nodes
      /\ job[t].l = Height(job[t].id) /\ job[t].L <= top
  BY <1>1, LookIsSound DEF ShapeInv, JobOK
<1>3. CASE look[t].layer > 0
  <2>1. Down(t) /\ UNCHANGED <<job, todo, linked>>
    BY <1>3 DEF NextLayer
  <2> QED BY <1>1, <1>3, <2>1, DownShape
<1>4. CASE ~(look[t].layer > 0) /\ job[t].l > job[t].L
  <2>1. pc' = [pc EXCEPT ![t] = "promote"] /\ UNCHANGED <<job, look, todo, linked, before>>
    BY <1>4 DEF NextLayer
  <2>2. Types'
    <3>1. pc' \in [Threads -> {"idle", "entry", "look", "back", "promote"}]
      BY <2>1 DEF ShapeInv, Types
    <3> QED BY <1>1, <2>1, <3>1 DEF ShapeInv, Types
  <2>3. LinksInLayer' /\ HeightsStay /\ EntryIsTallest'
    BY <1>1, <2>1, SameNodes DEF ShapeInv, Types
  <2>4. ASSUME NEW u \in Threads PROVE JobOK(u)' /\ LookOK(u)'
    <3>1. CASE u = t
      <4>1. LookOK(t)'
        BY <1>1, <2>1, SameNodes DEF LookOK, ShapeInv, Types
      <4>2. JobOK(t)'
        BY <1>1, <1>2, <1>4, <2>1, SameNodes DEF JobOK, ShapeInv, Types
      <4> QED BY <3>1, <4>1, <4>2
    <3>2. CASE u # t
      BY <1>1, <2>1, <2>2, <2>3, <3>2, OthersStand DEF ShapeInv, Types
    <3> QED BY <3>1, <3>2
  <2> QED BY <2>2, <2>3, <2>4 DEF ShapeInv
<1>5. CASE ~(look[t].layer > 0) /\ ~(job[t].l > job[t].L)
  <2>1. Return(t) /\ linked' = linked \cup {job[t].id}
    BY <1>5 DEF NextLayer
  <2>2. job[t].l <= top /\ top \in Int
    <3>1. job[t].l \in Nat /\ job[t].L \in Nat /\ top \in Int
      <4>1. top \in Int
        BY Constants DEF ShapeInv, Types
      <4>2. job[t].l \in Nat /\ job[t].L \in Nat
        BY <1>2, Constants
      <4> QED BY <4>1, <4>2
    <3> QED BY <1>2, <1>5, <3>1
  <2>3. EntryIsTallest'
    BY <1>1, <1>2, <2>1, <2>2, SameNodes DEF ShapeInv, EntryIsTallest
  <2>4. linked' \subseteq DOMAIN nodes
    BY <1>2, <2>1 DEF ShapeInv, Types
  <2> QED BY <1>1, <2>1, <2>2, <2>3, <2>4, ReturnShape DEF ShapeInv, Types
<1> QED BY <1>3, <1>4, <1>5

(* Under the entry lock a taller node becomes the entry point. *)
LEMMA PromoteShape ==
    ASSUME ShapeInv, NEW t \in Threads, Promote(t)
    PROVE  ShapeInv'
<1>1. pc[t] = "promote" /\ Return(t) /\ linked' = linked \cup {job[t].id} /\ UNCHANGED <<nodes, dropped, searches>>
  BY DEF Promote
<1>2. job[t].type = "link" /\ job[t].id \in DOMAIN nodes /\ job[t].l = Height(job[t].id)
      /\ job[t].l \in Layers /\ job[t].l \in Nat /\ job[t].l <= MaxLayer
  <2>1. job[t] \in Job
    BY DEF ShapeInv, Types
  <2> QED BY <1>1, <2>1, Constants DEF ShapeInv, JobOK, Job, Layers
<1>3. top \in Int /\ top \in -1..MaxLayer /\ linked' \subseteq DOMAIN nodes /\ entry \in 0..Len(nodes)
      /\ DOMAIN nodes = 1..Len(nodes) /\ Len(nodes) \in Nat
  BY <1>1, <1>2, NodesFinite DEF ShapeInv, Types, NodesTyped
<1>4. \A n : Height(n)' = Height(n)
  BY <1>1, SameNodes
<1>5. \A n \in linked : Height(n) <= top /\ Height(n) \in Nat
  BY Constants DEF ShapeInv, EntryIsTallest, Types, LinksInLayer
<1>6. CASE job[t].l > top
  <2>1. top' = job[t].l /\ entry' = job[t].id
    BY <1>6 DEF Promote, Promotes
  <2>2. \A n \in linked' : Height(n) <= job[t].l
    BY <1>1, <1>2, <1>3, <1>5, <1>6
  <2>3. EntryIsTallest'
    BY <1>1, <1>2, <1>4, <2>1, <2>2 DEF EntryIsTallest
  <2>4. top <= top' /\ top' \in -1..MaxLayer /\ entry' \in 0..Len(nodes)
    BY <1>2, <1>3, <1>6, <2>1, Constants
  <2> QED BY <1>1, <1>3, <2>3, <2>4, ReturnShape
<1>7. CASE ~(job[t].l > top)
  <2>1. top' = top /\ entry' = entry
    BY <1>7 DEF Promote, Promotes
  <2>2. \A n \in linked' : Height(n) <= top
    BY <1>1, <1>2, <1>3, <1>5, <1>7
  <2>3. EntryIsTallest'
    BY <1>1, <1>4, <2>1, <2>2 DEF EntryIsTallest, ShapeInv
  <2> QED BY <1>1, <1>3, <2>1, <2>3, ReturnShape
<1> QED BY <1>6, <1>7

(* Every step keeps the shape. *)
LEMMA ShapeStep ==
    ASSUME ShapeInv, [Next]_vars
    PROVE  ShapeInv'
<1>1. CASE UNCHANGED vars
  <2>1. UNCHANGED <<nodes, entry, top, pc, job, look, todo, linked, dropped, before, searches>>
    BY <1>1 DEF vars
  <2>2. Types' /\ LinksInLayer' /\ HeightsStay /\ EntryIsTallest'
    BY <2>1, SameNodes DEF ShapeInv, Types
  <2> QED BY <2>1, <2>2, OthersStand DEF ShapeInv
<1>2. CASE Next
  <2>1. PICK t \in Threads : Allocate(t) \/ ReadEntry(t) \/ Expand(t) \/ Descend(t) \/ Link(t) \/ Search(t)
    BY <1>2 DEF Next
  <2> QED BY <2>1, AllocateShape, ReadEntryShape, ExpandShape, DescendShape, SetLinksShape, BackLinkShape,
             NextLayerShape, PromoteShape, BeginSearchShape, AnswerShape DEF Link, Search
<1> QED BY <1>1, <1>2

(* What the walks and the forest stand on. *)
LEMMA ShapeHolds == Spec => []ShapeInv
  BY InitShape, ShapeStep, PTL DEF Spec

(* The shape is more than the properties of the runs. *)
LEMMA ShapeImpliesTypes ==
    ASSUME ShapeInv
    PROVE  TypeOK
<1>1. entry \in 0..Len(nodes) /\ top \in -1..MaxLayer /\ linked \subseteq DOMAIN nodes /\ dropped \in BOOLEAN
  BY DEF ShapeInv, Types
<1>2. ASSUME NEW n \in DOMAIN nodes, NEW layer \in 0..Height(n)
      PROVE  /\ Len(Links(n, layer)) <= M \/ Len(Links(n, layer)) <= Cap(layer)
             /\ \A e \in ToSet(Links(n, layer)) : e \in DOMAIN nodes /\ layer <= Height(e)
  BY DEF ShapeInv, LinksInLayer, Tall
<1>3. ASSUME NEW t \in Threads
      PROVE  /\ pc[t] \in {"idle", "entry", "look", "back", "promote"}
             /\ job[t].type \in {"none", "link", "search"}
             /\ pc[t] # "idle" => job[t].point \in Points
             /\ look[t].W \subseteq look[t].visited
             /\ look[t].visited \subseteq {n \in DOMAIN nodes : Height(n) >= look[t].layer}
  <2>1. job[t] \in Job /\ look[t] \in Look /\ pc[t] \in {"idle", "entry", "look", "back", "promote"}
    BY DEF ShapeInv, Types
  <2>2. \A n \in DOMAIN nodes : Height(n) \in Nat /\ look[t].layer \in Nat
    BY <2>1, Constants DEF ShapeInv, LinksInLayer, Look
  <2>3. look[t].visited \subseteq {n \in DOMAIN nodes : Height(n) >= look[t].layer}
    BY <2>2 DEF ShapeInv, LookOK, Tall
  <2> QED BY <2>1, <2>3 DEF ShapeInv, JobOK, LookOK, Job
<1> QED BY <1>1, <1>2, <1>3 DEF TypeOK

(* Nothing is read outside its bounds: a link of a layer leads to a node that has the layer,
   lists stay within their caps, and the entry point belongs to its layer and no node whose
   link() has returned is taller, for every interleaving of allocate, link and search. *)
THEOREM GraphIsInShape == Spec => [](TypeOK /\ EntryIsTallest)
<1>1. ShapeInv => TypeOK /\ EntryIsTallest
  BY ShapeImpliesTypes DEF ShapeInv
<1> QED BY <1>1, ShapeHolds, PTL

-----------------------------------------------------------------------------
(* How far a search of the bottom layer has come. *)

\* What WalkInv says of one thread.
WalkOK(t) ==
    /\ ~Walks(t) => before[t] = {}
    /\ Walks(t) => look[t].ef = EfSearch
    /\ Walks(t) /\ Cardinality(Points) <= EfSearch =>
          /\ look[t].W = look[t].visited
          /\ ~dropped => \A S \in SUBSET DOMAIN nodes : Holds(t, S) => before[t] \subseteq S

\* No list of layer 0 gets shorter, unless a link is dropped.
ListsGrow == /\ DOMAIN nodes \subseteq DOMAIN nodes' /\ (dropped => dropped')
             /\ ~dropped' => \A k \in DOMAIN nodes : ToSet(Links(k, 0)) \subseteq ToSet(Links(k, 0)')

(* What other threads do to the lists does not throw a walk back. *)
LEMMA WalkStays ==
    ASSUME ShapeInv, NEW u \in Threads, WalkOK(u), ListsGrow,
           pc'[u] = pc[u], job'[u] = job[u], look'[u] = look[u], before'[u] = before[u]
    PROVE  WalkOK(u)'
<1>1. Walks(u)' = Walks(u)
  BY DEF Walks
<1>2. look[u].visited \subseteq DOMAIN nodes
  BY DEF ShapeInv, LookOK, Tall
<1>3. ASSUME Walks(u), Cardinality(Points) <= EfSearch, ~dropped', NEW S \in SUBSET DOMAIN nodes', Holds(u, S)'
      PROVE  before[u] \subseteq S
  <2> DEFINE R == S \cap DOMAIN nodes
  <2>1. look[u].visited \subseteq S
        /\ \A m \in S : m \in look[u].visited \ look[u].cands \/ ToSet(Links(m, 0)') \subseteq S
    BY <1>3 DEF Holds, ToSet
  <2>2. \A m \in R : ToSet(Links(m, 0)) \subseteq DOMAIN nodes /\ ToSet(Links(m, 0)) \subseteq ToSet(Links(m, 0)')
    BY <1>3, CopiedList, Constants DEF ListsGrow
  <2>3. Holds(u, R)
    BY <1>2, <2>1, <2>2 DEF Holds
  <2>4. before[u] \subseteq R
    BY <1>3, <2>3 DEF WalkOK, ListsGrow
  <2> QED BY <2>4
<1> QED BY <1>1, <1>3 DEF WalkOK, ListsGrow

(* A thread that is not in the last layer of a query. *)
LEMMA NoWalk ==
    ASSUME NEW t, before'[t] = {}, pc'[t] # "look" \/ job'[t].type # "search" \/ look'[t].layer # 0
    PROVE  WalkOK(t)'
  BY DEF WalkOK, Walks

(* The last layer begins with what can be found from its first node. *)
LEMMA WalkBegins ==
    ASSUME ShapeInv, NEW t \in Threads, NEW layer \in Layers, NEW n \in DOMAIN nodes, LookFrom(t, n, layer),
           nodes' = nodes, job'[t].type = job[t].type, job[t].type = "search" => job[t].l = 0
    PROVE  WalkOK(t)'
<1>0. n \in Nat
  BY NodesFinite DEF ShapeInv, Types, NodesTyped
<1>1. /\ pc'[t] = "look" /\ look'[t].layer = layer
      /\ look'[t].visited = {n} /\ look'[t].cands = {n} /\ look'[t].W = {n}
      /\ before'[t] = IF layer = 0 /\ job[t].type = "search" THEN Reach(n) ELSE {}
  BY <1>0, LookBegins DEF ShapeInv
<1>2. CASE ~(layer = 0 /\ job[t].type = "search")
  BY <1>1, <1>2 DEF WalkOK, Walks
<1>3. CASE layer = 0 /\ job[t].type = "search"
  <2>1. look'[t].ef = EfSearch
    BY <1>3 DEF LookFrom, From, ShapeInv, Types
  <2>2. ASSUME NEW S \in SUBSET DOMAIN nodes, Holds(t, S)' PROVE Reach(n) \subseteq S
    <3>1. n \in S /\ \A m \in S : ToSet(Links(m, 0)') \subseteq S
      BY <1>1, <2>2 DEF Holds, ToSet
    <3>2. n \in S /\ Closed(S)
      BY <3>1, SameNodes DEF Closed
    <3> QED BY <3>2 DEF Reach
  <2> QED BY <1>1, <1>3, <2>1, <2>2 DEF WalkOK, Walks
<1> QED BY <1>2, <1>3

(* Expanding a candidate. *)
LEMMA WalkGoesOn ==
    ASSUME ShapeInv, NEW t \in Threads, WalkOK(t), Expand(t)
    PROVE  WalkOK(t)'
<1>1. PICK c \in look[t].cands :
         LET s == [look[t] EXCEPT !.cands = @ \ {c}] IN
         /\ Sound(s) /\ c \in DOMAIN nodes
         /\ Grown(s, look'[t], ToSet(Links(c, look[t].layer)))
  BY ExpandShape
<1> DEFINE s == [look[t] EXCEPT !.cands = @ \ {c}]
<1>2. /\ s.visited = look[t].visited /\ s.cands = look[t].cands \ {c} /\ s.W = look[t].W
      /\ s.layer = look[t].layer /\ s.ef = look[t].ef /\ c \in look[t].visited
  BY DEF ShapeInv, Types, Look, LookOK
<1>3. Grown(s, look'[t], ToSet(Links(c, look[t].layer)))
  BY <1>1
<1> HIDE DEF s
<1>4. pc'[t] = pc[t] /\ job'[t] = job[t] /\ before'[t] = before[t] /\ nodes' = nodes /\ dropped' = dropped
  BY DEF Expand
<1>5. look'[t].layer = look[t].layer /\ look'[t].ef = look[t].ef
  BY <1>2, <1>3 DEF Grown
<1>6. Walks(t)' = Walks(t)
  BY <1>4, <1>5 DEF Walks
<1>7. ASSUME Walks(t), Cardinality(Points) <= EfSearch
      PROVE  /\ look'[t].W = look'[t].visited /\ look[t].visited \subseteq look'[t].visited
             /\ look'[t].visited \ look'[t].cands = (look[t].visited \ look[t].cands) \cup {c}
             /\ ToSet(Links(c, 0)) \subseteq look'[t].visited
  <2>1. Len(nodes) <= look[t].ef /\ look[t].W = look[t].visited /\ look[t].layer = 0
    <3>1. Len(nodes) \in Nat /\ Len(nodes) <= Cardinality(Points) /\ Cardinality(Points) \in Nat
      BY NodesFinite, Constants, FS_CardinalityType DEF ShapeInv, Types, NodesTyped
    <3> QED BY <1>7, <3>1, Constants DEF WalkOK, Walks
  <2>2. s.W = s.visited /\ Len(nodes) <= s.ef
    BY <1>2, <2>1
  <2>3. look'[t].W = look'[t].visited /\ look'[t].visited \ look'[t].cands = s.visited \ s.cands
        /\ look'[t].visited = s.visited \cup ToSet(Links(c, look[t].layer))
    BY <1>3, <2>2 DEF Grown
  <2>4. s.visited \ s.cands = (look[t].visited \ look[t].cands) \cup {c}
    BY <1>2
  <2> QED BY <1>2, <2>1, <2>3, <2>4
<1>8. ASSUME Walks(t), Cardinality(Points) <= EfSearch, ~dropped, NEW S \in SUBSET DOMAIN nodes, Holds(t, S)'
      PROVE  before[t] \subseteq S
  <2>1. look'[t].visited \subseteq S
        /\ \A m \in S : m \in look'[t].visited \ look'[t].cands \/ ToSet(Links(m, 0)) \subseteq S
    BY <1>4, <1>8, SameNodes DEF Holds
  <2>2. look[t].visited \subseteq S /\ ToSet(Links(c, 0)) \subseteq S
    BY <1>7, <1>8, <2>1
  <2>3. ASSUME NEW m \in S PROVE m \in look[t].visited \ look[t].cands \/ ToSet(Links(m, 0)) \subseteq S
    BY <1>7, <1>8, <2>1, <2>2
  <2>4. Holds(t, S)
    BY <2>2, <2>3 DEF Holds
  <2> QED BY <1>8, <2>4 DEF WalkOK
<1> QED BY <1>4, <1>5, <1>6, <1>7, <1>8 DEF WalkOK

(* Writing a list drops links, or adds some. *)
LEMMA SetLinksGrows ==
    ASSUME ShapeInv, NEW t \in Threads, SetLinks(t)
    PROVE  ListsGrow
<1>1. PICK chosen \in Seq(Nat) :
         /\ Written(job[t].id, look[t].layer, chosen)
         /\ dropped' = (dropped \/ (look[t].layer = 0 /\ ~(ToSet(Links(job[t].id, 0)) \subseteq ToSet(chosen))))
  BY SetLinksShape
<1>2. ASSUME NEW k \in DOMAIN nodes, ~dropped' PROVE ToSet(Links(k, 0)) \subseteq ToSet(Links(k, 0)')
  <2>1. Links(k, 0)' = IF k = job[t].id /\ 0 = look[t].layer THEN chosen ELSE Links(k, 0)
    BY <1>1, Constants DEF Written
  <2> QED BY <1>1, <1>2, <2>1
<1> QED BY <1>1, <1>2 DEF ListsGrow, Written

(* So does a back-link. *)
LEMMA BackLinkGrows ==
    ASSUME ShapeInv, NEW t \in Threads, BackLink(t)
    PROVE  ListsGrow
<1> DEFINE e == Head(todo[t])
<1>1. PICK new \in Seq(Nat) :
         /\ Written(e, look[t].layer, new)
         /\ dropped' = (dropped \/ (look[t].layer = 0 /\ ~(ToSet(Links(e, 0)) \cup {job[t].id} \subseteq ToSet(new))))
  BY BackLinkShape
<1> HIDE DEF e
<1>2. ASSUME NEW k \in DOMAIN nodes, ~dropped' PROVE ToSet(Links(k, 0)) \subseteq ToSet(Links(k, 0)')
  <2>1. Links(k, 0)' = IF k = e /\ 0 = look[t].layer THEN new ELSE Links(k, 0)
    BY <1>1, Constants DEF Written
  <2> QED BY <1>1, <1>2, <2>1
<1> QED BY <1>1, <1>2 DEF ListsGrow, Written

(* So does a step that writes no list. *)
LEMMA NodesUnchangedGrow ==
    ASSUME nodes' = nodes, dropped' = dropped
    PROVE  ListsGrow
  BY SameNodes DEF ListsGrow

(* So does a new node. *)
LEMMA AllocateGrows ==
    ASSUME ShapeInv, NEW t \in Threads, Allocate(t)
    PROVE  ListsGrow
<1>1. PICK p \in Points, l \in 0..MaxLayer :
         nodes' = Append(nodes, [point |-> p, links |-> [i \in 1..(l + 1) |-> <<>>]])
  BY DEF Allocate
<1>2. PICK new : new = Len(nodes) + 1
  OBVIOUS
<1>3. \A k \in DOMAIN nodes, c \in Layers : Links(k, c)' = Links(k, c)
  BY <1>1, <1>2, NodeIsAdded DEF ShapeInv, Types, NodesTyped, Layers
<1>4. DOMAIN nodes \subseteq DOMAIN nodes'
  BY <1>1, <1>2, NodeIsAdded DEF ShapeInv, Types, NodesTyped, Layers
<1>5. dropped' = dropped
  BY DEF Allocate
<1> QED BY <1>3, <1>4, <1>5, Constants DEF ListsGrow

\* The locals of the threads other than t.
OthersKeep(t) == \A u \in Threads : u # t =>
    pc'[u] = pc[u] /\ job'[u] = job[u] /\ look'[u] = look[u] /\ todo'[u] = todo[u] /\ before'[u] = before[u]

(* A step of one thread leaves the locals of the others alone. *)
LEMMA StepIsLocal ==
    ASSUME ShapeInv, NEW t \in Threads,
           Allocate(t) \/ ReadEntry(t) \/ Expand(t) \/ Descend(t) \/ Link(t) \/ Search(t)
    PROVE  OthersKeep(t)
<1> USE DEF ShapeInv, Types, OthersKeep
<1>1. CASE Allocate(t)
  BY <1>1 DEF Allocate
<1>2. CASE ReadEntry(t)
  BY <1>2 DEF ReadEntry, LookFrom, Return
<1>3. CASE Expand(t)
  BY <1>3 DEF Expand
<1>4. CASE Descend(t)
  BY <1>4 DEF Descend, Down, LookFrom
<1>5. CASE Link(t)
  <2>1. CASE SetLinks(t)
    BY <2>1 DEF SetLinks
  <2>2. CASE BackLink(t)
    BY <2>2 DEF BackLink
  <2>3. CASE NextLayer(t)
    BY <2>3 DEF NextLayer, Down, LookFrom, Return
  <2>4. CASE Promote(t)
    BY <2>4 DEF Promote, Return
  <2> QED BY <1>5, <2>1, <2>2, <2>3, <2>4 DEF Link
<1>6. CASE Search(t)
  BY <1>6 DEF Search, BeginSearch, Answer, Return
<1> QED BY <1>1, <1>2, <1>3, <1>4, <1>5, <1>6

(* A step of the next-state relation only adds links of layer 0, or drops one. *)
LEMMA StepGrows ==
    ASSUME ShapeInv, NEW t \in Threads,
           Allocate(t) \/ ReadEntry(t) \/ Expand(t) \/ Descend(t) \/ Link(t) \/ Search(t)
    PROVE  ListsGrow
<1>1. CASE ReadEntry(t) \/ Expand(t) \/ Descend(t) \/ NextLayer(t) \/ Promote(t) \/ Search(t)
  <2>1. nodes' = nodes /\ dropped' = dropped
    BY <1>1 DEF ReadEntry, Expand, Descend, NextLayer, Promote, Search, BeginSearch, Answer
  <2> QED BY <2>1, NodesUnchangedGrow
<1> QED BY <1>1, AllocateGrows, SetLinksGrows, BackLinkGrows DEF Link

(* The next layer down may be the last one of a query. *)
LEMMA DownWalk ==
    ASSUME ShapeInv, NEW t \in Threads, Down(t), pc[t] \in {"look", "back"}, look[t].layer > 0,
           nodes' = nodes, job'[t] = job[t]
    PROVE  WalkOK(t)'
<1> DEFINE n == Nearest(job[t].point, look[t].W)
           c == look[t].layer - 1
<1>1. LookFrom(t, n, c)
  BY DEF Down
<1>2. n \in look[t].W /\ look[t].layer \in Layers
  BY LookIsSound
<1>3. n \in DOMAIN nodes /\ c \in Layers
  BY <1>2, Constants DEF ShapeInv, LookOK, Tall, Layers
<1>4. job[t].type = "search" => job[t].l = 0
  BY DEF ShapeInv, JobOK
<1> HIDE DEF n, c
<1> QED BY <1>1, <1>3, <1>4, WalkBegins

(* Every step keeps what is known of the walks. *)
LEMMA WalkStep ==
    ASSUME ShapeInv, ShapeInv', WalkInv, [Next]_vars
    PROVE  WalkInv'
<1>0. \A u \in Threads : WalkOK(u)
  BY DEF WalkInv, WalkOK
<1>1. CASE UNCHANGED vars
  <2>1. UNCHANGED <<nodes, entry, top, pc, job, look, todo, linked, dropped, before, searches>>
    BY <1>1 DEF vars
  <2>2. \A u \in Threads : WalkOK(u)'
    BY <1>0, <2>1, NodesUnchangedGrow, WalkStays
  <2> QED BY <2>2 DEF WalkInv, WalkOK
<1>2. CASE Next
  <2>1. PICK t \in Threads : Allocate(t) \/ ReadEntry(t) \/ Expand(t) \/ Descend(t) \/ Link(t) \/ Search(t)
    BY <1>2 DEF Next
  <2>2. OthersKeep(t) /\ ListsGrow
    BY <2>1, StepIsLocal, StepGrows
  <2>3. ASSUME NEW u \in Threads, u # t PROVE WalkOK(u)'
    BY <1>0, <2>2, <2>3, WalkStays DEF OthersKeep
  <2>4. WalkOK(t)'
    <3>1. CASE Allocate(t) \/ BeginSearch(t)
      <4>1. pc'[t] = "entry"
        BY <3>1 DEF Allocate, BeginSearch, ShapeInv, Types
      <4>2. before'[t] = {}
        BY <4>1 DEF ShapeInv, JobOK
      <4> QED BY <4>1, <4>2, NoWalk
    <3>2. CASE ReadEntry(t)
      <4>1. CASE top < 0
        <5>1. pc'[t] = "idle" /\ before'[t] = {}
          BY <3>2, <4>1, Returns DEF ReadEntry, ShapeInv
        <5> QED BY <5>1, NoWalk
      <4>2. CASE ~(top < 0)
        <5>1. job' = [job EXCEPT ![t].L = top] /\ LookFrom(t, entry, top) /\ nodes' = nodes /\ pc[t] = "entry"
          BY <3>2, <4>2 DEF ReadEntry, StartLayer
        <5>2. top \in Layers /\ entry \in DOMAIN nodes
          BY <4>2, Constants DEF ShapeInv, Types, EntryIsTallest, Layers
        <5>3. job'[t].type = job[t].type /\ (job[t].type = "search" => job[t].l = 0)
          BY <5>1 DEF ShapeInv, Types, Job, JobOK
        <5> QED BY <5>1, <5>2, <5>3, WalkBegins
      <4> QED BY <4>1, <4>2
    <3>3. CASE Expand(t)
      BY <1>0, <3>3, WalkGoesOn
    <3>4. CASE Descend(t)
      <4>1. pc[t] = "look" /\ look[t].layer > job[t].l /\ Down(t) /\ nodes' = nodes /\ job' = job
        BY <3>4 DEF Descend, Ended
      <4>2. look[t].layer > 0
        <5>1. look[t].layer \in Layers /\ job[t].l \in Layers
          BY <4>1, LookIsSound
        <5>2. look[t].layer \in Nat /\ job[t].l \in Nat
          BY <5>1, Constants
        <5> QED BY <4>1, <5>2
      <4> QED BY <4>1, <4>2, DownWalk
    <3>5. CASE SetLinks(t) \/ BackLink(t)
      <4>1. pc'[t] = "back" /\ job'[t].type = "link"
        BY <3>5 DEF SetLinks, BackLink, ShapeInv, Types, JobOK
      <4>2. before'[t] = {}
        BY <4>1 DEF ShapeInv, JobOK
      <4> QED BY <4>1, <4>2, NoWalk
    <3>6. CASE NextLayer(t)
      <4>1. CASE look[t].layer > 0
        BY <3>6, <4>1, DownWalk DEF NextLayer
      <4>2. CASE ~(look[t].layer > 0)
        <5>1. pc'[t] \in {"promote", "idle"}
          BY <3>6, <4>2, Returns DEF NextLayer, ShapeInv, Types
        <5>2. before'[t] = {}
          BY <5>1 DEF ShapeInv, JobOK
        <5> QED BY <5>1, <5>2, NoWalk
      <4> QED BY <4>1, <4>2
    <3>7. CASE Promote(t) \/ Answer(t)
      <4>1. pc'[t] = "idle" /\ before'[t] = {}
        BY <3>7, Returns DEF Promote, Answer, ShapeInv
      <4> QED BY <4>1, NoWalk
    <3> QED BY <2>1, <3>1, <3>2, <3>3, <3>4, <3>5, <3>6, <3>7 DEF Link, Search
  <2>5. \A u \in Threads : WalkOK(u)'
    BY <2>3, <2>4
  <2> QED BY <2>5 DEF WalkInv, WalkOK
<1> QED BY <1>1, <1>2

(* A walk that ends has nothing left to copy, so it holds all that was in reach. *)
LEMMA WalkEnds ==
    ASSUME ShapeInv, WalkInv
    PROVE  SearchesLoseNothing
<1> SUFFICES ASSUME NEW t \in Threads, Ended(t), ~dropped, Cardinality(Points) <= EfSearch
    PROVE before[t] \subseteq look[t].W
  BY DEF SearchesLoseNothing
<1>1. pc[t] = "look" /\ Over(job[t].point, look[t])
  BY DEF Ended
<1>2. CASE ~Walks(t)
  BY <1>2 DEF WalkInv
<1>3. CASE Walks(t)
  <2>1. Sound(look[t]) /\ NodesTyped /\ job[t].point \in Int
    BY <1>1, LookIsSound
  <2>2. look[t].W = look[t].visited /\ \A S \in SUBSET DOMAIN nodes : Holds(t, S) => before[t] \subseteq S
    BY <1>3 DEF WalkInv
  <2>3. look[t].cands = {}
    BY <1>1, <2>1, <2>2, OverIsEmpty DEF Sound
  <2>4. look[t].visited \in SUBSET DOMAIN nodes /\ Holds(t, look[t].visited)
    BY <2>1, <2>3 DEF Holds, Sound
  <2> QED BY <2>2, <2>4
<1> QED BY <1>2, <1>3

(* A walk through the last layer, one copied list after another, comes to every node that was
   within reach when it began, whatever is linked meanwhile, as long as no link is cut. *)
THEOREM SearchesFindAll == Spec => []SearchesLoseNothing
<1>1. Init => WalkInv
  BY DEF Init, WalkInv, Walks
<1>2. ShapeInv /\ ShapeInv' /\ WalkInv /\ [Next]_vars => WalkInv'
  BY WalkStep
<1>3. ShapeInv /\ WalkInv => SearchesLoseNothing
  BY WalkEnds
<1> QED BY <1>1, <1>2, <1>3, ShapeHolds, PTL DEF Spec

-----------------------------------------------------------------------------
(* The forest: a node is placed under another. *)

\* x is placed under v in the layers of JR, and in the layers of JV its search starts from v.
Placed(R, V, rank, JR, JV, x, v, R2, V2, rank2) ==
    /\ R2 \in [Layers -> [Ids -> Ids]] /\ V2 \in [Layers -> [Ids -> Ids]] /\ rank2 \in [Layers -> [Ids -> Nat]]
    /\ \A c \in Layers, n \in Ids :
          /\ R2[c][n] = IF c \in JR /\ R[c][n] = x THEN R[c][v] ELSE R[c][n]
          /\ V2[c][n] = IF c \in JV /\ V[c][n] = x THEN V[c][v] ELSE V[c][n]
          /\ rank2[c][n] = IF c \in JV /\ c \notin JR /\ V[c][n] = x THEN rank[c][n] + rank[c][R[c][v]] + 1
                           ELSE rank[c][n]

\* That leads away from x, and R stays within V, and V within R of the layer above.
MayPlace(R, V, rank, JR, JV, x, v) ==
    /\ x \in Ids /\ v \in Ids /\ v # x
    /\ \A c \in Layers :
          /\ c \in JR => R[c][x] = x
          /\ c \in JV => V[c][x] = x
          /\ c \in JR /\ c \in JV => Alone(R, V, c, x)
          /\ c \in JR /\ c \notin JV => Aims(R, V, rank, c, x, v)
          /\ c \notin JR /\ c \in JV => V[c][v] # x
          /\ c \in JV /\ c + 1 \in Layers /\ c + 1 \notin JR => R[c + 1][x] = R[c + 1][v]

(* The pointers of a forest lead to nodes. *)
LEMMA ForestTypes ==
    ASSUME NEW R, NEW V, NEW rank, IsForest(R, V, rank), NEW c \in Layers, NEW n \in Ids
    PROVE  R[c][n] \in Ids /\ V[c][n] \in Ids /\ rank[c][n] \in Nat
  BY DEF IsForest

(* Pointers that place x under v can always be had. *)
LEMMA CanPlace ==
    ASSUME NEW R, NEW V, NEW rank, IsForest(R, V, rank), NEW JR, NEW JV, NEW x \in Ids, NEW v \in Ids
    PROVE  \E R2, V2, rank2 : Placed(R, V, rank, JR, JV, x, v, R2, V2, rank2)
<1> DEFINE R2 == [c \in Layers |-> [n \in Ids |-> IF c \in JR /\ R[c][n] = x THEN R[c][v] ELSE R[c][n]]]
           V2 == [c \in Layers |-> [n \in Ids |-> IF c \in JV /\ V[c][n] = x THEN V[c][v] ELSE V[c][n]]]
           rank2 == [c \in Layers |-> [n \in Ids |->
                        IF c \in JV /\ c \notin JR /\ V[c][n] = x THEN rank[c][n] + rank[c][R[c][v]] + 1
                        ELSE rank[c][n]]]
<1>1. R2 \in [Layers -> [Ids -> Ids]] /\ V2 \in [Layers -> [Ids -> Ids]]
  BY ForestTypes
<1>2. rank2 \in [Layers -> [Ids -> Nat]]
  <2> SUFFICES ASSUME NEW c \in Layers, NEW n \in Ids PROVE rank2[c][n] \in Nat
    OBVIOUS
  <2>1. rank[c][n] \in Nat /\ rank[c][R[c][v]] \in Nat
    BY ForestTypes
  <2> QED BY <2>1
<1>3. \A c \in Layers, n \in Ids :
          /\ R2[c][n] = IF c \in JR /\ R[c][n] = x THEN R[c][v] ELSE R[c][n]
          /\ V2[c][n] = IF c \in JV /\ V[c][n] = x THEN V[c][v] ELSE V[c][n]
          /\ rank2[c][n] = IF c \in JV /\ c \notin JR /\ V[c][n] = x THEN rank[c][n] + rank[c][R[c][v]] + 1
                           ELSE rank[c][n]
  OBVIOUS
<1> HIDE DEF R2, V2, rank2
<1>4. Placed(R, V, rank, JR, JV, x, v, R2, V2, rank2)
  BY <1>1, <1>2, <1>3 DEF Placed
<1> QED BY <1>4

(* It does not become its own root. *)
LEMMA RootIsOther ==
    ASSUME NEW R, NEW V, NEW rank, IsForest(R, V, rank), NEW JR, NEW JV, NEW x, NEW v,
           MayPlace(R, V, rank, JR, JV, x, v), NEW c \in Layers
    PROVE  /\ c \in JR => R[c][v] # x
           /\ c \in JV => V[c][v] # x \/ c \in JR
<1>1. x \in Ids /\ v \in Ids /\ v # x
  BY DEF MayPlace
<1>2. CASE c \in JR /\ c \in JV
  BY <1>1, <1>2 DEF MayPlace, Alone
<1>3. CASE c \in JR /\ c \notin JV
  <2>1. rank[c][R[c][v]] < rank[c][x] /\ rank[c][x] \in Nat
    BY <1>1, <1>3, ForestTypes DEF MayPlace, Aims
  <2> QED BY <1>3, <2>1
<1>4. CASE c \notin JR
  BY <1>4 DEF MayPlace
<1> QED BY <1>2, <1>3, <1>4

(* What was a forest is one afterwards: no pointer comes back to where it started. *)
LEMMA PlacedIsForest ==
    ASSUME NEW R, NEW V, NEW rank, IsForest(R, V, rank), NEW JR, NEW JV, NEW x, NEW v,
           MayPlace(R, V, rank, JR, JV, x, v),
           NEW R2, NEW V2, NEW rank2, Placed(R, V, rank, JR, JV, x, v, R2, V2, rank2)
    PROVE  IsForest(R2, V2, rank2)
<1>0. x \in Ids /\ v \in Ids /\ v # x
  BY DEF MayPlace
<1> SUFFICES ASSUME NEW c \in Layers, NEW n \in Ids
    PROVE /\ R2[c][R2[c][n]] = R2[c][n] /\ V2[c][V2[c][n]] = V2[c][n]
          /\ V2[c][R2[c][n]] = V2[c][n]
          /\ c + 1 \in Layers => R2[c + 1][V2[c][n]] = R2[c + 1][n]
  BY DEF IsForest, Placed
<1>1. \A m \in Ids : /\ R[c][m] \in Ids /\ V[c][m] \in Ids /\ R2[c][m] \in Ids /\ V2[c][m] \in Ids
                     /\ R[c][R[c][m]] = R[c][m] /\ V[c][V[c][m]] = V[c][m] /\ V[c][R[c][m]] = V[c][m]
  BY DEF IsForest, Placed
<1>2. \A m \in Ids : /\ R2[c][m] = IF c \in JR /\ R[c][m] = x THEN R[c][v] ELSE R[c][m]
                     /\ V2[c][m] = IF c \in JV /\ V[c][m] = x THEN V[c][v] ELSE V[c][m]
  BY DEF Placed
<1>3. R2[c][R2[c][n]] = R2[c][n]
  BY <1>0, <1>1, <1>2
<1>4. V2[c][V2[c][n]] = V2[c][n]
  BY <1>0, <1>1, <1>2
<1>5. V2[c][R2[c][n]] = V2[c][n]
  <2>1. CASE c \notin JR
    BY <2>1, <1>1, <1>2
  <2>2. CASE c \in JR /\ c \in JV
    <3>1. V[c][x] = x
      BY <2>2 DEF MayPlace
    <3> QED BY <2>2, <3>1, <1>0, <1>1, <1>2
  <2>3. CASE c \in JR /\ c \notin JV
    <3>1. V[c][v] = V[c][x]
      BY <2>3 DEF MayPlace, Aims
    <3> QED BY <2>3, <3>1, <1>0, <1>1, <1>2
  <2> QED BY <2>1, <2>2, <2>3
<1>6. ASSUME c + 1 \in Layers PROVE R2[c + 1][V2[c][n]] = R2[c + 1][n]
  <2> DEFINE d == c + 1
  <2>1. \A m \in Ids : R[d][V[c][m]] = R[d][m]
    BY <1>6 DEF IsForest
  <2>2. \A m \in Ids : R2[d][m] = IF d \in JR /\ R[d][m] = x THEN R[d][v] ELSE R[d][m]
    BY <1>6 DEF Placed
  <2>3. d \in JR => R[d][x] = x
    BY <1>6 DEF MayPlace
  <2>4. c \in JV /\ d \notin JR => R[d][x] = R[d][v]
    BY <1>6 DEF MayPlace
  <2> HIDE DEF d
  <2>5. c \notin JV \/ V[c][n] # x => R2[d][V2[c][n]] = R2[d][n]
    BY <1>1, <1>2, <2>1, <2>2
  <2>7. ASSUME c \in JV, V[c][n] = x PROVE R2[d][V2[c][n]] = R2[d][n]
    <3>1. V2[c][n] = V[c][v] /\ R[d][n] = R[d][x] /\ R[d][V[c][v]] = R[d][v]
      BY <2>7, <1>0, <1>2, <2>1
    <3>2. R2[d][V[c][v]] = IF d \in JR /\ R[d][v] = x THEN R[d][v] ELSE R[d][v]
      BY <1>0, <1>1, <2>2, <3>1
    <3>3. R2[d][n] = R[d][v]
      BY <2>2, <2>3, <2>4, <2>7, <3>1
    <3> QED BY <3>1, <3>2, <3>3
  <2> QED BY <2>5, <2>7 DEF d
<1> QED BY <1>3, <1>4, <1>5, <1>6

(* What hangs together still does. *)
LEMMA PlacedKeeps ==
    ASSUME NEW R, NEW V, NEW rank, IsForest(R, V, rank), NEW JR, NEW JV, NEW x, NEW v, v \in Ids,
           NEW R2, NEW V2, NEW rank2, Placed(R, V, rank, JR, JV, x, v, R2, V2, rank2),
           NEW c \in Layers, NEW m \in Ids, NEW n \in Ids
    PROVE  /\ R[c][m] = R[c][n] => R2[c][m] = R2[c][n]
           /\ V[c][m] = V[c][n] => V2[c][m] = V2[c][n]
           /\ c \in JR /\ R[c][x] = x /\ x \in Ids => R2[c][x] = R2[c][v]
  BY DEF Placed

(* A place under which a node may be put stays one. *)
LEMMA AimsKept ==
    ASSUME NEW R, NEW V, NEW rank, IsForest(R, V, rank), NEW JR, NEW JV, NEW x, NEW v,
           MayPlace(R, V, rank, JR, JV, x, v),
           NEW R2, NEW V2, NEW rank2, Placed(R, V, rank, JR, JV, x, v, R2, V2, rank2),
           NEW c \in Layers, NEW n \in Ids, NEW w \in Ids, Aims(R, V, rank, c, n, w), c \in JR /\ c \in JV => w # x
    PROVE  Aims(R2, V2, rank2, c, n, w)
<1>0. x \in Ids /\ v \in Ids
  BY DEF MayPlace
<1>1. V[c][w] = V[c][n] /\ rank[c][R[c][w]] < rank[c][n]
  BY DEF Aims
<1>2. V2[c][w] = V2[c][n]
  BY <1>0, <1>1 DEF Placed
<1>3. R[c][w] \in Ids /\ V[c][R[c][w]] = V[c][w] /\ R[c][v] \in Ids /\ V[c][R[c][v]] = V[c][v]
  BY <1>0 DEF IsForest
<1>4. /\ rank[c][R[c][w]] \in Nat /\ rank[c][n] \in Nat /\ rank[c][R[c][v]] \in Nat /\ rank[c][x] \in Nat
      /\ R2[c][w] \in Ids
  BY <1>0, <1>3, ForestTypes DEF Placed
<1>5. rank2[c][R2[c][w]] < rank2[c][n]
  <2>1. CASE c \in JR /\ R[c][w] = x
    <3>1. c \notin JV
      BY <2>1 DEF MayPlace, Alone
    <3>2. rank[c][R[c][v]] < rank[c][x]
      BY <2>1, <3>1 DEF MayPlace, Aims
    <3>3. R2[c][w] = R[c][v]
      BY <2>1 DEF Placed
    <3>4. rank2[c][n] = rank[c][n] /\ rank2[c][R[c][v]] = rank[c][R[c][v]]
      BY <1>3, <3>1 DEF Placed
    <3> QED BY <1>1, <1>4, <2>1, <3>2, <3>3, <3>4
  <2>2. CASE ~(c \in JR /\ R[c][w] = x)
    <3>1. R2[c][w] = R[c][w]
      BY <2>2 DEF Placed
    <3>2. CASE c \in JV /\ c \notin JR /\ V[c][n] = x
      <4>1. rank2[c][n] = rank[c][n] + rank[c][R[c][v]] + 1
            /\ rank2[c][R[c][w]] = rank[c][R[c][w]] + rank[c][R[c][v]] + 1
        BY <1>1, <1>3, <3>2 DEF Placed
      <4> QED BY <1>1, <1>4, <3>1, <4>1
    <3>3. CASE ~(c \in JV /\ c \notin JR /\ V[c][n] = x)
      <4>1. rank2[c][n] = rank[c][n] /\ rank2[c][R[c][w]] = rank[c][R[c][w]]
        BY <1>1, <1>3, <3>3 DEF Placed
      <4> QED BY <1>1, <1>4, <3>1, <4>1
    <3> QED BY <3>2, <3>3
  <2> QED BY <2>1, <2>2
<1> QED BY <1>2, <1>5 DEF Aims

(* x may be put under v where its search starts. *)
LEMMA AimIsSet ==
    ASSUME NEW R, NEW V, NEW rank, IsForest(R, V, rank), NEW JR, NEW JV, NEW x, NEW v,
           MayPlace(R, V, rank, JR, JV, x, v),
           NEW R2, NEW V2, NEW rank2, Placed(R, V, rank, JR, JV, x, v, R2, V2, rank2),
           NEW c \in Layers, c \in JV, c \notin JR
    PROVE  Aims(R2, V2, rank2, c, x, v)
<1>0. x \in Ids /\ v \in Ids /\ V[c][x] = x /\ V[c][v] # x
  BY DEF MayPlace
<1>1. V2[c][x] = V[c][v] /\ V2[c][v] = V[c][v] /\ R2[c][v] = R[c][v]
  BY <1>0 DEF Placed
<1>2. R[c][v] \in Ids /\ V[c][R[c][v]] = V[c][v]
  BY <1>0 DEF IsForest
<1>3. rank2[c][x] = rank[c][x] + rank[c][R[c][v]] + 1 /\ rank2[c][R[c][v]] = rank[c][R[c][v]]
  BY <1>0, <1>2 DEF Placed
<1>4. rank[c][x] \in Nat /\ rank[c][R[c][v]] \in Nat
  BY <1>0, <1>2, ForestTypes
<1>5. rank2[c][R2[c][v]] < rank2[c][x]
  BY <1>1, <1>3, <1>4
<1> QED BY <1>1, <1>5 DEF Aims

(* A node of which nobody knows stays alone. *)
LEMMA AloneKept ==
    ASSUME NEW R, NEW V, NEW rank, IsForest(R, V, rank), NEW JR, NEW JV, NEW x, NEW v,
           MayPlace(R, V, rank, JR, JV, x, v),
           NEW R2, NEW V2, NEW rank2, Placed(R, V, rank, JR, JV, x, v, R2, V2, rank2),
           NEW c \in Layers, NEW n \in Ids, Alone(R, V, c, n), n # v, n # x \/ c \notin JR \cup JV
    PROVE  Alone(R2, V2, c, n)
<1>0. x \in Ids /\ v \in Ids
  BY DEF MayPlace
<1>1. R[c][v] # n /\ V[c][v] # n /\ R[c][n] = n /\ V[c][n] = n
  BY <1>0 DEF Alone
<1>2. ASSUME NEW m \in Ids PROVE (R2[c][m] = n <=> m = n) /\ (V2[c][m] = n <=> m = n)
  BY <1>1, <1>2 DEF Placed, Alone
<1> QED BY <1>2 DEF Alone

-----------------------------------------------------------------------------
(* What a step does to the thread that makes it. *)

GraphStays == nodes' = nodes /\ dropped' = dropped /\ entry' = entry /\ top' = top /\ linked' = linked

SameJob(t) == job'[t].type = job[t].type /\ job'[t].id = job[t].id /\ job'[t].l = job[t].l /\ job'[t].point = job[t].point

\* The search of a layer begins.
Moves(t, n, layer) ==
    /\ GraphStays /\ SameJob(t) /\ n \in DOMAIN nodes /\ layer \in Layers
    /\ pc'[t] = "look" /\ look'[t].layer = layer /\ look'[t].visited = {n} /\ look'[t].W = {n}
    /\ todo[t] = <<>> /\ todo'[t] = <<>>

\* link() returns.
Ends(t) ==
    /\ nodes' = nodes /\ dropped' = dropped /\ top' >= 0
    /\ linked' = linked \cup {job[t].id} /\ (entry' = job[t].id \/ (entry' = entry /\ top >= 0))
    /\ pc[t] # "idle" /\ job[t].type = "link"
    /\ pc'[t] = "idle" /\ job'[t] = NoJob /\ look'[t] = NoLook /\ todo[t] = <<>> /\ todo'[t] = <<>>

\* A query comes, or is answered.
Asks(t) ==
    /\ GraphStays /\ ~Linking(t) /\ ~Linking(t)'
    /\ pc'[t] \in {"idle", "entry"} /\ look'[t].visited = {} /\ todo[t] = <<>> /\ todo'[t] = <<>>

(* A thread that reads an entry point searches its layer from there. *)
LEMMA ReadEntryMoves ==
    ASSUME ShapeInv, NEW t \in Threads, ReadEntry(t), ~(top < 0)
    PROVE  Moves(t, entry, top)
<1>1. /\ job' = [job EXCEPT ![t].L = top] /\ LookFrom(t, entry, top) /\ pc[t] = "entry"
      /\ entry' = entry /\ top' = top /\ todo' = todo /\ linked' = linked /\ nodes' = nodes /\ dropped' = dropped
  BY DEF ReadEntry, StartLayer
<1>2. top \in Layers /\ entry \in DOMAIN nodes /\ entry \in Nat
  BY Constants DEF ShapeInv, Types, EntryIsTallest, Layers
<1>3. SameJob(t)
  BY <1>1 DEF ShapeInv, Types, Job, SameJob
<1>4. pc'[t] = "look" /\ look'[t].layer = top /\ look'[t].visited = {entry} /\ look'[t].W = {entry}
  BY <1>1, <1>2, LookBegins DEF ShapeInv
<1>5. todo[t] = <<>>
  BY <1>1 DEF ShapeInv, JobOK
<1> QED BY <1>1, <1>2, <1>3, <1>4, <1>5 DEF Moves, GraphStays

(* search_layer goes on one layer lower, from the nearest node found. *)
LEMMA DownMoves ==
    ASSUME ShapeInv, NEW t \in Threads, Down(t), pc[t] \in {"look", "back"}, look[t].layer > 0,
           pc[t] = "back" => todo[t] = <<>>,
           UNCHANGED <<graph, job, todo, linked, dropped, searches>>
    PROVE  /\ Moves(t, Start(t), look[t].layer - 1)
           /\ Start(t) \in look[t].visited /\ look[t].visited \subseteq DOMAIN nodes
<1> DEFINE n == Start(t)
           c == look[t].layer - 1
<1>1. LookFrom(t, n, c) /\ todo[t] = <<>>
  BY DEF Down, ShapeInv, JobOK, Start
<1>2. n \in look[t].W /\ look[t].layer \in Layers
  BY LookIsSound DEF Start
<1>3. n \in look[t].visited /\ look[t].visited \subseteq DOMAIN nodes /\ c \in Layers
  BY <1>2, Constants DEF ShapeInv, LookOK, Tall, Layers
<1> HIDE DEF n, c
<1>4. n \in Nat
  BY <1>3, NodesFinite DEF ShapeInv, Types, NodesTyped
<1>5. pc'[t] = "look" /\ look'[t].layer = c /\ look'[t].visited = {n} /\ look'[t].W = {n}
  BY <1>1, <1>3, <1>4, LookBegins DEF ShapeInv
<1>6. Moves(t, n, c)
  BY <1>1, <1>3, <1>5 DEF Moves, GraphStays, SameJob
<1> QED BY <1>3, <1>6 DEF n, c

(* The greedy descent does so. *)
LEMMA DescendMoves ==
    ASSUME ShapeInv, NEW t \in Threads, Descend(t)
    PROVE  /\ pc[t] = "look" /\ look[t].layer > job[t].l /\ look[t].layer \in Nat /\ job[t].l \in Nat
           /\ Moves(t, Start(t), look[t].layer - 1)
           /\ Start(t) \in look[t].visited /\ look[t].visited \subseteq DOMAIN nodes
<1>1. pc[t] = "look" /\ look[t].layer > job[t].l /\ Down(t)
      /\ UNCHANGED <<graph, job, todo, linked, dropped, searches>>
  BY DEF Descend, Ended
<1>2. look[t].layer > 0 /\ look[t].layer \in Nat /\ job[t].l \in Nat
  <2>1. look[t].layer \in Layers /\ job[t].l \in Layers
    BY <1>1, LookIsSound
  <2>2. look[t].layer \in Nat /\ job[t].l \in Nat
    BY <2>1, Constants
  <2> QED BY <1>1, <2>2
<1> QED BY <1>1, <1>2, DownMoves

(* So does link() once a layer above 0 is done. *)
LEMMA NextLayerMoves ==
    ASSUME ShapeInv, NEW t \in Threads, NextLayer(t), look[t].layer > 0
    PROVE  /\ pc[t] = "back" /\ look[t].layer <= job[t].l /\ look[t].layer \in Nat /\ job[t].l \in Nat
           /\ Moves(t, Start(t), look[t].layer - 1)
           /\ Start(t) \in look[t].visited /\ look[t].visited \subseteq DOMAIN nodes
<1>1. pc[t] = "back" /\ todo[t] = <<>> /\ Down(t) /\ UNCHANGED <<graph, job, todo, linked, dropped, searches>>
  BY DEF NextLayer
<1>2. look[t].layer \in Nat /\ job[t].l \in Nat /\ look[t].layer <= job[t].l
  <2>1. look[t].layer \in Layers /\ job[t].l \in Layers
    BY <1>1, LookIsSound
  <2> QED BY <1>1, <2>1, Constants DEF ShapeInv, LookOK
<1> QED BY <1>1, <1>2, DownMoves

(* The three ways in which link() returns. *)
LEMMA CallEnds ==
    ASSUME ShapeInv, NEW t \in Threads,
           \/ ReadEntry(t) /\ top < 0
           \/ NextLayer(t) /\ ~(look[t].layer > 0) /\ ~(job[t].l > job[t].L)
           \/ Promote(t)
    PROVE  /\ Ends(t)
           /\ \/ pc[t] = "entry" /\ top < 0 /\ top \in Int
              \/ pc[t] = "back" /\ look[t].layer = 0
              \/ pc[t] = "promote"
<1> USE DEF ShapeInv
<1>0. job[t].l \in Nat /\ job[t].L \in Nat /\ top \in Int /\ look[t].layer \in Nat
  <2>1. job[t] \in Job /\ look[t] \in Look /\ top \in Int
    BY DEF Types
  <2> QED BY <2>1, Constants DEF Job, Look
<1>1. CASE ReadEntry(t) /\ top < 0
  <2>1. entry' = job[t].id /\ top' = job[t].l /\ linked' = linked \cup {job[t].id} /\ Return(t)
        /\ nodes' = nodes /\ dropped' = dropped /\ pc[t] = "entry"
    BY <1>1 DEF ReadEntry
  <2>2. job[t].type = "link" /\ todo[t] = <<>>
    BY <1>0, <1>1, <2>1 DEF JobOK
  <2> QED BY <1>0, <1>1, <2>1, <2>2, Returns DEF Ends
<1>2. CASE NextLayer(t) /\ ~(look[t].layer > 0) /\ ~(job[t].l > job[t].L)
  <2>1. pc[t] = "back" /\ todo[t] = <<>> /\ Return(t) /\ linked' = linked \cup {job[t].id}
        /\ nodes' = nodes /\ entry' = entry /\ top' = top /\ dropped' = dropped
    BY <1>2 DEF NextLayer
  <2>2. job[t].type = "link" /\ job[t].L <= top
    BY <2>1 DEF JobOK
  <2>3. look[t].layer = 0 /\ top >= 0
    BY <1>0, <1>2, <2>2
  <2> QED BY <2>1, <2>2, <2>3, Returns DEF Ends
<1>3. CASE Promote(t)
  <2>1. pc[t] = "promote" /\ Return(t) /\ linked' = linked \cup {job[t].id} /\ UNCHANGED <<nodes, dropped, searches>>
        /\ ((top' = job[t].l /\ entry' = job[t].id) \/ (top' = top /\ entry' = entry))
    BY <1>3 DEF Promote
  <2>2. job[t].type = "link" /\ todo[t] = <<>> /\ job[t].L <= top
    BY <2>1 DEF JobOK
  <2>3. top' >= 0 /\ top >= 0
    BY <1>0, <2>1, <2>2
  <2> QED BY <2>1, <2>2, <2>3, Returns DEF Ends
<1> QED BY <1>1, <1>2, <1>3

(* A query begins or is answered. *)
LEMMA SearchAsks ==
    ASSUME ShapeInv, NEW t \in Threads, Search(t)
    PROVE  Asks(t)
<1>1. CASE BeginSearch(t)
  <2>1. PICK p \in Points : job' = [job EXCEPT ![t] = [NoJob EXCEPT !.type = "search", !.point = p]]
    BY <1>1 DEF BeginSearch
  <2>2. GraphStays /\ pc[t] = "idle" /\ pc'[t] = "entry" /\ look' = look /\ todo' = todo
    BY <1>1 DEF BeginSearch, GraphStays, ShapeInv, Types
  <2>3. look[t] = NoLook /\ todo[t] = <<>>
    BY <2>2 DEF ShapeInv, JobOK
  <2>4. job'[t].type = "search"
    <3>1. job'[t] = [NoJob EXCEPT !.type = "search", !.point = p]
      BY <2>1 DEF ShapeInv, Types
    <3> QED BY <3>1 DEF NoJob
  <2> QED BY <2>2, <2>3, <2>4 DEF Asks, Linking, NoLook
<1>2. CASE Answer(t)
  <2>1. Return(t) /\ GraphStays /\ pc[t] = "look" /\ job[t].type = "search"
    BY <1>2 DEF Answer, Ended, GraphStays
  <2>2. pc'[t] = "idle" /\ look'[t] = NoLook /\ todo'[t] = <<>> /\ todo[t] = <<>>
    BY <2>1, Returns DEF ShapeInv, JobOK
  <2> QED BY <2>1, <2>2 DEF Asks, Linking, NoLook
<1> QED BY <1>1, <1>2 DEF Search

(* A node is allocated. *)
LEMMA AllocateAdds ==
    ASSUME ShapeInv, NEW t \in Threads, Allocate(t)
    PROVE  \E new \in Ids :
              /\ DOMAIN nodes' = DOMAIN nodes \cup {new} /\ new \notin DOMAIN nodes
              /\ \A k \in DOMAIN nodes : nodes'[k] = nodes[k]
              /\ \A k \in DOMAIN nodes, c \in Layers : Links(k, c)' = Links(k, c)
              /\ \A c \in Layers : ToSet(Links(new, c))' = {}
              /\ dropped' = dropped /\ entry' = entry /\ top' = top /\ linked' = linked
              /\ pc[t] = "idle" /\ pc'[t] = "entry" /\ job'[t].type = "link" /\ job'[t].id = new
              /\ look'[t] = NoLook /\ todo'[t] = <<>> /\ todo[t] = <<>>
<1>1. PICK p \in Points, l \in 0..MaxLayer :
         /\ nodes' = Append(nodes, [point |-> p, links |-> [i \in 1..(l + 1) |-> <<>>]])
         /\ job' = [job EXCEPT ![t] = [NoJob EXCEPT !.type = "link", !.id = Len(nodes) + 1, !.point = p, !.l = l]]
  BY DEF Allocate
<1>2. PICK new : new = Len(nodes) + 1
  OBVIOUS
<1>3. NodesTyped /\ l \in Layers /\ Len(nodes) \in Nat
  BY NodesFinite DEF ShapeInv, Types, NodesTyped, Layers
<1>4. /\ DOMAIN nodes' = DOMAIN nodes \cup {new} /\ new \notin DOMAIN nodes
      /\ \A k \in DOMAIN nodes : nodes'[k] = nodes[k]
      /\ \A k \in DOMAIN nodes, c \in Layers : Links(k, c)' = Links(k, c)
      /\ \A c \in Layers : Links(new, c)' = <<>>
  BY <1>1, <1>2, <1>3, NodeIsAdded
<1>5. \A c \in Layers : ToSet(Links(new, c))' = {}
  BY <1>4 DEF ToSet
<1>6. new \in Ids
  <2>1. Cardinality(Points) \in Nat /\ Len(nodes) < Cardinality(Points)
    BY Constants, FS_CardinalityType DEF Allocate
  <2> QED BY <1>2, <1>3, <2>1 DEF Ids
<1>7. /\ dropped' = dropped /\ entry' = entry /\ top' = top /\ linked' = linked
      /\ pc[t] = "idle" /\ pc'[t] = "entry" /\ look' = look /\ todo' = todo
  BY DEF Allocate, ShapeInv, Types
<1>8. look[t] = NoLook /\ todo[t] = <<>>
  BY <1>7 DEF ShapeInv, JobOK
<1>9. job'[t].type = "link" /\ job'[t].id = new
  <2>1. job'[t] = [NoJob EXCEPT !.type = "link", !.id = Len(nodes) + 1, !.point = p, !.l = l]
    BY <1>1 DEF ShapeInv, Types
  <2> QED BY <1>2, <2>1 DEF NoJob
<1> QED BY <1>4, <1>5, <1>6, <1>7, <1>8, <1>9

-----------------------------------------------------------------------------
(* Every node is linked, or somebody links it. *)

LEMMA LinkersStay ==
    ASSUME NodesHaveLinkers, DOMAIN nodes' = DOMAIN nodes, linked' = linked, entry' = entry, top' = top,
           \A u \in Threads : (Linking(u)' <=> Linking(u)) /\ (Linking(u) => job'[u].id = job[u].id)
    PROVE  NodesHaveLinkers'
  BY DEF NodesHaveLinkers

(* A new node has the thread that allocated it as its linker. *)
LEMMA LinkersWhenAdded ==
    ASSUME ShapeInv, NodesHaveLinkers, NEW t \in Threads, Allocate(t), OthersKeep(t)
    PROVE  NodesHaveLinkers'
<1>1. PICK new \in Ids :
         /\ DOMAIN nodes' = DOMAIN nodes \cup {new} /\ new \notin DOMAIN nodes
         /\ entry' = entry /\ top' = top /\ linked' = linked
         /\ pc[t] = "idle" /\ pc'[t] = "entry" /\ job'[t].type = "link" /\ job'[t].id = new
  BY AllocateAdds
<1>2. Linking(t)' /\ ~Linking(t)
  BY <1>1 DEF Linking
<1>3. \A u \in Threads : u # t => (Linking(u)' <=> Linking(u)) /\ job'[u] = job[u]
  BY DEF OthersKeep, Linking
<1>4. \A u \in Threads : Linking(u) => job[u].id \in DOMAIN nodes
  BY DEF ShapeInv, JobOK, Linking
<1>5. linked \subseteq DOMAIN nodes
  BY DEF ShapeInv, Types
<1>6. \A u, w \in Threads : Linking(u)' /\ Linking(w)' /\ job'[u].id = job'[w].id => u = w
  BY <1>1, <1>3, <1>4 DEF NodesHaveLinkers
<1>7. \A u \in Threads : Linking(u)' => job'[u].id \notin linked'
  BY <1>1, <1>3, <1>5 DEF NodesHaveLinkers
<1>8. \A n \in DOMAIN nodes' : n \in linked' \/ \E u \in Threads : Linking(u)' /\ job'[u].id = n
  BY <1>1, <1>2, <1>3 DEF NodesHaveLinkers
<1> QED BY <1>1, <1>6, <1>7, <1>8 DEF NodesHaveLinkers

(* A node that loses its linker is linked. *)
LEMMA LinkersWhenEnded ==
    ASSUME ShapeInv, NodesHaveLinkers, NEW t \in Threads, Ends(t), OthersKeep(t)
    PROVE  NodesHaveLinkers'
<1>1. Linking(t) /\ ~Linking(t)'
  BY DEF Ends, Linking
<1>2. \A u \in Threads : u # t => (Linking(u)' <=> Linking(u)) /\ job'[u] = job[u]
  BY DEF OthersKeep, Linking
<1>3. nodes' = nodes /\ linked' = linked \cup {job[t].id} /\ (entry' = job[t].id \/ (entry' = entry /\ top >= 0))
  BY DEF Ends
<1>4. \A u, w \in Threads : Linking(u)' /\ Linking(w)' /\ job'[u].id = job'[w].id => u = w
  BY <1>1, <1>2 DEF NodesHaveLinkers
<1>5. \A u \in Threads : Linking(u)' => job'[u].id \notin linked'
  BY <1>1, <1>2, <1>3 DEF NodesHaveLinkers
<1>6. \A n \in DOMAIN nodes' : n \in linked' \/ \E u \in Threads : Linking(u)' /\ job'[u].id = n
  BY <1>1, <1>2, <1>3 DEF NodesHaveLinkers
<1>7. entry' \in linked'
  BY <1>3 DEF NodesHaveLinkers
<1> QED BY <1>4, <1>5, <1>6, <1>7 DEF NodesHaveLinkers

-----------------------------------------------------------------------------
(* Nobody knows of a node before its layers are searched. *)

\* Nobody hides n.
Public(n) == \A u \in Threads : Hides(u) => job[u].id # n

(* Whatever can be read, in lists or in the locals of a search, is no hidden node. *)
LEMMA KnownArePublic ==
    ASSUME HiddenIsUnknown, NodesHaveLinkers
    PROVE  /\ \A n \in linked : Public(n)
           /\ \A n \in DOMAIN nodes, c \in Layers : \A m \in ToSet(Links(n, c)) : Public(m)
           /\ \A u \in Threads : \A m \in look[u].visited \cup ToSet(todo[u]) : Public(m)
           /\ \A u \in Threads : Linking(u) /\ ~Hides(u) => Public(job[u].id)
<1>1. \A u \in Threads : Hides(u) => Linking(u)
  BY DEF Hides
<1>2. \A n \in linked : Public(n)
  BY <1>1 DEF Public, NodesHaveLinkers
<1>3. \A n \in DOMAIN nodes, c \in Layers : \A m \in ToSet(Links(n, c)) : Public(m)
  BY DEF Public, HiddenIsUnknown
<1>4. \A u \in Threads : \A m \in look[u].visited \cup ToSet(todo[u]) : Public(m)
  BY DEF Public, HiddenIsUnknown
<1>5. \A u \in Threads : Linking(u) /\ ~Hides(u) => Public(job[u].id)
  BY <1>1 DEF Public, NodesHaveLinkers
<1> QED BY <1>2, <1>3, <1>4, <1>5

\* No node is hidden that was not.
NoneHides == \A u \in Threads : Hides(u)' => Hides(u) /\ job'[u].id = job[u].id

(* The hidden stay unknown when only others are linked to and visited. *)
LEMMA HiddenStay ==
    ASSUME NoneHides,
           \A n \in DOMAIN nodes', c \in Layers : \A m \in ToSet(Links(n, c))' : Public(m),
           \A u \in Threads : \A m \in look'[u].visited \cup ToSet(todo'[u]) : Public(m)
    PROVE  HiddenIsUnknown'
<1> SUFFICES ASSUME NEW t \in Threads, Hides(t)'
    PROVE /\ \A n \in DOMAIN nodes', c \in Layers : job'[t].id \notin ToSet(Links(n, c))'
          /\ \A u \in Threads : job'[t].id \notin look'[u].visited \cup ToSet(todo'[u])
  BY DEF HiddenIsUnknown, ToSet
<1>1. Hides(t) /\ job'[t].id = job[t].id
  BY DEF NoneHides
<1> QED BY <1>1 DEF Public

(* The other threads hide as before. *)
LEMMA OthersHide ==
    ASSUME NEW t \in Threads, OthersKeep(t), Hides(t)' => Hides(t) /\ job'[t].id = job[t].id
    PROVE  NoneHides
  BY DEF NoneHides, OthersKeep, Hides, Linking

(* A new node is in no list. *)
LEMMA HiddenWhenAdded ==
    ASSUME ShapeInv, HiddenIsUnknown, NEW t \in Threads, Allocate(t), OthersKeep(t)
    PROVE  HiddenIsUnknown'
<1>1. PICK new \in Ids :
         /\ DOMAIN nodes' = DOMAIN nodes \cup {new} /\ new \notin DOMAIN nodes
         /\ \A k \in DOMAIN nodes, c \in Layers : Links(k, c)' = Links(k, c)
         /\ \A c \in Layers : ToSet(Links(new, c))' = {}
         /\ pc[t] = "idle" /\ pc'[t] = "entry" /\ job'[t].type = "link" /\ job'[t].id = new
         /\ look'[t] = NoLook /\ todo'[t] = <<>>
  BY AllocateAdds
<1>2. \A k \in DOMAIN nodes, c \in Layers : ToSet(Links(k, c)) \subseteq DOMAIN nodes
  BY CopiedList
<1>3. \A u \in Threads : look[u].visited \cup ToSet(todo[u]) \subseteq DOMAIN nodes
  BY DEF ShapeInv, LookOK, Tall
<1>4. look'[t].visited \cup ToSet(todo'[t]) = {}
  BY <1>1 DEF NoLook, ToSet
<1>5. \A k \in DOMAIN nodes, c \in Layers : ToSet(Links(k, c))' = ToSet(Links(k, c))
  BY <1>1 DEF ToSet
<1> SUFFICES ASSUME NEW u \in Threads, Hides(u)'
    PROVE /\ \A n \in DOMAIN nodes', c \in Layers : job'[u].id \notin ToSet(Links(n, c))'
          /\ \A w \in Threads : job'[u].id \notin look'[w].visited \cup ToSet(todo'[w])
  BY DEF HiddenIsUnknown, ToSet
<1>6. CASE u = t
  BY <1>1, <1>2, <1>3, <1>4, <1>5, <1>6 DEF OthersKeep
<1>7. CASE u # t
  <2>1. Hides(u) /\ job'[u] = job[u]
    BY <1>7 DEF OthersKeep, Hides, Linking
  <2>2. \A n \in DOMAIN nodes, c \in Layers : job[u].id \notin ToSet(Links(n, c))
    BY <2>1 DEF HiddenIsUnknown
  <2>3. \A w \in Threads : job[u].id \notin look[w].visited \cup ToSet(todo[w])
    BY <2>1 DEF HiddenIsUnknown
  <2>4. \A w \in Threads : job'[u].id \notin look'[w].visited \cup ToSet(todo'[w])
    BY <1>4, <2>1, <2>3 DEF OthersKeep
  <2> QED BY <1>1, <1>5, <2>1, <2>2, <2>4
<1> QED BY <1>6, <1>7

(* The lists stay, and t visits and tells only such nodes as are known. *)
LEMMA HiddenWhenMoved ==
    ASSUME ShapeInv, HiddenIsUnknown, NodesHaveLinkers, NEW t \in Threads, OthersKeep(t), nodes' = nodes,
           \A m \in look'[t].visited \cup ToSet(todo'[t]) : Public(m),
           Hides(t)' => Hides(t) /\ job'[t].id = job[t].id
    PROVE  HiddenIsUnknown'
<1>1. NoneHides
  BY OthersHide
<1>2. \A n \in DOMAIN nodes', c \in Layers : \A m \in ToSet(Links(n, c))' : Public(m)
  BY SameNodes, KnownArePublic DEF ToSet
<1>3. \A u \in Threads : \A m \in look'[u].visited \cup ToSet(todo'[u]) : Public(m)
  BY KnownArePublic DEF OthersKeep
<1> QED BY <1>1, <1>2, <1>3, HiddenStay

(* One list is written, with nodes that are known. *)
LEMMA HiddenWhenWritten ==
    ASSUME ShapeInv, HiddenIsUnknown, NodesHaveLinkers, NEW t \in Threads, OthersKeep(t),
           NEW n, NEW layer, NEW list, Written(n, layer, list), \A m \in ToSet(list) : Public(m),
           \A m \in look'[t].visited \cup ToSet(todo'[t]) : Public(m),
           Hides(t)' => Hides(t) /\ job'[t].id = job[t].id
    PROVE  HiddenIsUnknown'
<1>1. NoneHides
  BY OthersHide
<1>2. ASSUME NEW k \in DOMAIN nodes', NEW c \in Layers, NEW m \in ToSet(Links(k, c))' PROVE Public(m)
  <2>1. k \in DOMAIN nodes /\ Links(k, c)' = IF k = n /\ c = layer THEN list ELSE Links(k, c)
    BY <1>2 DEF Written
  <2>2. m \in ToSet(IF k = n /\ c = layer THEN list ELSE Links(k, c))
    BY <1>2, <2>1 DEF ToSet
  <2> QED BY <2>1, <2>2, KnownArePublic
<1>3. \A u \in Threads : \A m \in look'[u].visited \cup ToSet(todo'[u]) : Public(m)
  BY KnownArePublic DEF OthersKeep
<1> QED BY <1>1, <1>2, <1>3, HiddenStay

-----------------------------------------------------------------------------
(* Links go both ways, or will. *)

LEMMA MutualStays ==
    ASSUME ShapeInv, LinksAreMutual, NEW t \in Threads, OthersKeep(t), nodes' = nodes, dropped' = dropped,
           pc[t] # "back" \/ todo[t] = <<>>, pc'[t] # "back" \/ todo'[t] = <<>>
    PROVE  LinksAreMutual'
<1> SUFFICES ASSUME ~dropped
    PROVE /\ \A n \in DOMAIN nodes : \A m \in ToSet(Links(n, 0)) :
                n \in ToSet(Links(m, 0)) \/ \E u \in Threads : Promised(u, n, m)'
          /\ \A u \in Threads, n, m \in DOMAIN nodes : Promised(u, n, m)' => m \in ToSet(Links(n, 0))
  BY SameNodes DEF LinksAreMutual
<1>1. \A n, m : ~Promised(t, n, m) /\ ~Promised(t, n, m)'
  BY DEF Promised, ToSet
<1>2. \A u \in Threads : \A n, m : Promised(u, n, m)' <=> Promised(u, n, m)
  BY <1>1 DEF OthersKeep, Promised
<1> QED BY <1>2 DEF LinksAreMutual

(* A new node has no links to answer. *)
LEMMA MutualWhenAdded ==
    ASSUME ShapeInv, LinksAreMutual, NEW t \in Threads, Allocate(t), OthersKeep(t)
    PROVE  LinksAreMutual'
<1>1. PICK new \in Ids :
         /\ DOMAIN nodes' = DOMAIN nodes \cup {new} /\ new \notin DOMAIN nodes
         /\ \A k \in DOMAIN nodes, c \in Layers : Links(k, c)' = Links(k, c)
         /\ \A c \in Layers : ToSet(Links(new, c))' = {}
         /\ dropped' = dropped /\ pc[t] = "idle" /\ pc'[t] = "entry" /\ todo'[t] = <<>> /\ todo[t] = <<>>
  BY AllocateAdds
<1>2. \A n, m : ~Promised(t, n, m) /\ ~Promised(t, n, m)'
  BY <1>1 DEF Promised, ToSet
<1>3. \A u \in Threads : \A n, m : Promised(u, n, m)' <=> Promised(u, n, m)
  BY <1>2 DEF OthersKeep, Promised
<1>4. \A n \in DOMAIN nodes : ToSet(Links(n, 0))' = ToSet(Links(n, 0)) /\ ToSet(Links(n, 0)) \subseteq DOMAIN nodes
  BY <1>1, CopiedList, Constants DEF ToSet
<1>5. ToSet(Links(new, 0))' = {}
  BY <1>1, Constants
<1> SUFFICES ASSUME ~dropped
    PROVE /\ \A n \in DOMAIN nodes' : \A m \in ToSet(Links(n, 0))' :
                n \in ToSet(Links(m, 0))' \/ \E u \in Threads : Promised(u, n, m)'
          /\ \A u \in Threads, n, m \in DOMAIN nodes' : Promised(u, n, m)' => m \in ToSet(Links(n, 0))'
  BY <1>1 DEF LinksAreMutual, ToSet
<1>6. \A u \in Threads : \A n, m : Promised(u, n, m) => n \in DOMAIN nodes /\ m \in DOMAIN nodes
  BY DEF Promised, ShapeInv, JobOK, LookOK, Tall
<1> QED BY <1>1, <1>3, <1>4, <1>5, <1>6 DEF LinksAreMutual

(* A list written over the old one: each of its links will be answered. *)
LEMMA MutualWhenWritten ==
    ASSUME ShapeInv, LinksAreMutual, NEW t \in Threads, SetLinks(t), OthersKeep(t)
    PROVE  LinksAreMutual'
<1> DEFINE x == job[t].id
<1>1. PICK chosen \in Seq(Nat) :
         /\ Written(x, look[t].layer, chosen)
         /\ todo' = [todo EXCEPT ![t] = chosen]
         /\ dropped' = (dropped \/ (look[t].layer = 0 /\ ~(ToSet(Links(x, 0)) \subseteq ToSet(chosen))))
         /\ x \in DOMAIN nodes /\ look[t].layer \in Layers
  BY SetLinksShape
<1>2. pc[t] = "look" /\ pc'[t] = "back" /\ look'[t] = look[t] /\ job'[t] = job[t] /\ todo'[t] = chosen
  BY <1>1 DEF SetLinks, Ended, ShapeInv, Types
<1> HIDE DEF x
<1>3. \A k \in DOMAIN nodes : Links(k, 0)' = IF k = x /\ 0 = look[t].layer THEN chosen ELSE Links(k, 0)
  BY <1>1, Constants DEF Written
<1>4. \A k \in DOMAIN nodes :
         ToSet(Links(k, 0))' = IF k = x /\ 0 = look[t].layer THEN ToSet(chosen) ELSE ToSet(Links(k, 0))
  BY <1>3 DEF ToSet
<1>5. \A k \in DOMAIN nodes : ToSet(Links(k, 0)) \subseteq DOMAIN nodes
  BY CopiedList, Constants
<1>6. /\ \A n, m : ~Promised(t, n, m)
      /\ \A n, m : Promised(t, n, m)' <=> look[t].layer = 0 /\ n = x /\ m \in ToSet(chosen)
      /\ \A u \in Threads : \A n, m : u # t => (Promised(u, n, m)' <=> Promised(u, n, m))
  BY <1>2 DEF OthersKeep, Promised, x
<1>7. DOMAIN nodes' = DOMAIN nodes
  BY <1>1 DEF Written
<1> SUFFICES ASSUME ~dropped'
    PROVE /\ \A n \in DOMAIN nodes : \A m \in ToSet(Links(n, 0))' :
                n \in ToSet(Links(m, 0))' \/ \E u \in Threads : Promised(u, n, m)'
          /\ \A u \in Threads, n, m \in DOMAIN nodes : Promised(u, n, m)' => m \in ToSet(Links(n, 0))'
  BY <1>7 DEF LinksAreMutual, ToSet
<1>8. ~dropped /\ (look[t].layer = 0 => ToSet(Links(x, 0)) \subseteq ToSet(chosen))
  BY <1>1
<1>9. \A k \in DOMAIN nodes : ToSet(Links(k, 0)) \subseteq ToSet(Links(k, 0))'
  BY <1>4, <1>8
<1>10. ASSUME NEW n \in DOMAIN nodes, NEW m \in ToSet(Links(n, 0))'
       PROVE  n \in ToSet(Links(m, 0))' \/ \E u \in Threads : Promised(u, n, m)'
  <2>1. CASE n = x /\ 0 = look[t].layer
    BY <1>4, <1>6, <1>10, <2>1
  <2>2. CASE ~(n = x /\ 0 = look[t].layer)
    <3>1. m \in ToSet(Links(n, 0)) /\ m \in DOMAIN nodes
      BY <1>4, <1>5, <1>10, <2>2
    <3>2. n \in ToSet(Links(m, 0)) \/ \E u \in Threads : Promised(u, n, m)
      BY <1>8, <3>1 DEF LinksAreMutual
    <3> QED BY <1>6, <1>9, <3>1, <3>2
  <2> QED BY <2>1, <2>2
<1>11. ASSUME NEW u \in Threads, NEW n \in DOMAIN nodes, NEW m \in DOMAIN nodes, Promised(u, n, m)'
       PROVE  m \in ToSet(Links(n, 0))'
  <2>1. CASE u = t
    BY <1>4, <1>6, <1>11, <2>1
  <2>2. CASE u # t
    <3>1. m \in ToSet(Links(n, 0))
      BY <1>6, <1>8, <1>11, <2>2 DEF LinksAreMutual
    <3> QED BY <1>9, <3>1
  <2> QED BY <2>1, <2>2
<1> QED BY <1>10, <1>11

(* A back-link answers one of them. *)
LEMMA MutualWhenTold ==
    ASSUME ShapeInv, LinksAreMutual, NEW t \in Threads, BackLink(t), OthersKeep(t)
    PROVE  LinksAreMutual'
<1> DEFINE x == job[t].id
           e == Head(todo[t])
<1>1. PICK new \in Seq(Nat) :
         /\ ToSet(new) \subseteq ToSet(Links(e, look[t].layer)) \cup {x}
         /\ Written(e, look[t].layer, new)
         /\ dropped' = (dropped \/ (look[t].layer = 0 /\ ~(ToSet(Links(e, 0)) \cup {x} \subseteq ToSet(new))))
         /\ x \in DOMAIN nodes /\ look[t].layer \in Layers /\ e \in DOMAIN nodes
         /\ e \in ToSet(todo[t]) /\ ToSet(todo[t]) \subseteq ToSet(Tail(todo[t])) \cup {e}
         /\ ToSet(Tail(todo[t])) \subseteq ToSet(todo[t])
  BY BackLinkShape
<1>2. pc[t] = "back" /\ pc'[t] = "back" /\ look'[t] = look[t] /\ job'[t] = job[t] /\ todo'[t] = Tail(todo[t])
  BY <1>1 DEF BackLink, ShapeInv, Types
<1> HIDE DEF x, e
<1>3. \A k \in DOMAIN nodes : Links(k, 0)' = IF k = e /\ 0 = look[t].layer THEN new ELSE Links(k, 0)
  BY <1>1, Constants DEF Written
<1>4. \A k \in DOMAIN nodes :
         ToSet(Links(k, 0))' = IF k = e /\ 0 = look[t].layer THEN ToSet(new) ELSE ToSet(Links(k, 0))
  BY <1>3 DEF ToSet
<1>5. \A k \in DOMAIN nodes : ToSet(Links(k, 0)) \subseteq DOMAIN nodes
  BY CopiedList, Constants
<1>6. /\ \A n, m : Promised(t, n, m) <=> look[t].layer = 0 /\ n = x /\ m \in ToSet(todo[t])
      /\ \A n, m : Promised(t, n, m)' <=> look[t].layer = 0 /\ n = x /\ m \in ToSet(Tail(todo[t]))
      /\ \A u \in Threads : \A n, m : u # t => (Promised(u, n, m)' <=> Promised(u, n, m))
  BY <1>2 DEF OthersKeep, Promised, x
<1>7. DOMAIN nodes' = DOMAIN nodes
  BY <1>1 DEF Written
<1> SUFFICES ASSUME ~dropped'
    PROVE /\ \A n \in DOMAIN nodes : \A m \in ToSet(Links(n, 0))' :
                n \in ToSet(Links(m, 0))' \/ \E u \in Threads : Promised(u, n, m)'
          /\ \A u \in Threads, n, m \in DOMAIN nodes : Promised(u, n, m)' => m \in ToSet(Links(n, 0))'
  BY <1>7 DEF LinksAreMutual, ToSet
<1>8. ~dropped /\ (look[t].layer = 0 => ToSet(Links(e, 0)) \cup {x} \subseteq ToSet(new))
  BY <1>1
<1>9. \A k \in DOMAIN nodes : ToSet(Links(k, 0)) \subseteq ToSet(Links(k, 0))'
  BY <1>4, <1>8
<1>10. ASSUME NEW n \in DOMAIN nodes, NEW m \in ToSet(Links(n, 0))'
       PROVE  n \in ToSet(Links(m, 0))' \/ \E u \in Threads : Promised(u, n, m)'
  <2>1. CASE m \in ToSet(Links(n, 0))
    <3>1. m \in DOMAIN nodes
      BY <1>5, <2>1
    <3>2. CASE n \in ToSet(Links(m, 0))
      BY <1>9, <3>1, <3>2
    <3>3. ASSUME NEW u \in Threads, Promised(u, n, m)
          PROVE  n \in ToSet(Links(m, 0))' \/ Promised(u, n, m)'
      <4>1. CASE u = t /\ m = e
        BY <1>4, <1>6, <1>8, <3>1, <3>3, <4>1
      <4>2. CASE u # t \/ m # e
        BY <1>1, <1>6, <3>3, <4>2
      <4> QED BY <4>1, <4>2
    <3> QED BY <1>8, <2>1, <3>2, <3>3 DEF LinksAreMutual
  <2>2. CASE m \notin ToSet(Links(n, 0))
    <3>1. n = e /\ m = x /\ look[t].layer = 0
      BY <1>1, <1>4, <1>10, <2>2
    <3>2. Promised(t, x, e)
      BY <1>1, <1>6, <3>1
    <3>3. e \in ToSet(Links(x, 0))
      BY <1>1, <1>8, <3>2 DEF LinksAreMutual
    <3> QED BY <1>1, <1>9, <3>1, <3>3
  <2> QED BY <2>1, <2>2
<1>11. ASSUME NEW u \in Threads, NEW n \in DOMAIN nodes, NEW m \in DOMAIN nodes, Promised(u, n, m)'
       PROVE  m \in ToSet(Links(n, 0))'
  <2>1. Promised(u, n, m)
    BY <1>1, <1>6, <1>11
  <2> QED BY <1>8, <1>9, <2>1 DEF LinksAreMutual
<1> QED BY <1>10, <1>11

-----------------------------------------------------------------------------
(* A step that keeps its thread's node keeps every linker. *)
LEMMA LinkersKept ==
    ASSUME NodesHaveLinkers, NEW t \in Threads, OthersKeep(t), DOMAIN nodes' = DOMAIN nodes,
           entry' = entry, top' = top, linked' = linked,
           Linking(t)' <=> Linking(t), Linking(t) => job'[t].id = job[t].id
    PROVE  NodesHaveLinkers'
<1>1. \A u \in Threads : (Linking(u)' <=> Linking(u)) /\ (Linking(u) => job'[u].id = job[u].id)
  BY DEF OthersKeep, Linking
<1> QED BY <1>1, LinkersStay

(* Another layer is searched. *)
LEMMA KnownWhenMoved ==
    ASSUME ShapeInv, Known, NEW t \in Threads, OthersKeep(t), NEW n, NEW layer, Moves(t, n, layer), Public(n),
           pc[t] # "idle", Hides(t)' => Hides(t)
    PROVE  Known'
<1> USE DEF Known
<1>1. GraphStays /\ SameJob(t) /\ pc'[t] = "look" /\ look'[t].visited = {n} /\ todo[t] = <<>> /\ todo'[t] = <<>>
  BY DEF Moves
<1>2. NodesHaveLinkers'
  <2>1. Linking(t)' <=> Linking(t)
    BY <1>1 DEF Linking, SameJob
  <2> QED BY <1>1, <2>1, LinkersKept DEF SameJob, GraphStays
<1>3. HiddenIsUnknown'
  <2>1. \A m \in look'[t].visited \cup ToSet(todo'[t]) : Public(m)
    BY <1>1 DEF ToSet
  <2> QED BY <1>1, <2>1, HiddenWhenMoved DEF SameJob, GraphStays
<1>4. LinksAreMutual'
  BY <1>1, MutualStays DEF GraphStays
<1> QED BY <1>2, <1>3, <1>4

(* The entry point is linked; what was visited is known. *)
LEMMA ReadEntryKnown ==
    ASSUME ShapeInv, Known, NEW t \in Threads, OthersKeep(t), ReadEntry(t), ~(top < 0)
    PROVE  Known' /\ Public(entry) /\ entry \in linked
<1>1. Moves(t, entry, top)
  BY ReadEntryMoves
<1>2. pc[t] = "entry" /\ top \in Int
  BY DEF ReadEntry, ShapeInv, Types
<1>3. entry \in linked
  BY <1>2 DEF Known, NodesHaveLinkers
<1>4. Public(entry)
  BY <1>3, KnownArePublic DEF Known
<1>5. Hides(t)' => Hides(t)
  BY <1>1, <1>2 DEF Moves, SameJob, Hides, Linking
<1> QED BY <1>1, <1>2, <1>3, <1>4, <1>5, KnownWhenMoved

(* The greedy descent goes one layer down. *)
LEMMA DescendKnown ==
    ASSUME ShapeInv, Known, NEW t \in Threads, OthersKeep(t), Descend(t)
    PROVE  Known' /\ Public(Start(t))
<1>1. /\ pc[t] = "look" /\ look[t].layer > job[t].l /\ Moves(t, Start(t), look[t].layer - 1)
      /\ Start(t) \in look[t].visited
  BY DescendMoves
<1>2. Public(Start(t))
  BY <1>1, KnownArePublic DEF Known
<1>3. Hides(t)' => Hides(t)
  BY <1>1 DEF Moves, SameJob, Hides, Linking
<1> QED BY <1>1, <1>2, <1>3, KnownWhenMoved

(* link() goes one layer down. *)
LEMMA NextLayerKnown ==
    ASSUME ShapeInv, Known, NEW t \in Threads, OthersKeep(t), NextLayer(t), look[t].layer > 0
    PROVE  Known'
<1>1. /\ pc[t] = "back" /\ look[t].layer <= job[t].l /\ look[t].layer \in Nat /\ job[t].l \in Nat
      /\ Moves(t, Start(t), look[t].layer - 1) /\ Start(t) \in look[t].visited
  BY NextLayerMoves
<1>2. Public(Start(t))
  BY <1>1, KnownArePublic DEF Known
<1>3. Hides(t)' => Hides(t)
  BY <1>1 DEF Moves, SameJob, Hides, Linking
<1> QED BY <1>1, <1>2, <1>3, KnownWhenMoved

(* link() returns: its node is linked, and was known before. *)
LEMMA EndKnown ==
    ASSUME ShapeInv, Known, NEW t \in Threads, OthersKeep(t), Ends(t)
    PROVE  Known'
<1> USE DEF Known
<1>1. nodes' = nodes /\ dropped' = dropped /\ pc'[t] = "idle" /\ look'[t] = NoLook /\ todo[t] = <<>> /\ todo'[t] = <<>>
  BY DEF Ends
<1>2. NodesHaveLinkers'
  BY LinkersWhenEnded
<1>3. HiddenIsUnknown'
  <2>1. look'[t].visited \cup ToSet(todo'[t]) = {}
    BY <1>1 DEF NoLook, ToSet
  <2>2. ~Hides(t)'
    BY <1>1 DEF Hides, Linking
  <2> QED BY <1>1, <2>1, <2>2, HiddenWhenMoved
<1>4. LinksAreMutual'
  BY <1>1, MutualStays
<1> QED BY <1>2, <1>3, <1>4

(* A query begins or is answered. *)
LEMMA AskKnown ==
    ASSUME ShapeInv, Known, NEW t \in Threads, OthersKeep(t), Asks(t)
    PROVE  Known'
<1> USE DEF Known
<1>1. /\ GraphStays /\ ~Linking(t) /\ ~Linking(t)'
      /\ pc'[t] \in {"idle", "entry"} /\ look'[t].visited = {} /\ todo[t] = <<>> /\ todo'[t] = <<>>
  BY DEF Asks
<1>2. NodesHaveLinkers'
  BY <1>1, LinkersKept DEF GraphStays
<1>3. HiddenIsUnknown'
  <2>1. look'[t].visited \cup ToSet(todo'[t]) = {}
    BY <1>1 DEF ToSet
  <2>2. ~Hides(t)'
    BY <1>1 DEF Hides
  <2> QED BY <1>1, <2>1, <2>2, HiddenWhenMoved DEF GraphStays
<1>4. LinksAreMutual'
  BY <1>1, MutualStays DEF GraphStays
<1> QED BY <1>2, <1>3, <1>4

(* A node taller than the graph waits for the entry lock. *)
LEMMA ToPromoteKnown ==
    ASSUME ShapeInv, Known, NEW t \in Threads, OthersKeep(t), NextLayer(t), ~(look[t].layer > 0), job[t].l > job[t].L
    PROVE  Known' /\ GraphStays /\ pc[t] = "back" /\ pc'[t] = "promote" /\ job' = job /\ look' = look /\ todo' = todo
           /\ todo[t] = <<>>
<1> USE DEF Known
<1>1. /\ GraphStays /\ pc[t] = "back" /\ pc'[t] = "promote" /\ job' = job /\ look' = look /\ todo' = todo /\ todo[t] = <<>>
  BY DEF NextLayer, GraphStays, ShapeInv, Types
<1>2. NodesHaveLinkers'
  <2>1. Linking(t)' <=> Linking(t)
    BY <1>1 DEF Linking
  <2> QED BY <1>1, <2>1, LinkersKept DEF GraphStays
<1>3. HiddenIsUnknown'
  <2>1. \A m \in look'[t].visited \cup ToSet(todo'[t]) : Public(m)
    BY <1>1, KnownArePublic
  <2>2. ~Hides(t)'
    BY <1>1 DEF Hides
  <2> QED BY <1>1, <2>1, <2>2, HiddenWhenMoved DEF GraphStays
<1>4. LinksAreMutual'
  BY <1>1, MutualStays DEF GraphStays
<1> QED BY <1>1, <1>2, <1>3, <1>4

(* What search_layer visits next. *)
LEMMA ExpandVisits ==
    ASSUME ShapeInv, NEW t \in Threads, Expand(t)
    PROVE  /\ GraphStays /\ pc[t] = "look" /\ pc'[t] = "look" /\ job'[t] = job[t] /\ todo'[t] = <<>> /\ todo[t] = <<>>
           /\ look'[t].layer = look[t].layer /\ look[t].layer \in Layers
           /\ \E c \in look[t].visited :
                 c \in DOMAIN nodes /\ look'[t].visited = look[t].visited \cup ToSet(Links(c, look[t].layer))
<1>1. PICK c \in look[t].cands :
         LET s == [look[t] EXCEPT !.cands = @ \ {c}] IN
         /\ c \in DOMAIN nodes /\ Grown(s, look'[t], ToSet(Links(c, look[t].layer)))
  BY ExpandShape
<1> DEFINE s == [look[t] EXCEPT !.cands = @ \ {c}]
<1>2. s.visited = look[t].visited /\ s.layer = look[t].layer /\ c \in look[t].visited /\ look[t].layer \in Layers
  BY DEF ShapeInv, Types, Look, LookOK
<1>3. c \in DOMAIN nodes /\ Grown(s, look'[t], ToSet(Links(c, look[t].layer)))
  BY <1>1
<1> HIDE DEF s
<1>4. look'[t].layer = look[t].layer /\ look'[t].visited = look[t].visited \cup ToSet(Links(c, look[t].layer))
  BY <1>2, <1>3 DEF Grown
<1>5. GraphStays /\ pc[t] = "look" /\ pc'[t] = "look" /\ job'[t] = job[t] /\ todo'[t] = todo[t]
  BY DEF Expand, GraphStays
<1>6. todo[t] = <<>>
  BY <1>5 DEF ShapeInv, JobOK
<1> QED BY <1>2, <1>3, <1>4, <1>5, <1>6

(* search_layer copies the neighbours of a candidate. *)
LEMMA ExpandKnown ==
    ASSUME ShapeInv, Known, NEW t \in Threads, OthersKeep(t), Expand(t)
    PROVE  Known'
<1> USE DEF Known
<1>1. /\ GraphStays /\ pc[t] = "look" /\ pc'[t] = "look" /\ job'[t] = job[t] /\ todo'[t] = <<>> /\ todo[t] = <<>>
      /\ look'[t].layer = look[t].layer /\ look[t].layer \in Layers
  BY ExpandVisits
<1>2. PICK c \in look[t].visited :
         c \in DOMAIN nodes /\ look'[t].visited = look[t].visited \cup ToSet(Links(c, look[t].layer))
  BY ExpandVisits
<1>3. NodesHaveLinkers'
  <2>1. Linking(t)' <=> Linking(t)
    BY <1>1 DEF Linking
  <2> QED BY <1>1, <2>1, LinkersKept DEF GraphStays
<1>4. HiddenIsUnknown'
  <2>1. \A m \in look'[t].visited \cup ToSet(todo'[t]) : Public(m)
    BY <1>1, <1>2, KnownArePublic DEF ToSet
  <2>2. Hides(t)' => Hides(t)
    BY <1>1 DEF Hides, Linking
  <2> QED BY <1>1, <2>1, <2>2, HiddenWhenMoved DEF GraphStays
<1>5. LinksAreMutual'
  BY <1>1, MutualStays DEF GraphStays
<1> QED BY <1>3, <1>4, <1>5

(* link() writes the list of its node. *)
LEMMA SetLinksKnown ==
    ASSUME ShapeInv, Known, NEW t \in Threads, OthersKeep(t), SetLinks(t)
    PROVE  Known'
<1> USE DEF Known
<1>1. PICK chosen \in Seq(Nat) :
         /\ ToSet(chosen) \subseteq look[t].W
         /\ Written(job[t].id, look[t].layer, chosen) /\ todo' = [todo EXCEPT ![t] = chosen]
  BY SetLinksShape
<1>2. /\ pc[t] = "look" /\ pc'[t] = "back" /\ look'[t] = look[t] /\ job'[t] = job[t] /\ todo'[t] = chosen
      /\ entry' = entry /\ top' = top /\ linked' = linked /\ ToSet(chosen) \subseteq look[t].visited
  BY <1>1 DEF SetLinks, Ended, ShapeInv, Types, LookOK
<1>3. NodesHaveLinkers'
  <2>1. (Linking(t)' <=> Linking(t)) /\ DOMAIN nodes' = DOMAIN nodes
    BY <1>1, <1>2 DEF Linking, Written
  <2> QED BY <1>2, <2>1, LinkersKept
<1>4. HiddenIsUnknown'
  <2>1. (\A m \in look'[t].visited \cup ToSet(todo'[t]) : Public(m)) /\ \A m \in ToSet(chosen) : Public(m)
    BY <1>2, KnownArePublic
  <2>2. ~Hides(t)'
    BY <1>2 DEF Hides
  <2> QED BY <1>1, <2>1, <2>2, HiddenWhenWritten
<1> QED BY <1>3, <1>4, MutualWhenWritten

(* link() adds its node to the list of a neighbour. *)
LEMMA BackLinkKnown ==
    ASSUME ShapeInv, Known, NEW t \in Threads, OthersKeep(t), BackLink(t)
    PROVE  Known'
<1> USE DEF Known
<1>1. PICK new \in Seq(Nat) :
         /\ ToSet(new) \subseteq ToSet(Links(Head(todo[t]), look[t].layer)) \cup {job[t].id}
         /\ Written(Head(todo[t]), look[t].layer, new)
         /\ look[t].layer \in Layers /\ Head(todo[t]) \in DOMAIN nodes
         /\ ToSet(Tail(todo[t])) \subseteq ToSet(todo[t])
  BY BackLinkShape
<1>2. /\ pc[t] = "back" /\ pc'[t] = "back" /\ look'[t] = look[t] /\ job'[t] = job[t] /\ todo'[t] = Tail(todo[t])
      /\ entry' = entry /\ top' = top /\ linked' = linked
  BY DEF BackLink, ShapeInv, Types
<1>3. Linking(t) /\ Linking(t)' /\ ~Hides(t) /\ ~Hides(t)' /\ DOMAIN nodes' = DOMAIN nodes
  BY <1>1, <1>2 DEF Linking, Hides, ShapeInv, JobOK, Written
<1>4. NodesHaveLinkers'
  BY <1>2, <1>3, LinkersKept
<1>5. HiddenIsUnknown'
  <2>1. \A m \in look'[t].visited \cup ToSet(todo'[t]) : Public(m)
    BY <1>1, <1>2, KnownArePublic
  <2>2. \A m \in ToSet(new) : Public(m)
    BY <1>1, <1>3, KnownArePublic
  <2> QED BY <1>1, <1>3, <2>1, <2>2, HiddenWhenWritten
<1> QED BY <1>4, <1>5, MutualWhenTold

(* Every step keeps what threads and lists know of the nodes. *)
LEMMA KnownStep ==
    ASSUME ShapeInv, Known, [Next]_vars
    PROVE  Known'
<1>1. CASE UNCHANGED vars
  <2>1. UNCHANGED <<nodes, entry, top, pc, job, look, todo, linked, dropped, before, searches>>
    BY <1>1 DEF vars
  <2>2. \A n, c : Links(n, c)' = Links(n, c)
    BY <2>1, SameNodes
  <2>3. (\A t : (Linking(t)' <=> Linking(t)) /\ (Hides(t)' <=> Hides(t)))
        /\ (\A t, n, m : Promised(t, n, m)' <=> Promised(t, n, m))
    BY <2>1 DEF Linking, Hides, Promised
  <2>4. NodesHaveLinkers' /\ HiddenIsUnknown'
    BY <2>1, <2>2, <2>3 DEF Known, NodesHaveLinkers, HiddenIsUnknown, ToSet
  <2>5. LinksAreMutual'
    BY <2>1, <2>2, <2>3 DEF Known, LinksAreMutual, ToSet
  <2> QED BY <2>4, <2>5 DEF Known
<1>2. CASE Next
  <2>1. PICK t \in Threads : Allocate(t) \/ ReadEntry(t) \/ Expand(t) \/ Descend(t) \/ Link(t) \/ Search(t)
    BY <1>2 DEF Next
  <2>2. OthersKeep(t)
    BY <2>1, StepIsLocal
  <2>3. CASE Allocate(t)
    BY <2>2, <2>3, LinkersWhenAdded, HiddenWhenAdded, MutualWhenAdded DEF Known
  <2>4. CASE ReadEntry(t)
    BY <2>2, <2>4, ReadEntryKnown, CallEnds, EndKnown
  <2>5. CASE NextLayer(t)
    BY <2>2, <2>5, NextLayerKnown, CallEnds, EndKnown, ToPromoteKnown
  <2>6. CASE Promote(t)
    BY <2>2, <2>6, CallEnds, EndKnown
  <2>7. CASE Search(t)
    BY <2>2, <2>7, SearchAsks, AskKnown
  <2>8. CASE Expand(t) \/ Descend(t) \/ SetLinks(t) \/ BackLink(t)
    BY <2>2, <2>8, ExpandKnown, DescendKnown, SetLinksKnown, BackLinkKnown
  <2> QED BY <2>1, <2>3, <2>4, <2>5, <2>6, <2>7, <2>8 DEF Link
<1> QED BY <1>1, <1>2

-----------------------------------------------------------------------------
(* A step that places a node. *)

\* t's node comes under v in the layers of JR, and its search of the layers of JV starts at v.
Placing(t, JR, JV, v) ==
    /\ Linking(t) /\ Linking(t)' /\ job'[t].id = job[t].id /\ job[t].id \in DOMAIN nodes
    /\ v \in DOMAIN nodes /\ Public(v)
    /\ DOMAIN nodes' = DOMAIN nodes /\ \A k \in DOMAIN nodes : nodes'[k].point = nodes[k].point
    /\ \A c \in Layers :
          /\ Unplaced(t, c)' <=> Unplaced(t, c) /\ c \notin JR
          /\ c \in JR => Unplaced(t, c)
          /\ Unaimed(t, c)' => Unaimed(t, c) /\ c \notin JV
          /\ c \in JV => Unaimed(t, c)
          /\ c \in JR /\ c \in JV => Hides(t)
          /\ Hides(t)' /\ Unplaced(t, c)' => Hides(t) /\ c \notin JV

(* A node is one of the ids that the capacity allows. *)
LEMMA NodesAreIds ==
    ASSUME ShapeInv
    PROVE  DOMAIN nodes \subseteq Ids /\ DOMAIN nodes \subseteq Nat
<1>1. Len(nodes) <= Cardinality(Points) /\ Cardinality(Points) \in Nat
  BY Constants, FS_CardinalityType DEF ShapeInv, Types
<1>2. DOMAIN nodes = 1..Len(nodes) /\ Len(nodes) \in Nat
  BY NodesFinite DEF ShapeInv, Types, NodesTyped
<1> QED BY <1>1, <1>2 DEF Ids

(* A thread that makes no step has placed what it had. *)
LEMMA OthersPlaced ==
    ASSUME NEW t \in Threads, OthersKeep(t), NEW u \in Threads, u # t, NEW c
    PROVE  /\ Linking(u)' <=> Linking(u)
           /\ Hides(u)' <=> Hides(u)
           /\ Unplaced(u, c)' <=> Unplaced(u, c)
           /\ Unaimed(u, c)' <=> Unaimed(u, c)
  BY DEF OthersKeep, Linking, Hides, Unplaced, Unaimed

(* What is still to be placed, or unknown, is still its own root. *)
LEMMA RootsWhenPlaced ==
    ASSUME ShapeInv, Known, NEW t \in Threads, OthersKeep(t),
           NEW R, NEW V, NEW rank, IsForest(R, V, rank), RootsAre(R, V), NEW JR, NEW JV, NEW v,
           MayPlace(R, V, rank, JR, JV, job[t].id, v), Placing(t, JR, JV, v),
           NEW R2, NEW V2, NEW rank2, Placed(R, V, rank, JR, JV, job[t].id, v, R2, V2, rank2)
    PROVE  RootsAre(R2, V2)'
<1> DEFINE x == job[t].id
<1>0. x \in Ids /\ v \in Ids /\ v # x /\ x \in DOMAIN nodes /\ v \in DOMAIN nodes /\ DOMAIN nodes' = DOMAIN nodes
      /\ job'[t].id = x /\ Linking(t) /\ Public(v)
  BY DEF MayPlace, Placing
<1> HIDE DEF x
<1>1. MayPlace(R, V, rank, JR, JV, x, v) /\ Placed(R, V, rank, JR, JV, x, v, R2, V2, rank2)
  BY DEF x
<1>2. ASSUME NEW n \in Ids \ DOMAIN nodes, NEW c \in Layers PROVE Alone(R2, V2, c, n)
  <2>1. Alone(R, V, c, n) /\ n # x /\ n # v /\ n \in Ids
    BY <1>0, <1>2 DEF RootsAre
  <2> QED BY <1>1, <2>1, AloneKept
<1>3. ASSUME NEW u \in Threads, NEW c \in Layers
      PROVE  /\ Unplaced(u, c)' => R2[c][job'[u].id] = job'[u].id
             /\ Unaimed(u, c)' => V2[c][job'[u].id] = job'[u].id
             /\ Hides(u)' /\ Unplaced(u, c)' => Alone(R2, V2, c, job'[u].id)
  <2>0. /\ Unplaced(u, c) => R[c][job[u].id] = job[u].id
        /\ Unaimed(u, c) => V[c][job[u].id] = job[u].id
        /\ Hides(u) /\ Unplaced(u, c) => Alone(R, V, c, job[u].id)
    BY DEF RootsAre
  <2>1. CASE u = t
    <3>1. /\ Unplaced(t, c)' => Unplaced(t, c) /\ c \notin JR
          /\ Unaimed(t, c)' => Unaimed(t, c) /\ c \notin JV
          /\ Hides(t)' /\ Unplaced(t, c)' => Hides(t) /\ c \notin JV
      BY DEF Placing
    <3>2. /\ c \notin JR => R2[c][x] = R[c][x]
          /\ c \notin JV => V2[c][x] = V[c][x]
      BY <1>0, <1>1 DEF Placed
    <3>3. ASSUME Hides(t)', Unplaced(t, c)' PROVE Alone(R2, V2, c, x)
      <4>1. Alone(R, V, c, x) /\ c \notin JR \cup JV
        BY <2>0, <2>1, <3>1, <3>3 DEF x
      <4> QED BY <1>0, <1>1, <4>1, AloneKept
    <3>4. job'[u].id = x /\ job[u].id = x
      BY <1>0, <2>1 DEF x
    <3> QED BY <2>0, <2>1, <3>1, <3>2, <3>3, <3>4
  <2>2. CASE u # t
    <3>1. (Hides(u)' <=> Hides(u)) /\ (Unplaced(u, c)' <=> Unplaced(u, c)) /\ (Unaimed(u, c)' <=> Unaimed(u, c))
          /\ job'[u] = job[u]
      BY <2>2, OthersPlaced DEF OthersKeep
    <3> DEFINE y == job[u].id
    <3>2. Linking(u) => y \in DOMAIN nodes /\ y \in Ids /\ y # x
      BY <1>0, <2>2, NodesAreIds DEF Known, NodesHaveLinkers, ShapeInv, JobOK, Linking, x
    <3>3. (Unplaced(u, c) \/ Unaimed(u, c) \/ Hides(u)) => Linking(u)
      BY DEF Unplaced, Unaimed, Hides
    <3>4. Hides(u) => y # v
      BY <1>0 DEF Public
    <3>5. job'[u].id = y
      BY <3>1
    <3>6. /\ Unplaced(u, c) => R[c][y] = y
          /\ Unaimed(u, c) => V[c][y] = y
          /\ Hides(u) /\ Unplaced(u, c) => Alone(R, V, c, y)
      BY <2>0
    <3> HIDE DEF y
    <3>7. Unplaced(u, c) => R2[c][y] = y
      BY <1>1, <3>2, <3>3, <3>6 DEF Placed
    <3>8. Unaimed(u, c) => V2[c][y] = y
      BY <1>1, <3>2, <3>3, <3>6 DEF Placed
    <3>9. Hides(u) /\ Unplaced(u, c) => Alone(R2, V2, c, y)
      BY <1>1, <3>2, <3>3, <3>4, <3>6, AloneKept
    <3> QED BY <3>1, <3>5, <3>7, <3>8, <3>9
  <2> QED BY <2>1, <2>2
<1>4. \A n \in Ids \ DOMAIN nodes', c \in Layers : Alone(R2, V2, c, n)
  BY <1>0, <1>2
<1> QED BY <1>3, <1>4 DEF RootsAre, Alone

(* What a thread knows of the place its search starts from. *)
LEMMA StartStays ==
    ASSUME ShapeInv, NEW u \in Threads, look'[u] = look[u], job'[u] = job[u], DOMAIN nodes \subseteq DOMAIN nodes',
           \A k \in DOMAIN nodes : nodes'[k].point = nodes[k].point
    PROVE  Start(u)' = Start(u)
<1>1. look[u].W \subseteq DOMAIN nodes
  BY DEF ShapeInv, LookOK, Tall
<1>2. Start(u)' = (CHOOSE n \in look[u].W : \A m \in look[u].W : DistTo(job[u].point, n)' <= DistTo(job[u].point, m)')
  BY DEF Start, Nearest, DistTo
<1>3. (CHOOSE n \in look[u].W : \A m \in look[u].W : DistTo(job[u].point, n)' <= DistTo(job[u].point, m)')
      = Nearest(job[u].point, look[u].W)
  BY <1>1, NearestStays
<1> QED BY <1>2, <1>3 DEF Start

(* The searches of the others still lead away from their own nodes. *)
LEMMA SearchesWhenPlaced ==
    ASSUME ShapeInv, Known, NEW t \in Threads, OthersKeep(t),
           NEW R, NEW V, NEW rank, IsForest(R, V, rank), SearchesAreInTree(R, V, rank), NEW JR, NEW JV, NEW v,
           MayPlace(R, V, rank, JR, JV, job[t].id, v), Placing(t, JR, JV, v),
           NEW R2, NEW V2, NEW rank2, Placed(R, V, rank, JR, JV, job[t].id, v, R2, V2, rank2),
           NEW u \in Threads, u # t, Linking(u)
    PROVE  SearchIsInTree(R2, V2, rank2, u)'
<1> DEFINE x == job[t].id
           y == job[u].id
           c == look[u].layer
<1>0. x \in Ids /\ v \in Ids /\ (\A d \in Layers : d \in JR /\ d \in JV => Hides(t))
  BY DEF MayPlace, Placing
<1>1. pc'[u] = pc[u] /\ job'[u] = job[u] /\ look'[u] = look[u]
  BY DEF OthersKeep
<1>2. Start(u)' = Start(u)
  BY <1>1, StartStays DEF Placing
<1>3. y \in Ids /\ look[u].visited \subseteq Ids /\ c \in Layers
  BY NodesAreIds DEF ShapeInv, Linking, JobOK, LookOK, Tall, Types, Look
<1>4. Hides(t) => x \notin look[u].visited
  BY DEF Known, HiddenIsUnknown
<1>5. SearchIsInTree(R, V, rank, u)
  BY DEF SearchesAreInTree
<1>6. /\ pc[u] = "look" => \A w, z \in look[u].visited : R[c][w] = R[c][z]
      /\ pc[u] = "look" /\ c > job[u].l => \A w \in look[u].visited : R[c][w] = R[c][y]
      /\ pc[u] = "look" /\ c <= job[u].l => \A w \in look[u].visited : Aims(R, V, rank, c, y, w)
      /\ pc[u] = "back" /\ c > 0 => Aims(R, V, rank, c - 1, y, Start(u))
  BY <1>5 DEF SearchIsInTree
<1>7. SearchIsInTree(R2, V2, rank2, u)' <=>
      /\ pc[u] = "look" => \A w, z \in look[u].visited : R2[c][w] = R2[c][z]
      /\ pc[u] = "look" /\ c > job[u].l => \A w \in look[u].visited : R2[c][w] = R2[c][y]
      /\ pc[u] = "look" /\ c <= job[u].l => \A w \in look[u].visited : Aims(R2, V2, rank2, c, y, w)
      /\ pc[u] = "back" /\ c > 0 => Aims(R2, V2, rank2, c - 1, y, Start(u))
  BY <1>1, <1>2 DEF SearchIsInTree, Aims
<1> HIDE DEF x, y, c
<1>8. MayPlace(R, V, rank, JR, JV, x, v) /\ Placed(R, V, rank, JR, JV, x, v, R2, V2, rank2)
  BY DEF x
<1>9. \A m, n \in Ids : R[c][m] = R[c][n] => R2[c][m] = R2[c][n]
  BY <1>0, <1>3, <1>8 DEF Placed
<1>10. ASSUME NEW d \in Layers, NEW w \in look[u].visited, w \in Ids, Aims(R, V, rank, d, y, w)
       PROVE  Aims(R2, V2, rank2, d, y, w)
  <2>1. d \in JR /\ d \in JV => w # x
    BY <1>0, <1>4
  <2> QED BY <1>3, <1>8, <1>10, <2>1, AimsKept
<1>11. pc[u] = "back" => Start(u) \in look[u].visited
  BY LookIsSound DEF Start, ShapeInv, LookOK
<1>12. c > 0 => c - 1 \in Layers
  BY <1>3, Constants DEF Layers
<1> QED BY <1>3, <1>6, <1>7, <1>9, <1>10, <1>11, <1>12

(* There is still one root. *)
LEMMA OneRootWhenPlaced ==
    ASSUME ShapeInv, Known, NEW t \in Threads, OthersKeep(t),
           NEW R, NEW V, NEW rank, NEW first, IsForest(R, V, rank), OneRoot(R, first), NEW JR, NEW JV, NEW v,
           MayPlace(R, V, rank, JR, JV, job[t].id, v), Placing(t, JR, JV, v),
           NEW R2, NEW V2, NEW rank2, Placed(R, V, rank, JR, JV, job[t].id, v, R2, V2, rank2)
    PROVE  OneRoot(R2, first)'
<1> DEFINE x == job[t].id
<1>0. x \in Ids /\ v \in Ids /\ DOMAIN nodes' = DOMAIN nodes /\ 0 \in Layers /\ job'[t].id = x
      /\ (Unplaced(t, 0)' <=> Unplaced(t, 0) /\ 0 \notin JR)
  BY Constants DEF MayPlace, Placing
<1> HIDE DEF x
<1>1. MayPlace(R, V, rank, JR, JV, x, v) /\ Placed(R, V, rank, JR, JV, x, v, R2, V2, rank2)
  BY DEF x
<1>2. ASSUME NEW n \in DOMAIN nodes, R2[0][n] = n, n # first PROVE \E u \in Threads : Unplaced(u, 0)' /\ job'[u].id = n
  <2>0. n \in Ids /\ R[0][R[0][v]] = R[0][v] /\ R[0][v] \in Ids
    BY <1>0, NodesAreIds DEF IsForest
  <2>1. R2[0][n] = IF 0 \in JR /\ R[0][n] = x THEN R[0][v] ELSE R[0][n]
    BY <1>0, <1>1, <2>0 DEF Placed
  <2>2. 0 \in JR => R[0][v] # x
    BY <1>0, <1>1, RootIsOther
  <2>3. R[0][n] = n /\ (0 \in JR => n # x)
    BY <1>2, <2>0, <2>1, <2>2
  <2>4. PICK u \in Threads : Unplaced(u, 0) /\ job[u].id = n
    BY <1>2, <2>3 DEF OneRoot
  <2>5. CASE u = t
    BY <1>0, <2>3, <2>4, <2>5 DEF x
  <2>6. CASE u # t
    BY <2>4, <2>6, OthersPlaced DEF OthersKeep
  <2> QED BY <2>5, <2>6
<1> QED BY <1>0, <1>2 DEF OneRoot

-----------------------------------------------------------------------------
(* The forest through each step. *)

LEMMA TreeLinksStay ==
    ASSUME NEW R, LinksAreInTree(R), NEW t \in Threads, OthersKeep(t), nodes' = nodes, todo'[t] = <<>>
    PROVE  LinksAreInTree(R)'
<1>1. \A n \in DOMAIN nodes', c \in Layers : \A m \in ToSet(Links(n, c))' : R[c][m] = R[c][n]
  <2>1. \A n, c : ToSet(Links(n, c))' = ToSet(Links(n, c))
    BY SameNodes DEF ToSet
  <2> QED BY <2>1 DEF LinksAreInTree
<1>2. ASSUME NEW u \in Threads, pc'[u] = "back", NEW m \in ToSet(todo'[u])
      PROVE  R[look'[u].layer][m] = R[look'[u].layer][job'[u].id]
  <2>1. u # t
    BY <1>2 DEF ToSet
  <2> QED BY <1>2, <2>1 DEF OthersKeep, LinksAreInTree
<1> QED BY <1>1, <1>2 DEF LinksAreInTree, ToSet

(* The trees hang together as long as the lists stay. *)
LEMMA TreesStay ==
    ASSUME NEW R, TreesAreLinked(R), nodes' = nodes, dropped' = dropped
    PROVE  TreesAreLinked(R)'
<1>1. \A n : Links(n, 0)' = Links(n, 0)
  BY SameNodes
<1> QED BY <1>1 DEF TreesAreLinked, ToSet

(* Nothing is placed: the forest stays. *)
LEMMA ForestKept ==
    ASSUME ShapeInv, NEW t \in Threads, OthersKeep(t),
           NEW R, NEW V, NEW rank, NEW first \in Nat, Forest(R, V, rank, first),
           DOMAIN nodes' = DOMAIN nodes, \A k \in DOMAIN nodes : nodes'[k].point = nodes[k].point,
           LinksAreInTree(R)', TreesAreLinked(R)',
           Linking(t)' => job'[t].id = job[t].id /\ SearchIsInTree(R, V, rank, t)',
           \A c \in Layers : /\ Unplaced(t, c)' <=> Unplaced(t, c)
                             /\ Unaimed(t, c)' => Unaimed(t, c)
                             /\ Hides(t)' /\ Unplaced(t, c)' => Hides(t)
    PROVE  ForestInv'
<1> USE DEF Forest
<1>1. \A u \in Threads, c \in Layers :
         /\ Unplaced(u, c)' <=> Unplaced(u, c)
         /\ Unaimed(u, c)' => Unaimed(u, c)
         /\ Hides(u)' /\ Unplaced(u, c)' => Hides(u)
         /\ Unplaced(u, c)' \/ Unaimed(u, c)' => job'[u].id = job[u].id
  <2> SUFFICES ASSUME NEW u \in Threads, NEW c \in Layers
      PROVE  /\ Unplaced(u, c)' <=> Unplaced(u, c)
             /\ Unaimed(u, c)' => Unaimed(u, c)
             /\ Hides(u)' /\ Unplaced(u, c)' => Hides(u)
             /\ Unplaced(u, c)' \/ Unaimed(u, c)' => job'[u].id = job[u].id
    OBVIOUS
  <2>1. CASE u = t
    <3>1. Unplaced(t, c)' \/ Unaimed(t, c)' => Linking(t)'
      BY DEF Unplaced, Unaimed
    <3> QED BY <2>1, <3>1
  <2>2. CASE u # t
    BY <2>2, OthersPlaced DEF OthersKeep
  <2> QED BY <2>1, <2>2
<1>2. RootsAre(R, V)'
  BY <1>1 DEF RootsAre, Alone
<1>3. SearchesAreInTree(R, V, rank)'
  <2> SUFFICES ASSUME NEW u \in Threads, Linking(u)' PROVE SearchIsInTree(R, V, rank, u)'
    BY DEF SearchesAreInTree
  <2>1. CASE u # t
    <3>1. pc'[u] = pc[u] /\ job'[u] = job[u] /\ look'[u] = look[u]
      BY <2>1 DEF OthersKeep
    <3>2. Start(u)' = Start(u)
      BY <3>1, StartStays
    <3>3. Linking(u) /\ SearchIsInTree(R, V, rank, u)
      BY <3>1 DEF Linking, SearchesAreInTree
    <3> QED BY <3>1, <3>2, <3>3 DEF SearchIsInTree, Aims
  <2> QED BY <2>1
<1>4. OneRoot(R, first)'
  <2>1. Unplaced(t, 0) => job'[t].id = job[t].id
    BY <1>1, Constants
  <2>2. \A u \in Threads : Unplaced(u, 0) => Unplaced(u, 0)' /\ job'[u].id = job[u].id
    BY <1>1, Constants
  <2> QED BY <2>2 DEF OneRoot
<1>5. Forest(R, V, rank, first)'
  BY <1>2, <1>3, <1>4
<1> QED BY <1>5 DEF ForestInv

(* A query begins or is answered. *)
LEMMA AskForest ==
    ASSUME ShapeInv, ForestInv, NEW t \in Threads, OthersKeep(t), Asks(t)
    PROVE  ForestInv'
<1>1. PICK R, V, rank : \E f \in Nat : Forest(R, V, rank, f)
  BY DEF ForestInv
<1>2. PICK first \in Nat : Forest(R, V, rank, first)
  BY <1>1
<1>3. GraphStays /\ ~Linking(t) /\ ~Linking(t)' /\ todo'[t] = <<>>
  BY DEF Asks
<1>4. nodes' = nodes /\ dropped' = dropped
  BY <1>3 DEF GraphStays
<1>5. LinksAreInTree(R)' /\ TreesAreLinked(R)'
  BY <1>2, <1>3, <1>4, TreeLinksStay, TreesStay DEF Forest
<1>6. \A c : ~Unplaced(t, c) /\ ~Unplaced(t, c)' /\ ~Unaimed(t, c)'
  BY <1>3 DEF Unplaced, Unaimed
<1> QED BY <1>2, <1>3, <1>4, <1>5, <1>6, ForestKept

(* link() returns: its node has been placed in every layer. *)
LEMMA EndForest ==
    ASSUME ShapeInv, ForestInv, NEW t \in Threads, OthersKeep(t), Ends(t),
           (pc[t] = "back" /\ look[t].layer = 0) \/ pc[t] = "promote"
    PROVE  ForestInv'
<1>1. PICK R, V, rank : \E f \in Nat : Forest(R, V, rank, f)
  BY DEF ForestInv
<1>2. PICK first \in Nat : Forest(R, V, rank, first)
  BY <1>1
<1>3. nodes' = nodes /\ dropped' = dropped /\ pc'[t] = "idle" /\ todo'[t] = <<>> /\ ~Linking(t)'
  BY DEF Ends, Linking
<1>4. LinksAreInTree(R)' /\ TreesAreLinked(R)'
  BY <1>2, <1>3, TreeLinksStay, TreesStay DEF Forest
<1>5. \A c \in Layers : ~Unplaced(t, c) /\ ~Unplaced(t, c)' /\ ~Unaimed(t, c)'
  <2> SUFFICES ASSUME NEW c \in Layers PROVE ~Unplaced(t, c) /\ ~Unplaced(t, c)' /\ ~Unaimed(t, c)'
    OBVIOUS
  <2>1. c \in Nat
    BY Constants
  <2>2. ~Unplaced(t, c)
    BY <2>1 DEF Unplaced
  <2> QED BY <1>3, <2>2 DEF Unplaced, Unaimed
<1> QED BY <1>2, <1>3, <1>4, <1>5, ForestKept

(* Before the first link() returned, every node is still to be placed. *)
LEMMA FirstForest ==
    ASSUME ShapeInv, Known, ForestInv, NEW t \in Threads, OthersKeep(t), ReadEntry(t), top < 0
    PROVE  ForestInv'
<1>1. PICK R, V, rank : \E f \in Nat : Forest(R, V, rank, f)
  BY DEF ForestInv
<1>2. PICK old \in Nat : Forest(R, V, rank, old)
  BY <1>1
<1>3. Ends(t) /\ pc[t] = "entry" /\ top \in Int
  BY CallEnds DEF ReadEntry
<1>4. nodes' = nodes /\ dropped' = dropped /\ pc'[t] = "idle" /\ todo'[t] = <<>> /\ ~Linking(t)' /\ job[t].type = "link"
  BY <1>3 DEF Ends, Linking
<1>5. LinksAreInTree(R)' /\ TreesAreLinked(R)'
  BY <1>2, <1>4, TreeLinksStay, TreesStay DEF Forest
<1>6. \A u \in Threads : Linking(u) => pc[u] = "entry"
  <2> SUFFICES ASSUME NEW u \in Threads, Linking(u), pc[u] # "entry" PROVE FALSE
    OBVIOUS
  <2>1. pc[u] \in {"look", "back", "promote"} /\ job[u] \in Job
    BY DEF Linking, ShapeInv, Types
  <2>2. job[u].L <= top /\ job[u].L \in Nat
    BY <2>1, Constants DEF ShapeInv, JobOK, Job
  <2> QED BY <1>3, <2>2
<1>7. linked = {}
  <2> SUFFICES ASSUME NEW n \in linked PROVE FALSE
    OBVIOUS
  <2>1. Height(n) <= top /\ Height(n) \in Nat
    BY Constants DEF ShapeInv, EntryIsTallest, Types, LinksInLayer
  <2> QED BY <1>3, <2>1
<1>8. PICK x \in Nat : x = job[t].id
  BY <1>3, <1>4, NodesAreIds DEF ShapeInv, JobOK
<1>9. OneRoot(R, x)'
  <2> SUFFICES ASSUME NEW n \in DOMAIN nodes, n # x PROVE \E u \in Threads : Unplaced(u, 0)' /\ job'[u].id = n
    BY <1>4 DEF OneRoot
  <2>1. PICK u \in Threads : Linking(u) /\ job[u].id = n
    BY <1>7 DEF Known, NodesHaveLinkers
  <2>2. u # t /\ Unplaced(u, 0)
    BY <1>6, <1>8, <2>1 DEF Unplaced
  <2> QED BY <2>1, <2>2, OthersPlaced DEF OthersKeep
<1>10. \A u \in Threads, c \in Layers :
         /\ Unplaced(u, c)' => Unplaced(u, c)
         /\ Unaimed(u, c)' => Unaimed(u, c)
         /\ Hides(u)' => Hides(u)
         /\ Unplaced(u, c)' \/ Unaimed(u, c)' => job'[u] = job[u]
  <2> SUFFICES ASSUME NEW u \in Threads, NEW c \in Layers
      PROVE  /\ Unplaced(u, c)' => Unplaced(u, c)
             /\ Unaimed(u, c)' => Unaimed(u, c)
             /\ Hides(u)' => Hides(u)
             /\ Unplaced(u, c)' \/ Unaimed(u, c)' => job'[u] = job[u]
    OBVIOUS
  <2>1. CASE u = t
    BY <1>4, <2>1 DEF Unplaced, Unaimed, Hides
  <2>2. CASE u # t
    BY <2>2, OthersPlaced DEF OthersKeep
  <2> QED BY <2>1, <2>2
<1>11. RootsAre(R, V)'
  BY <1>2, <1>4, <1>10 DEF Forest, RootsAre, Alone
<1>12. SearchesAreInTree(R, V, rank)'
  <2> SUFFICES ASSUME NEW u \in Threads, Linking(u)' PROVE SearchIsInTree(R, V, rank, u)'
    BY DEF SearchesAreInTree
  <2>1. u # t
    BY <1>4
  <2>2. Linking(u) /\ pc'[u] = pc[u]
    BY <2>1, OthersPlaced DEF OthersKeep
  <2> QED BY <1>6, <2>2 DEF SearchIsInTree
<1>13. Forest(R, V, rank, x)'
  BY <1>2, <1>5, <1>9, <1>11, <1>12 DEF Forest
<1> QED BY <1>8, <1>13 DEF ForestInv

(* A new node is a tree of its own. *)
LEMMA AllocateForest ==
    ASSUME ShapeInv, ForestInv, NEW t \in Threads, OthersKeep(t), Allocate(t)
    PROVE  ForestInv'
<1>1. PICK R, V, rank : \E f \in Nat : Forest(R, V, rank, f)
  BY DEF ForestInv
<1>2. PICK first \in Nat : Forest(R, V, rank, first)
  BY <1>1
<1> USE DEF Forest
<1>3. PICK new \in Ids :
         /\ DOMAIN nodes' = DOMAIN nodes \cup {new} /\ new \notin DOMAIN nodes
         /\ \A k \in DOMAIN nodes : nodes'[k] = nodes[k]
         /\ \A k \in DOMAIN nodes, c \in Layers : Links(k, c)' = Links(k, c)
         /\ \A c \in Layers : ToSet(Links(new, c))' = {}
         /\ dropped' = dropped
         /\ pc[t] = "idle" /\ pc'[t] = "entry" /\ job'[t].type = "link" /\ job'[t].id = new
         /\ todo'[t] = <<>>
  BY AllocateAdds
<1>4. \A c \in Layers : Alone(R, V, c, new) /\ R[c][new] = new /\ V[c][new] = new
  BY <1>2, <1>3 DEF RootsAre, Alone
<1>5. \A k \in DOMAIN nodes, c \in Layers : ToSet(Links(k, c))' = ToSet(Links(k, c))
  BY <1>3 DEF ToSet
<1>6. RootsAre(R, V)'
  <2>1. ASSUME NEW u \in Threads, NEW c \in Layers
        PROVE  /\ Unplaced(u, c)' => R[c][job'[u].id] = job'[u].id
               /\ Unaimed(u, c)' => V[c][job'[u].id] = job'[u].id
               /\ Hides(u)' /\ Unplaced(u, c)' => Alone(R, V, c, job'[u].id)
    <3>1. CASE u = t
      BY <1>3, <1>4, <3>1
    <3>2. CASE u # t
      BY <1>2, <3>2, OthersPlaced DEF OthersKeep, RootsAre
    <3> QED BY <3>1, <3>2
  <2>2. \A n \in Ids \ DOMAIN nodes', c \in Layers : Alone(R, V, c, n)
    BY <1>2, <1>3 DEF RootsAre
  <2> QED BY <2>1, <2>2 DEF RootsAre, Alone
<1>7. LinksAreInTree(R)'
  <2>1. \A n \in DOMAIN nodes', c \in Layers : \A m \in ToSet(Links(n, c))' : R[c][m] = R[c][n]
    BY <1>2, <1>3, <1>5 DEF LinksAreInTree
  <2>2. \A u \in Threads : pc'[u] = "back" =>
          \A m \in ToSet(todo'[u]) : R[look'[u].layer][m] = R[look'[u].layer][job'[u].id]
    BY <1>2, <1>3 DEF LinksAreInTree, OthersKeep
  <2> QED BY <2>1, <2>2 DEF LinksAreInTree, ToSet
<1>8. SearchesAreInTree(R, V, rank)'
  <2> SUFFICES ASSUME NEW u \in Threads, Linking(u)' PROVE SearchIsInTree(R, V, rank, u)'
    BY DEF SearchesAreInTree
  <2>1. CASE u = t
    BY <1>3, <2>1 DEF SearchIsInTree
  <2>2. CASE u # t
    <3>1. pc'[u] = pc[u] /\ job'[u] = job[u] /\ look'[u] = look[u]
      BY <2>2 DEF OthersKeep
    <3>2. Start(u)' = Start(u)
      BY <1>3, <3>1, StartStays
    <3>3. Linking(u) /\ SearchIsInTree(R, V, rank, u)
      BY <1>2, <3>1 DEF Linking, SearchesAreInTree
    <3> QED BY <3>1, <3>2, <3>3 DEF SearchIsInTree, Aims
  <2> QED BY <2>1, <2>2
<1>9. OneRoot(R, first)'
  <2>1. Unplaced(t, 0)' /\ ~Unplaced(t, 0)
    BY <1>3 DEF Unplaced, Linking
  <2>2. \A u \in Threads : Unplaced(u, 0) => Unplaced(u, 0)' /\ job'[u].id = job[u].id
    BY <2>1, OthersPlaced DEF OthersKeep
  <2> QED BY <1>2, <1>3, <2>1, <2>2 DEF OneRoot
<1>10. TreesAreLinked(R)'
  <2> SUFFICES ASSUME ~dropped, NEW S \in SUBSET Ids,
                      \A n \in DOMAIN nodes' : \A m \in ToSet(Links(n, 0))' : n \in S <=> m \in S
      PROVE \A n \in Ids : n \in S <=> R[0][n] \in S
    BY <1>3 DEF TreesAreLinked, ToSet
  <2>1. \A n \in DOMAIN nodes : \A m \in ToSet(Links(n, 0)) : n \in S <=> m \in S
    BY <1>3, <1>5, Constants
  <2> QED BY <1>2, <2>1 DEF TreesAreLinked
<1>11. Forest(R, V, rank, first)'
  BY <1>2, <1>6, <1>7, <1>8, <1>9, <1>10
<1> QED BY <1>11 DEF ForestInv

(* A copied list leads to nodes of the same tree. *)
LEMMA ExpandForest ==
    ASSUME ShapeInv, ForestInv, NEW t \in Threads, OthersKeep(t), Expand(t)
    PROVE  ForestInv'
<1>1. PICK R, V, rank : \E f \in Nat : Forest(R, V, rank, f)
  BY DEF ForestInv
<1>2. PICK first \in Nat : Forest(R, V, rank, first)
  BY <1>1
<1> USE DEF Forest
<1>3. /\ GraphStays /\ pc[t] = "look" /\ pc'[t] = "look" /\ job'[t] = job[t] /\ todo'[t] = <<>> /\ todo[t] = <<>>
      /\ look'[t].layer = look[t].layer /\ look[t].layer \in Layers
  BY ExpandVisits
<1>4. PICK e \in look[t].visited :
         e \in DOMAIN nodes /\ look'[t].visited = look[t].visited \cup ToSet(Links(e, look[t].layer))
  BY ExpandVisits
<1>5. nodes' = nodes /\ dropped' = dropped
  BY <1>3 DEF GraphStays
<1>6. LinksAreInTree(R)' /\ TreesAreLinked(R)'
  BY <1>2, <1>3, <1>5, TreeLinksStay, TreesStay
<1>7. ASSUME Linking(t)' PROVE SearchIsInTree(R, V, rank, t)'
  <2> DEFINE c == look[t].layer
             n == job[t].id
  <2>1. SearchIsInTree(R, V, rank, t)
    BY <1>2, <1>3, <1>7 DEF Linking, SearchesAreInTree
  <2>2. \A m \in ToSet(Links(e, c)) : R[c][m] = R[c][e] /\ m \in Ids
    BY <1>2, <1>3, <1>4, CopiedList, NodesAreIds DEF LinksAreInTree
  <2>3. e \in Ids /\ \A m \in Ids : V[c][R[c][m]] = V[c][m]
    BY <1>2, <1>3, <1>4, NodesAreIds DEF IsForest
  <2>4. Aims(R, V, rank, c, n, e) => \A m \in ToSet(Links(e, c)) : Aims(R, V, rank, c, n, m)
    <3> SUFFICES ASSUME V[c][e] = V[c][n], rank[c][R[c][e]] < rank[c][n], NEW m \in ToSet(Links(e, c))
        PROVE V[c][m] = V[c][n] /\ rank[c][R[c][m]] < rank[c][n]
      BY DEF Aims
    <3>1. R[c][m] = R[c][e] /\ m \in Ids
      BY <2>2
    <3>2. V[c][m] = V[c][e]
      BY <2>3, <3>1
    <3> QED BY <3>1, <3>2
  <2>5. /\ \A v, w \in look[t].visited : R[c][v] = R[c][w]
        /\ c > job[t].l => \A v \in look[t].visited : R[c][v] = R[c][n]
        /\ c <= job[t].l => \A v \in look[t].visited : Aims(R, V, rank, c, n, v)
    BY <1>3, <2>1 DEF SearchIsInTree
  <2> DEFINE seen == look'[t].visited
  <2>6. seen = look[t].visited \cup ToSet(Links(e, c))
    BY <1>4
  <2> HIDE DEF seen, c, n
  <2>7. /\ \A v, w \in seen : R[c][v] = R[c][w]
        /\ c > job[t].l => \A v \in seen : R[c][v] = R[c][n]
        /\ c <= job[t].l => \A v \in seen : Aims(R, V, rank, c, n, v)
    BY <1>4, <2>2, <2>4, <2>5, <2>6
  <2> QED BY <1>3, <2>7 DEF SearchIsInTree, Aims, seen, c, n
<1>8. \A c \in Layers : /\ Unplaced(t, c)' <=> Unplaced(t, c)
                        /\ Unaimed(t, c)' => Unaimed(t, c)
                        /\ Hides(t)' /\ Unplaced(t, c)' => Hides(t)
  BY <1>3 DEF Unplaced, Unaimed, Hides, Linking
<1> QED BY <1>2, <1>3, <1>5, <1>6, <1>7, <1>8, ForestKept

(* A back-link joins two nodes of one tree, and leads where the link itself led. *)
LEMMA BackLinkForest ==
    ASSUME ShapeInv, ForestInv, NEW t \in Threads, OthersKeep(t), BackLink(t)
    PROVE  ForestInv'
<1>1. PICK R, V, rank : \E f \in Nat : Forest(R, V, rank, f)
  BY DEF ForestInv
<1>2. PICK first \in Nat : Forest(R, V, rank, first)
  BY <1>1
<1> USE DEF Forest
<1> DEFINE e == Head(todo[t])
           x == job[t].id
           layer == look[t].layer
<1>3. PICK new \in Seq(Nat) :
         /\ ToSet(new) \subseteq ToSet(Links(e, layer)) \cup {x}
         /\ Written(e, layer, new) /\ layer \in Layers /\ e \in DOMAIN nodes /\ e \in ToSet(todo[t])
         /\ ToSet(Tail(todo[t])) \subseteq ToSet(todo[t])
         /\ dropped' = (dropped \/ (layer = 0 /\ ~(ToSet(Links(e, 0)) \cup {x} \subseteq ToSet(new))))
  BY BackLinkShape
<1>4. /\ pc[t] = "back" /\ pc'[t] = "back" /\ look'[t] = look[t] /\ job'[t] = job[t] /\ todo'[t] = Tail(todo[t])
  BY DEF BackLink, ShapeInv, Types
<1>5. \A n \in DOMAIN nodes, c \in Layers :
         ToSet(Links(n, c))' = IF n = e /\ c = layer THEN ToSet(new) ELSE ToSet(Links(n, c))
  <2>1. \A n \in DOMAIN nodes, c \in Layers : Links(n, c)' = IF n = e /\ c = layer THEN new ELSE Links(n, c)
    BY <1>3 DEF Written
  <2> HIDE DEF e, layer
  <2> QED BY <2>1 DEF ToSet
<1>6. \A m \in ToSet(todo[t]) : R[layer][m] = R[layer][x]
  BY <1>2, <1>4 DEF LinksAreInTree
<1>7. DOMAIN nodes' = DOMAIN nodes /\ \A k \in DOMAIN nodes : nodes'[k].point = nodes[k].point
  BY <1>3 DEF Written
<1>8. \A n \in DOMAIN nodes, c \in Layers : \A m \in ToSet(Links(n, c))' : R[c][m] = R[c][n]
  <2> SUFFICES ASSUME NEW n \in DOMAIN nodes, NEW c \in Layers, NEW m \in ToSet(Links(n, c))' PROVE R[c][m] = R[c][n]
    OBVIOUS
  <2> HIDE DEF e, layer, x
  <2>1. CASE m \in ToSet(Links(n, c))
    BY <1>2, <2>1 DEF LinksAreInTree
  <2>2. CASE m \notin ToSet(Links(n, c))
    <3>1. n = e /\ c = layer /\ m = x
      BY <1>3, <1>5, <2>2
    <3> QED BY <1>3, <1>6, <3>1
  <2> QED BY <2>1, <2>2
<1>9. LinksAreInTree(R)'
  <2>1. ASSUME NEW u \in Threads, pc'[u] = "back", NEW m \in ToSet(todo'[u])
        PROVE  R[look'[u].layer][m] = R[look'[u].layer][job'[u].id]
    <3>1. CASE u = t
      BY <1>3, <1>4, <1>6, <2>1, <3>1
    <3>2. CASE u # t
      BY <1>2, <2>1, <3>2 DEF OthersKeep, LinksAreInTree
    <3> QED BY <3>1, <3>2
  <2> QED BY <1>7, <1>8, <2>1 DEF LinksAreInTree, ToSet
<1>10. TreesAreLinked(R)'
  <2> SUFFICES ASSUME ~dropped', NEW S \in SUBSET Ids,
                      \A n \in DOMAIN nodes : \A m \in ToSet(Links(n, 0))' : n \in S <=> m \in S
      PROVE \A n \in Ids : n \in S <=> R[0][n] \in S
    BY <1>7 DEF TreesAreLinked, ToSet
  <2>1. ~dropped /\ \A n \in DOMAIN nodes : ToSet(Links(n, 0)) \subseteq ToSet(Links(n, 0))'
    <3>1. ~dropped /\ (layer = 0 => ToSet(Links(e, 0)) \subseteq ToSet(new))
      BY <1>3
    <3> HIDE DEF e, layer
    <3> QED BY <1>5, <3>1, Constants
  <2>2. \A n \in DOMAIN nodes : \A m \in ToSet(Links(n, 0)) : n \in S <=> m \in S
    BY <2>1
  <2> QED BY <1>2, <2>1, <2>2 DEF TreesAreLinked
<1>11. Linking(t)' => SearchIsInTree(R, V, rank, t)'
  <2>1. Start(t)' = Start(t)
    BY <1>4, <1>7, StartStays
  <2>2. Linking(t)' => SearchIsInTree(R, V, rank, t)
    BY <1>2, <1>4 DEF Linking, SearchesAreInTree
  <2> QED BY <1>4, <2>1, <2>2 DEF SearchIsInTree, Aims
<1>12. \A c \in Layers : /\ Unplaced(t, c)' <=> Unplaced(t, c)
                         /\ Unaimed(t, c)' => Unaimed(t, c)
                         /\ Hides(t)' /\ Unplaced(t, c)' => Hides(t)
  BY <1>4 DEF Unplaced, Unaimed, Hides, Linking
<1> HIDE DEF e, x, layer
<1> QED BY <1>2, <1>4, <1>7, <1>9, <1>10, <1>11, <1>12, ForestKept

(* link() goes one layer down: its node was aimed at that layer when it was placed in this
   one. *)
LEMMA NextLayerForest ==
    ASSUME ShapeInv, ForestInv, NEW t \in Threads, OthersKeep(t), NextLayer(t), look[t].layer > 0
    PROVE  ForestInv'
<1>1. PICK R, V, rank : \E f \in Nat : Forest(R, V, rank, f)
  BY DEF ForestInv
<1>2. PICK first \in Nat : Forest(R, V, rank, first)
  BY <1>1
<1> USE DEF Forest
<1>3. /\ pc[t] = "back" /\ look[t].layer <= job[t].l /\ look[t].layer \in Nat /\ job[t].l \in Nat
      /\ Moves(t, Start(t), look[t].layer - 1) /\ Start(t) \in look[t].visited
  BY NextLayerMoves
<1>4. /\ nodes' = nodes /\ dropped' = dropped /\ SameJob(t) /\ pc'[t] = "look" /\ todo'[t] = <<>>
      /\ look'[t].layer = look[t].layer - 1 /\ look'[t].visited = {Start(t)}
  BY <1>3 DEF Moves, GraphStays
<1>5. LinksAreInTree(R)' /\ TreesAreLinked(R)'
  BY <1>2, <1>4, TreeLinksStay, TreesStay
<1>6. Linking(t)' => SearchIsInTree(R, V, rank, t)'
  <2>1. PICK v : v = Start(t)
    OBVIOUS
  <2>2. Linking(t)' => Aims(R, V, rank, look[t].layer - 1, job[t].id, v)
    BY <1>2, <1>3, <1>4, <2>1 DEF Linking, SearchesAreInTree, SearchIsInTree, SameJob
  <2>3. look'[t].visited = {v} /\ look'[t].layer <= job'[t].l /\ ~(look'[t].layer > job'[t].l)
    BY <1>3, <1>4, <2>1 DEF SameJob
  <2> QED BY <1>4, <2>2, <2>3 DEF SearchIsInTree, SameJob, Aims
<1>7. ASSUME NEW c \in Layers
      PROVE  /\ Unplaced(t, c)' <=> Unplaced(t, c)
             /\ Unaimed(t, c)' => Unaimed(t, c)
             /\ Hides(t)' /\ Unplaced(t, c)' => Hides(t)
  <2>1. c \in Nat
    BY Constants
  <2>2. Linking(t)' <=> Linking(t)
    BY <1>3, <1>4 DEF Linking, SameJob
  <2>3. Unplaced(t, c)' <=> Unplaced(t, c)
    BY <1>3, <1>4, <2>1, <2>2 DEF Unplaced, SameJob
  <2>4. Unaimed(t, c)' <=> Unaimed(t, c)
    BY <1>3, <1>4, <2>1, <2>2 DEF Unaimed, SameJob
  <2>5. ~Hides(t)'
    BY <1>3, <1>4 DEF Hides, SameJob
  <2> QED BY <2>3, <2>4, <2>5
<1> QED BY <1>2, <1>4, <1>5, <1>6, <1>7, ForestKept DEF SameJob

(* A node taller than the graph waits for the entry lock: it was placed everywhere. *)
LEMMA ToPromoteForest ==
    ASSUME ShapeInv, Known, ForestInv, NEW t \in Threads, OthersKeep(t), NextLayer(t), ~(look[t].layer > 0),
           job[t].l > job[t].L
    PROVE  ForestInv'
<1>1. PICK R, V, rank : \E f \in Nat : Forest(R, V, rank, f)
  BY DEF ForestInv
<1>2. PICK first \in Nat : Forest(R, V, rank, first)
  BY <1>1
<1>3. nodes' = nodes /\ dropped' = dropped /\ pc[t] = "back" /\ pc'[t] = "promote" /\ job'[t] = job[t] /\ todo'[t] = <<>>
  BY ToPromoteKnown DEF GraphStays
<1>4. LinksAreInTree(R)' /\ TreesAreLinked(R)'
  BY <1>2, <1>3, TreeLinksStay, TreesStay DEF Forest
<1>5. SearchIsInTree(R, V, rank, t)'
  BY <1>3 DEF SearchIsInTree
<1>6. look[t].layer \in Nat
  BY Constants DEF ShapeInv, Types, Look
<1>7. ASSUME NEW c \in Layers PROVE ~Unplaced(t, c) /\ ~Unplaced(t, c)' /\ ~Unaimed(t, c)'
  <2>1. c \in Nat
    BY Constants
  <2>2. ~Unplaced(t, c)
    BY <1>3, <1>6, <2>1 DEF Unplaced
  <2> QED BY <1>3, <2>2 DEF Unplaced, Unaimed
<1> QED BY <1>2, <1>3, <1>4, <1>5, <1>7, ForestKept

(* The search of a query moves on. *)
LEMMA QueryForest ==
    ASSUME ShapeInv, ForestInv, NEW t \in Threads, OthersKeep(t), ~Linking(t), pc[t] # "idle",
           NEW n, NEW layer, Moves(t, n, layer)
    PROVE  ForestInv'
<1>1. PICK R, V, rank : \E f \in Nat : Forest(R, V, rank, f)
  BY DEF ForestInv
<1>2. PICK first \in Nat : Forest(R, V, rank, first)
  BY <1>1
<1>3. nodes' = nodes /\ dropped' = dropped /\ todo'[t] = <<>> /\ ~Linking(t)'
  BY DEF Moves, GraphStays, Linking, SameJob
<1>4. LinksAreInTree(R)' /\ TreesAreLinked(R)'
  BY <1>2, <1>3, TreeLinksStay, TreesStay DEF Forest
<1>5. \A c : ~Unplaced(t, c) /\ ~Unplaced(t, c)' /\ ~Unaimed(t, c)'
  BY <1>3 DEF Unplaced, Unaimed
<1> QED BY <1>2, <1>3, <1>4, <1>5, ForestKept

(* The descent of a link comes to a place: its node goes under it, above layer 0. *)
LEMMA ForestWhenMoved ==
    ASSUME ShapeInv, Known, NEW t \in Threads, OthersKeep(t),
           NEW R, NEW V, NEW rank, NEW first \in Nat, Forest(R, V, rank, first), NEW JR, NEW JV, NEW v, NEW layer,
           Moves(t, v, layer), MayPlace(R, V, rank, JR, JV, job[t].id, v), Placing(t, JR, JV, v), 0 \notin JR,
           layer > job[t].l <=> layer \in JR, layer \in JV, job[t].l \in Nat
    PROVE  ForestInv'
<1> USE DEF Forest
<1>1. PICK x : x = job[t].id
  OBVIOUS
<1>2. /\ IsForest(R, V, rank) /\ x \in Ids /\ v \in Ids /\ layer \in Layers /\ layer \in Nat
      /\ MayPlace(R, V, rank, JR, JV, x, v)
  BY <1>1, Constants DEF MayPlace, Moves
<1>3. PICK R2, V2, rank2 : Placed(R, V, rank, JR, JV, x, v, R2, V2, rank2)
  BY <1>2, CanPlace
<1>4. IsForest(R2, V2, rank2)
  BY <1>2, <1>3, PlacedIsForest
<1>5. RootsAre(R2, V2)' /\ OneRoot(R2, first)'
  BY <1>1, <1>2, <1>3, RootsWhenPlaced, OneRootWhenPlaced
<1>6. /\ nodes' = nodes /\ dropped' = dropped /\ SameJob(t) /\ pc'[t] = "look" /\ todo'[t] = <<>>
      /\ look'[t].layer = layer /\ look'[t].visited = {v}
  BY DEF Moves, GraphStays
<1>7. LinksAreInTree(R2)'
  <2>1. \A c \in Layers, m, n \in Ids : R[c][m] = R[c][n] => R2[c][m] = R2[c][n]
    BY <1>2, <1>3 DEF Placed
  <2>2. LinksAreInTree(R2)
    <3>1. ASSUME NEW n \in DOMAIN nodes, NEW c \in Layers, NEW m \in ToSet(Links(n, c)) PROVE R2[c][m] = R2[c][n]
      <4>1. m \in Ids /\ n \in Ids
        BY <3>1, CopiedList, NodesAreIds
      <4> QED BY <2>1, <3>1, <4>1 DEF LinksAreInTree
    <3>2. ASSUME NEW u \in Threads, pc[u] = "back", NEW m \in ToSet(todo[u])
          PROVE  R2[look[u].layer][m] = R2[look[u].layer][job[u].id]
      <4>1. m \in Ids /\ job[u].id \in Ids /\ look[u].layer \in Layers
        BY <3>2, NodesAreIds DEF ShapeInv, JobOK, LookOK, Tall, Types, Look
      <4> QED BY <2>1, <3>2, <4>1 DEF LinksAreInTree
    <3> QED BY <3>1, <3>2 DEF LinksAreInTree
  <2> QED BY <1>6, <2>2, TreeLinksStay
<1>8. TreesAreLinked(R2)'
  <2>1. \A n \in Ids : R2[0][n] = R[0][n]
    BY <1>3, Constants DEF Placed
  <2>2. TreesAreLinked(R2)
    BY <2>1 DEF TreesAreLinked
  <2> QED BY <1>6, <2>2, TreesStay
<1>9. SearchIsInTree(R2, V2, rank2, t)'
  <2>1. layer > job[t].l => R2[layer][v] = R2[layer][x]
    BY <1>2, <1>3 DEF Placed, MayPlace
  <2>2. layer <= job[t].l => Aims(R2, V2, rank2, layer, x, v)
    <3> SUFFICES ASSUME layer <= job[t].l PROVE Aims(R2, V2, rank2, layer, x, v)
      OBVIOUS
    <3>1. layer \notin JR
      BY <1>2
    <3> QED BY <1>2, <1>3, <3>1, AimIsSet
  <2> QED BY <1>1, <1>6, <2>1, <2>2 DEF SearchIsInTree, SameJob, Aims
<1>10. SearchesAreInTree(R2, V2, rank2)'
  <2> SUFFICES ASSUME NEW u \in Threads, Linking(u)' PROVE SearchIsInTree(R2, V2, rank2, u)'
    BY DEF SearchesAreInTree
  <2>1. CASE u # t
    <3>1. Linking(u)
      BY <2>1, OthersPlaced
    <3> QED BY <1>1, <1>2, <1>3, <2>1, <3>1, SearchesWhenPlaced
  <2> QED BY <1>9, <2>1
<1>11. Forest(R2, V2, rank2, first)'
  BY <1>4, <1>5, <1>7, <1>8, <1>10
<1> QED BY <1>11 DEF ForestInv

(* The greedy descent of a node goes one layer down. *)
LEMMA DescendForest ==
    ASSUME ShapeInv, Known, ForestInv, NEW t \in Threads, OthersKeep(t), Descend(t), Linking(t)
    PROVE  ForestInv'
<1>1. PICK R, V, rank : \E f \in Nat : Forest(R, V, rank, f)
  BY DEF ForestInv
<1>2. PICK first \in Nat : Forest(R, V, rank, first)
  BY <1>1
<1>3. PICK v, c : v = Start(t) /\ c = look[t].layer - 1
  OBVIOUS
<1>4. /\ pc[t] = "look" /\ look[t].layer > job[t].l /\ look[t].layer \in Nat /\ job[t].l \in Nat
      /\ Moves(t, v, c) /\ v \in look[t].visited /\ Public(v)
  BY <1>3, DescendMoves, DescendKnown
<1>5. /\ nodes' = nodes /\ SameJob(t) /\ pc'[t] = "look" /\ look'[t].layer = c /\ c \in Layers /\ v \in DOMAIN nodes
      /\ job[t].id \in DOMAIN nodes /\ Linking(t)' /\ Hides(t)
  BY <1>4 DEF Moves, GraphStays, SameJob, ShapeInv, JobOK, Linking, Hides
<1>6. c \in Nat /\ c < look[t].layer /\ c >= job[t].l
  BY <1>3, <1>4, <1>5, Constants
<1> DEFINE JR == IF c > job[t].l THEN {c} ELSE {}
           JV == {c}
<1>7. ASSUME NEW d \in Layers
      PROVE  /\ Unplaced(t, d)' <=> Unplaced(t, d) /\ d \notin JR
             /\ d \in JR => Unplaced(t, d)
             /\ Unaimed(t, d)' <=> Unaimed(t, d) /\ d \notin JV
             /\ d \in JV => Unplaced(t, d) /\ Unaimed(t, d)
             /\ Hides(t)' /\ Unplaced(t, d)' => d \notin JV
  <2>1. d \in Nat
    BY Constants
  <2>2. Unplaced(t, d)' <=> d < c \/ (d = c /\ c <= job[t].l)
    BY <1>5 DEF Unplaced, SameJob
  <2>3. Unplaced(t, d) <=> d < look[t].layer
    BY <1>4, <2>1 DEF Unplaced, Linking
  <2>4. (Unaimed(t, d)' <=> d < c) /\ (Unaimed(t, d) <=> d < look[t].layer)
    BY <1>4, <1>5 DEF Unaimed
  <2>5. Hides(t)' <=> c > job[t].l
    BY <1>5 DEF Hides, SameJob
  <2>6. d < look[t].layer <=> d < c \/ d = c
    BY <1>3, <1>4, <1>6, <2>1
  <2> QED BY <1>4, <1>6, <2>1, <2>2, <2>3, <2>4, <2>5, <2>6
<1>8. Placing(t, JR, JV, v)
  <2>1. Public(v)
    BY <1>4
  <2> HIDE DEF JR, JV
  <2> QED BY <1>5, <1>7, <2>1 DEF Placing, SameJob
<1>9. MayPlace(R, V, rank, JR, JV, job[t].id, v)
  <2>1. job[t].id \in Ids /\ v \in Ids /\ v # job[t].id
    BY <1>4, <1>5, NodesAreIds DEF Public
  <2>2. Unplaced(t, c) /\ Unaimed(t, c) /\ JR \subseteq {c} /\ JV = {c}
    BY <1>5, <1>7
  <2>3. Alone(R, V, c, job[t].id) /\ R[c][job[t].id] = job[t].id /\ V[c][job[t].id] = job[t].id /\ V[c][v] # job[t].id
    BY <1>2, <1>5, <2>1, <2>2 DEF Forest, RootsAre, Alone
  <2>4. R[c + 1][job[t].id] = R[c + 1][v]
    <3>1. c + 1 = look[t].layer
      BY <1>3, <1>4
    <3> QED BY <1>2, <1>4, <3>1 DEF Forest, SearchesAreInTree, SearchIsInTree
  <2> HIDE DEF JR, JV
  <2> QED BY <2>1, <2>2, <2>3, <2>4 DEF MayPlace
<1>10. 0 \notin JR /\ (c > job[t].l <=> c \in JR) /\ c \in JV
  BY <1>4, <1>6
<1> HIDE DEF JR, JV
<1> QED BY <1>2, <1>4, <1>8, <1>9, <1>10, ForestWhenMoved

(* A node's descent starts at the entry point: above its own layers the node is placed there. *)
LEMMA ReadEntryForest ==
    ASSUME ShapeInv, Known, ForestInv, NEW t \in Threads, OthersKeep(t), ReadEntry(t), ~(top < 0), Linking(t)
    PROVE  ForestInv'
<1>1. PICK R, V, rank : \E f \in Nat : Forest(R, V, rank, f)
  BY DEF ForestInv
<1>2. PICK first \in Nat : Forest(R, V, rank, first)
  BY <1>1
<1>3. PICK v, c : v = entry /\ c = top
  OBVIOUS
<1>4. pc[t] = "entry" /\ Moves(t, v, c) /\ Public(v) /\ c \in Int /\ job[t].l \in Nat
  <2>1. job[t] \in Job /\ top \in Int
    BY DEF ShapeInv, Types
  <2>2. job[t].l \in Nat
    BY <2>1, Constants DEF Job
  <2>3. pc[t] = "entry"
    BY DEF ReadEntry
  <2> QED BY <1>3, <2>1, <2>2, <2>3, ReadEntryMoves, ReadEntryKnown
<1>5. /\ nodes' = nodes /\ SameJob(t) /\ pc'[t] = "look" /\ look'[t].layer = c /\ c \in Layers /\ v \in DOMAIN nodes
      /\ job[t].id \in DOMAIN nodes /\ Linking(t)' /\ Hides(t)
  BY <1>4 DEF Moves, GraphStays, SameJob, ShapeInv, JobOK, Linking, Hides
<1>6. c \in Nat
  BY <1>5, Constants
<1> DEFINE JR == {d \in Layers : d > c \/ (d = c /\ c > job[t].l)}
           JV == {d \in Layers : d >= c}
<1>7. ASSUME NEW d \in Layers
      PROVE  /\ Unplaced(t, d)' <=> Unplaced(t, d) /\ d \notin JR
             /\ Unplaced(t, d) /\ Unaimed(t, d)
             /\ Unaimed(t, d)' <=> d \notin JV
             /\ Hides(t)' /\ Unplaced(t, d)' => d \notin JV
  <2>1. d \in Nat
    BY Constants
  <2>2. Unplaced(t, d)' <=> d < c \/ (d = c /\ c <= job[t].l)
    BY <1>5 DEF Unplaced, SameJob
  <2>3. Unplaced(t, d) /\ Unaimed(t, d)
    BY <1>4 DEF Unplaced, Unaimed
  <2>4. Unaimed(t, d)' <=> d < c
    BY <1>5 DEF Unaimed
  <2>5. Hides(t)' <=> c > job[t].l
    BY <1>5 DEF Hides, SameJob
  <2> QED BY <1>4, <1>6, <2>1, <2>2, <2>3, <2>4, <2>5
<1>8. Placing(t, JR, JV, v)
  <2>1. Public(v)
    BY <1>4
  <2> HIDE DEF JR, JV
  <2> QED BY <1>5, <1>7, <2>1 DEF Placing, SameJob
<1>9. MayPlace(R, V, rank, JR, JV, job[t].id, v)
  <2>1. job[t].id \in Ids /\ v \in Ids /\ v # job[t].id
    BY <1>4, <1>5, NodesAreIds DEF Public
  <2>2. \A d \in Layers : Alone(R, V, d, job[t].id)
    BY <1>2, <1>5, <1>7 DEF Forest, RootsAre
  <2>3. \A d \in Layers : R[d][job[t].id] = job[t].id /\ V[d][job[t].id] = job[t].id /\ V[d][v] # job[t].id
    BY <2>1, <2>2 DEF Alone
  <2>4. ASSUME NEW d \in Layers PROVE (d \in JR => d \in JV) /\ (d \in JV /\ d + 1 \in Layers => d + 1 \in JR)
    <3>1. d \in Nat
      BY Constants
    <3> QED BY <1>6, <3>1
  <2> HIDE DEF JR, JV
  <2> QED BY <2>1, <2>2, <2>3, <2>4 DEF MayPlace
<1>10. 0 \notin JR /\ (c > job[t].l <=> c \in JR) /\ c \in JV
  BY <1>4, <1>5, <1>6
<1> HIDE DEF JR, JV
<1> QED BY <1>2, <1>4, <1>8, <1>9, <1>10, ForestWhenMoved

(* link() writes the list of its node, and so places the node in the tree of its search. *)
LEMMA SetLinksForest ==
    ASSUME ShapeInv, Known, ForestInv, NEW t \in Threads, OthersKeep(t), SetLinks(t)
    PROVE  ForestInv'
<1>1. PICK R, V, rank : \E f \in Nat : Forest(R, V, rank, f)
  BY DEF ForestInv
<1>2. PICK first \in Nat : Forest(R, V, rank, first)
  BY <1>1
<1> USE DEF Forest
<1>3. PICK x, v, c : x = job[t].id /\ v = Start(t) /\ c = look[t].layer
  OBVIOUS
<1>4. PICK chosen \in Seq(Nat) :
         /\ chosen # <<>> /\ ToSet(chosen) \subseteq look[t].W
         /\ Written(x, c, chosen) /\ todo' = [todo EXCEPT ![t] = chosen]
         /\ dropped' = (dropped \/ (c = 0 /\ ~(ToSet(Links(x, 0)) \subseteq ToSet(chosen))))
         /\ c \in Layers /\ c <= job[t].l /\ x \in DOMAIN nodes
  BY <1>3, SetLinksShape
<1>5. /\ pc[t] = "look" /\ pc'[t] = "back" /\ look'[t] = look[t] /\ job'[t] = job[t] /\ todo'[t] = chosen
      /\ Linking(t) /\ Linking(t)'
  BY <1>4 DEF SetLinks, Ended, ShapeInv, Types, Linking
<1>6. /\ v \in look[t].visited /\ ToSet(chosen) \subseteq look[t].visited /\ look[t].visited \subseteq DOMAIN nodes
      /\ c \in Nat /\ job[t].l \in Nat
  <2>1. v \in look[t].W /\ job[t].l \in Layers
    BY <1>3, <1>5, LookIsSound DEF Start
  <2>2. look[t].W \subseteq look[t].visited /\ look[t].visited \subseteq DOMAIN nodes
    BY DEF ShapeInv, LookOK, Tall
  <2>3. ToSet(chosen) \subseteq look[t].W /\ c \in Layers
    BY <1>4
  <2> QED BY <2>1, <2>2, <2>3, Constants
<1>7. Public(v) /\ x \in Ids /\ v \in Ids /\ v \in DOMAIN nodes /\ look[t].visited \subseteq Ids
  BY <1>4, <1>6, KnownArePublic, NodesAreIds DEF Known
<1>8. /\ \A m, n \in look[t].visited : R[c][m] = R[c][n]
      /\ Aims(R, V, rank, c, x, v)
  BY <1>2, <1>3, <1>4, <1>5, <1>6 DEF SearchesAreInTree, SearchIsInTree
<1> DEFINE JR == {c}
           JV == {d \in Layers : d = c - 1}
<1>9. ASSUME NEW d \in Layers
      PROVE  /\ Unplaced(t, d)' <=> Unplaced(t, d) /\ d \notin JR
             /\ d \in JR => Unplaced(t, d)
             /\ Unaimed(t, d)' <=> Unaimed(t, d) /\ d \notin JV
             /\ d \in JV => Unaimed(t, d)
             /\ d \in JV => d \notin JR /\ (d + 1 = c)
             /\ ~Hides(t)'
  <2>1. d \in Nat
    BY Constants
  <2>2. Unplaced(t, d)' <=> d < c
    BY <1>3, <1>5 DEF Unplaced
  <2>3. Unplaced(t, d) <=> d < c \/ (d = c /\ c <= job[t].l)
    BY <1>3, <1>5, <1>6, <2>1 DEF Unplaced
  <2>4. (Unaimed(t, d)' <=> d < c - 1) /\ (Unaimed(t, d) <=> d < c)
    BY <1>3, <1>5 DEF Unaimed
  <2>5. ~Hides(t)'
    BY <1>5 DEF Hides
  <2> QED BY <1>4, <1>6, <2>1, <2>2, <2>3, <2>4, <2>5
<1>10. Placing(t, JR, JV, v)
  <2>1. DOMAIN nodes' = DOMAIN nodes /\ \A k \in DOMAIN nodes : nodes'[k].point = nodes[k].point
    BY <1>4 DEF Written
  <2>2. Public(v) /\ v \in DOMAIN nodes /\ job[t].id \in DOMAIN nodes
    BY <1>3, <1>4, <1>7
  <2> HIDE DEF JR, JV
  <2> QED BY <1>5, <1>9, <2>1, <2>2 DEF Placing
<1>11. R[c][x] = x /\ R[c][v] # x /\ v # x
  <2>1. R[c][x] = x
    BY <1>2, <1>3, <1>4, <1>9 DEF RootsAre
  <2>2. rank[c][R[c][v]] < rank[c][x] /\ rank[c][x] \in Nat
    BY <1>2, <1>4, <1>7, <1>8, ForestTypes DEF Aims
  <2> QED BY <2>1, <2>2
<1>12. MayPlace(R, V, rank, JR, JV, x, v)
  <2>1. ASSUME NEW d \in JV PROVE V[d][x] = x /\ V[d][v] # x
    <3>1. V[d][x] = x
      BY <1>2, <1>3, <1>9 DEF RootsAre
    <3>2. d \in Layers /\ d + 1 \in Layers /\ d + 1 = c
      BY <1>4, <1>9
    <3>3. R[c][V[d][v]] = R[c][v]
      BY <1>2, <1>7, <3>2 DEF IsForest
    <3> QED BY <1>11, <3>1, <3>3
  <2>2. \A d \in JV : d \notin JR /\ d + 1 \in JR
    BY <1>9
  <2>3. \A d \in JR : d = c
    OBVIOUS
  <2> HIDE DEF JR, JV
  <2> QED BY <1>7, <1>8, <1>11, <2>1, <2>2, <2>3 DEF MayPlace
<1>13. c \in JR /\ (c > 0 => c - 1 \in JV /\ c - 1 \notin JR /\ c - 1 \in Layers)
  BY <1>4, <1>6, Constants DEF Layers
<1> HIDE DEF JR, JV
<1>14. PICK R2, V2, rank2 : Placed(R, V, rank, JR, JV, x, v, R2, V2, rank2)
  BY <1>2, <1>7, CanPlace
<1>15. IsForest(R2, V2, rank2)
  BY <1>2, <1>12, <1>14, PlacedIsForest
<1>16. RootsAre(R2, V2)' /\ OneRoot(R2, first)'
  BY <1>2, <1>3, <1>10, <1>12, <1>14, RootsWhenPlaced, OneRootWhenPlaced
<1>17. /\ \A d \in Layers, m, n \in Ids : R[d][m] = R[d][n] => R2[d][m] = R2[d][n]
       /\ \A m \in look[t].visited : R2[c][m] = R2[c][x]
  <2>1. \A d \in Layers, m, n \in Ids : R[d][m] = R[d][n] => R2[d][m] = R2[d][n]
    <3>1. \A d \in Layers, n \in Ids : R2[d][n] = IF d \in JR /\ R[d][n] = x THEN R[d][v] ELSE R[d][n]
      BY <1>14 DEF Placed
    <3> QED BY <3>1
  <2>2. R2[c][x] = R2[c][v]
    BY <1>4, <1>7, <1>11, <1>13, <1>14 DEF Placed
  <2>3. \A m \in look[t].visited : R2[c][m] = R2[c][v]
    BY <1>4, <1>6, <1>7, <1>8, <2>1
  <2> QED BY <2>1, <2>2, <2>3
<1>18. \A n \in DOMAIN nodes, d \in Layers :
          ToSet(Links(n, d))' = IF n = x /\ d = c THEN ToSet(chosen) ELSE ToSet(Links(n, d))
  <2>1. \A n \in DOMAIN nodes, d \in Layers : Links(n, d)' = IF n = x /\ d = c THEN chosen ELSE Links(n, d)
    BY <1>4 DEF Written
  <2> QED BY <2>1 DEF ToSet
<1>19. DOMAIN nodes' = DOMAIN nodes /\ \A k \in DOMAIN nodes : nodes'[k].point = nodes[k].point
  BY <1>4 DEF Written
<1>20. LinksAreInTree(R2)'
  <2>1. ASSUME NEW n \in DOMAIN nodes, NEW d \in Layers, NEW m \in ToSet(Links(n, d))' PROVE R2[d][m] = R2[d][n]
    <3>1. CASE n = x /\ d = c
      BY <1>6, <1>17, <1>18, <2>1, <3>1
    <3>2. CASE ~(n = x /\ d = c)
      <4>1. m \in ToSet(Links(n, d)) /\ R[d][m] = R[d][n]
        BY <1>2, <1>18, <2>1, <3>2 DEF LinksAreInTree
      <4>2. m \in Ids /\ n \in Ids
        BY <4>1, CopiedList, NodesAreIds
      <4> QED BY <1>17, <4>1, <4>2
    <3> QED BY <3>1, <3>2
  <2>2. ASSUME NEW u \in Threads, pc'[u] = "back", NEW m \in ToSet(todo'[u])
        PROVE  R2[look'[u].layer][m] = R2[look'[u].layer][job'[u].id]
    <3>1. CASE u = t
      <4>1. look'[u].layer = c /\ job'[u].id = x /\ m \in look[t].visited
        BY <1>3, <1>5, <1>6, <2>2, <3>1
      <4> QED BY <1>17, <4>1
    <3>2. CASE u # t
      <4>1. pc[u] = "back" /\ m \in ToSet(todo[u]) /\ look'[u] = look[u] /\ job'[u] = job[u]
        BY <2>2, <3>2 DEF OthersKeep
      <4>2. R[look[u].layer][m] = R[look[u].layer][job[u].id]
        BY <1>2, <4>1 DEF LinksAreInTree
      <4>3. m \in Ids /\ job[u].id \in Ids /\ look[u].layer \in Layers
        BY <4>1, NodesAreIds DEF ShapeInv, JobOK, LookOK, Tall, Types, Look
      <4> QED BY <1>17, <4>1, <4>2, <4>3
    <3> QED BY <3>1, <3>2
  <2> QED BY <1>19, <2>1, <2>2 DEF LinksAreInTree, ToSet
<1>21. TreesAreLinked(R2)'
  <2> SUFFICES ASSUME ~dropped', NEW S \in SUBSET Ids,
                      \A n \in DOMAIN nodes : \A m \in ToSet(Links(n, 0))' : n \in S <=> m \in S,
                      NEW n \in Ids
      PROVE n \in S <=> R2[0][n] \in S
    BY <1>19 DEF TreesAreLinked, ToSet
  <2>1. ~dropped /\ (c = 0 => ToSet(Links(x, 0)) \subseteq ToSet(chosen))
    BY <1>4
  <2>2. \A k \in DOMAIN nodes : ToSet(Links(k, 0)) \subseteq ToSet(Links(k, 0))'
    BY <1>18, <2>1, Constants
  <2>3. \A k \in DOMAIN nodes : \A m \in ToSet(Links(k, 0)) : k \in S <=> m \in S
    BY <2>2
  <2>4. \A k \in Ids : k \in S <=> R[0][k] \in S
    BY <1>2, <2>1, <2>3 DEF TreesAreLinked
  <2>5. R2[0][n] = IF 0 \in JR /\ R[0][n] = x THEN R[0][v] ELSE R[0][n]
    BY <1>14, Constants DEF Placed
  <2>6. CASE 0 \in JR /\ R[0][n] = x
    <3>1. c = 0
      BY <2>6 DEF JR
    <3>2. PICK m \in ToSet(chosen) : TRUE
      <4>1. 1 \in DOMAIN chosen
        BY <1>4
      <4> QED BY <4>1 DEF ToSet
    <3>3. x \in S <=> m \in S
      BY <1>4, <1>18, <3>1, <3>2, Constants
    <3>4. m \in Ids /\ R[0][m] = R[0][v]
      BY <1>6, <1>7, <1>8, <3>1, <3>2
    <3> QED BY <2>4, <2>5, <2>6, <3>3, <3>4
  <2>7. CASE ~(0 \in JR /\ R[0][n] = x)
    BY <2>4, <2>5, <2>7
  <2> QED BY <2>6, <2>7
<1>22. SearchesAreInTree(R2, V2, rank2)'
  <2> SUFFICES ASSUME NEW u \in Threads, Linking(u)' PROVE SearchIsInTree(R2, V2, rank2, u)'
    BY DEF SearchesAreInTree
  <2>1. CASE u # t
    <3>1. Linking(u)
      BY <2>1, OthersPlaced
    <3> QED BY <1>2, <1>3, <1>10, <1>12, <1>14, <2>1, <3>1, SearchesWhenPlaced
  <2>2. CASE u = t
    <3>1. c > 0 => Aims(R2, V2, rank2, c - 1, x, v)
      BY <1>2, <1>12, <1>13, <1>14, AimIsSet
    <3>2. Start(t)' = v
      BY <1>3, <1>5, <1>19, StartStays
    <3> QED BY <1>3, <1>5, <2>2, <3>1, <3>2 DEF SearchIsInTree, Aims
  <2> QED BY <2>1, <2>2
<1>23. Forest(R2, V2, rank2, first)'
  BY <1>15, <1>16, <1>20, <1>21, <1>22
<1> QED BY <1>2, <1>23 DEF ForestInv

(* A step that changes nothing keeps the forest. *)
LEMMA ForestStands ==
    ASSUME ForestInv, UNCHANGED vars
    PROVE  ForestInv'
<1>1. PICK R, V, rank : \E f \in Nat : Forest(R, V, rank, f)
  BY DEF ForestInv
<1>2. PICK first \in Nat : Forest(R, V, rank, first)
  BY <1>1
<1>3. UNCHANGED <<nodes, entry, top, pc, job, look, todo, linked, dropped>>
  BY DEF vars
<1>4. \A n, c : Links(n, c)' = Links(n, c)
  BY <1>3, SameNodes
<1>5. \A t, c : (Unplaced(t, c)' <=> Unplaced(t, c)) /\ (Unaimed(t, c)' <=> Unaimed(t, c))
                /\ (Hides(t)' <=> Hides(t)) /\ (Linking(t)' <=> Linking(t))
  BY <1>3 DEF Unplaced, Unaimed, Hides, Linking
<1>6. RootsAre(R, V)' /\ OneRoot(R, first)'
  BY <1>2, <1>3, <1>5 DEF Forest, RootsAre, OneRoot
<1>7. LinksAreInTree(R)' /\ TreesAreLinked(R)'
  <2>1. DOMAIN nodes' = DOMAIN nodes /\ \A n, c : ToSet(Links(n, c))' = ToSet(Links(n, c))
    BY <1>3, <1>4 DEF ToSet
  <2>2. LinksAreInTree(R)'
    BY <1>2, <1>3, <2>1 DEF Forest, LinksAreInTree, ToSet
  <2>3. TreesAreLinked(R)'
    BY <1>2, <1>3, <2>1 DEF Forest, TreesAreLinked
  <2> QED BY <2>2, <2>3
<1>8. SearchesAreInTree(R, V, rank)'
  <2>1. \A t : Start(t)' = Start(t)
    BY <1>3 DEF Start, Nearest, DistTo
  <2>2. \A t : SearchIsInTree(R, V, rank, t)' <=> SearchIsInTree(R, V, rank, t)
    BY <1>3, <2>1 DEF SearchIsInTree, Aims
  <2> QED BY <1>2, <1>5, <2>2 DEF Forest, SearchesAreInTree
<1>9. Forest(R, V, rank, first)'
  BY <1>2, <1>6, <1>7, <1>8 DEF Forest, IsForest
<1> QED BY <1>9 DEF ForestInv

(* Every step keeps the forest, with one node more placed or with none. *)
LEMMA ForestStep ==
    ASSUME ShapeInv, Known, ForestInv, [Next]_vars
    PROVE  ForestInv'
<1>1. CASE UNCHANGED vars
  BY <1>1, ForestStands
<1>2. CASE Next
  <2>1. PICK t \in Threads : Allocate(t) \/ ReadEntry(t) \/ Expand(t) \/ Descend(t) \/ Link(t) \/ Search(t)
    BY <1>2 DEF Next
  <2>2. OthersKeep(t)
    BY <2>1, StepIsLocal
  <2>3. CASE Allocate(t)
    BY <2>2, <2>3, AllocateForest
  <2>4. CASE ReadEntry(t)
    <3>1. CASE top < 0
      BY <2>2, <2>4, <3>1, FirstForest
    <3>2. CASE ~(top < 0) /\ Linking(t)
      BY <2>2, <2>4, <3>2, ReadEntryForest
    <3>3. CASE ~(top < 0) /\ ~Linking(t)
      <4>1. pc[t] # "idle"
        BY <2>4 DEF ReadEntry
      <4> QED BY <2>2, <2>4, <3>3, <4>1, ReadEntryMoves, QueryForest
    <3> QED BY <3>1, <3>2, <3>3
  <2>5. CASE Descend(t)
    <3>1. CASE Linking(t)
      BY <2>2, <2>5, <3>1, DescendForest
    <3>2. CASE ~Linking(t)
      <4>1. pc[t] # "idle" /\ Moves(t, Start(t), look[t].layer - 1)
        BY <2>5, DescendMoves
      <4> QED BY <2>2, <3>2, <4>1, QueryForest
    <3> QED BY <3>1, <3>2
  <2>6. CASE NextLayer(t)
    <3>1. CASE look[t].layer > 0
      BY <2>2, <2>6, <3>1, NextLayerForest
    <3>2. CASE ~(look[t].layer > 0) /\ job[t].l > job[t].L
      BY <2>2, <2>6, <3>2, ToPromoteForest
    <3>3. CASE ~(look[t].layer > 0) /\ ~(job[t].l > job[t].L)
      <4>1. Ends(t) /\ pc[t] = "back" /\ look[t].layer = 0
        <5>1. pc[t] = "back"
          BY <2>6 DEF NextLayer
        <5> QED BY <2>6, <3>3, <5>1, CallEnds
      <4> QED BY <2>2, <4>1, EndForest
    <3> QED BY <3>1, <3>2, <3>3
  <2>7. CASE Promote(t)
    <3>1. Ends(t) /\ pc[t] = "promote"
      <4>1. pc[t] = "promote"
        BY <2>7 DEF Promote
      <4> QED BY <2>7, <4>1, CallEnds
    <3> QED BY <2>2, <3>1, EndForest
  <2>8. CASE Search(t)
    BY <2>2, <2>8, SearchAsks, AskForest
  <2>9. CASE Expand(t) \/ SetLinks(t) \/ BackLink(t)
    BY <2>2, <2>9, ExpandForest, SetLinksForest, BackLinkForest
  <2> QED BY <2>1, <2>3, <2>4, <2>5, <2>6, <2>7, <2>8, <2>9 DEF Link
<1> QED BY <1>1, <1>2

-----------------------------------------------------------------------------
(* The theorem. *)

(* At first nothing is known, and every node is a tree of its own. *)
LEMMA InitForest ==
    ASSUME Init
    PROVE  Known /\ ForestInv
<1>1. /\ nodes = <<>> /\ linked = {} /\ top = -1 /\ entry = NoNode /\ DOMAIN nodes = {}
      /\ \A t \in Threads : pc[t] = "idle" /\ job[t] = NoJob
  BY DEF Init
<1>2. \A t \in Threads : ~Linking(t) /\ ~Hides(t) /\ \A c : ~Unplaced(t, c) /\ ~Unaimed(t, c)
  BY <1>1 DEF Linking, Hides, Unplaced, Unaimed
<1>3. Known
  <2>1. NodesHaveLinkers /\ HiddenIsUnknown
    BY <1>1, <1>2 DEF NodesHaveLinkers, HiddenIsUnknown
  <2>2. LinksAreMutual
    BY <1>1 DEF LinksAreMutual, Promised
  <2> QED BY <2>1, <2>2 DEF Known
<1> DEFINE R == [c \in Layers |-> [n \in Ids |-> n]]
           rank == [c \in Layers |-> [n \in Ids |-> 0]]
<1>4. \A c \in Layers, n \in Ids : R[c][n] = n /\ rank[c][n] = 0
  OBVIOUS
<1>5. R \in [Layers -> [Ids -> Ids]] /\ rank \in [Layers -> [Ids -> Nat]] /\ 0 \in Layers
  BY Constants
<1> HIDE DEF R, rank
<1>6. IsForest(R, R, rank)
  BY <1>4, <1>5 DEF IsForest
<1>7. RootsAre(R, R) /\ OneRoot(R, 0)
  BY <1>1, <1>2, <1>4 DEF RootsAre, OneRoot, Alone
<1>8. LinksAreInTree(R) /\ SearchesAreInTree(R, R, rank)
  BY <1>1, <1>2 DEF LinksAreInTree, SearchesAreInTree
<1>9. TreesAreLinked(R)
  BY <1>4, <1>5 DEF TreesAreLinked
<1>10. 0 \in Nat /\ Forest(R, R, rank, 0)
  BY <1>6, <1>7, <1>8, <1>9 DEF Forest
<1> QED BY <1>3, <1>10 DEF ForestInv

(* When nobody is linking, the trees of layer 0 have one root, so there is one tree, and its
   links, each of which now goes both ways, hold it together. *)
LEMMA ForestIsFound ==
    ASSUME ShapeInv, Known, ForestInv
    PROVE  LinkedAreFound
<1> SUFFICES ASSUME Quiet, ~dropped, NEW n \in linked PROVE n \in Findable
  BY DEF LinkedAreFound
<1>1. PICK R, V, rank : \E f \in Nat : Forest(R, V, rank, f)
  BY DEF ForestInv
<1>2. PICK first \in Nat : Forest(R, V, rank, first)
  BY <1>1
<1>3. \A t \in Threads : pc[t] = "idle" /\ ~Linking(t) /\ \A c : ~Unplaced(t, c)
  BY DEF Quiet, Linking, Unplaced
<1>4. n \in DOMAIN nodes /\ n \in Ids /\ entry \in DOMAIN nodes /\ entry \in Ids /\ entry # NoNode
  <2>1. n \in DOMAIN nodes /\ Height(n) \in Layers /\ Height(n) <= top
    BY DEF ShapeInv, Types, LinksInLayer, EntryIsTallest
  <2>2. top >= 0 /\ entry \in DOMAIN nodes
    <3>1. Height(n) \in Nat
      BY <2>1, Constants
    <3>2. top \in Int
      BY Constants DEF ShapeInv, Types
    <3>3. top >= 0
      BY <2>1, <3>1, <3>2
    <3> QED BY <3>3 DEF ShapeInv, EntryIsTallest
  <2>3. DOMAIN nodes = 1..Len(nodes) /\ Len(nodes) \in Nat
    BY NodesFinite DEF ShapeInv, Types, NodesTyped
  <2> QED BY <2>1, <2>2, <2>3, NodesAreIds DEF NoNode
<1>5. \A m \in DOMAIN nodes : R[0][m] = first
  <2> SUFFICES ASSUME NEW m \in DOMAIN nodes PROVE R[0][m] = first
    OBVIOUS
  <2>1. 0 \in Layers /\ m \in Ids
    BY NodesAreIds, Constants
  <2>2. R[0][R[0][m]] = R[0][m] /\ R[0][m] \in Ids
    BY <1>2, <2>1 DEF Forest, IsForest
  <2>3. R[0][m] \in DOMAIN nodes
    <3> SUFFICES ASSUME R[0][m] \in Ids \ DOMAIN nodes PROVE FALSE
      BY <2>2
    <3>1. Alone(R, V, 0, R[0][m])
      BY <1>2, <2>1 DEF Forest, RootsAre
    <3> QED BY <2>1, <3>1 DEF Alone
  <2> QED BY <1>2, <1>3, <2>2, <2>3 DEF Forest, OneRoot
<1> SUFFICES ASSUME NEW S \in SUBSET DOMAIN nodes, entry \in S, Closed(S) PROVE n \in S
  BY <1>4 DEF Findable, Reach
<1>6. \A k \in DOMAIN nodes : \A m \in ToSet(Links(k, 0)) : m \in DOMAIN nodes /\ k \in ToSet(Links(m, 0))
  <2> SUFFICES ASSUME NEW k \in DOMAIN nodes, NEW m \in ToSet(Links(k, 0))
      PROVE m \in DOMAIN nodes /\ k \in ToSet(Links(m, 0))
    OBVIOUS
  <2>1. m \in DOMAIN nodes
    BY Constants, CopiedList
  <2> QED BY <1>3, <2>1 DEF Known, LinksAreMutual, Promised
<1>7. \A k \in DOMAIN nodes : \A m \in ToSet(Links(k, 0)) : k \in S <=> m \in S
  BY <1>6 DEF Closed
<1>8. \A k \in Ids : k \in S <=> R[0][k] \in S
  <2>1. S \in SUBSET Ids
    BY NodesAreIds
  <2> QED BY <1>2, <1>7, <2>1 DEF Forest, TreesAreLinked
<1> QED BY <1>4, <1>5, <1>8

(* As long as no link is cut, by a prune or by a list written over, every node whose link()
   has returned can be found once nobody is linking, however the links overlapped. *)
THEOREM LinkedNodesAreFound == Spec => []LinkedAreFound
<1>1. Init => Known /\ ForestInv
  BY InitForest
<1>2. ShapeInv /\ Known /\ ForestInv /\ [Next]_vars => Known' /\ ForestInv'
  BY KnownStep, ForestStep
<1>3. ShapeInv /\ Known /\ ForestInv => LinkedAreFound
  BY ForestIsFound
<1> QED BY <1>1, <1>2, <1>3, ShapeHolds, PTL DEF Spec
=============================================================================
