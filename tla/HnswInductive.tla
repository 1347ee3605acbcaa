---------------------------- MODULE HnswInductive ----------------------------
(***************************************************************************)
(* The inductive invariants behind the theorems about Hnsw:                *)
(*   ShapeInv   where every thread stands, and that links stay in a layer  *)
(*   WalkInv    how far a search of the bottom layer has come              *)
(*   ForestInv  why no linked node is cut off from the others              *)
(***************************************************************************)
EXTENDS Hnsw

Layers == 0..MaxLayer
Node   == [point : Points, links : Seq(Seq(Nat))]
Job    == [type : {"none", "link", "search"}, id : Nat, point : Int, l : Layers, L : Layers]
Look   == [layer : Layers, ef : Nat, visited : SUBSET Nat, cands : SUBSET Nat, W : SUBSET Nat]

\* The nodes that have the layer.
Tall(layer) == {n \in DOMAIN nodes : layer <= Height(n)}

Types ==
    /\ nodes \in Seq(Node)
    /\ Len(nodes) <= Cardinality(Points)
    /\ entry \in 0..Len(nodes) /\ top \in -1..MaxLayer
    /\ pc \in [Threads -> {"idle", "entry", "look", "back", "promote"}]
    /\ job \in [Threads -> Job] /\ look \in [Threads -> Look]
    /\ todo \in [Threads -> Seq(Nat)]
    /\ before \in [Threads -> SUBSET Nat]
    /\ linked \subseteq DOMAIN nodes /\ dropped \in BOOLEAN /\ searches \in Nat

LinksInLayer ==
    \A n \in DOMAIN nodes :
       /\ Height(n) \in Layers
       /\ \A layer \in 0..Height(n) : /\ Len(Links(n, layer)) <= M \/ Len(Links(n, layer)) <= Cap(layer)
                                      /\ ToSet(Links(n, layer)) \subseteq Tall(layer)

\* A thread links a node that is there, or searches a graph that is not empty.
JobOK(t) ==
    /\ pc[t] = "idle" => job[t] = NoJob /\ look[t] = NoLook
    /\ pc[t] \in {"idle", "entry"} \/ job[t].type = "link" => before[t] = {}
    /\ pc[t] # "back" => todo[t] = <<>>
    /\ pc[t] # "idle" => /\ job[t].point \in Points
                         /\ \/ /\ job[t].type = "link" /\ job[t].id \in DOMAIN nodes
                               /\ job[t].l = Height(job[t].id)
                            \/ job[t].type = "search" /\ job[t].l = 0 /\ top >= 0
    /\ pc[t] = "entry" => look[t] = NoLook
    /\ pc[t] \in {"look", "back", "promote"} => job[t].L <= top
    /\ pc[t] \in {"back", "promote"} => job[t].type = "link"
    /\ pc[t] = "promote" => job[t].l > job[t].L

LookOK(t) ==
    /\ look[t].W \subseteq look[t].visited /\ look[t].cands \subseteq look[t].visited
    /\ look[t].visited \subseteq Tall(look[t].layer)
    /\ pc[t] \in {"look", "back"} => look[t].W # {} /\ look[t].ef > 0
    /\ pc[t] = "back" => look[t].layer <= job[t].l
    /\ ToSet(todo[t]) \subseteq Tall(look[t].layer)

ShapeInv == Types /\ LinksInLayer /\ (\A t \in Threads : JobOK(t) /\ LookOK(t)) /\ EntryIsTallest

-----------------------------------------------------------------------------
\* A set that the walk of t cannot leave any more: it holds what t has visited, and the
\* lists t has still to copy lead into it.
Holds(t, S) == /\ look[t].visited \subseteq S
               /\ \A m \in S : m \in look[t].visited \ look[t].cands \/ ToSet(Links(m, 0)) \subseteq S

Walks(t) == pc[t] = "look" /\ job[t].type = "search" /\ look[t].layer = 0

WalkInv ==
    \A t \in Threads :
       /\ ~Walks(t) => before[t] = {}
       /\ Walks(t) => look[t].ef = EfSearch
       /\ Walks(t) /\ Cardinality(Points) <= EfSearch =>
             /\ look[t].W = look[t].visited
             /\ ~dropped => \A S \in SUBSET DOMAIN nodes : Holds(t, S) => before[t] \subseteq S

-----------------------------------------------------------------------------
Linking(t) == pc[t] # "idle" /\ job[t].type = "link"

\* t has not come to a layer of its node: nobody knows of the node.
Hides(t) == Linking(t) /\ (pc[t] = "entry" \/ (pc[t] = "look" /\ look[t].layer > job[t].l))

NodesHaveLinkers ==
    /\ \A t, u \in Threads : Linking(t) /\ Linking(u) /\ job[t].id = job[u].id => t = u
    /\ \A t \in Threads : Linking(t) => job[t].id \notin linked
    /\ \A n \in DOMAIN nodes : n \in linked \/ \E t \in Threads : Linking(t) /\ job[t].id = n
    /\ top >= 0 => entry \in linked

HiddenIsUnknown ==
    \A t \in Threads : Hides(t) =>
       /\ \A n \in DOMAIN nodes, c \in Layers : job[t].id \notin ToSet(Links(n, c))
       /\ \A u \in Threads : job[t].id \notin look[u].visited \cup ToSet(todo[u])

\* The list of t's node in layer c is still to be written, and before that: it is still
\* open where the search of layer c starts.
Unplaced(t, c) == Linking(t) /\ \/ pc[t] = "entry"
                                \/ pc[t] = "look" /\ (c < look[t].layer \/ (c = look[t].layer /\ c <= job[t].l))
                                \/ pc[t] = "back" /\ c < look[t].layer
Unaimed(t, c)  == Linking(t) /\ \/ pc[t] = "entry"
                                \/ pc[t] = "look" /\ c < look[t].layer
                                \/ pc[t] = "back" /\ c < look[t].layer - 1

\* In layer c every node points to the one its search of the layer starts from, once that is
\* known.  Of these pointers V follows all, R those of nodes that are placed, to the end; rank
\* goes down along them.  A node above its own layers points to where its descent came by.
IsForest(R, V, rank) ==
    /\ R \in [Layers -> [Ids -> Ids]] /\ V \in [Layers -> [Ids -> Ids]] /\ rank \in [Layers -> [Ids -> Nat]]
    /\ \A c \in Layers, n \in Ids : /\ R[c][R[c][n]] = R[c][n] /\ V[c][V[c][n]] = V[c][n]
                                    /\ V[c][R[c][n]] = V[c][n]
                                    /\ c + 1 \in Layers => R[c + 1][V[c][n]] = R[c + 1][n]

Alone(R, V, c, n) == \A m \in Ids : (R[c][m] = n <=> m = n) /\ (V[c][m] = n <=> m = n)

\* Where the next layer is searched from.
Start(t) == Nearest(job[t].point, look[t].W)

\* n may be placed under v: that leads away from it.
Aims(R, V, rank, c, n, v) == V[c][v] = V[c][n] /\ rank[c][R[c][v]] < rank[c][n]

RootsAre(R, V) ==
    /\ \A n \in Ids \ DOMAIN nodes, c \in Layers : Alone(R, V, c, n)
    /\ \A t \in Threads, c \in Layers :
          /\ Unplaced(t, c) => R[c][job[t].id] = job[t].id
          /\ Unaimed(t, c) => V[c][job[t].id] = job[t].id
          /\ Hides(t) /\ Unplaced(t, c) => Alone(R, V, c, job[t].id)

LinksAreInTree(R) ==
    /\ \A n \in DOMAIN nodes, c \in Layers : \A m \in ToSet(Links(n, c)) : R[c][m] = R[c][n]
    /\ \A t \in Threads : pc[t] = "back" =>
          \A m \in ToSet(todo[t]) : R[look[t].layer][m] = R[look[t].layer][job[t].id]

SearchIsInTree(R, V, rank, t) ==
    LET c == look[t].layer
        n == job[t].id
    IN  /\ pc[t] = "look" => \A v, w \in look[t].visited : R[c][v] = R[c][w]
        /\ pc[t] = "look" /\ c > job[t].l => \A v \in look[t].visited : R[c][v] = R[c][n]
        /\ pc[t] = "look" /\ c <= job[t].l => \A v \in look[t].visited : Aims(R, V, rank, c, n, v)
        /\ pc[t] = "back" /\ c > 0 => Aims(R, V, rank, c - 1, n, Start(t))

SearchesAreInTree(R, V, rank) == \A t \in Threads : Linking(t) => SearchIsInTree(R, V, rank, t)

\* One node was the first; every other that is placed in layer 0 has a root that is not itself.
OneRoot(R, first) ==
    \A n \in DOMAIN nodes : R[0][n] = n => n = first \/ \E t \in Threads : Unplaced(t, 0) /\ job[t].id = n

\* While no link was cut, what hangs together in the forest hangs together by links...
TreesAreLinked(R) ==
    ~dropped => \A S \in SUBSET Ids :
       (\A n \in DOMAIN nodes : \A m \in ToSet(Links(n, 0)) : n \in S <=> m \in S)
       => \A n \in Ids : n \in S <=> R[0][n] \in S

\* ... that go both ways, or will.
Promised(t, n, m) == pc[t] = "back" /\ look[t].layer = 0 /\ job[t].id = n /\ m \in ToSet(todo[t])

LinksAreMutual ==
    ~dropped =>
       /\ \A n \in DOMAIN nodes : \A m \in ToSet(Links(n, 0)) :
             n \in ToSet(Links(m, 0)) \/ \E t \in Threads : Promised(t, n, m)
       /\ \A t \in Threads, n, m \in DOMAIN nodes : Promised(t, n, m) => m \in ToSet(Links(n, 0))

Known == NodesHaveLinkers /\ HiddenIsUnknown /\ LinksAreMutual

Forest(R, V, rank, first) ==
    /\ IsForest(R, V, rank) /\ RootsAre(R, V) /\ LinksAreInTree(R) /\ SearchesAreInTree(R, V, rank)
    /\ OneRoot(R, first) /\ TreesAreLinked(R)

ForestInv == \E R, V, rank : \E first \in Nat : Forest(R, V, rank, first)
=============================================================================
