-------------------------- MODULE BPlusTreeInductive --------------------------
(***************************************************************************)
(* The inductive invariants the proofs about BPlusTree rest on, for a tree *)
(* nothing is removed from.  The facts about an arena are operators on it, *)
(* so that they can be followed through the parts of an action.            *)
(***************************************************************************)
EXTENDS BPlusTree

Phases == Holding \cup {"idle", "enter", "climb", "grow", "hintLeft", "hintRight", "answer"}
Node   == [leaf : BOOLEAN, keys : Seq(Keys), items : Seq(Nat),
           right : Nat, high : Keys \cup {Unbounded}, hint : Nat]
Jobs   == [type : {"none", "insert", "scan"}, lo : Nat, hi : Nat, id : Nat]
Splits == [child : Nat, right : Nat, sep : Nat, hint : Nat]

-----------------------------------------------------------------------------
(* Shape. *)

\* An internal node has one child more than keys.
Extra(x) == IF x.leaf THEN 0 ELSE 1

NodeInv(ns, n) ==
    LET x == ns[n]   N == 0..Len(ns) IN
    /\ x.right \in N /\ x.hint \in N
    /\ x.high = Unbounded \/ x.right # NoNode
    /\ Len(x.items) = Len(x.keys) + Extra(x)
    /\ \A i \in DOMAIN x.items : x.items[i] \in (IF x.leaf THEN Ids ELSE DOMAIN ns)

ArenaInv(ns) == ns \in Seq(Node) /\ \A n \in DOMAIN ns : NodeInv(ns, n)

\* A thread that has been somewhere knows a node, one that has split a node knows both halves.
Placed  == Holding \cup {"enter", "climb", "hintLeft", "hintRight"}
HasSplit == {"grow", "climb", "seek", "hintLeft", "hintRight"}

ThreadInv(t) ==
    /\ at[t] \in 0..Len(nodes) /\ {split[t].child, split[t].right, split[t].hint} \subseteq 0..Len(nodes)
    /\ pc[t] \in Placed => at[t] # NoNode
    /\ pc[t] # "idle" => job[t].lo \in Keys /\ job[t].type # "none"
    /\ job[t].type = "insert" => job[t].id \in Ids
    /\ pc[t] \in HasSplit => split[t].child # NoNode /\ split[t].right # NoNode /\ split[t].sep \in Keys

\* While a thread tells the children of the right half, nobody changes either half.
RehomeInv(t) ==
    pc[t] = "rehome" =>
       LET p == nodes[at[t]] IN
       /\ ~p.leaf /\ p.high \in Keys /\ p.right # NoNode /\ ~nodes[p.right].leaf
       /\ todo[t] \in DOMAIN nodes[p.right].items

ShapeInv ==
    /\ ArenaInv(nodes) /\ root \in DOMAIN nodes
    /\ pc \in [Threads -> Phases] /\ at \in [Threads -> Nat] /\ job \in [Threads -> Jobs]
    /\ split \in [Threads -> Splits] /\ todo \in [Threads -> Nat]
    /\ nextId \in Nat \ {0} /\ scans \in Nat /\ removes \in Nat
    /\ \A t \in Threads : ThreadInv(t) /\ RehomeInv(t)

-----------------------------------------------------------------------------
(* Locks. *)

LockInv ==
    /\ \A t, u \in Threads : t # u /\ pc[t] \in Holding /\ pc[u] \in Holding => at[t] # at[u]
    /\ \A t, u \in Threads : t # u /\ pc[t] = "rehome" /\ pc[u] = "rehome" => at[u] # nodes[at[t]].right

-----------------------------------------------------------------------------
(* Levels: the links of a node stay on its level, its children are one below. *)

IsLevel(ns, level) ==
    /\ level \in [DOMAIN ns -> Nat]
    /\ \A n \in DOMAIN ns :
          /\ ns[n].leaf <=> level[n] = 0
          /\ ns[n].right # NoNode => level[ns[n].right] = level[n]
          /\ ~ns[n].leaf => \A i \in DOMAIN ns[n].items : level[ns[n].items[i]] + 1 = level[n]

\* A split node whose parent has not been told.
Untold == {"grow", "climb", "seek"}

LevelInv ==
    \E level : /\ IsLevel(nodes, level)
               /\ \A t \in Threads : pc[t] \in Untold => level[split[t].child] = level[split[t].right]

-----------------------------------------------------------------------------
(* Parents. *)

IsChild(ns, c)  == \E q \in DOMAIN ns : HasChild(ns[q], c)
\* The parent of c is n or to the right of it.
Below(ns, n, c) == \E q \in ChainFrom(ns, n) : HasChild(ns[q], c)

\* No item is in two places of leaves, or of internal nodes.
Distinct(ns, b) ==
    \A p, q \in DOMAIN ns : (ns[p].leaf <=> b) /\ (ns[q].leaf <=> b) =>
       \A i \in DOMAIN ns[p].items, j \in DOMAIN ns[q].items :
          ns[p].items[i] = ns[q].items[j] => p = q /\ i = j
OneParent(ns) == Distinct(ns, FALSE)
OnePlace(ns)  == Distinct(ns, TRUE)

HintsFit(ns) == \A n \in DOMAIN ns : ns[n].hint # NoNode => Below(ns, ns[n].hint, n)

\* The new half of the node a thread has split, until a parent knows it.
WithHalf == Untold \cup {"rehome"}
Half(t)  == IF pc[t] = "rehome" THEN nodes[at[t]].right ELSE split[t].right

FamilyInv ==
    /\ OneParent(nodes) /\ HintsFit(nodes) /\ ~IsChild(nodes, root)
    /\ \A t \in Threads :
          /\ pc[t] \in WithHalf => ~IsChild(nodes, Half(t)) /\ Half(t) # root
          /\ pc[t] \in {"climb", "seek", "hintLeft", "hintRight"} => Below(nodes, at[t], split[t].child)
          /\ pc[t] \in {"hintLeft", "hintRight"} => Below(nodes, at[t], split[t].right)
    /\ \A t, u \in Threads : t # u /\ pc[t] \in WithHalf /\ pc[u] \in WithHalf => Half(t) # Half(u)

-----------------------------------------------------------------------------
(* The first node of each level, which nothing is to the left of; and what the leaves hold. *)

Rights(ns) == {ns[n].right : n \in DOMAIN ns}
Leaves(ns) == {n \in DOMAIN ns : ns[n].leaf}
Held(ns)   == UNION {PairsIn(ns[n]) : n \in Leaves(ns)}

Leftmost(ns) ==
    \A q \in DOMAIN ns : ~ns[q].leaf /\ q \notin Rights(ns) => Head(ns[q].items) \notin Rights(ns)

FirstInv ==
    /\ root \notin Rights(nodes) /\ Leftmost(nodes)
    /\ 1 \in Leaves(nodes) /\ Leaves(nodes) \subseteq Rightwards(1)

\* Each insert adds a row id that no leaf has.
Adding(t) == job[t].type = "insert" /\ pc[t] \in {"enter", "walk"}
FreshInv ==
    /\ \A e \in Held(nodes) : e[2] < nextId
    /\ \A t \in Threads : Adding(t) => job[t].id < nextId /\ \A e \in Held(nodes) : e[2] # job[t].id
    /\ \A t, u \in Threads : t # u /\ Adding(t) /\ Adding(u) => job[t].id # job[u].id

TreeInv == ShapeInv /\ LockInv /\ LevelInv /\ FamilyInv /\ FirstInv /\ FreshInv

-----------------------------------------------------------------------------
(* Order: below each node's keys is the bound its left neighbour ends at, which is also what *)
(* the parent has in front of it.  The keys of an internal node may be out of order.         *)

NodeLow(ns, low, n) ==
    LET x == ns[n] IN
    /\ x.right # NoNode => low[x.right] = x.high
    /\ x.leaf => /\ low[n] <= x.high
                 /\ \A i \in DOMAIN x.keys : low[n] <= x.keys[i] /\ x.keys[i] <= x.high
                 /\ \A i, j \in DOMAIN x.keys : i < j => x.keys[i] <= x.keys[j]
    /\ ~x.leaf => /\ low[x.items[1]] = low[n]
                  /\ \A i \in DOMAIN x.keys : low[x.items[i + 1]] = x.keys[i]
LowIs(ns, low) == low \in [DOMAIN ns -> Int] /\ \A n \in DOMAIN ns : NodeLow(ns, low, n)

\* Every walk to the right comes to an end.
Ends(ns) == \A n \in DOMAIN ns : \E x \in ChainFrom(ns, n) : ns[x].right = NoNode

\* The pairs in the leaves from n on.
Beyond(ns, n) == UNION {PairsIn(ns[x]) : x \in ChainFrom(ns, n) \cap Leaves(ns)}

Scanning(t)  == job[t].type = "scan"
Searching(t) == pc[t] \in {"enter", "walk"}
\* A scan that has come to the leaves does not look at high keys to find its way.
OnLeaves(t)  == Searching(t) /\ Scanning(t) /\ nodes[at[t]].leaf

PlaceInv(t, low) ==
    /\ pc[t] \in Untold => low[split[t].right] = split[t].sep
    /\ Searching(t) /\ ~OnLeaves(t) => low[at[t]] < job[t].lo
    /\ OnLeaves(t) => \A i \in DOMAIN out[t] : out[t][i][1] <= low[at[t]]

OrderInv == /\ Ends(nodes) /\ OnePlace(nodes)
            /\ \E low : /\ LowIs(nodes, low) /\ low[root] = -1
                       /\ \A t \in Threads : PlaceInv(t, low)

\* What thread t's scan must find: what was there when it began, between its bounds.
Between(t, e) == job[t].lo <= e[1] /\ e[1] <= job[t].hi
Due(t) == {e \in before[t] : Between(t, e)}

ScanInv(t) ==
    /\ pc[t] = "answer" => Scanning(t)
    /\ ~Scanning(t) => out[t] = <<>>
    /\ Scanning(t) =>
          /\ pc[t] \in {"enter", "walk", "answer"}
          /\ \A i, j \in DOMAIN out[t] : i < j => out[t][i][1] <= out[t][j][1] /\ out[t][i] # out[t][j]
          /\ \A e \in ToSet(out[t]) : e \in Held(nodes) /\ Between(t, e)
          /\ before[t] \subseteq Held(nodes)
          /\ pc[t] = "answer" => Due(t) \subseteq ToSet(out[t])
          /\ Searching(t) /\ ~OnLeaves(t) => out[t] = <<>>
          /\ OnLeaves(t) => /\ Due(t) \subseteq ToSet(out[t]) \cup Beyond(nodes, at[t])
                            /\ ToSet(out[t]) \cap Beyond(nodes, at[t]) = {}

ScansInv == /\ out \in [Threads -> Seq(Keys \X Ids)] /\ before \in [Threads -> SUBSET (Keys \X Ids)]
            /\ \A t \in Threads : ScanInv(t)
=============================================================================
