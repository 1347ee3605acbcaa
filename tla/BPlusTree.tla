------------------------------ MODULE BPlusTree ------------------------------
(***************************************************************************)
(* The concurrent B+-tree of src/bplus_tree.cpp: threads insert and scan   *)
(* ranges by the B-link protocol, each holding the lock of one node while  *)
(* it waits for the next one's; remove() runs when no thread is inside.    *)
(*                                                                         *)
(* Grain.  An action is what a thread does under the lock it holds, up to  *)
(* and including the acquisition of the next lock and the release of its   *)
(* own; a step that only touches a new node belongs to it.  The holders    *)
(* wait in the state before, so that a cycle of waiting is a deadlock.     *)
(***************************************************************************)
EXTENDS BTreeNodes

CONSTANTS Threads,
          MaxNodes,      \* max_nodes
          MaxCalls,      \* bound: inserts and scans
          MaxScans,      \* bound: scans
          MaxRemoves,    \* bound: removals
          Alone,         \* bound: the inserts that begin only when nobody is inside
          RemoveUnclean  \* whether remove() runs after inserts that overlapped or threw

ASSUME TreeAssumption ==
       /\ MaxNodes \in Nat \ {0}
       /\ {MaxCalls, MaxScans, MaxRemoves} \subseteq Nat /\ Alone \subseteq Nat
       /\ RemoveUnclean \in BOOLEAN

VARIABLES
    nodes, root,   \* nodes_, root_
    pc,            \* where a thread stands, see Holding
    at,            \* the node it holds or waits for
    job,           \* the insert or scan it runs
    split,         \* sr, promoted_child and hint of insert()
    todo,          \* the next child whose hint split_internal_ sets
    out, before,   \* the pairs a scan emitted; history: those there when it began
    clean,         \* history: no two inserts overlapped and none threw
    nextId, scans, removes  \* history: the id of the next pair to insert; scans, removals begun

tree   == <<nodes, root>>
thread == <<pc, at, job, split, todo, out, before>>
history == <<clean, nextId, scans, removes>>
vars   == <<tree, thread, history>>

Ids     == 1..MaxCalls
NoJob   == [type |-> "none", lo |-> 0, hi |-> 0, id |-> 0]
NoSplit == [child |-> NoNode, right |-> NoNode, sep |-> 0, hint |-> NoNode]

\* "walk": descending or at a leaf; "seek": looking for the parent of a split node;
\* "rehome": splitting an internal node.  Without a lock: "enter" and "climb" wait for
\* their first one, "grow", "hintLeft" and "hintRight" make a new root, "answer" returns.
Holding == {"walk", "seek", "rehome"}
Free(n) == \A t \in Threads : at[t] = n => pc[t] \notin Holding

TypeOK ==
    LET N == 0..Len(nodes) IN
    /\ root \in DOMAIN nodes
    /\ \A n \in DOMAIN nodes : LET x == nodes[n] IN
          /\ x.right \in N /\ x.hint \in N /\ x.high \in Keys \cup {Unbounded}
          /\ Len(x.items) = Len(x.keys) + (IF x.leaf THEN 0 ELSE 1)
          /\ ToSet(x.keys) \subseteq Keys
          /\ ToSet(x.items) \subseteq (IF x.leaf THEN Ids ELSE DOMAIN nodes)
    /\ \A t \in Threads :
          /\ pc[t] \in Holding \cup {"idle", "enter", "climb", "grow", "hintLeft", "hintRight", "answer"}
          /\ at[t] \in N /\ job[t].type \in {"none", "insert", "scan"}
          /\ {split[t].child, split[t].right, split[t].hint} \subseteq N

Init ==
    /\ nodes = <<EmptyLeaf>> /\ root = 1
    /\ pc = [t \in Threads |-> "idle"] /\ at = [t \in Threads |-> NoNode]
    /\ job = [t \in Threads |-> NoJob] /\ split = [t \in Threads |-> NoSplit]
    /\ todo = [t \in Threads |-> 0]
    /\ out = [t \in Threads |-> <<>>] /\ before = [t \in Threads |-> {}]
    /\ clean = TRUE /\ nextId = 1 /\ scans = 0 /\ removes = 0

-----------------------------------------------------------------------------
(* What a tree holds: the pairs on the chain of leaves. *)

PairsIn(n)  == {<<n.keys[i], n.items[i]>> : i \in DOMAIN n.keys}

\* The nodes from n to the right, in which a merge may leave a cycle.
ChainFrom(ns, n) ==
    LET from[s \in (0..Len(ns)) \X SUBSET DOMAIN ns] ==
          LET m == s[1]   seen == s[2]
          IN  IF m \in seen \cup {NoNode} THEN seen ELSE from[<<ns[m].right, seen \cup {m}>>]
    IN  from[<<n, {}>>]
Rightwards(n) == ChainFrom(nodes, n)

\* The first node of each level.
Spine(T) == LET from[n \in DOMAIN T.ns] ==
                  {n} \cup (IF T.ns[n].leaf THEN {} ELSE from[Head(T.ns[n].items)])
            IN  from[T.root]

\* What no merge has cut off.
InTree == UNION {Rightwards(n) : n \in Spine(Tree(nodes, root))}

PairsOf(T) == UNION {PairsIn(T.ns[n]) : n \in UNION {ChainFrom(T.ns, m) : m \in {l \in Spine(T) : T.ns[l].leaf}}}
Pairs == PairsOf(Tree(nodes, root))

-----------------------------------------------------------------------------
Goto(t, p, n) == pc' = [pc EXCEPT ![t] = p] /\ at' = [at EXCEPT ![t] = n]

Return(t) == /\ Goto(t, "idle", NoNode)
             /\ job' = [job EXCEPT ![t] = NoJob] /\ split' = [split EXCEPT ![t] = NoSplit]
             /\ todo' = [todo EXCEPT ![t] = 0]
             /\ out' = [out EXCEPT ![t] = <<>>] /\ before' = [before EXCEPT ![t] = {}]

MayBegin(t) == /\ pc[t] = "idle" /\ nextId + scans <= MaxCalls
               /\ nextId \in Alone => \A u \in Threads : pc[u] = "idle"
Inserting(t) == pc[t] # "idle" /\ job[t].type = "insert"

\* insert(): lock_root_ reads root_ under root_mutex_, then waits for the node's lock.
BeginInsert(t) ==
    /\ MayBegin(t)
    /\ \E k \in Keys :
          job' = [job EXCEPT ![t] = [type |-> "insert", lo |-> k, hi |-> k, id |-> nextId]]
    /\ nextId' = nextId + 1
    /\ Goto(t, "enter", root)
    /\ clean' = (clean /\ \A u \in Threads : ~Inserting(u))
    /\ UNCHANGED <<tree, scans, removes, split, todo, out, before>>

\* range(), and find() when lo = hi.
BeginScan(t) ==
    /\ MayBegin(t) /\ scans < MaxScans
    /\ scans' = scans + 1
    /\ \E lo \in Keys : \E hi \in {lo, Max(Keys)} :
          job' = [job EXCEPT ![t] = [type |-> "scan", lo |-> lo, hi |-> hi, id |-> 0]]
    /\ Goto(t, "enter", root)
    /\ before' = [before EXCEPT ![t] = Pairs]
    /\ UNCHANGED <<tree, clean, nextId, removes, split, todo, out>>

\* The lock of the node a thread came for.
Enter(t) ==
    /\ pc[t] \in {"enter", "climb"} /\ Free(at[t])
    /\ pc' = [pc EXCEPT ![t] = IF pc[t] = "enter" THEN "walk" ELSE "seek"]
    /\ UNCHANGED <<tree, history, at, job, split, todo, out, before>>

\* (mutated form of BeyondHigh: nobody moves right)
StayHere(t) == FALSE

BeyondHigh(t) == job[t].lo > nodes[at[t]].high

\* move_right_ and descend_locked_: where to go from the node that is locked.
Step(t) == IF BeyondHigh(t) THEN nodes[at[t]].right ELSE ChildFor(nodes[at[t]], job[t].lo)

AtItsLeaf(t) == pc[t] = "walk" /\ nodes[at[t]].leaf /\ ~BeyondHigh(t)

Walk(t) ==
    /\ pc[t] = "walk" /\ ~AtItsLeaf(t)
    /\ Free(Step(t))
    /\ at' = [at EXCEPT ![t] = Step(t)]
    /\ UNCHANGED <<tree, history, pc, job, split, todo, out, before>>

\* Node n of arena ns was split: release it and look for its parent.
Rise(t, ns, n) ==
    LET h == ns[n].hint
    IN  /\ nodes' = ns
        /\ split' = [split EXCEPT ![t] = [child |-> n, right |-> ns[n].right, sep |-> ns[n].high, hint |-> h]]
        /\ Goto(t, IF h = NoNode THEN "grow" ELSE "climb", h)

\* new_leaf_ and new_internal_ throw once the arena is full.
ArenaFull == Len(nodes) >= MaxNodes

InsertHere(t) ==
    LET n  == at[t]
        ns == [nodes EXCEPT ![n] = PutEntry(nodes[n], job[t].lo, job[t].id)]
    IN  /\ AtItsLeaf(t) /\ job[t].type = "insert"
        /\ IF Overfull(ns[n]) /\ ~ArenaFull
           THEN /\ Rise(t, SplitLeaf(ns, n), n)
                /\ UNCHANGED <<root, history, job, todo, out, before>>
           ELSE /\ nodes' = ns /\ Return(t)
                /\ clean' = (clean /\ ~Overfull(ns[n]))
                /\ UNCHANGED <<root, nextId, scans, removes>>

\* A split node without a hint: it is the root, or another thread is about to tell it.
GrowRoot(t) ==
    /\ pc[t] = "grow" /\ root = split[t].child
    /\ IF ArenaFull
       THEN Return(t) /\ clean' = FALSE /\ UNCHANGED <<tree, nextId, scans, removes>>
       ELSE /\ nodes' = Append(nodes, [EmptyLeaf EXCEPT !.leaf = FALSE, !.keys = <<split[t].sep>>,
                                          !.items = <<split[t].child, split[t].right>>])
            /\ root' = Len(nodes) + 1
            /\ Goto(t, "hintLeft", Len(nodes) + 1)
            /\ UNCHANGED <<history, job, split, todo, out, before>>

\* Nothing but an insert over this very node makes a root of it or gives it a hint.
RereadHint(t) ==
    LET h == nodes[split[t].child].hint
    IN  /\ pc[t] = "grow" /\ root # split[t].child
        /\ Free(split[t].child)
        /\ h # NoNode
        /\ split' = [split EXCEPT ![t].hint = h]
        /\ Goto(t, "climb", h)
        /\ UNCHANGED <<tree, history, job, todo, out, before>>

HintLeft(t) ==
    /\ pc[t] = "hintLeft" /\ Free(split[t].child)
    /\ nodes' = [nodes EXCEPT ![split[t].child].hint = at[t]]
    /\ Goto(t, "hintRight", at[t])
    /\ UNCHANGED <<root, history, job, split, todo, out, before>>

HintRight(t) ==
    /\ pc[t] = "hintRight" /\ Free(split[t].right)
    /\ nodes' = [nodes EXCEPT ![split[t].right].hint = at[t]]
    /\ Return(t)
    /\ UNCHANGED <<root, history>>

\* move_right_to_child_, whose assertion is that there is a node to the right.
Seek(t) ==
    /\ pc[t] = "seek" /\ ~HasChild(nodes[at[t]], split[t].child)
    /\ nodes[at[t]].right # NoNode /\ Free(nodes[at[t]].right)
    /\ at' = [at EXCEPT ![t] = nodes[at[t]].right]
    /\ UNCHANGED <<tree, history, pc, job, split, todo, out, before>>

\* The new node joins its parent and learns of it; a full parent splits in turn.
Splice(t) ==
    LET p  == at[t]
        r  == split[t].right
        ns == SetHints([nodes EXCEPT ![p] = PutChild(nodes[p], split[t].child, split[t].sep, r)], {r}, p)
    IN  /\ pc[t] = "seek" /\ HasChild(nodes[p], split[t].child) /\ Free(r)
        /\ IF Overfull(ns[p]) /\ ~ArenaFull
           THEN /\ nodes' = SplitInternal(ns, p)
                /\ pc' = [pc EXCEPT ![t] = "rehome"] /\ todo' = [todo EXCEPT ![t] = 1]
                /\ UNCHANGED <<root, history, at, job, split, out, before>>
           ELSE /\ nodes' = ns /\ Return(t)
                /\ clean' = (clean /\ ~Overfull(ns[p]))
                /\ UNCHANGED <<root, nextId, scans, removes>>

\* split_internal_ tells the children that moved, one after the other; then the right
\* half goes to the parent of the parent.  The code walks the right half's children without
\* its lock (see NodesAreGuarded).
Rehome(t) ==
    LET p  == at[t]
        r  == nodes[p].right
        c  == nodes[r].items[todo[t]]
        ns == SetHints(nodes, {c}, r)
    IN  /\ pc[t] = "rehome" /\ Free(c)
        /\ IF todo[t] < Len(nodes[r].items)
           THEN nodes' = ns /\ todo' = [todo EXCEPT ![t] = @ + 1] /\ UNCHANGED <<pc, at, split>>
           ELSE Rise(t, ns, p) /\ todo' = [todo EXCEPT ![t] = 0]
        /\ UNCHANGED <<root, history, job, out, before>>

\* One leaf of range(): its matches are copied out under the lock.
ScanLeaf(t) ==
    LET n == nodes[at[t]]
        first == LowerBound(n.keys, job[t].lo)
        past  == {i \in first..Len(n.keys) : n.keys[i] > job[t].hi}
        last  == IF past = {} THEN Len(n.keys) ELSE Min(past) - 1
    IN  /\ AtItsLeaf(t) /\ job[t].type = "scan"
        /\ out' = [out EXCEPT ![t] = @ \o SubSeq([i \in DOMAIN n.keys |-> <<n.keys[i], n.items[i]>>], first, last)]
        /\ IF past # {} \/ n.right = NoNode THEN Goto(t, "answer", NoNode) ELSE Goto(t, "enter", n.right)
        /\ UNCHANGED <<tree, history, job, split, todo, before>>

Answer(t) == pc[t] = "answer" /\ Return(t) /\ UNCHANGED <<tree, history>>

\* remove(), which its callers must keep apart from everything else.
RemovePair(k, id) ==
    LET T == Without(Tree(nodes, root), k, id)
    IN  /\ \A t \in Threads : pc[t] = "idle"
        /\ clean \/ RemoveUnclean
        /\ removes < MaxRemoves /\ removes' = IF T = Tree(nodes, root) THEN removes ELSE removes + 1
        /\ nodes' = T.ns /\ root' = T.root
        /\ UNCHANGED <<thread, clean, nextId, scans>>

Insert(t) == \/ BeginInsert(t) \/ InsertHere(t)
             \/ GrowRoot(t) \/ RereadHint(t) \/ HintLeft(t) \/ HintRight(t)
             \/ Seek(t) \/ Splice(t) \/ Rehome(t)
Scan(t)   == BeginScan(t) \/ ScanLeaf(t) \/ Answer(t)

Next == \/ \E t \in Threads : Insert(t) \/ Scan(t) \/ Enter(t) \/ Walk(t)
        \/ \E k \in Keys, id \in Ids : RemovePair(k, id)

Spec == Init /\ [][Next]_vars

-----------------------------------------------------------------------------
(* Properties. *)

Quiet == \A t \in Threads : pc[t] = "idle"

\* (violated) A node's fields are "guarded by this node's own mutex" (bplus_tree.h:225), but
\* split_internal_ walks the children of its new node without (bplus_tree.cpp:289), while a
\* thread told of it by the first of them may put a child there.  What the walk then reads is
\* freed memory, so a run of TLC goes no further from such a state (CONSTRAINT).
NodesAreGuarded ==
    \A t, u \in Threads : pc[t] = "rehome" /\ pc[u] = "seek" => at[u] # nodes[at[t]].right

\* The tree is the set of pairs inserted and not removed: every insert takes effect in one
\* step, splits, borrows and merges change nothing (bplus_tree.h:34-53).
Set == INSTANCE PairSet WITH pairs <- Pairs
ImplementsPairSet == Set!Spec

\* The leaf a descent for k that nobody disturbs would end at.
LeafFor(k) ==
    LET from[n \in DOMAIN nodes] ==
          IF k > nodes[n].high THEN from[nodes[n].right]
          ELSE IF nodes[n].leaf THEN n ELSE from[ChildFor(nodes[n], k)]
    IN  from[root]

\* In every state between two steps of a split, a search from the root finds every pair:
\* it lands at the leaf of the key or left of it (bplus_tree.h:176-185, 224-231).
NothingIsLost ==
    \A k \in Keys : LET reach == UNION {PairsIn(nodes[n]) : n \in Rightwards(LeafFor(k))}
                    IN  {e \in Pairs : e[1] = k} \subseteq reach

\* What move_right_to_child_ asserts: the parent of a node is where its hint says, or
\* to the right of there, whoever split that parent since (bplus_tree.h:88-95).
HintsLeadToParents ==
    /\ \A q \in InTree : ~nodes[q].leaf =>
          \A n \in ToSet(nodes[q].items) : nodes[n].hint # NoNode => q \in Rightwards(nodes[n].hint)
    /\ \A t \in Threads : pc[t] = "seek" =>
          \E p \in Rightwards(at[t]) : HasChild(nodes[p], split[t].child)

\* A range scan returns each pair that was there all along exactly once, in key order,
\* and none that was never there, beside any inserts (bplus_tree.h:130-134).
ScansAreExact ==
    \A t \in Threads : pc[t] = "answer" =>
       LET within == {e \in Pairs : job[t].lo <= e[1] /\ e[1] <= job[t].hi}
       IN  /\ IsInjective(out[t])
           /\ \A i, j \in DOMAIN out[t] : i < j => out[t][i][1] <= out[t][j][1]
           /\ before[t] \cap within \subseteq ToSet(out[t]) /\ ToSet(out[t]) \subseteq within

\* "Removes the one entry matching both key and id exactly" (bplus_tree.h:119-122), also
\* where duplicates fill several leaves, and nothing when there is none.
RemovesExactlyOne ==
    Quiet /\ (clean \/ RemoveUnclean) =>
       \A e \in Keys \X Ids : PairsOf(Without(Tree(nodes, root), e[1], e[2])) = Pairs \ {e}

\* With nobody inside, a tree that saw no overlapping inserts is a balanced search tree:
\* the nodes of a level are linked in order, bounded by their separators, half full.
Children(level) == FlattenSeq([i \in DOMAIN level |-> nodes[level[i]].items])
LinkedInOrder(level) ==
    \A i \in DOMAIN level : nodes[level[i]].right = IF i = Len(level) THEN NoNode ELSE level[i + 1]
BoundedBy(p) == \A i \in DOMAIN nodes[p].items : LET c == nodes[nodes[p].items[i]] IN
    /\ c.hint # NoNode
    /\ c.high = IF i = Len(nodes[p].items) THEN nodes[p].high ELSE nodes[p].keys[i]
    /\ \A x \in ToSet(c.keys) : /\ x <= c.high
                                /\ i > 1 => nodes[p].keys[i - 1] <= x
    /\ Len(c.keys) \in MinKeys..Capacity
WellFormed ==
    LET ok[d \in 0..Len(nodes), level \in Seq(DOMAIN nodes)] ==
          /\ LinkedInOrder(level)
          /\ \A i, j \in DOMAIN level : nodes[level[i]].leaf = nodes[level[j]].leaf
          /\ ~nodes[Head(level)].leaf =>
                /\ \A i \in DOMAIN level : BoundedBy(level[i])
                /\ d > 0 /\ ok[d - 1, Children(level)]
    IN  clean /\ Quiet => /\ nodes[root].high = Unbounded /\ nodes[root].hint = NoNode
                          /\ ok[Len(nodes), <<root>>]
=============================================================================
