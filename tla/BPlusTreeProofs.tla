--------------------------- MODULE BPlusTreeProofs --------------------------
(***************************************************************************)
(* Theorems about BPlusTree, for any threads, keys, capacity and arena     *)
(* size, as long as nothing is removed:                                    *)
(*                                                                         *)
(*   TreeInvHolds      the inductive invariant                             *)
(*   TypesAreKept      TypeOK                                              *)
(*   HintsAlwaysLead   HintsLeadToParents                                  *)
(*   TreeIsASet        ImplementsPairSet                                   *)
(*   OrderInvHolds     the order of the leaves, and the scans              *)
(*   NothingGetsLost   NothingIsLost                                       *)
(*   ScansReturnAll    ScansAreExact                                       *)
(*                                                                         *)
(* They assume NodesAreGuarded, like the run of TLC: where a thread walks  *)
(* children another one is moving, what it reads is not defined.           *)
(*                                                                         *)
(* What happens to the arena (BPlusTreeArenaProofs) is seen as steps of    *)
(* one thread among others.  What the order is for comes last: searches    *)
(* and scans.                                                              *)
(***************************************************************************)
EXTENDS BPlusTreeArenaProofs

(* What a step of thread t leaves to prove, when all it does to the arena is a Change. *)

\* The types of the threads' state are kept, and only thread t moves.
Moves(t) ==
    /\ pc' \in [Threads -> Phases] /\ at' \in [Threads -> Nat] /\ job' \in [Threads -> Jobs]
    /\ split' \in [Threads -> Splits] /\ todo' \in [Threads -> Nat]
    /\ \A u \in Threads \ {t} : /\ pc'[u] = pc[u] /\ at'[u] = at[u] /\ job'[u] = job[u]
                                /\ split'[u] = split[u] /\ todo'[u] = todo[u]

\* Nobody else is telling the children of node n, or of the node n is the right half of.
Undisturbed(t, n) ==
    \A u \in Threads \ {t} : pc[u] = "rehome" => at[u] # n /\ nodes[at[u]].right # n

\* Thread t moves and makes a change to node n, by which the nodes S become children.
Steps(t, n, S) == Moves(t) /\ Change(nodes, nodes', n, S) /\ Undisturbed(t, n)

\* A thread's invariant, and the nodes it knows are in the arena.
LEMMA ThreadIs ==
    ASSUME ShapeInv, NEW u \in Threads
    PROVE  /\ ThreadInv(u) /\ RehomeInv(u)
           /\ pc[u] \in Placed => at[u] \in DOMAIN nodes
           /\ pc[u] \in HasSplit => split[u].child \in DOMAIN nodes /\ split[u].right \in DOMAIN nodes
           /\ pc[u] = "rehome" => nodes[at[u]].right \in DOMAIN nodes
<1>1. ThreadInv(u) /\ RehomeInv(u) /\ ArenaInv(nodes)
  BY DEF ShapeInv
<1>2. DOMAIN nodes = 1..Len(nodes) /\ Len(nodes) \in Nat /\ Linked(nodes)
  BY <1>1, ArenaIs
<1>3. pc[u] \in Placed => at[u] \in DOMAIN nodes
  BY <1>1, <1>2 DEF ThreadInv, NoNode
<1>4. pc[u] \in HasSplit => split[u].child \in DOMAIN nodes /\ split[u].right \in DOMAIN nodes
  BY <1>1, <1>2 DEF ThreadInv, NoNode
<1>5. pc[u] = "rehome" => nodes[at[u]].right \in DOMAIN nodes
  BY <1>1, <1>2, <1>3 DEF RehomeInv, Placed, Holding, Linked, NoNode
<1> QED BY <1>1, <1>3, <1>4, <1>5

(* A half belongs to the arena, and another thread's stays the same. *)
LEMMA HalfIs ==
    ASSUME ShapeInv, NEW u \in Threads, pc[u] \in WithHalf
    PROVE  Half(u) \in DOMAIN nodes
BY ThreadIs DEF Half, WithHalf, Untold, HasSplit

\* A step of thread t leaves the other threads' halves alone.
LEMMA HalfStays ==
    ASSUME ShapeInv, NEW t \in Threads, NEW n, NEW S, Steps(t, n, S), NEW u \in Threads, u # t, pc[u] \in WithHalf
    PROVE  pc'[u] \in WithHalf /\ Half(u)' = Half(u)
<1>1. pc'[u] = pc[u] /\ at'[u] = at[u] /\ split'[u] = split[u]
  BY DEF Steps, Moves
<1>2. CASE pc[u] = "rehome"
  <2>1. at[u] \in DOMAIN nodes /\ at[u] # n
    BY <1>2, ThreadIs DEF Placed, Holding, Steps, Undisturbed
  <2>2. nodes'[at[u]].right = nodes[at[u]].right
    BY <2>1 DEF Steps, Change, Others
  <2> QED BY <1>1, <1>2, <2>2 DEF Half
<1>3. CASE pc[u] # "rehome"
  BY <1>1, <1>3 DEF Half
<1> QED BY <1>2, <1>3

\* The arena and the other threads keep their shape: what is left is thread t.
LEMMA ShapeStep ==
    ASSUME ShapeInv, NEW t \in Threads, NEW n, NEW S, Steps(t, n, S), root' \in DOMAIN nodes',
           nextId' \in Nat \ {0}, scans' \in Nat, removes' \in Nat, ThreadInv(t)', RehomeInv(t)'
    PROVE  ShapeInv'
<1>1. ArenaInv(nodes') /\ Len(nodes') >= Len(nodes) /\ Len(nodes) \in Nat /\ Len(nodes') \in Nat
  BY ArenaIs DEF Steps, Change, Good, ShapeInv
<1>2. ASSUME NEW u \in Threads, u # t PROVE ThreadInv(u)' /\ RehomeInv(u)'
  <2>1. /\ pc'[u] = pc[u] /\ at'[u] = at[u] /\ job'[u] = job[u]
        /\ split'[u] = split[u] /\ todo'[u] = todo[u]
    BY <1>2 DEF Steps, Moves
  <2>2. ThreadInv(u) /\ RehomeInv(u)
    BY ThreadIs
  <2>3. ThreadInv(u)'
    <3>1. \A x : x \in 0..Len(nodes) => x \in 0..Len(nodes')
      BY <1>1
    <3> QED BY <2>1, <2>2, <3>1 DEF ThreadInv
  <2>4. RehomeInv(u)'
    <3> SUFFICES ASSUME pc[u] = "rehome" PROVE RehomeInv(u)'
      BY <2>1 DEF RehomeInv
    <3>1. at[u] \in DOMAIN nodes /\ nodes[at[u]].right \in DOMAIN nodes
      BY ThreadIs DEF Placed, Holding
    <3>2. at[u] # n /\ nodes[at[u]].right # n
      BY <1>2 DEF Steps, Undisturbed
    <3>3. /\ nodes'[at[u]].leaf = nodes[at[u]].leaf /\ nodes'[at[u]].high = nodes[at[u]].high
          /\ nodes'[at[u]].right = nodes[at[u]].right
          /\ nodes'[nodes[at[u]].right].leaf = nodes[nodes[at[u]].right].leaf
          /\ nodes'[nodes[at[u]].right].items = nodes[nodes[at[u]].right].items
      BY <3>1, <3>2 DEF Steps, Change, Others
    <3> QED BY <2>1, <2>2, <3>3 DEF RehomeInv
  <2> QED BY <2>3, <2>4
<1>3. \A u \in Threads : ThreadInv(u)' /\ RehomeInv(u)'
  BY <1>2
<1>4. /\ pc' \in [Threads -> Phases] /\ at' \in [Threads -> Nat] /\ job' \in [Threads -> Jobs]
      /\ split' \in [Threads -> Splits] /\ todo' \in [Threads -> Nat]
  BY DEF Steps, Moves
<1> QED BY <1>1, <1>3, <1>4 DEF ShapeInv

\* No two threads hold a lock if t takes none that is held.
LEMMA LockStep ==
    ASSUME ShapeInv, LockInv, NEW t \in Threads, NEW n, NEW S, Steps(t, n, S),
           pc'[t] \in Holding => \A u \in Threads \ {t} : pc[u] \in Holding => at'[t] # at[u],
           pc'[t] = "rehome" => \A u \in Threads \ {t} :
               pc[u] = "rehome" => at[u] # nodes'[at'[t]].right /\ at'[t] # nodes[at[u]].right
    PROVE  LockInv'
<1>1. \A u \in Threads \ {t} : pc'[u] = pc[u] /\ at'[u] = at[u]
  BY DEF Steps, Moves
<1>2. \A u \in Threads \ {t} : pc[u] = "rehome" => nodes'[at[u]].right = nodes[at[u]].right
  <2> SUFFICES ASSUME NEW u \in Threads \ {t}, pc[u] = "rehome" PROVE nodes'[at[u]].right = nodes[at[u]].right
    OBVIOUS
  <2>1. at[u] \in DOMAIN nodes /\ at[u] # n
    BY ThreadIs DEF Placed, Holding, Steps, Undisturbed
  <2> QED BY <2>1 DEF Steps, Change, Others
<1>3. ASSUME NEW u \in Threads, NEW v \in Threads, u # v, pc'[u] \in Holding, pc'[v] \in Holding PROVE at'[u] # at'[v]
  BY <1>1, <1>3 DEF LockInv
<1>4. ASSUME NEW u \in Threads, NEW v \in Threads, u # v, pc'[u] = "rehome", pc'[v] = "rehome" PROVE at'[v] # nodes'[at'[u]].right
  <2>1. CASE u = t
    BY <1>1, <1>4, <2>1
  <2>2. CASE v = t
    BY <1>1, <1>2, <1>4, <2>2
  <2>3. CASE u # t /\ v # t
    BY <1>1, <1>2, <1>4, <2>3 DEF LockInv
  <2> QED BY <2>1, <2>2, <2>3
<1> QED BY <1>3, <1>4 DEF LockInv

\* Levels are kept if the two halves of a split stay on one level.
LEMMA LevelStep ==
    ASSUME ShapeInv, LevelInv, NEW t \in Threads, NEW n, NEW S, Steps(t, n, S),
           \A level : IsLevel(nodes, level) /\ (pc[t] \in Untold => level[split[t].child] = level[split[t].right])
                         => Leveled(nodes, nodes', level),
           pc'[t] \in Untold =>
              \/ /\ pc[t] \in Untold /\ split'[t].child = split[t].child /\ split'[t].right = split[t].right
              \/ /\ split'[t].child \in DOMAIN nodes' /\ split'[t].right # NoNode
                 /\ split'[t].right = nodes'[split'[t].child].right
    PROVE  LevelInv'
<1>1. PICK level : /\ IsLevel(nodes, level)
                   /\ \A u \in Threads : pc[u] \in Untold => level[split[u].child] = level[split[u].right]
  BY DEF LevelInv
<1>2. PICK l : IsLevel(nodes', l) /\ \A x \in DOMAIN nodes : l[x] = level[x]
  BY <1>1 DEF Leveled
<1>3. \A u \in Threads : pc[u] \in Untold => l[split[u].child] = l[split[u].right]
  BY <1>1, <1>2, ThreadIs DEF Untold, HasSplit
<1>4. \A u \in Threads \ {t} : pc'[u] = pc[u] /\ split'[u] = split[u]
  BY DEF Steps, Moves
<1>5. pc'[t] \in Untold => l[split'[t].child] = l[split'[t].right]
  BY <1>2, <1>3 DEF IsLevel
<1>6. \A u \in Threads : pc'[u] \in Untold => l[split'[u].child] = l[split'[u].right]
  BY <1>3, <1>4, <1>5
<1> QED BY <1>2, <1>6 DEF LevelInv

\* No other thread has t's new half.
Untaken(t) == \A u \in Threads \ {t} : pc[u] \in WithHalf => Half(u) # Half(t)'

\* Parents and hints are right if those of thread t are.
LEMMA FamilyStep ==
    ASSUME ShapeInv, FamilyInv, NEW t \in Threads, NEW n, NEW S, Steps(t, n, S), ~IsChild(nodes', root'),
           \A u \in Threads \ {t} : pc[u] \in WithHalf => Half(u) \notin S /\ Half(u) # root',
           pc'[t] \in WithHalf => ~IsChild(nodes', Half(t)') /\ Half(t)' # root' /\ Untaken(t),
           pc'[t] \in {"climb", "seek", "hintLeft", "hintRight"} => Below(nodes', at'[t], split'[t].child),
           pc'[t] \in {"hintLeft", "hintRight"} => Below(nodes', at'[t], split'[t].right)
    PROVE  FamilyInv'
<1>1. OneParent(nodes') /\ HintsFit(nodes')
  BY DEF Steps, Change, Good
<1>2. \A u \in Threads \ {t} : pc'[u] = pc[u] /\ at'[u] = at[u] /\ split'[u] = split[u]
  BY DEF Steps, Moves
<1>3. ASSUME NEW u \in Threads, u # t, pc'[u] \in WithHalf PROVE pc[u] \in WithHalf /\ Half(u)' = Half(u)
  BY <1>2, <1>3, HalfStays
<1>4. ASSUME NEW u \in Threads, pc'[u] \in WithHalf PROVE ~IsChild(nodes', Half(u)') /\ Half(u)' # root'
  <2>1. CASE u = t
    BY <1>4, <2>1
  <2>2. CASE u # t
    <3>1. pc[u] \in WithHalf /\ Half(u)' = Half(u)
      BY <1>3, <1>4, <2>2
    <3>2. ~IsChild(nodes, Half(u)) /\ Half(u) \notin S /\ Half(u) # root'
      BY <2>2, <3>1 DEF FamilyInv
    <3>3. ~IsChild(nodes', Half(u))
      BY <3>2 DEF Steps, Change
    <3> QED BY <3>1, <3>2, <3>3
  <2> QED BY <2>1, <2>2
<1>5. ASSUME NEW u \in Threads, u # t,
             pc'[u] \in {"climb", "seek", "hintLeft", "hintRight"}
      PROVE  /\ Below(nodes', at'[u], split'[u].child)
             /\ pc'[u] \in {"hintLeft", "hintRight"} => Below(nodes', at'[u], split'[u].right)
  <2>1. at[u] \in DOMAIN nodes
    BY <1>2, <1>5, ThreadIs DEF Placed, Holding
  <2>2. /\ Below(nodes, at[u], split[u].child)
        /\ pc[u] \in {"hintLeft", "hintRight"} => Below(nodes, at[u], split[u].right)
    BY <1>2, <1>5 DEF FamilyInv
  <2>3. \A c : Below(nodes, at[u], c) => Below(nodes', at[u], c)
    BY <2>1 DEF Steps, Change, Keeps
  <2> QED BY <1>2, <1>5, <2>2, <2>3
<1>6. ASSUME NEW u \in Threads, NEW v \in Threads, u # v, pc'[u] \in WithHalf, pc'[v] \in WithHalf PROVE Half(u)' # Half(v)'
  <2>1. CASE u = t
    <3>1. pc[v] \in WithHalf /\ Half(v)' = Half(v)
      BY <1>3, <1>6, <2>1
    <3> QED BY <1>6, <2>1, <3>1 DEF Untaken
  <2>2. CASE v = t
    <3>1. pc[u] \in WithHalf /\ Half(u)' = Half(u)
      BY <1>3, <1>6, <2>2
    <3> QED BY <1>6, <2>2, <3>1 DEF Untaken
  <2>3. CASE u # t /\ v # t
    <3>1. pc[u] \in WithHalf /\ Half(u)' = Half(u) /\ pc[v] \in WithHalf /\ Half(v)' = Half(v)
      BY <1>3, <1>6, <2>3
    <3> QED BY <1>6, <3>1 DEF FamilyInv
  <2> QED BY <2>1, <2>2, <2>3
<1>7. \A u \in Threads :
         /\ pc'[u] \in {"climb", "seek", "hintLeft", "hintRight"} => Below(nodes', at'[u], split'[u].child)
         /\ pc'[u] \in {"hintLeft", "hintRight"} => Below(nodes', at'[u], split'[u].right)
  BY <1>5
<1> QED BY <1>1, <1>4, <1>6, <1>7 DEF FamilyInv

(* The root, and what others split, stay out of the way of a step that places its own half. *)
LEMMA Aside ==
    ASSUME ShapeInv, FamilyInv, NEW t \in Threads, NEW n, NEW S, Steps(t, n, S), root' = root,
           S = {} \/ (pc[t] \in WithHalf /\ S = {Half(t)})
    PROVE  /\ ~IsChild(nodes', root')
           /\ \A u \in Threads \ {t} : pc[u] \in WithHalf => Half(u) \notin S /\ Half(u) # root'
<1>1. root \notin S /\ ~IsChild(nodes, root)
  BY DEF FamilyInv
<1>2. ~IsChild(nodes', root')
  BY <1>1 DEF Steps, Change
<1>3. \A u \in Threads \ {t} : pc[u] \in WithHalf => Half(u) \notin S /\ Half(u) # root'
  BY DEF FamilyInv
<1> QED BY <1>2, <1>3

\* The first nodes stay first if the new root, if there is one, has nothing to its left.
LEMMA FirstStep ==
    ASSUME ShapeInv, FirstInv, NEW t, NEW n, NEW S, Steps(t, n, S), root' = root \/ root' \notin Rights(nodes')
    PROVE  FirstInv'
<1>1. FirstIn(nodes')
  BY DEF Steps, Change, Good
<1>2. RightsKept(nodes, nodes') /\ root \in DOMAIN nodes /\ root \notin Rights(nodes)
  BY DEF Steps, Change, ShapeInv, FirstInv
<1>3. root' \notin Rights(nodes')
  BY <1>2 DEF RightsKept
<1> QED BY <1>1, <1>3 DEF FirstInv, FirstIn, Rightwards

\* The pairs the leaves hold are keys with row ids.
LEMMA HeldTyped ==
    ASSUME NEW ns, ArenaInv(ns), NEW e \in Held(ns)
    PROVE  e \in Keys \X Ids
<1>0. PICK n \in DOMAIN ns : ns[n].leaf /\ \E i \in DOMAIN ns[n].keys : e = <<ns[n].keys[i], ns[n].items[i]>>
  BY HeldIs
<1>1. PICK i \in DOMAIN ns[n].keys : ns[n].leaf /\ e = <<ns[n].keys[i], ns[n].items[i]>>
  BY <1>0
<1>2. ns[n] \in Node /\ NodeInv(ns, n)
  BY ArenaIs
<1>3. PICK L \in Nat : L = Len(ns[n].keys) /\ DOMAIN ns[n].keys = 1..L /\ Len(ns[n].items) = L
  BY <1>1, LeafIs
<1>4. DOMAIN ns[n].items = 1..L /\ ns[n].keys \in Seq(Keys)
  BY <1>2, <1>3, NodeIs
<1>5. ns[n].items[i] \in Ids
  BY <1>1, <1>2, <1>3, <1>4 DEF NodeInv
<1> QED BY <1>1, <1>4, <1>5

\* The ids a leaf may have once the step is done.
LEMMA FreshStep ==
    ASSUME ShapeInv, FreshInv, NEW t \in Threads, NEW n, NEW S, Steps(t, n, S), NEW D, Held(nodes') = Held(nodes) \cup D,
           nextId' \in {nextId, nextId + 1},
           \A e \in D : e[2] < nextId' /\ \A u \in Threads \ {t} : Adding(u) => job[u].id # e[2],
           Adding(t)' => /\ job'[t].id < nextId' /\ \A e \in Held(nodes') : e[2] # job'[t].id
                         /\ \A u \in Threads \ {t} : Adding(u) => job[u].id # job'[t].id
    PROVE  FreshInv'
<1>1. \A u \in Threads \ {t} : pc'[u] = pc[u] /\ job'[u] = job[u]
  BY DEF Steps, Moves
<1>2. \A u \in Threads \ {t} : Adding(u)' <=> Adding(u)
  BY <1>1 DEF Adding
<1>3. nextId \in Nat /\ ArenaInv(nodes) /\ job \in [Threads -> Jobs]
  BY DEF ShapeInv
<1>4. \A x \in Nat : x < nextId => x < nextId'
  BY <1>3
<1>5. ASSUME NEW e \in Held(nodes') PROVE e[2] < nextId'
  <2>1. CASE e \in Held(nodes)
    <3>1. e[2] \in Nat
      BY <1>3, <2>1, HeldTyped DEF Ids
    <3> QED BY <1>4, <2>1, <3>1 DEF FreshInv
  <2>2. CASE e \in D
    BY <2>2
  <2> QED BY <2>1, <2>2
<1>6. ASSUME NEW u \in Threads, Adding(u)' PROVE job'[u].id < nextId' /\ \A e \in Held(nodes') : e[2] # job'[u].id
  <2>1. CASE u = t
    BY <1>6, <2>1
  <2>2. CASE u # t
    <3>1. Adding(u) /\ job'[u] = job[u]
      BY <1>1, <1>2, <1>6, <2>2
    <3>2. job[u].id \in Nat
      BY <1>3 DEF Jobs
    <3>3. job[u].id < nextId /\ \A e \in Held(nodes) : e[2] # job[u].id
      BY <3>1 DEF FreshInv
    <3>4. \A e \in D : e[2] # job[u].id
      BY <2>2, <3>1
    <3> QED BY <1>4, <3>1, <3>2, <3>3, <3>4
  <2> QED BY <2>1, <2>2
<1>7. ASSUME NEW u \in Threads, NEW v \in Threads, u # v, Adding(u)', Adding(v)' PROVE job'[u].id # job'[v].id
  <2>1. CASE u = t
    BY <1>1, <1>2, <1>7, <2>1
  <2>2. CASE v = t
    BY <1>1, <1>2, <1>7, <2>2
  <2>3. CASE u # t /\ v # t
    <3>1. Adding(u) /\ Adding(v) /\ job'[u] = job[u] /\ job'[v] = job[v]
      BY <1>1, <1>2, <1>7, <2>3
    <3> QED BY <1>7, <3>1 DEF FreshInv
  <2> QED BY <2>1, <2>2, <2>3
<1> QED BY <1>5, <1>6, <1>7 DEF FreshInv

(* The steps that leave the arena alone. *)

\* The parts of the invariant.
LEMMA TreeIs ==
    ASSUME TreeInv
    PROVE  /\ ShapeInv /\ LockInv /\ LevelInv /\ FamilyInv /\ FirstInv /\ FreshInv
           /\ Good(nodes) /\ ArenaInv(nodes) /\ Len(nodes) \in Nat /\ DOMAIN nodes = 1..Len(nodes)
           /\ root \in DOMAIN nodes /\ nextId \in Nat \ {0} /\ scans \in Nat /\ removes \in Nat
<1>1. ShapeInv /\ LockInv /\ LevelInv /\ FamilyInv /\ FirstInv /\ FreshInv
  BY DEF TreeInv
<1>2. ArenaInv(nodes) /\ root \in DOMAIN nodes /\ nextId \in Nat \ {0} /\ scans \in Nat /\ removes \in Nat
  BY <1>1 DEF ShapeInv
<1>3. FirstIn(nodes)
  BY <1>1 DEF FirstInv, FirstIn, Rightwards
<1>4. Good(nodes)
  BY <1>1, <1>2, <1>3 DEF Good, FamilyInv
<1> QED BY <1>1, <1>2, <1>4, ArenaIs

\* To leave the arena as it is is a change.
LEMMA StillChange ==
    ASSUME NEW ns, Good(ns), NEW n
    PROVE  Change(ns, ns, n, {}) /\ \A level : IsLevel(ns, level) => Leveled(ns, ns, level)
<1>1. Len(ns) \in Nat
  BY ArenaIs DEF Good
<1>2. Keeps(ns, ns) /\ RightsKept(ns, ns) /\ Others(ns, ns, n)
  BY DEF Keeps, RightsKept, Others
<1>3. \A level : IsLevel(ns, level) => Leveled(ns, ns, level)
  BY DEF Leveled
<1> QED BY <1>1, <1>2, <1>3 DEF Change

\* Where a step may take thread t that touches neither the arena nor the root.
Settles(t) ==
    /\ ThreadInv(t)' /\ pc'[t] \notin {"rehome", "hintLeft", "hintRight"}
    /\ pc'[t] \in Holding => \A u \in Threads \ {t} : pc[u] \in Holding => at'[t] # at[u]
    /\ pc'[t] \in Untold => pc[t] \in Untold /\ split'[t].child = split[t].child /\ split'[t].right = split[t].right
    /\ pc'[t] \in {"climb", "seek"} => Below(nodes, at'[t], split'[t].child)
    /\ Adding(t)' => \/ Adding(t) /\ job'[t] = job[t]
                     \/ job'[t].id = nextId /\ nextId' = nextId + 1

\* Such a step keeps the invariant.
LEMMA StillStep ==
    ASSUME TreeInv, NEW t \in Threads, Moves(t), Settles(t), nodes' = nodes, root' = root,
           nextId' \in {nextId, nextId + 1}, scans' \in Nat, removes' = removes
    PROVE  TreeInv'
<1>1. /\ ShapeInv /\ LockInv /\ LevelInv /\ FamilyInv /\ FirstInv /\ FreshInv
      /\ Good(nodes) /\ ArenaInv(nodes) /\ Len(nodes) \in Nat /\ DOMAIN nodes = 1..Len(nodes)
      /\ root \in DOMAIN nodes /\ nextId \in Nat \ {0} /\ scans \in Nat /\ removes \in Nat
  BY TreeIs
<1>2. Change(nodes, nodes', NoNode, {}) /\ \A level : IsLevel(nodes, level) => Leveled(nodes, nodes', level)
  BY <1>1, StillChange
<1>3. Undisturbed(t, NoNode)
  <2>1. NoNode \notin DOMAIN nodes
    BY <1>1 DEF NoNode
  <2> QED BY <1>1, <2>1, ThreadIs DEF Undisturbed, Placed, Holding
<1>4. Steps(t, NoNode, {})
  BY <1>2, <1>3 DEF Steps
<1>5. ShapeInv'
  <2>1. RehomeInv(t)'
    BY DEF RehomeInv, Settles
  <2>2. root' \in DOMAIN nodes' /\ nextId' \in Nat \ {0} /\ removes' \in Nat /\ ThreadInv(t)'
    BY <1>1 DEF Settles
  <2> QED BY <1>1, <1>4, <2>1, <2>2, ShapeStep
<1>6. LockInv'
  BY <1>1, <1>4, LockStep DEF Settles
<1>7. LevelInv'
  <2>1. \A level : IsLevel(nodes, level) /\ (pc[t] \in Untold => level[split[t].child] = level[split[t].right])
                         => Leveled(nodes, nodes', level)
    BY <1>2
  <2>2. pc'[t] \in Untold => pc[t] \in Untold /\ split'[t].child = split[t].child /\ split'[t].right = split[t].right
    BY DEF Settles
  <2> QED BY <1>1, <1>4, <2>1, <2>2, LevelStep
<1>8. FamilyInv'
  <2>1. /\ ~IsChild(nodes', root')
        /\ \A u \in Threads \ {t} : pc[u] \in WithHalf => Half(u) \notin {} /\ Half(u) # root'
    BY <1>1, <1>4, Aside
  <2>2. pc'[t] \in WithHalf => ~IsChild(nodes', Half(t)') /\ Half(t)' # root' /\ Untaken(t)
    <3> SUFFICES ASSUME pc'[t] \in WithHalf PROVE ~IsChild(nodes', Half(t)') /\ Half(t)' # root' /\ Untaken(t)
      OBVIOUS
    <3>1. pc'[t] \in Untold /\ pc'[t] # "rehome"
      BY DEF WithHalf, Settles
    <3>2. pc[t] \in WithHalf /\ pc[t] # "rehome" /\ Half(t)' = split[t].right
      BY <3>1 DEF Settles, Half, WithHalf, Untold
    <3>3. Half(t)' = Half(t)
      BY <3>2 DEF Half
    <3> QED BY <1>1, <3>2, <3>3 DEF FamilyInv, Untaken
  <2>3. pc'[t] \in {"climb", "seek", "hintLeft", "hintRight"} => Below(nodes', at'[t], split'[t].child)
    BY DEF Settles
  <2>4. pc'[t] \in {"hintLeft", "hintRight"} => Below(nodes', at'[t], split'[t].right)
    BY DEF Settles
  <2> QED BY <1>1, <1>4, <2>1, <2>2, <2>3, <2>4, FamilyStep
<1>9. FirstInv'
  BY <1>1, <1>4, FirstStep
<1>10. FreshInv'
  <2>1. Held(nodes') = Held(nodes) \cup {}
    OBVIOUS
  <2>2. Adding(t)' => /\ job'[t].id < nextId' /\ \A e \in Held(nodes') : e[2] # job'[t].id
                      /\ \A u \in Threads \ {t} : Adding(u) => job[u].id # job'[t].id
    <3>1. CASE Adding(t) /\ job'[t] = job[t]
      <4>1. job[t].id \in Nat /\ job[t].id < nextId
        BY <1>1, <3>1 DEF ShapeInv, Jobs, FreshInv
      <4>2. job[t].id < nextId'
        BY <1>1, <4>1
      <4> QED BY <1>1, <3>1, <4>2 DEF FreshInv
    <3>2. CASE job'[t].id = nextId /\ nextId' = nextId + 1
      <4>1. job'[t].id < nextId'
        BY <1>1, <3>2
      <4>2. ASSUME NEW e \in Held(nodes) PROVE e[2] # nextId
        <5>1. e[2] \in Nat
          BY <1>1, HeldTyped DEF Ids
        <5> QED BY <1>1, <5>1 DEF FreshInv
      <4>3. ASSUME NEW u \in Threads, Adding(u) PROVE job[u].id # nextId
        <5>1. job[u].id \in Nat /\ job[u].id < nextId
          BY <1>1, <4>3 DEF ShapeInv, Jobs, FreshInv
        <5> QED BY <1>1, <5>1
      <4> QED BY <3>2, <4>1, <4>2, <4>3
    <3> QED BY <3>1, <3>2 DEF Settles
  <2> QED BY <1>1, <1>4, <2>1, <2>2, FreshStep
<1> QED BY <1>5, <1>6, <1>7, <1>8, <1>9, <1>10 DEF TreeInv

\* The types of the threads' state.
LEMMA TypesOf ==
    ASSUME ShapeInv
    PROVE  /\ pc \in [Threads -> Phases] /\ at \in [Threads -> Nat] /\ job \in [Threads -> Jobs]
           /\ split \in [Threads -> Splits] /\ todo \in [Threads -> Nat]
BY DEF ShapeInv

\* A return leaves a thread idle.
LEMMA ReturnIs ==
    ASSUME ShapeInv, NEW t \in Threads, Return(t), Len(nodes') \in Nat
    PROVE  Moves(t) /\ ThreadInv(t)' /\ RehomeInv(t)' /\ pc'[t] = "idle"
<1>1. /\ pc' = [pc EXCEPT ![t] = "idle"] /\ at' = [at EXCEPT ![t] = NoNode]
      /\ job' = [job EXCEPT ![t] = NoJob] /\ split' = [split EXCEPT ![t] = NoSplit]
      /\ todo' = [todo EXCEPT ![t] = 0]
  BY DEF Return, Goto
<1>2. NoJob \in Jobs /\ NoSplit \in Splits /\ NoNode \in Nat /\ "idle" \in Phases /\ NoJob.type = "none"
      /\ {NoSplit.child, NoSplit.right, NoSplit.hint} \subseteq {0} /\ NoNode = 0
  BY DEF NoJob, Jobs, NoSplit, Splits, NoNode, Phases
<1>3. Moves(t)
  BY <1>1, <1>2, TypesOf DEF Moves
<1>4. pc'[t] = "idle" /\ at'[t] = NoNode /\ job'[t] = NoJob /\ split'[t] = NoSplit
  BY <1>1, TypesOf
<1>5. 0 \in 0..Len(nodes')
  OBVIOUS
<1>6. ThreadInv(t)'
  BY <1>2, <1>4, <1>5 DEF ThreadInv, Placed, Holding, HasSplit
<1>7. RehomeInv(t)'
  BY <1>4 DEF RehomeInv
<1> QED BY <1>3, <1>4, <1>6, <1>7

\* Where only the phase and the place of a thread change.
LEMMA GoIs ==
    ASSUME ShapeInv, NEW t \in Threads, NEW p \in Phases, NEW n \in Nat, Goto(t, p, n), UNCHANGED <<job, split, todo>>
    PROVE  Moves(t) /\ pc'[t] = p /\ at'[t] = n /\ job'[t] = job[t] /\ split'[t] = split[t] /\ todo'[t] = todo[t]
BY TypesOf DEF Moves, Goto

\* The start of an insert, which takes an id nobody has.
LEMMA BeginInsertStep ==
    ASSUME TreeInv, NEW t \in Threads, BeginInsert(t)
    PROVE  TreeInv'
<1>1. /\ ShapeInv /\ Len(nodes) \in Nat /\ DOMAIN nodes = 1..Len(nodes)
      /\ root \in DOMAIN nodes /\ nextId \in Nat \ {0} /\ scans \in Nat
  BY TreeIs
<1>2. PICK k \in Keys : job' = [job EXCEPT ![t] = [type |-> "insert", lo |-> k, hi |-> k, id |-> nextId]]
  BY DEF BeginInsert
<1> DEFINE j == [type |-> "insert", lo |-> k, hi |-> k, id |-> nextId]
<1>3. j \in Jobs /\ j.type = "insert" /\ j.lo = k /\ j.id = nextId
  BY <1>1, KeysAre DEF Jobs
<1>4. job' = [job EXCEPT ![t] = j]
  BY <1>2
<1> HIDE DEF j
<1>5. /\ pc' = [pc EXCEPT ![t] = "enter"] /\ at' = [at EXCEPT ![t] = root] /\ nextId' = nextId + 1
      /\ nodes' = nodes /\ root' = root /\ scans' = scans /\ removes' = removes /\ split' = split /\ todo' = todo
  BY DEF BeginInsert, Goto, tree
<1>6. Moves(t) /\ pc'[t] = "enter" /\ at'[t] = root /\ job'[t] = j /\ split'[t] = split[t]
  <2>1. "enter" \in Phases /\ root \in Nat
    BY <1>1 DEF Phases
  <2> QED BY <1>1, <1>3, <1>4, <1>5, <2>1, TypesOf DEF Moves
<1>7. nextId \in Ids
  <2>1. nextId + scans <= MaxCalls /\ MaxCalls \in Nat
    BY TreeAssumption DEF BeginInsert, MayBegin
  <2> QED BY <1>1, <2>1 DEF Ids
<1>8. ThreadInv(t)'
  <2>1. ThreadInv(t)
    BY <1>1, ThreadIs
  <2>2. root \in 0..Len(nodes') /\ root # NoNode
    BY <1>1, <1>5 DEF NoNode
  <2> QED BY <1>3, <1>5, <1>6, <1>7, <2>1, <2>2 DEF ThreadInv, HasSplit
<1>9. Settles(t)
  BY <1>3, <1>5, <1>6, <1>8 DEF Settles, Holding, Untold
<1> QED BY <1>1, <1>5, <1>6, <1>9, StillStep

\* The start of a scan.
LEMMA BeginScanStep ==
    ASSUME TreeInv, NEW t \in Threads, BeginScan(t)
    PROVE  TreeInv'
<1>1. /\ ShapeInv /\ Len(nodes) \in Nat /\ DOMAIN nodes = 1..Len(nodes)
      /\ root \in DOMAIN nodes /\ nextId \in Nat \ {0} /\ scans \in Nat
  BY TreeIs
<1>2. PICK lo \in Keys : \E hi \in {lo, Max(Keys)} : job' = [job EXCEPT ![t] = [type |-> "scan", lo |-> lo, hi |-> hi, id |-> 0]]
  BY DEF BeginScan
<1>a. PICK hi \in {lo, Max(Keys)} : job' = [job EXCEPT ![t] = [type |-> "scan", lo |-> lo, hi |-> hi, id |-> 0]]
  BY <1>2
<1> DEFINE j == [type |-> "scan", lo |-> lo, hi |-> hi, id |-> 0]
<1>3. j \in Jobs /\ j.type = "scan" /\ j.lo = lo
  <2>1. lo \in Nat /\ hi \in Nat
    BY KeysAre
  <2> QED BY <2>1 DEF Jobs
<1>4. job' = [job EXCEPT ![t] = j]
  BY <1>a
<1> HIDE DEF j
<1>5. /\ pc' = [pc EXCEPT ![t] = "enter"] /\ at' = [at EXCEPT ![t] = root] /\ nextId' = nextId
      /\ nodes' = nodes /\ root' = root /\ scans' = scans + 1 /\ removes' = removes /\ split' = split /\ todo' = todo
  BY DEF BeginScan, Goto, tree
<1>6. Moves(t) /\ pc'[t] = "enter" /\ at'[t] = root /\ job'[t] = j /\ split'[t] = split[t]
  <2>1. "enter" \in Phases /\ root \in Nat
    BY <1>1 DEF Phases
  <2> QED BY <1>1, <1>3, <1>4, <1>5, <2>1, TypesOf DEF Moves
<1>8. ThreadInv(t)'
  <2>1. ThreadInv(t)
    BY <1>1, ThreadIs
  <2>2. root \in 0..Len(nodes') /\ root # NoNode
    BY <1>1, <1>5 DEF NoNode
  <2> QED BY <1>3, <1>5, <1>6, <2>1, <2>2 DEF ThreadInv, HasSplit
<1>9. Settles(t)
  BY <1>3, <1>5, <1>6, <1>8 DEF Settles, Holding, Untold, Adding
<1>10. scans' \in Nat
  BY <1>1, <1>5
<1> QED BY <1>1, <1>5, <1>6, <1>9, <1>10, StillStep

\* A lock that is free is held by nobody else.
LEMMA FreeIs ==
    ASSUME ShapeInv, NEW t \in Threads, NEW n, Free(n)
    PROVE  \A u \in Threads \ {t} : pc[u] \in Holding => n # at[u]
BY DEF Free

\* The acquisition of a first lock keeps the invariant.
LEMMA EnterStep ==
    ASSUME TreeInv, NEW t \in Threads, Enter(t)
    PROVE  TreeInv'
<1>1. ShapeInv /\ FamilyInv /\ nextId \in Nat /\ scans \in Nat
  BY TreeIs
<1>2. /\ pc[t] \in {"enter", "climb"} /\ Free(at[t])
      /\ pc' = [pc EXCEPT ![t] = IF pc[t] = "enter" THEN "walk" ELSE "seek"]
      /\ nodes' = nodes /\ root' = root /\ nextId' = nextId /\ scans' = scans /\ removes' = removes
      /\ at' = at /\ job' = job /\ split' = split /\ todo' = todo
  BY DEF Enter, tree, history
<1>3. /\ Moves(t) /\ pc'[t] = (IF pc[t] = "enter" THEN "walk" ELSE "seek")
      /\ at'[t] = at[t] /\ job'[t] = job[t] /\ split'[t] = split[t]
  BY <1>1, <1>2, TypesOf DEF Moves, Phases, Holding
<1>4. ThreadInv(t)'
  <2>1. ThreadInv(t)
    BY <1>1, ThreadIs
  <2> QED BY <1>2, <1>3, <2>1 DEF ThreadInv, Placed, Holding, HasSplit
<1>5. \A u \in Threads \ {t} : pc[u] \in Holding => at'[t] # at[u]
  BY <1>1, <1>2, <1>3, FreeIs
<1>6. pc[t] = "climb" => Below(nodes, at[t], split[t].child)
  BY <1>1 DEF FamilyInv
<1>7. Settles(t)
  <2>1. CASE pc[t] = "enter"
    BY <1>2, <1>3, <1>4, <1>5, <2>1 DEF Settles, Adding, Untold
  <2>2. CASE pc[t] = "climb"
    BY <1>2, <1>3, <1>4, <1>5, <1>6, <2>2 DEF Settles, Adding, Untold
  <2> QED BY <1>2, <2>1, <2>2
<1> QED BY <1>1, <1>2, <1>3, <1>7, StillStep

\* A descent goes to a node of the arena.
LEMMA ChildForIs ==
    ASSUME NEW ns, ArenaInv(ns), NEW n \in DOMAIN ns, ~ns[n].leaf, NEW k
    PROVE  ChildFor(ns[n], k) \in DOMAIN ns
<1>1. ns[n] \in Node /\ NodeInv(ns, n)
  BY ArenaIs
<1>2. Len(ns[n].keys) \in Nat /\ DOMAIN ns[n].items = 1..Len(ns[n].items)
  BY <1>1, NodeIs
<1>3. Len(ns[n].items) = Len(ns[n].keys) + Extra(ns[n]) /\ Extra(ns[n]) = 1
  BY <1>1 DEF NodeInv, Extra
<1>4. LowerBound(ns[n].keys, k) \in DOMAIN ns[n].items
  BY <1>2, <1>3, LowerBoundInRange
<1> QED BY <1>1, <1>4 DEF NodeInv, ChildFor

\* So does a step to the right.
LEMMA RightIs ==
    ASSUME NEW ns, ArenaInv(ns), NEW n \in DOMAIN ns, ns[n].right # NoNode
    PROVE  ns[n].right \in DOMAIN ns
BY ArenaIs DEF Linked, NoNode

\* A step of a descent, to the right or down.
LEMMA WalkStep ==
    ASSUME TreeInv, NEW t \in Threads, Walk(t)
    PROVE  TreeInv'
<1>1. ShapeInv /\ ArenaInv(nodes) /\ Len(nodes) \in Nat /\ DOMAIN nodes = 1..Len(nodes) /\ nextId \in Nat /\ scans \in Nat
  BY TreeIs
<1>2. /\ pc[t] = "walk" /\ ~AtItsLeaf(t) /\ Free(Step(t))
      /\ at' = [at EXCEPT ![t] = Step(t)] /\ pc' = pc
      /\ nodes' = nodes /\ root' = root /\ nextId' = nextId /\ scans' = scans /\ removes' = removes
      /\ job' = job /\ split' = split /\ todo' = todo
  BY DEF Walk, tree, history
<1>3. at[t] \in DOMAIN nodes /\ ThreadInv(t)
  BY <1>1, <1>2, ThreadIs DEF Placed, Holding
<1>4. Step(t) \in DOMAIN nodes
  <2>1. CASE BeyondHigh(t)
    <3>1. job[t].lo \in Keys
      BY <1>2, <1>3 DEF ThreadInv
    <3>2. nodes[at[t]].high # Unbounded
      <4>1. job[t].lo > nodes[at[t]].high
        BY <2>1 DEF BeyondHigh
      <4>2. PICK k \in Keys : k = job[t].lo
        BY <3>1
      <4>3. k \in Nat /\ k < Unbounded /\ Unbounded \in Nat
        BY KeysAre
      <4>4. ~(k > Unbounded)
        BY <4>3
      <4> QED BY <4>1, <4>2, <4>4
    <3>3. nodes[at[t]].right # NoNode
      BY <1>1, <1>3, <3>2, ArenaIs DEF NodeInv
    <3> QED BY <1>1, <1>3, <2>1, <3>3, RightIs DEF Step
  <2>2. CASE ~BeyondHigh(t)
    <3>1. ~nodes[at[t]].leaf
      BY <1>2, <2>2 DEF AtItsLeaf
    <3> QED BY <1>1, <1>3, <2>2, <3>1, ChildForIs DEF Step
  <2> QED BY <2>1, <2>2
<1>5. PICK n \in DOMAIN nodes : n = Step(t)
  BY <1>4
<1>6. Moves(t) /\ pc'[t] = "walk" /\ at'[t] = n /\ job'[t] = job[t] /\ split'[t] = split[t]
  BY <1>1, <1>2, <1>5, TypesOf DEF Moves
<1>7. ThreadInv(t)'
  <2>1. n \in 0..Len(nodes') /\ n # NoNode
    BY <1>1, <1>2 DEF NoNode
  <2> QED BY <1>2, <1>3, <1>6, <2>1 DEF ThreadInv, HasSplit
<1>8. \A u \in Threads \ {t} : pc[u] \in Holding => at'[t] # at[u]
  BY <1>1, <1>2, <1>5, <1>6, FreeIs
<1>9. Settles(t)
  BY <1>2, <1>6, <1>7, <1>8 DEF Settles, Adding, Untold
<1> QED BY <1>1, <1>2, <1>6, <1>9, StillStep

\* A split with another hint.
LEMMA HintedIs ==
    ASSUME NEW s \in Splits, NEW h \in Nat
    PROVE  /\ [s EXCEPT !.hint = h] \in Splits /\ [s EXCEPT !.hint = h].hint = h
           /\ \A f \in {"child", "right", "sep"} : [s EXCEPT !.hint = h][f] = s[f]
BY DEF Splits

\* The second read of a hint: it leads to the parent, whoever wrote it.
LEMMA RereadHintStep ==
    ASSUME TreeInv, NEW t \in Threads, RereadHint(t)
    PROVE  TreeInv'
<1>1. /\ ShapeInv /\ FamilyInv /\ ArenaInv(nodes) /\ Len(nodes) \in Nat /\ DOMAIN nodes = 1..Len(nodes)
      /\ nextId \in Nat /\ scans \in Nat
  BY TreeIs
<1> DEFINE h == nodes[split[t].child].hint
<1>2. /\ pc[t] = "grow" /\ h # NoNode
      /\ split' = [split EXCEPT ![t].hint = h]
      /\ pc' = [pc EXCEPT ![t] = "climb"] /\ at' = [at EXCEPT ![t] = h]
      /\ nodes' = nodes /\ root' = root /\ nextId' = nextId /\ scans' = scans /\ removes' = removes
      /\ job' = job /\ todo' = todo
  BY DEF RereadHint, Goto, tree, history
<1>3. ThreadInv(t) /\ split[t].child \in DOMAIN nodes
  BY <1>1, <1>2, ThreadIs DEF HasSplit
<1>4. h \in DOMAIN nodes /\ Below(nodes, h, split[t].child)
  <2>1. h \in 0..Len(nodes)
    BY <1>1, <1>3, ArenaIs DEF NodeInv
  <2>2. Below(nodes, h, split[t].child)
    BY <1>1, <1>2, <1>3 DEF FamilyInv, HintsFit
  <2> QED BY <1>1, <1>2, <2>1, <2>2 DEF NoNode
<1> HIDE DEF h
<1>5. split[t] \in Splits /\ [split[t] EXCEPT !.hint = h] \in Splits /\ h \in Nat
  <2>1. split[t] \in Splits /\ h \in Nat
    BY <1>1, <1>4, TypesOf
  <2> QED BY <2>1, HintedIs
<1>6. /\ Moves(t) /\ pc'[t] = "climb" /\ at'[t] = h /\ job'[t] = job[t] /\ split'[t] = [split[t] EXCEPT !.hint = h]
  BY <1>1, <1>2, <1>5, TypesOf DEF Moves, Phases
<1>7. split'[t].child = split[t].child /\ split'[t].right = split[t].right /\ split'[t].sep = split[t].sep /\ split'[t].hint = h
  BY <1>5, <1>6 DEF Splits
<1>8. ThreadInv(t)'
  <2>1. h \in 0..Len(nodes') /\ h # NoNode
    BY <1>1, <1>2, <1>4 DEF NoNode
  <2> QED BY <1>2, <1>3, <1>6, <1>7, <2>1 DEF ThreadInv, HasSplit
<1>9. Settles(t)
  BY <1>2, <1>4, <1>6, <1>7, <1>8 DEF Settles, Adding, Untold, Holding
<1> QED BY <1>1, <1>2, <1>6, <1>9, StillStep

\* A step to the right towards the parent, which is not at the node the thread leaves.
LEMMA SeekStep ==
    ASSUME TreeInv, NEW t \in Threads, Seek(t)
    PROVE  TreeInv'
<1>1. /\ ShapeInv /\ FamilyInv /\ ArenaInv(nodes) /\ Len(nodes) \in Nat /\ DOMAIN nodes = 1..Len(nodes)
      /\ nextId \in Nat /\ scans \in Nat
  BY TreeIs
<1> DEFINE r == nodes[at[t]].right
<1>2. /\ pc[t] = "seek" /\ ~HasChild(nodes[at[t]], split[t].child) /\ r # NoNode /\ Free(r)
      /\ at' = [at EXCEPT ![t] = r] /\ pc' = pc
      /\ nodes' = nodes /\ root' = root /\ nextId' = nextId /\ scans' = scans /\ removes' = removes
      /\ job' = job /\ split' = split /\ todo' = todo
  BY DEF Seek, tree, history
<1>3. ThreadInv(t) /\ at[t] \in DOMAIN nodes
  BY <1>1, <1>2, ThreadIs DEF Placed, Holding
<1>4. r \in DOMAIN nodes /\ Below(nodes, r, split[t].child)
  <2>1. PICK q \in ChainFrom(nodes, at[t]) : HasChild(nodes[q], split[t].child)
    BY <1>1, <1>2 DEF FamilyInv, Below
  <2>2. q # at[t]
    BY <1>2, <2>1
  <2>3. q \in ChainFrom(nodes, r)
    BY <1>1, <1>3, <2>2, ChainStep
  <2>4. r \in DOMAIN nodes
    BY <1>1, <1>2, <1>3, RightIs
  <2> QED BY <2>1, <2>3, <2>4 DEF Below
<1> HIDE DEF r
<1>5. Moves(t) /\ pc'[t] = "seek" /\ at'[t] = r /\ job'[t] = job[t] /\ split'[t] = split[t]
  BY <1>1, <1>2, <1>4, TypesOf DEF Moves
<1>6. ThreadInv(t)'
  <2>1. r \in 0..Len(nodes') /\ r # NoNode
    BY <1>1, <1>2, <1>4 DEF NoNode
  <2> QED BY <1>2, <1>3, <1>5, <2>1 DEF ThreadInv, HasSplit
<1>7. \A u \in Threads \ {t} : pc[u] \in Holding => at'[t] # at[u]
  BY <1>1, <1>2, <1>5, FreeIs
<1>8. Settles(t)
  BY <1>2, <1>4, <1>5, <1>6, <1>7 DEF Settles, Adding, Untold
<1> QED BY <1>1, <1>2, <1>5, <1>8, StillStep

\* A scan copies from a leaf and goes on.
LEMMA ScanLeafStep ==
    ASSUME TreeInv, NEW t \in Threads, ScanLeaf(t)
    PROVE  TreeInv'
<1>1. /\ ShapeInv /\ ArenaInv(nodes) /\ Len(nodes) \in Nat /\ DOMAIN nodes = 1..Len(nodes)
      /\ nextId \in Nat /\ scans \in Nat
  BY TreeIs
<1>2. /\ pc[t] = "walk" /\ job[t].type = "scan"
      /\ \/ Goto(t, "answer", NoNode)
         \/ nodes[at[t]].right # NoNode /\ Goto(t, "enter", nodes[at[t]].right)
      /\ nodes' = nodes /\ root' = root /\ nextId' = nextId /\ scans' = scans /\ removes' = removes
      /\ job' = job /\ split' = split /\ todo' = todo
  BY DEF ScanLeaf, AtItsLeaf, tree, history
<1>3. ThreadInv(t) /\ at[t] \in DOMAIN nodes
  BY <1>1, <1>2, ThreadIs DEF Placed, Holding
<1>4. PICK p \in {"answer", "enter"}, n \in 0..Len(nodes) : Goto(t, p, n) /\ (p = "enter" => n # NoNode)
  <2>1. NoNode \in 0..Len(nodes)
    BY <1>1 DEF NoNode
  <2>2. nodes[at[t]].right \in 0..Len(nodes)
    BY <1>1, <1>3, ArenaIs DEF Linked
  <2> QED BY <1>2, <2>1, <2>2
<1>5. Moves(t) /\ pc'[t] = p /\ at'[t] = n /\ job'[t] = job[t] /\ split'[t] = split[t]
  BY <1>1, <1>2, <1>4, GoIs DEF Phases
<1>6. ThreadInv(t)'
  BY <1>2, <1>3, <1>4, <1>5 DEF ThreadInv, HasSplit, Placed, Holding
<1>7. Settles(t)
  BY <1>2, <1>4, <1>5, <1>6 DEF Settles, Adding, Untold, Holding
<1> QED BY <1>1, <1>2, <1>5, <1>7, StillStep

\* A return that changes nothing else.
LEMMA ReturnStep ==
    ASSUME TreeInv, NEW t \in Threads, Return(t), nodes' = nodes, root' = root, nextId' = nextId, scans' = scans, removes' = removes
    PROVE  TreeInv'
<1>1. ShapeInv /\ Len(nodes) \in Nat /\ nextId \in Nat /\ scans \in Nat
  BY TreeIs
<1>2. Moves(t) /\ ThreadInv(t)' /\ pc'[t] = "idle"
  BY <1>1, ReturnIs
<1>3. Settles(t)
  BY <1>2 DEF Settles, Adding, Untold, Holding
<1> QED BY <1>1, <1>2, <1>3, StillStep

\* A scan answers.
LEMMA AnswerStep ==
    ASSUME TreeInv, NEW t \in Threads, Answer(t)
    PROVE  TreeInv'
BY ReturnStep DEF Answer, tree, history

(* The steps that change the arena. *)

\* Where a step may take thread t that puts its half S into the tree, or nothing, and the pairs D into leaves.
Lands(t, n, S, D) ==
    /\ Steps(t, n, S) /\ (S = {} \/ (pc[t] \in WithHalf /\ S = {Half(t)}))
    /\ root' = root /\ nextId' = nextId /\ scans' = scans /\ removes' = removes
    /\ ThreadInv(t)' /\ RehomeInv(t)' /\ ~Searching(t)'
    /\ pc'[t] \in Holding => pc'[t] = "rehome" /\ at'[t] = at[t] /\ pc[t] \in {"seek", "rehome"}
    /\ Held(nodes') = Held(nodes) \cup D
    /\ D = {} \/ (Adding(t) /\ D = {<<job[t].lo, job[t].id>>})

\* The half thread t has then is nobody's child, not the root, and no other thread's.
HalfFits(t) == pc'[t] \in WithHalf => ~IsChild(nodes', Half(t)') /\ Half(t)' # root' /\ Untaken(t)

\* A thread that must tell a parent has two halves next to each other.
UntoldFits(t) ==
    pc'[t] \in Untold => /\ split'[t].child \in DOMAIN nodes' /\ split'[t].right # NoNode
                         /\ split'[t].right = nodes'[split'[t].child].right
                         /\ split'[t].sep = nodes'[split'[t].child].high

\* The parent is where the thread looks, or to the right of there.
BelowFits(t) ==
    /\ pc'[t] \in {"climb", "seek", "hintLeft", "hintRight"} => Below(nodes', at'[t], split'[t].child)
    /\ pc'[t] \in {"hintLeft", "hintRight"} => Below(nodes', at'[t], split'[t].right)

\* Levels are kept.
LevelFits(t) ==
    \A level : IsLevel(nodes, level) /\ (pc[t] \in Untold => level[split[t].child] = level[split[t].right])
                  => Leveled(nodes, nodes', level)

\* What a step that changes the arena does to the order of the leaves, and the pairs D it adds.
Orders(t, D) ==
    Ends(nodes) /\ OnePlace(nodes) =>
       \A low : LowIs(nodes, low) /\ PlaceInv(t, low) => Ordered(nodes, nodes', low, D)

\* Thread t, which has changed the arena, searches no more; its half begins at the separator it tells the parent, and the root where it did.
Rests(t) ==
    /\ Moves(t) /\ ~Searching(t)' /\ UntoldFits(t) /\ Keeps(nodes, nodes')
    /\ \A l : LowIs(nodes', l) => l[root'] = l[root]

\* Under these conditions a step that changes the arena keeps the invariant.
LEMMA LandStep ==
    ASSUME TreeInv, NodesAreGuarded, NEW t \in Threads, NEW n, NEW S, NEW D, Lands(t, n, S, D), HalfFits(t), UntoldFits(t), BelowFits(t), LevelFits(t),
           pc'[t] = "rehome" => \A u \in Threads \ {t} :
               pc[u] = "rehome" => at[u] # nodes'[at'[t]].right /\ at'[t] # nodes[at[u]].right
    PROVE  TreeInv'
<1>1. /\ ShapeInv /\ LockInv /\ LevelInv /\ FamilyInv /\ FirstInv /\ FreshInv
      /\ ArenaInv(nodes) /\ root \in DOMAIN nodes /\ nextId \in Nat \ {0} /\ scans \in Nat /\ removes \in Nat
  BY TreeIs
<1>2. Steps(t, n, S)
  BY DEF Lands
<1>3. ShapeInv'
  <2>1. root' \in DOMAIN nodes'
    BY <1>1, <1>2 DEF Lands, Steps, Change, Keeps
  <2>2. nextId' \in Nat \ {0} /\ scans' \in Nat /\ removes' \in Nat /\ ThreadInv(t)' /\ RehomeInv(t)'
    BY <1>1 DEF Lands
  <2> QED BY <1>1, <1>2, <2>1, <2>2, ShapeStep
<1>4. LockInv'
  <2>1. pc'[t] \in Holding => \A u \in Threads \ {t} : pc[u] \in Holding => at'[t] # at[u]
    BY <1>1 DEF Lands, LockInv, Holding
  <2> QED BY <1>1, <1>2, <2>1, LockStep
<1>5. LevelInv'
  BY <1>1, <1>2, LevelStep DEF LevelFits, UntoldFits
<1>6. FamilyInv'
  <2>1. /\ ~IsChild(nodes', root')
        /\ \A u \in Threads \ {t} : pc[u] \in WithHalf => Half(u) \notin S /\ Half(u) # root'
    BY <1>1, <1>2, Aside DEF Lands
  <2> QED BY <1>1, <1>2, <2>1, FamilyStep DEF HalfFits, BelowFits
<1>7. FirstInv'
  BY <1>1, <1>2, FirstStep DEF Lands
<1>8. FreshInv'
  <2>1. Held(nodes') = Held(nodes) \cup D /\ nextId' = nextId /\ ~Adding(t)'
    BY DEF Lands, Adding, Searching
  <2>2. ASSUME NEW e \in D PROVE e[2] < nextId' /\ \A u \in Threads \ {t} : Adding(u) => job[u].id # e[2]
    <3>1. Adding(t) /\ e = <<job[t].lo, job[t].id>>
      BY <2>2 DEF Lands
    <3>2. e[2] = job[t].id
      BY <3>1
    <3> QED BY <1>1, <2>1, <3>1, <3>2 DEF FreshInv
  <2> QED BY <1>1, <1>2, <2>1, <2>2, FreshStep
<1> QED BY <1>3, <1>4, <1>5, <1>6, <1>7, <1>8 DEF TreeInv

\* No thread's walk over its new children is at a node that does not exist.
LEMMA NoOneThere ==
    ASSUME ShapeInv, NEW t
    PROVE  Undisturbed(t, NoNode)
<1>1. NoNode \notin DOMAIN nodes
  BY ArenaIs DEF NoNode, ShapeInv
<1> QED BY <1>1, ThreadIs DEF Undisturbed, Placed, Holding

\* A child is a node.
LEMMA ChildIs ==
    ASSUME NEW ns, ArenaInv(ns), NEW c, IsChild(ns, c)
    PROVE  c \in DOMAIN ns
<1>1. PICK q \in DOMAIN ns : HasChild(ns[q], c)
  BY DEF IsChild
<1>2. ~ns[q].leaf /\ \E i \in DOMAIN ns[q].items : ns[q].items[i] = c
  BY <1>1, HasChildIs
<1>3. NodeInv(ns, q)
  BY ArenaIs
<1> QED BY <1>2, <1>3 DEF NodeInv

(* The half a thread goes on with is the one it had, or a new node. *)
LEMMA HalfGoesOn ==
    ASSUME ShapeInv, FamilyInv, NEW t \in Threads, NEW n, NEW S, Steps(t, n, S), root' = root,
           S = {} \/ (pc[t] \in WithHalf /\ S = {Half(t)}),
           \/ S = {} /\ pc[t] \in WithHalf /\ Half(t)' = Half(t)
           \/ Half(t)' = Len(nodes) + 1
    PROVE  HalfFits(t)
<1>1. ArenaInv(nodes) /\ DOMAIN nodes = 1..Len(nodes) /\ Len(nodes) \in Nat /\ root \in DOMAIN nodes
  BY ArenaIs DEF ShapeInv
<1>2. CASE S = {} /\ pc[t] \in WithHalf /\ Half(t)' = Half(t)
  BY <1>2 DEF FamilyInv, Steps, Change, HalfFits, Untaken
<1>3. CASE Half(t)' = Len(nodes) + 1
  <2>1. Len(nodes) + 1 \notin DOMAIN nodes
    BY <1>1
  <2>2. ~IsChild(nodes, Half(t)') /\ Half(t)' # root' /\ Half(t)' \notin S
    BY <1>1, <1>3, <2>1, ChildIs, HalfIs
  <2>3. ~IsChild(nodes', Half(t)')
    BY <2>2 DEF Steps, Change
  <2>4. Untaken(t)
    BY <1>3, <2>1, HalfIs DEF Untaken
  <2> QED BY <2>2, <2>3, <2>4 DEF HalfFits
<1> QED BY <1>2, <1>3

\* A thread with a split node goes to the parent its hint names, or makes a root.
LEMMA RiseIs ==
    ASSUME ShapeInv, NEW t \in Threads, NEW n \in DOMAIN nodes', Rise(t, nodes', n), job' = job, todo' \in [Threads -> Nat],
           \A u \in Threads \ {t} : todo'[u] = todo[u], pc[t] # "idle",
           Good(nodes'), Len(nodes') >= Len(nodes), nodes'[n].right # NoNode, nodes'[n].high \in Keys
    PROVE  /\ Moves(t) /\ ThreadInv(t)' /\ RehomeInv(t)' /\ ~Searching(t)' /\ pc'[t] \notin Holding
           /\ UntoldFits(t) /\ BelowFits(t) /\ Half(t)' = nodes'[n].right
<1> DEFINE h == nodes'[n].hint
           s == [child |-> n, right |-> nodes'[n].right, sep |-> nodes'[n].high, hint |-> h]
           p == IF h = NoNode THEN "grow" ELSE "climb"
<1>1. /\ DOMAIN nodes' = 1..Len(nodes') /\ Len(nodes') \in Nat /\ nodes'[n].right \in 0..Len(nodes')
      /\ h \in 0..Len(nodes') /\ Len(nodes) \in Nat
  BY ArenaIs DEF Good, NodeInv, ShapeInv
<1>2. h # NoNode => Below(nodes', h, n)
  BY DEF Good, HintsFit
<1>3. split' = [split EXCEPT ![t] = s] /\ pc' = [pc EXCEPT ![t] = p] /\ at' = [at EXCEPT ![t] = h]
  BY DEF Rise, Goto
<1>4. s \in Splits /\ s.child = n /\ s.right = nodes'[n].right /\ s.sep = nodes'[n].high /\ s.hint = h
  <2>1. n \in Nat /\ nodes'[n].right \in Nat /\ nodes'[n].high \in Nat /\ h \in Nat
    <3>1. nodes'[n].high \in Nat
      BY KeysAre
    <3>2. n \in Nat /\ nodes'[n].right \in Nat /\ h \in Nat
      BY <1>1
    <3> QED BY <3>1, <3>2
  <2> QED BY <2>1 DEF Splits
<1>5. p \in Phases /\ p \in {"grow", "climb"} /\ h \in Nat /\ (p = "climb" => h # NoNode)
  BY <1>1 DEF Phases
<1> HIDE DEF h, s, p
<1>6. Moves(t) /\ pc'[t] = p /\ at'[t] = h /\ job'[t] = job[t] /\ split'[t] = s
  BY <1>3, <1>4, <1>5, TypesOf DEF Moves
<1>7. ThreadInv(t)
  BY ThreadIs
<1>8. ThreadInv(t)'
  <2>1. n \in 0..Len(nodes') /\ n # NoNode
    BY <1>1 DEF NoNode
  <2> QED BY <1>1, <1>4, <1>5, <1>6, <1>7, <2>1 DEF ThreadInv, Placed, Holding, HasSplit
<1>9. UntoldFits(t) /\ BelowFits(t)
  BY <1>2, <1>4, <1>5, <1>6 DEF UntoldFits, BelowFits
<1>10. RehomeInv(t)' /\ ~Searching(t)' /\ pc'[t] \notin Holding /\ Half(t)' = nodes'[n].right
  BY <1>4, <1>5, <1>6 DEF RehomeInv, Searching, Holding, Half
<1> QED BY <1>6, <1>8, <1>9, <1>10

\* A thread that returns has no half, and no place.
LEMMA ReturnFits ==
    ASSUME NEW t, pc'[t] = "idle"
    PROVE  /\ HalfFits(t) /\ UntoldFits(t) /\ BelowFits(t) /\ ~Searching(t)' /\ pc'[t] \notin Holding /\ pc'[t] # "rehome"
BY DEF HalfFits, UntoldFits, BelowFits, Searching, Holding, WithHalf, Untold

\* An insert into a leaf, with its split: the pair appears, and nothing else does.
LEMMA InsertHereStep ==
    ASSUME TreeInv, NodesAreGuarded, NEW t \in Threads, InsertHere(t)
    PROVE  /\ TreeInv' /\ Held(nodes') = Held(nodes) \cup {<<job[t].lo, job[t].id>>}
           /\ Rests(t) /\ Orders(t, {<<job[t].lo, job[t].id>>})
<1>1. /\ ShapeInv /\ LockInv /\ LevelInv /\ FamilyInv /\ FirstInv /\ FreshInv
      /\ Good(nodes) /\ ArenaInv(nodes) /\ DOMAIN nodes = 1..Len(nodes) /\ Len(nodes) \in Nat
  BY TreeIs
<1> DEFINE n == at[t]
           k == job[t].lo
           i == job[t].id
           es == WithEntry(nodes, n, k, i)
<1>2. /\ pc[t] = "walk" /\ nodes[n].leaf /\ ~(k > nodes[n].high) /\ job[t].type = "insert"
      /\ \/ /\ Overfull(es[n]) /\ Rise(t, SplitLeaf(es, n), n)
            /\ job' = job /\ todo' = todo /\ nextId' = nextId
         \/ nodes' = es /\ Return(t) /\ nextId' = nextId
      /\ root' = root /\ scans' = scans /\ removes' = removes
  BY DEF InsertHere, AtItsLeaf, BeyondHigh, WithEntry, history
<1>3. ThreadInv(t) /\ n \in DOMAIN nodes /\ k \in Keys /\ i \in Ids
  BY <1>1, <1>2, ThreadIs DEF Placed, Holding, ThreadInv
<1>4. Undisturbed(t, n)
  <2> SUFFICES ASSUME NEW u \in Threads \ {t}, pc[u] = "rehome" PROVE at[u] # n /\ nodes[at[u]].right # n
    BY DEF Undisturbed
  <2>1. at[u] # n
    BY <1>1, <1>2 DEF LockInv, Holding
  <2>2. ~nodes[nodes[at[u]].right].leaf
    BY <1>1, ThreadIs DEF RehomeInv
  <2> QED BY <1>2, <2>1, <2>2
<1>5. Adding(t)
  BY <1>2 DEF Adding
<1>c. ASSUME NEW low, LowIs(nodes, low), PlaceInv(t, low) PROVE low[n] <= k /\ k <= nodes[n].high
  <2>1. low[n] < k
    BY <1>2, <1>c DEF PlaceInv, OnLeaves, Scanning, Searching
  <2>2. low[n] \in Int /\ nodes[n].high \in Nat /\ k \in Nat
    BY <1>1, <1>3, <1>c, LowAt, KeysAre
  <2> QED BY <1>2, <2>1, <2>2
<1>d. Fresh(nodes, i)
  BY <1>1, <1>5 DEF FreshInv, Fresh
<1> HIDE DEF n, k, i, es
<1>6. CASE Overfull(es[n]) /\ Rise(t, SplitLeaf(es, n), n) /\ job' = job /\ todo' = todo /\ nextId' = nextId
  <2>1. nodes' = SplitLeaf(es, n) /\ Rise(t, nodes', n)
    BY <1>6 DEF Rise
  <2>2. /\ Change(nodes, nodes', n, {}) /\ Held(nodes') = Held(nodes) \cup {<<k, i>>}
        /\ \A level : IsLevel(nodes, level) => Leveled(nodes, nodes', level)
        /\ Len(nodes') = Len(nodes) + 1 /\ nodes'[n].right = Len(nodes) + 1 /\ nodes'[n].high \in Keys
    BY <1>1, <1>2, <1>3, <1>6, <2>1, EntryPutSplit DEF es, n
  <2>3. n \in DOMAIN nodes' /\ nodes'[n].right # NoNode /\ Good(nodes') /\ Len(nodes') >= Len(nodes)
    BY <1>1, <1>3, <2>2 DEF Change, Keeps, NoNode
  <2>4. todo' \in [Threads -> Nat]
    BY <1>1, <1>6, TypesOf
  <2>5. /\ Moves(t) /\ ThreadInv(t)' /\ RehomeInv(t)' /\ ~Searching(t)' /\ pc'[t] \notin Holding
        /\ UntoldFits(t) /\ BelowFits(t) /\ Half(t)' = nodes'[n].right
    BY <1>1, <1>2, <1>6, <2>1, <2>2, <2>3, <2>4, RiseIs
  <2>6. Steps(t, n, {})
    BY <1>4, <2>2, <2>5 DEF Steps
  <2>7. HalfFits(t)
    BY <1>1, <1>2, <2>2, <2>5, <2>6, HalfGoesOn
  <2>8. Lands(t, n, {}, {<<k, i>>})
    BY <1>2, <1>5, <1>6, <2>2, <2>5, <2>6 DEF Lands, k, i
  <2>9. LevelFits(t) /\ pc'[t] # "rehome"
    BY <2>2, <2>5 DEF LevelFits, Holding
  <2>10. Orders(t, {<<k, i>>})
    <3> SUFFICES ASSUME Ends(nodes), OnePlace(nodes), NEW low, LowIs(nodes, low), PlaceInv(t, low)
                 PROVE  Ordered(nodes, nodes', low, {<<k, i>>})
      BY DEF Orders
    <3> QED BY <1>1, <1>2, <1>3, <1>6, <1>c, <1>d, <2>1, EntrySplitOrdered DEF es
  <2>11. Rests(t)
    BY <1>2, <2>2, <2>5 DEF Rests, Change
  <2> QED BY <2>2, <2>5, <2>7, <2>8, <2>9, <2>10, <2>11, LandStep DEF k, i
<1>7. CASE nodes' = es /\ Return(t) /\ nextId' = nextId
  <2>1. /\ Change(nodes, nodes', n, {}) /\ Held(nodes') = Held(nodes) \cup {<<k, i>>}
        /\ \A level : IsLevel(nodes, level) => Leveled(nodes, nodes', level)
        /\ Len(nodes') = Len(nodes)
    BY <1>1, <1>2, <1>3, <1>7, EntryPut DEF es, n
  <2>2. Moves(t) /\ ThreadInv(t)' /\ RehomeInv(t)' /\ pc'[t] = "idle"
    BY <1>1, <1>7, <2>1, ReturnIs
  <2>3. Steps(t, n, {})
    BY <1>4, <2>1, <2>2 DEF Steps
  <2>4. HalfFits(t) /\ UntoldFits(t) /\ BelowFits(t) /\ ~Searching(t)' /\ pc'[t] \notin Holding /\ pc'[t] # "rehome"
    BY <2>2, ReturnFits
  <2>5. Lands(t, n, {}, {<<k, i>>})
    BY <1>2, <1>5, <1>7, <2>1, <2>2, <2>3, <2>4 DEF Lands, k, i
  <2>6. LevelFits(t)
    BY <2>1 DEF LevelFits
  <2>7. Orders(t, {<<k, i>>})
    <3> SUFFICES ASSUME Ends(nodes), OnePlace(nodes), NEW low, LowIs(nodes, low), PlaceInv(t, low)
                 PROVE  Ordered(nodes, nodes', low, {<<k, i>>})
      BY DEF Orders
    <3> QED BY <1>1, <1>2, <1>3, <1>7, <1>c, <1>d, EntryOrdered DEF es
  <2>8. Rests(t)
    BY <1>2, <2>1, <2>2, <2>4 DEF Rests, Change
  <2> QED BY <2>1, <2>4, <2>5, <2>6, <2>7, <2>8, LandStep DEF k, i
<1> QED BY <1>2, <1>6, <1>7

\* The left half learns of the new root.
LEMMA HintLeftStep ==
    ASSUME TreeInv, NodesAreGuarded, NEW t \in Threads, HintLeft(t)
    PROVE  TreeInv' /\ Held(nodes') = Held(nodes) /\ Rests(t) /\ Orders(t, {})
<1>1. /\ ShapeInv /\ LockInv /\ FamilyInv /\ Good(nodes) /\ ArenaInv(nodes) /\ DOMAIN nodes = 1..Len(nodes) /\ Len(nodes) \in Nat
  BY TreeIs
<1> DEFINE c == split[t].child
           h == at[t]
<1>2. /\ pc[t] = "hintLeft" /\ nodes' = [nodes EXCEPT ![c].hint = h] /\ Goto(t, "hintRight", h)
      /\ root' = root /\ nextId' = nextId /\ scans' = scans /\ removes' = removes
      /\ job' = job /\ split' = split /\ todo' = todo
  BY DEF HintLeft, history
<1>3. ThreadInv(t) /\ h \in DOMAIN nodes /\ c \in DOMAIN nodes
  BY <1>1, <1>2, ThreadIs DEF Placed, HasSplit
<1>4. Below(nodes, h, c) /\ Below(nodes, h, split[t].right)
  BY <1>1, <1>2 DEF FamilyInv
<1> HIDE DEF c, h
<1>5. HintsOnly(nodes, nodes', {c}, h)
  <2>1. nodes \in Seq(Node) /\ h \in Nat
    BY <1>1, <1>3 DEF ArenaInv
  <2> QED BY <1>2, <1>3, <2>1, SetHintIs
<1>6. /\ Change(nodes, nodes', NoNode, {}) /\ Held(nodes') = Held(nodes)
      /\ \A level : IsLevel(nodes, level) => Leveled(nodes, nodes', level)
  BY <1>1, <1>3, <1>4, <1>5, HintsChange
<1>7. Moves(t) /\ pc'[t] = "hintRight" /\ at'[t] = h /\ job'[t] = job[t] /\ split'[t] = split[t]
  <2>1. "hintRight" \in Phases /\ h \in Nat
    BY <1>1, <1>3 DEF Phases
  <2> QED BY <1>1, <1>2, <2>1, GoIs
<1>8. Steps(t, NoNode, {})
  BY <1>1, <1>6, <1>7, NoOneThere DEF Steps
<1>9. ThreadInv(t)'
  <2>1. Len(nodes') = Len(nodes)
    BY <1>5 DEF HintsOnly
  <2> QED BY <1>2, <1>3, <1>7, <2>1 DEF ThreadInv, Placed, HasSplit, h
<1>10. Lands(t, NoNode, {}, {})
  <2>1. RehomeInv(t)' /\ ~Searching(t)' /\ pc'[t] \notin Holding
    BY <1>7 DEF RehomeInv, Searching, Holding
  <2> QED BY <1>2, <1>6, <1>8, <1>9, <2>1 DEF Lands
<1>11. HalfFits(t) /\ UntoldFits(t) /\ LevelFits(t) /\ pc'[t] # "rehome"
  BY <1>6, <1>7 DEF HalfFits, UntoldFits, LevelFits, WithHalf, Untold
<1>12. BelowFits(t)
  BY <1>3, <1>4, <1>6, <1>7 DEF BelowFits, Change, Keeps, c
<1>13. Orders(t, {})
  BY <1>1, <1>5, <1>6, HintsOrdered DEF Orders, Change, Good
<1>14. Rests(t)
  BY <1>2, <1>6, <1>7, <1>11 DEF Rests, Change, Searching
<1> QED BY <1>6, <1>10, <1>11, <1>12, <1>13, <1>14, LandStep

\* So does the right half.
LEMMA HintRightStep ==
    ASSUME TreeInv, NodesAreGuarded, NEW t \in Threads, HintRight(t)
    PROVE  TreeInv' /\ Held(nodes') = Held(nodes) /\ Rests(t) /\ Orders(t, {})
<1>1. /\ ShapeInv /\ LockInv /\ FamilyInv /\ Good(nodes) /\ ArenaInv(nodes) /\ DOMAIN nodes = 1..Len(nodes) /\ Len(nodes) \in Nat
  BY TreeIs
<1> DEFINE c == split[t].right
           h == at[t]
<1>2. /\ pc[t] = "hintRight" /\ nodes' = [nodes EXCEPT ![c].hint = h] /\ Return(t)
      /\ root' = root /\ nextId' = nextId /\ scans' = scans /\ removes' = removes
  BY DEF HintRight, history
<1>3. ThreadInv(t) /\ h \in DOMAIN nodes /\ c \in DOMAIN nodes
  BY <1>1, <1>2, ThreadIs DEF Placed, HasSplit
<1>4. Below(nodes, h, c)
  BY <1>1, <1>2 DEF FamilyInv
<1> HIDE DEF c, h
<1>5. HintsOnly(nodes, nodes', {c}, h)
  <2>1. nodes \in Seq(Node) /\ h \in Nat
    BY <1>1, <1>3 DEF ArenaInv
  <2> QED BY <1>2, <1>3, <2>1, SetHintIs
<1>6. /\ Change(nodes, nodes', NoNode, {}) /\ Held(nodes') = Held(nodes)
      /\ \A level : IsLevel(nodes, level) => Leveled(nodes, nodes', level)
  BY <1>1, <1>3, <1>4, <1>5, HintsChange
<1>7. Moves(t) /\ ThreadInv(t)' /\ RehomeInv(t)' /\ pc'[t] = "idle"
  <2>1. Len(nodes') \in Nat
    BY <1>1, <1>5 DEF HintsOnly
  <2> QED BY <1>1, <1>2, <2>1, ReturnIs
<1>8. Steps(t, NoNode, {})
  BY <1>1, <1>6, <1>7, NoOneThere DEF Steps
<1>9. HalfFits(t) /\ UntoldFits(t) /\ BelowFits(t) /\ ~Searching(t)' /\ pc'[t] \notin Holding /\ pc'[t] # "rehome"
  BY <1>7, ReturnFits
<1>10. Lands(t, NoNode, {}, {})
  BY <1>2, <1>6, <1>7, <1>8, <1>9 DEF Lands
<1>11. LevelFits(t)
  BY <1>6 DEF LevelFits
<1>12. Orders(t, {})
  BY <1>1, <1>5, <1>6, HintsOrdered DEF Orders, Change, Good
<1>13. Rests(t)
  BY <1>2, <1>6, <1>7, <1>9 DEF Rests, Change
<1> QED BY <1>6, <1>9, <1>10, <1>11, <1>12, <1>13, LandStep

\* The new half joins its parent, which may split in turn.
LEMMA SpliceStep ==
    ASSUME TreeInv, NodesAreGuarded, NEW t \in Threads, Splice(t)
    PROVE  TreeInv' /\ Held(nodes') = Held(nodes) /\ Rests(t) /\ Orders(t, {})
<1>1. /\ ShapeInv /\ LockInv /\ FamilyInv /\ Good(nodes) /\ ArenaInv(nodes) /\ DOMAIN nodes = 1..Len(nodes) /\ Len(nodes) \in Nat
  BY TreeIs
<1> DEFINE p == at[t]
           c == split[t].child
           r == split[t].right
           sep == split[t].sep
           es == WithChild(nodes, p, c, sep, r)
<1>2. /\ pc[t] = "seek" /\ HasChild(nodes[p], c)
      /\ \/ /\ Overfull(es[p]) /\ nodes' = SplitInternal(es, p)
            /\ pc' = [pc EXCEPT ![t] = "rehome"] /\ todo' = [todo EXCEPT ![t] = 1]
            /\ at' = at /\ job' = job /\ split' = split /\ nextId' = nextId
         \/ nodes' = es /\ Return(t) /\ nextId' = nextId
      /\ root' = root /\ scans' = scans /\ removes' = removes
  BY DEF Splice, WithChild, history
<1>3. ThreadInv(t) /\ p \in DOMAIN nodes /\ r \in DOMAIN nodes /\ sep \in Keys
  BY <1>1, <1>2, ThreadIs DEF Placed, Holding, ThreadInv, HasSplit
<1>4. pc[t] \in WithHalf /\ Half(t) = r /\ ~IsChild(nodes, r)
  <2>1. pc[t] \in WithHalf /\ Half(t) = r
    BY <1>2 DEF WithHalf, Untold, Half
  <2> QED BY <1>1, <2>1 DEF FamilyInv
<1>5. \A u \in Threads \ {t} : pc[u] = "rehome" => p # at[u] /\ p # nodes[at[u]].right
  BY <1>1, <1>2 DEF LockInv, NodesAreGuarded, Holding
<1>6. Undisturbed(t, p)
  BY <1>5 DEF Undisturbed
<1>a. \A low : PlaceInv(t, low) => low[r] = sep
  BY <1>2 DEF PlaceInv, Untold
<1> HIDE DEF p, c, r, sep, es
<1>7. CASE /\ Overfull(es[p]) /\ nodes' = SplitInternal(es, p)
           /\ pc' = [pc EXCEPT ![t] = "rehome"] /\ todo' = [todo EXCEPT ![t] = 1]
           /\ at' = at /\ job' = job /\ split' = split /\ nextId' = nextId
  <2>1. /\ ChildIn(nodes, nodes', p, c, r)
        /\ Len(nodes') = Len(nodes) + 1 /\ nodes'[p].right = Len(nodes) + 1 /\ nodes'[p].high \in Keys
        /\ ~nodes'[p].leaf /\ ~nodes'[Len(nodes) + 1].leaf /\ 1 \in DOMAIN nodes'[Len(nodes) + 1].items
    BY <1>1, <1>2, <1>3, <1>4, <1>7, ChildPutSplit DEF es
  <2>2. /\ Change(nodes, nodes', p, {r}) /\ Held(nodes') = Held(nodes)
        /\ \A level : IsLevel(nodes, level) /\ level[c] = level[r] => Leveled(nodes, nodes', level)
    BY <2>1 DEF ChildIn
  <2>3. Moves(t) /\ pc'[t] = "rehome" /\ at'[t] = p /\ job'[t] = job[t] /\ split'[t] = split[t] /\ todo'[t] = 1
    BY <1>1, <1>7, TypesOf DEF Moves, Phases, Holding, p
  <2>4. Steps(t, p, {r})
    BY <1>6, <2>2, <2>3 DEF Steps
  <2>5. ThreadInv(t)'
    <3>1. \A x : x \in 0..Len(nodes) => x \in 0..Len(nodes')
      BY <1>1, <2>1
    <3> QED BY <1>2, <1>3, <2>3, <3>1 DEF ThreadInv, Placed, Holding, HasSplit, p
  <2>6. RehomeInv(t)' /\ ~Searching(t)'
    BY <1>1, <2>1, <2>3 DEF RehomeInv, Searching, NoNode
  <2>7. Lands(t, p, {r}, {})
    BY <1>2, <1>4, <1>7, <2>2, <2>3, <2>4, <2>5, <2>6 DEF Lands, p
  <2>8. HalfFits(t)
    <3>1. Half(t)' = Len(nodes) + 1
      BY <2>1, <2>3 DEF Half
    <3> QED BY <1>1, <1>2, <1>4, <2>4, <3>1, HalfGoesOn
  <2>9. UntoldFits(t) /\ BelowFits(t)
    BY <2>3 DEF UntoldFits, BelowFits, Untold
  <2>10. LevelFits(t)
    BY <1>2, <2>2 DEF LevelFits, Untold, c, r
  <2>11. \A u \in Threads \ {t} : pc[u] = "rehome" => at[u] # nodes'[at'[t]].right /\ at'[t] # nodes[at[u]].right
    <3> SUFFICES ASSUME NEW u \in Threads \ {t}, pc[u] = "rehome" PROVE at[u] # nodes'[at'[t]].right /\ at'[t] # nodes[at[u]].right
      OBVIOUS
    <3>1. at[u] \in DOMAIN nodes
      BY <1>1, ThreadIs DEF Placed, Holding
    <3>2. at[u] # Len(nodes) + 1
      BY <1>1, <3>1
    <3> QED BY <1>5, <2>1, <2>3, <3>2
  <2>12. Orders(t, {})
    BY <1>1, <1>2, <1>3, <1>4, <1>7, <1>a, ChildSplitOrdered DEF Orders, es
  <2>13. Rests(t)
    BY <1>2, <2>2, <2>3, <2>6, <2>9 DEF Rests, Change
  <2> QED BY <2>2, <2>7, <2>8, <2>9, <2>10, <2>11, <2>12, <2>13, LandStep
<1>8. CASE nodes' = es /\ Return(t) /\ nextId' = nextId
  <2>1. ChildIn(nodes, nodes', p, c, r) /\ Len(nodes') = Len(nodes) /\ ~nodes'[p].leaf
    BY <1>1, <1>2, <1>3, <1>4, <1>8, ChildPut DEF es
  <2>2. /\ Change(nodes, nodes', p, {r}) /\ Held(nodes') = Held(nodes)
        /\ \A level : IsLevel(nodes, level) /\ level[c] = level[r] => Leveled(nodes, nodes', level)
    BY <2>1 DEF ChildIn
  <2>3. Moves(t) /\ ThreadInv(t)' /\ RehomeInv(t)' /\ pc'[t] = "idle"
    BY <1>1, <1>8, <2>1, ReturnIs
  <2>4. Steps(t, p, {r})
    BY <1>6, <2>2, <2>3 DEF Steps
  <2>5. HalfFits(t) /\ UntoldFits(t) /\ BelowFits(t) /\ ~Searching(t)' /\ pc'[t] \notin Holding /\ pc'[t] # "rehome"
    BY <2>3, ReturnFits
  <2>6. Lands(t, p, {r}, {})
    BY <1>2, <1>4, <1>8, <2>2, <2>3, <2>4, <2>5 DEF Lands
  <2>7. LevelFits(t)
    BY <1>2, <2>2 DEF LevelFits, Untold, c, r
  <2>8. Orders(t, {})
    BY <1>1, <1>2, <1>3, <1>4, <1>8, <1>a, ChildOrdered DEF Orders, es
  <2>9. Rests(t)
    BY <1>2, <2>2, <2>3, <2>5 DEF Rests, Change
  <2> QED BY <2>2, <2>5, <2>6, <2>7, <2>8, <2>9, LandStep
<1> QED BY <1>2, <1>7, <1>8

\* A child of a split node learns where its parent is now.
LEMMA RehomeStep ==
    ASSUME TreeInv, NodesAreGuarded, NEW t \in Threads, Rehome(t)
    PROVE  TreeInv' /\ Held(nodes') = Held(nodes) /\ Rests(t) /\ Orders(t, {})
<1>1. /\ ShapeInv /\ LockInv /\ FamilyInv /\ Good(nodes) /\ ArenaInv(nodes) /\ DOMAIN nodes = 1..Len(nodes) /\ Len(nodes) \in Nat
  BY TreeIs
<1> DEFINE p == at[t]
           r == nodes[p].right
           d == todo[t]
           c == nodes[r].items[d]
           ms == SetHints(nodes, {c}, r)
<1>2. /\ pc[t] = "rehome"
      /\ \/ /\ d < Len(nodes[r].items) /\ nodes' = ms /\ todo' = [todo EXCEPT ![t] = d + 1]
            /\ pc' = pc /\ at' = at /\ split' = split
         \/ Rise(t, ms, p) /\ todo' = [todo EXCEPT ![t] = 0]
      /\ root' = root /\ nextId' = nextId /\ scans' = scans /\ removes' = removes /\ job' = job
  BY DEF Rehome, history
<1>3. ThreadInv(t) /\ RehomeInv(t) /\ p \in DOMAIN nodes /\ r \in DOMAIN nodes
  BY <1>1, <1>2, ThreadIs DEF Placed, Holding
<1>4. /\ ~nodes[p].leaf /\ nodes[p].high \in Keys /\ r # NoNode /\ ~nodes[r].leaf
      /\ d \in DOMAIN nodes[r].items
  BY <1>2, <1>3 DEF RehomeInv
<1>5. d \in Nat /\ DOMAIN nodes[r].items = 1..Len(nodes[r].items) /\ Len(nodes[r].items) \in Nat
  BY <1>1, <1>3, TypesOf, ArenaIs, NodeIs
<1>6. Below(nodes, r, c)
  <2>1. HasChild(nodes[r], c)
    BY <1>4, HasChildIs
  <2>2. r \in ChainFrom(nodes, r)
    BY <1>1, <1>3, ChainCloses
  <2> QED BY <2>1, <2>2 DEF Below
<1>7. pc[t] \in WithHalf /\ Half(t) = r
  BY <1>2 DEF WithHalf, Half
<1> HIDE DEF p, r, d, c, ms
<1>8. HintsOnly(nodes, ms, {c}, r)
  <2>1. nodes \in Seq(Node) /\ r \in Nat
    BY <1>1, <1>3 DEF ArenaInv
  <2> QED BY <2>1, SetHintsIs DEF ms
<1>9. nodes' = ms
  BY <1>2 DEF Rise
<1>10. /\ Change(nodes, nodes', NoNode, {}) /\ Held(nodes') = Held(nodes)
       /\ \A level : IsLevel(nodes, level) => Leveled(nodes, nodes', level)
  BY <1>1, <1>3, <1>6, <1>8, <1>9, HintsChange
<1>11. LevelFits(t)
  BY <1>10 DEF LevelFits
<1>a. Orders(t, {})
  BY <1>1, <1>8, <1>9, <1>10, HintsOrdered DEF Orders, Change, Good
<1>12. /\ DOMAIN nodes' = DOMAIN nodes /\ Len(nodes') = Len(nodes) /\ Good(nodes')
       /\ nodes'[p].right = r /\ nodes'[p].high = nodes[p].high /\ nodes'[p].leaf = nodes[p].leaf
       /\ nodes'[r].leaf = nodes[r].leaf /\ nodes'[r].items = nodes[r].items
  <2>1. nodes'[p].right = nodes[p].right
    BY <1>3, <1>8, <1>9 DEF HintsOnly
  <2> QED BY <1>3, <1>8, <1>9, <1>10, <2>1 DEF HintsOnly, Change, r
<1>13. CASE /\ d < Len(nodes[r].items) /\ todo' = [todo EXCEPT ![t] = d + 1]
            /\ pc' = pc /\ at' = at /\ split' = split
  <2>1. Moves(t) /\ pc'[t] = "rehome" /\ at'[t] = p /\ job'[t] = job[t] /\ split'[t] = split[t] /\ todo'[t] = d + 1
    <3>1. d + 1 \in Nat
      BY <1>5
    <3> QED BY <1>1, <1>2, <1>13, <3>1, TypesOf DEF Moves, p
  <2>2. Steps(t, NoNode, {})
    BY <1>1, <1>10, <2>1, NoOneThere DEF Steps
  <2>3. ThreadInv(t)'
    BY <1>2, <1>3, <1>12, <2>1 DEF ThreadInv, Placed, Holding, HasSplit, p
  <2>4. d + 1 \in DOMAIN nodes[r].items
    BY <1>5, <1>13
  <2>5. RehomeInv(t)' /\ ~Searching(t)'
    BY <1>4, <1>12, <2>1, <2>4 DEF RehomeInv, Searching
  <2>6. Lands(t, NoNode, {}, {})
    BY <1>2, <1>10, <2>1, <2>2, <2>3, <2>5 DEF Lands, p
  <2>7. HalfFits(t)
    <3>1. Half(t)' = Half(t)
      BY <1>7, <1>12, <2>1 DEF Half
    <3> QED BY <1>1, <1>2, <1>7, <2>2, <3>1, HalfGoesOn
  <2>8. UntoldFits(t) /\ BelowFits(t)
    BY <2>1 DEF UntoldFits, BelowFits, Untold
  <2>9. \A u \in Threads \ {t} : pc[u] = "rehome" => at[u] # nodes'[at'[t]].right /\ at'[t] # nodes[at[u]].right
    <3>1. \A u \in Threads \ {t} : pc[u] = "rehome" => at[u] # nodes[at[t]].right /\ at[t] # nodes[at[u]].right
      BY <1>1, <1>2 DEF LockInv
    <3>2. nodes'[at'[t]].right = nodes[at[t]].right /\ at'[t] = at[t]
      BY <1>12, <2>1 DEF p, r
    <3> QED BY <3>1, <3>2
  <2>10. Rests(t)
    BY <1>2, <1>10, <2>1, <2>5, <2>8 DEF Rests, Change
  <2> QED BY <1>10, <1>11, <1>a, <2>6, <2>7, <2>8, <2>9, <2>10, LandStep
<1>14. CASE Rise(t, ms, p) /\ todo' = [todo EXCEPT ![t] = 0]
  <2>1. Rise(t, nodes', p)
    BY <1>9, <1>14
  <2>2. todo' \in [Threads -> Nat] /\ \A u \in Threads \ {t} : todo'[u] = todo[u]
    BY <1>1, <1>14, TypesOf
  <2>3. p \in DOMAIN nodes' /\ nodes'[p].right # NoNode /\ nodes'[p].high \in Keys /\ Len(nodes') >= Len(nodes)
    BY <1>1, <1>3, <1>4, <1>12
  <2>4. /\ Moves(t) /\ ThreadInv(t)' /\ RehomeInv(t)' /\ ~Searching(t)' /\ pc'[t] \notin Holding
        /\ UntoldFits(t) /\ BelowFits(t) /\ Half(t)' = nodes'[p].right
    BY <1>1, <1>2, <1>12, <2>1, <2>2, <2>3, RiseIs
  <2>5. Steps(t, NoNode, {})
    BY <1>1, <1>10, <2>4, NoOneThere DEF Steps
  <2>6. HalfFits(t)
    BY <1>1, <1>2, <1>7, <1>12, <2>4, <2>5, HalfGoesOn
  <2>7. Lands(t, NoNode, {}, {})
    BY <1>2, <1>10, <2>4, <2>5 DEF Lands
  <2>8. pc'[t] # "rehome"
    BY <2>4 DEF Holding
  <2>9. Rests(t)
    BY <1>2, <1>10, <2>4 DEF Rests, Change
  <2> QED BY <1>10, <1>11, <1>a, <2>4, <2>6, <2>7, <2>8, <2>9, LandStep
<1> QED BY <1>2, <1>9, <1>13, <1>14

\* A new root over the halves of the old one.
LEMMA GrowRootStep ==
    ASSUME TreeInv, NodesAreGuarded, NEW t \in Threads, GrowRoot(t)
    PROVE  TreeInv' /\ Held(nodes') = Held(nodes) /\ Rests(t) /\ Orders(t, {})
<1>1. /\ ShapeInv /\ LockInv /\ LevelInv /\ FamilyInv /\ FirstInv /\ FreshInv
      /\ Good(nodes) /\ ArenaInv(nodes) /\ DOMAIN nodes = 1..Len(nodes) /\ Len(nodes) \in Nat
      /\ root \in DOMAIN nodes /\ nextId \in Nat \ {0} /\ scans \in Nat /\ removes \in Nat
  BY TreeIs
<1> DEFINE c == split[t].child
           r == split[t].right
           sep == split[t].sep
           N == Len(nodes) + 1
           ms == Append(nodes, [EmptyLeaf EXCEPT !.leaf = FALSE, !.keys = <<sep>>, !.items = <<c, r>>])
<1>2. /\ pc[t] = "grow" /\ root = c /\ scans' = scans /\ removes' = removes /\ nextId' = nextId
      /\ \/ Return(t) /\ nodes' = nodes /\ root' = root
         \/ /\ nodes' = ms /\ root' = N /\ Goto(t, "hintLeft", N)
            /\ job' = job /\ split' = split /\ todo' = todo
  BY DEF GrowRoot, tree, history
<1>3. ThreadInv(t) /\ c \in DOMAIN nodes /\ r \in DOMAIN nodes /\ sep \in Keys
  BY <1>1, <1>2, ThreadIs DEF ThreadInv, HasSplit
<1>4. pc[t] \in WithHalf /\ Half(t) = r /\ ~IsChild(nodes, r) /\ ~IsChild(nodes, c) /\ c # r /\ c \notin Rights(nodes)
  <2>1. pc[t] \in WithHalf /\ Half(t) = r
    BY <1>2 DEF WithHalf, Untold, Half
  <2> QED BY <1>1, <1>2, <2>1 DEF FamilyInv, FirstInv
<1> HIDE DEF c, r, sep, N, ms
<1>5. CASE Return(t) /\ nodes' = nodes /\ root' = root
  <2>1. Moves(t) /\ pc'[t] = "idle"
    BY <1>1, <1>5, ReturnIs
  <2>2. Keeps(nodes, nodes')
    BY <1>5 DEF Keeps
  <2>3. UntoldFits(t) /\ ~Searching(t)'
    BY <2>1, ReturnFits
  <2>4. Rests(t)
    BY <1>5, <2>1, <2>2, <2>3 DEF Rests
  <2>5. Orders(t, {})
    BY <1>5 DEF Orders, Ordered, Agree
  <2> QED BY <1>2, <1>5, <2>4, <2>5, ReturnStep
<1>6. CASE /\ nodes' = ms /\ root' = N /\ Goto(t, "hintLeft", N)
           /\ job' = job /\ split' = split /\ todo' = todo
  <2>1. RootGrown(nodes, nodes', c, r, sep)
    <3>1. nodes \in Seq(Node)
      BY <1>1 DEF ArenaInv
    <3> QED BY <1>3, <1>6, <3>1, RootGrownIs DEF ms
  <2>2. /\ Change(nodes, nodes', NoNode, {c, r}) /\ Held(nodes') = Held(nodes) /\ N \notin Rights(nodes')
        /\ HasChild(nodes'[N], c) /\ HasChild(nodes'[N], r)
        /\ \A level : IsLevel(nodes, level) /\ level[c] = level[r] => Leveled(nodes, nodes', level)
    BY <1>1, <1>3, <1>4, <2>1, RootChange DEF N
  <2>3. N \in Nat /\ N # NoNode /\ N \notin DOMAIN nodes /\ N \in DOMAIN nodes' /\ Len(nodes') = N
    BY <1>1, <2>1 DEF RootGrown, N, NoNode
  <2>4. Moves(t) /\ pc'[t] = "hintLeft" /\ at'[t] = N /\ job'[t] = job[t] /\ split'[t] = split[t]
    BY <1>1, <1>6, <2>3, GoIs DEF Phases
  <2>5. Steps(t, NoNode, {c, r})
    BY <1>1, <2>2, <2>4, NoOneThere DEF Steps
  <2>6. ShapeInv'
    <3>1. ThreadInv(t)'
      <4>1. (\A x : x \in 0..Len(nodes) => x \in 0..Len(nodes')) /\ N \in 0..Len(nodes')
        BY <1>1, <2>3 DEF N
      <4> QED BY <1>2, <1>3, <2>3, <2>4, <4>1 DEF ThreadInv, Placed, HasSplit
    <3>2. RehomeInv(t)' /\ root' \in DOMAIN nodes'
      BY <1>6, <2>3, <2>4 DEF RehomeInv
    <3>3. nextId' \in Nat \ {0} /\ scans' \in Nat /\ removes' \in Nat
      BY <1>1, <1>2
    <3> QED BY <1>1, <2>5, <3>1, <3>2, <3>3, ShapeStep
  <2>7. LockInv'
    <3>1. pc'[t] \notin Holding /\ pc'[t] # "rehome"
      BY <2>4 DEF Holding
    <3> QED BY <1>1, <2>5, <3>1, LockStep
  <2>8. LevelInv'
    <3>1. pc'[t] \notin Untold
      BY <2>4 DEF Untold
    <3>2. \A level : IsLevel(nodes, level) /\ (pc[t] \in Untold => level[split[t].child] = level[split[t].right])
                         => Leveled(nodes, nodes', level)
      BY <1>2, <2>2 DEF Untold, c, r
    <3> QED BY <1>1, <2>5, <3>1, <3>2, LevelStep
  <2>9. FamilyInv'
    <3>1. ~IsChild(nodes', root')
      <4>1. ~IsChild(nodes, N) /\ N \notin {c, r}
        BY <1>1, <1>3, <2>3, ChildIs
      <4> QED BY <1>6, <2>2, <4>1 DEF Change
    <3>2. \A u \in Threads \ {t} : pc[u] \in WithHalf => Half(u) \notin {c, r} /\ Half(u) # root'
      <4> SUFFICES ASSUME NEW u \in Threads \ {t}, pc[u] \in WithHalf PROVE Half(u) \notin {c, r} /\ Half(u) # root'
        OBVIOUS
      <4>1. Half(u) \in DOMAIN nodes
        BY <1>1, HalfIs
      <4>2. Half(u) # root /\ Half(u) # Half(t)
        BY <1>1, <1>4 DEF FamilyInv
      <4> QED BY <1>2, <1>4, <1>6, <2>3, <4>1, <4>2
    <3>3. pc'[t] \notin WithHalf
      BY <2>4 DEF WithHalf, Untold
    <3>4. Below(nodes', N, c) /\ Below(nodes', N, r)
      <4>1. ArenaInv(nodes')
        BY <2>2 DEF Change, Good
      <4>2. N \in ChainFrom(nodes', N)
        BY <2>3, <4>1, ChainCloses
      <4> QED BY <2>2, <4>2 DEF Below
    <3>5. Below(nodes', at'[t], split'[t].child) /\ Below(nodes', at'[t], split'[t].right)
      BY <2>4, <3>4 DEF c, r
    <3> QED BY <1>1, <2>5, <3>1, <3>2, <3>3, <3>5, FamilyStep
  <2>10. FirstInv'
    BY <1>1, <1>6, <2>2, <2>5, FirstStep
  <2>11. FreshInv'
    <3>1. Held(nodes') = Held(nodes) \cup {} /\ nextId' \in {nextId, nextId + 1} /\ ~Adding(t)'
      BY <1>2, <2>2, <2>4 DEF Adding
    <3>2. \A e \in {} : e[2] < nextId' /\ \A u \in Threads \ {t} : Adding(u) => job[u].id # e[2]
      OBVIOUS
    <3>3. Adding(t)' => /\ job'[t].id < nextId' /\ \A e \in Held(nodes') : e[2] # job'[t].id
                        /\ \A u \in Threads \ {t} : Adding(u) => job[u].id # job'[t].id
      BY <3>1
    <3> QED BY ONLY <1>1, t \in Threads, <2>5, <3>1, <3>2, <3>3, FreshStep
  <2>12. Orders(t, {})
    <3>1. ArenaInv(nodes')
      BY <2>2 DEF Change, Good
    <3>2. \A low : PlaceInv(t, low) => low[r] = sep
      BY <1>2 DEF PlaceInv, Untold, r, sep
    <3> SUFFICES ASSUME Ends(nodes), OnePlace(nodes), NEW low, LowIs(nodes, low), PlaceInv(t, low)
                 PROVE  Ordered(nodes, nodes', low, {})
      BY DEF Orders
    <3>3. low[r] = sep /\ c \in DOMAIN nodes /\ r \in DOMAIN nodes /\ ArenaInv(nodes)
      BY <1>1, <1>3, <3>2
    <3> QED BY ONLY <2>1, <3>1, <3>3, Ends(nodes), OnePlace(nodes), LowIs(nodes, low), RootOrdered
  <2>13. Rests(t)
    <3>1. \A l : LowIs(nodes', l) => l[N] = l[c]
      <4> SUFFICES ASSUME NEW l, LowIs(nodes', l) PROVE l[N] = l[c]
        OBVIOUS
      <4>1. NodeLow(nodes', l, N)
        BY <2>3 DEF LowIs
      <4>2. ~nodes'[N].leaf /\ nodes'[N].items[1] = c
        BY <2>1 DEF RootGrown, N
      <4> QED BY <4>1, <4>2 DEF NodeLow
    <3>2. UntoldFits(t) /\ ~Searching(t)'
      BY <2>4 DEF UntoldFits, Untold, Searching
    <3> QED BY <1>2, <1>6, <2>2, <2>4, <3>1, <3>2 DEF Rests, Change
  <2> QED BY <2>2, <2>6, <2>7, <2>8, <2>9, <2>10, <2>11, <2>12, <2>13 DEF TreeInv
<1> QED BY <1>2, <1>5, <1>6

-----------------------------------------------------------------------------
(* What the pairs of the tree are. *)

\* The pairs of the tree are those its leaves hold.
LEMMA PairsAreHeld ==
    ASSUME TreeInv
    PROVE  Pairs = Held(nodes)
<1>1. ArenaInv(nodes) /\ LevelInv /\ FirstInv /\ Good(nodes) /\ root \in DOMAIN nodes
  BY TreeIs
<1>2. PICK level : IsLevel(nodes, level)
  BY <1>1 DEF LevelInv
<1>3. FirstIn(nodes) /\ root \notin Rights(nodes)
  BY <1>1 DEF Good, FirstInv
<1> QED BY <1>1, <1>2, <1>3, TreeHolds DEF Pairs

\* What is in the tree is in the arena.
LEMMA InTreeIs ==
    ASSUME TreeInv
    PROVE  InTree \subseteq DOMAIN nodes
<1>1. ArenaInv(nodes) /\ LevelInv /\ FirstInv /\ Good(nodes) /\ root \in DOMAIN nodes
  BY TreeIs
<1>2. PICK level : IsLevel(nodes, level)
  BY <1>1 DEF LevelInv
<1>3. FirstIn(nodes) /\ root \notin Rights(nodes)
  BY <1>1 DEF Good, FirstInv
<1>4. Spine(Tree(nodes, root)) \subseteq DOMAIN nodes
  BY <1>1, <1>2, <1>3, TreeSpine
<1>5. \A n \in Spine(Tree(nodes, root)) : Rightwards(n) \subseteq DOMAIN nodes
  BY <1>1, <1>4, ChainCloses DEF Rightwards
<1> QED BY <1>5 DEF InTree

\* Nothing is removed.
NoRemoves == MaxRemoves = 0

\* The steps of a tree nothing is removed from.
LEMMA StepCases ==
    ASSUME TreeInv, NoRemoves, Next
    PROVE  \E t \in Threads : \/ BeginInsert(t) \/ InsertHere(t)
                              \/ GrowRoot(t) \/ RereadHint(t) \/ HintLeft(t) \/ HintRight(t)
                              \/ Seek(t) \/ Splice(t) \/ Rehome(t)
                              \/ BeginScan(t) \/ ScanLeaf(t) \/ Answer(t) \/ Enter(t) \/ Walk(t)
<1>1. ~\E k \in Keys, id \in Ids : RemovePair(k, id)
  <2> SUFFICES ASSUME NEW k \in Keys, NEW id \in Ids, RemovePair(k, id) PROVE FALSE
    OBVIOUS
  <2>1. removes < MaxRemoves /\ removes \in Nat /\ MaxRemoves = 0
    BY TreeIs DEF RemovePair, NoRemoves
  <2> QED BY <2>1
<1> QED BY <1>1 DEF Next, Insert, Scan

\* Every step keeps the invariant.
LEMMA TreeStep ==
    ASSUME TreeInv, NodesAreGuarded, NoRemoves, [Next]_vars
    PROVE  TreeInv'
<1>1. CASE Next
  <2>1. PICK t \in Threads : \/ BeginInsert(t) \/ InsertHere(t)
                             \/ GrowRoot(t) \/ RereadHint(t) \/ HintLeft(t) \/ HintRight(t)
                             \/ Seek(t) \/ Splice(t) \/ Rehome(t)
                             \/ BeginScan(t) \/ ScanLeaf(t) \/ Answer(t) \/ Enter(t) \/ Walk(t)
    BY <1>1, StepCases
  <2>2. CASE BeginInsert(t) \/ BeginScan(t)
    BY <2>2, BeginInsertStep, BeginScanStep
  <2>3. CASE Enter(t) \/ Walk(t)
    BY <2>3, EnterStep, WalkStep
  <2>4. CASE ScanLeaf(t) \/ Answer(t)
    BY <2>4, ScanLeafStep, AnswerStep
  <2>5. CASE RereadHint(t) \/ Seek(t)
    BY <2>5, RereadHintStep, SeekStep
  <2>6. CASE InsertHere(t)
    BY <2>6, InsertHereStep
  <2>7. CASE GrowRoot(t)
    BY <2>7, GrowRootStep
  <2>8. CASE HintLeft(t) \/ HintRight(t)
    BY <2>8, HintLeftStep, HintRightStep
  <2>9. CASE Splice(t) \/ Rehome(t)
    BY <2>9, SpliceStep, RehomeStep
  <2> QED BY <2>1, <2>2, <2>3, <2>4, <2>5, <2>6, <2>7, <2>8, <2>9
<1>2. CASE UNCHANGED vars
  <2>1. /\ nodes' = nodes /\ root' = root /\ pc' = pc /\ at' = at /\ job' = job /\ split' = split /\ todo' = todo
        /\ nextId' = nextId /\ scans' = scans /\ removes' = removes
    BY <1>2 DEF vars, tree, thread, history
  <2>2. ShapeInv' /\ LockInv' /\ LevelInv' /\ FamilyInv'
    BY <2>1, TreeIs DEF ShapeInv, ThreadInv, RehomeInv, LockInv, LevelInv, FamilyInv, Half
  <2>3. FirstInv' /\ FreshInv'
    BY <2>1, TreeIs DEF FirstInv, FreshInv, Adding, Rightwards
  <2> QED BY <2>2, <2>3 DEF TreeInv
<1> QED BY <1>1, <1>2

\* A tree of one empty leaf satisfies it.
LEMMA TreeInit ==
    ASSUME Init
    PROVE  TreeInv
<1>1. /\ nodes = <<EmptyLeaf>> /\ root = 1 /\ nextId = 1 /\ scans = 0 /\ removes = 0
      /\ pc = [t \in Threads |-> "idle"] /\ at = [t \in Threads |-> NoNode]
      /\ job = [t \in Threads |-> NoJob] /\ split = [t \in Threads |-> NoSplit]
      /\ todo = [t \in Threads |-> 0]
  BY DEF Init
<1>2. /\ DOMAIN nodes = {1} /\ Len(nodes) = 1 /\ nodes[1] = EmptyLeaf /\ 0..1 = {0, 1} /\ NoNode = 0
  BY <1>1 DEF NoNode
<1>3. /\ EmptyLeaf.leaf = TRUE /\ EmptyLeaf.keys = <<>> /\ EmptyLeaf.items = <<>>
      /\ EmptyLeaf.right = NoNode /\ EmptyLeaf.high = Unbounded /\ EmptyLeaf.hint = NoNode
  BY DEF EmptyLeaf
<1>4. EmptyLeaf \in Node
  BY DEF EmptyLeaf, Node, NoNode
<1>5. /\ ~nodes[1].leaf = FALSE /\ nodes[1].keys = <<>> /\ nodes[1].items = <<>> /\ DOMAIN nodes[1].keys = {} /\ DOMAIN nodes[1].items = {}
      /\ nodes[1].right = 0 /\ nodes[1].high = Unbounded /\ nodes[1].hint = 0 /\ Len(nodes[1].keys) = 0 /\ Len(nodes[1].items) = 0
  BY <1>2, <1>3
<1>6. ArenaInv(nodes)
  <2>1. nodes \in Seq(Node)
    BY <1>1, <1>4
  <2>2. Extra(nodes[1]) = 0
    BY <1>5 DEF Extra
  <2>3. NodeInv(nodes, 1)
    BY <1>2, <1>5, <2>2 DEF NodeInv
  <2> QED BY <1>2, <2>1, <2>3 DEF ArenaInv
<1>7. \A t \in Threads : pc[t] = "idle" /\ at[t] = 0 /\ job[t] = NoJob /\ split[t] = NoSplit
  BY <1>1, <1>2
<1>8. NoJob \in Jobs /\ NoSplit \in Splits /\ "idle" \in Phases /\ NoJob.type = "none"
      /\ NoSplit.child = 0 /\ NoSplit.right = 0 /\ NoSplit.hint = 0
  BY DEF NoJob, Jobs, NoSplit, Splits, NoNode, Phases
<1>9. ShapeInv
  <2>1. \A t \in Threads : ThreadInv(t) /\ RehomeInv(t)
    BY <1>2, <1>7, <1>8 DEF ThreadInv, RehomeInv, Placed, Holding, HasSplit
  <2> QED BY <1>1, <1>2, <1>6, <1>8, <2>1 DEF ShapeInv
<1>10. LockInv
  BY <1>7 DEF LockInv, Holding
<1>11. LevelInv
  <2>1. IsLevel(nodes, [n \in DOMAIN nodes |-> 0])
    BY <1>2, <1>5 DEF IsLevel, NoNode
  <2> QED BY <1>7, <2>1 DEF LevelInv, Untold
<1>12. \A q, c : q \in DOMAIN nodes => ~HasChild(nodes[q], c)
  BY <1>2, <1>5 DEF HasChild
<1>13. FamilyInv
  <2>1. ~IsChild(nodes, root)
    BY <1>12 DEF IsChild
  <2>2. OneParent(nodes)
    BY <1>2, <1>5 DEF OneParent, Distinct
  <2>3. HintsFit(nodes)
    BY <1>2, <1>5 DEF HintsFit
  <2> QED BY <1>7, <2>1, <2>2, <2>3 DEF FamilyInv, WithHalf, Untold
<1>14. FirstInv
  <2>1. Rights(nodes) = {0} /\ Leaves(nodes) = {1}
    BY <1>2, <1>5 DEF Rights, Leaves
  <2>2. Leftmost(nodes)
    BY <1>2, <1>5 DEF Leftmost
  <2>3. 1 \in ChainFrom(nodes, 1)
    BY <1>2, <1>6, ChainCloses
  <2> QED BY <1>1, <2>1, <2>2, <2>3 DEF FirstInv, Rightwards
<1>15. FreshInv
  <2>1. Held(nodes) = {}
    BY <1>2, <1>5, HeldIs
  <2>2. \A t \in Threads : ~Adding(t)
    BY <1>7 DEF Adding
  <2> QED BY <2>1, <2>2 DEF FreshInv
<1> QED BY <1>9, <1>10, <1>11, <1>13, <1>14, <1>15 DEF TreeInv

-----------------------------------------------------------------------------

\* The inductive invariant holds in every state, for any threads, keys, capacity and arena size, as
\* long as nothing is removed and split_internal_'s unguarded walk (bplus_tree.cpp:289) meets
\* nobody.
THEOREM TreeInvHolds == NoRemoves => (Spec /\ []NodesAreGuarded => []TreeInv)
<1> SUFFICES ASSUME NoRemoves PROVE Spec /\ []NodesAreGuarded => []TreeInv
  OBVIOUS
<1>1. Init => TreeInv
  BY TreeInit
<1>2. TreeInv /\ NodesAreGuarded /\ [Next]_vars => TreeInv'
  BY TreeStep
<1> QED BY <1>1, <1>2, PTL DEF Spec

\* The invariant implies the type invariant.
LEMMA TypeIs ==
    ASSUME TreeInv
    PROVE  TypeOK
<1>1. /\ ShapeInv /\ ArenaInv(nodes) /\ Len(nodes) \in Nat /\ DOMAIN nodes = 1..Len(nodes) /\ root \in DOMAIN nodes
  BY TreeIs
<1>2. ASSUME NEW n \in DOMAIN nodes
      PROVE  LET x == nodes[n]   N == 0..Len(nodes) IN
             /\ x.right \in N /\ x.hint \in N /\ x.high \in Keys \cup {Unbounded}
             /\ Len(x.items) = Len(x.keys) + (IF x.leaf THEN 0 ELSE 1)
             /\ ToSet(x.keys) \subseteq Keys
             /\ ToSet(x.items) \subseteq (IF x.leaf THEN Ids ELSE DOMAIN nodes)
  <2>1. nodes[n] \in Node /\ NodeInv(nodes, n)
    BY <1>1, ArenaIs
  <2>2. ToSet(nodes[n].keys) \subseteq Keys
    <3>1. nodes[n].keys \in Seq(Keys)
      BY <2>1, NodeIs
    <3> QED BY <3>1 DEF ToSet
  <2>3. ToSet(nodes[n].items) \subseteq (IF nodes[n].leaf THEN Ids ELSE DOMAIN nodes)
    BY <2>1 DEF NodeInv, ToSet
  <2>4. nodes[n].high \in Keys \cup {Unbounded}
    BY <2>1, NodeIs
  <2> QED BY <2>1, <2>2, <2>3, <2>4 DEF NodeInv, Extra
<1>3. ASSUME NEW t \in Threads
      PROVE  /\ pc[t] \in Holding \cup {"idle", "enter", "climb", "grow", "hintLeft", "hintRight", "answer"}
             /\ at[t] \in 0..Len(nodes) /\ job[t].type \in {"none", "insert", "scan"}
             /\ {split[t].child, split[t].right, split[t].hint} \subseteq 0..Len(nodes)
  <2>1. ThreadInv(t)
    BY <1>1, ThreadIs
  <2>2. pc[t] \in Phases /\ job[t] \in Jobs
    BY <1>1, TypesOf
  <2> QED BY <2>1, <2>2 DEF ThreadInv, Phases, Jobs
<1> QED BY <1>1, <1>2, <1>3 DEF TypeOK

\* It implies that hints, and threads, are at parents or left of them.
LEMMA HintsLead ==
    ASSUME TreeInv
    PROVE  HintsLeadToParents
<1>1. ShapeInv /\ FamilyInv /\ ArenaInv(nodes)
  BY TreeIs
<1>2. ASSUME NEW q \in InTree, ~nodes[q].leaf, NEW n \in ToSet(nodes[q].items), nodes[n].hint # NoNode
      PROVE  q \in Rightwards(nodes[n].hint)
  <2>1. q \in DOMAIN nodes
    BY InTreeIs
  <2>2. PICK i \in DOMAIN nodes[q].items : nodes[q].items[i] = n
    BY DEF ToSet
  <2>3. n \in DOMAIN nodes
    BY <1>1, <1>2, <2>1, <2>2, ArenaIs DEF NodeInv
  <2>4. Below(nodes, nodes[n].hint, n)
    BY <1>1, <1>2, <2>3 DEF FamilyInv, HintsFit
  <2>5. PICK p \in ChainFrom(nodes, nodes[n].hint) : HasChild(nodes[p], n)
    BY <2>4 DEF Below
  <2>6. nodes[n].hint \in DOMAIN nodes
    BY <1>1, <1>2, <2>3, ArenaIs DEF NodeInv, NoNode
  <2>7. p \in DOMAIN nodes
    BY <1>1, <2>6, ChainCloses
  <2>8. ~nodes[p].leaf /\ \E j \in DOMAIN nodes[p].items : nodes[p].items[j] = n
    BY <2>5, HasChildIs
  <2>9. p = q
    BY <1>1, <1>2, <2>1, <2>2, <2>7, <2>8 DEF FamilyInv, OneParent, Distinct
  <2> QED BY <2>9 DEF Rightwards
<1>3. ASSUME NEW t \in Threads, pc[t] = "seek"
      PROVE  \E p \in Rightwards(at[t]) : HasChild(nodes[p], split[t].child)
  BY <1>1, <1>3 DEF FamilyInv, Below, Rightwards
<1> QED BY <1>2, <1>3 DEF HintsLeadToParents

(* What a step does to the pairs: an insert adds its own at its leaf, nothing else does anything. *)
LEMMA HeldStep ==
    ASSUME TreeInv, NodesAreGuarded, NoRemoves, [Next]_vars
    PROVE  \/ Held(nodes') = Held(nodes)
           \/ \E t \in Threads : /\ Adding(t) /\ job[t].lo \in Keys /\ job[t].id \in Ids
                               /\ Held(nodes') = Held(nodes) \cup {<<job[t].lo, job[t].id>>}
<1>1. CASE Next
  <2>1. PICK t \in Threads : \/ BeginInsert(t) \/ InsertHere(t)
                             \/ GrowRoot(t) \/ RereadHint(t) \/ HintLeft(t) \/ HintRight(t)
                             \/ Seek(t) \/ Splice(t) \/ Rehome(t)
                             \/ BeginScan(t) \/ ScanLeaf(t) \/ Answer(t) \/ Enter(t) \/ Walk(t)
    BY <1>1, StepCases
  <2>2. CASE BeginInsert(t) \/ BeginScan(t) \/ RereadHint(t) \/ Seek(t) \/ ScanLeaf(t) \/ Answer(t) \/ Enter(t) \/ Walk(t)
    <3>1. CASE BeginInsert(t) \/ BeginScan(t) \/ RereadHint(t) \/ Seek(t)
      BY <3>1 DEF BeginInsert, BeginScan, RereadHint, Seek, tree
    <3>2. CASE ScanLeaf(t)
      BY <3>2 DEF ScanLeaf, tree
    <3>3. CASE Answer(t) \/ Enter(t) \/ Walk(t)
      BY <3>3 DEF Answer, Enter, Walk, tree
    <3> QED BY <2>2, <3>1, <3>2, <3>3
  <2>3. CASE InsertHere(t)
    <3>1. Held(nodes') = Held(nodes) \cup {<<job[t].lo, job[t].id>>}
      BY <2>3, InsertHereStep
    <3>2. pc[t] = "walk" /\ job[t].type = "insert"
      BY <2>3 DEF InsertHere, AtItsLeaf
    <3>3. ThreadInv(t)
      BY TreeIs, ThreadIs
    <3> QED BY <3>1, <3>2, <3>3 DEF Adding, ThreadInv
  <2>4. CASE GrowRoot(t)
    BY <2>4, GrowRootStep
  <2>5. CASE HintLeft(t) \/ HintRight(t)
    BY <2>5, HintLeftStep, HintRightStep
  <2>6. CASE Splice(t) \/ Rehome(t)
    BY <2>6, SpliceStep, RehomeStep
  <2> QED BY <2>1, <2>2, <2>3, <2>4, <2>5, <2>6
<1>2. CASE UNCHANGED vars
  BY <1>2 DEF vars, tree
<1> QED BY <1>1, <1>2

\* A step adds the pair of an insert to the set, or leaves the set alone.
LEMMA SetStep ==
    ASSUME TreeInv, TreeInv', NodesAreGuarded, NoRemoves, [Next]_vars
    PROVE  [Set!Next]_Pairs
<1>1. Pairs = Held(nodes)
  BY PairsAreHeld
<1>2. Pairs' = Held(nodes')
  <2>1. /\ ArenaInv(nodes') /\ root' \in DOMAIN nodes' /\ root' \notin Rights(nodes') /\ FirstIn(nodes')
        /\ \E level : IsLevel(nodes', level)
    BY DEF TreeInv, ShapeInv, LevelInv, FirstInv, FirstIn, Rightwards
  <2>2. PairsOf(Tree(nodes', root')) = Held(nodes')
    BY <2>1, TreeHolds
  <2> QED BY <2>2 DEF Pairs
<1>3. CASE Held(nodes') = Held(nodes)
  BY <1>1, <1>2, <1>3
<1>4. ASSUME NEW t \in Threads, Adding(t), job[t].lo \in Keys, job[t].id \in Ids,
             Held(nodes') = Held(nodes) \cup {<<job[t].lo, job[t].id>>}
      PROVE  Set!Next
  <2> DEFINE e == <<job[t].lo, job[t].id>>
  <2>1. e \in Keys \X Ids /\ e[2] = job[t].id
    BY <1>4
  <2>2. e \notin Held(nodes)
    BY <1>4, <2>1, TreeIs DEF FreshInv
  <2>3. Pairs' = Pairs \cup {e} /\ e \notin Pairs
    BY <1>1, <1>2, <1>4, <2>2
  <2> HIDE DEF e
  <2>4. Set!Insert(e) /\ Pairs' # Pairs
    BY <2>3 DEF Set!Insert
  <2> QED BY <2>1, <2>4 DEF Set!Next
<1> QED BY <1>3, <1>4, HeldStep

\* Nodes have one child more than keys and link into the arena, and threads only hold nodes of it,
\* through every interleaving of inserts and scans (insert() and range()).
THEOREM TypesAreKept == NoRemoves => (Spec /\ []NodesAreGuarded => []TypeOK)
<1>1. TreeInv => TypeOK
  BY TypeIs
<1> QED BY <1>1, TreeInvHolds, PTL

\* A parent hint is never too far to the right, whoever split the parent since: what
\* move_right_to_child_ asserts, that its walk to the right finds the parent, always holds.
THEOREM HintsAlwaysLead == NoRemoves => (Spec /\ []NodesAreGuarded => []HintsLeadToParents)
<1>1. TreeInv => HintsLeadToParents
  BY HintsLead
<1> QED BY <1>1, TreeInvHolds, PTL

\* The tree implements a set of pairs: an insert() makes its pair appear in one step, at its leaf,
\* and no split, splice, new root or hint of any thread makes one appear or vanish.
THEOREM TreeIsASet == NoRemoves => (Spec /\ []NodesAreGuarded => ImplementsPairSet)
<1> SUFFICES ASSUME NoRemoves PROVE Spec /\ []NodesAreGuarded => ImplementsPairSet
  OBVIOUS
<1>1. Init => Set!Init
  <2> SUFFICES ASSUME Init PROVE Set!Init
    OBVIOUS
  <2>1. Pairs = Held(nodes)
    BY TreeInit, PairsAreHeld
  <2>2. Held(nodes) = {}
    <3>1. DOMAIN nodes = {1} /\ nodes[1].keys = <<>>
      BY DEF Init, EmptyLeaf
    <3>2. DOMAIN nodes[1].keys = {}
      BY <3>1
    <3> QED BY <3>1, <3>2, HeldIs
  <2> QED BY <2>1, <2>2 DEF Set!Init
<1>2. TreeInv /\ TreeInv' /\ NodesAreGuarded /\ [Next]_vars => [Set!Next]_Pairs
  BY SetStep
<1> QED BY <1>1, <1>2, TreeInvHolds, PTL DEF Spec, Set!Spec, ImplementsPairSet

-----------------------------------------------------------------------------
(* A search for k in an arena nobody changes. *)

\* Where a search for k goes from node n, when it goes on.
Onwards(ns, k, n) == IF k > ns[n].high THEN ns[n].right ELSE ChildFor(ns[n], k)
\* A search for k ends at node n.
Arrived(ns, k, n) == ns[n].leaf /\ ~(k > ns[n].high)

\* T holds n and is closed under the steps of a search for k.
Passes(ns, k, n, T) == n \in T /\ \A x \in T : Arrived(ns, k, x) \/ Onwards(ns, k, x) \in T
\* The nodes a search for k that comes to n comes to.
Path(ns, k, n) == {q \in DOMAIN ns : \A T \in SUBSET DOMAIN ns : Passes(ns, k, n, T) => q \in T}

\* f satisfies the equation of the recursive function in LeafFor.
Finds(f, ns, k) ==
    f = [n \in DOMAIN ns |-> IF k > ns[n].high THEN f[ns[n].right]
                             ELSE IF ns[n].leaf THEN n ELSE f[ChildFor(ns[n], k)]]

\* A search that goes on goes to a node.
LEMMA OnwardsIs ==
    ASSUME NEW ns, ArenaInv(ns), NEW k \in Keys, NEW n \in DOMAIN ns, ~Arrived(ns, k, n)
    PROVE  Onwards(ns, k, n) \in DOMAIN ns
<1>1. CASE k > ns[n].high
  <2>1. ns[n].high # Unbounded
    BY <1>1, KeysAre
  <2>2. ns[n].right # NoNode
    BY <2>1, ArenaIs DEF NodeInv
  <2> QED BY <1>1, <2>2, RightIs DEF Onwards
<1>2. CASE ~(k > ns[n].high)
  <2>1. ~ns[n].leaf
    BY <1>2 DEF Arrived
  <2> QED BY <1>2, <2>1, ChildForIs DEF Onwards
<1> QED BY <1>1, <1>2

\* A path is a node and the path from the node it goes on to: this is why that function exists.
LEMMA PathStep ==
    ASSUME NEW ns, ArenaInv(ns), NEW k \in Keys, NEW n \in DOMAIN ns
    PROVE  /\ Arrived(ns, k, n) => Path(ns, k, n) = {n}
           /\ ~Arrived(ns, k, n) => Path(ns, k, n) = {n} \cup Path(ns, k, Onwards(ns, k, n))
<1>1. n \in Path(ns, k, n)
  BY DEF Path, Passes
<1>2. ASSUME Arrived(ns, k, n) PROVE Path(ns, k, n) = {n}
  <2>1. Passes(ns, k, n, {n})
    BY <1>2 DEF Passes
  <2> QED BY <1>1, <2>1 DEF Path
<1>3. ASSUME ~Arrived(ns, k, n) PROVE Path(ns, k, n) = {n} \cup Path(ns, k, Onwards(ns, k, n))
  <2> DEFINE m == Onwards(ns, k, n)
             P == Path(ns, k, m)
  <2>1. m \in DOMAIN ns
    BY <1>3, OnwardsIs
  <2>2. m \in P /\ P \subseteq DOMAIN ns
    BY <2>1 DEF Path, Passes
  <2>3. ASSUME NEW x \in P, ~Arrived(ns, k, x) PROVE Onwards(ns, k, x) \in P
    <3>1. Onwards(ns, k, x) \in DOMAIN ns
      BY <2>2, <2>3, OnwardsIs
    <3>2. \A T \in SUBSET DOMAIN ns : Passes(ns, k, m, T) => Onwards(ns, k, x) \in T
      BY <2>3 DEF Path, Passes
    <3> QED BY <3>1, <3>2 DEF Path
  <2>4. ASSUME NEW q \in P PROVE q \in Path(ns, k, n)
    <3>1. \A T \in SUBSET DOMAIN ns : Passes(ns, k, n, T) => Passes(ns, k, m, T)
      BY <1>3 DEF Passes
    <3> QED BY <2>2, <3>1 DEF Path
  <2> HIDE DEF P
  <2>5. Path(ns, k, n) \subseteq {n} \cup P
    <3>1. Passes(ns, k, n, {n} \cup P) /\ {n} \cup P \in SUBSET DOMAIN ns
      BY <2>2, <2>3 DEF Passes
    <3> QED BY <3>1 DEF Path
  <2> QED BY <1>1, <2>4, <2>5 DEF P
<1> QED BY <1>2, <1>3

\* So there is a function that satisfies it, also on arenas where the search would not end.
LEMMA FindsExists ==
    ASSUME NEW ns, ArenaInv(ns), NEW k \in Keys
    PROVE  \E f : Finds(f, ns, k)
<1> DEFINE f == [n \in DOMAIN ns |-> CHOOSE x : x \in Path(ns, k, n) /\ Arrived(ns, k, x)]
<1>1. ASSUME NEW n \in DOMAIN ns, Arrived(ns, k, n) PROVE f[n] = n
  <2>1. Path(ns, k, n) = {n}
    BY <1>1, PathStep
  <2>2. \A x : x \in Path(ns, k, n) /\ Arrived(ns, k, x) <=> x = n
    BY <1>1, <2>1
  <2> QED BY <2>2
<1>2. ASSUME NEW n \in DOMAIN ns, ~Arrived(ns, k, n) PROVE f[n] = f[Onwards(ns, k, n)]
  <2>1. Path(ns, k, n) = {n} \cup Path(ns, k, Onwards(ns, k, n)) /\ Onwards(ns, k, n) \in DOMAIN ns
    BY <1>2, PathStep, OnwardsIs
  <2>2. \A x : x \in Path(ns, k, n) /\ Arrived(ns, k, x) <=> x \in Path(ns, k, Onwards(ns, k, n)) /\ Arrived(ns, k, x)
    BY <1>2, <2>1
  <2>3. f[n] = CHOOSE x : x \in Path(ns, k, n) /\ Arrived(ns, k, x)
    OBVIOUS
  <2>4. f[Onwards(ns, k, n)] = CHOOSE x : x \in Path(ns, k, Onwards(ns, k, n)) /\ Arrived(ns, k, x)
    BY <2>1
  <2>5. (CHOOSE x : x \in Path(ns, k, n) /\ Arrived(ns, k, x))
        = CHOOSE x : x \in Path(ns, k, Onwards(ns, k, n)) /\ Arrived(ns, k, x)
    BY <2>2
  <2> QED BY <2>3, <2>4, <2>5
<1>3. f = [n \in DOMAIN ns |-> f[n]]
  OBVIOUS
<1> HIDE DEF f
<1>4. Finds(f, ns, k)
  <2>1. ASSUME NEW n \in DOMAIN ns
        PROVE  f[n] = IF k > ns[n].high THEN f[ns[n].right] ELSE IF ns[n].leaf THEN n ELSE f[ChildFor(ns[n], k)]
    <3>1. CASE k > ns[n].high
      BY <1>2, <3>1 DEF Arrived, Onwards
    <3>2. CASE ~(k > ns[n].high) /\ ns[n].leaf
      BY <1>1, <3>2 DEF Arrived
    <3>3. CASE ~(k > ns[n].high) /\ ~ns[n].leaf
      BY <1>2, <3>3 DEF Arrived, Onwards
    <3> QED BY <3>1, <3>2, <3>3
  <2> QED BY <1>3, <2>1 DEF Finds
<1> QED BY <1>4

\* A child a search goes to begins below the key it looks for.
LEMMA ChildBelow ==
    ASSUME NEW ns, ArenaInv(ns), NEW low, LowIs(ns, low), NEW n \in DOMAIN ns, ~ns[n].leaf, NEW k \in Nat, low[n] < k
    PROVE  ChildFor(ns[n], k) \in DOMAIN ns /\ low[ChildFor(ns[n], k)] < k /\ \E i \in DOMAIN ns[n].items : ChildFor(ns[n], k) = ns[n].items[i]
<1>1. PICK L \in Nat : /\ L = Len(ns[n].keys) /\ Len(ns[n].items) = L + 1
                       /\ DOMAIN ns[n].keys = 1..L /\ DOMAIN ns[n].items = 1..(L + 1)
                       /\ \A i \in 1..(L + 1) : ns[n].items[i] \in DOMAIN ns
  BY ChildAt
<1>2. PICK p \in 1..(L + 1) : p = LowerBound(ns[n].keys, k) /\ (p > 1 => ns[n].keys[p - 1] < k)
  <2>1. Bounds(ns[n].keys, k, 1, Len(ns[n].keys), LowerBound(ns[n].keys, k))
    BY <1>1, LowerBoundIs
  <2> QED BY <1>1, <2>1 DEF Bounds
<1>3. ChildFor(ns[n], k) = ns[n].items[p]
  BY <1>2 DEF ChildFor
<1>4. low[ns[n].items[1]] = low[n] /\ \A i \in 1..L : low[ns[n].items[i + 1]] = ns[n].keys[i]
  <2>1. NodeLow(ns, low, n)
    BY LowAt
  <2> QED BY <1>1, <2>1 DEF NodeLow
<1>5. low[ns[n].items[p]] < k
  <2>1. CASE p = 1
    BY <1>4, <2>1
  <2>2. CASE p > 1
    <3>1. PICK i \in 1..L : i = p - 1 /\ i + 1 = p
      BY <2>2
    <3> QED BY <1>2, <1>4, <2>2, <3>1
  <2> QED BY <2>1, <2>2
<1> QED BY <1>1, <1>3, <1>5

\* In a tree in order each function that satisfies it ends at a leaf that begins below the key.
LEMMA FindsLeaf ==
    ASSUME NEW ns, ArenaInv(ns), Ends(ns), NEW level, IsLevel(ns, level), NEW low, LowIs(ns, low),
           NEW k \in Keys, NEW f, Finds(f, ns, k), NEW n \in DOMAIN ns, low[n] < k
    PROVE  f[n] \in DOMAIN ns /\ ns[f[n]].leaf /\ low[f[n]] < k
<1> DEFINE Ok(x) == f[x] \in DOMAIN ns /\ ns[f[x]].leaf /\ low[f[x]] < k
           Bad == {x \in DOMAIN ns : low[x] < k /\ ~Ok(x)}
<1>1. \A x \in DOMAIN ns : f[x] = IF k > ns[x].high THEN f[ns[x].right] ELSE IF ns[x].leaf THEN x ELSE f[ChildFor(ns[x], k)]
  BY DEF Finds
<1>2. level \in [DOMAIN ns -> Nat] /\ k \in Nat
  BY KeysAre DEF IsLevel
<1> SUFFICES ASSUME n \in Bad PROVE FALSE
  OBVIOUS
<1>3. PICK b \in Bad : \A x \in Bad : level[b] <= level[x]
  <2>1. {level[x] : x \in Bad} \in SUBSET Nat /\ {level[x] : x \in Bad} # {}
    BY <1>2
  <2>2. PICK m \in {level[x] : x \in Bad} : \A j \in {level[x] : x \in Bad} : m <= j
    BY <2>1, LeastElement
  <2> QED BY <2>2
<1> DEFINE T == {x \in Bad : level[x] = level[b]}
<1>4. ASSUME NEW x \in T PROVE k > ns[x].high /\ ns[x].right \in T
  <2>1. /\ x \in DOMAIN ns /\ low[x] < k /\ ~Ok(x) /\ level[x] = level[b]
    OBVIOUS
  <2>2. k > ns[x].high
    <3> SUFFICES ASSUME ~(k > ns[x].high) PROVE FALSE
      OBVIOUS
    <3>1. ~ns[x].leaf
      BY <1>1, <2>1
    <3>2. f[x] = f[ChildFor(ns[x], k)]
      BY <1>1, <2>1, <3>1
    <3>3. PICK c \in DOMAIN ns : c = ChildFor(ns[x], k) /\ low[c] < k /\ \E i \in DOMAIN ns[x].items : c = ns[x].items[i]
      BY <1>2, <2>1, <3>1, ChildBelow
    <3>4. level[c] + 1 = level[x]
      BY <2>1, <3>1, <3>3 DEF IsLevel
    <3>5. c \in Bad
      BY <2>1, <3>2, <3>3
    <3>6. level[b] <= level[c] /\ level[c] \in Nat /\ level[b] \in Nat
      BY <1>2, <1>3, <3>5
    <3> QED BY <2>1, <3>4, <3>6
  <2>3. Onwards(ns, k, x) = ns[x].right /\ ~Arrived(ns, k, x)
    BY <2>2 DEF Onwards, Arrived
  <2>4. ns[x].right \in DOMAIN ns
    BY <2>1, <2>3, OnwardsIs
  <2>5. ns[x].right # NoNode
    BY <2>4, ArenaIs DEF NoNode
  <2>6. low[ns[x].right] = ns[x].high /\ ns[x].high \in Nat
    BY <2>1, <2>5, LowAt
  <2>7. level[ns[x].right] = level[b]
    BY <2>1, <2>5 DEF IsLevel
  <2>8. f[x] = f[ns[x].right]
    BY <1>1, <2>1, <2>2
  <2> QED BY <2>1, <2>2, <2>4, <2>6, <2>7, <2>8
<1>5. b \in T /\ T \in SUBSET DOMAIN ns
  OBVIOUS
<1> HIDE DEF T
<1>6. b \in DOMAIN ns /\ ChainFrom(ns, b) \subseteq T
  BY <1>4, <1>5, ChainCloses
<1>7. PICK y \in ChainFrom(ns, b) : ns[y].right = NoNode
  BY <1>6 DEF Ends
<1>8. y \in T
  BY <1>6
<1>9. ns[y].right \in DOMAIN ns
  BY <1>4, <1>5, <1>8
<1> QED BY <1>7, <1>9, ArenaIs DEF NoNode

\* In every state, then, a search finds the pairs of its key.
LEMMA NothingLost ==
    ASSUME TreeInv, OrderInv
    PROVE  NothingIsLost
<1> SUFFICES ASSUME NEW k \in Keys, NEW e \in Pairs, e[1] = k
             PROVE  e \in UNION {PairsIn(nodes[n]) : n \in Rightwards(LeafFor(k))}
  BY DEF NothingIsLost
<1>1. ArenaInv(nodes) /\ FirstIn(nodes) /\ root \in DOMAIN nodes /\ LevelInv
  BY TreeIs DEF Good
<1>2. PICK level : IsLevel(nodes, level)
  BY <1>1 DEF LevelInv
<1>3. Ends(nodes) /\ \E low : LowIs(nodes, low) /\ low[root] = -1
  BY DEF OrderInv
<1>4. PICK low : LowIs(nodes, low) /\ low[root] = -1
  BY <1>3
<1>5. k \in Nat /\ low[root] < k
  BY <1>4, KeysAre
<1> DEFINE f == CHOOSE f : Finds(f, nodes, k)
<1>6. Finds(f, nodes, k)
  BY <1>1, FindsExists
<1>7. LeafFor(k) = f[root]
  BY DEF LeafFor, Finds
<1> HIDE DEF f
<1>8. f[root] \in DOMAIN nodes /\ nodes[f[root]].leaf /\ low[f[root]] < k
  BY <1>1, <1>2, <1>3, <1>4, <1>5, <1>6, FindsLeaf
<1>9. e \in Held(nodes)
  BY PairsAreHeld
<1>10. e \in Beyond(nodes, f[root])
  <2>1. k <= e[1]
    BY <1>5
  <2> QED BY <1>1, <1>2, <1>4, <1>5, <1>8, <1>9, <2>1, FoundBeyond
<1> QED BY <1>7, <1>10 DEF Beyond, Rightwards

(* The order is kept. *)

\* Thread t does nothing to what the others scan.
Aloof(t) == \A u \in Threads \ {t} : out'[u] = out[u] /\ before'[u] = before[u]

\* No leaf has less to the right of it, nor more than D.
Spreads(D) ==
    \A x \in DOMAIN nodes : /\ Beyond(nodes, x) \subseteq Beyond(nodes', x)
                            /\ Beyond(nodes', x) \subseteq Beyond(nodes, x) \cup D

\* The others' places stay in order: to their nodes nothing happens that they look at.
LEMMA OtherPlaced ==
    ASSUME ShapeInv, NEW t \in Threads, Moves(t), Aloof(t), Keeps(nodes, nodes'), NEW low, NEW l, Agree(nodes, low, l),
           NEW u \in Threads \ {t}, PlaceInv(u, low)
    PROVE  PlaceInv(u, l)'
<1>1. pc'[u] = pc[u] /\ at'[u] = at[u] /\ job'[u] = job[u] /\ split'[u] = split[u] /\ out'[u] = out[u]
  BY DEF Moves, Aloof
<1>2. Searching(u) => at[u] \in DOMAIN nodes /\ nodes'[at[u]].leaf = nodes[at[u]].leaf /\ l[at[u]] = low[at[u]]
  BY ThreadIs DEF Searching, Placed, Holding, Keeps, Agree
<1>3. pc[u] \in Untold => l[split[u].right] = low[split[u].right]
  BY ThreadIs DEF Untold, HasSplit, Agree
<1> QED BY <1>1, <1>2, <1>3 DEF PlaceInv, OnLeaves, Searching, Scanning

\* A step that changes the arena keeps its order.
LEMMA OrderStep ==
    ASSUME TreeInv, TreeInv', OrderInv, NEW t \in Threads, Rests(t), Aloof(t), NEW D, Orders(t, D)
    PROVE  OrderInv' /\ Spreads(D)
<1>1. ShapeInv /\ ArenaInv(nodes') /\ root \in DOMAIN nodes
  <2>1. ShapeInv'
    BY DEF TreeInv
  <2> QED BY <2>1, TreeIs DEF ShapeInv
<1>2. PICK low : LowIs(nodes, low) /\ low[root] = -1 /\ \A u \in Threads : PlaceInv(u, low)
  BY DEF OrderInv
<1>3. Ordered(nodes, nodes', low, D)
  BY <1>2 DEF Orders, OrderInv
<1>4. PICK l : LowIs(nodes', l) /\ Agree(nodes, low, l)
  BY <1>3 DEF Ordered
<1>5. l[root'] = -1
  BY <1>1, <1>2, <1>4 DEF Rests, Agree
<1>6. \A u \in Threads \ {t} : PlaceInv(u, l)'
  BY <1>1, <1>2, <1>4, OtherPlaced DEF Rests
<1>7. PlaceInv(t, l)'
  <2>1. ~Searching(t)' /\ ~OnLeaves(t)'
    BY DEF Rests, OnLeaves
  <2>2. pc'[t] \in Untold => l[split'[t].right] = split'[t].sep
    <3> SUFFICES ASSUME pc'[t] \in Untold PROVE l[split'[t].right] = split'[t].sep
      OBVIOUS
    <3>1. /\ split'[t].child \in DOMAIN nodes' /\ split'[t].right # NoNode
          /\ split'[t].right = nodes'[split'[t].child].right /\ split'[t].sep = nodes'[split'[t].child].high
      BY DEF Rests, UntoldFits
    <3> QED BY <1>1, <1>4, <3>1, LowAt
  <2> QED BY <2>1, <2>2 DEF PlaceInv
<1>8. Ends(nodes') /\ OnePlace(nodes') /\ Spreads(D)
  BY <1>3 DEF Ordered, Spreads
<1> QED BY <1>4, <1>5, <1>6, <1>7, <1>8 DEF OrderInv

\* So does one that changes only its thread's place.
LEMMA OrderStill ==
    ASSUME TreeInv, OrderInv, NEW t \in Threads, Moves(t), Aloof(t), nodes' = nodes, root' = root,
           \A low : LowIs(nodes, low) /\ low[root] = -1 /\ PlaceInv(t, low) => PlaceInv(t, low)'
    PROVE  OrderInv'
<1>1. PICK low : LowIs(nodes, low) /\ low[root] = -1 /\ \A u \in Threads : PlaceInv(u, low)
  BY DEF OrderInv
<1>2. Keeps(nodes, nodes') /\ Agree(nodes, low, low) /\ ShapeInv
  BY TreeIs DEF Keeps, Agree
<1>3. \A u \in Threads \ {t} : PlaceInv(u, low)'
  BY <1>1, <1>2, OtherPlaced
<1>4. PlaceInv(t, low)'
  BY <1>1
<1> QED BY <1>1, <1>3, <1>4 DEF OrderInv

\* The thread's scan, if it has one, is over, or what it has collected stays.
Drops(t) == \/ out' = out /\ before' = before
            \/ out' = [out EXCEPT ![t] = <<>>] /\ before' = [before EXCEPT ![t] = {}]

\* Either way the scans are typed and the others' are as they were.
LEMMA DropsIs ==
    ASSUME ScansInv, NEW t \in Threads, Drops(t)
    PROVE  /\ Aloof(t) /\ out' \in [Threads -> Seq(Keys \X Ids)] /\ before' \in [Threads -> SUBSET (Keys \X Ids)]
           /\ out'[t] \in {out[t], <<>>}
<1>1. out \in [Threads -> Seq(Keys \X Ids)] /\ before \in [Threads -> SUBSET (Keys \X Ids)]
  BY DEF ScansInv
<1>2. <<>> \in Seq(Keys \X Ids) /\ {} \in SUBSET (Keys \X Ids)
  OBVIOUS
<1> QED BY <1>1, <1>2 DEF Drops, Aloof

\* A thread at work on an insert has collected nothing.
LEMMA Quiescent ==
    ASSUME TreeInv, ScansInv, NEW t \in Threads, pc[t] \notin {"enter", "walk", "answer"}
    PROVE  ~Scanning(t) /\ out[t] = <<>>
BY DEF ScansInv, ScanInv

\* An insert begins at the root, which begins below every key.
LEMMA BeginInsertOrder ==
    ASSUME TreeInv, OrderInv, ScansInv, NEW t \in Threads, BeginInsert(t)
    PROVE  OrderInv' /\ Moves(t) /\ Aloof(t) /\ ~Scanning(t)' /\ pc'[t] = "enter" /\ out' = out /\ before' = before
<1>1. ShapeInv /\ root \in DOMAIN nodes /\ DOMAIN nodes = 1..Len(nodes) /\ nextId \in Nat
  BY TreeIs
<1>2. PICK k \in Keys : job' = [job EXCEPT ![t] = [type |-> "insert", lo |-> k, hi |-> k, id |-> nextId]]
  BY DEF BeginInsert
<1> DEFINE j == [type |-> "insert", lo |-> k, hi |-> k, id |-> nextId]
<1>3. j \in Jobs /\ j.type = "insert" /\ j.lo = k /\ k \in Nat
  BY <1>1, KeysAre DEF Jobs
<1>4. job' = [job EXCEPT ![t] = j]
  BY <1>2
<1> HIDE DEF j
<1>5. /\ pc' = [pc EXCEPT ![t] = "enter"] /\ at' = [at EXCEPT ![t] = root]
      /\ nodes' = nodes /\ root' = root /\ split' = split /\ todo' = todo /\ out' = out /\ before' = before
  BY DEF BeginInsert, Goto, tree
<1>6. Moves(t) /\ pc'[t] = "enter" /\ at'[t] = root /\ job'[t] = j
  <2>1. "enter" \in Phases /\ root \in Nat
    BY <1>1 DEF Phases
  <2> QED BY <1>1, <1>3, <1>4, <1>5, <2>1, TypesOf DEF Moves
<1>7. Aloof(t)
  BY <1>5 DEF Aloof
<1>8. \A low : low[root] = -1 => PlaceInv(t, low)'
  <2> SUFFICES ASSUME NEW low, low[root] = -1 PROVE PlaceInv(t, low)'
    OBVIOUS
  <2>1. low[root] < k
    BY <1>3
  <2> QED BY <1>3, <1>6, <2>1 DEF PlaceInv, Untold, OnLeaves, Scanning
<1> QED BY <1>3, <1>5, <1>6, <1>7, <1>8, OrderStill DEF Scanning

\* So does a scan.
LEMMA BeginScanOrder ==
    ASSUME TreeInv, OrderInv, ScansInv, NEW t \in Threads, BeginScan(t)
    PROVE  /\ OrderInv' /\ Moves(t) /\ Aloof(t) /\ out' = out /\ before' = [before EXCEPT ![t] = Pairs]
           /\ pc'[t] = "enter" /\ at'[t] = root /\ job'[t].lo \in Keys /\ Scanning(t)'
<1>1. ShapeInv /\ root \in DOMAIN nodes /\ DOMAIN nodes = 1..Len(nodes)
  BY TreeIs
<1>2. PICK lo \in Keys : \E hi \in {lo, Max(Keys)} : job' = [job EXCEPT ![t] = [type |-> "scan", lo |-> lo, hi |-> hi, id |-> 0]]
  BY DEF BeginScan
<1>a. PICK hi \in {lo, Max(Keys)} : job' = [job EXCEPT ![t] = [type |-> "scan", lo |-> lo, hi |-> hi, id |-> 0]]
  BY <1>2
<1> DEFINE j == [type |-> "scan", lo |-> lo, hi |-> hi, id |-> 0]
<1>3. j \in Jobs /\ j.type = "scan" /\ j.lo = lo /\ lo \in Nat
  <2>1. lo \in Nat /\ hi \in Nat
    BY KeysAre
  <2> QED BY <2>1 DEF Jobs
<1>4. job' = [job EXCEPT ![t] = j]
  BY <1>a
<1> HIDE DEF j
<1>5. /\ pc' = [pc EXCEPT ![t] = "enter"] /\ at' = [at EXCEPT ![t] = root] /\ pc[t] = "idle"
      /\ nodes' = nodes /\ root' = root /\ split' = split /\ todo' = todo /\ out' = out
      /\ before' = [before EXCEPT ![t] = Pairs]
  BY DEF BeginScan, MayBegin, Goto, tree
<1>6. Moves(t) /\ pc'[t] = "enter" /\ at'[t] = root /\ job'[t] = j
  <2>1. "enter" \in Phases /\ root \in Nat
    BY <1>1 DEF Phases
  <2> QED BY <1>1, <1>3, <1>4, <1>5, <2>1, TypesOf DEF Moves
<1>7. Aloof(t) /\ out'[t] = <<>>
  <2>1. before \in [Threads -> SUBSET (Keys \X Ids)]
    BY DEF ScansInv
  <2> QED BY <1>5, <2>1, Quiescent DEF Aloof
<1>8. \A low : low[root] = -1 => PlaceInv(t, low)'
  <2> SUFFICES ASSUME NEW low, low[root] = -1 PROVE PlaceInv(t, low)'
    OBVIOUS
  <2>1. low[root] < lo
    BY <1>3
  <2>2. DOMAIN out'[t] = {}
    BY <1>7
  <2> QED BY <1>3, <1>6, <2>1, <2>2 DEF PlaceInv, Untold
<1> QED BY <1>3, <1>5, <1>6, <1>7, <1>8, OrderStill DEF Scanning

\* Taking a lock changes no place.
LEMMA EnterOrder ==
    ASSUME TreeInv, OrderInv, ScansInv, NEW t \in Threads, Enter(t)
    PROVE  /\ OrderInv' /\ Moves(t) /\ Aloof(t) /\ nodes' = nodes /\ out' = out /\ before' = before /\ at'[t] = at[t] /\ job'[t] = job[t]
           /\ \/ pc[t] = "enter" /\ pc'[t] = "walk"
              \/ pc[t] = "climb" /\ pc'[t] = "seek"
<1>1. ShapeInv
  BY TreeIs
<1>2. /\ pc[t] \in {"enter", "climb"}
      /\ pc' = [pc EXCEPT ![t] = IF pc[t] = "enter" THEN "walk" ELSE "seek"]
      /\ nodes' = nodes /\ root' = root /\ at' = at /\ job' = job /\ split' = split /\ todo' = todo
      /\ out' = out /\ before' = before
  BY DEF Enter, tree
<1>3. /\ Moves(t) /\ Aloof(t) /\ pc'[t] = (IF pc[t] = "enter" THEN "walk" ELSE "seek")
      /\ at'[t] = at[t] /\ job'[t] = job[t] /\ split'[t] = split[t]
  BY <1>1, <1>2, TypesOf DEF Moves, Aloof, Phases, Holding
<1>4. \A low : PlaceInv(t, low) => PlaceInv(t, low)'
  BY <1>2, <1>3 DEF PlaceInv, OnLeaves, Searching, Scanning, Untold
<1> QED BY <1>2, <1>3, <1>4, OrderStill

\* Nor does reading the hint again once a root is there.
LEMMA RereadHintOrder ==
    ASSUME TreeInv, OrderInv, NEW t \in Threads, RereadHint(t)
    PROVE  /\ OrderInv' /\ Moves(t) /\ Aloof(t) /\ nodes' = nodes /\ out' = out /\ before' = before
           /\ pc'[t] = "climb" /\ pc[t] = "grow" /\ job'[t] = job[t]
<1>1. ShapeInv /\ ArenaInv(nodes)
  BY TreeIs
<1> DEFINE h == nodes[split[t].child].hint
<1>2. /\ pc[t] = "grow"
      /\ split' = [split EXCEPT ![t].hint = h]
      /\ pc' = [pc EXCEPT ![t] = "climb"] /\ at' = [at EXCEPT ![t] = h]
      /\ nodes' = nodes /\ root' = root /\ job' = job /\ todo' = todo /\ out' = out /\ before' = before
  BY DEF RereadHint, Goto, tree
<1>3. split[t] \in Splits /\ [split[t] EXCEPT !.hint = h] \in Splits /\ h \in Nat
  <2>1. split[t].child \in DOMAIN nodes
    BY <1>1, <1>2, ThreadIs DEF HasSplit
  <2>2. split[t] \in Splits /\ h \in Nat
    BY <1>1, <2>1, TypesOf, ArenaIs, NodeIs
  <2> QED BY <2>2, HintedIs
<1> HIDE DEF h
<1>4. Moves(t) /\ Aloof(t) /\ pc'[t] = "climb" /\ job'[t] = job[t] /\ split'[t] = [split[t] EXCEPT !.hint = h]
  BY <1>1, <1>2, <1>3, TypesOf DEF Moves, Aloof, Phases
<1>5. split'[t].right = split[t].right /\ split'[t].sep = split[t].sep
  BY <1>3, <1>4 DEF Splits
<1>6. \A low : PlaceInv(t, low) => PlaceInv(t, low)'
  BY <1>2, <1>4, <1>5 DEF PlaceInv, OnLeaves, Searching, Untold
<1> QED BY <1>2, <1>4, <1>6, OrderStill

\* Nor does the walk to the parent, which only the hints are for.
LEMMA SeekOrder ==
    ASSUME TreeInv, OrderInv, NEW t \in Threads, Seek(t)
    PROVE  /\ OrderInv' /\ Moves(t) /\ Aloof(t) /\ nodes' = nodes /\ out' = out /\ before' = before
           /\ pc'[t] = "seek" /\ pc[t] = "seek" /\ job'[t] = job[t]
<1>1. ShapeInv /\ ArenaInv(nodes)
  BY TreeIs
<1> DEFINE r == nodes[at[t]].right
<1>2. /\ pc[t] = "seek" /\ at' = [at EXCEPT ![t] = r] /\ pc' = pc
      /\ nodes' = nodes /\ root' = root /\ job' = job /\ split' = split /\ todo' = todo /\ out' = out /\ before' = before
  BY DEF Seek, tree
<1>3. r \in Nat
  <2>1. at[t] \in DOMAIN nodes
    BY <1>1, <1>2, ThreadIs DEF Placed, Holding
  <2> QED BY <1>1, <2>1, ArenaIs, NodeIs
<1> HIDE DEF r
<1>4. Moves(t) /\ Aloof(t) /\ pc'[t] = "seek" /\ job'[t] = job[t] /\ split'[t] = split[t]
  BY <1>1, <1>2, <1>3, TypesOf DEF Moves, Aloof
<1>5. \A low : PlaceInv(t, low) => PlaceInv(t, low)'
  BY <1>2, <1>4 DEF PlaceInv, OnLeaves, Searching, Untold
<1> QED BY <1>2, <1>4, <1>5, OrderStill

\* A call that returns has no place.
LEMMA ReturnOrder ==
    ASSUME TreeInv, OrderInv, ScansInv, NEW t \in Threads, Return(t), nodes' = nodes, root' = root
    PROVE  OrderInv'
<1>1. ShapeInv /\ Len(nodes') \in Nat
  BY TreeIs
<1>2. Moves(t) /\ pc'[t] = "idle"
  BY <1>1, ReturnIs
<1>3. Aloof(t)
  BY DropsIs DEF Return, Drops
<1>4. \A low : PlaceInv(t, low)'
  BY <1>2 DEF PlaceInv, OnLeaves, Searching, Untold
<1> QED BY <1>2, <1>3, <1>4, OrderStill

\* The step of a walk from node m to n.
Goes(t, m, n) ==
    \/ job[t].lo > nodes[m].high /\ nodes[m].right # NoNode /\ n = nodes[m].right
    \/ ~(job[t].lo > nodes[m].high) /\ ~nodes[m].leaf /\ n = ChildFor(nodes[m], job[t].lo)

\* A walk goes right when the key is beyond the node, and else down.
LEMMA WalkGoes ==
    ASSUME TreeInv, NEW t \in Threads, Walk(t)
    PROVE  \E m, n \in DOMAIN nodes :
              /\ Moves(t) /\ Aloof(t) /\ nodes' = nodes /\ root' = root /\ out' = out /\ before' = before
              /\ pc[t] = "walk" /\ pc'[t] = "walk" /\ at[t] = m /\ at'[t] = n /\ job'[t] = job[t] /\ job[t].lo \in Keys
              /\ Goes(t, m, n)
<1>1. ShapeInv /\ ArenaInv(nodes) /\ DOMAIN nodes = 1..Len(nodes)
  BY TreeIs
<1>2. /\ pc[t] = "walk" /\ ~AtItsLeaf(t)
      /\ at' = [at EXCEPT ![t] = Step(t)] /\ pc' = pc
      /\ nodes' = nodes /\ root' = root /\ job' = job /\ split' = split /\ todo' = todo /\ out' = out /\ before' = before
  BY DEF Walk, tree
<1>3. at[t] \in DOMAIN nodes /\ job[t].lo \in Keys
  BY <1>1, <1>2, ThreadIs DEF Placed, Holding, ThreadInv
<1>4. Step(t) \in DOMAIN nodes /\ Goes(t, at[t], Step(t))
  <2>1. CASE BeyondHigh(t)
    <3>1. job[t].lo > nodes[at[t]].high
      BY <2>1 DEF BeyondHigh
    <3>2. nodes[at[t]].high # Unbounded
      <4>1. job[t].lo \in Nat /\ job[t].lo < Unbounded /\ Unbounded \in Nat
        BY <1>3, KeysAre
      <4> QED BY <3>1, <4>1
    <3>3. nodes[at[t]].right # NoNode
      BY <1>1, <1>3, <3>2, ArenaIs DEF NodeInv
    <3> QED BY <1>1, <1>3, <2>1, <3>1, <3>3, RightIs DEF Step, Goes
  <2>2. CASE ~BeyondHigh(t)
    <3>1. ~nodes[at[t]].leaf
      BY <1>2, <2>2 DEF AtItsLeaf
    <3> QED BY <1>1, <1>3, <2>2, <3>1, ChildForIs DEF Step, Goes, BeyondHigh
  <2> QED BY <2>1, <2>2
<1>5. PICK n \in DOMAIN nodes : n = Step(t)
  BY <1>4
<1>6. Moves(t) /\ Aloof(t) /\ pc'[t] = "walk" /\ at'[t] = n /\ job'[t] = job[t]
  BY <1>1, <1>2, <1>5, TypesOf DEF Moves, Aloof
<1> QED BY <1>2, <1>3, <1>4, <1>5, <1>6

\* Either way it comes to a node that begins below the key it looks for.
LEMMA WalkOrder ==
    ASSUME TreeInv, OrderInv, ScansInv, NEW t \in Threads, Walk(t)
    PROVE  OrderInv'
<1>1. ShapeInv /\ ArenaInv(nodes) /\ LevelInv
  BY TreeIs
<1>2. PICK m, n \in DOMAIN nodes :
              /\ Moves(t) /\ Aloof(t) /\ nodes' = nodes /\ root' = root /\ out' = out /\ before' = before
              /\ pc[t] = "walk" /\ pc'[t] = "walk" /\ at[t] = m /\ at'[t] = n /\ job'[t] = job[t] /\ job[t].lo \in Keys
              /\ Goes(t, m, n)
  BY WalkGoes
<1>3. PICK level : IsLevel(nodes, level)
  BY <1>1 DEF LevelInv
<1>4. ASSUME NEW low, LowIs(nodes, low), PlaceInv(t, low) PROVE PlaceInv(t, low)'
  <2>0. job[t].lo \in Nat
    BY <1>2, KeysAre
  <2>a. ArenaInv(nodes) /\ LowIs(nodes, low)
    BY <1>1, <1>4
  <2>b. low[m] \in Int /\ nodes[m].high \in Nat /\ NodeLow(nodes, low, m)
        /\ (nodes[m].right # NoNode => low[nodes[m].right] = nodes[m].high)
    BY ONLY <2>a, m \in DOMAIN nodes, LowAt
  <2>1. low[m] \in Int /\ nodes[m].high \in Nat /\ NodeLow(nodes, low, m) /\ job[t].lo \in Nat
        /\ (nodes[m].right # NoNode => low[nodes[m].right] = nodes[m].high)
    BY <2>0, <2>b
  <2>2. (Searching(t) /\ ~OnLeaves(t))' => low[n] < job[t].lo
    <3>1. CASE job[t].lo > nodes[m].high /\ nodes[m].right # NoNode /\ n = nodes[m].right
      BY <2>1, <3>1
    <3>2. CASE ~(job[t].lo > nodes[m].high) /\ ~nodes[m].leaf /\ n = ChildFor(nodes[m], job[t].lo)
      <4>1. low[m] < job[t].lo
        BY <1>2, <1>4, <3>2 DEF PlaceInv, OnLeaves, Searching
      <4> QED BY <1>1, <1>4, <2>1, <3>2, <4>1, ChildBelow
    <3> QED BY <1>2, <3>1, <3>2 DEF Goes
  <2>3. ASSUME OnLeaves(t)', NEW i \in DOMAIN out[t] PROVE out[t][i][1] <= low[n]
    <3>1. Scanning(t) /\ nodes[n].leaf
      BY <1>2, <2>3 DEF OnLeaves, Scanning
    <3>2. OnLeaves(t)
      BY <1>2, <2>3, <3>1 DEF ScansInv, ScanInv, OnLeaves, Searching
    <3>3. nodes[m].leaf /\ out[t][i][1] <= low[m]
      BY <1>2, <1>4, <2>3, <3>2 DEF PlaceInv, OnLeaves
    <3>4. n = nodes[m].right /\ nodes[m].right # NoNode
      BY <1>2, <3>3 DEF Goes
    <3>5. low[m] <= nodes[m].high /\ low[n] = nodes[m].high
      BY <2>1, <3>3, <3>4 DEF NodeLow
    <3>6. out[t][i][1] \in Nat
      <4>1. out[t] \in Seq(Keys \X Ids)
        BY DEF ScansInv
      <4>2. out[t][i] \in Keys \X Ids
        BY <2>3, <4>1
      <4> QED BY <4>2, KeysAre
    <3> QED BY <2>1, <3>3, <3>5, <3>6
  <2> QED BY <1>2, <2>2, <2>3 DEF PlaceInv, Untold
<1> QED BY <1>2, <1>4, OrderStill

(* One leaf of a scan. *)

\* The pairs of a leaf, as a sequence.
Entries(x) == [i \in DOMAIN x.keys |-> <<x.keys[i], x.items[i]>>]

\* Sequence r is s and behind it the entries F to G of q.
Appends(r, s, q, F, G) ==
    /\ \A i, j \in DOMAIN r : i < j =>
          \/ i \in DOMAIN s /\ j \in DOMAIN s /\ r[i] = s[i] /\ r[j] = s[j]
          \/ i \in DOMAIN s /\ r[i] = s[i] /\ \E b \in F..G : r[j] = q[b]
          \/ \E a, b \in F..G : a < b /\ r[i] = q[a] /\ r[j] = q[b]
    /\ \A e : e \in ToSet(r) <=> e \in ToSet(s) \/ \E a \in F..G : e = q[a]

\* Appending a piece of a sequence does this.
LEMMA AppendsIs ==
    ASSUME NEW S, NEW s \in Seq(S), NEW q \in Seq(S), NEW F \in Nat, NEW G \in Nat, F \in 1..(G + 1), G <= Len(q),
           NEW r, r = s \o SubSeq(q, F, G)
    PROVE  r \in Seq(S) /\ Appends(r, s, q, F, G)
<1> DEFINE w == SubSeq(q, F, G)
<1>1. w \in Seq(S) /\ Len(w) = G + 1 - F /\ \A i \in 1..(G + 1 - F) : w[i] = q[F + i - 1]
  <2>1. \A i \in F..G : i \in 1..Len(q)
    OBVIOUS
  <2>2. \A i \in F..G : q[i] \in S
    BY <2>1
  <2>3. w \in Seq(S)
    BY <2>2
  <2>4. Len(w) = IF F <= G THEN G - F + 1 ELSE 0
    OBVIOUS
  <2>5. \A i \in 1..(G + 1 - F) : w[i] = q[F + i - 1]
    OBVIOUS
  <2> QED BY <2>3, <2>4, <2>5
<1>2. r = s \o w
  OBVIOUS
<1> HIDE DEF w
<1>3. PICK m \in Nat : m = Len(s)
  OBVIOUS
<1>4. PICK k \in Nat : k = G + 1 - F
  OBVIOUS
<1>5. /\ r \in Seq(S) /\ DOMAIN r = 1..(m + k) /\ DOMAIN s = 1..m
      /\ \A i \in 1..(m + k) : r[i] = IF i <= m THEN s[i] ELSE w[i - m]
  <2>1. Len(w) = k
    BY <1>1, <1>4
  <2>a. w \in Seq(S)
    BY <1>1
  <2>b. r \in Seq(S) /\ Len(r) = Len(s) + Len(w)
    BY ONLY <1>2, <2>a, s \in Seq(S)
  <2>2. r \in Seq(S) /\ Len(r) = m + k
    BY <1>3, <2>1, <2>b
  <2>3. \A i \in 1..(m + k) : r[i] = IF i <= m THEN s[i] ELSE w[i - m]
    BY <1>1, <1>2, <1>3, <2>1
  <2>4. DOMAIN r = 1..(m + k)
    BY ONLY <2>2
  <2>5. DOMAIN s = 1..m
    BY ONLY <1>3, s \in Seq(S)
  <2> QED BY ONLY <2>2, <2>3, <2>4, <2>5
<1>6. \A i \in 1..(m + k) : i > m => i - m \in 1..k /\ r[i] = q[F + (i - m) - 1] /\ F + (i - m) - 1 \in F..G
  <2> SUFFICES ASSUME NEW i \in 1..(m + k), i > m
               PROVE  i - m \in 1..k /\ r[i] = q[F + (i - m) - 1] /\ F + (i - m) - 1 \in F..G
    OBVIOUS
  <2>1. PICK j \in 1..k : j = i - m
    OBVIOUS
  <2>2. r[i] = w[j]
    BY <1>5, <2>1
  <2>3. w[j] = q[F + j - 1] /\ F + j - 1 \in F..G
    BY <1>1, <1>4
  <2> QED BY <2>1, <2>2, <2>3
<1>7. ASSUME NEW i \in DOMAIN r, NEW j \in DOMAIN r, i < j
      PROVE  \/ i \in DOMAIN s /\ j \in DOMAIN s /\ r[i] = s[i] /\ r[j] = s[j]
             \/ i \in DOMAIN s /\ r[i] = s[i] /\ \E b \in F..G : r[j] = q[b]
             \/ \E a, b \in F..G : a < b /\ r[i] = q[a] /\ r[j] = q[b]
  <2>0. i \in 1..(m + k) /\ j \in 1..(m + k)
    BY <1>5
  <2>1. CASE j <= m
    BY <1>5, <1>7, <2>0, <2>1
  <2>2. CASE i <= m /\ j > m
    <3>1. i \in DOMAIN s /\ r[i] = s[i]
      BY <1>5, <2>0, <2>2
    <3>2. F + (j - m) - 1 \in F..G /\ r[j] = q[F + (j - m) - 1]
      BY <1>6, <2>0, <2>2
    <3> QED BY ONLY <3>1, <3>2
  <2>3. CASE i > m
    <3>1. i > m /\ j > m
      BY <1>7, <2>0, <2>3
    <3>2. PICK a, b \in F..G : a = F + (i - m) - 1 /\ b = F + (j - m) - 1 /\ r[i] = q[a] /\ r[j] = q[b]
      BY <1>6, <2>0, <3>1
    <3>3. i \in Nat /\ j \in Nat /\ i < j /\ m \in Nat /\ F \in Nat
      BY <1>7, <2>0
    <3>4. F + (i - m) - 1 < F + (j - m) - 1
      BY ONLY <3>3
    <3>5. a < b
      BY ONLY <3>2, <3>4
    <3> QED BY <3>2, <3>5
  <2>4. j <= m \/ (i <= m /\ j > m) \/ i > m
    BY <2>0
  <2> QED BY <2>1, <2>2, <2>3, <2>4
<1>8. ASSUME NEW e PROVE e \in ToSet(r) <=> e \in ToSet(s) \/ \E a \in F..G : e = q[a]
  <2>1. ASSUME e \in ToSet(r) PROVE e \in ToSet(s) \/ \E a \in F..G : e = q[a]
    <3>1. PICK i \in 1..(m + k) : r[i] = e
      BY <1>5, <2>1 DEF ToSet
    <3>2. CASE i <= m
      BY <1>5, <3>1, <3>2 DEF ToSet
    <3>3. CASE i > m
      BY <1>6, <3>1, <3>3
    <3> QED BY <3>2, <3>3
  <2>2. ASSUME e \in ToSet(s) PROVE e \in ToSet(r)
    <3>1. PICK i \in 1..m : s[i] = e
      BY <1>5, <2>2 DEF ToSet
    <3>2. i \in 1..(m + k) /\ r[i] = s[i]
      BY <1>5
    <3> QED BY <1>5, <3>1, <3>2 DEF ToSet
  <2>3. ASSUME NEW a \in F..G, e = q[a] PROVE e \in ToSet(r)
    <3>1. PICK i \in Nat : i = m + (a - F) + 1
      OBVIOUS
    <3>2. i \in 1..(m + k) /\ i > m /\ F + (i - m) - 1 = a
      BY <1>4, <3>1
    <3>3. r[i] = q[a]
      BY <1>6, <3>2
    <3> QED BY <1>5, <2>3, <3>2, <3>3 DEF ToSet
  <2> QED BY <2>1, <2>2, <2>3
<1> QED BY <1>5, <1>7, <1>8 DEF Appends

\* The step of a scan at leaf n: it takes the entries F to G, which are those between its bounds, and goes on to the right unless it has seen a key above.
Takes(t, low, n, L, F, G) ==
    /\ pc[t] = "walk" /\ Scanning(t) /\ at[t] = n /\ nodes[n].leaf /\ InOrder(nodes, low, n, L)
    /\ F \in 1..(G + 1) /\ G <= L
    /\ \A i \in 1..L : i \in F..G <=> job[t].lo <= nodes[n].keys[i] /\ nodes[n].keys[i] <= job[t].hi
    /\ out'[t] \in Seq(Keys \X Ids) /\ Appends(out'[t], out[t], Entries(nodes[n]), F, G)
    /\ Moves(t) /\ Aloof(t) /\ nodes' = nodes /\ root' = root /\ before' = before /\ job'[t] = job[t]
    /\ \/ pc'[t] = "answer" /\ (nodes[n].right = NoNode \/ \E i \in 1..L : nodes[n].keys[i] > job[t].hi)
       \/ pc'[t] = "enter" /\ at'[t] = nodes[n].right /\ nodes[n].right # NoNode

\* ScanLeaf does so.
LEMMA ScanTakes ==
    ASSUME TreeInv, ScansInv, NEW low, LowIs(nodes, low), NEW t \in Threads, ScanLeaf(t)
    PROVE  \E n \in DOMAIN nodes : \E L, F, G \in Nat : Takes(t, low, n, L, F, G)
<1>1. ShapeInv /\ ArenaInv(nodes) /\ Len(nodes) \in Nat /\ DOMAIN nodes = 1..Len(nodes)
  BY TreeIs
<1>2. pc[t] = "walk" /\ nodes[at[t]].leaf /\ ~BeyondHigh(t) /\ job[t].type = "scan"
  BY DEF ScanLeaf, AtItsLeaf
<1>3. PICK n \in DOMAIN nodes : n = at[t]
  BY <1>1, <1>2, ThreadIs DEF Placed, Holding
<1>4. PICK L \in Nat : InOrder(nodes, low, n, L)
  BY <1>1, <1>2, <1>3, LeafKeys
<1>5. PICK lo \in Nat : lo = job[t].lo
  BY <1>1, TypesOf DEF Jobs
<1>6. PICK hi \in Nat : hi = job[t].hi
  BY <1>1, TypesOf DEF Jobs
<1> DEFINE keys == nodes[n].keys
           past == {i \in LowerBound(keys, lo)..Len(keys) : keys[i] > hi}
           last == IF past = {} THEN Len(keys) ELSE Min(past) - 1
<1>7. /\ Len(keys) = L /\ DOMAIN keys = 1..L /\ (\A i \in 1..L : keys[i] \in Nat)
      /\ \A i, j \in 1..L : i < j => keys[i] <= keys[j]
  BY <1>4 DEF InOrder
<1>8. /\ out' = [out EXCEPT ![t] = @ \o SubSeq(Entries(nodes[n]), LowerBound(keys, lo), last)]
      /\ \/ Goto(t, "answer", NoNode) /\ (past # {} \/ nodes[n].right = NoNode)
         \/ Goto(t, "enter", nodes[n].right) /\ nodes[n].right # NoNode
      /\ nodes' = nodes /\ root' = root /\ job' = job /\ split' = split /\ todo' = todo /\ before' = before
  BY <1>3, <1>5, <1>6 DEF ScanLeaf, Entries, tree
<1>9. PICK F \in Nat : F = LowerBound(keys, lo)
  BY <1>7, LowerBoundInRange
<1> HIDE DEF keys
<1>10. F \in 1..(L + 1) /\ (\A i \in 1..L : i < F => keys[i] < lo) /\ (\A i \in 1..L : i >= F => keys[i] >= lo)
  BY <1>7, <1>9, SortedBound
<1>11. past = {i \in F..L : keys[i] > hi}
  BY <1>7, <1>9
<1>12. \E G \in Nat : /\ G = last /\ F <= G + 1 /\ G <= L /\ (\A i \in F..G : keys[i] <= hi)
                      /\ \A i \in F..L : i > G => keys[i] > hi
  <2>1. CASE past = {}
    <3>1. last = L /\ \A i \in F..L : ~(keys[i] > hi)
      BY <1>7, <1>11, <2>1
    <3>2. \A i \in F..L : keys[i] \in Nat
      BY <1>7, <1>10
    <3> HIDE DEF last, past
    <3>3. F <= L + 1 /\ \A i \in F..L : keys[i] <= hi /\ ~(i > L)
      BY <1>10, <3>1, <3>2
    <3> QED BY <3>1, <3>3
  <2>2. CASE past # {}
    <3>1. PICK x \in F..L : keys[x] > hi
      BY <1>11, <2>2
    <3>2. PICK b \in 1..(L + 1) : /\ \A i \in 1..L : i < b => keys[i] < hi + 1
                                  /\ \A i \in 1..L : i >= b => keys[i] >= hi + 1
      <4>1. hi + 1 \in Nat
        OBVIOUS
      <4> QED BY <1>7, <4>1, SortedBound
    <3>3. PICK m \in Nat : m = IF F <= b THEN b ELSE F
      OBVIOUS
    <3>4. x \in 1..L /\ x >= b
      <4>1. x \in 1..L
        BY <1>10
      <4>2. keys[x] \in Nat
        BY <1>7, <4>1
      <4> QED BY <3>1, <3>2, <4>1, <4>2
    <3>5. m \in F..L /\ m >= b
      BY <1>10, <3>3, <3>4
    <3>6. \A i \in F..L : keys[i] > hi <=> i >= m
      <4> SUFFICES ASSUME NEW i \in F..L PROVE keys[i] > hi <=> i >= m
        OBVIOUS
      <4>1. i \in 1..L /\ keys[i] \in Nat
        BY <1>7, <1>10
      <4>2. i >= b <=> keys[i] >= hi + 1
        BY <3>2, <4>1
      <4> QED BY <3>3, <4>1, <4>2
    <3>7. m \in past /\ \A y \in past : m <= y
      BY <1>11, <3>5, <3>6
    <3>8. Min(past) = m
      <4>1. past \subseteq Nat
        BY <1>11
      <4>2. \A y \in past : (\A z \in past : y <= z) => y = m
        BY <3>7, <4>1
      <4> HIDE DEF past
      <4> QED BY <3>7, <4>2 DEF Min
    <3>9. last = m - 1
      BY <2>2, <3>8
    <3> HIDE DEF past, last
    <3>10. PICK G \in Nat : G = m - 1
      BY <1>10, <3>5
    <3>11. \A i \in F..G : keys[i] <= hi
      <4> SUFFICES ASSUME NEW i \in F..G PROVE keys[i] <= hi
        OBVIOUS
      <4>1. i \in F..L /\ ~(i >= m) /\ i \in 1..L
        BY <1>10, <3>5, <3>10
      <4> QED BY <1>7, <3>6, <4>1
    <3> QED BY <3>5, <3>6, <3>9, <3>10, <3>11
  <2> QED BY <2>1, <2>2
<1>13. PICK G \in Nat : /\ G = last /\ F <= G + 1 /\ G <= L /\ (\A i \in F..G : keys[i] <= hi)
                        /\ \A i \in F..L : i > G => keys[i] > hi
  BY <1>12
<1>14. past # {} => \E i \in 1..L : keys[i] > hi
  BY <1>10, <1>11
<1> HIDE DEF past, last
<1>15. F \in 1..(G + 1) /\ \A i \in 1..L : i \in F..G <=> lo <= keys[i] /\ keys[i] <= hi
  <2>1. F \in 1..(G + 1)
    BY <1>10, <1>13
  <2>2. ASSUME NEW i \in 1..L PROVE i \in F..G <=> lo <= keys[i] /\ keys[i] <= hi
    <3>1. keys[i] \in Nat
      BY <1>7
    <3>2. CASE i < F
      BY <1>10, <3>1, <3>2
    <3>3. CASE i > G /\ i >= F
      BY <1>13, <3>1, <3>3
    <3>4. CASE i \in F..G
      BY <1>10, <1>13, <3>1, <3>4
    <3> QED BY <3>2, <3>3, <3>4
  <2> QED BY <2>1, <2>2
<1>16. Entries(nodes[n]) \in Seq(Keys \X Ids) /\ Len(Entries(nodes[n])) = L
  <2>1. \A i \in 1..L : nodes[n].keys[i] \in Keys /\ nodes[n].items[i] \in Ids
    <3>1. NodeInv(nodes, n) /\ nodes[n].leaf
      BY <1>1, <1>2, <1>3, ArenaIs
    <3> QED BY <1>4, <3>1 DEF InOrder, NodeInv
  <2>2. Entries(nodes[n]) = [i \in 1..L |-> <<nodes[n].keys[i], nodes[n].items[i]>>]
    BY <1>7 DEF Entries, keys
  <2>3. \A i \in 1..L : <<nodes[n].keys[i], nodes[n].items[i]>> \in Keys \X Ids
    BY <2>1
  <2> QED BY <2>2, <2>3
<1>17. out \in [Threads -> Seq(Keys \X Ids)] /\ out[t] \in Seq(Keys \X Ids)
  BY DEF ScansInv
<1>18. out'[t] = out[t] \o SubSeq(Entries(nodes[n]), F, G)
  BY <1>8, <1>9, <1>13, <1>17
<1>19. out'[t] \in Seq(Keys \X Ids) /\ Appends(out'[t], out[t], Entries(nodes[n]), F, G)
  BY <1>13, <1>15, <1>16, <1>17, <1>18, AppendsIs
<1>20. Aloof(t)
  BY <1>8, <1>17 DEF Aloof
<1>21. PICK p \in {"answer", "enter"}, x \in Nat : Goto(t, p, x) /\ (p = "enter" => x = nodes[n].right /\ nodes[n].right # NoNode)
                                                 /\ (p = "answer" => past # {} \/ nodes[n].right = NoNode)
  <2>1. NoNode \in Nat /\ nodes[n].right \in Nat
    BY <1>1, ArenaIs, NodeIs DEF NoNode
  <2>2. CASE Goto(t, "answer", NoNode) /\ (past # {} \/ nodes[n].right = NoNode)
    BY <2>1, <2>2
  <2>3. CASE Goto(t, "enter", nodes[n].right) /\ nodes[n].right # NoNode
    BY <2>1, <2>3
  <2> QED BY <1>8, <2>2, <2>3
<1>22. Moves(t) /\ pc'[t] = p /\ at'[t] = x /\ job'[t] = job[t]
  <2>1. p \in Phases /\ job' = job /\ split' = split /\ todo' = todo
    BY <1>8 DEF Phases
  <2>2. Goto(t, p, x)
    BY <1>21
  <2> QED BY ONLY <1>1, <2>1, <2>2, t \in Threads, x \in Nat, GoIs
<1>23. Takes(t, low, n, L, F, G)
  BY <1>2, <1>3, <1>4, <1>5, <1>6, <1>8, <1>13, <1>14, <1>15, <1>19, <1>20, <1>21, <1>22 DEF Takes, Scanning, keys
<1> QED BY <1>23

\* What is to be found from a leaf on is in it or from the next one on.
LEMMA BeyondStep ==
    ASSUME NEW ns, ArenaInv(ns), NEW n \in DOMAIN ns, ns[n].leaf, NEW e
    PROVE  e \in Beyond(ns, n) <=> e \in PairsIn(ns[n]) \/ (ns[n].right # NoNode /\ e \in Beyond(ns, ns[n].right))
<1>1. n \in ChainFrom(ns, n)
  BY ChainCloses
<1>2. ASSUME e \in Beyond(ns, n) PROVE e \in PairsIn(ns[n]) \/ (ns[n].right # NoNode /\ e \in Beyond(ns, ns[n].right))
  <2>1. PICK x \in ChainFrom(ns, n) : x \in DOMAIN ns /\ ns[x].leaf /\ e \in PairsIn(ns[x])
    BY <1>2, BeyondIs
  <2>2. x # n => ns[n].right # NoNode /\ x \in ChainFrom(ns, ns[n].right)
    BY ChainStep
  <2> QED BY <2>1, <2>2, BeyondIs
<1>3. ASSUME e \in PairsIn(ns[n]) PROVE e \in Beyond(ns, n)
  BY <1>1, <1>3, BeyondIs
<1>4. ASSUME ns[n].right # NoNode, e \in Beyond(ns, ns[n].right) PROVE e \in Beyond(ns, n)
  <2>1. ns[n].right \in ChainFrom(ns, n)
    BY <1>1, <1>4, ChainCloses
  <2>2. ChainFrom(ns, ns[n].right) \subseteq ChainFrom(ns, n)
    BY <2>1, ChainTransitive
  <2>3. PICK x \in ChainFrom(ns, ns[n].right) : x \in DOMAIN ns /\ ns[x].leaf /\ e \in PairsIn(ns[x])
    BY <1>4, BeyondIs
  <2> QED BY <2>2, <2>3, BeyondIs
<1> QED BY <1>2, <1>3, <1>4

\* The sequence q lists the pairs of leaf x.
Lists(q, x, L) ==
    /\ \A i \in 1..L : q[i] = <<x.keys[i], x.items[i]>> /\ q[i][1] = x.keys[i] /\ q[i] \in PairsIn(x)
    /\ \A e \in PairsIn(x) : \E i \in 1..L : e = q[i]

\* Entries lists them.
LEMMA EntryIs ==
    ASSUME NEW ns, NEW low, NEW n, NEW L, InOrder(ns, low, n, L)
    PROVE  Lists(Entries(ns[n]), ns[n], L)
BY PairsAre DEF InOrder, Entries, Lists

\* A scan that goes on to the next leaf has collected only keys up to where that begins.
LEMMA ScanLeafOrder ==
    ASSUME TreeInv, OrderInv, ScansInv, NEW t \in Threads, ScanLeaf(t)
    PROVE  OrderInv'
<1>1. ShapeInv /\ ArenaInv(nodes) /\ LevelInv
  BY TreeIs
<1>2. PICK level : IsLevel(nodes, level)
  BY <1>1 DEF LevelInv
<1>3. ASSUME NEW low, LowIs(nodes, low), PlaceInv(t, low)
      PROVE  Moves(t) /\ Aloof(t) /\ nodes' = nodes /\ root' = root /\ PlaceInv(t, low)'
  <2>1. PICK n \in DOMAIN nodes : \E L, F, G \in Nat : Takes(t, low, n, L, F, G)
    BY <1>3, ScanTakes
  <2>2. PICK L, F, G \in Nat : Takes(t, low, n, L, F, G)
    BY <2>1
  <2>3. Moves(t) /\ Aloof(t) /\ nodes' = nodes /\ root' = root /\ job'[t] = job[t] /\ pc[t] = "walk" /\ at[t] = n
        /\ nodes[n].leaf /\ Scanning(t) /\ InOrder(nodes, low, n, L) /\ F \in 1..(G + 1) /\ G <= L
        /\ Appends(out'[t], out[t], Entries(nodes[n]), F, G)
    BY <2>2 DEF Takes
  <2>4. pc'[t] = "answer" \/ (pc'[t] = "enter" /\ at'[t] = nodes[n].right /\ nodes[n].right # NoNode)
    BY <2>2 DEF Takes
  <2>5. low[n] \in Int /\ nodes[n].high \in Nat /\ low[n] <= nodes[n].high
    BY <2>3 DEF InOrder
  <2>6. ASSUME NEW e \in ToSet(out'[t]) PROVE e[1] <= nodes[n].high
    <3>1. e \in ToSet(out[t]) \/ \E a \in F..G : e = Entries(nodes[n])[a]
      BY <2>3 DEF Appends
    <3>2. CASE e \in ToSet(out[t])
      <4>1. PICK i \in DOMAIN out[t] : e = out[t][i]
        BY <3>2 DEF ToSet
      <4>2. e[1] <= low[n]
        BY <1>3, <2>3, <4>1 DEF PlaceInv, OnLeaves, Searching
      <4>3. e[1] \in Nat
        <5>1. out[t] \in Seq(Keys \X Ids)
          BY DEF ScansInv
        <5>2. e \in Keys \X Ids
          BY <4>1, <5>1
        <5> QED BY <5>2, KeysAre
      <4> QED BY <2>5, <4>2, <4>3
    <3>3. ASSUME NEW a \in F..G, e = Entries(nodes[n])[a] PROVE e[1] <= nodes[n].high
      <4>1. a \in 1..L
        BY <2>3
      <4>a. Lists(Entries(nodes[n]), nodes[n], L)
        BY <2>3, EntryIs
      <4>2. e[1] = nodes[n].keys[a]
        BY <3>3, <4>1, <4>a DEF Lists
      <4> QED BY <2>3, <4>1, <4>2 DEF InOrder
    <3> QED BY <3>1, <3>2, <3>3
  <2>7. nodes[n].right # NoNode => low[nodes[n].right] = nodes[n].high /\ nodes[nodes[n].right].leaf
    BY <1>1, <1>2, <1>3, <2>3, LowAt, LeafRight
  <2>8. PlaceInv(t, low)'
    <3>1. CASE pc'[t] = "answer"
      BY <3>1 DEF PlaceInv, OnLeaves, Searching, Untold
    <3>2. CASE pc'[t] = "enter" /\ at'[t] = nodes[n].right /\ nodes[n].right # NoNode
      <4>1. OnLeaves(t)' /\ pc'[t] \notin Untold
        BY <2>3, <2>7, <3>2 DEF OnLeaves, Searching, Scanning, Untold
      <4>2. \A i \in DOMAIN out'[t] : out'[t][i] \in ToSet(out'[t])
        BY DEF ToSet
      <4> QED BY <2>6, <2>7, <3>2, <4>1, <4>2 DEF PlaceInv
    <3> QED BY <2>4, <3>1, <3>2
  <2> QED BY <2>3, <2>8
<1>4. PICK low : LowIs(nodes, low) /\ PlaceInv(t, low)
  BY DEF OrderInv
<1>5. Moves(t) /\ Aloof(t) /\ nodes' = nodes /\ root' = root
  BY <1>3, <1>4
<1> QED BY <1>3, <1>5, OrderStill

\* A scan takes the due pairs of its leaf, in order and none twice, and leaves only what is beyond the leaf; if it stops, nothing due is there.
LEMMA ScanLeafScan ==
    ASSUME TreeInv, OrderInv, ScansInv, NEW t \in Threads, ScanLeaf(t)
    PROVE  /\ Moves(t) /\ Aloof(t) /\ nodes' = nodes /\ before' = before /\ out'[t] \in Seq(Keys \X Ids)
           /\ ScanInv(t)'
<1>1. ShapeInv /\ ArenaInv(nodes) /\ LevelInv /\ OnePlace(nodes) /\ Ends(nodes)
  BY TreeIs DEF OrderInv
<1>2. PICK level : IsLevel(nodes, level)
  BY <1>1 DEF LevelInv
<1>3. PICK low : LowIs(nodes, low) /\ PlaceInv(t, low)
  BY DEF OrderInv
<1>4. PICK n \in DOMAIN nodes : \E L, F, G \in Nat : Takes(t, low, n, L, F, G)
  BY <1>3, ScanTakes
<1>5. PICK L, F, G \in Nat : Takes(t, low, n, L, F, G)
  BY <1>4
<1> DEFINE q == Entries(nodes[n])
           r == nodes[n].right
<1>6. /\ Moves(t) /\ Aloof(t) /\ nodes' = nodes /\ before' = before /\ job'[t] = job[t] /\ pc[t] = "walk" /\ at[t] = n
      /\ nodes[n].leaf /\ Scanning(t) /\ InOrder(nodes, low, n, L) /\ F \in 1..(G + 1) /\ G <= L
      /\ Appends(out'[t], out[t], q, F, G) /\ out'[t] \in Seq(Keys \X Ids)
      /\ \A i \in 1..L : i \in F..G <=> job[t].lo <= nodes[n].keys[i] /\ nodes[n].keys[i] <= job[t].hi
      /\ \/ pc'[t] = "answer" /\ (r = NoNode \/ \E i \in 1..L : nodes[n].keys[i] > job[t].hi)
         \/ pc'[t] = "enter" /\ at'[t] = r /\ r # NoNode
  BY <1>5 DEF Takes
<1>7. OnLeaves(t) /\ ScanInv(t)
  BY <1>6 DEF OnLeaves, Searching, ScansInv
<1>8. /\ \A i, j \in DOMAIN out[t] : i < j => out[t][i][1] <= out[t][j][1] /\ out[t][i] # out[t][j]
      /\ \A e \in ToSet(out[t]) : e \in Held(nodes) /\ Between(t, e)
      /\ before[t] \subseteq Held(nodes)
      /\ Due(t) \subseteq ToSet(out[t]) \cup Beyond(nodes, n) /\ ToSet(out[t]) \cap Beyond(nodes, n) = {}
  BY <1>6, <1>7 DEF ScanInv
<1>9. /\ \A i \in 1..L : q[i] = <<nodes[n].keys[i], nodes[n].items[i]>> /\ q[i][1] = nodes[n].keys[i] /\ q[i] \in PairsIn(nodes[n])
      /\ \A e \in PairsIn(nodes[n]) : \E i \in 1..L : e = q[i]
  <2>1. Lists(q, nodes[n], L)
    BY <1>6, EntryIs
  <2> HIDE DEF q
  <2> QED BY <2>1 DEF Lists
<1>10. \A a \in F..G : a \in 1..L
  BY <1>6
<1> HIDE DEF q, r
<1>11. ASSUME NEW e \in ToSet(out[t]) PROVE e \notin Beyond(nodes, n) /\ e[1] <= low[n] /\ e[1] \in Nat
  <2>1. PICK i \in DOMAIN out[t] : e = out[t][i]
    BY DEF ToSet
  <2>2. e[1] <= low[n]
    BY <1>3, <1>6, <1>7, <2>1 DEF PlaceInv
  <2>3. e \in Keys \X Ids
    <3>1. out[t] \in Seq(Keys \X Ids)
      BY DEF ScansInv
    <3> QED BY <2>1, <3>1
  <2> QED BY <1>8, <2>2, <2>3, KeysAre
<1>12. \A a \in F..G : q[a] \in Beyond(nodes, n) /\ q[a] \in Held(nodes) /\ Between(t, q[a])
  <2> SUFFICES ASSUME NEW a \in F..G PROVE q[a] \in Beyond(nodes, n) /\ q[a] \in Held(nodes) /\ Between(t, q[a])
    OBVIOUS
  <2>1. q[a] \in Beyond(nodes, n)
    BY <1>1, <1>6, <1>9, <1>10, BeyondStep
  <2>2. Between(t, q[a])
    BY <1>6, <1>9, <1>10 DEF Between
  <2> QED BY <2>1, <2>2, BeyondHeld
<1>13. ASSUME NEW i \in DOMAIN out'[t], NEW j \in DOMAIN out'[t], i < j
       PROVE  out'[t][i][1] <= out'[t][j][1] /\ out'[t][i] # out'[t][j]
  <2>1. CASE i \in DOMAIN out[t] /\ j \in DOMAIN out[t] /\ out'[t][i] = out[t][i] /\ out'[t][j] = out[t][j]
    BY <1>8, <1>13, <2>1
  <2>2. CASE i \in DOMAIN out[t] /\ out'[t][i] = out[t][i] /\ \E b \in F..G : out'[t][j] = q[b]
    <3>1. PICK b \in F..G : out'[t][j] = q[b]
      BY <2>2
    <3>2. out[t][i] \in ToSet(out[t])
      BY <2>2 DEF ToSet
    <3>3. out[t][i] \notin Beyond(nodes, n) /\ out[t][i][1] <= low[n] /\ out[t][i][1] \in Nat
      BY <1>11, <3>2
    <3>4. q[b] \in Beyond(nodes, n) /\ low[n] <= q[b][1] /\ q[b][1] \in Nat /\ low[n] \in Int
      BY <1>6, <1>9, <1>10, <1>12 DEF InOrder
    <3> QED BY <2>2, <3>1, <3>3, <3>4
  <2>3. CASE \E a, b \in F..G : a < b /\ out'[t][i] = q[a] /\ out'[t][j] = q[b]
    <3>1. PICK a, b \in F..G : a < b /\ out'[t][i] = q[a] /\ out'[t][j] = q[b]
      BY <2>3
    <3>2. a \in 1..L /\ b \in 1..L
      BY <1>10
    <3>3. nodes[n].keys[a] <= nodes[n].keys[b] /\ a \in DOMAIN nodes[n].items /\ b \in DOMAIN nodes[n].items
      BY <1>6, <3>1, <3>2 DEF InOrder
    <3>4. nodes[n].items[a] # nodes[n].items[b]
      <4>1. a # b
        BY <3>1, <3>2
      <4> QED BY <1>1, <1>6, <3>3, <4>1 DEF OnePlace, Distinct
    <3>5. q[a] = <<nodes[n].keys[a], nodes[n].items[a]>> /\ q[b] = <<nodes[n].keys[b], nodes[n].items[b]>>
      BY <1>9, <3>2
    <3> QED BY <3>1, <3>3, <3>4, <3>5
  <2>4. \/ i \in DOMAIN out[t] /\ j \in DOMAIN out[t] /\ out'[t][i] = out[t][i] /\ out'[t][j] = out[t][j]
        \/ i \in DOMAIN out[t] /\ out'[t][i] = out[t][i] /\ \E b \in F..G : out'[t][j] = q[b]
        \/ \E a, b \in F..G : a < b /\ out'[t][i] = q[a] /\ out'[t][j] = q[b]
    BY <1>6, <1>13 DEF Appends
  <2> QED BY <2>1, <2>2, <2>3, <2>4
<1>14. \A e : e \in ToSet(out'[t]) <=> e \in ToSet(out[t]) \/ \E a \in F..G : e = q[a]
  BY <1>6 DEF Appends
<1>15. \A e \in ToSet(out'[t]) : e \in Held(nodes) /\ Between(t, e)
  BY <1>8, <1>12, <1>14
<1>16. \A e \in PairsIn(nodes[n]) : Between(t, e) => e \in ToSet(out'[t])
  BY <1>6, <1>9, <1>14 DEF Between
<1>17. r # NoNode => /\ r \in DOMAIN nodes /\ nodes[r].leaf /\ n \notin ChainFrom(nodes, r)
                     /\ ChainFrom(nodes, r) \subseteq DOMAIN nodes
  BY <1>1, <1>2, <1>6, RightIs, LeafRight, ChainAcyclic, ChainCloses DEF r
<1>18. Due(t) \subseteq ToSet(out'[t]) \cup (IF r = NoNode THEN {} ELSE Beyond(nodes, r))
  <2> SUFFICES ASSUME NEW e \in Due(t), e \notin ToSet(out'[t]) PROVE r # NoNode /\ e \in Beyond(nodes, r)
    OBVIOUS
  <2>1. e \in Beyond(nodes, n) /\ Between(t, e)
    BY <1>8, <1>14 DEF Due
  <2> QED BY <1>1, <1>6, <1>16, <2>1, BeyondStep DEF r
<1>19. ASSUME r # NoNode PROVE ToSet(out'[t]) \cap Beyond(nodes, r) = {}
  <2> SUFFICES ASSUME NEW e \in ToSet(out'[t]), e \in Beyond(nodes, r) PROVE FALSE
    OBVIOUS
  <2>1. e \in Beyond(nodes, n)
    BY <1>1, <1>6, <1>19, BeyondStep DEF r
  <2>2. PICK a \in F..G : e = q[a]
    BY <1>11, <1>14, <2>1
  <2>3. PICK x \in ChainFrom(nodes, r) : x \in DOMAIN nodes /\ nodes[x].leaf /\ e \in PairsIn(nodes[x])
    BY BeyondIs
  <2>4. PICK i \in DOMAIN nodes[x].keys : e = <<nodes[x].keys[i], nodes[x].items[i]>>
    BY <2>3, PairsAre
  <2>5. i \in DOMAIN nodes[x].items /\ a \in DOMAIN nodes[n].items
    <3>1. DOMAIN nodes[x].items = 1..Len(nodes[x].items)
      BY <1>1, <2>3, ArenaIs, NodeIs
    <3>2. i \in DOMAIN nodes[x].items
      BY <1>1, <2>3, <3>1, LeafIs
    <3> QED BY <1>6, <1>10, <3>2 DEF InOrder
  <2>6. nodes[x].items[i] = nodes[n].items[a]
    <3>1. q[a] = <<nodes[n].keys[a], nodes[n].items[a]>>
      BY <1>9, <1>10
    <3>2. e[2] = nodes[n].items[a]
      BY <2>2, <3>1
    <3>3. e[2] = nodes[x].items[i]
      BY <2>4
    <3> QED BY <3>2, <3>3
  <2>7. x = n
    BY <1>1, <1>6, <2>3, <2>5, <2>6 DEF OnePlace, Distinct
  <2> QED BY <1>17, <1>19, <2>3, <2>7
<1>20. CASE pc'[t] = "enter" /\ at'[t] = r /\ r # NoNode
  <2>1. OnLeaves(t)' /\ Scanning(t)' /\ Searching(t)'
    BY <1>6, <1>17, <1>20 DEF OnLeaves, Scanning, Searching
  <2>2. Due(t)' = Due(t) /\ \A e : Between(t, e)' <=> Between(t, e)
    BY <1>6 DEF Due, Between
  <2>3. Due(t) \subseteq ToSet(out'[t]) \cup Beyond(nodes', at'[t]) /\ ToSet(out'[t]) \cap Beyond(nodes', at'[t]) = {}
    BY <1>6, <1>18, <1>19, <1>20
  <2> QED BY <1>6, <1>8, <1>13, <1>15, <1>20, <2>1, <2>2, <2>3 DEF ScanInv
<1>21. CASE pc'[t] = "answer" /\ (r = NoNode \/ \E i \in 1..L : nodes[n].keys[i] > job[t].hi)
  <2>1. ~OnLeaves(t)' /\ Scanning(t)' /\ ~Searching(t)'
    BY <1>6, <1>21 DEF OnLeaves, Scanning, Searching
  <2>2. Due(t)' = Due(t) /\ \A e : Between(t, e)' <=> Between(t, e)
    BY <1>6 DEF Due, Between
  <2>3. ASSUME NEW e \in Due(t), e \notin ToSet(out'[t]) PROVE FALSE
    <3>1. r # NoNode /\ e \in Beyond(nodes, r) /\ Between(t, e)
      BY <1>18, <2>3 DEF Due
    <3>2. PICK i \in 1..L : nodes[n].keys[i] > job[t].hi
      BY <1>21, <3>1
    <3>3. PICK x \in ChainFrom(nodes, r) : x \in DOMAIN nodes /\ nodes[x].leaf /\ e \in PairsIn(nodes[x])
      BY <3>1, BeyondIs
    <3>4. nodes[n].high <= low[x] /\ low[x] \in Int
      BY <1>1, <1>2, <1>3, <1>6, <3>1, <3>3, LowGrows, LowAt DEF r
    <3>5. low[x] <= e[1] /\ e[1] \in Nat
      <4>1. PICK M \in Nat : InOrder(nodes, low, x, M)
        BY <1>1, <1>3, <3>3, LeafKeys
      <4>2. Lists(Entries(nodes[x]), nodes[x], M)
        BY <4>1, EntryIs
      <4>3. PICK j \in 1..M : e[1] = nodes[x].keys[j]
        BY <3>3, <4>2 DEF Lists
      <4> QED BY <4>1, <4>3 DEF InOrder
    <3>6. nodes[n].keys[i] <= nodes[n].high /\ nodes[n].keys[i] \in Nat /\ nodes[n].high \in Nat
      BY <1>6 DEF InOrder
    <3>7. e[1] <= job[t].hi /\ job[t].hi \in Nat
      BY <1>1, <3>1, TypesOf DEF Between, Jobs
    <3> QED BY <3>2, <3>4, <3>5, <3>6, <3>7
  <2> QED BY <1>6, <1>8, <1>13, <1>15, <1>21, <2>1, <2>2, <2>3 DEF ScanInv
<1> QED BY <1>6, <1>20, <1>21

(* The scans of the other threads, and the steps of threads that do not scan. *)

\* A scan loses nothing when another thread moves: what it is still to find stays to the right of it, and what is added it has not collected.
LEMMA OtherScan ==
    ASSUME ShapeInv, NEW t \in Threads, Moves(t), Aloof(t), Keeps(nodes, nodes'), NEW D, Spreads(D),
           Held(nodes') = Held(nodes) \cup D, D \cap Held(nodes) = {}, NEW u \in Threads \ {t}, ScanInv(u)
    PROVE  ScanInv(u)'
<1>1. pc'[u] = pc[u] /\ at'[u] = at[u] /\ job'[u] = job[u] /\ out'[u] = out[u] /\ before'[u] = before[u]
  BY DEF Moves, Aloof
<1>2. Searching(u) => at[u] \in DOMAIN nodes /\ nodes'[at[u]].leaf = nodes[at[u]].leaf
  BY ThreadIs DEF Searching, Placed, Holding, Keeps
<1>3. /\ (Scanning(u)' <=> Scanning(u)) /\ (Searching(u)' <=> Searching(u)) /\ (OnLeaves(u)' <=> OnLeaves(u))
      /\ Due(u)' = Due(u) /\ \A e : Between(u, e)' <=> Between(u, e)
  BY <1>1, <1>2 DEF Scanning, Searching, OnLeaves, Due, Between
<1>4. CASE ~Scanning(u)
  BY <1>1, <1>3, <1>4 DEF ScanInv
<1>5. CASE Scanning(u)
  <2>1. /\ pc[u] \in {"enter", "walk", "answer"}
        /\ \A i, j \in DOMAIN out[u] : i < j => out[u][i][1] <= out[u][j][1] /\ out[u][i] # out[u][j]
        /\ \A e \in ToSet(out[u]) : e \in Held(nodes) /\ Between(u, e)
        /\ before[u] \subseteq Held(nodes)
        /\ pc[u] = "answer" => Due(u) \subseteq ToSet(out[u])
        /\ Searching(u) /\ ~OnLeaves(u) => out[u] = <<>>
        /\ OnLeaves(u) => /\ Due(u) \subseteq ToSet(out[u]) \cup Beyond(nodes, at[u])
                          /\ ToSet(out[u]) \cap Beyond(nodes, at[u]) = {}
    BY <1>5 DEF ScanInv
  <2>2. (\A e \in ToSet(out[u]) : e \in Held(nodes') /\ Between(u, e)) /\ before[u] \subseteq Held(nodes')
    BY <2>1
  <2>3. OnLeaves(u) => /\ Due(u) \subseteq ToSet(out[u]) \cup Beyond(nodes', at[u])
                       /\ ToSet(out[u]) \cap Beyond(nodes', at[u]) = {}
    <3> SUFFICES ASSUME OnLeaves(u)
                 PROVE  /\ Due(u) \subseteq ToSet(out[u]) \cup Beyond(nodes', at[u])
                        /\ ToSet(out[u]) \cap Beyond(nodes', at[u]) = {}
      OBVIOUS
    <3>1. at[u] \in DOMAIN nodes
      BY <1>2 DEF OnLeaves
    <3>2. Beyond(nodes, at[u]) \subseteq Beyond(nodes', at[u]) /\ Beyond(nodes', at[u]) \subseteq Beyond(nodes, at[u]) \cup D
      BY <3>1 DEF Spreads
    <3> QED BY <2>1, <3>2
  <2> QED BY <1>1, <1>3, <1>5, <2>1, <2>2, <2>3 DEF ScanInv
<1> QED BY <1>4, <1>5

\* So all scans are right after a step whose own thread's is.
LEMMA ScansStep ==
    ASSUME TreeInv, ScansInv, NEW t \in Threads, Moves(t), Aloof(t), Keeps(nodes, nodes'), NEW D, Spreads(D),
           Held(nodes') = Held(nodes) \cup D, D \cap Held(nodes) = {},
           out' \in [Threads -> Seq(Keys \X Ids)], before' \in [Threads -> SUBSET (Keys \X Ids)], ScanInv(t)'
    PROVE  ScansInv'
<1>1. \A u \in Threads \ {t} : ScanInv(u)'
  BY TreeIs, OtherScan DEF ScansInv
<1> QED BY <1>1 DEF ScansInv

\* The same for a step that leaves the arena alone.
LEMMA ScansStill ==
    ASSUME TreeInv, ScansInv, NEW t \in Threads, Moves(t), Aloof(t), nodes' = nodes,
           out' \in [Threads -> Seq(Keys \X Ids)], before' \in [Threads -> SUBSET (Keys \X Ids)], ScanInv(t)'
    PROVE  ScansInv'
<1>1. Keeps(nodes, nodes') /\ Spreads({}) /\ Held(nodes') = Held(nodes) \cup {} /\ {} \cap Held(nodes) = {}
  BY DEF Keeps, Spreads
<1> QED BY <1>1, ScansStep

\* A thread that does not scan has nothing to answer for.
LEMMA IdleScan ==
    ASSUME NEW t, ~Scanning(t)', pc'[t] # "answer", out'[t] = <<>>
    PROVE  ScanInv(t)'
BY DEF ScanInv

\* A call that returns drops what it collected.
LEMMA ReturnScan ==
    ASSUME TreeInv, ScansInv, NEW t \in Threads, Return(t)
    PROVE  Drops(t) /\ ScanInv(t)'
<1>1. ShapeInv
  BY TreeIs
<1>2. pc'[t] = "idle" /\ job'[t] = NoJob /\ Drops(t)
  BY <1>1, TypesOf DEF Return, Goto, Drops
<1>3. out'[t] = <<>>
  BY DEF Return, ScansInv
<1>4. ~Scanning(t)'
  BY <1>2 DEF Scanning, NoJob
<1> QED BY <1>2, <1>3, <1>4, IdleScan

\* A thread at work on an insert stays without a scan when its phase changes.
LEMMA StayScan ==
    ASSUME TreeInv, ScansInv, NEW t \in Threads, ~Scanning(t), NEW p \in Phases, p # "answer",
           pc' = [pc EXCEPT ![t] = p], job' = job, out' = out, before' = before
    PROVE  Drops(t) /\ ScanInv(t)'
<1>1. ShapeInv
  BY TreeIs
<1>2. pc'[t] = p /\ job'[t] = job[t] /\ out'[t] = <<>>
  BY <1>1, TypesOf DEF ScansInv, ScanInv
<1>3. ~Scanning(t)'
  BY <1>2 DEF Scanning
<1> QED BY <1>2, <1>3, IdleScan DEF Drops

\* Also when it goes up to a parent.
LEMMA RiseScan ==
    ASSUME TreeInv, ScansInv, NEW t \in Threads, ~Scanning(t), NEW ns, NEW n, Rise(t, ns, n), job' = job, out' = out, before' = before
    PROVE  Drops(t) /\ ScanInv(t)'
<1>1. PICK p \in {"grow", "climb"} : pc' = [pc EXCEPT ![t] = p]
  BY DEF Rise, Goto
<1> QED BY <1>1, StayScan DEF Phases

\* Also when it changes the arena.
LEMMA ChangeScan ==
    ASSUME TreeInv, ScansInv, NEW t \in Threads,
           InsertHere(t) \/ GrowRoot(t) \/ HintLeft(t) \/ HintRight(t) \/ Splice(t) \/ Rehome(t)
    PROVE  Drops(t) /\ ScanInv(t)'
<1>1. ~Scanning(t)
  <2>1. CASE InsertHere(t)
    BY <2>1 DEF InsertHere, Scanning
  <2>2. CASE GrowRoot(t) \/ HintLeft(t) \/ HintRight(t) \/ Splice(t) \/ Rehome(t)
    <3>1. CASE GrowRoot(t)
      BY <3>1, Quiescent DEF GrowRoot
    <3>2. CASE HintLeft(t) \/ HintRight(t)
      BY <3>2, Quiescent DEF HintLeft, HintRight
    <3>3. CASE Splice(t)
      BY <3>3, Quiescent DEF Splice
    <3>4. CASE Rehome(t)
      BY <3>4, Quiescent DEF Rehome
    <3> QED BY <2>2, <3>1, <3>2, <3>3, <3>4
  <2> QED BY <2>1, <2>2
<1>2. CASE Return(t)
  BY <1>2, ReturnScan
<1>3. CASE InsertHere(t) /\ ~Return(t)
  <2>1. PICK ns : \E n : Rise(t, ns, n) /\ job' = job /\ out' = out /\ before' = before
    BY <1>3 DEF InsertHere
  <2> QED BY <1>1, <2>1, RiseScan
<1>4. CASE GrowRoot(t) /\ ~Return(t)
  <2>1. pc' = [pc EXCEPT ![t] = "hintLeft"] /\ job' = job /\ out' = out /\ before' = before
    BY <1>4 DEF GrowRoot, Goto
  <2> QED BY <1>1, <2>1, StayScan DEF Phases
<1>5. CASE HintLeft(t)
  <2>1. pc' = [pc EXCEPT ![t] = "hintRight"] /\ job' = job /\ out' = out /\ before' = before
    BY <1>5 DEF HintLeft, Goto
  <2> QED BY <1>1, <2>1, StayScan DEF Phases
<1>6. CASE Splice(t) /\ ~Return(t)
  <2>1. pc' = [pc EXCEPT ![t] = "rehome"] /\ job' = job /\ out' = out /\ before' = before
    BY <1>6 DEF Splice
  <2> QED BY <1>1, <2>1, StayScan DEF Phases, Holding
<1>7. CASE Rehome(t)
  <2>1. CASE \E ns, n : Rise(t, ns, n) /\ job' = job /\ out' = out /\ before' = before
    BY <1>1, <2>1, RiseScan
  <2>2. CASE pc' = pc /\ job' = job /\ out' = out /\ before' = before
    <3>1. pc' = [pc EXCEPT ![t] = "rehome"]
      <4>1. pc[t] = "rehome" /\ pc \in [Threads -> Phases]
        BY <1>7, TreeIs, TypesOf DEF Rehome
      <4> QED BY <2>2, <4>1
    <3> QED BY <1>1, <2>2, <3>1, StayScan DEF Phases, Holding
  <2> QED BY <1>7, <2>1, <2>2 DEF Rehome
<1>8. HintRight(t) => Return(t)
  BY DEF HintRight
<1> QED BY <1>2, <1>3, <1>4, <1>5, <1>6, <1>7, <1>8

\* When a scan begins, every pair it must find is in the leaves.
LEMMA BeginScanScan ==
    ASSUME TreeInv, OrderInv, ScansInv, NEW t \in Threads, BeginScan(t)
    PROVE  ScansInv'
<1>1. ShapeInv /\ ArenaInv(nodes) /\ LevelInv /\ FirstIn(nodes) /\ root \in DOMAIN nodes
  BY TreeIs DEF Good
<1>2. /\ Moves(t) /\ Aloof(t) /\ out' = out /\ before' = [before EXCEPT ![t] = Pairs]
      /\ pc'[t] = "enter" /\ at'[t] = root /\ job'[t].lo \in Keys /\ Scanning(t)' /\ nodes' = nodes /\ pc[t] = "idle"
  BY BeginScanOrder DEF BeginScan, MayBegin, tree
<1>3. Pairs = Held(nodes) /\ Held(nodes) \in SUBSET (Keys \X Ids)
  BY <1>1, PairsAreHeld, HeldTyped
<1>4. out' \in [Threads -> Seq(Keys \X Ids)] /\ before' \in [Threads -> SUBSET (Keys \X Ids)] /\ before'[t] = Held(nodes)
  BY <1>2, <1>3 DEF ScansInv
<1>5. out'[t] = <<>> /\ DOMAIN out'[t] = {} /\ ToSet(out'[t]) = {}
  <2>1. out'[t] = <<>>
    BY <1>2, Quiescent
  <2> QED BY <2>1 DEF ToSet
<1>6. OnLeaves(t)' => \A e \in Due(t)' : e \in Beyond(nodes', at'[t])
  <2> SUFFICES ASSUME OnLeaves(t)', NEW e \in Due(t)' PROVE e \in Beyond(nodes, root)
    BY <1>2
  <2>1. nodes[root].leaf /\ e \in Held(nodes) /\ job'[t].lo <= e[1]
    BY <1>2, <1>4 DEF OnLeaves, Due, Between
  <2>2. PICK low : LowIs(nodes, low) /\ low[root] = -1
    BY DEF OrderInv
  <2>3. PICK level : IsLevel(nodes, level)
    BY <1>1 DEF LevelInv
  <2>4. job'[t].lo \in Nat /\ low[root] < job'[t].lo
    <3>1. job'[t].lo \in Nat
      BY <1>2, KeysAre
    <3> QED BY <2>2, <3>1
  <2> QED BY <1>1, <2>1, <2>2, <2>3, <2>4, FoundBeyond
<1>7. ScanInv(t)'
  BY <1>2, <1>4, <1>5, <1>6 DEF ScanInv
<1> QED BY <1>2, <1>4, <1>7, ScansStill

\* Taking a lock changes nothing about it.
LEMMA EnterScan ==
    ASSUME TreeInv, OrderInv, ScansInv, NEW t \in Threads, Enter(t)
    PROVE  ScansInv'
<1>1. /\ Moves(t) /\ Aloof(t) /\ nodes' = nodes /\ out' = out /\ before' = before /\ at'[t] = at[t] /\ job'[t] = job[t]
      /\ \/ pc[t] = "enter" /\ pc'[t] = "walk"
         \/ pc[t] = "climb" /\ pc'[t] = "seek"
  BY EnterOrder
<1>2. (Scanning(t)' <=> Scanning(t)) /\ Due(t)' = Due(t) /\ \A e : Between(t, e)' <=> Between(t, e)
  BY <1>1 DEF Scanning, Due, Between
<1>3. ScanInv(t)
  BY DEF ScansInv
<1>4. ScanInv(t)'
  <2>1. CASE ~Scanning(t)
    BY <1>1, <1>2, <1>3, <2>1 DEF ScanInv
  <2>2. CASE Scanning(t)
    <3>1. pc[t] = "enter" /\ pc'[t] = "walk"
      BY <1>1, <1>3, <2>2 DEF ScanInv
    <3>2. Searching(t) /\ Searching(t)' /\ (OnLeaves(t)' <=> OnLeaves(t))
      BY <1>1, <1>2, <3>1 DEF Searching, OnLeaves
    <3> QED BY <1>1, <1>2, <1>3, <2>2, <3>1, <3>2 DEF ScanInv
  <2> QED BY <2>1, <2>2
<1> QED BY <1>1, <1>4, ScansStill DEF ScansInv

\* When it comes to its first leaf, which begins below the low key, what it must find is there or to the right.
LEMMA WalkScan ==
    ASSUME TreeInv, OrderInv, ScansInv, NEW t \in Threads, Walk(t)
    PROVE  ScansInv'
<1>1. ShapeInv /\ ArenaInv(nodes) /\ LevelInv /\ FirstIn(nodes)
  BY TreeIs DEF Good
<1>2. PICK m, n \in DOMAIN nodes :
              /\ Moves(t) /\ Aloof(t) /\ nodes' = nodes /\ root' = root /\ out' = out /\ before' = before
              /\ pc[t] = "walk" /\ pc'[t] = "walk" /\ at[t] = m /\ at'[t] = n /\ job'[t] = job[t] /\ job[t].lo \in Keys
              /\ Goes(t, m, n)
  BY WalkGoes
<1>3. (Scanning(t)' <=> Scanning(t)) /\ Due(t)' = Due(t) /\ (\A e : Between(t, e)' <=> Between(t, e))
      /\ Searching(t) /\ Searching(t)'
  BY <1>2 DEF Scanning, Due, Between, Searching
<1>4. ScanInv(t)
  BY DEF ScansInv
<1>5. PICK low : LowIs(nodes, low) /\ PlaceInv(t, low)
  BY DEF OrderInv
<1>6. PICK level : IsLevel(nodes, level)
  BY <1>1 DEF LevelInv
<1>7. job[t].lo \in Nat /\ nodes[m].high \in Nat /\ low[m] \in Int
  BY <1>1, <1>2, <1>5, LowAt, KeysAre
<1>8. CASE ~Scanning(t)
  <2>1. ScanInv(t)'
    BY <1>2, <1>3, <1>4, <1>8 DEF ScanInv
  <2> QED BY <1>2, <2>1, ScansStill DEF ScansInv
<1>9. CASE Scanning(t)
  <2>1. /\ \A i, j \in DOMAIN out[t] : i < j => out[t][i][1] <= out[t][j][1] /\ out[t][i] # out[t][j]
        /\ \A e \in ToSet(out[t]) : e \in Held(nodes) /\ Between(t, e)
        /\ before[t] \subseteq Held(nodes)
        /\ ~OnLeaves(t) => out[t] = <<>>
        /\ OnLeaves(t) => /\ Due(t) \subseteq ToSet(out[t]) \cup Beyond(nodes, m)
                          /\ ToSet(out[t]) \cap Beyond(nodes, m) = {}
    BY <1>2, <1>3, <1>4, <1>9 DEF ScanInv
  <2>2. CASE OnLeaves(t)
    <3>1. nodes[m].leaf /\ job[t].lo > nodes[m].high /\ nodes[m].right # NoNode /\ n = nodes[m].right
      BY <1>2, <2>2 DEF OnLeaves, Goes
    <3>2. OnLeaves(t)'
      BY <1>1, <1>2, <1>3, <1>6, <1>9, <3>1, LeafRight DEF OnLeaves
    <3>3. \A e : e \in Beyond(nodes, m) <=> e \in PairsIn(nodes[m]) \/ e \in Beyond(nodes, n)
      BY <1>1, <3>1, BeyondStep
    <3>4. ASSUME NEW e \in PairsIn(nodes[m]) PROVE e \notin Due(t)
      <4>1. PICK L \in Nat : InOrder(nodes, low, m, L)
        BY <1>1, <1>5, <3>1, LeafKeys
      <4>2. Lists(Entries(nodes[m]), nodes[m], L)
        BY <4>1, EntryIs
      <4>3. PICK i \in 1..L : e[1] = nodes[m].keys[i]
        BY <4>2 DEF Lists
      <4>4. e[1] <= nodes[m].high /\ e[1] \in Nat
        BY <4>1, <4>3 DEF InOrder
      <4> QED BY <1>7, <3>1, <4>4 DEF Due, Between
    <3>5. Due(t) \subseteq ToSet(out[t]) \cup Beyond(nodes, n) /\ ToSet(out[t]) \cap Beyond(nodes, n) = {}
      BY <2>1, <2>2, <3>3, <3>4
    <3>6. ScanInv(t)'
      BY <1>2, <1>3, <1>9, <2>1, <3>2, <3>5 DEF ScanInv
    <3> QED BY <1>2, <3>6, ScansStill DEF ScansInv
  <2>3. CASE ~OnLeaves(t)
    <3>1. ~nodes[m].leaf /\ out[t] = <<>> /\ ToSet(out[t]) = {} /\ low[m] < job[t].lo
      BY <1>2, <1>3, <1>5, <1>9, <2>1, <2>3 DEF OnLeaves, ToSet, PlaceInv
    <3>2. ASSUME OnLeaves(t)', NEW e \in Due(t) PROVE e \in Beyond(nodes, n)
      <4>1. nodes[n].leaf
        BY <1>2, <3>2 DEF OnLeaves
      <4>2. n = ChildFor(nodes[m], job[t].lo)
        BY <1>1, <1>2, <1>6, <3>1, <4>1, LeafRight DEF Goes
      <4>3. low[n] < job[t].lo
        BY <1>1, <1>5, <1>7, <3>1, <4>2, ChildBelow
      <4>4. e \in Held(nodes) /\ job[t].lo <= e[1]
        BY <2>1, <3>2 DEF Due, Between
      <4> QED BY <1>1, <1>5, <1>6, <1>7, <4>1, <4>3, <4>4, FoundBeyond
    <3>3. ScanInv(t)'
      BY <1>2, <1>3, <1>9, <2>1, <3>1, <3>2 DEF ScanInv
    <3> QED BY <1>2, <3>3, ScansStill DEF ScansInv
  <2> QED BY <2>2, <2>3
<1> QED BY <1>8, <1>9

\* A step that changes the arena.
LEMMA ChangeKeeps ==
    ASSUME TreeInv, TreeInv', OrderInv, ScansInv, NEW t \in Threads, Rests(t), Drops(t), ScanInv(t)',
           NEW D, Orders(t, D), Held(nodes') = Held(nodes) \cup D, D \cap Held(nodes) = {}
    PROVE  OrderInv' /\ ScansInv'
<1>1. Aloof(t) /\ out' \in [Threads -> Seq(Keys \X Ids)] /\ before' \in [Threads -> SUBSET (Keys \X Ids)]
  BY DropsIs
<1>2. OrderInv' /\ Spreads(D)
  BY <1>1, OrderStep
<1>3. Moves(t) /\ Keeps(nodes, nodes')
  BY DEF Rests
<1> QED BY <1>1, <1>2, <1>3, ScansStep

\* Every step keeps the order and the scans right.
LEMMA ScanStep ==
    ASSUME TreeInv, TreeInv', OrderInv, ScansInv, NodesAreGuarded, NoRemoves, [Next]_vars
    PROVE  OrderInv' /\ ScansInv'
<1>1. CASE Next
  <2>1. PICK t \in Threads : \/ BeginInsert(t) \/ InsertHere(t)
                             \/ GrowRoot(t) \/ RereadHint(t) \/ HintLeft(t) \/ HintRight(t)
                             \/ Seek(t) \/ Splice(t) \/ Rehome(t)
                             \/ BeginScan(t) \/ ScanLeaf(t) \/ Answer(t) \/ Enter(t) \/ Walk(t)
    BY <1>1, StepCases
  <2>2. out \in [Threads -> Seq(Keys \X Ids)] /\ before \in [Threads -> SUBSET (Keys \X Ids)]
    BY DEF ScansInv
  <2>3. CASE BeginInsert(t)
    <3>1. OrderInv' /\ Moves(t) /\ Aloof(t) /\ ~Scanning(t)' /\ pc'[t] = "enter" /\ out' = out /\ before' = before
      BY <2>3, BeginInsertOrder
    <3>2. pc[t] = "idle" /\ nodes' = nodes
      BY <2>3 DEF BeginInsert, MayBegin, tree
    <3>3. ScanInv(t)'
      BY <3>1, <3>2, Quiescent, IdleScan
    <3> QED BY <2>2, <3>1, <3>2, <3>3, ScansStill
  <2>4. CASE BeginScan(t)
    BY <2>4, BeginScanOrder, BeginScanScan
  <2>5. CASE Enter(t)
    BY <2>5, EnterOrder, EnterScan
  <2>6. CASE Walk(t)
    BY <2>6, WalkOrder, WalkScan
  <2>7. CASE RereadHint(t) \/ Seek(t)
    <3>1. /\ OrderInv' /\ Moves(t) /\ Aloof(t) /\ nodes' = nodes /\ out' = out /\ before' = before
          /\ pc[t] \in {"grow", "seek"} /\ pc'[t] \in {"climb", "seek"} /\ job'[t] = job[t]
      BY <2>7, RereadHintOrder, SeekOrder
    <3>2. ~Scanning(t)' /\ out'[t] = <<>>
      BY <3>1, Quiescent DEF Scanning
    <3>3. ScanInv(t)'
      BY <3>1, <3>2, IdleScan
    <3> QED BY <2>2, <3>1, <3>3, ScansStill
  <2>8. CASE ScanLeaf(t)
    <3>1. /\ Moves(t) /\ Aloof(t) /\ nodes' = nodes /\ before' = before /\ out'[t] \in Seq(Keys \X Ids)
          /\ ScanInv(t)' /\ OrderInv'
      BY <2>8, ScanLeafScan, ScanLeafOrder
    <3>2. out' \in [Threads -> Seq(Keys \X Ids)]
      <4>1. \E q : out' = [out EXCEPT ![t] = q]
        <5> SUFFICES \E q : out' = [out EXCEPT ![t] = out[t] \o q]
          OBVIOUS
        <5> QED BY <2>8 DEF ScanLeaf
      <4>2. out \in [Threads -> Seq(Keys \X Ids)]
        BY DEF ScansInv
      <4> QED BY <3>1, <4>1, <4>2
    <3> QED BY <2>2, <3>1, <3>2, ScansStill
  <2>9. CASE Answer(t)
    <3>1. Return(t) /\ nodes' = nodes /\ root' = root
      BY <2>9 DEF Answer, tree
    <3>2. OrderInv' /\ Drops(t) /\ ScanInv(t)'
      BY <3>1, ReturnOrder, ReturnScan
    <3>3. Moves(t)
      <4>1. ShapeInv /\ Len(nodes') \in Nat
        BY <3>1, TreeIs
      <4> QED BY <3>1, <4>1, ReturnIs
    <3> QED BY <3>1, <3>2, <3>3, DropsIs, ScansStill
  <2>10. CASE InsertHere(t)
    <3>1. /\ Held(nodes') = Held(nodes) \cup {<<job[t].lo, job[t].id>>} /\ Rests(t) /\ Orders(t, {<<job[t].lo, job[t].id>>})
          /\ Drops(t) /\ ScanInv(t)'
      BY <2>10, InsertHereStep, ChangeScan
    <3>2. {<<job[t].lo, job[t].id>>} \cap Held(nodes) = {}
      <4>1. Adding(t) /\ FreshInv
        BY <2>10, TreeIs DEF InsertHere, AtItsLeaf, Adding
      <4>2. \A e \in Held(nodes) : e[2] # job[t].id
        BY <4>1 DEF FreshInv
      <4> QED BY <4>2
    <3> QED BY <3>1, <3>2, ChangeKeeps
  <2>11. CASE GrowRoot(t) \/ HintLeft(t) \/ HintRight(t) \/ Splice(t) \/ Rehome(t)
    <3>1. Held(nodes') = Held(nodes) /\ Rests(t) /\ Orders(t, {})
      BY <2>11, GrowRootStep, HintLeftStep, HintRightStep, SpliceStep, RehomeStep
    <3>2. Held(nodes') = Held(nodes) \cup {} /\ {} \cap Held(nodes) = {} /\ Drops(t) /\ ScanInv(t)'
      BY <2>11, <3>1, ChangeScan
    <3> QED BY <3>1, <3>2, ChangeKeeps
  <2> QED BY <2>1, <2>3, <2>4, <2>5, <2>6, <2>7, <2>8, <2>9, <2>10, <2>11
<1>2. CASE UNCHANGED vars
  <2>1. /\ nodes' = nodes /\ root' = root /\ pc' = pc /\ at' = at /\ job' = job /\ split' = split
        /\ out' = out /\ before' = before
    BY <1>2 DEF vars, tree, thread
  <2>2. OrderInv'
    BY <2>1 DEF OrderInv, PlaceInv, OnLeaves, Searching, Scanning
  <2>3. ScansInv'
    BY <2>1 DEF ScansInv, ScanInv, OnLeaves, Searching, Scanning, Due, Between
  <2> QED BY <2>2, <2>3
<1> QED BY <1>1, <1>2

\* The tree that has one empty leaf is in order.
LEMMA ScanInit ==
    ASSUME Init
    PROVE  OrderInv /\ ScansInv
<1>1. /\ nodes = <<EmptyLeaf>> /\ root = 1 /\ pc = [t \in Threads |-> "idle"] /\ job = [t \in Threads |-> NoJob]
      /\ out = [t \in Threads |-> <<>>] /\ before = [t \in Threads |-> {}]
  BY DEF Init
<1>2. DOMAIN nodes = {1} /\ nodes[1] = EmptyLeaf /\ ArenaInv(nodes)
  BY <1>1, TreeInit, TreeIs
<1>3. nodes[1].leaf /\ nodes[1].right = NoNode /\ nodes[1].high = Unbounded /\ DOMAIN nodes[1].keys = {} /\ DOMAIN nodes[1].items = {}
  BY <1>2 DEF EmptyLeaf
<1>4. \A t \in Threads : pc[t] = "idle" /\ ~Scanning(t) /\ out[t] = <<>>
  BY <1>1 DEF Scanning, NoJob
<1>5. Ends(nodes)
  BY <1>2, <1>3, ChainCloses DEF Ends
<1>6. OnePlace(nodes)
  BY <1>2, <1>3 DEF OnePlace, Distinct
<1>7. \E low : LowIs(nodes, low) /\ low[root] = -1
  <2> DEFINE low == [n \in DOMAIN nodes |-> -1]
  <2>1. NodeLow(nodes, low, 1)
    <3>1. low[1] = -1 /\ -1 <= Unbounded
      BY <1>2, KeysAre
    <3> QED BY <1>3, <3>1 DEF NodeLow
  <2>2. LowIs(nodes, low)
    BY <1>2, <2>1 DEF LowIs
  <2> QED BY <1>1, <1>2, <2>2
<1>8. ASSUME NEW t \in Threads, NEW low PROVE PlaceInv(t, low)
  BY <1>4 DEF PlaceInv, Untold, OnLeaves, Searching
<1>9. OrderInv
  BY <1>5, <1>6, <1>7, <1>8 DEF OrderInv
<1>10. \A t \in Threads : ScanInv(t)
  BY <1>4 DEF ScanInv
<1>11. <<>> \in Seq(Keys \X Ids) /\ {} \in SUBSET (Keys \X Ids)
  OBVIOUS
<1> QED BY <1>1, <1>9, <1>10, <1>11 DEF ScansInv

\* A scan that answers returns each pair that was there when it began, in order, and nothing that is not there.
LEMMA ScansExact ==
    ASSUME TreeInv, ScansInv
    PROVE  ScansAreExact
<1> SUFFICES ASSUME NEW t \in Threads, pc[t] = "answer"
             PROVE  LET within == {e \in Pairs : job[t].lo <= e[1] /\ e[1] <= job[t].hi}
                    IN  /\ IsInjective(out[t])
                        /\ \A i, j \in DOMAIN out[t] : i < j => out[t][i][1] <= out[t][j][1]
                        /\ before[t] \cap within \subseteq ToSet(out[t]) /\ ToSet(out[t]) \subseteq within
  BY DEF ScansAreExact
<1>1. /\ \A i, j \in DOMAIN out[t] : i < j => out[t][i][1] <= out[t][j][1] /\ out[t][i] # out[t][j]
      /\ \A e \in ToSet(out[t]) : e \in Held(nodes) /\ Between(t, e)
      /\ Due(t) \subseteq ToSet(out[t])
  BY DEF ScansInv, ScanInv
<1>2. Pairs = Held(nodes)
  BY PairsAreHeld
<1>3. IsInjective(out[t])
  <2>1. DOMAIN out[t] = 1..Len(out[t]) /\ Len(out[t]) \in Nat
    <3>1. out[t] \in Seq(Keys \X Ids)
      BY DEF ScansInv
    <3> QED BY <3>1
  <2>2. ASSUME NEW i \in DOMAIN out[t], NEW j \in DOMAIN out[t], out[t][i] = out[t][j] PROVE i = j
    <3>1. i \in Nat /\ j \in Nat
      BY <2>1
    <3>2. ~(i < j) /\ ~(j < i)
      BY <1>1, <2>2
    <3> QED BY <3>1, <3>2
  <2> QED BY <2>2 DEF IsInjective
<1> QED BY <1>1, <1>2, <1>3 DEF Between, Due

\* Inserts by any number of threads keep every leaf's keys between its left neighbour's high key and its own, as their parents
\* have it, and a scan that is under way has what it must find behind it or in front of it.
THEOREM OrderInvHolds == NoRemoves => (Spec /\ []NodesAreGuarded => [](OrderInv /\ ScansInv))
<1> SUFFICES ASSUME NoRemoves PROVE Spec /\ []NodesAreGuarded => [](OrderInv /\ ScansInv)
  OBVIOUS
<1>1. Init => OrderInv /\ ScansInv
  BY ScanInit
<1>2. TreeInv /\ TreeInv' /\ OrderInv /\ ScansInv /\ NodesAreGuarded /\ [Next]_vars => OrderInv' /\ ScansInv'
  BY ScanStep
<1>3. Spec /\ []NodesAreGuarded => []TreeInv
  BY TreeInvHolds
<1> QED BY <1>1, <1>2, <1>3, PTL DEF Spec

\* NothingIsLost: whatever inserts are under way, splits half done or parents not yet told, a descent from
\* the root that moves right past high keys, and then along the leaves, comes to every pair that is in a leaf.
THEOREM NothingGetsLost == NoRemoves => (Spec /\ []NodesAreGuarded => []NothingIsLost)
<1> SUFFICES ASSUME NoRemoves PROVE Spec /\ []NodesAreGuarded => []NothingIsLost
  OBVIOUS
<1>1. TreeInv /\ OrderInv => NothingIsLost
  BY NothingLost
<1> QED BY <1>1, TreeInvHolds, OrderInvHolds, PTL

\* ScansAreExact: scan_range returns, in order and once, every pair between its bounds that was in the tree when it began, and only
\* pairs that are there when it ends, although leaves are split before and behind it while it holds no lock.
THEOREM ScansReturnAll == NoRemoves => (Spec /\ []NodesAreGuarded => []ScansAreExact)
<1> SUFFICES ASSUME NoRemoves PROVE Spec /\ []NodesAreGuarded => []ScansAreExact
  OBVIOUS
<1>1. TreeInv /\ ScansInv => ScansAreExact
  BY ScansExact
<1> QED BY <1>1, TreeInvHolds, OrderInvHolds, PTL
=============================================================================
