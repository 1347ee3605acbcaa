------------------------- MODULE BPlusTreeArenaProofs -----------------------
(***************************************************************************)
(* What insert() does to the arena of a B+-tree.  The nodes to the right   *)
(* of one are shown to be a least closed set.  Then the four things that   *)
(* happen to an arena (hints are set, a node is halved, enlarged, a root   *)
(* is added) are followed through each part of the invariants, also of the *)
(* order of the leaves, and put together to what insert() does.            *)
(***************************************************************************)
EXTENDS BPlusTreeInductive, FiniteInduction

(* The nodes to the right of one, the node included, are the least set that holds it and that
   no right link leads out of, also where the links make a cycle. *)
Closes(ns, m, seen, T) ==
    /\ seen \subseteq T /\ (m # NoNode => m \in T)
    /\ \A x \in T \ seen : ns[x].right \in T \cup {NoNode}
\* What every set of nodes that holds m, unless it was seen, and is closed under right links has.
Least(ns, m, seen) == {q \in DOMAIN ns : \A T \in SUBSET DOMAIN ns : Closes(ns, m, seen, T) => q \in T}

\* f satisfies the equation of the recursive function in ChainFrom.
IsChain(f, ns) ==
    f = [s \in (0..Len(ns)) \X SUBSET DOMAIN ns |->
          IF s[1] \in s[2] \cup {NoNode} THEN s[2] ELSE f[<<ns[s[1]].right, s[2] \cup {s[1]}>>]]

\* Right links lead into the arena.
Linked(ns) == \A n \in DOMAIN ns : ns[n].right \in 0..Len(ns)

\* The least closed sets satisfy the equation of ChainFrom's function: this is why that function exists.
LEMMA LeastStep ==
    ASSUME NEW ns, Linked(ns), NEW m \in 0..Len(ns), NEW seen \in SUBSET DOMAIN ns, DOMAIN ns = 1..Len(ns), Len(ns) \in Nat
    PROVE  Least(ns, m, seen) = IF m \in seen \cup {NoNode} THEN seen ELSE Least(ns, ns[m].right, seen \cup {m})
<1>1. CASE m \in seen \cup {NoNode}
  <2>1. Closes(ns, m, seen, seen)
    BY <1>1 DEF Closes
  <2>2. \A T \in SUBSET DOMAIN ns : Closes(ns, m, seen, T) => seen \subseteq T
    BY DEF Closes
  <2> QED BY <1>1, <2>1, <2>2 DEF Least
<1>2. CASE m \notin seen \cup {NoNode}
  <2>0. m \in DOMAIN ns
    BY <1>2 DEF NoNode
  <2>1. ASSUME NEW T \in SUBSET DOMAIN ns PROVE Closes(ns, m, seen, T) <=> Closes(ns, ns[m].right, seen \cup {m}, T)
    BY <1>2, <2>0 DEF Closes
  <2> QED BY <1>2, <2>1 DEF Least
<1> QED BY <1>1, <1>2

\* So there is such a function.
LEMMA ChainExists ==
    ASSUME NEW ns, Linked(ns), DOMAIN ns = 1..Len(ns), Len(ns) \in Nat
    PROVE  \E f : IsChain(f, ns)
<1> DEFINE f == [s \in (0..Len(ns)) \X SUBSET DOMAIN ns |-> Least(ns, s[1], s[2])]
<1>1. ASSUME NEW m \in 0..Len(ns), NEW seen \in SUBSET DOMAIN ns
      PROVE  f[<<m, seen>>] = IF m \in seen \cup {NoNode} THEN seen ELSE f[<<ns[m].right, seen \cup {m}>>]
  <2>1. f[<<m, seen>>] = Least(ns, m, seen)
    OBVIOUS
  <2>2. CASE m \in seen \cup {NoNode}
    BY <2>1, <2>2, LeastStep
  <2>3. CASE m \notin seen \cup {NoNode}
    <3>1. m \in DOMAIN ns
      BY <2>3 DEF NoNode
    <3>2. ns[m].right \in 0..Len(ns) /\ seen \cup {m} \in SUBSET DOMAIN ns
      BY <3>1 DEF Linked
    <3>3. f[<<ns[m].right, seen \cup {m}>>] = Least(ns, ns[m].right, seen \cup {m})
      BY <3>2
    <3>4. Least(ns, m, seen) = Least(ns, ns[m].right, seen \cup {m})
      BY <2>3, LeastStep
    <3> QED BY <2>1, <2>3, <3>3, <3>4
  <2> QED BY <2>2, <2>3
<1>2. f = [s \in (0..Len(ns)) \X SUBSET DOMAIN ns |-> f[s]]
  OBVIOUS
<1> HIDE DEF f
<1>3. IsChain(f, ns)
  <2> SUFFICES ASSUME NEW s \in (0..Len(ns)) \X SUBSET DOMAIN ns
               PROVE  f[s] = IF s[1] \in s[2] \cup {NoNode} THEN s[2] ELSE f[<<ns[s[1]].right, s[2] \cup {s[1]}>>]
    BY <1>2 DEF IsChain
  <2>1. s = <<s[1], s[2]>> /\ s[1] \in 0..Len(ns) /\ s[2] \in SUBSET DOMAIN ns
    OBVIOUS
  <2> QED BY <1>1, <2>1
<1> QED BY <1>3

\* Each one that satisfies the equation gives, from any node, the least set closed under right links.
LEMMA ChainIs ==
    ASSUME NEW ns, Linked(ns), DOMAIN ns = 1..Len(ns), Len(ns) \in Nat, NEW f, IsChain(f, ns),
           NEW n \in 0..Len(ns)
    PROVE  f[<<n, {}>>] = Least(ns, n, {})
<1> DEFINE K == {k \in Nat : \A m \in 0..Len(ns), seen \in SUBSET DOMAIN ns :
                     Cardinality(DOMAIN ns \ seen) = k => f[<<m, seen>>] = Least(ns, m, seen)}
<1>0. \A m \in 0..Len(ns), seen \in SUBSET DOMAIN ns :
          f[<<m, seen>>] = IF m \in seen \cup {NoNode} THEN seen ELSE f[<<ns[m].right, seen \cup {m}>>]
  BY DEF IsChain
<1>1. IsFiniteSet(DOMAIN ns)
  BY FS_Interval
<1>2. ASSUME NEW m \in 0..Len(ns), NEW seen \in SUBSET DOMAIN ns, m \in seen \cup {NoNode}
      PROVE  f[<<m, seen>>] = Least(ns, m, seen)
  <2>1. f[<<m, seen>>] = seen
    BY <1>0, <1>2
  <2>2. Least(ns, m, seen) = seen
    BY <1>2, LeastStep
  <2> QED BY <2>1, <2>2
<1>3. 0 \in K
  <2> SUFFICES ASSUME NEW m \in 0..Len(ns), NEW seen \in SUBSET DOMAIN ns, Cardinality(DOMAIN ns \ seen) = 0
               PROVE  f[<<m, seen>>] = Least(ns, m, seen)
    OBVIOUS
  <2>1. IsFiniteSet(DOMAIN ns \ seen)
    BY <1>1, FS_Subset
  <2>2. DOMAIN ns \ seen = {}
    BY <2>1, FS_EmptySet
  <2>3. m \in seen \cup {NoNode}
    BY <2>2 DEF NoNode
  <2> QED BY <1>2, <2>3
<1>4. ASSUME NEW k \in Nat, k \in K PROVE k + 1 \in K
  <2> SUFFICES ASSUME NEW m \in 0..Len(ns), NEW seen \in SUBSET DOMAIN ns, Cardinality(DOMAIN ns \ seen) = k + 1
               PROVE  f[<<m, seen>>] = Least(ns, m, seen)
    OBVIOUS
  <2>1. CASE m \in seen \cup {NoNode}
    BY <1>2, <2>1
  <2>2. CASE m \notin seen \cup {NoNode}
    <3>1. m \in DOMAIN ns \ seen
      BY <2>2 DEF NoNode
    <3>2. ns[m].right \in 0..Len(ns) /\ seen \cup {m} \in SUBSET DOMAIN ns
      BY <3>1 DEF Linked
    <3>3. Cardinality(DOMAIN ns \ (seen \cup {m})) = k
      <4>1. IsFiniteSet(DOMAIN ns \ seen)
        BY <1>1, FS_Subset
      <4>2. Cardinality((DOMAIN ns \ seen) \ {m}) = Cardinality(DOMAIN ns \ seen) - 1
        BY <3>1, <4>1, FS_RemoveElement
      <4>3. (DOMAIN ns \ seen) \ {m} = DOMAIN ns \ (seen \cup {m})
        OBVIOUS
      <4>4. (k + 1) - 1 = k
        OBVIOUS
      <4> QED BY <4>2, <4>3, <4>4
    <3>4. f[<<ns[m].right, seen \cup {m}>>] = Least(ns, ns[m].right, seen \cup {m})
      BY <1>4, <3>2, <3>3
    <3>5. f[<<m, seen>>] = f[<<ns[m].right, seen \cup {m}>>]
      BY <1>0, <2>2
    <3>6. Least(ns, m, seen) = Least(ns, ns[m].right, seen \cup {m})
      BY <2>2, LeastStep
    <3> QED BY <3>4, <3>5, <3>6
  <2> QED BY <2>1, <2>2
<1>5. Cardinality(DOMAIN ns) \in Nat /\ DOMAIN ns \ {} = DOMAIN ns
  BY <1>1, FS_CardinalityType
<1> HIDE DEF K
<1>6. Cardinality(DOMAIN ns) \in K
  BY <1>3, <1>4, <1>5, Induction
<1> QED BY <1>5, <1>6 DEF K

\* The nodes ChainFrom reaches are the least set closed under right links, also where the links make a cycle.
LEMMA ChainIsLeast ==
    ASSUME NEW ns, Linked(ns), DOMAIN ns = 1..Len(ns), Len(ns) \in Nat, NEW n \in 0..Len(ns)
    PROVE  ChainFrom(ns, n) = Least(ns, n, {})
<1> DEFINE f == CHOOSE f : f = [s \in (0..Len(ns)) \X SUBSET DOMAIN ns |->
          IF s[1] \in s[2] \cup {NoNode} THEN s[2] ELSE f[<<ns[s[1]].right, s[2] \cup {s[1]}>>]]
<1>1. IsChain(f, ns)
  BY ChainExists DEF IsChain
<1>2. ChainFrom(ns, n) = f[<<n, {}>>]
  BY DEF ChainFrom
<1> HIDE DEF f
<1> QED BY <1>1, <1>2, ChainIs

-----------------------------------------------------------------------------
(* What the invariants need to know of the nodes to the right of one. *)

\* The arena is a sequence of typed nodes that satisfy NodeInv.
LEMMA ArenaIs ==
    ASSUME NEW ns, ArenaInv(ns)
    PROVE  /\ Len(ns) \in Nat /\ DOMAIN ns = 1..Len(ns) /\ Linked(ns)
           /\ \A n \in DOMAIN ns : ns[n] \in Node /\ NodeInv(ns, n)
<1>1. Len(ns) \in Nat /\ DOMAIN ns = 1..Len(ns) /\ \A n \in DOMAIN ns : ns[n] \in Node
  BY DEF ArenaInv
<1> QED BY <1>1 DEF ArenaInv, NodeInv, Linked

(* They hold the node, are closed under right links, and are the least such set. *)
LEMMA ChainCloses ==
    ASSUME NEW ns, ArenaInv(ns), NEW n \in DOMAIN ns
    PROVE  /\ n \in ChainFrom(ns, n) /\ ChainFrom(ns, n) \subseteq DOMAIN ns
           /\ \A x \in ChainFrom(ns, n) : ns[x].right \in ChainFrom(ns, n) \cup {NoNode}
           /\ \A T \in SUBSET DOMAIN ns :
                 n \in T /\ (\A x \in T : ns[x].right \in T \cup {NoNode}) => ChainFrom(ns, n) \subseteq T
<1>1. ChainFrom(ns, n) = Least(ns, n, {}) /\ n # NoNode /\ \A x \in DOMAIN ns : ns[x].right \in DOMAIN ns \cup {NoNode}
  BY ArenaIs, ChainIsLeast DEF NoNode, Linked
<1>2. \A T \in SUBSET DOMAIN ns : Closes(ns, n, {}, T) <=> n \in T /\ \A x \in T : ns[x].right \in T \cup {NoNode}
  BY <1>1 DEF Closes
<1> QED BY <1>1, <1>2 DEF Least

\* What is to the right of a node to the right is to the right.
LEMMA ChainTransitive ==
    ASSUME NEW ns, ArenaInv(ns), NEW n \in DOMAIN ns, NEW x \in ChainFrom(ns, n)
    PROVE  ChainFrom(ns, x) \subseteq ChainFrom(ns, n)
<1>1. x \in DOMAIN ns
  BY ChainCloses
<1> QED BY <1>1, ChainCloses

(* The first step of a walk to the right. *)
LEMMA ChainStep ==
    ASSUME NEW ns, ArenaInv(ns), NEW n \in DOMAIN ns, NEW x \in ChainFrom(ns, n), x # n
    PROVE  ns[n].right # NoNode /\ x \in ChainFrom(ns, ns[n].right)
<1>1. ns[n].right \in DOMAIN ns \cup {NoNode}
  BY ArenaIs DEF Linked, NoNode
<1>4. \A T \in SUBSET DOMAIN ns :
         n \in T /\ (\A y \in T : ns[y].right \in T \cup {NoNode}) => ChainFrom(ns, n) \subseteq T
  BY ChainCloses
<1>2. CASE ns[n].right = NoNode
  <2>1. ChainFrom(ns, n) \subseteq {n}
    <3>1. {n} \in SUBSET DOMAIN ns /\ \A y \in {n} : ns[y].right \in {n} \cup {NoNode}
      BY <1>2
    <3> QED BY <3>1, <1>4
  <2> QED BY <2>1
<1>3. CASE ns[n].right # NoNode
  <2> DEFINE C == ChainFrom(ns, ns[n].right)
  <2>1. ns[n].right \in C /\ C \subseteq DOMAIN ns /\ \A y \in C : ns[y].right \in C \cup {NoNode}
    BY <1>1, <1>3, ChainCloses
  <2> HIDE DEF C
  <2>2. ChainFrom(ns, n) \subseteq C \cup {n}
    <3> DEFINE T == C \cup {n}
    <3>1. T \in SUBSET DOMAIN ns /\ n \in T /\ \A y \in T : ns[y].right \in T \cup {NoNode}
      BY <2>1
    <3> HIDE DEF T
    <3>2. ChainFrom(ns, n) \subseteq T
      BY ONLY <3>1, <1>4
    <3> QED BY <3>2 DEF T
  <2> QED BY <1>3, <2>2 DEF C
<1> QED BY <1>2, <1>3

(* What is to the right stays to the right: a link is kept, or leads to a new node that has it. *)
LinksKept(ns, ms) ==
    /\ DOMAIN ns \subseteq DOMAIN ms
    /\ \A x \in DOMAIN ns : \/ ms[x].right = ns[x].right
                            \/ ms[x].right \in DOMAIN ms /\ ms[ms[x].right].right = ns[x].right

\* A change that keeps the links in this sense cuts no node off from what was to its right.
LEMMA ChainGrows ==
    ASSUME NEW ns, NEW ms, ArenaInv(ns), ArenaInv(ms), LinksKept(ns, ms), NEW n \in DOMAIN ns
    PROVE  ChainFrom(ns, n) \subseteq ChainFrom(ms, n)
<1> DEFINE C == ChainFrom(ms, n)   T == C \cap DOMAIN ns
<1>1. n \in C /\ C \subseteq DOMAIN ms /\ \A x \in C : ms[x].right \in C \cup {NoNode}
  BY ChainCloses DEF LinksKept
<1>2. \A x \in DOMAIN ns : ns[x].right \in DOMAIN ns \cup {NoNode}
  BY ArenaIs DEF Linked, NoNode
<1>4. NoNode \notin DOMAIN ms
  BY ArenaIs DEF NoNode
<1> HIDE DEF C
<1>3. ASSUME NEW x \in T PROVE ns[x].right \in T \cup {NoNode}
  BY <1>1, <1>2, <1>4 DEF LinksKept
<1>5. ChainFrom(ns, n) \subseteq T
  BY <1>1, <1>3, ChainCloses
<1> QED BY <1>5 DEF C

-----------------------------------------------------------------------------
(* Bisection. *)

\* One turn of std::lower_bound.
BisectStep(f, keys, k, first, len) ==
    IF len = 0 THEN first
    ELSE IF keys[first + len \div 2] < k THEN f[<<first + len \div 2 + 1, len - len \div 2 - 1>>]
    ELSE f[<<first, len \div 2>>]

\* f follows the recursion for up to n keys.
Bisects(f, keys, k, n) ==
    \A first \in Nat, len \in 0..n : f[<<first, len>>] = BisectStep(f, keys, k, first, len)

\* f satisfies the equation of the recursive function in LowerBound.
IsBisect(f, keys, k) ==
    f = [s \in Nat \X (0..Len(keys)) |->
          IF s[2] = 0 THEN s[1]
          ELSE IF keys[s[1] + s[2] \div 2] < k THEN f[<<s[1] + s[2] \div 2 + 1, s[2] - s[2] \div 2 - 1>>]
          ELSE f[<<s[1], s[2] \div 2>>]]

\* The halves of a range are shorter than the range and stay inside it.
LEMMA Halving ==
    ASSUME NEW first \in Nat, NEW n \in Nat, NEW len \in 1..(n + 1)
    PROVE  \E a \in Nat, b \in 0..n, h \in 0..n :
              /\ a = first + len \div 2 + 1 /\ b = len - len \div 2 - 1 /\ h = len \div 2
              /\ a + b = first + len /\ a >= first /\ first + h <= first + len
<1>1. first + len \div 2 + 1 \in Nat /\ len - len \div 2 - 1 \in 0..n /\ len \div 2 \in 0..n
  OBVIOUS
<1>2. (first + len \div 2 + 1) + (len - len \div 2 - 1) = first + len
  OBVIOUS
<1>3. first + len \div 2 + 1 >= first /\ first + len \div 2 <= first + len
  OBVIOUS
<1> QED BY <1>1, <1>2, <1>3

\* Two functions that agree below a length make the same step.
AgreeBelow(f, g, n) == \A a \in Nat, b \in 0..n : f[<<a, b>>] = g[<<a, b>>]
\* A turn looks at shorter ranges only.
LEMMA SameStep ==
    ASSUME NEW f, NEW g, NEW keys, NEW k, NEW n \in Nat, NEW first \in Nat, NEW len \in 0..(n + 1),
           AgreeBelow(f, g, n)
    PROVE  BisectStep(f, keys, k, first, len) = BisectStep(g, keys, k, first, len)
<1>1. CASE len = 0
  BY <1>1 DEF BisectStep
<1>2. CASE len # 0
  <2>1. len \in 1..(n + 1)
    BY <1>2
  <2>2. PICK a \in Nat, b \in 0..n, h \in 0..n :
           a = first + len \div 2 + 1 /\ b = len - len \div 2 - 1 /\ h = len \div 2
    BY <2>1, Halving
  <2>3. f[<<a, b>>] = g[<<a, b>>] /\ f[<<first, h>>] = g[<<first, h>>]
    BY DEF AgreeBelow
  <2> QED BY <1>2, <2>2, <2>3 DEF BisectStep
<1> QED BY <1>1, <1>2

\* The bisection is defined for ranges of each length, by induction on the length.
LEMMA BisectsBelow ==
    ASSUME NEW keys, NEW k, NEW n \in Nat
    PROVE  \E f : Bisects(f, keys, k, n)
<1> DEFINE T == {m \in Nat : \E f : Bisects(f, keys, k, m)}
<1>1. 0 \in T
  <2> DEFINE f == [s \in Nat \X Nat |-> s[1]]
  <2>1. \A first \in Nat, len \in 0..0 : len = 0 /\ f[<<first, len>>] = first
    OBVIOUS
  <2> HIDE DEF f
  <2>2. Bisects(f, keys, k, 0)
    BY <2>1 DEF Bisects, BisectStep
  <2> QED BY <2>2
<1>2. ASSUME NEW m \in Nat, m \in T PROVE m + 1 \in T
  <2>1. PICK f : Bisects(f, keys, k, m)
    BY <1>2
  <2> DEFINE g == [s \in Nat \X Nat |-> IF s[2] = m + 1 THEN BisectStep(f, keys, k, s[1], s[2]) ELSE f[s]]
  <2>2. \A first \in Nat, len \in 0..m : g[<<first, len>>] = f[<<first, len>>]
    OBVIOUS
  <2>3. \A first \in Nat : g[<<first, m + 1>>] = BisectStep(f, keys, k, first, m + 1)
    OBVIOUS
  <2> HIDE DEF g
  <2>4. ASSUME NEW first \in Nat, NEW len \in 0..(m + 1)
        PROVE  g[<<first, len>>] = BisectStep(g, keys, k, first, len)
    <3>1. BisectStep(f, keys, k, first, len) = BisectStep(g, keys, k, first, len)
      <4>1. AgreeBelow(f, g, m)
        BY <2>2 DEF AgreeBelow
      <4> QED BY <4>1, SameStep
    <3>2. CASE len = m + 1
      BY <2>3, <3>1, <3>2
    <3>3. CASE len # m + 1
      <4>1. len \in 0..m
        BY <3>3
      <4> QED BY <2>1, <2>2, <3>1, <4>1 DEF Bisects
    <3> QED BY <3>2, <3>3
  <2>5. Bisects(g, keys, k, m + 1)
    BY <2>4 DEF Bisects
  <2> QED BY <2>5
<1> HIDE DEF T
<1>3. n \in T
  BY <1>1, <1>2, Induction
<1> QED BY <1>3 DEF T

\* So the function LowerBound chooses exists.
LEMMA BisectExists ==
    ASSUME NEW keys, NEW k, Len(keys) \in Nat
    PROVE  \E f : IsBisect(f, keys, k)
<1>1. PICK f : Bisects(f, keys, k, Len(keys))
  BY BisectsBelow
<1> DEFINE g == [s \in Nat \X (0..Len(keys)) |-> f[s]]
<1>2. /\ g = [s \in Nat \X (0..Len(keys)) |-> g[s]]
      /\ \A first \in Nat, len \in 0..Len(keys) : g[<<first, len>>] = f[<<first, len>>]
  OBVIOUS
<1> HIDE DEF g
<1>3. ASSUME NEW first \in Nat, NEW len \in 0..Len(keys)
      PROVE  g[<<first, len>>] = BisectStep(g, keys, k, first, len)
  <2>1. len \in 0..(Len(keys) + 1)
    OBVIOUS
  <2>2. BisectStep(f, keys, k, first, len) = BisectStep(g, keys, k, first, len)
    <3>1. AgreeBelow(f, g, Len(keys))
      BY <1>2 DEF AgreeBelow
    <3> QED BY <2>1, <3>1, SameStep
  <2> QED BY <1>1, <1>2, <2>2 DEF Bisects
<1>4. IsBisect(g, keys, k)
  <2> SUFFICES ASSUME NEW s \in Nat \X (0..Len(keys))
               PROVE  g[s] = IF s[2] = 0 THEN s[1]
                             ELSE IF keys[s[1] + s[2] \div 2] < k
                                  THEN g[<<s[1] + s[2] \div 2 + 1, s[2] - s[2] \div 2 - 1>>]
                                  ELSE g[<<s[1], s[2] \div 2>>]
    BY <1>2 DEF IsBisect
  <2>1. s = <<s[1], s[2]>> /\ s[1] \in Nat /\ s[2] \in 0..Len(keys)
    OBVIOUS
  <2>2. g[s] = BisectStep(g, keys, k, s[1], s[2])
    BY <1>3, <2>1
  <2> QED BY <2>2 DEF BisectStep
<1> QED BY <1>4

\* r is a position of the range, or the one behind it; in front of it is a key below k, and at it none.
Bounds(keys, k, first, len, r) ==
    /\ r \in first..(first + len)
    /\ r > first => keys[r - 1] < k
    /\ r < first + len => ~(keys[r] < k)

(* Whatever the order of the keys, the position it returns is between a key that is below k and one
   that is not. *)
LEMMA LowerBoundIs ==
    ASSUME NEW keys, NEW k, Len(keys) \in Nat
    PROVE  Bounds(keys, k, 1, Len(keys), LowerBound(keys, k))
<1> DEFINE f == CHOOSE f : f = [s \in Nat \X (0..Len(keys)) |->
          IF s[2] = 0 THEN s[1]
          ELSE IF keys[s[1] + s[2] \div 2] < k THEN f[<<s[1] + s[2] \div 2 + 1, s[2] - s[2] \div 2 - 1>>]
          ELSE f[<<s[1], s[2] \div 2>>]]
<1>1. IsBisect(f, keys, k)
  <2>1. PICK g : IsBisect(g, keys, k)
    BY BisectExists
  <2>2. g = [s \in Nat \X (0..Len(keys)) |->
          IF s[2] = 0 THEN s[1]
          ELSE IF keys[s[1] + s[2] \div 2] < k THEN g[<<s[1] + s[2] \div 2 + 1, s[2] - s[2] \div 2 - 1>>]
          ELSE g[<<s[1], s[2] \div 2>>]]
    BY <2>1 DEF IsBisect
  <2> QED BY <2>2, Zenon DEF IsBisect
<1>2. LowerBound(keys, k) = f[<<1, Len(keys)>>]
  BY DEF LowerBound
<1> HIDE DEF f
<1> DEFINE T == {n \in Nat : \A first \in Nat, len \in 0..Len(keys) :
                    len <= n => Bounds(keys, k, first, len, f[<<first, len>>])}
<1>3. \A first \in Nat, len \in 0..Len(keys) : f[<<first, len>>] = BisectStep(f, keys, k, first, len)
  BY <1>1 DEF IsBisect, BisectStep
<1>0. ASSUME NEW first \in Nat, NEW len \in 0..Len(keys), len = 0 PROVE Bounds(keys, k, first, len, f[<<first, len>>])
  <2>1. f[<<first, len>>] = first
    BY <1>0, <1>3 DEF BisectStep
  <2> QED BY <1>0, <2>1 DEF Bounds
<1>4. 0 \in T
  BY <1>0
<1>5. ASSUME NEW n \in Nat, n \in T PROVE n + 1 \in T
  <2>2. ASSUME NEW first \in Nat, NEW len \in 0..Len(keys), len <= n + 1, len # 0
        PROVE  Bounds(keys, k, first, len, f[<<first, len>>])
    <3>1. len \in 1..(n + 1)
      BY <2>2
    <3>2. PICK a \in Nat, b \in 0..n, h \in 0..n :
              /\ a = first + len \div 2 + 1 /\ b = len - len \div 2 - 1 /\ h = len \div 2
              /\ a + b = first + len /\ a >= first /\ first + h <= first + len
      BY <3>1, Halving
    <3>3. /\ keys[first + h] < k => f[<<first, len>>] = f[<<a, b>>]
          /\ ~(keys[first + h] < k) => f[<<first, len>>] = f[<<first, h>>]
      BY <1>3, <2>2, <3>2 DEF BisectStep
    <3>4. b \in 0..Len(keys) /\ h \in 0..Len(keys) /\ b <= n /\ h <= n
      BY <3>2
    <3>5. Bounds(keys, k, a, b, f[<<a, b>>]) /\ Bounds(keys, k, first, h, f[<<first, h>>])
      BY <1>5, <3>4
    <3>6. a = first + h + 1 /\ a - 1 = first + h
      BY <3>2
    <3>7. CASE keys[first + h] < k
      <4>1. PICK r \in a..(a + b) : r = f[<<a, b>>]
        BY <3>5 DEF Bounds
      <4>2. (r > a => keys[r - 1] < k) /\ (r < a + b => ~(keys[r] < k)) /\ f[<<first, len>>] = r
        BY <3>3, <3>5, <3>7, <4>1 DEF Bounds
      <4>3. r > a \/ r = a
        OBVIOUS
      <4>4. keys[r - 1] < k
        BY <3>6, <3>7, <4>2, <4>3
      <4>5. r \in first..(first + len) /\ (r < first + len => r < a + b)
        BY <3>2
      <4> QED BY <4>2, <4>4, <4>5 DEF Bounds
    <3>8. CASE ~(keys[first + h] < k)
      <4>1. PICK r \in first..(first + h) : r = f[<<first, h>>]
        BY <3>5 DEF Bounds
      <4>2. (r > first => keys[r - 1] < k) /\ (r < first + h => ~(keys[r] < k)) /\ f[<<first, len>>] = r
        BY <3>3, <3>5, <3>8, <4>1 DEF Bounds
      <4>3. r < first + h \/ r = first + h
        OBVIOUS
      <4>4. ~(keys[r] < k)
        BY <3>8, <4>2, <4>3
      <4>5. r \in first..(first + len)
        BY <3>2
      <4> QED BY <4>2, <4>4, <4>5 DEF Bounds
    <3> QED BY <3>7, <3>8
  <2> QED BY <1>0, <2>2
<1> HIDE DEF T
<1>6. Len(keys) \in T
  <2>1. \A n \in 0..(Len(keys) - 1) : n \in T => n + 1 \in T
    BY <1>5
  <2>2. 0..Len(keys) \subseteq T
    BY <1>4, <2>1, Induction
  <2> QED BY <2>2
<1>7. Bounds(keys, k, 1, Len(keys), f[<<1, Len(keys)>>])
  BY <1>6 DEF T
<1> QED BY <1>2, <1>7

(* It is a position of the keys, or the one behind them. *)
LEMMA LowerBoundInRange ==
    ASSUME NEW keys, NEW k, Len(keys) \in Nat
    PROVE  LowerBound(keys, k) \in 1..(Len(keys) + 1)
<1>1. LowerBound(keys, k) \in 1..(1 + Len(keys))
  BY LowerBoundIs DEF Bounds
<1> QED BY <1>1

(* std::find returns a position of what is there. *)
LEMMA PositionOf ==
    ASSUME NEW n, NEW N \in Nat, Len(n.items) = N, DOMAIN n.items = 1..N, NEW c, HasChild(n, c)
    PROVE  Position(n, c) \in 1..N /\ n.items[Position(n, c)] = c
<1> DEFINE I == {i \in 1..N : n.items[i] = c}
<1>1. I # {} /\ I \in SUBSET Nat
  BY DEF HasChild, ToSet
<1>2. Position(n, c) = Min(I)
  BY <1>1 DEF Position, SelectInSeq
<1>3. \E x \in I : \A y \in I : x =< y
  BY <1>1, LeastElement
<1>4. Min(I) \in I
  BY <1>3 DEF Min
<1> QED BY <1>2, <1>4

(* A sequence with an element put in. *)
LEMMA InsertAtIs ==
    ASSUME NEW S, NEW s \in Seq(S), NEW p \in 1..(Len(s) + 1), NEW e \in S
    PROVE  /\ InsertAt(s, p, e) \in Seq(S) /\ Len(InsertAt(s, p, e)) = Len(s) + 1
           /\ DOMAIN InsertAt(s, p, e) = 1..(Len(s) + 1)
           /\ \A i \in 1..(Len(s) + 1) :
                 InsertAt(s, p, e)[i] = IF i < p THEN s[i] ELSE IF i = p THEN e ELSE s[i - 1]
<1> DEFINE a == SubSeq(s, 1, p - 1)   b == SubSeq(s, p, Len(s))
<1>1. a \in Seq(S) /\ Len(a) = p - 1 /\ \A i \in 1..(p - 1) : a[i] = s[i]
  OBVIOUS
<1>2. b \in Seq(S) /\ Len(b) = Len(s) - p + 1 /\ \A i \in 1..(Len(s) - p + 1) : b[i] = s[p + i - 1]
  OBVIOUS
<1> HIDE DEF a, b
<1> DEFINE ae == a \o <<e>>
<1>3. ae \in Seq(S) /\ Len(ae) = p /\ \A i \in 1..p : ae[i] = IF i < p THEN a[i] ELSE e
  BY <1>1
<1>4. InsertAt(s, p, e) = ae \o b
  BY DEF InsertAt, a, b
<1> HIDE DEF ae
<1>5. ae \o b \in Seq(S) /\ Len(ae \o b) = p + Len(b) /\ \A i \in 1..(p + Len(b)) : (ae \o b)[i] = IF i <= p THEN ae[i] ELSE b[i - p]
  BY <1>2, <1>3
<1>6. Len(ae \o b) = Len(s) + 1 /\ DOMAIN (ae \o b) = 1..(Len(s) + 1)
  BY <1>2, <1>5
<1>7. ASSUME NEW i \in 1..(Len(s) + 1)
      PROVE  (ae \o b)[i] = IF i < p THEN s[i] ELSE IF i = p THEN e ELSE s[i - 1]
  <2>1. CASE i <= p
    BY <1>1, <1>2, <1>3, <1>5, <2>1
  <2>2. CASE i > p
    <3>1. i - p \in 1..(Len(s) - p + 1) /\ p + (i - p) - 1 = i - 1
      BY <2>2
    <3>2. (ae \o b)[i] = b[i - p]
      BY <1>2, <1>5, <2>2
    <3>3. b[i - p] = s[i - 1]
      BY <1>2, <3>1
    <3> QED BY <2>2, <3>2, <3>3
  <2>3. i <= p \/ i > p
    OBVIOUS
  <2> QED BY <2>1, <2>2, <2>3
<1> QED BY <1>4, <1>5, <1>6, <1>7

(* What each operation on the arena does, field by field. *)

\* ms is ns with the hints of the nodes cs set to h.
HintsOnly(ns, ms, cs, h) ==
    /\ ms \in Seq(Node) /\ Len(ms) = Len(ns) /\ DOMAIN ms = DOMAIN ns
    /\ \A x \in DOMAIN ns :
          /\ ms[x].leaf = ns[x].leaf /\ ms[x].keys = ns[x].keys /\ ms[x].items = ns[x].items
          /\ ms[x].right = ns[x].right /\ ms[x].high = ns[x].high
          /\ ms[x].hint = IF x \in cs THEN h ELSE ns[x].hint

\* ms is ns after a split of node n, whose first g items stay and whose others are in the last node of ms.
Halved(ns, ms, n, g) ==
    LET N == Len(ns) + 1   l == ns[n]   x == ms[n]   y == ms[N] IN
    /\ ms \in Seq(Node) /\ Len(ms) = N /\ DOMAIN ms = 1..N
    /\ \A z \in DOMAIN ns : z # n => ms[z] = ns[z]
    /\ x.leaf = l.leaf /\ x.right = N /\ x.high \in Keys /\ x.high = l.keys[g] /\ x.hint = l.hint
    /\ y.leaf = l.leaf /\ y.right = l.right /\ y.high = l.high /\ y.hint = NoNode
    /\ Len(x.items) = g /\ Len(y.items) = Len(l.items) - g
    /\ \A i \in 1..g : x.items[i] = l.items[i]
    /\ \A i \in 1..(Len(l.items) - g) : y.items[i] = l.items[i + g]
    /\ Len(x.keys) = g - Extra(l) /\ Len(y.keys) = Len(l.keys) - g
    /\ \A i \in 1..Len(x.keys) : x.keys[i] = l.keys[i]
    /\ \A i \in 1..Len(y.keys) : y.keys[i] = l.keys[i + g]

\* ms is ns with the key k at position p and the item e at position q of node n.
Enlarged(ns, ms, n, p, k, q, e) ==
    LET l == ns[n]   x == ms[n] IN
    /\ ms \in Seq(Node) /\ Len(ms) = Len(ns) /\ DOMAIN ms = DOMAIN ns
    /\ \A z \in DOMAIN ns : z # n => ms[z] = ns[z]
    /\ x.leaf = l.leaf /\ x.right = l.right /\ x.high = l.high /\ x.hint = l.hint
    /\ p \in 1..(Len(l.keys) + 1) /\ q \in 1..(Len(l.items) + 1)
    /\ Len(x.keys) = Len(l.keys) + 1 /\ Len(x.items) = Len(l.items) + 1
    /\ \A i \in 1..(Len(l.keys) + 1) : x.keys[i] = IF i < p THEN l.keys[i] ELSE IF i = p THEN k ELSE l.keys[i - 1]
    /\ \A i \in 1..(Len(l.items) + 1) : x.items[i] = IF i < q THEN l.items[i] ELSE IF i = q THEN e ELSE l.items[i - 1]

\* The keys are numbers, and Unbounded is above them.
LEMMA KeysAre ==
    /\ Max(Keys) \in Keys /\ Unbounded \in Nat /\ Keys \subseteq Nat
    /\ \A k \in Keys : k <= Max(Keys) /\ k < Unbounded /\ k # Unbounded
<1> DEFINE f == [k \in Keys |-> k]
<1>1. \A k \in Keys : f[k] \in Int /\ f[k] = k
  BY BTreeAssumption
<1> HIDE DEF f
<1>2. PICK m \in Keys : \A k \in Keys : f[k] <= f[m]
  BY <1>1, BTreeAssumption, GreatestValue
<1>3. m \in Keys /\ \A k \in Keys : m >= k
  BY <1>1, <1>2, BTreeAssumption
<1>4. Max(Keys) \in Keys /\ \A k \in Keys : Max(Keys) >= k
  BY <1>3 DEF Max
<1>5. Unbounded = Max(Keys) + 1
  BY DEF Unbounded
<1>6. Keys \subseteq Nat
  BY BTreeAssumption
<1>7. PICK M \in Nat : M = Max(Keys)
  BY <1>4, <1>6
<1>8. \A k \in Keys : k \in Nat /\ M >= k
  BY <1>4, <1>6, <1>7
<1>9. \A k \in Keys : k <= M /\ k < M + 1 /\ k # M + 1
  BY <1>8
<1> QED BY <1>4, <1>5, <1>6, <1>7, <1>9

\* The fields of a node are of these types.
LEMMA NodeIs ==
    ASSUME NEW x \in Node
    PROVE  /\ x.leaf \in BOOLEAN /\ x.keys \in Seq(Keys) /\ x.items \in Seq(Nat) /\ x.right \in Nat
           /\ x.high \in Keys \cup {Unbounded} /\ x.hint \in Nat
           /\ Len(x.keys) \in Nat /\ DOMAIN x.keys = 1..Len(x.keys)
           /\ Len(x.items) \in Nat /\ DOMAIN x.items = 1..Len(x.items)
<1>1. /\ x.leaf \in BOOLEAN /\ x.keys \in Seq(Keys) /\ x.items \in Seq(Nat) /\ x.right \in Nat
      /\ x.high \in Keys \cup {Unbounded} /\ x.hint \in Nat
  BY DEF Node
<1> QED BY <1>1

\* SetHints sets hints and nothing else.
LEMMA SetHintsIs ==
    ASSUME NEW ns \in Seq(Node), NEW cs, NEW h \in Nat
    PROVE  HintsOnly(ns, SetHints(ns, cs, h), cs, h)
<1> DEFINE ms == SetHints(ns, cs, h)
<1>1. ms = [x \in DOMAIN ns |-> IF x \in cs THEN [ns[x] EXCEPT !.hint = h] ELSE ns[x]]
  BY DEF SetHints
<1>2. Len(ns) \in Nat /\ DOMAIN ns = 1..Len(ns) /\ \A x \in DOMAIN ns : ns[x] \in Node
  OBVIOUS
<1>3. \A x \in DOMAIN ns : [ns[x] EXCEPT !.hint = h] \in Node
  BY <1>2 DEF Node
<1>4. ms \in [1..Len(ns) -> Node]
  BY <1>1, <1>2, <1>3
<1>5. ms \in Seq(Node) /\ Len(ms) = Len(ns) /\ DOMAIN ms = DOMAIN ns
  BY <1>2, <1>4
<1>6. ASSUME NEW x \in DOMAIN ns
      PROVE  /\ ms[x].leaf = ns[x].leaf /\ ms[x].keys = ns[x].keys /\ ms[x].items = ns[x].items
             /\ ms[x].right = ns[x].right /\ ms[x].high = ns[x].high
             /\ ms[x].hint = IF x \in cs THEN h ELSE ns[x].hint
  <2>1. ns[x] \in Node
    BY <1>2
  <2> QED BY <1>1, <2>1 DEF Node
<1> HIDE DEF ms
<1>7. HintsOnly(ns, ms, cs, h)
  BY <1>5, <1>6 DEF HintsOnly
<1> QED BY <1>7 DEF ms

\* So does an assignment to one node's hint.
LEMMA SetHintIs ==
    ASSUME NEW ns \in Seq(Node), NEW c \in DOMAIN ns, NEW h \in Nat
    PROVE  HintsOnly(ns, [ns EXCEPT ![c].hint = h], {c}, h)
<1>1. [ns EXCEPT ![c].hint = h] = SetHints(ns, {c}, h)
  <2>1. ns = [x \in DOMAIN ns |-> ns[x]]
    OBVIOUS
  <2> QED BY <2>1 DEF SetHints
<1> QED BY <1>1, SetHintsIs

\* What is behind the first g elements of a sequence.
LEMMA TailIs ==
    ASSUME NEW S, NEW s \in Seq(S), NEW g \in 0..Len(s)
    PROVE  /\ SubSeq(s, g + 1, Len(s)) \in Seq(S) /\ Len(SubSeq(s, g + 1, Len(s))) = Len(s) - g
           /\ \A i \in 1..(Len(s) - g) : SubSeq(s, g + 1, Len(s))[i] = s[i + g]
<1>1. \A i \in 1..(Len(s) - g) : i + g \in 1..Len(s) /\ (g + 1) + i - 1 = i + g
  OBVIOUS
<1> QED BY <1>1

\* split_leaf_ and split_internal_ cut a node's vectors in two and link the new node between the old one and its right neighbour.
LEMMA HalvesIs ==
    ASSUME NEW ns, ArenaInv(ns), NEW n \in DOMAIN ns, NEW m \in Nat \ {0}, NEW f \in Nat,
           f - 1 = m + Extra(ns[n]), f - 1 <= Len(ns[n].keys)
    PROVE  Halved(ns, Halves(ns, n, m, f), n, f - 1)
<1> DEFINE l == ns[n]   N == Len(ns) + 1
           a == SubSeq(l.keys, 1, m)   b == SubSeq(l.items, 1, f - 1)
           c == SubSeq(l.keys, f, Len(l.keys))   d == SubSeq(l.items, f, Len(l.items))
           x == [l EXCEPT !.keys = a, !.items = b, !.right = N, !.high = l.keys[f - 1]]
           y == [l EXCEPT !.keys = c, !.items = d, !.hint = NoNode]
           fst == [ns EXCEPT ![n] = x]
           ms == Append(fst, y)
<1>1. Halves(ns, n, m, f) = ms
  BY DEF Halves
<1>2. Len(ns) \in Nat /\ DOMAIN ns = 1..Len(ns) /\ l \in Node /\ ns \in Seq(Node) /\ NodeInv(ns, n)
  BY ArenaIs DEF ArenaInv
<1>3. /\ l.leaf \in BOOLEAN /\ l.keys \in Seq(Keys) /\ l.items \in Seq(Nat) /\ l.right \in Nat
      /\ l.high \in Keys \cup {Unbounded} /\ l.hint \in Nat /\ Len(l.keys) \in Nat /\ Len(l.items) \in Nat
      /\ DOMAIN l.keys = 1..Len(l.keys)
  BY <1>2, NodeIs
<1>4. Len(l.items) = Len(l.keys) + Extra(l) /\ Extra(l) \in {0, 1}
  BY <1>2 DEF NodeInv, Extra
<1>5. f \in 2..(Len(l.keys) + 1) /\ f - 1 \in 1..Len(l.keys) /\ l.keys[f - 1] \in Keys /\ f - 1 <= Len(l.items) /\ m <= Len(l.keys)
  <2>1. f - 1 = m + Extra(l) /\ f - 1 <= Len(l.keys)
    OBVIOUS
  <2>2. f - 1 \in 1..Len(l.keys) /\ m <= Len(l.keys) /\ f - 1 <= Len(l.items)
    BY <1>3, <1>4, <2>1
  <2>3. f \in 2..(Len(l.keys) + 1)
    BY <1>3, <2>2
  <2> QED BY <1>3, <2>2, <2>3
<1>6. a \in Seq(Keys) /\ Len(a) = m /\ \A i \in 1..m : a[i] = l.keys[i]
  BY <1>3, <1>5
<1>7. b \in Seq(Nat) /\ Len(b) = f - 1 /\ \A i \in 1..(f - 1) : b[i] = l.items[i]
  <2>1. PICK es \in Seq(Nat), g \in Nat : es = l.items /\ g = f - 1
    BY <1>3, <1>5
  <2>2. g <= Len(es) /\ 1 <= g
    BY <1>5, <2>1
  <2>3. SubSeq(es, 1, g) \in Seq(Nat) /\ Len(SubSeq(es, 1, g)) = g /\ \A i \in 1..g : SubSeq(es, 1, g)[i] = es[i]
    BY ONLY <2>2, es \in Seq(Nat), g \in Nat
  <2> QED BY <2>1, <2>3
<1>8. c \in Seq(Keys) /\ Len(c) = Len(l.keys) - (f - 1) /\ \A i \in 1..Len(c) : c[i] = l.keys[i + (f - 1)]
  <2>1. PICK ks \in Seq(Keys), g \in 0..Len(l.keys) : ks = l.keys /\ g = f - 1
    <3>1. l.keys \in Seq(Keys) /\ f - 1 \in 0..Len(l.keys)
      BY <1>3, <1>5
    <3> QED BY <3>1
  <2>4. g \in 0..Len(ks)
    BY <2>1
  <2>2. f = g + 1
    BY <2>1
  <2>3. SubSeq(ks, g + 1, Len(ks)) \in Seq(Keys) /\ Len(SubSeq(ks, g + 1, Len(ks))) = Len(ks) - g
        /\ \A i \in 1..(Len(ks) - g) : SubSeq(ks, g + 1, Len(ks))[i] = ks[i + g]
    BY ONLY ks \in Seq(Keys), <2>4, TailIs
  <2> QED BY <2>1, <2>2, <2>3
<1>9. d \in Seq(Nat) /\ Len(d) = Len(l.items) - (f - 1) /\ \A i \in 1..(Len(l.items) - (f - 1)) : d[i] = l.items[i + (f - 1)]
  <2>1. PICK es \in Seq(Nat), g \in 0..Len(l.items) : es = l.items /\ g = f - 1
    <3>1. l.items \in Seq(Nat) /\ f - 1 \in 0..Len(l.items)
      BY <1>3, <1>5
    <3> QED BY <3>1
  <2>4. g \in 0..Len(es)
    BY <2>1
  <2>2. f = g + 1
    BY <2>1
  <2>3. SubSeq(es, g + 1, Len(es)) \in Seq(Nat) /\ Len(SubSeq(es, g + 1, Len(es))) = Len(es) - g
        /\ \A i \in 1..(Len(es) - g) : SubSeq(es, g + 1, Len(es))[i] = es[i + g]
    BY ONLY es \in Seq(Nat), <2>4, TailIs
  <2> QED BY <2>1, <2>2, <2>3
<1> HIDE DEF a, b, c, d
<1>10. /\ x \in Node /\ x.leaf = l.leaf /\ x.keys = a /\ x.items = b /\ x.right = N /\ x.high = l.keys[f - 1] /\ x.hint = l.hint
  <2>1. N \in Nat
    BY <1>2
  <2> HIDE DEF N
  <2> QED BY <1>2, <1>3, <1>5, <1>6, <1>7, <2>1 DEF Node
<1>11. /\ y \in Node /\ y.leaf = l.leaf /\ y.keys = c /\ y.items = d /\ y.right = l.right /\ y.high = l.high /\ y.hint = NoNode
  BY <1>2, <1>3, <1>8, <1>9 DEF Node, NoNode
<1> HIDE DEF x, y
<1>12. fst \in Seq(Node) /\ Len(fst) = Len(ns) /\ fst[n] = x /\ \A z \in DOMAIN ns : z # n => fst[z] = ns[z]
  BY <1>2, <1>10
<1> HIDE DEF fst
<1>13. ms \in Seq(Node) /\ Len(ms) = N /\ DOMAIN ms = 1..N /\ ms[N] = y /\ \A z \in DOMAIN ns : ms[z] = fst[z]
  BY <1>2, <1>11, <1>12
<1>14. ms[n] = x /\ \A z \in DOMAIN ns : z # n => ms[z] = ns[z]
  BY <1>12, <1>13
<1> HIDE DEF ms
<1>15. Len(x.keys) = (f - 1) - Extra(l)
  BY <1>4, <1>6, <1>10, <1>3
<1>16. Halved(ns, ms, n, f - 1)
  BY <1>5, <1>6, <1>7, <1>8, <1>9, <1>10, <1>11, <1>13, <1>14, <1>15 DEF Halved
<1> QED BY <1>1, <1>16

\* vector::insert on both vectors of a node adds one entry to each.
LEMMA EnlargedIs ==
    ASSUME NEW ns, ArenaInv(ns), NEW n \in DOMAIN ns, NEW k \in Keys, NEW e \in Nat,
           NEW p \in 1..(Len(ns[n].keys) + 1), NEW q \in 1..(Len(ns[n].items) + 1)
    PROVE  Enlarged(ns, [ns EXCEPT ![n] = [ns[n] EXCEPT !.keys = InsertAt(ns[n].keys, p, k),
                                                        !.items = InsertAt(ns[n].items, q, e)]], n, p, k, q, e)
<1> DEFINE l == ns[n]
           a == InsertAt(l.keys, p, k)   b == InsertAt(l.items, q, e)
           x == [l EXCEPT !.keys = a, !.items = b]
           ms == [ns EXCEPT ![n] = x]
<1>2. Len(ns) \in Nat /\ DOMAIN ns = 1..Len(ns) /\ l \in Node /\ ns \in Seq(Node)
  BY ArenaIs DEF ArenaInv
<1>3. PICK ks \in Seq(Keys), es \in Seq(Nat) : ks = l.keys /\ es = l.items
  BY <1>2, NodeIs
<1>4. a \in Seq(Keys) /\ Len(a) = Len(l.keys) + 1
      /\ \A i \in 1..(Len(l.keys) + 1) : a[i] = IF i < p THEN l.keys[i] ELSE IF i = p THEN k ELSE l.keys[i - 1]
  <2>1. p \in 1..(Len(ks) + 1)
    BY <1>3
  <2>2. /\ InsertAt(ks, p, k) \in Seq(Keys) /\ Len(InsertAt(ks, p, k)) = Len(ks) + 1
        /\ \A i \in 1..(Len(ks) + 1) :
              InsertAt(ks, p, k)[i] = IF i < p THEN ks[i] ELSE IF i = p THEN k ELSE ks[i - 1]
    BY ONLY <2>1, k \in Keys, ks \in Seq(Keys), InsertAtIs
  <2> QED BY <1>3, <2>2
<1>5. b \in Seq(Nat) /\ Len(b) = Len(l.items) + 1
      /\ \A i \in 1..(Len(l.items) + 1) : b[i] = IF i < q THEN l.items[i] ELSE IF i = q THEN e ELSE l.items[i - 1]
  <2>1. q \in 1..(Len(es) + 1)
    BY <1>3
  <2>2. /\ InsertAt(es, q, e) \in Seq(Nat) /\ Len(InsertAt(es, q, e)) = Len(es) + 1
        /\ \A i \in 1..(Len(es) + 1) :
              InsertAt(es, q, e)[i] = IF i < q THEN es[i] ELSE IF i = q THEN e ELSE es[i - 1]
    BY ONLY <2>1, e \in Nat, es \in Seq(Nat), InsertAtIs
  <2> QED BY <1>3, <2>2
<1> HIDE DEF a, b
<1>6. x \in Node /\ x.leaf = l.leaf /\ x.keys = a /\ x.items = b /\ x.right = l.right /\ x.high = l.high /\ x.hint = l.hint
  BY <1>2, <1>4, <1>5 DEF Node
<1> HIDE DEF x
<1>7. ms \in Seq(Node) /\ Len(ms) = Len(ns) /\ DOMAIN ms = DOMAIN ns /\ ms[n] = x /\ \A z \in DOMAIN ns : z # n => ms[z] = ns[z]
  BY <1>2, <1>6
<1> HIDE DEF ms
<1>8. Enlarged(ns, ms, n, p, k, q, e)
  BY <1>4, <1>5, <1>6, <1>7 DEF Enlarged
<1> QED BY <1>8 DEF ms, x, a, b

\* ms is ns with a new root over c and r.
RootGrown(ns, ms, c, r, sep) ==
    LET N == Len(ns) + 1   x == ms[N] IN
    /\ ms \in Seq(Node) /\ Len(ms) = N /\ DOMAIN ms = 1..N
    /\ \A z \in DOMAIN ns : ms[z] = ns[z]
    /\ x.leaf = FALSE /\ x.keys = <<sep>> /\ x.items = <<c, r>>
    /\ x.right = NoNode /\ x.high = Unbounded /\ x.hint = NoNode

\* The new root insert() builds holds the two halves with the separator between them.
LEMMA RootGrownIs ==
    ASSUME NEW ns \in Seq(Node), NEW c \in DOMAIN ns, NEW r \in DOMAIN ns, NEW sep \in Keys
    PROVE  RootGrown(ns, Append(ns, [EmptyLeaf EXCEPT !.leaf = FALSE, !.keys = <<sep>>, !.items = <<c, r>>]), c, r, sep)
<1> DEFINE x == [EmptyLeaf EXCEPT !.leaf = FALSE, !.keys = <<sep>>, !.items = <<c, r>>]
           ms == Append(ns, x)
<1>1. <<sep>> \in Seq(Keys) /\ <<c, r>> \in Seq(Nat)
  OBVIOUS
<1>2. /\ x.leaf = FALSE /\ x.keys = <<sep>> /\ x.items = <<c, r>>
      /\ x.right = NoNode /\ x.high = Unbounded /\ x.hint = NoNode
  BY DEF EmptyLeaf
<1>3. x \in Node
  <2>1. EmptyLeaf \in Node
    BY DEF EmptyLeaf, Node, NoNode
  <2> QED BY <1>1, <2>1 DEF Node
<1> HIDE DEF x
<1>4. ms \in Seq(Node) /\ Len(ms) = Len(ns) + 1 /\ DOMAIN ms = 1..(Len(ns) + 1) /\ ms[Len(ns) + 1] = x
      /\ \A z \in DOMAIN ns : ms[z] = ns[z]
  BY <1>3
<1> HIDE DEF ms
<1>5. RootGrown(ns, ms, c, r, sep)
  BY <1>2, <1>4 DEF RootGrown
<1> QED BY <1>5 DEF ms, x

-----------------------------------------------------------------------------
(* The arena keeps its shape. *)

\* Setting hints keeps the arena's shape.
LEMMA HintsArena ==
    ASSUME NEW ns, NEW ms, NEW cs, NEW h, ArenaInv(ns), HintsOnly(ns, ms, cs, h), h \in 0..Len(ns)
    PROVE  ArenaInv(ms)
<1> SUFFICES ASSUME NEW x \in DOMAIN ms PROVE NodeInv(ms, x)
  BY DEF ArenaInv, HintsOnly
<1>1. x \in DOMAIN ns /\ NodeInv(ns, x)
  BY DEF ArenaInv, HintsOnly
<1> QED BY <1>1 DEF NodeInv, Extra, HintsOnly

\* So does a split.
LEMMA HalvedArena ==
    ASSUME NEW ns, NEW ms, NEW n \in DOMAIN ns, NEW g \in Nat, ArenaInv(ns), Halved(ns, ms, n, g),
           g \in 1..Len(ns[n].keys)
    PROVE  ArenaInv(ms)
<1>0. Len(ns) \in Nat /\ DOMAIN ns = 1..Len(ns) /\ \A x \in DOMAIN ns : ns[x] \in Node /\ NodeInv(ns, x)
  BY ArenaIs
<1>00. ms \in Seq(Node) /\ Len(ms) = Len(ns) + 1 /\ DOMAIN ms = 1..Len(ms) /\ \A x \in DOMAIN ms : ms[x] \in Node
  BY DEF Halved
<1> SUFFICES ASSUME NEW x \in DOMAIN ms PROVE NodeInv(ms, x)
  BY <1>00 DEF ArenaInv
<1> DEFINE l == ns[n]
<1>1. Len(l.items) = Len(l.keys) + Extra(l) /\ Extra(l) \in {0, 1} /\ l.leaf \in BOOLEAN /\ Len(l.keys) \in Nat /\ Len(l.items) \in Nat
      /\ DOMAIN l.items = 1..Len(l.items)
      /\ \A i \in DOMAIN l.items : l.items[i] \in (IF l.leaf THEN Ids ELSE DOMAIN ns)
  BY <1>0, NodeIs DEF NodeInv, Extra
<1>2. DOMAIN ms[x].items = 1..Len(ms[x].items)
  BY <1>00, NodeIs
<1>3. CASE x \in DOMAIN ns /\ x # n
  <2>1. ms[x] = ns[x] /\ NodeInv(ns, x)
    BY <1>0, <1>3 DEF Halved
  <2> QED BY <1>0, <1>00, <2>1 DEF NodeInv
<1>4. CASE x = n
  <2>1. /\ ms[x].leaf = l.leaf /\ ms[x].right = Len(ns) + 1 /\ ms[x].hint = l.hint /\ ms[x].high \in Keys
        /\ Len(ms[x].items) = g /\ Len(ms[x].keys) = g - Extra(l)
        /\ \A i \in 1..g : ms[x].items[i] = l.items[i]
    BY <1>4 DEF Halved
  <2>2. l.hint \in 0..Len(ns) /\ Len(ns) + 1 # NoNode
    BY <1>0 DEF NodeInv, NoNode
  <2>3. \A i \in 1..g : i \in DOMAIN l.items
    BY <1>1
  <2>4. \A i \in DOMAIN ms[x].items : ms[x].items[i] \in (IF l.leaf THEN Ids ELSE DOMAIN ms)
    BY <1>0, <1>00, <1>1, <1>2, <2>1, <2>3
  <2>5. Len(ms[x].items) = Len(ms[x].keys) + Extra(l)
    BY <1>1, <2>1
  <2> QED BY <1>0, <1>00, <2>1, <2>2, <2>4, <2>5 DEF NodeInv, Extra
<1>5. CASE x = Len(ns) + 1
  <2>1. /\ ms[x].leaf = l.leaf /\ ms[x].right = l.right /\ ms[x].hint = NoNode /\ ms[x].high = l.high
        /\ Len(ms[x].items) = Len(l.items) - g /\ Len(ms[x].keys) = Len(l.keys) - g
        /\ \A i \in 1..(Len(l.items) - g) : ms[x].items[i] = l.items[i + g]
    BY <1>5 DEF Halved
  <2>2. l.right \in 0..Len(ns) /\ (l.high = Unbounded \/ l.right # NoNode)
    BY <1>0 DEF NodeInv
  <2>3. \A i \in 1..(Len(l.items) - g) : i + g \in DOMAIN l.items
    BY <1>1
  <2>4. ASSUME NEW i \in DOMAIN ms[x].items PROVE ms[x].items[i] \in (IF l.leaf THEN Ids ELSE DOMAIN ms)
    <3>1. i \in 1..(Len(l.items) - g) /\ i + g \in DOMAIN l.items
      BY <1>2, <2>1, <2>3
    <3>2. ms[x].items[i] = l.items[i + g]
      BY <2>1, <3>1
    <3>3. l.items[i + g] \in (IF l.leaf THEN Ids ELSE DOMAIN ns)
      BY <1>1, <3>1
    <3> QED BY <1>0, <1>00, <3>2, <3>3
  <2>5. Len(ms[x].items) = Len(ms[x].keys) + Extra(l)
    BY <1>1, <2>1
  <2>6. ms[x].right \in 0..Len(ms) /\ ms[x].hint \in 0..Len(ms)
    BY <1>0, <1>00, <2>1, <2>2 DEF NoNode
  <2>7. Extra(ms[x]) = Extra(l) /\ (ms[x].high = Unbounded \/ ms[x].right # NoNode)
    BY <2>1, <2>2 DEF Extra
  <2>8. \A i \in DOMAIN ms[x].items : ms[x].items[i] \in (IF ms[x].leaf THEN Ids ELSE DOMAIN ms)
    BY <2>1, <2>4
  <2> QED BY ONLY <2>5, <2>6, <2>7, <2>8 DEF NodeInv
<1> QED BY <1>0, <1>00, <1>3, <1>4, <1>5

\* So does an entry or a child put into a node.
LEMMA EnlargedArena ==
    ASSUME NEW ns, NEW ms, NEW n \in DOMAIN ns, NEW p, NEW k, NEW q, NEW e, ArenaInv(ns),
           Enlarged(ns, ms, n, p, k, q, e), e \in (IF ns[n].leaf THEN Ids ELSE DOMAIN ns)
    PROVE  ArenaInv(ms)
<1>0. Len(ns) \in Nat /\ DOMAIN ns = 1..Len(ns) /\ \A x \in DOMAIN ns : ns[x] \in Node /\ NodeInv(ns, x)
  BY ArenaIs
<1>00. ms \in Seq(Node) /\ Len(ms) = Len(ns) /\ DOMAIN ms = DOMAIN ns /\ \A x \in DOMAIN ms : ms[x] \in Node
  BY DEF Enlarged
<1> SUFFICES ASSUME NEW x \in DOMAIN ms PROVE NodeInv(ms, x)
  BY <1>00 DEF ArenaInv
<1>1. CASE x # n
  <2>1. ms[x] = ns[x] /\ NodeInv(ns, x)
    BY <1>0, <1>00, <1>1 DEF Enlarged
  <2> QED BY <1>00, <2>1 DEF NodeInv
<1>2. CASE x = n
  <2> DEFINE l == ns[n]
  <2>1. Len(l.items) = Len(l.keys) + Extra(l) /\ Extra(l) \in {0, 1} /\ l.leaf \in BOOLEAN /\ Len(l.keys) \in Nat /\ Len(l.items) \in Nat
        /\ DOMAIN l.items = 1..Len(l.items) /\ DOMAIN ms[x].items = 1..Len(ms[x].items)
    BY <1>0, <1>00, NodeIs DEF NodeInv, Extra
  <2>2. /\ ms[x].leaf = l.leaf /\ ms[x].right = l.right /\ ms[x].hint = l.hint /\ ms[x].high = l.high
        /\ Len(ms[x].items) = Len(l.items) + 1 /\ Len(ms[x].keys) = Len(l.keys) + 1 /\ q \in 1..(Len(l.items) + 1)
        /\ \A i \in 1..(Len(l.items) + 1) : ms[x].items[i] = IF i < q THEN l.items[i] ELSE IF i = q THEN e ELSE l.items[i - 1]
    BY <1>2 DEF Enlarged
  <2>3. \A i \in DOMAIN l.items : l.items[i] \in (IF l.leaf THEN Ids ELSE DOMAIN ns)
    BY <1>0 DEF NodeInv
  <2>4. ASSUME NEW i \in DOMAIN ms[x].items PROVE ms[x].items[i] \in (IF l.leaf THEN Ids ELSE DOMAIN ns)
    <3>1. i \in 1..(Len(l.items) + 1)
      BY <2>1, <2>2
    <3>2. CASE i < q
      <4>1. i \in DOMAIN l.items /\ ms[x].items[i] = l.items[i]
        BY <2>1, <2>2, <3>1, <3>2
      <4> QED BY <2>3, <4>1
    <3>3. CASE i = q
      BY <2>2, <3>1, <3>3
    <3>4. CASE i > q
      <4>1. i - 1 \in 1..Len(l.items)
        BY <2>1, <2>2, <3>1, <3>4
      <4>2. ms[x].items[i] = l.items[i - 1]
        BY <2>1, <2>2, <3>1, <3>4
      <4>3. i - 1 \in DOMAIN l.items
        BY <2>1, <4>1
      <4> QED BY <2>3, <4>2, <4>3
    <3> QED BY <2>2, <3>1, <3>2, <3>3, <3>4
  <2>5. Len(ms[x].items) = Len(ms[x].keys) + Extra(l)
    BY <2>1, <2>2
  <2> QED BY <1>0, <1>00, <1>2, <2>2, <2>4, <2>5 DEF NodeInv, Extra
<1> QED BY <1>1, <1>2

\* So does a new root.
LEMMA RootArena ==
    ASSUME NEW ns, NEW ms, NEW c \in DOMAIN ns, NEW r \in DOMAIN ns, NEW sep, ArenaInv(ns), RootGrown(ns, ms, c, r, sep)
    PROVE  ArenaInv(ms)
<1>0. Len(ns) \in Nat /\ DOMAIN ns = 1..Len(ns) /\ \A x \in DOMAIN ns : NodeInv(ns, x)
  BY ArenaIs
<1>00. ms \in Seq(Node) /\ Len(ms) = Len(ns) + 1 /\ DOMAIN ms = 1..Len(ms)
  BY DEF RootGrown
<1> SUFFICES ASSUME NEW x \in DOMAIN ms PROVE NodeInv(ms, x)
  BY <1>00 DEF ArenaInv
<1>1. CASE x \in DOMAIN ns
  <2>1. ms[x] = ns[x] /\ NodeInv(ns, x)
    BY <1>0, <1>1 DEF RootGrown
  <2> QED BY <1>0, <1>00, <2>1 DEF NodeInv
<1>2. CASE x = Len(ns) + 1
  <2>1. /\ ms[x].leaf = FALSE /\ ms[x].keys = <<sep>> /\ ms[x].items = <<c, r>>
        /\ ms[x].right = NoNode /\ ms[x].high = Unbounded /\ ms[x].hint = NoNode
    BY <1>2 DEF RootGrown
  <2>2. Len(<<sep>>) = 1 /\ Len(<<c, r>>) = 2 /\ \A i \in DOMAIN <<c, r>> : <<c, r>>[i] \in DOMAIN ms
    BY <1>0, <1>00
  <2> QED BY <1>0, <1>00, <2>1, <2>2 DEF NodeInv, NoNode, Extra
<1> QED BY <1>0, <1>00, <1>1, <1>2

-----------------------------------------------------------------------------
(* Parents stay where they are or to the right of there. *)

\* From ns to ms, what was to the right of a node still is, and a child's parent is still where it was or to the right of there.
Keeps(ns, ms) ==
    /\ DOMAIN ns \subseteq DOMAIN ms
    /\ \A x \in DOMAIN ns : /\ ms[x].leaf = ns[x].leaf
                            /\ ChainFrom(ns, x) \subseteq ChainFrom(ms, x)
                            /\ \A c : Below(ns, x, c) => Below(ms, x, c)

\* Two such changes are one.
LEMMA KeepsTransitive ==
    ASSUME NEW ns, NEW ms, NEW os, Keeps(ns, ms), Keeps(ms, os)
    PROVE  Keeps(ns, os)
BY DEF Keeps

\* A child is an item of an internal node.
LEMMA HasChildIs ==
    ASSUME NEW x, NEW c
    PROVE  HasChild(x, c) <=> ~x.leaf /\ \E i \in DOMAIN x.items : x.items[i] = c
BY DEF HasChild, ToSet

\* A child stays with its parent, or goes to the parent's right neighbour.
ChildrenKept(ns, ms) ==
    \A q \in DOMAIN ns : \A c : HasChild(ns[q], c) =>
        HasChild(ms[q], c) \/ (ms[q].right \in DOMAIN ms /\ HasChild(ms[ms[q].right], c))

\* It is enough to look at one link and one parent at a time.
LEMMA KeepsIf ==
    ASSUME NEW ns, NEW ms, ArenaInv(ns), ArenaInv(ms), LinksKept(ns, ms), ChildrenKept(ns, ms),
           \A x \in DOMAIN ns : ms[x].leaf = ns[x].leaf
    PROVE  Keeps(ns, ms)
<1>1. DOMAIN ns \subseteq DOMAIN ms
  BY DEF LinksKept
<1>2. ASSUME NEW x \in DOMAIN ns PROVE ChainFrom(ns, x) \subseteq ChainFrom(ms, x)
  BY <1>2, ChainGrows
<1>3. ASSUME NEW x \in DOMAIN ns, NEW c, Below(ns, x, c) PROVE Below(ms, x, c)
  <2>1. PICK q \in ChainFrom(ns, x) : HasChild(ns[q], c)
    BY <1>3 DEF Below
  <2>2. q \in ChainFrom(ms, x) /\ q \in DOMAIN ns
    BY <1>2, ChainCloses
  <2>3. CASE HasChild(ms[q], c)
    BY <2>2, <2>3 DEF Below
  <2>4. CASE ms[q].right \in DOMAIN ms /\ HasChild(ms[ms[q].right], c)
    <3>1. x \in DOMAIN ms /\ ms[q].right \in ChainFrom(ms, x) \cup {NoNode}
      BY <1>1, <2>2, ChainCloses
    <3>2. ms[q].right # NoNode
      BY <2>4, ArenaIs DEF NoNode
    <3> QED BY <2>4, <3>1, <3>2 DEF Below
  <2> QED BY <2>1, <2>2, <2>3, <2>4 DEF ChildrenKept
<1> QED BY <1>1, <1>2, <1>3 DEF Keeps

\* Hints move no node and no child.
LEMMA HintsKeep ==
    ASSUME NEW ns, NEW ms, NEW cs, NEW h, ArenaInv(ns), ArenaInv(ms), HintsOnly(ns, ms, cs, h)
    PROVE  Keeps(ns, ms) /\ \A c : IsChild(ms, c) => IsChild(ns, c)
<1>1. LinksKept(ns, ms)
  <2>1. DOMAIN ns = DOMAIN ms /\ \A x \in DOMAIN ns : ms[x].right = ns[x].right
    BY DEF HintsOnly
  <2> QED BY <2>1 DEF LinksKept
<1>2. \A q \in DOMAIN ns : \A c : HasChild(ns[q], c) <=> HasChild(ms[q], c)
  BY DEF HasChild, HintsOnly
<1>3. Keeps(ns, ms)
  BY <1>1, <1>2, KeepsIf DEF ChildrenKept, HintsOnly
<1> QED BY <1>2, <1>3 DEF IsChild, HintsOnly

\* Where the items of a node come from and go to.
ItemsHalved(ns, ms, n, g) ==
    LET N == Len(ns) + 1 IN
    /\ DOMAIN ns[n].items = 1..Len(ns[n].items) /\ Len(ns[n].items) \in Nat
    /\ DOMAIN ms[n].items = 1..g /\ DOMAIN ms[N].items = 1..(Len(ns[n].items) - g)
    /\ \A i \in DOMAIN ms[n].items : i \in DOMAIN ns[n].items /\ ms[n].items[i] = ns[n].items[i]
    /\ \A i \in DOMAIN ms[N].items : i + g \in DOMAIN ns[n].items /\ ms[N].items[i] = ns[n].items[i + g]
    /\ \A i \in DOMAIN ns[n].items : i \in DOMAIN ms[n].items \/ i - g \in DOMAIN ms[N].items

\* The items of a node before and after one is put in.
ItemsEnlarged(ns, ms, n, q, e) ==
    /\ DOMAIN ns[n].items = 1..Len(ns[n].items) /\ Len(ns[n].items) \in Nat
    /\ DOMAIN ms[n].items = 1..(Len(ns[n].items) + 1) /\ q \in 1..(Len(ns[n].items) + 1)
    /\ ms[n].items[q] = e
    /\ \A i \in DOMAIN ms[n].items : \/ i < q /\ i \in DOMAIN ns[n].items /\ ms[n].items[i] = ns[n].items[i]
                                     \/ i = q
                                     \/ i > q /\ i - 1 \in DOMAIN ns[n].items /\ ms[n].items[i] = ns[n].items[i - 1]
    /\ \A i \in DOMAIN ns[n].items : \/ i < q /\ i \in DOMAIN ms[n].items /\ ms[n].items[i] = ns[n].items[i]
                                     \/ i + 1 > q /\ i + 1 \in DOMAIN ms[n].items /\ ms[n].items[i + 1] = ns[n].items[i]

\* A split divides the items of a node.
LEMMA HalvedItems ==
    ASSUME NEW ns, NEW ms, NEW n \in DOMAIN ns, NEW g \in Nat, ArenaInv(ns), ArenaInv(ms), Halved(ns, ms, n, g), g \in 1..Len(ns[n].items)
    PROVE  ItemsHalved(ns, ms, n, g)
<1> DEFINE N == Len(ns) + 1
<1>1. DOMAIN ns[n].items = 1..Len(ns[n].items) /\ Len(ns[n].items) \in Nat
  BY ArenaIs, NodeIs
<1>2. n \in DOMAIN ms /\ N \in DOMAIN ms
  BY ArenaIs DEF Halved
<1>3. DOMAIN ms[n].items = 1..g /\ DOMAIN ms[N].items = 1..(Len(ns[n].items) - g)
  <2>1. DOMAIN ms[n].items = 1..Len(ms[n].items) /\ DOMAIN ms[N].items = 1..Len(ms[N].items)
    BY <1>2, ArenaIs, NodeIs
  <2> QED BY <2>1 DEF Halved
<1>4. /\ \A i \in 1..g : ms[n].items[i] = ns[n].items[i]
      /\ \A i \in 1..(Len(ns[n].items) - g) : ms[N].items[i] = ns[n].items[i + g]
  BY DEF Halved
<1> HIDE DEF N
<1>5. PICK L \in Nat : L = Len(ns[n].items)
  BY <1>1
<1>6. /\ \A i \in 1..g : i \in 1..L
      /\ \A i \in 1..(L - g) : i + g \in 1..L
      /\ \A i \in 1..L : i \in 1..g \/ i - g \in 1..(L - g)
  BY <1>5
<1>7. /\ DOMAIN ns[n].items = 1..L /\ DOMAIN ms[n].items = 1..g /\ DOMAIN ms[N].items = 1..(L - g)
      /\ \A i \in 1..(L - g) : ms[N].items[i] = ns[n].items[i + g]
  BY <1>1, <1>3, <1>4, <1>5
<1>8. /\ \A i \in DOMAIN ms[n].items : i \in DOMAIN ns[n].items /\ ms[n].items[i] = ns[n].items[i]
      /\ \A i \in DOMAIN ms[N].items : i + g \in DOMAIN ns[n].items /\ ms[N].items[i] = ns[n].items[i + g]
      /\ \A i \in DOMAIN ns[n].items : i \in DOMAIN ms[n].items \/ i - g \in DOMAIN ms[N].items
  BY <1>4, <1>6, <1>7
<1> QED BY <1>1, <1>3, <1>8 DEF N, ItemsHalved

\* A split takes nobody further left, and adds no child.
LEMMA HalvedKeep ==
    ASSUME NEW ns, NEW ms, NEW n \in DOMAIN ns, NEW g \in Nat, ArenaInv(ns), ArenaInv(ms), Halved(ns, ms, n, g), g \in 1..Len(ns[n].items)
    PROVE  Keeps(ns, ms) /\ \A c : IsChild(ms, c) => IsChild(ns, c)
<1> DEFINE N == Len(ns) + 1
<1>0. DOMAIN ns = 1..Len(ns) /\ Len(ns) \in Nat /\ DOMAIN ms = 1..N
  BY ArenaIs DEF Halved
<1>1. /\ \A x \in DOMAIN ns : x # n => ms[x] = ns[x]
      /\ ms[n].leaf = ns[n].leaf /\ ms[N].leaf = ns[n].leaf
      /\ ms[n].right = N /\ ms[N].right = ns[n].right
  BY DEF Halved
<1>2. LinksKept(ns, ms)
  <2>1. DOMAIN ns \subseteq DOMAIN ms /\ N \in DOMAIN ms
    BY <1>0
  <2>2. ASSUME NEW x \in DOMAIN ns
        PROVE  ms[x].right = ns[x].right \/ (ms[x].right \in DOMAIN ms /\ ms[ms[x].right].right = ns[x].right)
    <3> HIDE DEF N
    <3>1. CASE x = n
      BY <1>1, <2>1, <3>1
    <3>2. CASE x # n
      BY <1>1, <3>2
    <3> QED BY <3>1, <3>2
  <2> QED BY <2>1, <2>2 DEF LinksKept
<1>3. /\ \A i \in DOMAIN ms[n].items : i \in DOMAIN ns[n].items /\ ms[n].items[i] = ns[n].items[i]
      /\ \A i \in DOMAIN ms[N].items : i + g \in DOMAIN ns[n].items /\ ms[N].items[i] = ns[n].items[i + g]
      /\ \A i \in DOMAIN ns[n].items : i \in DOMAIN ms[n].items \/ i - g \in DOMAIN ms[N].items
      /\ DOMAIN ns[n].items = 1..Len(ns[n].items) /\ Len(ns[n].items) \in Nat
  <2>1. ItemsHalved(ns, ms, n, g)
    BY HalvedItems
  <2> QED BY <2>1 DEF ItemsHalved
<1> HIDE DEF N
<1>4. ASSUME NEW c PROVE HasChild(ns[n], c) <=> HasChild(ms[n], c) \/ HasChild(ms[N], c)
  <2>1. ASSUME NEW i \in DOMAIN ns[n].items, ns[n].items[i] = c
        PROVE  (\E j \in DOMAIN ms[n].items : ms[n].items[j] = c) \/ (\E j \in DOMAIN ms[N].items : ms[N].items[j] = c)
    <3>1. CASE i \in DOMAIN ms[n].items
      BY <1>3, <2>1, <3>1
    <3>2. CASE i - g \in DOMAIN ms[N].items
      <4>1. (i - g) + g = i
        BY <1>3
      <4> QED BY <1>3, <2>1, <3>2, <4>1
    <3> QED BY <1>3, <3>1, <3>2
  <2>2. (\E j \in DOMAIN ms[n].items : ms[n].items[j] = c) \/ (\E j \in DOMAIN ms[N].items : ms[N].items[j] = c)
        => \E i \in DOMAIN ns[n].items : ns[n].items[i] = c
    BY <1>3
  <2> QED BY <1>1, <2>1, <2>2, HasChildIs
<1>5. ChildrenKept(ns, ms)
  BY <1>0, <1>1, <1>4 DEF ChildrenKept, N
<1>6. Keeps(ns, ms)
  BY <1>1, <1>2, <1>5, KeepsIf
<1>7. ASSUME NEW c, IsChild(ms, c) PROVE IsChild(ns, c)
  <2>1. PICK q \in DOMAIN ms : HasChild(ms[q], c)
    BY <1>7 DEF IsChild
  <2>2. CASE q \in DOMAIN ns /\ q # n
    BY <1>1, <2>1, <2>2 DEF IsChild
  <2>3. CASE q = n \/ q = N
    BY <1>4, <2>1, <2>3 DEF IsChild
  <2> QED BY <1>0, <2>2, <2>3 DEF N
<1> QED BY <1>6, <1>7

\* An item put in moves the later ones by one.
LEMMA EnlargedItems ==
    ASSUME NEW ns, NEW ms, NEW n \in DOMAIN ns, NEW p, NEW k, NEW q, NEW e, ArenaInv(ns), ArenaInv(ms), Enlarged(ns, ms, n, p, k, q, e)
    PROVE  ItemsEnlarged(ns, ms, n, q, e)
<1>1. DOMAIN ns[n].items = 1..Len(ns[n].items) /\ Len(ns[n].items) \in Nat
  BY ArenaIs, NodeIs
<1>2. n \in DOMAIN ms
  BY DEF Enlarged
<1>3. DOMAIN ms[n].items = 1..Len(ms[n].items)
  BY <1>2, ArenaIs, NodeIs
<1>4. PICK L \in Nat : L = Len(ns[n].items)
  BY <1>1
<1>5. /\ DOMAIN ns[n].items = 1..L /\ DOMAIN ms[n].items = 1..(L + 1) /\ q \in 1..(L + 1)
      /\ \A i \in 1..(L + 1) : ms[n].items[i] = IF i < q THEN ns[n].items[i] ELSE IF i = q THEN e ELSE ns[n].items[i - 1]
  BY <1>1, <1>3, <1>4 DEF Enlarged
<1>6. ms[n].items[q] = e
  BY <1>5
<1>7. ASSUME NEW i \in 1..(L + 1)
      PROVE  \/ i < q /\ i \in 1..L /\ ms[n].items[i] = ns[n].items[i]
             \/ i = q
             \/ i > q /\ i - 1 \in 1..L /\ ms[n].items[i] = ns[n].items[i - 1]
  BY <1>5
<1>8. ASSUME NEW i \in 1..L
      PROVE  \/ i < q /\ i \in 1..(L + 1) /\ ms[n].items[i] = ns[n].items[i]
             \/ i + 1 > q /\ i + 1 \in 1..(L + 1) /\ ms[n].items[i + 1] = ns[n].items[i]
  <2>1. CASE i < q
    BY <1>5, <2>1
  <2>2. CASE ~(i < q)
    <3>1. i + 1 > q /\ i + 1 \in 1..(L + 1) /\ (i + 1) - 1 = i
      BY <1>5, <2>2
    <3>2. ms[n].items[i + 1] = IF i + 1 < q THEN ns[n].items[i + 1] ELSE IF i + 1 = q THEN e ELSE ns[n].items[(i + 1) - 1]
      BY <1>5, <3>1
    <3>3. ~(i + 1 < q) /\ i + 1 # q
      BY <1>5, <3>1
    <3> QED BY <3>1, <3>2, <3>3
  <2> QED BY <2>1, <2>2
<1> QED BY <1>1, <1>4, <1>5, <1>6, <1>7, <1>8 DEF ItemsEnlarged

\* Nor does an item put in, and the only new child is that item.
LEMMA EnlargedKeep ==
    ASSUME NEW ns, NEW ms, NEW n \in DOMAIN ns, NEW p, NEW k, NEW q, NEW e, ArenaInv(ns), ArenaInv(ms), Enlarged(ns, ms, n, p, k, q, e)
    PROVE  /\ Keeps(ns, ms) /\ \A c : IsChild(ms, c) => IsChild(ns, c) \/ (~ns[n].leaf /\ c = e)
           /\ ~ns[n].leaf => HasChild(ms[n], e)
<1>1. /\ DOMAIN ms = DOMAIN ns /\ \A x \in DOMAIN ns : x # n => ms[x] = ns[x]
      /\ ms[n].leaf = ns[n].leaf /\ ms[n].right = ns[n].right
  BY DEF Enlarged
<1>2. LinksKept(ns, ms)
  <2>1. \A x \in DOMAIN ns : ms[x].right = ns[x].right
    BY <1>1
  <2> QED BY <1>1, <2>1 DEF LinksKept
<1>7. ItemsEnlarged(ns, ms, n, q, e)
  BY EnlargedItems
<1>3. ASSUME NEW c PROVE /\ HasChild(ns[n], c) => HasChild(ms[n], c)
                         /\ HasChild(ms[n], c) => HasChild(ns[n], c) \/ (~ns[n].leaf /\ c = e)
                         /\ ~ns[n].leaf => HasChild(ms[n], e)
  <2>1. ASSUME NEW i \in DOMAIN ns[n].items PROVE \E j \in DOMAIN ms[n].items : ms[n].items[j] = ns[n].items[i]
    BY <1>7 DEF ItemsEnlarged
  <2>2. ASSUME NEW i \in DOMAIN ms[n].items PROVE ms[n].items[i] = e \/ \E j \in DOMAIN ns[n].items : ms[n].items[i] = ns[n].items[j]
    BY <1>7 DEF ItemsEnlarged
  <2>3. \E j \in DOMAIN ms[n].items : ms[n].items[j] = e
    BY <1>7 DEF ItemsEnlarged
  <2>4. HasChild(ns[n], c) => HasChild(ms[n], c)
    BY <1>1, <2>1, HasChildIs
  <2>5. HasChild(ms[n], c) => HasChild(ns[n], c) \/ (~ns[n].leaf /\ c = e)
    BY <1>1, <2>2, HasChildIs
  <2>6. ~ns[n].leaf => HasChild(ms[n], e)
    BY <1>1, <2>3, HasChildIs
  <2> QED BY <2>4, <2>5, <2>6
<1>4. ChildrenKept(ns, ms)
  BY <1>1, <1>3 DEF ChildrenKept
<1>5. Keeps(ns, ms)
  BY <1>1, <1>2, <1>4, KeepsIf
<1>6. \A c : IsChild(ms, c) => IsChild(ns, c) \/ (~ns[n].leaf /\ c = e)
  BY <1>1, <1>3 DEF IsChild
<1> QED BY <1>3, <1>5, <1>6

\* Nor does a new root, whose children are the two halves.
LEMMA RootKeep ==
    ASSUME NEW ns, NEW ms, NEW c, NEW r, NEW sep, ArenaInv(ns), ArenaInv(ms), RootGrown(ns, ms, c, r, sep)
    PROVE  /\ Keeps(ns, ms) /\ \A x : IsChild(ms, x) => IsChild(ns, x) \/ x \in {c, r}
           /\ HasChild(ms[Len(ns) + 1], c) /\ HasChild(ms[Len(ns) + 1], r)
<1> DEFINE N == Len(ns) + 1
<1>1. DOMAIN ns = 1..Len(ns) /\ Len(ns) \in Nat /\ DOMAIN ms = 1..N /\ (\A z \in DOMAIN ns : ms[z] = ns[z]) /\ ~ms[N].leaf /\ ms[N].items = <<c, r>>
  BY ArenaIs DEF RootGrown
<1>2. LinksKept(ns, ms) /\ ChildrenKept(ns, ms)
  <2>1. DOMAIN ns \subseteq DOMAIN ms /\ \A x \in DOMAIN ns : ms[x].right = ns[x].right
    BY <1>1
  <2>2. LinksKept(ns, ms)
    BY <2>1 DEF LinksKept
  <2> QED BY <1>1, <2>2 DEF ChildrenKept
<1>3. Keeps(ns, ms)
  BY <1>1, <1>2, KeepsIf
<1> HIDE DEF N
<1>4. \A x : HasChild(ms[N], x) <=> x \in {c, r}
  <2>1. \A x : HasChild(ms[N], x) <=> \E i \in DOMAIN <<c, r>> : <<c, r>>[i] = x
    BY <1>1, HasChildIs
  <2>2. DOMAIN <<c, r>> = {1, 2} /\ <<c, r>>[1] = c /\ <<c, r>>[2] = r
    OBVIOUS
  <2> QED BY <2>1, <2>2
<1>5. ASSUME NEW x, IsChild(ms, x) PROVE IsChild(ns, x) \/ x \in {c, r}
  <2>1. PICK q \in DOMAIN ms : HasChild(ms[q], x)
    BY <1>5 DEF IsChild
  <2>2. CASE q \in DOMAIN ns
    BY <1>1, <2>1, <2>2 DEF IsChild
  <2>3. CASE q = N
    BY <1>4, <2>1, <2>3
  <2> QED BY <1>1, <2>2, <2>3 DEF N
<1> QED BY <1>3, <1>4, <1>5 DEF N

-----------------------------------------------------------------------------
(* A node has one parent, and its hint leads there. *)

\* Setting hints puts no item in a second place.
LEMMA HintsDistinct ==
    ASSUME NEW b, NEW ns, NEW ms, NEW cs, NEW h, HintsOnly(ns, ms, cs, h), Distinct(ns, b)
    PROVE  Distinct(ms, b)
BY DEF Distinct, HintsOnly

\* Nor does a split, which moves items.
LEMMA HalvedDistinct ==
    ASSUME NEW b, NEW ns, NEW ms, NEW n \in DOMAIN ns, NEW g \in Nat, ArenaInv(ns), ArenaInv(ms), Halved(ns, ms, n, g),
           g \in 1..Len(ns[n].items), Distinct(ns, b)
    PROVE  Distinct(ms, b)
<1> DEFINE N == Len(ns) + 1
           node(q) == IF q = N THEN n ELSE q
           place(q, i) == IF q = N THEN i + g ELSE i
<1>0. DOMAIN ns = 1..Len(ns) /\ Len(ns) \in Nat /\ DOMAIN ms = 1..N
  BY ArenaIs DEF Halved
<1>00. n # N /\ N \notin DOMAIN ns /\ DOMAIN ms = DOMAIN ns \cup {N}
  BY <1>0
<1>1. /\ \A x \in DOMAIN ns : x # n => ms[x] = ns[x]
      /\ ms[n].leaf = ns[n].leaf /\ ms[N].leaf = ns[n].leaf
  BY DEF Halved
<1>2. ItemsHalved(ns, ms, n, g)
  BY HalvedItems
<1>3. /\ DOMAIN ns[n].items = 1..Len(ns[n].items) /\ Len(ns[n].items) \in Nat
      /\ DOMAIN ms[n].items = 1..g /\ DOMAIN ms[N].items = 1..(Len(ns[n].items) - g)
      /\ \A i \in DOMAIN ms[n].items : i \in DOMAIN ns[n].items /\ ms[n].items[i] = ns[n].items[i]
      /\ \A i \in DOMAIN ms[N].items : i + g \in DOMAIN ns[n].items /\ ms[N].items[i] = ns[n].items[i + g]
  BY <1>2 DEF ItemsHalved
<1> HIDE DEF N
<1>4. ASSUME NEW q \in DOMAIN ms, (ms[q].leaf <=> b), NEW i \in DOMAIN ms[q].items
      PROVE  /\ node(q) \in DOMAIN ns /\ (ns[node(q)].leaf <=> b) /\ place(q, i) \in DOMAIN ns[node(q)].items
             /\ ns[node(q)].items[place(q, i)] = ms[q].items[i]
  <2>1. CASE q = N
    BY <1>1, <1>3, <1>4, <2>1
  <2>2. CASE q = n
    BY <1>00, <1>1, <1>3, <1>4, <2>2
  <2>3. CASE q # n /\ q # N
    BY <1>00, <1>1, <1>4, <2>3
  <2> QED BY <2>1, <2>2, <2>3
<1>5. ASSUME NEW q1 \in DOMAIN ms, NEW i1 \in DOMAIN ms[q1].items, NEW q2 \in DOMAIN ms, NEW i2 \in DOMAIN ms[q2].items,
             node(q1) = node(q2), place(q1, i1) = place(q2, i2)
      PROVE  q1 = q2 /\ i1 = i2
  <2>1. CASE q1 = N /\ q2 = N
    <3>1. i1 \in Int /\ i2 \in Int /\ i1 + g = i2 + g
      BY <1>3, <1>5, <2>1
    <3> QED BY <2>1, <3>1
  <2>2. CASE q1 # N /\ q2 # N
    BY <1>5, <2>2
  <2>3. CASE q1 = N /\ q2 # N
    <3>1. q2 = n /\ i1 + g = i2
      BY <1>5, <2>3
    <3>2. i1 >= 1 /\ i2 <= g /\ i1 \in Int /\ i2 \in Int
      BY <1>3, <2>3, <3>1
    <3> QED BY <3>1, <3>2
  <2>4. CASE q1 # N /\ q2 = N
    <3>1. q1 = n /\ i2 + g = i1
      BY <1>5, <2>4
    <3>2. i2 >= 1 /\ i1 <= g /\ i1 \in Int /\ i2 \in Int
      BY <1>3, <2>4, <3>1
    <3> QED BY <3>1, <3>2
  <2> QED BY <2>1, <2>2, <2>3, <2>4
<1> HIDE DEF node, place
<1>6. ASSUME NEW q1 \in DOMAIN ms, NEW q2 \in DOMAIN ms, (ms[q1].leaf <=> b), (ms[q2].leaf <=> b),
             NEW i1 \in DOMAIN ms[q1].items, NEW i2 \in DOMAIN ms[q2].items, ms[q1].items[i1] = ms[q2].items[i2]
      PROVE  q1 = q2 /\ i1 = i2
  <2>1. node(q1) = node(q2) /\ place(q1, i1) = place(q2, i2)
    BY <1>4, <1>6 DEF Distinct
  <2> QED BY <1>5, <2>1
<1> QED BY <1>6 DEF Distinct

\* Nor does an added item, when no other node of its kind has it.
LEMMA EnlargedDistinct ==
    ASSUME NEW b, NEW ns, NEW ms, NEW n \in DOMAIN ns, NEW p, NEW k, NEW q, NEW e, ArenaInv(ns), ArenaInv(ms), Enlarged(ns, ms, n, p, k, q, e),
           Distinct(ns, b), (ns[n].leaf <=> b) =>
               \A x \in DOMAIN ns : (ns[x].leaf <=> b) => \A i \in DOMAIN ns[x].items : ns[x].items[i] # e
    PROVE  Distinct(ms, b)
<1> DEFINE place(x, i) == IF x = n /\ i > q THEN i - 1 ELSE i
<1>1. /\ DOMAIN ms = DOMAIN ns /\ \A x \in DOMAIN ns : x # n => ms[x] = ns[x]
      /\ ms[n].leaf = ns[n].leaf
  BY DEF Enlarged
<1>2. ItemsEnlarged(ns, ms, n, q, e)
  BY EnlargedItems
<1>3. /\ DOMAIN ms[n].items = 1..(Len(ns[n].items) + 1) /\ q \in 1..(Len(ns[n].items) + 1) /\ Len(ns[n].items) \in Nat
      /\ ms[n].items[q] = e
      /\ \A i \in DOMAIN ms[n].items : \/ i < q /\ i \in DOMAIN ns[n].items /\ ms[n].items[i] = ns[n].items[i]
                                       \/ i = q
                                       \/ i > q /\ i - 1 \in DOMAIN ns[n].items /\ ms[n].items[i] = ns[n].items[i - 1]
  BY <1>2 DEF ItemsEnlarged
<1>4. ASSUME NEW x \in DOMAIN ms, (ms[x].leaf <=> b), NEW i \in DOMAIN ms[x].items, ~(x = n /\ i = q)
      PROVE  place(x, i) \in DOMAIN ns[x].items /\ ns[x].items[place(x, i)] = ms[x].items[i]
  <2>1. CASE x = n
    <3>1. i \in Int /\ q \in Int
      BY <1>3, <2>1
    <3> QED BY <1>3, <1>4, <2>1, <3>1
  <2>2. CASE x # n
    BY <1>1, <2>2
  <2> QED BY <2>1, <2>2
<1>5. ASSUME NEW x \in DOMAIN ms, NEW i1 \in DOMAIN ms[x].items, NEW i2 \in DOMAIN ms[x].items,
             ~(x = n /\ i1 = q), ~(x = n /\ i2 = q), place(x, i1) = place(x, i2)
      PROVE  i1 = i2
  <2>1. CASE x = n
    <3>1. i1 \in Int /\ i2 \in Int /\ q \in Int
      BY <1>3, <2>1
    <3> QED BY <1>5, <2>1, <3>1
  <2>2. CASE x # n
    BY <1>5, <2>2
  <2> QED BY <2>1, <2>2
<1> HIDE DEF place
<1>6. ASSUME NEW x \in DOMAIN ms, (ms[x].leaf <=> b), NEW i \in DOMAIN ms[x].items, ~(x = n /\ i = q), (ns[n].leaf <=> b)
      PROVE  ms[x].items[i] # e
  BY <1>1, <1>4, <1>6
<1>7. ASSUME NEW x \in DOMAIN ms, NEW y \in DOMAIN ms, (ms[x].leaf <=> b), (ms[y].leaf <=> b),
             NEW i \in DOMAIN ms[x].items, NEW j \in DOMAIN ms[y].items, ms[x].items[i] = ms[y].items[j]
      PROVE  x = y /\ i = j
  <2>1. CASE (x = n /\ i = q) \/ (y = n /\ j = q)
    BY <1>1, <1>3, <1>6, <1>7, <2>1
  <2>2. CASE ~(x = n /\ i = q) /\ ~(y = n /\ j = q)
    <3>1. /\ place(x, i) \in DOMAIN ns[x].items /\ ns[x].items[place(x, i)] = ms[x].items[i]
          /\ place(y, j) \in DOMAIN ns[y].items /\ ns[y].items[place(y, j)] = ms[y].items[j]
      BY <1>4, <1>7, <2>2
    <3>2. x = y /\ place(x, i) = place(y, j)
      BY <1>1, <1>7, <3>1 DEF Distinct
    <3> QED BY <1>5, <2>2, <3>2
  <2> QED BY <2>1, <2>2
<1> QED BY <1>7 DEF Distinct

\* Two nodes without a parent have one under a new root.
LEMMA RootOneParent ==
    ASSUME NEW ns, NEW ms, NEW c, NEW r, NEW sep, ArenaInv(ns), RootGrown(ns, ms, c, r, sep), OneParent(ns),
           ~IsChild(ns, c), ~IsChild(ns, r), c # r
    PROVE  OneParent(ms)
<1> DEFINE N == Len(ns) + 1
<1>1. /\ DOMAIN ns = 1..Len(ns) /\ Len(ns) \in Nat /\ DOMAIN ms = 1..N /\ \A z \in DOMAIN ns : ms[z] = ns[z]
      /\ ~ms[N].leaf /\ ms[N].items = <<c, r>>
  BY ArenaIs DEF RootGrown
<1>2. DOMAIN ms = DOMAIN ns \cup {N}
  BY <1>1
<1> HIDE DEF N
<1>3. ASSUME NEW i \in DOMAIN ms[N].items, NEW x \in DOMAIN ns, ~ns[x].leaf, NEW j \in DOMAIN ns[x].items
      PROVE  ms[N].items[i] # ns[x].items[j]
  <2>1. IsChild(ns, ns[x].items[j])
    BY <1>3, HasChildIs DEF IsChild
  <2>2. ms[N].items[i] \in {c, r}
    BY <1>1
  <2> QED BY <2>1, <2>2
<1>4. ASSUME NEW i \in DOMAIN ms[N].items, NEW j \in DOMAIN ms[N].items, ms[N].items[i] = ms[N].items[j]
      PROVE  i = j
  <2>1. DOMAIN ms[N].items = {1, 2} /\ ms[N].items[1] = c /\ ms[N].items[2] = r
    BY <1>1
  <2> QED BY <1>4, <2>1
<1>5. ASSUME NEW x \in DOMAIN ms, NEW y \in DOMAIN ms, ~ms[x].leaf, ~ms[y].leaf,
             NEW i \in DOMAIN ms[x].items, NEW j \in DOMAIN ms[y].items, ms[x].items[i] = ms[y].items[j]
      PROVE  x = y /\ i = j
  <2>1. CASE x = N /\ y = N
    BY <1>4, <1>5, <2>1
  <2>2. CASE x = N /\ y # N
    <3>1. y \in DOMAIN ns /\ ms[y] = ns[y]
      BY <1>1, <1>2, <2>2
    <3> QED BY <1>3, <1>5, <2>2, <3>1
  <2>3. CASE x # N /\ y = N
    <3>1. x \in DOMAIN ns /\ ms[x] = ns[x]
      BY <1>1, <1>2, <2>3
    <3> QED BY <1>3, <1>5, <2>3, <3>1
  <2>4. CASE x # N /\ y # N
    <3>1. x \in DOMAIN ns /\ ms[x] = ns[x] /\ y \in DOMAIN ns /\ ms[y] = ns[y]
      BY <1>1, <1>2, <2>4
    <3> QED BY <1>5, <3>1 DEF OneParent, Distinct
  <2> QED BY <2>1, <2>2, <2>3, <2>4
<1> QED BY <1>5 DEF OneParent, Distinct

\* A new root holds no row ids.
LEMMA RootOnePlace ==
    ASSUME NEW ns, NEW ms, NEW c, NEW r, NEW sep, ArenaInv(ns), RootGrown(ns, ms, c, r, sep), OnePlace(ns)
    PROVE  OnePlace(ms)
<1>1. \A x \in DOMAIN ms : ms[x].leaf => x \in DOMAIN ns /\ ms[x] = ns[x]
  BY ArenaIs DEF RootGrown
<1> QED BY <1>1 DEF OnePlace, Distinct

(* Hints that are not touched stay right. *)
LEMMA HintsStay ==
    ASSUME NEW ns, NEW ms, ArenaInv(ns), Keeps(ns, ms), HintsFit(ns),
           \A x \in DOMAIN ns : ms[x].hint = ns[x].hint,
           \A x \in DOMAIN ms \ DOMAIN ns : ms[x].hint = NoNode
    PROVE  HintsFit(ms)
<1> SUFFICES ASSUME NEW x \in DOMAIN ms, ms[x].hint # NoNode PROVE Below(ms, ms[x].hint, x)
  BY DEF HintsFit
<1>1. x \in DOMAIN ns /\ Below(ns, ns[x].hint, x) /\ ms[x].hint = ns[x].hint
  BY DEF HintsFit
<1>2. ns[x].hint \in DOMAIN ns
  BY <1>1, ArenaIs DEF NodeInv, NoNode
<1> QED BY <1>1, <1>2 DEF Keeps

\* A hint set to a node at or left of the parent is right.
LEMMA HintsSet ==
    ASSUME NEW ns, NEW ms, NEW cs, NEW h \in DOMAIN ns, ArenaInv(ns), ArenaInv(ms), HintsOnly(ns, ms, cs, h), HintsFit(ns),
           \A c \in cs : Below(ns, h, c)
    PROVE  HintsFit(ms)
<1> SUFFICES ASSUME NEW x \in DOMAIN ms, ms[x].hint # NoNode PROVE Below(ms, ms[x].hint, x)
  BY DEF HintsFit
<1>0. Keeps(ns, ms)
  BY HintsKeep
<1>1. CASE x \in cs
  <2>1. ms[x].hint = h /\ Below(ns, h, x)
    BY <1>1 DEF HintsOnly
  <2> QED BY <1>0, <2>1 DEF Keeps
<1>2. CASE x \notin cs
  <2>1. x \in DOMAIN ns /\ ms[x].hint = ns[x].hint /\ Below(ns, ns[x].hint, x)
    BY <1>2 DEF HintsOnly, HintsFit
  <2>2. ns[x].hint \in DOMAIN ns
    BY <2>1, ArenaIs DEF NodeInv, NoNode
  <2> QED BY <1>0, <2>1, <2>2 DEF Keeps
<1> QED BY <1>1, <1>2

-----------------------------------------------------------------------------
(* Levels. *)

\* Levels do not depend on hints.
LEMMA HintsLevel ==
    ASSUME NEW ns, NEW ms, NEW cs, NEW h, HintsOnly(ns, ms, cs, h), NEW level, IsLevel(ns, level)
    PROVE  IsLevel(ms, level)
BY DEF IsLevel, HintsOnly

\* A new node is as high as the one it was split from.
LEMMA HalvedLevel ==
    ASSUME NEW ns, NEW ms, NEW n \in DOMAIN ns, NEW g \in Nat, ArenaInv(ns), ArenaInv(ms), Halved(ns, ms, n, g),
           g \in 1..Len(ns[n].items), NEW level, IsLevel(ns, level)
    PROVE  IsLevel(ms, [x \in DOMAIN ms |-> IF x \in DOMAIN ns THEN level[x] ELSE level[n]])
<1> DEFINE N == Len(ns) + 1
           new == [x \in DOMAIN ms |-> IF x \in DOMAIN ns THEN level[x] ELSE level[n]]
<1>0. DOMAIN ns = 1..Len(ns) /\ Len(ns) \in Nat /\ DOMAIN ms = 1..N
  BY ArenaIs DEF Halved
<1>00. N \notin DOMAIN ns /\ DOMAIN ms = DOMAIN ns \cup {N} /\ NoNode \notin DOMAIN ms
  BY <1>0 DEF NoNode
<1>1. /\ \A x \in DOMAIN ns : x # n => ms[x] = ns[x]
      /\ ms[n].leaf = ns[n].leaf /\ ms[N].leaf = ns[n].leaf /\ ms[n].right = N /\ ms[N].right = ns[n].right
  BY DEF Halved
<1>2. ItemsHalved(ns, ms, n, g)
  BY HalvedItems
<1>3. /\ \A i \in DOMAIN ms[n].items : i \in DOMAIN ns[n].items /\ ms[n].items[i] = ns[n].items[i]
      /\ \A i \in DOMAIN ms[N].items : i + g \in DOMAIN ns[n].items /\ ms[N].items[i] = ns[n].items[i + g]
  BY <1>2 DEF ItemsHalved
<1>4. /\ level \in [DOMAIN ns -> Nat]
      /\ \A x \in DOMAIN ns :
            /\ ns[x].leaf <=> level[x] = 0
            /\ ns[x].right # NoNode => level[ns[x].right] = level[x]
            /\ ~ns[x].leaf => \A i \in DOMAIN ns[x].items : level[ns[x].items[i]] + 1 = level[x]
  BY DEF IsLevel
<1>5. /\ \A x \in DOMAIN ns : ns[x].right = NoNode \/ ns[x].right \in DOMAIN ns
      /\ \A x \in DOMAIN ns : ~ns[x].leaf => \A i \in DOMAIN ns[x].items : ns[x].items[i] \in DOMAIN ns
  BY <1>0, ArenaIs DEF NodeInv, NoNode
<1> HIDE DEF N
<1>6. new \in [DOMAIN ms -> Nat] /\ new[N] = level[n] /\ \A x \in DOMAIN ns : new[x] = level[x]
  BY <1>00, <1>4
<1> HIDE DEF new
<1>7. ASSUME NEW x \in DOMAIN ms
      PROVE  /\ ms[x].leaf <=> new[x] = 0
             /\ ms[x].right # NoNode => new[ms[x].right] = new[x]
             /\ ~ms[x].leaf => \A i \in DOMAIN ms[x].items : new[ms[x].items[i]] + 1 = new[x]
  <2>1. CASE x \in DOMAIN ns /\ x # n
    BY <1>1, <1>4, <1>5, <1>6, <2>1
  <2>2. CASE x = n
    BY <1>1, <1>3, <1>4, <1>5, <1>6, <2>2
  <2>3. CASE x = N
    BY <1>1, <1>3, <1>4, <1>5, <1>6, <2>3
  <2> QED BY <1>00, <2>1, <2>2, <2>3
<1>8. IsLevel(ms, new)
  BY <1>6, <1>7 DEF IsLevel
<1> QED BY <1>8 DEF new

\* A child joins a node one level above it.
LEMMA EnlargedLevel ==
    ASSUME NEW ns, NEW ms, NEW n \in DOMAIN ns, NEW p, NEW k, NEW q, NEW e, ArenaInv(ns), ArenaInv(ms), Enlarged(ns, ms, n, p, k, q, e),
           NEW level, IsLevel(ns, level), ns[n].leaf \/ level[e] + 1 = level[n]
    PROVE  IsLevel(ms, level)
<1>1. /\ DOMAIN ms = DOMAIN ns /\ \A x \in DOMAIN ns : x # n => ms[x] = ns[x]
      /\ ms[n].leaf = ns[n].leaf /\ ms[n].right = ns[n].right
  BY DEF Enlarged
<1>2. ItemsEnlarged(ns, ms, n, q, e)
  BY EnlargedItems
<1>3. \A i \in DOMAIN ms[n].items : ms[n].items[i] = e \/ \E j \in DOMAIN ns[n].items : ms[n].items[i] = ns[n].items[j]
  BY <1>2 DEF ItemsEnlarged
<1>4. /\ level \in [DOMAIN ns -> Nat]
      /\ \A x \in DOMAIN ns :
            /\ ns[x].leaf <=> level[x] = 0
            /\ ns[x].right # NoNode => level[ns[x].right] = level[x]
            /\ ~ns[x].leaf => \A i \in DOMAIN ns[x].items : level[ns[x].items[i]] + 1 = level[x]
  BY DEF IsLevel
<1>5. ~ns[n].leaf => \A i \in DOMAIN ms[n].items : level[ms[n].items[i]] + 1 = level[n]
  BY <1>3, <1>4
<1> QED BY <1>1, <1>4, <1>5 DEF IsLevel

\* A new root is one level above the halves of the old one.
LEMMA RootLevel ==
    ASSUME NEW ns, NEW ms, NEW c \in DOMAIN ns, NEW r \in DOMAIN ns, NEW sep, ArenaInv(ns), RootGrown(ns, ms, c, r, sep),
           NEW level, IsLevel(ns, level), level[c] = level[r]
    PROVE  IsLevel(ms, [x \in DOMAIN ms |-> IF x \in DOMAIN ns THEN level[x] ELSE level[c] + 1])
<1> DEFINE N == Len(ns) + 1
           new == [x \in DOMAIN ms |-> IF x \in DOMAIN ns THEN level[x] ELSE level[c] + 1]
<1>1. /\ DOMAIN ns = 1..Len(ns) /\ Len(ns) \in Nat /\ DOMAIN ms = 1..N /\ \A z \in DOMAIN ns : ms[z] = ns[z]
      /\ ~ms[N].leaf /\ ms[N].items = <<c, r>> /\ ms[N].right = NoNode
  BY ArenaIs DEF RootGrown
<1>2. N \notin DOMAIN ns /\ DOMAIN ms = DOMAIN ns \cup {N}
  BY <1>1
<1>4. /\ level \in [DOMAIN ns -> Nat]
      /\ \A x \in DOMAIN ns :
            /\ ns[x].leaf <=> level[x] = 0
            /\ ns[x].right # NoNode => level[ns[x].right] = level[x]
            /\ ~ns[x].leaf => \A i \in DOMAIN ns[x].items : level[ns[x].items[i]] + 1 = level[x]
  BY DEF IsLevel
<1>5. /\ \A x \in DOMAIN ns : ns[x].right = NoNode \/ ns[x].right \in DOMAIN ns
      /\ \A x \in DOMAIN ns : ~ns[x].leaf => \A i \in DOMAIN ns[x].items : ns[x].items[i] \in DOMAIN ns
  BY <1>1, ArenaIs DEF NodeInv, NoNode
<1>9. \A i \in DOMAIN ms[N].items : ms[N].items[i] \in {c, r}
  BY <1>1
<1> HIDE DEF N
<1>6. new \in [DOMAIN ms -> Nat] /\ new[N] = level[c] + 1 /\ \A x \in DOMAIN ns : new[x] = level[x]
  BY <1>2, <1>4
<1> HIDE DEF new
<1>7. ASSUME NEW x \in DOMAIN ms
      PROVE  /\ ms[x].leaf <=> new[x] = 0
             /\ ms[x].right # NoNode => new[ms[x].right] = new[x]
             /\ ~ms[x].leaf => \A i \in DOMAIN ms[x].items : new[ms[x].items[i]] + 1 = new[x]
  <2>1. CASE x \in DOMAIN ns
    <3>1. ms[x] = ns[x]
      BY <1>1, <2>1
    <3> QED BY <1>4, <1>5, <1>6, <2>1, <3>1
  <2>2. CASE x = N
    <3>1. new[N] # 0 /\ level[c] \in Nat
      BY <1>4, <1>6
    <3>2. \A i \in DOMAIN ms[N].items : new[ms[N].items[i]] = level[c]
      BY <1>6, <1>9
    <3> QED BY <1>1, <1>6, <2>2, <3>1, <3>2
  <2> QED BY <1>2, <2>1, <2>2
<1>8. IsLevel(ms, new)
  BY <1>6, <1>7 DEF IsLevel
<1> QED BY <1>8 DEF new

(* A node's level is that of all nodes to the right of it. *)
LEMMA ChainLevel ==
    ASSUME NEW ns, ArenaInv(ns), NEW level, IsLevel(ns, level), NEW n \in DOMAIN ns
    PROVE  \A x \in ChainFrom(ns, n) : x \in DOMAIN ns /\ level[x] = level[n]
<1> DEFINE T == {x \in DOMAIN ns : level[x] = level[n]}
<1>1. \A x \in DOMAIN ns : ns[x].right \in DOMAIN ns \cup {NoNode} /\ (ns[x].right # NoNode => level[ns[x].right] = level[x])
  BY ArenaIs DEF Linked, NoNode, IsLevel
<1>2. n \in T /\ \A x \in T : ns[x].right \in T \cup {NoNode}
  BY <1>1
<1>3. T \in SUBSET DOMAIN ns
  OBVIOUS
<1> HIDE DEF T
<1>4. ChainFrom(ns, n) \subseteq T
  BY <1>2, <1>3, ChainCloses
<1> QED BY <1>4 DEF T

-----------------------------------------------------------------------------
(* The first nodes. *)

\* Nothing new is to the left of an old node.
RightsKept(ns, ms) == Rights(ms) \cap DOMAIN ns \subseteq Rights(ns)

\* The first node of a level leads to the first node below it, and node 1 is the first leaf.
FirstIn(ns) ==
    /\ Leftmost(ns) /\ 1 \in Leaves(ns) /\ Leaves(ns) \subseteq ChainFrom(ns, 1)

\* A change keeps that if it gives no node of ns a left neighbour and no first node another first child, and if new nodes are linked.
LEMMA FirstKept ==
    ASSUME NEW ns, NEW ms, ArenaInv(ns), Keeps(ns, ms), RightsKept(ns, ms), Rights(ns) \subseteq Rights(ms), FirstIn(ns),
           \A x \in DOMAIN ns : ~ns[x].leaf => Head(ms[x].items) = Head(ns[x].items),
           \A x \in DOMAIN ms \ DOMAIN ns : ~ms[x].leaf => x \in Rights(ms) \/ Head(ms[x].items) \in DOMAIN ns \ Rights(ns),
           \A x \in DOMAIN ms \ DOMAIN ns : ms[x].leaf => x \in ChainFrom(ms, 1),
           \A x \in DOMAIN ns : ~ns[x].leaf => Head(ns[x].items) \in DOMAIN ns
    PROVE  FirstIn(ms)
<1>1. ASSUME NEW q \in DOMAIN ms, ~ms[q].leaf, q \notin Rights(ms) PROVE Head(ms[q].items) \notin Rights(ms)
  <2>1. CASE q \in DOMAIN ns
    <3>1. ~ns[q].leaf /\ q \notin Rights(ns)
      BY <1>1, <2>1 DEF Keeps
    <3>2. Head(ns[q].items) \notin Rights(ns)
      BY <2>1, <3>1 DEF FirstIn, Leftmost
    <3> QED BY <2>1, <3>1, <3>2 DEF RightsKept
  <2>2. CASE q \notin DOMAIN ns
    BY <1>1, <2>2 DEF RightsKept
  <2> QED BY <2>1, <2>2
<1>2. 1 \in DOMAIN ns /\ 1 \in Leaves(ms)
  BY DEF FirstIn, Leaves, Keeps
<1>3. ASSUME NEW x \in Leaves(ms) PROVE x \in ChainFrom(ms, 1)
  <2>1. CASE x \in DOMAIN ns
    <3>1. x \in Leaves(ns)
      BY <2>1 DEF Keeps, Leaves
    <3> QED BY <1>2, <3>1 DEF FirstIn, Keeps
  <2>2. CASE x \notin DOMAIN ns
    BY <2>2 DEF Leaves
  <2> QED BY <2>1, <2>2
<1> QED BY <1>1, <1>2, <1>3 DEF FirstIn, Leftmost

\* An internal node has a first child.
LEMMA HeadIs ==
    ASSUME NEW ns, ArenaInv(ns), NEW x \in DOMAIN ns, ~ns[x].leaf
    PROVE  1 \in DOMAIN ns[x].items /\ Head(ns[x].items) = ns[x].items[1] /\ Head(ns[x].items) \in DOMAIN ns
<1>1. ns[x].items \in Seq(Nat) /\ Len(ns[x].items) \in Nat /\ DOMAIN ns[x].items = 1..Len(ns[x].items) /\ Len(ns[x].keys) \in Nat
  BY ArenaIs, NodeIs
<1>2. Len(ns[x].items) = Len(ns[x].keys) + 1 /\ \A i \in DOMAIN ns[x].items : ns[x].items[i] \in DOMAIN ns
  BY ArenaIs DEF NodeInv, Extra
<1>3. Len(ns[x].items) >= 1
  BY <1>1, <1>2
<1>4. 1 \in DOMAIN ns[x].items /\ Head(ns[x].items) = ns[x].items[1]
  BY <1>1, <1>3
<1> QED BY <1>2, <1>4

\* Setting hints changes no first node.
LEMMA HintsFirst ==
    ASSUME NEW ns, NEW ms, NEW cs, NEW h, ArenaInv(ns), ArenaInv(ms), HintsOnly(ns, ms, cs, h), FirstIn(ns)
    PROVE  FirstIn(ms) /\ RightsKept(ns, ms)
<1>1. Keeps(ns, ms)
  BY HintsKeep
<1>2. Rights(ms) = Rights(ns)
  BY DEF Rights, HintsOnly
<1>3. DOMAIN ms = DOMAIN ns /\ \A x \in DOMAIN ns : Head(ms[x].items) = Head(ns[x].items)
  BY DEF HintsOnly
<1> QED BY <1>1, <1>2, <1>3, FirstKept, HeadIs DEF RightsKept

\* A split puts its new node behind an old one, so first nodes stay first.
LEMMA HalvedFirst ==
    ASSUME NEW ns, NEW ms, NEW n \in DOMAIN ns, NEW g \in Nat, ArenaInv(ns), ArenaInv(ms), Halved(ns, ms, n, g),
           g \in 1..Len(ns[n].items), FirstIn(ns)
    PROVE  FirstIn(ms) /\ RightsKept(ns, ms)
<1> DEFINE N == Len(ns) + 1
<1>0. DOMAIN ns = 1..Len(ns) /\ Len(ns) \in Nat /\ DOMAIN ms = 1..N
  BY ArenaIs DEF Halved
<1>00. N \notin DOMAIN ns /\ DOMAIN ms = DOMAIN ns \cup {N} /\ NoNode \notin DOMAIN ms
  BY <1>0 DEF NoNode
<1>1. /\ \A x \in DOMAIN ns : x # n => ms[x] = ns[x]
      /\ ms[n].leaf = ns[n].leaf /\ ms[N].leaf = ns[n].leaf /\ ms[n].right = N /\ ms[N].right = ns[n].right
  BY DEF Halved
<1>2. ItemsHalved(ns, ms, n, g)
  BY HalvedItems
<1>3. Keeps(ns, ms)
  BY HalvedKeep
<1> HIDE DEF N
<1>4. Rights(ms) = Rights(ns) \cup {N}
  <2>1. ASSUME NEW x \in DOMAIN ms PROVE ms[x].right \in Rights(ns) \cup {N}
    BY <1>00, <1>1 DEF Rights
  <2>2. ASSUME NEW x \in DOMAIN ns PROVE ns[x].right \in Rights(ms)
    <3>1. CASE x = n
      BY <1>00, <1>1, <3>1 DEF Rights
    <3>2. CASE x # n
      BY <1>00, <1>1, <3>2 DEF Rights
    <3> QED BY <3>1, <3>2
  <2>3. N \in Rights(ms)
    BY <1>00, <1>1 DEF Rights
  <2> QED BY <2>1, <2>2, <2>3 DEF Rights
<1>5. RightsKept(ns, ms)
  BY <1>00, <1>4 DEF RightsKept
<1>6. ASSUME NEW x \in DOMAIN ns, ~ns[x].leaf PROVE Head(ms[x].items) = Head(ns[x].items)
  <2>1. CASE x # n
    BY <1>1, <2>1
  <2>2. CASE x = n
    <3>1. x \in DOMAIN ms /\ ~ms[x].leaf
      BY <1>00, <1>1, <1>6, <2>2
    <3>2. Head(ns[x].items) = ns[x].items[1] /\ Head(ms[x].items) = ms[x].items[1] /\ 1 \in DOMAIN ms[x].items
      BY <1>6, <3>1, HeadIs
    <3> QED BY <1>2, <2>2, <3>2 DEF ItemsHalved
  <2> QED BY <2>1, <2>2
<1>7. ASSUME NEW x \in DOMAIN ms \ DOMAIN ns, ms[x].leaf PROVE x \in ChainFrom(ms, 1)
  <2>1. x = N /\ ns[n].leaf /\ 1 \in DOMAIN ns
    BY <1>00, <1>1, <1>7 DEF FirstIn, Leaves
  <2>2. n \in ChainFrom(ms, 1)
    BY <1>3, <2>1 DEF FirstIn, Leaves, Keeps
  <2> QED BY <1>00, <1>1, <2>1, <2>2, ChainCloses
<1>8. \A x \in DOMAIN ns : ~ns[x].leaf => Head(ns[x].items) \in DOMAIN ns
  BY HeadIs
<1>9. \A x \in DOMAIN ms \ DOMAIN ns : x \in Rights(ms)
  BY <1>00, <1>4
<1>10. Rights(ns) \subseteq Rights(ms)
  BY <1>4
<1>11. FirstIn(ms)
  BY ONLY ArenaInv(ns), FirstIn(ns), <1>3, <1>5, <1>6, <1>7, <1>8, <1>9, <1>10, FirstKept
<1> QED BY <1>5, <1>11

\* A child is put behind another one, so the first child of a node stays first.
LEMMA EnlargedFirst ==
    ASSUME NEW ns, NEW ms, NEW n \in DOMAIN ns, NEW p, NEW k, NEW q, NEW e, ArenaInv(ns), ArenaInv(ms), Enlarged(ns, ms, n, p, k, q, e),
           ns[n].leaf \/ q # 1, FirstIn(ns)
    PROVE  FirstIn(ms) /\ RightsKept(ns, ms)
<1>1. /\ DOMAIN ms = DOMAIN ns /\ \A x \in DOMAIN ns : x # n => ms[x] = ns[x]
      /\ ms[n].leaf = ns[n].leaf /\ ms[n].right = ns[n].right
  BY DEF Enlarged
<1>2. ItemsEnlarged(ns, ms, n, q, e)
  BY EnlargedItems
<1>3. Keeps(ns, ms)
  BY EnlargedKeep
<1>4. Rights(ms) = Rights(ns)
  <2>1. \A x \in DOMAIN ns : ms[x].right = ns[x].right
    BY <1>1
  <2> QED BY <1>1, <2>1 DEF Rights
<1>6. ASSUME NEW x \in DOMAIN ns, ~ns[x].leaf PROVE Head(ms[x].items) = Head(ns[x].items)
  <2>1. CASE x # n
    BY <1>1, <2>1
  <2>2. CASE x = n
    <3>1. x \in DOMAIN ms /\ ~ms[x].leaf
      BY <1>1, <1>6, <2>2
    <3>2. Head(ns[x].items) = ns[x].items[1] /\ Head(ms[x].items) = ms[x].items[1] /\ 1 \in DOMAIN ms[x].items
      BY <1>6, <3>1, HeadIs
    <3>3. 1 < q
      BY <1>2, <1>6, <2>2 DEF ItemsEnlarged
    <3>4. ms[n].items[1] = ns[n].items[1]
      BY <1>2, <2>2, <3>2, <3>3 DEF ItemsEnlarged
    <3> QED BY <2>2, <3>2, <3>4
  <2> QED BY <2>1, <2>2
<1>7. RightsKept(ns, ms)
  BY <1>4 DEF RightsKept
<1>8. \A x \in DOMAIN ns : ~ns[x].leaf => Head(ns[x].items) \in DOMAIN ns
  BY HeadIs
<1>9. FirstIn(ms)
  BY <1>1, <1>3, <1>4, <1>6, <1>7, <1>8, FirstKept
<1> QED BY <1>7, <1>9

\* A new root is the first node of its level, over the old root, the first of the next one.
LEMMA RootFirst ==
    ASSUME NEW ns, NEW ms, NEW c \in DOMAIN ns, NEW r \in DOMAIN ns, NEW sep, ArenaInv(ns), ArenaInv(ms), RootGrown(ns, ms, c, r, sep),
           c \notin Rights(ns), FirstIn(ns)
    PROVE  FirstIn(ms) /\ RightsKept(ns, ms) /\ Len(ns) + 1 \notin Rights(ms)
<1> DEFINE N == Len(ns) + 1
<1>1. /\ DOMAIN ns = 1..Len(ns) /\ Len(ns) \in Nat /\ DOMAIN ms = 1..N /\ \A z \in DOMAIN ns : ms[z] = ns[z]
      /\ ~ms[N].leaf /\ ms[N].items = <<c, r>> /\ ms[N].right = NoNode
  BY ArenaIs DEF RootGrown
<1>2. N \notin DOMAIN ns /\ DOMAIN ms = DOMAIN ns \cup {N} /\ NoNode \notin DOMAIN ms
  BY <1>1 DEF NoNode
<1>3. Keeps(ns, ms)
  BY RootKeep
<1>12. Head(ms[N].items) = c
  BY <1>1
<1> HIDE DEF N
<1>4. ASSUME NEW v PROVE v \in Rights(ms) <=> v \in Rights(ns) \/ v = NoNode
  <2>1. v \in Rights(ms) <=> \E x \in DOMAIN ms : v = ms[x].right
    BY DEF Rights
  <2>2. v \in Rights(ns) <=> \E x \in DOMAIN ns : v = ns[x].right
    BY DEF Rights
  <2> QED BY <1>1, <1>2, <2>1, <2>2
<1>5. \A x \in DOMAIN ns : ns[x].right \in DOMAIN ns \cup {NoNode}
  BY ArenaIs DEF Linked, NoNode
<1>6. N \notin Rights(ms)
  <2>1. N \notin Rights(ns)
    BY <1>2, <1>5 DEF Rights
  <2> QED BY <1>2, <1>4, <2>1
<1>7. RightsKept(ns, ms)
  <2>1. NoNode \notin DOMAIN ns
    BY <1>2
  <2> QED BY <1>4, <2>1 DEF RightsKept
<1>8. \A x \in DOMAIN ns : ~ns[x].leaf => Head(ns[x].items) \in DOMAIN ns
  BY HeadIs
<1>9. \A x \in DOMAIN ms \ DOMAIN ns : ~ms[x].leaf /\ Head(ms[x].items) \in DOMAIN ns \ Rights(ns)
  BY <1>1, <1>2, <1>12
<1>10. \A x \in DOMAIN ns : Head(ms[x].items) = Head(ns[x].items)
  BY <1>1
<1>13. Rights(ns) \subseteq Rights(ms)
  BY <1>4
<1>11. FirstIn(ms)
  BY ONLY ArenaInv(ns), FirstIn(ns), <1>3, <1>13, <1>7, <1>8, <1>9, <1>10, FirstKept
<1> QED BY <1>6, <1>7, <1>11 DEF N

-----------------------------------------------------------------------------
(* The pairs the leaves hold. *)

\* A pair is held if a leaf has its key and its id at the same position.
LEMMA HeldIs ==
    ASSUME NEW ns, NEW e
    PROVE  e \in Held(ns) <=> \E n \in DOMAIN ns : ns[n].leaf /\ \E i \in DOMAIN ns[n].keys : e = <<ns[n].keys[i], ns[n].items[i]>>
BY DEF Held, Leaves, PairsIn

\* Setting hints changes no pair.
LEMMA HintsHeld ==
    ASSUME NEW ns, NEW ms, NEW cs, NEW h, HintsOnly(ns, ms, cs, h)
    PROVE  Held(ms) = Held(ns)
<1>1. ASSUME NEW e PROVE e \in Held(ms) <=> e \in Held(ns)
  BY HeldIs DEF HintsOnly
<1> QED BY <1>1

\* Nor does a new root.
LEMMA RootHeld ==
    ASSUME NEW ns, NEW ms, NEW c, NEW r, NEW sep, ArenaInv(ns), RootGrown(ns, ms, c, r, sep)
    PROVE  Held(ms) = Held(ns)
<1>1. DOMAIN ms = DOMAIN ns \cup {Len(ns) + 1} /\ (\A z \in DOMAIN ns : ms[z] = ns[z]) /\ ~ms[Len(ns) + 1].leaf
  BY ArenaIs DEF RootGrown
<1>2. ASSUME NEW e PROVE e \in Held(ms) <=> e \in Held(ns)
  BY <1>1, HeldIs
<1> QED BY <1>2

\* A leaf has as many ids as keys.
LEMMA LeafIs ==
    ASSUME NEW ns, ArenaInv(ns), NEW n \in DOMAIN ns, ns[n].leaf
    PROVE  \E L \in Nat : L = Len(ns[n].keys) /\ DOMAIN ns[n].keys = 1..L /\ Len(ns[n].items) = L
<1>1. ns[n] \in Node /\ NodeInv(ns, n)
  BY ArenaIs
<1>2. Len(ns[n].keys) \in Nat /\ DOMAIN ns[n].keys = 1..Len(ns[n].keys)
  BY <1>1, NodeIs
<1>3. Len(ns[n].items) = Len(ns[n].keys) + Extra(ns[n])
  BY <1>1 DEF NodeInv
<1>4. Extra(ns[n]) = 0
  BY DEF Extra
<1> QED BY <1>2, <1>3, <1>4

\* The pairs of a leaf, by their positions.
LEMMA PairsAre ==
    ASSUME NEW x, NEW e
    PROVE  e \in PairsIn(x) <=> \E i \in DOMAIN x.keys : e = <<x.keys[i], x.items[i]>>
BY DEF PairsIn

\* Halving a leaf shares its pairs between the halves.
LEMMA HalvedPairs ==
    ASSUME NEW ns, NEW ms, NEW n \in DOMAIN ns, NEW g \in Nat, ArenaInv(ns), ArenaInv(ms), Halved(ns, ms, n, g),
           g \in 1..Len(ns[n].keys), ns[n].leaf
    PROVE  PairsIn(ns[n]) = PairsIn(ms[n]) \cup PairsIn(ms[Len(ns) + 1])
<1> DEFINE N == Len(ns) + 1
<1>1. n \in DOMAIN ms /\ N \in DOMAIN ms
  BY ArenaIs DEF Halved
<1>2. PICK L \in Nat : L = Len(ns[n].keys) /\ DOMAIN ns[n].keys = 1..L /\ Len(ns[n].items) = L
  BY LeafIs
<1>3. DOMAIN ms[n].keys = 1..Len(ms[n].keys) /\ DOMAIN ms[N].keys = 1..Len(ms[N].keys)
  BY <1>1, ArenaIs, NodeIs
<1>4. Len(ms[n].keys) = g - Extra(ns[n]) /\ Extra(ns[n]) = 0 /\ Len(ms[N].keys) = L - g
  BY <1>2 DEF Halved, Extra
<1>5. DOMAIN ms[n].keys = 1..g /\ DOMAIN ms[N].keys = 1..(L - g) /\ g \in 1..L
  BY <1>2, <1>3, <1>4
<1>6. /\ \A i \in 1..g : ms[n].items[i] = ns[n].items[i] /\ ms[n].keys[i] = ns[n].keys[i]
      /\ \A i \in 1..(L - g) : ms[N].items[i] = ns[n].items[i + g] /\ ms[N].keys[i] = ns[n].keys[i + g]
  BY <1>2, <1>4 DEF Halved
<1>7. /\ \A i \in 1..L : i \in 1..g \/ (i - g \in 1..(L - g) /\ (i - g) + g = i)
      /\ \A i \in 1..g : i \in 1..L
      /\ \A i \in 1..(L - g) : i + g \in 1..L
  <2>1. g \in 1..L /\ L \in Nat
    BY <1>5
  <2> QED BY <2>1
<1> HIDE DEF N
<1>8. ASSUME NEW e, e \in PairsIn(ns[n]) PROVE e \in PairsIn(ms[n]) \cup PairsIn(ms[N])
  <2>1. PICK i \in 1..L : e = <<ns[n].keys[i], ns[n].items[i]>>
    BY <1>2, <1>8, PairsAre
  <2>2. CASE i \in 1..g
    BY <1>5, <1>6, <2>1, <2>2, PairsAre
  <2>3. CASE i - g \in 1..(L - g) /\ (i - g) + g = i
    <3>1. PICK j \in 1..(L - g) : j + g = i
      BY <2>3
    <3>2. ms[N].items[j] = ns[n].items[i] /\ ms[N].keys[j] = ns[n].keys[i]
      BY <1>6, <3>1
    <3>3. j \in DOMAIN ms[N].keys /\ e = <<ms[N].keys[j], ms[N].items[j]>>
      BY <1>5, <2>1, <3>1, <3>2
    <3>4. e \in PairsIn(ms[N])
      BY <3>3, PairsAre
    <3> QED BY <3>4
  <2> QED BY <1>7, <2>2, <2>3
<1>9. ASSUME NEW e, e \in PairsIn(ms[n]) PROVE e \in PairsIn(ns[n])
  <2>1. PICK i \in 1..g : e = <<ms[n].keys[i], ms[n].items[i]>>
    BY <1>5, <1>9, PairsAre
  <2> QED BY <1>2, <1>6, <1>7, <2>1, PairsAre
<1>10. ASSUME NEW e, e \in PairsIn(ms[N]) PROVE e \in PairsIn(ns[n])
  <2>1. PICK i \in 1..(L - g) : e = <<ms[N].keys[i], ms[N].items[i]>>
    BY <1>5, <1>10, PairsAre
  <2> QED BY <1>2, <1>6, <1>7, <2>1, PairsAre
<1> QED BY <1>8, <1>9, <1>10 DEF N

\* Nor does a split, of a leaf or of an internal node.
LEMMA HalvedHeld ==
    ASSUME NEW ns, NEW ms, NEW n \in DOMAIN ns, NEW g \in Nat, ArenaInv(ns), ArenaInv(ms), Halved(ns, ms, n, g),
           g \in 1..Len(ns[n].keys)
    PROVE  Held(ms) = Held(ns)
<1> DEFINE N == Len(ns) + 1
<1>1. /\ DOMAIN ms = DOMAIN ns \cup {N} /\ N \notin DOMAIN ns /\ \A x \in DOMAIN ns : x # n => ms[x] = ns[x]
      /\ ms[n].leaf = ns[n].leaf /\ ms[N].leaf = ns[n].leaf
  BY ArenaIs DEF Halved
<1>2. ns[n].leaf => PairsIn(ns[n]) = PairsIn(ms[n]) \cup PairsIn(ms[N])
  BY HalvedPairs
<1> HIDE DEF N
<1>3. ASSUME NEW e, e \in Held(ms) PROVE e \in Held(ns)
  <2>1. PICK x \in DOMAIN ms : ms[x].leaf /\ e \in PairsIn(ms[x])
    BY <1>3 DEF Held, Leaves
  <2> QED BY <1>1, <1>2, <2>1 DEF Held, Leaves
<1>4. ASSUME NEW e, e \in Held(ns) PROVE e \in Held(ms)
  <2>1. PICK x \in DOMAIN ns : ns[x].leaf /\ e \in PairsIn(ns[x])
    BY <1>4 DEF Held, Leaves
  <2> QED BY <1>1, <1>2, <2>1 DEF Held, Leaves
<1> QED BY <1>3, <1>4

\* Leaf n has the pair x besides its own.
Joins(ns, ms, n, x) == PairsIn(ms[n]) = PairsIn(ns[n]) \cup {x}

\* A pair put into a leaf joins the leaf's pairs.
LEMMA EnlargedPairs ==
    ASSUME NEW ns, NEW ms, NEW n \in DOMAIN ns, NEW p, NEW k, NEW q, NEW e, ArenaInv(ns), ArenaInv(ms), Enlarged(ns, ms, n, p, k, q, e),
           ns[n].leaf, p = q
    PROVE  Joins(ns, ms, n, <<k, e>>)
<1>1. PICK L \in Nat : L = Len(ns[n].keys) /\ DOMAIN ns[n].keys = 1..L /\ Len(ns[n].items) = L
  BY LeafIs
<1>2. n \in DOMAIN ms /\ DOMAIN ms[n].keys = 1..Len(ms[n].keys)
  <2>1. n \in DOMAIN ms
    BY DEF Enlarged
  <2> QED BY <2>1, ArenaIs, NodeIs
<1>3. /\ DOMAIN ms[n].keys = 1..(L + 1) /\ p \in 1..(L + 1)
      /\ \A i \in 1..(L + 1) : /\ ms[n].keys[i] = IF i < p THEN ns[n].keys[i] ELSE IF i = p THEN k ELSE ns[n].keys[i - 1]
                               /\ ms[n].items[i] = IF i < p THEN ns[n].items[i] ELSE IF i = p THEN e ELSE ns[n].items[i - 1]
  BY <1>1, <1>2 DEF Enlarged
<1>4. ASSUME NEW x, x \in PairsIn(ms[n]) PROVE x \in PairsIn(ns[n]) \cup {<<k, e>>}
  <2>1. PICK i \in 1..(L + 1) : x = <<ms[n].keys[i], ms[n].items[i]>>
    BY <1>3, <1>4, PairsAre
  <2>2. CASE i < p
    <3>1. i \in 1..L /\ x = <<ns[n].keys[i], ns[n].items[i]>>
      BY <1>3, <2>1, <2>2
    <3> QED BY <1>1, <3>1, PairsAre
  <2>3. CASE i = p
    BY <1>3, <2>1, <2>3
  <2>4. CASE i > p
    <3>1. i - 1 \in 1..L /\ x = <<ns[n].keys[i - 1], ns[n].items[i - 1]>>
      BY <1>3, <2>1, <2>4
    <3> QED BY <1>1, <3>1, PairsAre
  <2> QED BY <1>3, <2>2, <2>3, <2>4
<1>5. <<k, e>> \in PairsIn(ms[n])
  <2>1. p \in DOMAIN ms[n].keys /\ ms[n].keys[p] = k /\ ms[n].items[p] = e
    BY <1>3
  <2> QED BY <2>1, PairsAre
<1>6. ASSUME NEW x, x \in PairsIn(ns[n]) PROVE x \in PairsIn(ms[n])
  <2>1. PICK i \in 1..L : x = <<ns[n].keys[i], ns[n].items[i]>>
    BY <1>1, <1>6, PairsAre
  <2>2. CASE i < p
    <3>1. i \in 1..(L + 1) /\ x = <<ms[n].keys[i], ms[n].items[i]>>
      BY <1>3, <2>1, <2>2
    <3> QED BY <1>3, <3>1, PairsAre
  <2>3. CASE ~(i < p)
    <3>1. PICK j \in 1..(L + 1) : j = i + 1 /\ j > p /\ j - 1 = i
      BY <1>3, <2>3
    <3>2. x = <<ms[n].keys[j], ms[n].items[j]>>
      BY <1>3, <2>1, <3>1
    <3> QED BY <1>3, <3>1, <3>2, PairsAre
  <2> QED BY <2>2, <2>3
<1>7. PairsIn(ms[n]) = PairsIn(ns[n]) \cup {<<k, e>>}
  BY <1>4, <1>5, <1>6
<1> QED BY <1>7 DEF Joins

\* An entry put into a leaf adds its pair, and a child put into a node none.
LEMMA EnlargedHeld ==
    ASSUME NEW ns, NEW ms, NEW n \in DOMAIN ns, NEW p, NEW k, NEW q, NEW e, ArenaInv(ns), ArenaInv(ms), Enlarged(ns, ms, n, p, k, q, e)
    PROVE  Held(ms) = IF ns[n].leaf /\ p = q THEN Held(ns) \cup {<<k, e>>} ELSE IF ns[n].leaf THEN Held(ms) ELSE Held(ns)
<1>1. /\ DOMAIN ms = DOMAIN ns /\ \A x \in DOMAIN ns : x # n => ms[x] = ns[x]
      /\ ms[n].leaf = ns[n].leaf
  BY DEF Enlarged
<1>2. CASE ns[n].leaf /\ p = q
  <2>0. Joins(ns, ms, n, <<k, e>>)
    BY <1>2, EnlargedPairs
  <2>1. PairsIn(ms[n]) = PairsIn(ns[n]) \cup {<<k, e>>}
    BY <2>0 DEF Joins
  <2>2. ASSUME NEW x PROVE x \in Held(ms) <=> x \in Held(ns) \/ x = <<k, e>>
    BY <1>1, <1>2, <2>1 DEF Held, Leaves
  <2> QED BY <1>2, <2>2
<1>3. CASE ~ns[n].leaf
  <2>1. ASSUME NEW x PROVE x \in Held(ms) <=> x \in Held(ns)
    BY <1>1, <1>3 DEF Held, Leaves
  <2> QED BY <1>3, <2>1
<1> QED BY <1>2, <1>3

(* The first node of each level: what the spine of a tree is, and what it leads to. *)

\* T holds n and with every internal node its first child.
Under(ns, n, T) == n \in T /\ \A x \in T : ~ns[x].leaf => Head(ns[x].items) \in T
\* The least such set: the first nodes of the levels from n down.
Down(ns, n) == {q \in DOMAIN ns : \A T \in SUBSET DOMAIN ns : Under(ns, n, T) => q \in T}
\* f satisfies the equation of the recursive function in Spine.
IsSpine(f, ns) ==
    f = [n \in DOMAIN ns |-> {n} \cup (IF ns[n].leaf THEN {} ELSE f[Head(ns[n].items)])]

\* The sets Down satisfy that equation.
LEMMA DownStep ==
    ASSUME NEW ns, ArenaInv(ns), NEW n \in DOMAIN ns
    PROVE  Down(ns, n) = {n} \cup (IF ns[n].leaf THEN {} ELSE Down(ns, Head(ns[n].items)))
<1>1. n \in Down(ns, n)
  BY DEF Down, Under
<1>2. CASE ns[n].leaf
  <2>1. Under(ns, n, {n})
    BY <1>2 DEF Under
  <2> QED BY <1>1, <1>2, <2>1 DEF Down
<1>3. CASE ~ns[n].leaf
  <2> DEFINE h == Head(ns[n].items)
  <2>1. h \in DOMAIN ns
    BY <1>3, HeadIs
  <2> HIDE DEF h
  <2>2. \A T \in SUBSET DOMAIN ns : Under(ns, n, T) => Under(ns, h, T)
    BY <1>3 DEF Under, h
  <2>3. Down(ns, h) \subseteq Down(ns, n)
    BY <2>2 DEF Down
  <2>4. Under(ns, h, Down(ns, h))
    <3>1. h \in Down(ns, h)
      BY <2>1 DEF Down, Under
    <3>2. ASSUME NEW x \in Down(ns, h), ~ns[x].leaf PROVE Head(ns[x].items) \in Down(ns, h)
      <4>1. x \in DOMAIN ns
        BY DEF Down
      <4>2. Head(ns[x].items) \in DOMAIN ns
        BY <3>2, <4>1, HeadIs
      <4>3. ASSUME NEW T \in SUBSET DOMAIN ns, Under(ns, h, T) PROVE Head(ns[x].items) \in T
        <5>1. x \in T
          BY <4>3 DEF Down
        <5> QED BY <3>2, <4>3, <5>1 DEF Under
      <4> QED BY <4>2, <4>3 DEF Down
    <3> QED BY <3>1, <3>2 DEF Under
  <2>5. Under(ns, n, {n} \cup Down(ns, h))
    BY <2>4 DEF Under, h
  <2>6. {n} \cup Down(ns, h) \in SUBSET DOMAIN ns
    BY DEF Down
  <2>7. Down(ns, n) \subseteq {n} \cup Down(ns, h)
    BY <2>5, <2>6 DEF Down
  <2>8. Down(ns, n) = {n} \cup Down(ns, h)
    BY <1>1, <2>3, <2>7
  <2> QED BY <1>3, <2>8 DEF h
<1> QED BY <1>2, <1>3

\* So the function Spine chooses exists.
LEMMA SpineExists ==
    ASSUME NEW ns, ArenaInv(ns)
    PROVE  \E f : IsSpine(f, ns)
<1> DEFINE f == [n \in DOMAIN ns |-> Down(ns, n)]
<1>1. ASSUME NEW n \in DOMAIN ns PROVE f[n] = {n} \cup (IF ns[n].leaf THEN {} ELSE f[Head(ns[n].items)])
  <2>1. f[n] = {n} \cup (IF ns[n].leaf THEN {} ELSE Down(ns, Head(ns[n].items)))
    BY DownStep
  <2>2. ~ns[n].leaf => f[Head(ns[n].items)] = Down(ns, Head(ns[n].items))
    BY HeadIs
  <2> QED BY <2>1, <2>2
<1>2. f = [n \in DOMAIN ns |-> f[n]]
  OBVIOUS
<1> HIDE DEF f
<1>3. IsSpine(f, ns)
  BY <1>1, <1>2 DEF IsSpine
<1> QED BY <1>3

\* The only leaf with nothing to its left is node 1.
LEMMA FirstLeafIs ==
    ASSUME NEW ns, ArenaInv(ns), FirstIn(ns), NEW n \in DOMAIN ns, n \notin Rights(ns), ns[n].leaf
    PROVE  n = 1
<1> SUFFICES ASSUME n # 1 PROVE FALSE
  OBVIOUS
<1>1. n \in ChainFrom(ns, 1) /\ 1 \in DOMAIN ns
  BY DEF FirstIn, Leaves
<1> DEFINE T == {1} \cup (Rights(ns) \cap DOMAIN ns)
<1>2. T \in SUBSET DOMAIN ns /\ 1 \in T
  BY <1>1
<1>3. \A x \in T : ns[x].right \in T \cup {NoNode}
  BY <1>2, ArenaIs DEF Rights, Linked, NoNode
<1>4. n \notin T
  OBVIOUS
<1> HIDE DEF T
<1>5. ChainFrom(ns, 1) \subseteq T
  BY <1>1, <1>2, <1>3, ChainCloses
<1> QED BY <1>1, <1>4, <1>5

\* From a first node the spine stays in the arena and ends at node 1, by induction on the level.
LEMMA SpineIs ==
    ASSUME NEW ns, ArenaInv(ns), FirstIn(ns), NEW level, IsLevel(ns, level), NEW f, IsSpine(f, ns),
           NEW n \in DOMAIN ns, n \notin Rights(ns)
    PROVE  f[n] \subseteq DOMAIN ns /\ {l \in f[n] : ns[l].leaf} = {1}
<1> DEFINE K == {k \in Nat : \A m \in DOMAIN ns : level[m] = k /\ m \notin Rights(ns) =>
                     f[m] \subseteq DOMAIN ns /\ {l \in f[m] : ns[l].leaf} = {1}}
<1>0. \A m \in DOMAIN ns : f[m] = {m} \cup (IF ns[m].leaf THEN {} ELSE f[Head(ns[m].items)])
  BY DEF IsSpine
<1>1. 0 \in K
  <2> SUFFICES ASSUME NEW m \in DOMAIN ns, level[m] = 0, m \notin Rights(ns)
               PROVE  f[m] \subseteq DOMAIN ns /\ {l \in f[m] : ns[l].leaf} = {1}
    OBVIOUS
  <2>1. ns[m].leaf
    BY DEF IsLevel
  <2>2. m = 1 /\ f[m] = {m}
    BY <1>0, <2>1, FirstLeafIs
  <2> QED BY <2>1, <2>2
<1>2. ASSUME NEW k \in Nat, k \in K PROVE k + 1 \in K
  <2> SUFFICES ASSUME NEW m \in DOMAIN ns, level[m] = k + 1, m \notin Rights(ns)
               PROVE  f[m] \subseteq DOMAIN ns /\ {l \in f[m] : ns[l].leaf} = {1}
    OBVIOUS
  <2>1. ~ns[m].leaf
    BY DEF IsLevel
  <2>2. 1 \in DOMAIN ns[m].items /\ Head(ns[m].items) = ns[m].items[1] /\ Head(ns[m].items) \in DOMAIN ns
    BY <2>1, HeadIs
  <2>3. PICK h \in DOMAIN ns : h = Head(ns[m].items)
    BY <2>2
  <2>4. level[h] \in Nat /\ level[h] + 1 = level[m]
    BY <2>1, <2>2, <2>3 DEF IsLevel
  <2>5. level[h] = k
    BY <2>4
  <2>6. h \notin Rights(ns)
    BY <2>1, <2>3 DEF FirstIn, Leftmost
  <2>7. f[h] \subseteq DOMAIN ns /\ {l \in f[h] : ns[l].leaf} = {1}
    BY <1>2, <2>5, <2>6
  <2>8. f[m] = {m} \cup f[h]
    BY <1>0, <2>1, <2>3
  <2> QED BY <2>1, <2>7, <2>8
<1>3. PICK k \in Nat : k = level[n]
  BY DEF IsLevel
<1> HIDE DEF K
<1>4. k \in 0..k /\ 0..k \subseteq K
  <2>1. \A j \in 0..(k - 1) : j \in K => j + 1 \in K
    BY <1>2
  <2> QED BY <1>1, <2>1, Induction
<1>5. k \in K
  BY <1>4
<1> QED BY <1>3, <1>5 DEF K

(* The first nodes are nodes of the arena, and the one of them that is a leaf is node 1. *)
LEMMA TreeSpine ==
    ASSUME NEW ns, ArenaInv(ns), FirstIn(ns), NEW level, IsLevel(ns, level), NEW r \in DOMAIN ns, r \notin Rights(ns)
    PROVE  Spine(Tree(ns, r)) \subseteq DOMAIN ns /\ {l \in Spine(Tree(ns, r)) : ns[l].leaf} = {1}
<1> DEFINE f == CHOOSE f : IsSpine(f, ns)
<1>1. IsSpine(f, ns)
  BY SpineExists
<1>2. Spine(Tree(ns, r)) = f[r]
  BY DEF Spine, Tree, IsSpine
<1> HIDE DEF f
<1>3. f[r] \subseteq DOMAIN ns /\ {l \in f[r] : ns[l].leaf} = {1}
  BY <1>1, SpineIs
<1> QED BY <1>2, <1>3

\* All leaves are to the right of node 1, and only leaves.
LEMMA FirstChain ==
    ASSUME NEW ns, ArenaInv(ns), FirstIn(ns), NEW level, IsLevel(ns, level)
    PROVE  ChainFrom(ns, 1) = Leaves(ns)
<1>1. 1 \in DOMAIN ns /\ ns[1].leaf /\ Leaves(ns) \subseteq ChainFrom(ns, 1)
  BY DEF FirstIn, Leaves
<1>2. \A x \in ChainFrom(ns, 1) : x \in DOMAIN ns /\ level[x] = level[1]
  BY <1>1, ChainLevel
<1>3. \A x \in ChainFrom(ns, 1) : x \in Leaves(ns)
  BY <1>1, <1>2 DEF IsLevel, Leaves
<1> QED BY <1>1, <1>3

\* What a walk over the tree's leaves finds is what the leaves of the arena hold: no leaf is cut off.
LEMMA TreeHolds ==
    ASSUME NEW ns, ArenaInv(ns), FirstIn(ns), NEW level, IsLevel(ns, level), NEW r \in DOMAIN ns, r \notin Rights(ns)
    PROVE  PairsOf(Tree(ns, r)) = Held(ns)
<1> DEFINE S == {l \in Spine(Tree(ns, r)) : ns[l].leaf}
<1>1. Tree(ns, r).ns = ns
  BY DEF Tree
<1>2. PairsOf(Tree(ns, r)) = UNION {PairsIn(ns[n]) : n \in UNION {ChainFrom(ns, m) : m \in S}}
  BY <1>1 DEF PairsOf
<1>3. S = {1}
  BY TreeSpine
<1> HIDE DEF S
<1>4. UNION {ChainFrom(ns, m) : m \in S} = Leaves(ns)
  BY <1>3, FirstChain
<1> QED BY <1>2, <1>4 DEF Held

(* What a step does to an arena: it stays good, and only node n changes but for its hint. *)

\* The part of the invariant that only looks at the arena.
Good(ns) == ArenaInv(ns) /\ OneParent(ns) /\ HintsFit(ns) /\ FirstIn(ns)

\* Only n, and hints, differ.
Others(ns, ms, n) ==
    \A x \in DOMAIN ns : x # n => /\ ms[x].leaf = ns[x].leaf /\ ms[x].keys = ns[x].keys /\ ms[x].items = ns[x].items
                                  /\ ms[x].right = ns[x].right /\ ms[x].high = ns[x].high

\* S: the nodes that become children.
Change(ns, ms, n, S) ==
    /\ Good(ms) /\ Len(ms) >= Len(ns) /\ Keeps(ns, ms) /\ RightsKept(ns, ms) /\ Others(ns, ms, n)
    /\ \A c : IsChild(ms, c) => IsChild(ns, c) \/ c \in S

\* ms has levels that agree with those of ns.
Leveled(ns, ms, level) == \E l : IsLevel(ms, l) /\ \A x \in DOMAIN ns : l[x] = level[x]

\* Two changes are one, with the children of both.
LEMMA ChangeTransitive ==
    ASSUME NEW ns, NEW ms, NEW os, NEW n, NEW S, NEW T, ArenaInv(ns), Change(ns, ms, n, S), Change(ms, os, n, T)
    PROVE  Change(ns, os, n, S \cup T)
<1>1. Good(os) /\ Len(os) >= Len(ns)
  <2>1. Len(ns) \in Nat /\ Len(ms) \in Nat /\ Len(os) \in Nat
    BY ArenaIs DEF Change, Good
  <2> QED BY <2>1 DEF Change
<1>2. DOMAIN ns \subseteq DOMAIN ms /\ Keeps(ns, os)
  BY KeepsTransitive DEF Change, Keeps
<1>3. RightsKept(ns, os)
  BY <1>2 DEF Change, RightsKept
<1>4. Others(ns, os, n)
  BY <1>2 DEF Change, Others
<1>5. \A c : IsChild(os, c) => IsChild(ns, c) \/ c \in S \cup T
  BY DEF Change
<1> QED BY <1>1, <1>2, <1>3, <1>4, <1>5 DEF Change

\* Levels carry over two changes.
LEMMA LeveledTransitive ==
    ASSUME NEW ns, NEW ms, NEW os, NEW level, DOMAIN ns \subseteq DOMAIN ms, Leveled(ns, ms, level),
           \A l : IsLevel(ms, l) /\ (\A x \in DOMAIN ns : l[x] = level[x]) => Leveled(ms, os, l)
    PROVE  Leveled(ns, os, level)
BY DEF Leveled

\* Setting hints that lead to parents is a change.
LEMMA HintsChange ==
    ASSUME NEW ns, NEW ms, NEW cs, NEW h \in DOMAIN ns, NEW n, Good(ns), HintsOnly(ns, ms, cs, h),
           \A c \in cs : Below(ns, h, c)
    PROVE  /\ Change(ns, ms, n, {}) /\ Held(ms) = Held(ns)
           /\ \A level : IsLevel(ns, level) => Leveled(ns, ms, level)
<1>1. ArenaInv(ns) /\ OneParent(ns) /\ HintsFit(ns) /\ FirstIn(ns)
  BY DEF Good
<1>2. Len(ns) \in Nat /\ DOMAIN ns = 1..Len(ns) /\ h \in 0..Len(ns)
  BY <1>1, ArenaIs
<1>3. ArenaInv(ms)
  BY <1>1, <1>2, HintsArena
<1>4. Keeps(ns, ms) /\ \A c : IsChild(ms, c) => IsChild(ns, c)
  BY <1>1, <1>3, HintsKeep
<1>5. OneParent(ms)
  BY <1>1, HintsDistinct DEF OneParent
<1>6. HintsFit(ms)
  BY <1>1, <1>3, HintsSet
<1>7. FirstIn(ms) /\ RightsKept(ns, ms)
  BY <1>1, <1>3, HintsFirst
<1>8. Others(ns, ms, n) /\ Len(ms) = Len(ns)
  BY DEF HintsOnly, Others
<1>9. ASSUME NEW level, IsLevel(ns, level) PROVE Leveled(ns, ms, level)
  BY <1>9, HintsLevel DEF Leveled
<1>10. Held(ms) = Held(ns)
  BY HintsHeld
<1>11. Change(ns, ms, n, {})
  BY <1>2, <1>3, <1>4, <1>5, <1>6, <1>7, <1>8 DEF Change, Good
<1> QED BY <1>9, <1>10, <1>11

\* A split is a change that adds no child and no pair.
LEMMA HalvedChange ==
    ASSUME NEW ns, NEW ms, NEW n \in DOMAIN ns, NEW g \in Nat, Good(ns), Halved(ns, ms, n, g), g \in 1..Len(ns[n].keys)
    PROVE  /\ Change(ns, ms, n, {}) /\ Held(ms) = Held(ns)
           /\ \A level : IsLevel(ns, level) => Leveled(ns, ms, level)
<1>1. ArenaInv(ns) /\ OneParent(ns) /\ HintsFit(ns) /\ FirstIn(ns)
  BY DEF Good
<1>2. Len(ns) \in Nat /\ DOMAIN ns = 1..Len(ns)
  BY <1>1, ArenaIs
<1>3. g \in 1..Len(ns[n].items)
  <2>1. ns[n] \in Node /\ NodeInv(ns, n)
    BY <1>1, ArenaIs
  <2>2. Len(ns[n].keys) \in Nat /\ Len(ns[n].items) = Len(ns[n].keys) + Extra(ns[n]) /\ Extra(ns[n]) \in Nat
    BY <2>1, NodeIs DEF NodeInv, Extra
  <2> QED BY <2>2
<1>4. ArenaInv(ms)
  BY <1>1, HalvedArena
<1>5. Keeps(ns, ms) /\ \A c : IsChild(ms, c) => IsChild(ns, c)
  BY <1>1, <1>3, <1>4, HalvedKeep
<1>6. OneParent(ms)
  BY <1>1, <1>3, <1>4, HalvedDistinct DEF OneParent
<1>7. HintsFit(ms)
  <2>1. \A x \in DOMAIN ns : ms[x].hint = ns[x].hint
    BY DEF Halved
  <2>2. \A x \in DOMAIN ms \ DOMAIN ns : ms[x].hint = NoNode
    BY <1>2 DEF Halved
  <2> QED BY <1>1, <1>5, <2>1, <2>2, HintsStay
<1>8. FirstIn(ms) /\ RightsKept(ns, ms)
  BY <1>1, <1>3, <1>4, HalvedFirst
<1>9. Others(ns, ms, n) /\ Len(ms) >= Len(ns)
  BY <1>2 DEF Halved, Others
<1>10. ASSUME NEW level, IsLevel(ns, level) PROVE Leveled(ns, ms, level)
  <2> DEFINE l == [x \in DOMAIN ms |-> IF x \in DOMAIN ns THEN level[x] ELSE level[n]]
  <2>1. IsLevel(ms, l)
    BY <1>1, <1>3, <1>4, <1>10, HalvedLevel
  <2>2. \A x \in DOMAIN ns : l[x] = level[x]
    BY <1>5 DEF Keeps
  <2> HIDE DEF l
  <2> QED BY <2>1, <2>2 DEF Leveled
<1>11. Held(ms) = Held(ns)
  BY <1>1, <1>4, HalvedHeld
<1>12. Change(ns, ms, n, {})
  BY <1>4, <1>5, <1>6, <1>7, <1>8, <1>9 DEF Change, Good
<1> QED BY <1>10, <1>11, <1>12

\* Putting an entry into a leaf, or a child into a node behind its first, is a change.
LEMMA EnlargedChange ==
    ASSUME NEW ns, NEW ms, NEW n \in DOMAIN ns, NEW p, NEW k, NEW q, NEW e, Good(ns), Enlarged(ns, ms, n, p, k, q, e),
           e \in (IF ns[n].leaf THEN Ids ELSE DOMAIN ns), ns[n].leaf \/ (q # 1 /\ ~IsChild(ns, e))
    PROVE  /\ Change(ns, ms, n, IF ns[n].leaf THEN {} ELSE {e})
           /\ ~ns[n].leaf => HasChild(ms[n], e)
           /\ \A level : IsLevel(ns, level) /\ (ns[n].leaf \/ level[e] + 1 = level[n]) => Leveled(ns, ms, level)
<1>1. ArenaInv(ns) /\ OneParent(ns) /\ HintsFit(ns) /\ FirstIn(ns)
  BY DEF Good
<1>2. Len(ns) \in Nat /\ DOMAIN ns = 1..Len(ns)
  BY <1>1, ArenaIs
<1>3. ArenaInv(ms)
  BY <1>1, EnlargedArena
<1>4. /\ Keeps(ns, ms) /\ \A c : IsChild(ms, c) => IsChild(ns, c) \/ (~ns[n].leaf /\ c = e)
      /\ ~ns[n].leaf => HasChild(ms[n], e)
  BY <1>1, <1>3, EnlargedKeep
<1>5. OneParent(ms)
  <2>1. CASE ns[n].leaf
    BY <1>1, <1>3, <2>1, EnlargedDistinct DEF OneParent
  <2>2. CASE ~ns[n].leaf
    <3>1. \A x \in DOMAIN ns : ~ns[x].leaf => \A i \in DOMAIN ns[x].items : ns[x].items[i] # e
      BY <2>2, HasChildIs DEF IsChild
    <3> QED BY <1>1, <1>3, <3>1, EnlargedDistinct DEF OneParent
  <2> QED BY <2>1, <2>2
<1>6. HintsFit(ms)
  <2>1. \A x \in DOMAIN ns : ms[x].hint = ns[x].hint
    BY DEF Enlarged
  <2>2. DOMAIN ms = DOMAIN ns
    BY DEF Enlarged
  <2> QED BY <1>1, <1>4, <2>1, <2>2, HintsStay
<1>7. FirstIn(ms) /\ RightsKept(ns, ms)
  BY <1>1, <1>3, EnlargedFirst
<1>8. Others(ns, ms, n) /\ Len(ms) = Len(ns)
  BY DEF Enlarged, Others
<1>9. ASSUME NEW level, IsLevel(ns, level), ns[n].leaf \/ level[e] + 1 = level[n] PROVE Leveled(ns, ms, level)
  BY <1>1, <1>3, <1>9, EnlargedLevel DEF Leveled
<1>10. Change(ns, ms, n, IF ns[n].leaf THEN {} ELSE {e})
  BY <1>2, <1>3, <1>4, <1>5, <1>6, <1>7, <1>8 DEF Change, Good
<1> QED BY <1>4, <1>9, <1>10

\* A new root over the first node of its level is a change that makes children of both halves.
LEMMA RootChange ==
    ASSUME NEW ns, NEW ms, NEW c \in DOMAIN ns, NEW r \in DOMAIN ns, NEW sep, NEW n, Good(ns), RootGrown(ns, ms, c, r, sep),
           ~IsChild(ns, c), ~IsChild(ns, r), c # r, c \notin Rights(ns)
    PROVE  /\ Change(ns, ms, n, {c, r}) /\ Held(ms) = Held(ns) /\ Len(ns) + 1 \notin Rights(ms)
           /\ HasChild(ms[Len(ns) + 1], c) /\ HasChild(ms[Len(ns) + 1], r)
           /\ \A level : IsLevel(ns, level) /\ level[c] = level[r] => Leveled(ns, ms, level)
<1>1. ArenaInv(ns) /\ OneParent(ns) /\ HintsFit(ns) /\ FirstIn(ns)
  BY DEF Good
<1>2. Len(ns) \in Nat /\ DOMAIN ns = 1..Len(ns)
  BY <1>1, ArenaIs
<1>3. ArenaInv(ms)
  BY <1>1, RootArena
<1>4. /\ Keeps(ns, ms) /\ \A x : IsChild(ms, x) => IsChild(ns, x) \/ x \in {c, r}
      /\ HasChild(ms[Len(ns) + 1], c) /\ HasChild(ms[Len(ns) + 1], r)
  BY <1>1, <1>3, RootKeep
<1>5. OneParent(ms)
  BY <1>1, RootOneParent
<1>6. HintsFit(ms)
  <2>1. \A x \in DOMAIN ns : ms[x].hint = ns[x].hint
    BY DEF RootGrown
  <2>2. \A x \in DOMAIN ms \ DOMAIN ns : ms[x].hint = NoNode
    BY <1>2 DEF RootGrown
  <2> QED BY <1>1, <1>4, <2>1, <2>2, HintsStay
<1>7. FirstIn(ms) /\ RightsKept(ns, ms) /\ Len(ns) + 1 \notin Rights(ms)
  BY <1>1, <1>3, RootFirst
<1>8. Others(ns, ms, n) /\ Len(ms) >= Len(ns)
  BY <1>2 DEF RootGrown, Others
<1>9. ASSUME NEW level, IsLevel(ns, level), level[c] = level[r] PROVE Leveled(ns, ms, level)
  <2> DEFINE l == [x \in DOMAIN ms |-> IF x \in DOMAIN ns THEN level[x] ELSE level[c] + 1]
  <2>1. IsLevel(ms, l)
    BY <1>1, <1>9, RootLevel
  <2>2. \A x \in DOMAIN ns : l[x] = level[x]
    BY <1>4 DEF Keeps
  <2> HIDE DEF l
  <2> QED BY <2>1, <2>2 DEF Leveled
<1>10. Held(ms) = Held(ns)
  BY <1>1, RootHeld
<1>11. Change(ns, ms, n, {c, r})
  BY <1>3, <1>4, <1>5, <1>6, <1>7, <1>8 DEF Change, Good
<1> QED BY <1>4, <1>7, <1>9, <1>10, <1>11

(* The parts of insert() that change the arena: an entry joins a leaf, a child joins its parent,
   a full node splits. *)

\* The arena with <<k, e>> put into leaf n.
WithEntry(ns, n, k, e)    == [ns EXCEPT ![n] = PutEntry(ns[n], k, e)]
\* The arena with r spliced into p behind c, and told of it.
WithChild(ns, p, c, s, r) == SetHints([ns EXCEPT ![p] = PutChild(ns[p], c, s, r)], {r}, p)

\* Integer halves.
LEMMA HalfOf ==
    ASSUME NEW n \in Nat
    PROVE  \E m \in Nat : m = n \div 2 /\ 2 * m <= n /\ n <= 2 * m + 1
<1>1. n \div 2 \in Int /\ 2 * (n \div 2) <= n /\ n <= 2 * (n \div 2) + 1
  OBVIOUS
<1> QED BY <1>1

\* A full leaf is halved so that both halves have entries.
LEMMA LeafHalves ==
    ASSUME NEW ns, ArenaInv(ns), NEW n \in DOMAIN ns, ns[n].leaf, Overfull(ns[n]), NEW ms, ms = SplitLeaf(ns, n)
    PROVE  \E g \in Nat : g \in 1..Len(ns[n].keys) /\ Halved(ns, ms, n, g)
<1>1. PICK L \in Nat : L = Len(ns[n].keys)
  BY ArenaIs, NodeIs
<1>2. L > 2
  BY <1>1, BTreeAssumption DEF Overfull
<1>3. PICK m \in Nat : m = (L + 1) \div 2 /\ 2 * m <= L + 1 /\ L + 1 <= 2 * m + 1
  <2>1. L + 1 \in Nat
    BY <1>1
  <2> QED BY <2>1, HalfOf
<1>4. m \in Nat \ {0} /\ m + 1 \in Nat /\ (m + 1) - 1 = m + 0 /\ (m + 1) - 1 <= L /\ m \in 1..L /\ (m + 1) - 1 = m
  BY <1>2, <1>3
<1>5. Extra(ns[n]) = 0
  BY DEF Extra
<1>6. ms = Halves(ns, n, m, m + 1)
  BY <1>1, <1>3 DEF SplitLeaf
<1>7. Halved(ns, ms, n, (m + 1) - 1)
  BY <1>1, <1>4, <1>5, <1>6, HalvesIs
<1>8. Halved(ns, ms, n, m)
  BY <1>4, <1>7
<1> QED BY <1>1, <1>4, <1>8

\* So is a full internal node, whose middle key becomes the left half's bound.
LEMMA InternalHalves ==
    ASSUME NEW ns, ArenaInv(ns), NEW n \in DOMAIN ns, ~ns[n].leaf, Overfull(ns[n]), NEW ms, ms = SplitInternal(ns, n)
    PROVE  \E g \in Nat : g \in 1..Len(ns[n].keys) /\ Halved(ns, ms, n, g)
<1>1. PICK L \in Nat : L = Len(ns[n].keys)
  BY ArenaIs, NodeIs
<1>2. L > 2
  BY <1>1, BTreeAssumption DEF Overfull
<1>3. PICK m \in Nat : m = L \div 2 /\ 2 * m <= L /\ L <= 2 * m + 1
  BY HalfOf
<1>4. m \in Nat \ {0} /\ m + 2 \in Nat /\ (m + 2) - 1 = m + 1 /\ (m + 2) - 1 <= L /\ m + 1 \in Nat /\ m + 1 \in 1..L
  BY <1>2, <1>3
<1>5. Extra(ns[n]) = 1
  BY DEF Extra
<1>6. ms = Halves(ns, n, m, m + 2)
  BY <1>1, <1>3 DEF SplitInternal
<1>7. Halved(ns, ms, n, (m + 2) - 1)
  BY <1>1, <1>4, <1>5, <1>6, HalvesIs
<1>8. Halved(ns, ms, n, m + 1)
  BY <1>4, <1>7
<1> QED BY <1>1, <1>4, <1>8

\* split_leaf_: a change that leaves the pairs, and a separator for the parent.
LEMMA SplitLeafIs ==
    ASSUME NEW ns, Good(ns), NEW n \in DOMAIN ns, ns[n].leaf, Overfull(ns[n]), NEW ms, ms = SplitLeaf(ns, n)
    PROVE  /\ Change(ns, ms, n, {}) /\ Held(ms) = Held(ns)
           /\ \A level : IsLevel(ns, level) => Leveled(ns, ms, level)
           /\ Len(ms) = Len(ns) + 1 /\ ms[n].right = Len(ns) + 1 /\ ms[n].high \in Keys
<1>1. PICK g \in Nat : g \in 1..Len(ns[n].keys) /\ Halved(ns, ms, n, g)
  BY LeafHalves DEF Good
<1>2. /\ Change(ns, ms, n, {}) /\ Held(ms) = Held(ns)
      /\ \A level : IsLevel(ns, level) => Leveled(ns, ms, level)
  BY <1>1, HalvedChange
<1>3. Len(ms) = Len(ns) + 1 /\ ms[n].right = Len(ns) + 1 /\ ms[n].high \in Keys
  BY <1>1 DEF Halved
<1> QED BY <1>2, <1>3

\* split_internal_, before it tells the children that moved.
LEMMA SplitInternalIs ==
    ASSUME NEW ns, Good(ns), NEW n \in DOMAIN ns, ~ns[n].leaf, Overfull(ns[n]), NEW ms, ms = SplitInternal(ns, n)
    PROVE  /\ Change(ns, ms, n, {}) /\ Held(ms) = Held(ns)
           /\ \A level : IsLevel(ns, level) => Leveled(ns, ms, level)
           /\ Len(ms) = Len(ns) + 1 /\ ms[n].right = Len(ns) + 1 /\ ms[n].high \in Keys
           /\ ~ms[n].leaf /\ ~ms[Len(ns) + 1].leaf /\ 1 \in DOMAIN ms[Len(ns) + 1].items
<1>1. PICK g \in Nat : g \in 1..Len(ns[n].keys) /\ Halved(ns, ms, n, g)
  BY InternalHalves DEF Good
<1>2. /\ Change(ns, ms, n, {}) /\ Held(ms) = Held(ns)
      /\ \A level : IsLevel(ns, level) => Leveled(ns, ms, level)
  BY <1>1, HalvedChange
<1>3. /\ Len(ms) = Len(ns) + 1 /\ ms[n].right = Len(ns) + 1 /\ ms[n].high \in Keys
      /\ ~ms[n].leaf /\ ~ms[Len(ns) + 1].leaf
  BY <1>1 DEF Halved
<1>4. 1 \in DOMAIN ms[Len(ns) + 1].items
  <2>1. ArenaInv(ms) /\ Len(ns) + 1 \in DOMAIN ms
    BY <1>2, <1>3, ArenaIs DEF Change, Good
  <2> QED BY <1>3, <2>1, HeadIs
<1> QED BY <1>2, <1>3, <1>4

\* An entry joins a leaf at the lower bound of its key.
LEMMA EntryEnlarges ==
    ASSUME NEW ns, ArenaInv(ns), NEW n \in DOMAIN ns, ns[n].leaf, NEW k \in Keys, NEW e \in Ids,
           NEW ms, ms = WithEntry(ns, n, k, e)
    PROVE  \E p : p = LowerBound(ns[n].keys, k) /\ Enlarged(ns, ms, n, p, k, p, e)
<1>1. PICK L \in Nat : L = Len(ns[n].keys) /\ Len(ns[n].items) = L
  BY LeafIs
<1>2. PICK p \in 1..(L + 1) : p = LowerBound(ns[n].keys, k)
  BY <1>1, LowerBoundInRange
<1>3. e \in Nat
  BY DEF Ids
<1>4. ms = [ns EXCEPT ![n] = [ns[n] EXCEPT !.keys = InsertAt(ns[n].keys, p, k), !.items = InsertAt(ns[n].items, p, e)]]
  BY <1>2 DEF PutEntry, WithEntry
<1>5. p \in 1..(Len(ns[n].keys) + 1) /\ p \in 1..(Len(ns[n].items) + 1)
  BY <1>1
<1>6. Enlarged(ns, ms, n, p, k, p, e)
  BY ONLY ArenaInv(ns), <1>3, <1>4, <1>5, n \in DOMAIN ns, k \in Keys, EnlargedIs
<1> QED BY <1>2, <1>6

\* The insert into a leaf adds one pair.
LEMMA EntryPut ==
    ASSUME NEW ns, Good(ns), NEW n \in DOMAIN ns, ns[n].leaf, NEW k \in Keys, NEW e \in Ids,
           NEW ms, ms = WithEntry(ns, n, k, e)
    PROVE  /\ Change(ns, ms, n, {}) /\ Held(ms) = Held(ns) \cup {<<k, e>>}
           /\ \A level : IsLevel(ns, level) => Leveled(ns, ms, level)
           /\ Len(ms) = Len(ns) /\ ms[n].leaf
<1>1. ArenaInv(ns)
  BY DEF Good
<1>2. PICK p : Enlarged(ns, ms, n, p, k, p, e)
  BY <1>1, EntryEnlarges
<1>3. /\ Change(ns, ms, n, IF ns[n].leaf THEN {} ELSE {e})
      /\ \A level : IsLevel(ns, level) => Leveled(ns, ms, level)
  BY <1>2, EnlargedChange
<1>4. Change(ns, ms, n, {})
  BY <1>3
<1>5. Held(ms) = Held(ns) \cup {<<k, e>>}
  BY <1>1, <1>2, <1>4, EnlargedHeld DEF Change, Good
<1>6. Len(ms) = Len(ns) /\ ms[n].leaf
  BY <1>2 DEF Enlarged
<1> QED BY <1>3, <1>4, <1>5, <1>6

\* So it does if the leaf is then split.
LEMMA EntryPutSplit ==
    ASSUME NEW ns, Good(ns), NEW n \in DOMAIN ns, ns[n].leaf, NEW k \in Keys, NEW e \in Ids,
           NEW es, es = WithEntry(ns, n, k, e), Overfull(es[n]), NEW ms, ms = SplitLeaf(es, n)
    PROVE  /\ Change(ns, ms, n, {}) /\ Held(ms) = Held(ns) \cup {<<k, e>>}
           /\ \A level : IsLevel(ns, level) => Leveled(ns, ms, level)
           /\ Len(ms) = Len(ns) + 1 /\ ms[n].right = Len(ns) + 1 /\ ms[n].high \in Keys
<1>1. /\ Change(ns, es, n, {}) /\ Held(es) = Held(ns) \cup {<<k, e>>}
      /\ \A level : IsLevel(ns, level) => Leveled(ns, es, level)
      /\ Len(es) = Len(ns) /\ es[n].leaf
  BY EntryPut
<1>2. Good(es) /\ n \in DOMAIN es /\ DOMAIN ns \subseteq DOMAIN es
  BY <1>1 DEF Change, Keeps
<1>3. /\ Change(es, ms, n, {}) /\ Held(ms) = Held(es)
      /\ \A level : IsLevel(es, level) => Leveled(es, ms, level)
      /\ Len(ms) = Len(es) + 1 /\ ms[n].right = Len(es) + 1 /\ ms[n].high \in Keys
  BY <1>1, <1>2, SplitLeafIs
<1>4. Change(ns, ms, n, {} \cup {})
  BY <1>1, <1>3, ChangeTransitive DEF Good
<1>5. {} \cup {} = {}
  OBVIOUS
<1>6. Change(ns, ms, n, {})
  BY <1>4, <1>5
<1>7. ASSUME NEW level, IsLevel(ns, level) PROVE Leveled(ns, ms, level)
  BY <1>1, <1>2, <1>3, <1>7, LeveledTransitive
<1> QED BY <1>1, <1>3, <1>6, <1>7

\* A right half joins a parent behind its left half, the separator in front of it.
LEMMA ChildEnlarges ==
    ASSUME NEW ns, ArenaInv(ns), NEW p \in DOMAIN ns, NEW c, HasChild(ns[p], c), NEW r \in DOMAIN ns,
           NEW sep \in Keys, NEW es, es = [ns EXCEPT ![p] = PutChild(ns[p], c, sep, r)]
    PROVE  \E i, q \in Nat : /\ i \in DOMAIN ns[p].items /\ ns[p].items[i] = c /\ q = i + 1
                             /\ Enlarged(ns, es, p, i, sep, q, r)
<1>1. ~ns[p].leaf /\ DOMAIN ns = 1..Len(ns) /\ Len(ns) \in Nat
  BY ArenaIs DEF HasChild
<1>2. PICK L \in Nat : L = Len(ns[p].keys) /\ Len(ns[p].items) = L + 1 /\ DOMAIN ns[p].items = 1..(L + 1)
  <2>1. ns[p] \in Node /\ NodeInv(ns, p)
    BY ArenaIs
  <2>2. Extra(ns[p]) = 1
    BY <1>1 DEF Extra
  <2>3. Len(ns[p].keys) \in Nat /\ DOMAIN ns[p].items = 1..Len(ns[p].items)
    BY <2>1, NodeIs
  <2>4. Len(ns[p].items) = Len(ns[p].keys) + Extra(ns[p])
    BY <2>1 DEF NodeInv
  <2> QED BY <2>2, <2>3, <2>4
<1>3. PICK i \in 1..(L + 1) : i = Position(ns[p], c) /\ ns[p].items[i] = c
  <2>1. L + 1 \in Nat
    BY <1>2
  <2>2. Position(ns[p], c) \in 1..(L + 1) /\ ns[p].items[Position(ns[p], c)] = c
    BY ONLY <1>2, <2>1, HasChild(ns[p], c), PositionOf
  <2> QED BY <2>2
<1>4. PICK q \in 1..(L + 2) : q = i + 1
  BY <1>3
<1>5. es = [ns EXCEPT ![p] = [ns[p] EXCEPT !.keys = InsertAt(ns[p].keys, i, sep), !.items = InsertAt(ns[p].items, q, r)]]
  BY <1>3, <1>4 DEF PutChild
<1>6. Enlarged(ns, es, p, i, sep, q, r)
  <2>1. r \in Nat
    BY <1>1
  <2>2. i \in 1..(Len(ns[p].keys) + 1) /\ q \in 1..(Len(ns[p].items) + 1)
    BY <1>2, <1>3, <1>4
  <2> QED BY ONLY ArenaInv(ns), p \in DOMAIN ns, sep \in Keys, <1>5, <2>1, <2>2, EnlargedIs
<1>7. i \in Nat /\ q \in Nat /\ i \in DOMAIN ns[p].items
  BY <1>2
<1> QED BY <1>3, <1>4, <1>6, <1>7

\* The change by which r becomes a child of p, behind c on the same level.
ChildIn(ns, ms, p, c, r) ==
    /\ Change(ns, ms, p, {r}) /\ Held(ms) = Held(ns)
    /\ \A level : IsLevel(ns, level) /\ level[c] = level[r] => Leveled(ns, ms, level)

\* The splice of a new half into its parent is that change.
LEMMA ChildPut ==
    ASSUME NEW ns, Good(ns), NEW p \in DOMAIN ns, NEW c, HasChild(ns[p], c), NEW r \in DOMAIN ns, ~IsChild(ns, r),
           NEW sep \in Keys, NEW ms, ms = WithChild(ns, p, c, sep, r)
    PROVE  ChildIn(ns, ms, p, c, r) /\ Len(ms) = Len(ns) /\ ~ms[p].leaf
<1>1. ArenaInv(ns) /\ DOMAIN ns = 1..Len(ns) /\ Len(ns) \in Nat /\ ~ns[p].leaf
  BY ArenaIs DEF Good, HasChild
<1> DEFINE es == [ns EXCEPT ![p] = PutChild(ns[p], c, sep, r)]
<1>2. ms = SetHints(es, {r}, p)
  BY DEF WithChild
<1>3. \E i, q \in Nat : /\ i \in DOMAIN ns[p].items /\ ns[p].items[i] = c /\ q = i + 1
                        /\ Enlarged(ns, es, p, i, sep, q, r)
  BY ONLY <1>1, p \in DOMAIN ns, HasChild(ns[p], c), r \in DOMAIN ns, sep \in Keys, ChildEnlarges
<1> HIDE DEF es
<1>4. PICK i, q \in Nat : /\ i \in DOMAIN ns[p].items /\ ns[p].items[i] = c /\ q = i + 1
                         /\ Enlarged(ns, es, p, i, sep, q, r)
  BY <1>3
<1>5. q # 1
  <2>1. DOMAIN ns[p].items = 1..Len(ns[p].items)
    BY <1>1, ArenaIs, NodeIs
  <2> QED BY <1>4, <2>1
<1>6. /\ Change(ns, es, p, IF ns[p].leaf THEN {} ELSE {r}) /\ HasChild(es[p], r)
      /\ \A level : IsLevel(ns, level) /\ level[r] + 1 = level[p] => Leveled(ns, es, level)
  BY <1>1, <1>4, <1>5, EnlargedChange
<1>7. Change(ns, es, p, {r})
  BY <1>1, <1>6
<1>8. Good(es) /\ DOMAIN es = DOMAIN ns /\ Len(es) = Len(ns) /\ ~es[p].leaf
  BY <1>1, <1>4, <1>7 DEF Change, Enlarged
<1>9. Held(es) = Held(ns)
  BY <1>1, <1>4, <1>8, EnlargedHeld DEF Good
<1>10. Below(es, p, r)
  BY <1>6, <1>8, ChainCloses DEF Below, Good
<1>11. HintsOnly(es, ms, {r}, p)
  <2>1. es \in Seq(Node) /\ p \in Nat
    BY <1>1, <1>8 DEF Good, ArenaInv
  <2> QED BY <1>2, <2>1, SetHintsIs
<1>12. /\ Change(es, ms, p, {}) /\ Held(ms) = Held(es)
       /\ \A level : IsLevel(es, level) => Leveled(es, ms, level)
  BY <1>8, <1>10, <1>11, HintsChange
<1>13. Change(ns, ms, p, {r} \cup {}) /\ {r} \cup {} = {r}
  BY <1>1, <1>7, <1>12, ChangeTransitive
<1>14. Change(ns, ms, p, {r})
  BY <1>13
<1>15. ASSUME NEW level, IsLevel(ns, level), level[c] = level[r] PROVE Leveled(ns, ms, level)
  <2>1. level[c] + 1 = level[p]
    BY <1>1, <1>4, <1>15 DEF IsLevel
  <2>2. Leveled(ns, es, level)
    BY <1>6, <1>15, <2>1
  <2> QED BY <1>8, <1>12, <2>2, LeveledTransitive
<1>16. Len(ms) = Len(ns) /\ ~ms[p].leaf
  BY <1>8, <1>11 DEF HintsOnly
<1> QED BY <1>9, <1>12, <1>14, <1>15, <1>16 DEF ChildIn

\* So it is if the parent is then split.
LEMMA ChildPutSplit ==
    ASSUME NEW ns, Good(ns), NEW p \in DOMAIN ns, NEW c, HasChild(ns[p], c), NEW r \in DOMAIN ns, ~IsChild(ns, r),
           NEW sep \in Keys, NEW es, es = WithChild(ns, p, c, sep, r),
           Overfull(es[p]), NEW ms, ms = SplitInternal(es, p)
    PROVE  ChildIn(ns, ms, p, c, r) /\ Len(ms) = Len(ns) + 1 /\ ms[p].right = Len(ns) + 1 /\ ms[p].high \in Keys
           /\ ~ms[p].leaf /\ ~ms[Len(ns) + 1].leaf /\ 1 \in DOMAIN ms[Len(ns) + 1].items
<1>0. ChildIn(ns, es, p, c, r) /\ Len(es) = Len(ns) /\ ~es[p].leaf
  BY ONLY Good(ns), p \in DOMAIN ns, HasChild(ns[p], c), r \in DOMAIN ns, ~IsChild(ns, r), sep \in Keys,
          es = WithChild(ns, p, c, sep, r), ChildPut
<1>1. /\ Change(ns, es, p, {r}) /\ Held(es) = Held(ns)
      /\ \A level : IsLevel(ns, level) /\ level[c] = level[r] => Leveled(ns, es, level)
      /\ Len(es) = Len(ns) /\ ~es[p].leaf
  BY <1>0 DEF ChildIn
<1>2. Good(es) /\ p \in DOMAIN es /\ DOMAIN ns \subseteq DOMAIN es
  BY <1>1 DEF Change, Keeps
<1>3. /\ Change(es, ms, p, {}) /\ Held(ms) = Held(es)
      /\ \A level : IsLevel(es, level) => Leveled(es, ms, level)
      /\ Len(ms) = Len(es) + 1 /\ ms[p].right = Len(es) + 1 /\ ms[p].high \in Keys
      /\ ~ms[p].leaf /\ ~ms[Len(es) + 1].leaf /\ 1 \in DOMAIN ms[Len(es) + 1].items
  BY <1>1, <1>2, SplitInternalIs
<1>4. Change(ns, ms, p, {r} \cup {})
  BY <1>1, <1>3, ChangeTransitive DEF Good
<1>5. {r} \cup {} = {r}
  OBVIOUS
<1>6. Change(ns, ms, p, {r})
  BY <1>4, <1>5
<1>7. ASSUME NEW level, IsLevel(ns, level), level[c] = level[r] PROVE Leveled(ns, ms, level)
  BY <1>1, <1>2, <1>3, <1>7, LeveledTransitive
<1> QED BY <1>1, <1>3, <1>6, <1>7 DEF ChildIn

-----------------------------------------------------------------------------
(* Chains have no cycles and no branches. *)

\* Chains depend on the right links alone.
LEMMA SameChains ==
    ASSUME NEW ns, NEW ms, ArenaInv(ns), ArenaInv(ms), DOMAIN ms = DOMAIN ns,
           \A x \in DOMAIN ns : ms[x].right = ns[x].right
    PROVE  /\ \A x \in DOMAIN ns : ChainFrom(ms, x) = ChainFrom(ns, x)
           /\ Ends(ns) => Ends(ms)
<1>1. LinksKept(ns, ms) /\ LinksKept(ms, ns)
  BY DEF LinksKept
<1>2. ASSUME NEW x \in DOMAIN ns PROVE ChainFrom(ms, x) = ChainFrom(ns, x)
  <2>1. ChainFrom(ns, x) \subseteq ChainFrom(ms, x)
    BY <1>1, ChainGrows
  <2>2. ChainFrom(ms, x) \subseteq ChainFrom(ns, x)
    BY <1>1, ChainGrows
  <2> QED BY <2>1, <2>2
<1>3. ASSUME Ends(ns), NEW n \in DOMAIN ms PROVE \E x \in ChainFrom(ms, n) : ms[x].right = NoNode
  <2>1. PICK x \in ChainFrom(ns, n) : ns[x].right = NoNode
    BY <1>3 DEF Ends
  <2>2. x \in DOMAIN ns
    BY ChainCloses
  <2> QED BY <1>2, <2>1, <2>2
<1> QED BY <1>2, <1>3 DEF Ends

\* A chain has no branches: of two nodes to the right of a third, one is to the right of the other.
LEMMA ChainLinear ==
    ASSUME NEW ns, ArenaInv(ns), NEW n \in DOMAIN ns, NEW x \in ChainFrom(ns, n), NEW y \in ChainFrom(ns, n)
    PROVE  x \in ChainFrom(ns, y) \/ y \in ChainFrom(ns, x)
<1> DEFINE T == {z \in ChainFrom(ns, n) : \A w \in ChainFrom(ns, n) : w \in ChainFrom(ns, z) \/ z \in ChainFrom(ns, w)}
<1>1. n \in ChainFrom(ns, n) /\ ChainFrom(ns, n) \subseteq DOMAIN ns
  BY ChainCloses
<1>2. n \in T /\ T \in SUBSET DOMAIN ns
  BY <1>1
<1>3. ASSUME NEW z \in T PROVE ns[z].right \in T \cup {NoNode}
  <2> SUFFICES ASSUME ns[z].right # NoNode PROVE ns[z].right \in T
    OBVIOUS
  <2>1. z \in ChainFrom(ns, n) /\ z \in DOMAIN ns /\ ns[z].right \in ChainFrom(ns, n)
    BY <1>1, ChainCloses
  <2>2. ASSUME NEW w \in ChainFrom(ns, n) PROVE w \in ChainFrom(ns, ns[z].right) \/ ns[z].right \in ChainFrom(ns, w)
    <3>1. w \in DOMAIN ns /\ w \in ChainFrom(ns, w)
      BY <1>1, ChainCloses
    <3>2. CASE z \in ChainFrom(ns, w)
      BY <3>1, <3>2, ChainCloses
    <3>3. CASE w \in ChainFrom(ns, z) /\ w # z
      BY <2>1, <3>3, ChainStep
    <3>4. CASE w = z
      BY <3>1, <3>4, ChainCloses
    <3> QED BY <3>2, <3>3, <3>4
  <2> QED BY <2>1, <2>2
<1> HIDE DEF T
<1>4. ChainFrom(ns, n) \subseteq T
  BY <1>2, <1>3, ChainCloses
<1>5. x \in T
  BY <1>4
<1> QED BY <1>5 DEF T

\* Where every walk to the right ends, none comes back to where it began.
LEMMA ChainAcyclic ==
    ASSUME NEW ns, ArenaInv(ns), Ends(ns), NEW n \in DOMAIN ns, ns[n].right # NoNode
    PROVE  n \notin ChainFrom(ns, ns[n].right)
<1> SUFFICES ASSUME n \in ChainFrom(ns, ns[n].right) PROVE FALSE
  OBVIOUS
<1> DEFINE T == {z \in ChainFrom(ns, n) : n \in ChainFrom(ns, z)}
<1>1. n \in ChainFrom(ns, n) /\ ChainFrom(ns, n) \subseteq DOMAIN ns
  BY ChainCloses
<1>2. n \in T /\ T \in SUBSET DOMAIN ns
  BY <1>1
<1>3. ASSUME NEW z \in T PROVE ns[z].right \in T \cup {NoNode}
  <2> SUFFICES ASSUME ns[z].right # NoNode PROVE ns[z].right \in T
    OBVIOUS
  <2>1. z \in DOMAIN ns /\ n \in ChainFrom(ns, z) /\ ns[z].right \in ChainFrom(ns, n)
    BY <1>1, ChainCloses
  <2>2. n \in ChainFrom(ns, ns[z].right)
    BY <2>1, ChainStep
  <2> QED BY <2>1, <2>2
<1> HIDE DEF T
<1>4. ChainFrom(ns, n) \subseteq T
  BY <1>2, <1>3, ChainCloses
<1>5. PICK y \in ChainFrom(ns, n) : ns[y].right = NoNode
  BY DEF Ends
<1>6. y \in DOMAIN ns /\ n \in ChainFrom(ns, y) /\ n # y
  BY <1>1, <1>4, <1>5 DEF T
<1> QED BY <1>5, <1>6, ChainStep

-----------------------------------------------------------------------------
(* The low bounds of an arena: what they mean for a node. *)

\* Where one node ends the next one begins.
LEMMA LowAt ==
    ASSUME NEW ns, ArenaInv(ns), NEW low, LowIs(ns, low), NEW n \in DOMAIN ns
    PROVE  /\ low[n] \in Int /\ NodeLow(ns, low, n)
           /\ ns[n].right # NoNode => ns[n].right \in DOMAIN ns /\ low[ns[n].right] = ns[n].high
           /\ ns[n].high \in Nat
<1>1. ns[n].right # NoNode => ns[n].right \in DOMAIN ns
  BY ArenaIs DEF Linked, NoNode
<1>2. ns[n].high \in Nat
  <2>1. ns[n].high \in Keys \cup {Unbounded}
    BY ArenaIs, NodeIs
  <2> QED BY <2>1, KeysAre
<1> QED BY <1>1, <1>2 DEF LowIs, NodeLow

\* Leaves lead to leaves.
LEMMA LeafRight ==
    ASSUME NEW ns, ArenaInv(ns), NEW level, IsLevel(ns, level), NEW n \in DOMAIN ns, ns[n].right # NoNode
    PROVE  ns[ns[n].right].leaf <=> ns[n].leaf
<1>1. ns[n].right \in DOMAIN ns
  BY ArenaIs DEF Linked, NoNode
<1> QED BY <1>1 DEF IsLevel

\* The leaves to the right of a leaf begin at or behind its end.
LEMMA LowGrows ==
    ASSUME NEW ns, ArenaInv(ns), NEW level, IsLevel(ns, level), NEW low, LowIs(ns, low), NEW n \in DOMAIN ns, ns[n].leaf,
           ns[n].right # NoNode, NEW x \in ChainFrom(ns, ns[n].right)
    PROVE  x \in DOMAIN ns /\ ns[x].leaf /\ ns[n].high <= low[x]
<1> DEFINE T == {z \in DOMAIN ns : ns[z].leaf /\ ns[n].high <= low[z]}
<1>1. ns[n].right \in DOMAIN ns /\ low[ns[n].right] = ns[n].high /\ ns[n].high \in Nat
  BY LowAt
<1>2. ns[n].right \in T
  BY <1>1, LeafRight
<1>3. ASSUME NEW z \in T PROVE ns[z].right \in T \cup {NoNode}
  <2> SUFFICES ASSUME ns[z].right # NoNode PROVE ns[z].right \in T
    OBVIOUS
  <2>1. /\ low[z] \in Int /\ ns[z].high \in Nat /\ NodeLow(ns, low, z)
        /\ ns[z].right \in DOMAIN ns /\ low[ns[z].right] = ns[z].high
    BY LowAt
  <2>2. low[z] <= ns[z].high
    BY <2>1 DEF NodeLow
  <2>3. ns[ns[z].right].leaf
    BY LeafRight
  <2> QED BY <1>1, <2>1, <2>2, <2>3
<1> HIDE DEF T
<1>4. ChainFrom(ns, ns[n].right) \subseteq T
  <2>1. T \in SUBSET DOMAIN ns
    BY DEF T
  <2> QED BY <1>1, <1>2, <1>3, <2>1, ChainCloses
<1>5. x \in T
  BY <1>4
<1> QED BY <1>5 DEF T

\* What the leaves from n on hold, leaf by leaf.
LEMMA BeyondIs ==
    ASSUME NEW ns, NEW n, NEW e
    PROVE  e \in Beyond(ns, n) <=> \E x \in ChainFrom(ns, n) : x \in DOMAIN ns /\ ns[x].leaf /\ e \in PairsIn(ns[x])
BY DEF Beyond, Leaves

\* The tree holds it.
LEMMA BeyondHeld ==
    ASSUME NEW ns, NEW n
    PROVE  Beyond(ns, n) \subseteq Held(ns)
BY DEF Beyond, Held

\* A leaf that begins below k has every pair of k and above in it or to the right of it.
LEMMA FoundBeyond ==
    ASSUME NEW ns, ArenaInv(ns), FirstIn(ns), NEW level, IsLevel(ns, level), NEW low, LowIs(ns, low),
           NEW n \in DOMAIN ns, ns[n].leaf, NEW k \in Nat, low[n] < k, NEW e \in Held(ns), k <= e[1]
    PROVE  e \in Beyond(ns, n)
<1>1. PICK m \in DOMAIN ns : ns[m].leaf /\ e \in PairsIn(ns[m])
  BY DEF Held, Leaves
<1>2. m \in ChainFrom(ns, 1) /\ n \in ChainFrom(ns, 1) /\ 1 \in DOMAIN ns
  BY <1>1 DEF FirstIn, Leaves
<1>3. CASE m \in ChainFrom(ns, n)
  BY <1>1, <1>3, BeyondIs
<1>4. CASE n \in ChainFrom(ns, m) /\ n # m
  <2>1. ns[m].right # NoNode /\ n \in ChainFrom(ns, ns[m].right)
    BY <1>4, ChainStep
  <2>2. ns[m].high <= low[n]
    BY <1>1, <2>1, LowGrows
  <2>3. ns[m].high \in Nat /\ low[n] \in Int /\ NodeLow(ns, low, m)
    BY LowAt
  <2>4. PICK i \in DOMAIN ns[m].keys : e = <<ns[m].keys[i], ns[m].items[i]>>
    BY <1>1, PairsAre
  <2>5. ns[m].keys[i] <= ns[m].high
    BY <1>1, <2>3, <2>4 DEF NodeLow
  <2>6. e[1] = ns[m].keys[i] /\ ns[m].keys[i] \in Nat
    <3>1. ns[m].keys \in Seq(Keys)
      BY ArenaIs, NodeIs
    <3>2. ns[m].keys[i] \in Keys
      BY <2>4, <3>1
    <3> QED BY <2>4, <3>2, KeysAre
  <2>7. FALSE
    BY <2>2, <2>3, <2>5, <2>6
  <2> QED BY <2>7
<1>5. CASE n = m
  BY <1>3, <1>5, ChainCloses
<1> QED BY <1>2, <1>3, <1>4, <1>5, ChainLinear

-----------------------------------------------------------------------------
(* What happens to an arena leaves its order alone: the bounds below the nodes it had stay, and *)
(* in front of no leaf is anything more to be found than the pairs D.                           *)

\* The nodes of ns begin under l where they begin under low.
Agree(ns, low, l) == \A x \in DOMAIN ns : l[x] = low[x]

\* ms is still in order, its old nodes begin where they did, and a leaf and those to the right of it have lost nothing and got no more than D.
Ordered(ns, ms, low, D) ==
    /\ Ends(ms) /\ OnePlace(ms)
    /\ \E l : LowIs(ms, l) /\ Agree(ns, low, l)
    /\ \A x \in DOMAIN ns : Beyond(ns, x) \subseteq Beyond(ms, x) /\ Beyond(ms, x) \subseteq Beyond(ns, x) \cup D

\* Two such changes are one.
LEMMA OrderedTransitive ==
    ASSUME NEW ns, NEW ms, NEW os, NEW low, NEW D, NEW E, DOMAIN ns \subseteq DOMAIN ms, Ordered(ns, ms, low, D),
           \A l : LowIs(ms, l) => Ordered(ms, os, l, E)
    PROVE  Ordered(ns, os, low, D \cup E)
<1>1. PICK l : LowIs(ms, l) /\ Agree(ns, low, l)
  BY DEF Ordered
<1>2. Ordered(ms, os, l, E)
  BY <1>1
<1>3. PICK h : LowIs(os, h) /\ Agree(ms, l, h)
  BY <1>2 DEF Ordered
<1>4. Agree(ns, low, h)
  BY <1>1, <1>3 DEF Agree
<1>5. ASSUME NEW x \in DOMAIN ns
      PROVE  Beyond(ns, x) \subseteq Beyond(os, x) /\ Beyond(os, x) \subseteq Beyond(ns, x) \cup (D \cup E)
  <2>1. Beyond(ns, x) \subseteq Beyond(ms, x) /\ Beyond(ms, x) \subseteq Beyond(ns, x) \cup D
    BY DEF Ordered
  <2>2. Beyond(ms, x) \subseteq Beyond(os, x) /\ Beyond(os, x) \subseteq Beyond(ms, x) \cup E
    BY <1>2 DEF Ordered
  <2> QED BY <2>1, <2>2
<1> QED BY <1>2, <1>3, <1>4, <1>5 DEF Ordered

\* The keys and children of an internal node, by their positions.
LEMMA ChildAt ==
    ASSUME NEW ns, ArenaInv(ns), NEW x \in DOMAIN ns, ~ns[x].leaf
    PROVE  \E L \in Nat : /\ L = Len(ns[x].keys) /\ Len(ns[x].items) = L + 1
                        /\ DOMAIN ns[x].keys = 1..L /\ DOMAIN ns[x].items = 1..(L + 1)
                        /\ \A i \in 1..(L + 1) : ns[x].items[i] \in DOMAIN ns
<1>1. ns[x] \in Node /\ NodeInv(ns, x) /\ Extra(ns[x]) = 1
  BY ArenaIs DEF Extra
<1>2. /\ Len(ns[x].keys) \in Nat /\ DOMAIN ns[x].keys = 1..Len(ns[x].keys)
      /\ DOMAIN ns[x].items = 1..Len(ns[x].items)
  BY <1>1, NodeIs
<1>3. Len(ns[x].items) = Len(ns[x].keys) + 1 /\ \A i \in DOMAIN ns[x].items : ns[x].items[i] \in DOMAIN ns
  BY <1>1 DEF NodeInv
<1> QED BY <1>2, <1>3

\* A node that keeps its keys, items, link and bound keeps its place in the order.
LEMMA NodeLowStays ==
    ASSUME NEW ns, NEW ms, ArenaInv(ns), NEW low, LowIs(ns, low), NEW l, Agree(ns, low, l), NEW x \in DOMAIN ns,
           ms[x].leaf = ns[x].leaf, ms[x].keys = ns[x].keys, ms[x].items = ns[x].items,
           ms[x].right = ns[x].right, ms[x].high = ns[x].high
    PROVE  NodeLow(ms, l, x)
<1>1. NodeLow(ns, low, x) /\ l[x] = low[x]
  BY DEF LowIs, Agree
<1>2. ns[x].right # NoNode => l[ns[x].right] = low[ns[x].right]
  BY LowAt DEF Agree
<1>3. ASSUME ~ns[x].leaf PROVE l[ns[x].items[1]] = low[ns[x].items[1]] /\ \A i \in DOMAIN ns[x].keys : l[ns[x].items[i + 1]] = low[ns[x].items[i + 1]]
  <2>1. PICK L \in Nat : DOMAIN ns[x].keys = 1..L /\ \A i \in 1..(L + 1) : ns[x].items[i] \in DOMAIN ns
    BY <1>3, ChildAt
  <2>2. 1 \in 1..(L + 1) /\ \A i \in 1..L : i + 1 \in 1..(L + 1)
    OBVIOUS
  <2> QED BY <2>1, <2>2 DEF Agree
<1> QED BY <1>1, <1>2, <1>3 DEF NodeLow

\* Hints say nothing about the order.
LEMMA HintsOrdered ==
    ASSUME NEW ns, NEW ms, NEW cs, NEW h, ArenaInv(ns), ArenaInv(ms), HintsOnly(ns, ms, cs, h), Ends(ns), OnePlace(ns),
           NEW low, LowIs(ns, low)
    PROVE  Ordered(ns, ms, low, {})
<1>1. DOMAIN ms = DOMAIN ns /\ \A x \in DOMAIN ns : /\ ms[x].leaf = ns[x].leaf /\ ms[x].keys = ns[x].keys
                                                   /\ ms[x].items = ns[x].items /\ ms[x].right = ns[x].right /\ ms[x].high = ns[x].high
  BY DEF HintsOnly
<1>2. Ends(ms) /\ \A x \in DOMAIN ns : ChainFrom(ms, x) = ChainFrom(ns, x)
  BY <1>1, SameChains
<1>3. OnePlace(ms)
  BY HintsDistinct DEF OnePlace
<1>4. Agree(ns, low, low) /\ low \in [DOMAIN ms -> Int]
  BY <1>1 DEF Agree, LowIs
<1>5. LowIs(ms, low)
  BY <1>1, <1>4, NodeLowStays DEF LowIs
<1>6. ASSUME NEW x \in DOMAIN ns PROVE Beyond(ms, x) = Beyond(ns, x)
  <2>1. ChainFrom(ns, x) \subseteq DOMAIN ns
    BY ChainCloses
  <2>2. \A y \in DOMAIN ns : PairsIn(ms[y]) = PairsIn(ns[y])
    BY <1>1 DEF PairsIn
  <2>3. ASSUME NEW e PROVE e \in Beyond(ms, x) <=> e \in Beyond(ns, x)
    BY <1>1, <1>2, <2>1, <2>2, BeyondIs
  <2> QED BY <2>3
<1> QED BY <1>2, <1>3, <1>4, <1>5, <1>6 DEF Ordered

\* A new root begins where its left child does.
LEMMA RootOrdered ==
    ASSUME NEW ns, NEW ms, NEW c \in DOMAIN ns, NEW r \in DOMAIN ns, NEW sep, ArenaInv(ns), ArenaInv(ms), RootGrown(ns, ms, c, r, sep),
           Ends(ns), OnePlace(ns), NEW low, LowIs(ns, low), low[r] = sep
    PROVE  Ordered(ns, ms, low, {})
<1> DEFINE N == Len(ns) + 1
           l == [x \in DOMAIN ms |-> IF x \in DOMAIN ns THEN low[x] ELSE low[c]]
<1>1. /\ DOMAIN ms = DOMAIN ns \cup {N} /\ N \notin DOMAIN ns /\ NoNode \notin DOMAIN ms /\ \A z \in DOMAIN ns : ms[z] = ns[z]
      /\ ~ms[N].leaf /\ ms[N].keys = <<sep>> /\ ms[N].items = <<c, r>> /\ ms[N].right = NoNode
  BY ArenaIs DEF RootGrown, NoNode
<1> HIDE DEF N
<1>2. ASSUME NEW x \in DOMAIN ns PROVE ChainFrom(ms, x) = ChainFrom(ns, x)
  <2>1. LinksKept(ns, ms)
    BY <1>1 DEF LinksKept
  <2>2. ChainFrom(ns, x) \subseteq ChainFrom(ms, x)
    BY <2>1, ChainGrows
  <2>3. /\ ChainFrom(ns, x) \in SUBSET DOMAIN ms /\ x \in ChainFrom(ns, x) /\ x \in DOMAIN ms
        /\ \A z \in ChainFrom(ns, x) : ms[z].right \in ChainFrom(ns, x) \cup {NoNode}
    BY <1>1, ChainCloses
  <2>4. ChainFrom(ms, x) \subseteq ChainFrom(ns, x)
    BY <2>3, ChainCloses
  <2> QED BY <2>2, <2>4
<1>3. Ends(ms)
  <2>1. ASSUME NEW x \in DOMAIN ns PROVE \E y \in ChainFrom(ms, x) : ms[y].right = NoNode
    <3>1. PICK y \in ChainFrom(ns, x) : ns[y].right = NoNode
      BY DEF Ends
    <3>2. y \in DOMAIN ns
      BY ChainCloses
    <3> QED BY <1>1, <1>2, <3>1, <3>2
  <2>2. N \in ChainFrom(ms, N)
    BY <1>1, ChainCloses
  <2> QED BY <1>1, <2>1, <2>2 DEF Ends
<1>4. OnePlace(ms)
  BY RootOnePlace
<1>5. low \in [DOMAIN ns -> Int]
  BY DEF LowIs
<1>6. /\ l \in [DOMAIN ms -> Int] /\ Agree(ns, low, l) /\ l[N] = low[c] /\ l[c] = low[c] /\ l[r] = sep
  BY <1>1, <1>5 DEF Agree
<1> HIDE DEF l
<1>7. NodeLow(ms, l, N)
  <2>1. DOMAIN ms[N].keys = {1} /\ ms[N].keys[1] = sep /\ ms[N].items[1] = c /\ ms[N].items[1 + 1] = r
    BY <1>1
  <2> QED BY <1>1, <1>6, <2>1 DEF NodeLow
<1>8. LowIs(ms, l)
  <2>1. \A x \in DOMAIN ns : NodeLow(ms, l, x)
    BY <1>1, <1>6, NodeLowStays
  <2> QED BY <1>1, <1>6, <1>7, <2>1 DEF LowIs
<1>9. ASSUME NEW x \in DOMAIN ns PROVE Beyond(ms, x) = Beyond(ns, x)
  <2>1. ChainFrom(ns, x) \subseteq DOMAIN ns
    BY ChainCloses
  <2>2. ASSUME NEW e PROVE e \in Beyond(ms, x) <=> e \in Beyond(ns, x)
    BY <1>1, <1>2, <2>1, BeyondIs
  <2> QED BY <2>2
<1> QED BY <1>3, <1>4, <1>6, <1>8, <1>9 DEF Ordered

\* A split puts the right half into the chains that have the left one, next to it.
LEMMA HalvedChains ==
    ASSUME NEW ns, NEW ms, NEW n \in DOMAIN ns, NEW g \in Nat, ArenaInv(ns), ArenaInv(ms), Halved(ns, ms, n, g)
    PROVE  /\ \A x \in DOMAIN ns :
                 /\ ChainFrom(ns, x) \subseteq ChainFrom(ms, x)
                 /\ n \in ChainFrom(ns, x) => Len(ns) + 1 \in ChainFrom(ms, x)
                 /\ \A y \in ChainFrom(ms, x) : y \in ChainFrom(ns, x) \/ (y = Len(ns) + 1 /\ n \in ChainFrom(ns, x))
           /\ Ends(ns) => Ends(ms)
<1> DEFINE N == Len(ns) + 1
<1>1. /\ DOMAIN ms = DOMAIN ns \cup {N} /\ N \notin DOMAIN ns /\ NoNode \notin DOMAIN ms
      /\ (\A x \in DOMAIN ns : x # n => ms[x] = ns[x]) /\ ms[n].right = N /\ ms[N].right = ns[n].right
  BY ArenaIs DEF Halved, NoNode
<1> HIDE DEF N
<1>2. LinksKept(ns, ms)
  <2>1. ASSUME NEW x \in DOMAIN ns
        PROVE  ms[x].right = ns[x].right \/ (ms[x].right \in DOMAIN ms /\ ms[ms[x].right].right = ns[x].right)
    BY <1>1
  <2> QED BY <1>1, <2>1 DEF LinksKept
<1>3. ASSUME NEW x \in DOMAIN ns PROVE ChainFrom(ns, x) \subseteq ChainFrom(ms, x) /\ x \in DOMAIN ms
  BY <1>1, <1>2, ChainGrows
<1>4. ASSUME NEW x \in DOMAIN ns, n \in ChainFrom(ns, x) PROVE N \in ChainFrom(ms, x)
  <2>1. n \in ChainFrom(ms, x) /\ x \in DOMAIN ms
    BY <1>3, <1>4
  <2> QED BY <1>1, <2>1, ChainCloses
<1>5. ASSUME NEW x \in DOMAIN ns, NEW y \in ChainFrom(ms, x)
      PROVE  y \in ChainFrom(ns, x) \/ (y = N /\ n \in ChainFrom(ns, x))
  <2> DEFINE T == {z \in DOMAIN ms : z \in ChainFrom(ns, x) \/ (z = N /\ n \in ChainFrom(ns, x))}
  <2>1. x \in T
    BY <1>1, ChainCloses
  <2>2. ASSUME NEW z \in T PROVE ms[z].right \in T \cup {NoNode}
    <3>1. CASE z \in ChainFrom(ns, x) /\ z # n
      <4>1. z \in DOMAIN ns /\ ns[z].right \in ChainFrom(ns, x) \cup {NoNode}
        BY <3>1, ChainCloses
      <4>2. ChainFrom(ns, x) \subseteq DOMAIN ns
        BY ChainCloses
      <4> QED BY <1>1, <3>1, <4>1, <4>2
    <3>2. CASE z = n /\ z \in ChainFrom(ns, x)
      BY <1>1, <3>2
    <3>3. CASE z = N /\ n \in ChainFrom(ns, x)
      <4>1. ns[n].right \in ChainFrom(ns, x) \cup {NoNode} /\ ChainFrom(ns, x) \subseteq DOMAIN ns
        BY <3>3, ChainCloses
      <4> QED BY <1>1, <3>3, <4>1
    <3> QED BY <3>1, <3>2, <3>3
  <2>3. T \in SUBSET DOMAIN ms /\ x \in DOMAIN ms
    BY <1>1
  <2> HIDE DEF T
  <2>4. ChainFrom(ms, x) \subseteq T
    BY <2>1, <2>2, <2>3, ChainCloses
  <2>5. y \in T
    BY <2>4
  <2> QED BY <2>5 DEF T
<1>6. ASSUME Ends(ns) PROVE Ends(ms)
  <2>1. ASSUME NEW x \in DOMAIN ns PROVE \E y \in ChainFrom(ms, x) : ms[y].right = NoNode
    <3>1. PICK y \in ChainFrom(ns, x) : ns[y].right = NoNode
      BY <1>6 DEF Ends
    <3>2. y \in DOMAIN ns
      BY ChainCloses
    <3>3. CASE y = n
      BY <1>1, <1>4, <3>1, <3>3
    <3>4. CASE y # n
      BY <1>1, <1>3, <3>1, <3>2, <3>4
    <3> QED BY <3>3, <3>4
  <2>2. \E y \in ChainFrom(ms, N) : ms[y].right = NoNode
    <3>1. PICK y \in ChainFrom(ns, n) : ns[y].right = NoNode
      BY <1>6 DEF Ends
    <3>2. N \in DOMAIN ms /\ N \in ChainFrom(ms, N)
      BY <1>1, ChainCloses
    <3>3. CASE y = n
      BY <1>1, <3>1, <3>2, <3>3
    <3>4. CASE y # n
      <4>1. ns[n].right # NoNode /\ y \in ChainFrom(ns, ns[n].right)
        BY <3>1, <3>4, ChainStep
      <4>2. ns[n].right \in DOMAIN ns /\ y \in DOMAIN ns
        BY <3>1, <4>1, ArenaIs, ChainCloses DEF Linked, NoNode
      <4>3. y \in ChainFrom(ms, ns[n].right)
        BY <1>3, <4>1, <4>2
      <4>4. ns[n].right \in ChainFrom(ms, N)
        BY <1>1, <3>2, <4>1, ChainCloses
      <4>5. y \in ChainFrom(ms, N)
        BY <3>2, <4>3, <4>4, ChainTransitive
      <4> QED BY <1>1, <3>1, <3>4, <4>2, <4>5
    <3> QED BY <3>3, <3>4
  <2> QED BY <1>1, <2>1, <2>2 DEF Ends
<1> QED BY <1>3, <1>4, <1>5, <1>6 DEF N

\* The right half begins where the left half ends.
LEMMA HalvedLow ==
    ASSUME NEW ns, NEW ms, NEW n \in DOMAIN ns, NEW g \in Nat, ArenaInv(ns), ArenaInv(ms), Halved(ns, ms, n, g),
           g \in 1..Len(ns[n].keys), NEW low, LowIs(ns, low)
    PROVE  \E l : LowIs(ms, l) /\ Agree(ns, low, l)
<1> DEFINE N == Len(ns) + 1
           l == [x \in DOMAIN ms |-> IF x \in DOMAIN ns THEN low[x] ELSE ns[n].keys[g]]
<1>1. /\ DOMAIN ms = DOMAIN ns \cup {N} /\ N \notin DOMAIN ns /\ \A x \in DOMAIN ns : x # n => ms[x] = ns[x]
      /\ ms[n].leaf = ns[n].leaf /\ ms[N].leaf = ns[n].leaf
      /\ ms[n].right = N /\ ms[N].right = ns[n].right /\ ms[n].high = ns[n].keys[g] /\ ms[N].high = ns[n].high
  BY ArenaIs DEF Halved
<1>2. PICK L \in Nat : L = Len(ns[n].keys) /\ DOMAIN ns[n].keys = 1..L /\ g \in 1..L
  BY ArenaIs, NodeIs
<1>3. \A i \in 1..L : ns[n].keys[i] \in Nat
  <2>1. ns[n].keys \in Seq(Keys)
    BY ArenaIs, NodeIs
  <2>2. \A i \in 1..L : ns[n].keys[i] \in Keys
    BY <1>2, <2>1
  <2> QED BY <2>2, KeysAre
<1>4. /\ low \in [DOMAIN ns -> Int] /\ NodeLow(ns, low, n) /\ ns[n].high \in Nat
      /\ ns[n].right # NoNode => ns[n].right \in DOMAIN ns /\ low[ns[n].right] = ns[n].high
  BY LowAt DEF LowIs
<1>5. l \in [DOMAIN ms -> Int] /\ Agree(ns, low, l) /\ l[N] = ns[n].keys[g] /\ l[n] = low[n]
  BY <1>1, <1>2, <1>3, <1>4 DEF Agree
<1>6. DOMAIN ms[n].keys = 1..Len(ms[n].keys) /\ DOMAIN ms[N].keys = 1..Len(ms[N].keys)
  BY <1>1, ArenaIs, NodeIs
<1> HIDE DEF l
<1>7. CASE ns[n].leaf
  <2>1. /\ DOMAIN ms[n].keys = 1..g /\ DOMAIN ms[N].keys = 1..(L - g)
        /\ \A i \in 1..g : ms[n].keys[i] = ns[n].keys[i]
        /\ \A i \in 1..(L - g) : ms[N].keys[i] = ns[n].keys[i + g]
    <3>1. Extra(ns[n]) = 0
      BY <1>7 DEF Extra
    <3>2. Len(ms[n].keys) = g /\ Len(ms[N].keys) = L - g
      BY <1>2, <3>1 DEF Halved
    <3> QED BY <1>6, <3>2 DEF Halved
  <2> HIDE DEF N
  <2>2. /\ low[n] <= ns[n].high
        /\ \A i \in 1..L : low[n] <= ns[n].keys[i] /\ ns[n].keys[i] <= ns[n].high
        /\ \A i, j \in 1..L : i < j => ns[n].keys[i] <= ns[n].keys[j]
    BY <1>2, <1>4, <1>7 DEF NodeLow
  <2>3. \A i \in 1..g : i \in 1..L /\ (i < g \/ i = g)
    BY <1>2
  <2>4. \A i \in 1..(L - g) : i + g \in 1..L /\ g < i + g
    BY <1>2
  <2>5. NodeLow(ms, l, n)
    <3>1. \A i \in 1..g : low[n] <= ns[n].keys[i] /\ ns[n].keys[i] <= ns[n].keys[g]
      BY <1>2, <1>3, <2>2, <2>3
    <3> QED BY <1>1, <1>2, <1>5, <1>7, <2>1, <2>2, <2>3, <3>1 DEF NodeLow
  <2>6. NodeLow(ms, l, N)
    <3>1. \A i \in 1..(L - g) : ns[n].keys[g] <= ns[n].keys[i + g] /\ ns[n].keys[i + g] <= ns[n].high
      BY <1>2, <2>2, <2>4
    <3>2. \A i, j \in 1..(L - g) : i < j => ns[n].keys[i + g] <= ns[n].keys[j + g]
      <4>1. \A i, j \in 1..(L - g) : i < j => i + g < j + g
        BY <1>2
      <4> QED BY <2>2, <2>4, <4>1
    <3>3. ns[n].right # NoNode => l[ns[n].right] = ns[n].high
      BY <1>4, <1>5 DEF Agree
    <3>4. /\ l[N] <= ms[N].high
          /\ \A i \in DOMAIN ms[N].keys : l[N] <= ms[N].keys[i] /\ ms[N].keys[i] <= ms[N].high
      BY <1>1, <1>2, <1>5, <2>1, <2>2, <3>1
    <3>5. \A i, j \in DOMAIN ms[N].keys : i < j => ms[N].keys[i] <= ms[N].keys[j]
      BY <2>1, <3>2
    <3> QED BY <1>1, <1>7, <3>3, <3>4, <3>5 DEF NodeLow
  <2>7. \A x \in DOMAIN ns \ {n} : NodeLow(ms, l, x)
    BY <1>1, <1>5, NodeLowStays
  <2>8. LowIs(ms, l)
    BY <1>1, <1>5, <2>5, <2>6, <2>7 DEF LowIs
  <2> QED BY <1>5, <2>8
<1>8. CASE ~ns[n].leaf
  <2>1. Len(ns[n].items) = L + 1 /\ \A i \in 1..(L + 1) : ns[n].items[i] \in DOMAIN ns
    BY <1>2, <1>8, ChildAt
  <2>2. /\ DOMAIN ms[n].keys = 1..(g - 1) /\ DOMAIN ms[N].keys = 1..(L - g)
        /\ \A i \in 1..(g - 1) : ms[n].keys[i] = ns[n].keys[i]
        /\ \A i \in 1..(L - g) : ms[N].keys[i] = ns[n].keys[i + g]
        /\ \A i \in 1..g : ms[n].items[i] = ns[n].items[i]
        /\ \A i \in 1..(L + 1 - g) : ms[N].items[i] = ns[n].items[i + g]
    <3>1. Extra(ns[n]) = 1
      BY <1>8 DEF Extra
    <3>2. Len(ms[n].keys) = g - 1 /\ Len(ms[N].keys) = L - g
      BY <1>2, <3>1 DEF Halved
    <3>3. Len(ns[n].items) - g = L + 1 - g
      BY <2>1
    <3>4. /\ \A i \in 1..g : ms[n].items[i] = ns[n].items[i]
          /\ \A i \in 1..(Len(ns[n].items) - g) : ms[N].items[i] = ns[n].items[i + g]
      BY DEF Halved
    <3>5. /\ \A i \in 1..(g - 1) : ms[n].keys[i] = ns[n].keys[i]
          /\ \A i \in 1..(L - g) : ms[N].keys[i] = ns[n].keys[i + g]
      BY <3>2 DEF Halved
    <3>6. DOMAIN ms[n].keys = 1..(g - 1) /\ DOMAIN ms[N].keys = 1..(L - g)
      BY <1>6, <3>2
    <3> QED BY <3>3, <3>4, <3>5, <3>6
  <2> HIDE DEF N
  <2>3. low[ns[n].items[1]] = low[n] /\ \A i \in 1..L : low[ns[n].items[i + 1]] = ns[n].keys[i]
    BY <1>2, <1>4, <1>8 DEF NodeLow
  <2>4. \A i \in 1..(L + 1) : l[ns[n].items[i]] = low[ns[n].items[i]]
    BY <1>5, <2>1 DEF Agree
  <2>5. NodeLow(ms, l, n)
    <3>1. 1 \in 1..g /\ 1 \in 1..(L + 1) /\ \A i \in 1..(g - 1) : i \in 1..L /\ i + 1 \in 1..g /\ i + 1 \in 1..(L + 1)
      BY <1>2
    <3>2. l[ms[n].items[1]] = l[n]
      <4>1. ms[n].items[1] = ns[n].items[1] /\ l[ns[n].items[1]] = low[ns[n].items[1]]
        BY <2>2, <2>4, <3>1
      <4> QED BY <1>5, <2>3, <4>1
    <3>3. ASSUME NEW i \in 1..(g - 1) PROVE l[ms[n].items[i + 1]] = ms[n].keys[i]
      <4>1. PICK j \in 1..g : j = i + 1 /\ j \in 1..(L + 1) /\ i \in 1..L
        BY <3>1
      <4>2. ms[n].items[j] = ns[n].items[j] /\ l[ns[n].items[j]] = low[ns[n].items[j]] /\ low[ns[n].items[j]] = ns[n].keys[i]
        BY <2>2, <2>3, <2>4, <4>1
      <4> QED BY <2>2, <4>1, <4>2
    <3>4. ms[n].right # NoNode => l[ms[n].right] = ms[n].high
      BY <1>1, <1>5
    <3> QED BY <1>1, <1>8, <2>2, <3>2, <3>3, <3>4 DEF NodeLow
  <2>6. NodeLow(ms, l, N)
    <3>1. 1 \in 1..(L + 1 - g) /\ 1 + g = g + 1 /\ g + 1 \in 1..(L + 1)
      BY <1>2
    <3>2. l[ms[N].items[1]] = l[N]
      <4>1. ms[N].items[1] = ns[n].items[1 + g]
        BY <2>2, <3>1
      <4>2. PICK j \in 1..(L + 1) : j = g + 1
        BY <3>1
      <4>3. l[ns[n].items[j]] = low[ns[n].items[j]] /\ low[ns[n].items[j]] = ns[n].keys[g] /\ ms[N].items[1] = ns[n].items[j]
        BY <1>2, <2>3, <2>4, <3>1, <4>1, <4>2
      <4> QED BY <1>5, <4>3
    <3>3. \A i \in 1..(L - g) : i + 1 \in 1..(L + 1 - g) /\ (i + 1) + g = (i + g) + 1 /\ i + g \in 1..L /\ (i + g) + 1 \in 1..(L + 1)
      BY <1>2
    <3>4. ASSUME NEW i \in 1..(L - g) PROVE l[ms[N].items[i + 1]] = ms[N].keys[i]
      <4>1. PICK h \in 1..L, j \in 1..(L + 1) : h = i + g /\ j = h + 1 /\ (i + 1) + g = j /\ i + 1 \in 1..(L + 1 - g)
        BY <3>3
      <4>2. ms[N].items[i + 1] = ns[n].items[j] /\ ms[N].keys[i] = ns[n].keys[h]
        BY <2>2, <4>1
      <4>3. l[ns[n].items[j]] = low[ns[n].items[j]] /\ low[ns[n].items[j]] = ns[n].keys[h]
        BY <2>3, <2>4, <4>1
      <4> QED BY <4>2, <4>3
    <3>5. ns[n].right # NoNode => l[ns[n].right] = ns[n].high
      BY <1>4, <1>5 DEF Agree
    <3> QED BY <1>1, <1>8, <2>2, <3>2, <3>4, <3>5 DEF NodeLow
  <2>7. \A x \in DOMAIN ns \ {n} : NodeLow(ms, l, x)
    BY <1>1, <1>5, NodeLowStays
  <2>8. LowIs(ms, l)
    BY <1>1, <1>5, <2>5, <2>6, <2>7 DEF LowIs
  <2> QED BY <1>5, <2>8
<1> QED BY <1>7, <1>8

\* So a split keeps the order: no leaf has less to the right of it.
LEMMA HalvedOrdered ==
    ASSUME NEW ns, NEW ms, NEW n \in DOMAIN ns, NEW g \in Nat, ArenaInv(ns), ArenaInv(ms), Halved(ns, ms, n, g),
           g \in 1..Len(ns[n].keys), Ends(ns), OnePlace(ns), NEW low, LowIs(ns, low)
    PROVE  Ordered(ns, ms, low, {})
<1> DEFINE N == Len(ns) + 1
<1>1. /\ DOMAIN ms = DOMAIN ns \cup {N} /\ N \notin DOMAIN ns /\ \A x \in DOMAIN ns : x # n => ms[x] = ns[x]
      /\ ms[n].leaf = ns[n].leaf /\ ms[N].leaf = ns[n].leaf
  BY ArenaIs DEF Halved
<1>2. /\ \A x \in DOMAIN ns :
           /\ ChainFrom(ns, x) \subseteq ChainFrom(ms, x)
           /\ n \in ChainFrom(ns, x) => N \in ChainFrom(ms, x)
           /\ \A y \in ChainFrom(ms, x) : y \in ChainFrom(ns, x) \/ (y = N /\ n \in ChainFrom(ns, x))
      /\ Ends(ms)
  BY HalvedChains
<1>3. OnePlace(ms)
  <2>1. g \in 1..Len(ns[n].items)
    <3>1. NodeInv(ns, n) /\ Len(ns[n].keys) \in Nat /\ Len(ns[n].items) \in Nat
      BY ArenaIs, NodeIs
    <3>2. Len(ns[n].items) >= Len(ns[n].keys)
      <4>1. Extra(ns[n]) \in {0, 1} /\ Len(ns[n].items) = Len(ns[n].keys) + Extra(ns[n])
        BY <3>1 DEF NodeInv, Extra
      <4> QED BY <3>1, <4>1
    <3> QED BY <3>1, <3>2
  <2> QED BY <2>1, HalvedDistinct DEF OnePlace
<1>4. ns[n].leaf => PairsIn(ns[n]) = PairsIn(ms[n]) \cup PairsIn(ms[N])
  BY HalvedPairs
<1> HIDE DEF N
<1>5. ASSUME NEW x \in DOMAIN ns, NEW e PROVE e \in Beyond(ms, x) <=> e \in Beyond(ns, x)
  <2>1. ASSUME e \in Beyond(ms, x) PROVE e \in Beyond(ns, x)
    <3>1. PICK y \in ChainFrom(ms, x) : y \in DOMAIN ms /\ ms[y].leaf /\ e \in PairsIn(ms[y])
      BY <2>1, BeyondIs
    <3>2. y \in ChainFrom(ns, x) \/ (y = N /\ n \in ChainFrom(ns, x))
      BY <1>2
    <3>3. ChainFrom(ns, x) \subseteq DOMAIN ns
      BY ChainCloses
    <3> QED BY <1>1, <1>4, <3>1, <3>2, <3>3, BeyondIs
  <2>2. ASSUME e \in Beyond(ns, x) PROVE e \in Beyond(ms, x)
    <3>1. PICK y \in ChainFrom(ns, x) : y \in DOMAIN ns /\ ns[y].leaf /\ e \in PairsIn(ns[y])
      BY <2>2, BeyondIs
    <3>2. y \in ChainFrom(ms, x) /\ (y = n => N \in ChainFrom(ms, x))
      BY <1>2
    <3> QED BY <1>1, <1>4, <3>1, <3>2, BeyondIs
  <2> QED BY <2>1, <2>2
<1>6. \E l : LowIs(ms, l) /\ Agree(ns, low, l)
  BY HalvedLow
<1> QED BY <1>2, <1>3, <1>5, <1>6 DEF Ordered

\* Where lower_bound ends in a leaf, whose keys are in order.
LEMMA SortedBound ==
    ASSUME NEW L \in Nat, NEW keys, Len(keys) = L, \A i \in 1..L : keys[i] \in Nat,
           \A i, j \in 1..L : i < j => keys[i] <= keys[j], NEW k \in Nat
    PROVE  /\ LowerBound(keys, k) \in 1..(L + 1)
           /\ \A i \in 1..L : i < LowerBound(keys, k) => keys[i] < k
           /\ \A i \in 1..L : i >= LowerBound(keys, k) => keys[i] >= k
<1> DEFINE p == LowerBound(keys, k)
<1>1. p \in 1..(1 + L) /\ (p > 1 => keys[p - 1] < k) /\ (p < 1 + L => ~(keys[p] < k))
  <2>1. Bounds(keys, k, 1, Len(keys), p)
    BY LowerBoundIs
  <2> QED BY <2>1 DEF Bounds
<1> HIDE DEF p
<1>2. ASSUME NEW i \in 1..L, i < p PROVE keys[i] < k
  <2>1. PICK q \in 1..L : q = p - 1 /\ i <= q /\ p > 1
    BY <1>1, <1>2
  <2>2. keys[q] < k /\ (i = q \/ i < q)
    BY <1>1, <2>1
  <2>3. keys[i] <= keys[q]
    BY <2>2
  <2> QED BY <2>2, <2>3
<1>3. ASSUME NEW i \in 1..L, i >= p PROVE keys[i] >= k
  <2>1. p \in 1..L /\ (i = p \/ p < i)
    BY <1>1, <1>3
  <2>2. keys[p] >= k /\ keys[p] <= keys[i]
    BY <1>1, <2>1
  <2> QED BY <2>1, <2>2
<1> QED BY <1>1, <1>2, <1>3 DEF p

\* The keys of leaf n ascend from its low to its high bound; L is their number.
InOrder(ns, low, n, L) ==
    /\ L = Len(ns[n].keys) /\ DOMAIN ns[n].keys = 1..L /\ Len(ns[n].items) = L /\ DOMAIN ns[n].items = 1..L
    /\ \A i \in 1..L : /\ ns[n].keys[i] \in Keys /\ ns[n].keys[i] \in Nat
                       /\ low[n] <= ns[n].keys[i] /\ ns[n].keys[i] <= ns[n].high
    /\ \A i, j \in 1..L : i < j => ns[n].keys[i] <= ns[n].keys[j]
    /\ low[n] \in Int /\ ns[n].high \in Nat /\ low[n] <= ns[n].high

\* So they do in a tree in order.
LEMMA LeafKeys ==
    ASSUME NEW ns, ArenaInv(ns), NEW low, LowIs(ns, low), NEW n \in DOMAIN ns, ns[n].leaf
    PROVE  \E L \in Nat : InOrder(ns, low, n, L)
<1>1. PICK L \in Nat : L = Len(ns[n].keys) /\ DOMAIN ns[n].keys = 1..L /\ Len(ns[n].items) = L
  BY LeafIs
<1>2. ns[n].keys \in Seq(Keys) /\ DOMAIN ns[n].items = 1..Len(ns[n].items)
  BY ArenaIs, NodeIs
<1>3. \A i \in 1..L : ns[n].keys[i] \in Keys /\ ns[n].keys[i] \in Nat
  <2>1. \A i \in 1..L : ns[n].keys[i] \in Keys
    BY <1>1, <1>2
  <2> QED BY <2>1, KeysAre
<1>4. low[n] \in Int /\ ns[n].high \in Nat /\ NodeLow(ns, low, n)
  BY LowAt
<1>5. /\ low[n] <= ns[n].high
      /\ \A i \in 1..L : low[n] <= ns[n].keys[i] /\ ns[n].keys[i] <= ns[n].high
      /\ \A i, j \in 1..L : i < j => ns[n].keys[i] <= ns[n].keys[j]
  BY <1>1, <1>4 DEF NodeLow
<1>6. InOrder(ns, low, n, L)
  BY <1>1, <1>2, <1>3, <1>4, <1>5 DEF InOrder
<1> QED BY <1>6

\* A key put in at its lower bound, between the leaf's bounds, leaves them ascending.
LEMMA LeafEnlargedLow ==
    ASSUME NEW ns, NEW ms, NEW n \in DOMAIN ns, NEW p, NEW k \in Keys, NEW q, NEW e, ArenaInv(ns), ArenaInv(ms),
           Enlarged(ns, ms, n, p, k, q, e), ns[n].leaf, p = LowerBound(ns[n].keys, k),
           NEW low, LowIs(ns, low), low[n] <= k, k <= ns[n].high
    PROVE  LowIs(ms, low)
<1>0. PICK L \in Nat : InOrder(ns, low, n, L)
  BY LeafKeys
<1>1. /\ L = Len(ns[n].keys) /\ DOMAIN ns[n].keys = 1..L
      /\ \A i \in 1..L : /\ ns[n].keys[i] \in Keys /\ ns[n].keys[i] \in Nat
                         /\ low[n] <= ns[n].keys[i] /\ ns[n].keys[i] <= ns[n].high
      /\ \A i, j \in 1..L : i < j => ns[n].keys[i] <= ns[n].keys[j]
      /\ low[n] \in Int /\ ns[n].high \in Nat /\ low[n] <= ns[n].high
  BY <1>0 DEF InOrder
<1>2. k \in Nat
  BY KeysAre
<1>3. /\ p \in 1..(L + 1)
      /\ \A i \in 1..L : i < p => ns[n].keys[i] < k
      /\ \A i \in 1..L : i >= p => ns[n].keys[i] >= k
  BY <1>1, <1>2, SortedBound
<1>4. /\ DOMAIN ms = DOMAIN ns /\ \A x \in DOMAIN ns : x # n => ms[x] = ns[x]
      /\ ms[n].leaf = ns[n].leaf /\ ms[n].right = ns[n].right /\ ms[n].high = ns[n].high
  BY DEF Enlarged
<1>5. /\ DOMAIN ms[n].keys = 1..(L + 1)
      /\ \A i \in 1..(L + 1) : ms[n].keys[i] = IF i < p THEN ns[n].keys[i] ELSE IF i = p THEN k ELSE ns[n].keys[i - 1]
  <2>1. DOMAIN ms[n].keys = 1..Len(ms[n].keys)
    BY <1>4, ArenaIs, NodeIs
  <2> QED BY <1>1, <2>1 DEF Enlarged
<1>6. ASSUME NEW i \in 1..(L + 1)
      PROVE  \/ i < p /\ i \in 1..L /\ ms[n].keys[i] = ns[n].keys[i]
             \/ i = p /\ ms[n].keys[i] = k
             \/ i > p /\ i - 1 \in 1..L /\ i - 1 >= p /\ ms[n].keys[i] = ns[n].keys[i - 1]
  <2>1. CASE i < p
    BY <1>3, <1>5, <2>1
  <2>2. CASE i = p
    BY <1>5, <2>2
  <2>3. CASE i > p
    BY <1>3, <1>5, <2>3
  <2> QED BY <1>3, <2>1, <2>2, <2>3
<1>7. ASSUME NEW i \in 1..(L + 1) PROVE low[n] <= ms[n].keys[i] /\ ms[n].keys[i] <= ns[n].high /\ ms[n].keys[i] \in Nat
  BY <1>1, <1>2, <1>6
<1>8. ASSUME NEW i \in 1..(L + 1), NEW j \in 1..(L + 1), i < j PROVE ms[n].keys[i] <= ms[n].keys[j]
  <2>1. CASE i < p /\ j < p
    BY <1>1, <1>3, <1>6, <1>8, <2>1
  <2>2. CASE i < p /\ j = p
    <3>1. i \in 1..L /\ ms[n].keys[i] = ns[n].keys[i] /\ ms[n].keys[j] = k
      BY <1>3, <1>6, <2>2
    <3> QED BY <1>1, <1>2, <1>3, <2>2, <3>1
  <2>3. CASE i < p /\ j > p
    <3>1. ms[n].keys[i] = ns[n].keys[i] /\ i \in 1..L /\ ms[n].keys[j] = ns[n].keys[j - 1] /\ j - 1 \in 1..L /\ j - 1 >= p
      BY <1>3, <1>6, <2>3
    <3>2. i < j - 1
      BY <1>3, <2>3, <3>1
    <3> QED BY <1>1, <3>1, <3>2
  <2>4. CASE i = p
    <3>1. ms[n].keys[i] = k /\ ms[n].keys[j] = ns[n].keys[j - 1] /\ j - 1 \in 1..L /\ j - 1 >= p
      BY <1>3, <1>6, <1>8, <2>4
    <3>2. PICK h \in 1..L : h = j - 1
      BY <3>1
    <3> QED BY <1>1, <1>2, <1>3, <3>1, <3>2
  <2>5. CASE i > p
    <3>1. /\ ms[n].keys[i] = ns[n].keys[i - 1] /\ i - 1 \in 1..L
          /\ ms[n].keys[j] = ns[n].keys[j - 1] /\ j - 1 \in 1..L
      BY <1>3, <1>6, <1>8, <2>5
    <3>2. i - 1 < j - 1
      BY <1>8
    <3> QED BY <1>1, <3>1, <3>2
  <2> QED BY <1>3, <2>1, <2>2, <2>3, <2>4, <2>5
<1>9. NodeLow(ms, low, n)
  <2>1. ns[n].right # NoNode => low[ns[n].right] = ns[n].high
    BY LowAt
  <2> QED BY <1>1, <1>4, <1>5, <1>7, <1>8, <2>1 DEF NodeLow
<1>10. Agree(ns, low, low) /\ low \in [DOMAIN ms -> Int]
  BY <1>4 DEF Agree, LowIs
<1>11. \A x \in DOMAIN ns \ {n} : NodeLow(ms, low, x)
  BY <1>4, <1>10, NodeLowStays
<1> QED BY <1>4, <1>9, <1>10, <1>11 DEF LowIs

\* A child put in behind its separator begins at the key in front of it, whatever the order of the keys: a late splice does no harm here.
LEMMA InnerEnlargedLow ==
    ASSUME NEW ns, NEW ms, NEW n \in DOMAIN ns, NEW p \in Nat, NEW k, NEW q, NEW e, ArenaInv(ns), ArenaInv(ms),
           Enlarged(ns, ms, n, p, k, q, e), ~ns[n].leaf, q = p + 1,
           NEW low, LowIs(ns, low), low[e] = k
    PROVE  LowIs(ms, low)
<1>1. PICK L \in Nat : /\ L = Len(ns[n].keys) /\ Len(ns[n].items) = L + 1
                       /\ DOMAIN ns[n].keys = 1..L /\ DOMAIN ns[n].items = 1..(L + 1)
  BY ChildAt
<1>2. /\ DOMAIN ms = DOMAIN ns /\ \A x \in DOMAIN ns : x # n => ms[x] = ns[x]
      /\ ms[n].leaf = ns[n].leaf /\ ms[n].right = ns[n].right /\ ms[n].high = ns[n].high
  BY DEF Enlarged
<1>3. /\ DOMAIN ms[n].keys = 1..(L + 1) /\ p \in 1..(L + 1)
      /\ \A i \in 1..(L + 1) : ms[n].keys[i] = IF i < p THEN ns[n].keys[i] ELSE IF i = p THEN k ELSE ns[n].keys[i - 1]
      /\ \A i \in 1..(L + 2) : ms[n].items[i] = IF i < q THEN ns[n].items[i] ELSE IF i = q THEN e ELSE ns[n].items[i - 1]
  <2>1. DOMAIN ms[n].keys = 1..Len(ms[n].keys)
    BY <1>2, ArenaIs, NodeIs
  <2>2. (L + 1) + 1 = L + 2
    OBVIOUS
  <2> QED BY <1>1, <2>1, <2>2 DEF Enlarged
<1>4. low[ns[n].items[1]] = low[n] /\ \A i \in 1..L : low[ns[n].items[i + 1]] = ns[n].keys[i]
  <2>1. NodeLow(ns, low, n)
    BY LowAt
  <2> QED BY <1>1, <2>1 DEF NodeLow
<1>5. low[ms[n].items[1]] = low[n]
  <2>1. 1 \in 1..(L + 2) /\ 1 < q
    BY <1>3
  <2> QED BY <1>3, <1>4, <2>1
<1>6. ASSUME NEW i \in 1..(L + 1) PROVE low[ms[n].items[i + 1]] = ms[n].keys[i]
  <2>1. PICK j \in 1..(L + 2) : j = i + 1
    OBVIOUS
  <2>2. CASE i < p
    <3>1. j < q /\ i \in 1..L
      BY <1>3, <2>1, <2>2
    <3>2. ms[n].items[j] = ns[n].items[j] /\ ms[n].keys[i] = ns[n].keys[i]
      BY <1>3, <2>2, <3>1
    <3> QED BY <1>4, <2>1, <3>1, <3>2
  <2>3. CASE i = p
    <3>1. ms[n].items[j] = e /\ ms[n].keys[i] = k
      BY <1>3, <2>1, <2>3
    <3> QED BY <2>1, <3>1
  <2>4. CASE i > p
    <3>1. PICK h \in 1..L : h = i - 1
      BY <1>3, <2>4
    <3>2. ~(j < q) /\ j # q /\ j - 1 = h + 1 /\ ~(i < p) /\ i # p
      BY <1>3, <2>1, <2>4, <3>1
    <3>3. ms[n].items[j] = ns[n].items[j - 1] /\ ms[n].keys[i] = ns[n].keys[i - 1]
      BY <1>3, <3>2
    <3>4. ms[n].items[j] = ns[n].items[h + 1] /\ ms[n].keys[i] = ns[n].keys[h]
      BY <3>1, <3>2, <3>3
    <3> QED BY <1>4, <2>1, <3>4
  <2> QED BY <1>3, <2>2, <2>3, <2>4
<1>7. NodeLow(ms, low, n)
  <2>1. ns[n].right # NoNode => low[ns[n].right] = ns[n].high
    BY LowAt
  <2> QED BY <1>2, <1>3, <1>5, <1>6, <2>1 DEF NodeLow
<1>8. Agree(ns, low, low) /\ low \in [DOMAIN ms -> Int]
  BY <1>2 DEF Agree, LowIs
<1>9. \A x \in DOMAIN ns \ {n} : NodeLow(ms, low, x)
  BY <1>2, <1>8, NodeLowStays
<1> QED BY <1>2, <1>7, <1>8, <1>9 DEF LowIs

\* No leaf has row id e.
Fresh(ns, e) == \A x \in Held(ns) : x[2] # e

\* Then no place of a leaf has it.
LEMMA FreshItem ==
    ASSUME NEW ns, ArenaInv(ns), NEW e, Fresh(ns, e), NEW x \in DOMAIN ns, ns[x].leaf, NEW i \in DOMAIN ns[x].items
    PROVE  ns[x].items[i] # e
<1>1. DOMAIN ns[x].items = 1..Len(ns[x].items)
  BY ArenaIs, NodeIs
<1>2. i \in DOMAIN ns[x].keys
  BY <1>1, LeafIs
<1>3. <<ns[x].keys[i], ns[x].items[i]>> \in Held(ns)
  BY <1>2, HeldIs
<1> QED BY <1>3 DEF Fresh

\* An insert into a leaf adds its own pair, and to the right of no leaf anything else.
LEMMA LeafEnlargedOrdered ==
    ASSUME NEW ns, NEW ms, NEW n \in DOMAIN ns, NEW p, NEW k \in Keys, NEW q, NEW e, ArenaInv(ns), ArenaInv(ms),
           Enlarged(ns, ms, n, p, k, q, e), ns[n].leaf, p = LowerBound(ns[n].keys, k), p = q,
           Ends(ns), OnePlace(ns), Fresh(ns, e), NEW low, LowIs(ns, low), low[n] <= k, k <= ns[n].high
    PROVE  Ordered(ns, ms, low, {<<k, e>>})
<1>1. /\ DOMAIN ms = DOMAIN ns /\ \A x \in DOMAIN ns : x # n => ms[x] = ns[x]
      /\ ms[n].leaf = ns[n].leaf /\ ms[n].right = ns[n].right
  BY DEF Enlarged
<1>2. \A x \in DOMAIN ns : ms[x].right = ns[x].right
  BY <1>1
<1>3. Ends(ms) /\ \A x \in DOMAIN ns : ChainFrom(ms, x) = ChainFrom(ns, x)
  BY <1>1, <1>2, SameChains
<1>4. OnePlace(ms)
  <2>1. (ns[n].leaf <=> TRUE) => \A x \in DOMAIN ns : (ns[x].leaf <=> TRUE) => \A i \in DOMAIN ns[x].items : ns[x].items[i] # e
    BY FreshItem
  <2>2. Distinct(ns, TRUE)
    BY DEF OnePlace
  <2>3. Distinct(ms, TRUE)
    BY <2>1, <2>2, EnlargedDistinct
  <2> QED BY <2>3 DEF OnePlace
<1>5. LowIs(ms, low) /\ Agree(ns, low, low)
  <2>1. LowIs(ms, low)
    BY LeafEnlargedLow
  <2> QED BY <2>1 DEF Agree
<1>6. PairsIn(ms[n]) = PairsIn(ns[n]) \cup {<<k, e>>}
  <2>1. Joins(ns, ms, n, <<k, e>>)
    BY EnlargedPairs
  <2> QED BY <2>1 DEF Joins
<1>7. ASSUME NEW x \in DOMAIN ns, NEW y
      PROVE  (y \in Beyond(ns, x) => y \in Beyond(ms, x)) /\ (y \in Beyond(ms, x) => y \in Beyond(ns, x) \cup {<<k, e>>})
  <2>1. ChainFrom(ns, x) \subseteq DOMAIN ns
    BY ChainCloses
  <2>2. \A z \in DOMAIN ns : y \in PairsIn(ms[z]) <=> y \in PairsIn(ns[z]) \/ (z = n /\ y = <<k, e>>)
    BY <1>1, <1>6
  <2> QED BY ONLY <1>1, <1>3, <2>1, <2>2, n \in DOMAIN ns, x \in DOMAIN ns, BeyondIs
<1> QED BY <1>3, <1>4, <1>5, <1>7 DEF Ordered

\* A new child adds no pair.
LEMMA InnerEnlargedOrdered ==
    ASSUME NEW ns, NEW ms, NEW n \in DOMAIN ns, NEW p \in Nat, NEW k, NEW q, NEW e, ArenaInv(ns), ArenaInv(ms),
           Enlarged(ns, ms, n, p, k, q, e), ~ns[n].leaf, q = p + 1,
           Ends(ns), OnePlace(ns), NEW low, LowIs(ns, low), low[e] = k
    PROVE  Ordered(ns, ms, low, {})
<1>1. /\ DOMAIN ms = DOMAIN ns /\ \A x \in DOMAIN ns : x # n => ms[x] = ns[x]
      /\ ms[n].leaf = ns[n].leaf /\ ms[n].right = ns[n].right
  BY DEF Enlarged
<1>2. \A x \in DOMAIN ns : ms[x].right = ns[x].right
  BY <1>1
<1>3. Ends(ms) /\ \A x \in DOMAIN ns : ChainFrom(ms, x) = ChainFrom(ns, x)
  BY <1>1, <1>2, SameChains
<1>4. OnePlace(ms)
  <2>1. Distinct(ns, TRUE) /\ ~(ns[n].leaf <=> TRUE)
    BY DEF OnePlace
  <2>2. Distinct(ms, TRUE)
    BY <2>1, EnlargedDistinct
  <2> QED BY <2>2 DEF OnePlace
<1>5. LowIs(ms, low) /\ Agree(ns, low, low)
  <2>1. LowIs(ms, low)
    BY InnerEnlargedLow
  <2> QED BY <2>1 DEF Agree
<1>6. ASSUME NEW x \in DOMAIN ns, NEW y PROVE y \in Beyond(ns, x) <=> y \in Beyond(ms, x)
  <2>1. ChainFrom(ns, x) \subseteq DOMAIN ns
    BY ChainCloses
  <2> QED BY <1>1, <1>3, <2>1, BeyondIs
<1> QED BY <1>3, <1>4, <1>5, <1>6 DEF Ordered

-----------------------------------------------------------------------------
(* The parts of insert() once more. *)

\* split_leaf_ and split_internal_ keep the order.
LEMMA SplitOrdered ==
    ASSUME NEW ns, Good(ns), NEW n \in DOMAIN ns, Overfull(ns[n]),
           NEW ms, ms = IF ns[n].leaf THEN SplitLeaf(ns, n) ELSE SplitInternal(ns, n),
           Ends(ns), OnePlace(ns), NEW low, LowIs(ns, low)
    PROVE  Ordered(ns, ms, low, {})
<1>1. PICK g \in Nat : g \in 1..Len(ns[n].keys) /\ Halved(ns, ms, n, g)
  <2>1. CASE ns[n].leaf
    BY <2>1, LeafHalves DEF Good
  <2>2. CASE ~ns[n].leaf
    BY <2>2, InternalHalves DEF Good
  <2> QED BY <2>1, <2>2
<1>2. ArenaInv(ns) /\ ArenaInv(ms)
  BY <1>1, HalvedArena DEF Good
<1> QED BY <1>1, <1>2, HalvedOrdered

\* So does an insert into a leaf with room.
LEMMA EntryOrdered ==
    ASSUME NEW ns, Good(ns), NEW n \in DOMAIN ns, ns[n].leaf, NEW k \in Keys, NEW e \in Ids,
           NEW ms, ms = WithEntry(ns, n, k, e),
           Ends(ns), OnePlace(ns), Fresh(ns, e), NEW low, LowIs(ns, low), low[n] <= k, k <= ns[n].high
    PROVE  Ordered(ns, ms, low, {<<k, e>>})
<1>1. PICK p : p = LowerBound(ns[n].keys, k) /\ Enlarged(ns, ms, n, p, k, p, e)
  BY EntryEnlarges DEF Good
<1>2. ArenaInv(ns) /\ ArenaInv(ms)
  BY EntryPut DEF Good, Change
<1> QED BY <1>1, <1>2, LeafEnlargedOrdered

\* So does an insert into a full leaf, with the split.
LEMMA EntrySplitOrdered ==
    ASSUME NEW ns, Good(ns), NEW n \in DOMAIN ns, ns[n].leaf, NEW k \in Keys, NEW e \in Ids,
           NEW es, es = WithEntry(ns, n, k, e), Overfull(es[n]), NEW ms, ms = SplitLeaf(es, n),
           Ends(ns), OnePlace(ns), Fresh(ns, e), NEW low, LowIs(ns, low), low[n] <= k, k <= ns[n].high
    PROVE  Ordered(ns, ms, low, {<<k, e>>})
<1>1. Good(es) /\ n \in DOMAIN es /\ DOMAIN ns \subseteq DOMAIN es /\ es[n].leaf
  BY EntryPut DEF Change, Keeps
<1>2. Ordered(ns, es, low, {<<k, e>>})
  BY EntryOrdered
<1>3. \A l : LowIs(es, l) => Ordered(es, ms, l, {})
  BY <1>1, <1>2, SplitOrdered DEF Ordered
<1>4. Ordered(ns, ms, low, {<<k, e>>} \cup {}) /\ {<<k, e>>} \cup {} = {<<k, e>>}
  BY <1>1, <1>2, <1>3, OrderedTransitive
<1> QED BY <1>4

\* So does insert_into_parent_ at a parent with room.
LEMMA ChildOrdered ==
    ASSUME NEW ns, Good(ns), NEW p \in DOMAIN ns, NEW c, HasChild(ns[p], c), NEW r \in DOMAIN ns, ~IsChild(ns, r),
           NEW sep \in Keys, NEW ms, ms = WithChild(ns, p, c, sep, r),
           Ends(ns), OnePlace(ns), NEW low, LowIs(ns, low), low[r] = sep
    PROVE  Ordered(ns, ms, low, {})
<1>1. ArenaInv(ns) /\ DOMAIN ns = 1..Len(ns) /\ Len(ns) \in Nat /\ ~ns[p].leaf /\ Good(ms) /\ ArenaInv(ms)
  <2>1. ChildIn(ns, ms, p, c, r)
    BY ChildPut
  <2>2. Good(ms)
    BY <2>1 DEF ChildIn, Change
  <2> QED BY <2>2, ArenaIs DEF Good, HasChild
<1> DEFINE es == [ns EXCEPT ![p] = PutChild(ns[p], c, sep, r)]
<1>2. ms = SetHints(es, {r}, p)
  BY DEF WithChild
<1>3. \E i, q \in Nat : /\ i \in DOMAIN ns[p].items /\ ns[p].items[i] = c /\ q = i + 1
                        /\ Enlarged(ns, es, p, i, sep, q, r)
  BY ONLY <1>1, p \in DOMAIN ns, HasChild(ns[p], c), r \in DOMAIN ns, sep \in Keys, ChildEnlarges
<1> HIDE DEF es
<1>4. PICK i, q \in Nat : q = i + 1 /\ Enlarged(ns, es, p, i, sep, q, r)
  BY <1>3
<1>5. ArenaInv(es) /\ DOMAIN es = DOMAIN ns
  <2>1. r \in (IF ns[p].leaf THEN Ids ELSE DOMAIN ns)
    BY <1>1
  <2>2. ArenaInv(es)
    BY <1>1, <1>4, <2>1, EnlargedArena
  <2> QED BY <1>4, <2>2 DEF Enlarged
<1>6. Ordered(ns, es, low, {})
  BY <1>1, <1>4, <1>5, InnerEnlargedOrdered
<1>7. HintsOnly(es, ms, {r}, p)
  <2>1. es \in Seq(Node) /\ p \in Nat
    BY <1>1, <1>5 DEF ArenaInv
  <2> QED BY <1>2, <2>1, SetHintsIs
<1>8. \A l : LowIs(es, l) => Ordered(es, ms, l, {})
  BY <1>1, <1>5, <1>6, <1>7, HintsOrdered DEF Ordered
<1>9. Ordered(ns, ms, low, {} \cup {}) /\ {} \cup {} = {}
  BY <1>5, <1>6, <1>8, OrderedTransitive
<1> QED BY <1>9

\* So does insert_into_parent_ at a full parent, with the split.
LEMMA ChildSplitOrdered ==
    ASSUME NEW ns, Good(ns), NEW p \in DOMAIN ns, NEW c, HasChild(ns[p], c), NEW r \in DOMAIN ns, ~IsChild(ns, r),
           NEW sep \in Keys, NEW es, es = WithChild(ns, p, c, sep, r),
           Overfull(es[p]), NEW ms, ms = SplitInternal(es, p),
           Ends(ns), OnePlace(ns), NEW low, LowIs(ns, low), low[r] = sep
    PROVE  Ordered(ns, ms, low, {})
<1>1. Good(es) /\ p \in DOMAIN es /\ DOMAIN ns \subseteq DOMAIN es /\ ~es[p].leaf
  BY ChildPut DEF ChildIn, Change, Keeps
<1>2. Ordered(ns, es, low, {})
  BY ChildOrdered
<1>3. \A l : LowIs(es, l) => Ordered(es, ms, l, {})
  BY <1>1, <1>2, SplitOrdered DEF Ordered
<1>4. Ordered(ns, ms, low, {} \cup {}) /\ {} \cup {} = {}
  BY <1>1, <1>2, <1>3, OrderedTransitive
<1> QED BY <1>4
=============================================================================
