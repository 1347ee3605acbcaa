----------------------------- MODULE BTreeNodes -----------------------------
(***************************************************************************)
(* The node arena of src/bplus_tree.cpp and what the tree's operations do  *)
(* to it when nobody interferes.  A tree is its arena ns, a sequence of    *)
(* nodes, and the position of its root.                                    *)
(*                                                                         *)
(* keys and items are the two parallel vectors of a node: the items of a   *)
(* leaf are row ids, those of an internal node its children, one more than *)
(* its keys.  Positions start at 1, so 0 is kNoNext, and Unbounded, above  *)
(* every key, is a high_key without a value.                               *)
(***************************************************************************)
EXTENDS Integers, SequencesExt

CONSTANTS Keys,      \* the keys that occur, as transformed by sortable_bits
          Capacity   \* node_capacity

ASSUME BTreeAssumption == /\ Keys \subseteq Nat /\ Keys # {} /\ IsFiniteSet(Keys)
                          /\ Capacity \in Nat \ {0, 1}

NoNode    == 0
Unbounded == Max(Keys) + 1
MinKeys   == Capacity \div 2

EmptyLeaf == [leaf |-> TRUE, keys |-> <<>>, items |-> <<>>,
              right |-> NoNode, high |-> Unbounded, hint |-> NoNode]

\* std::lower_bound, by bisection as in the library: of keys that are out of order it may
\* return another position than the first that is not below k.
LowerBound(keys, k) ==
    LET bisect[s \in Nat \X (0..Len(keys))] ==
          LET first == s[1]   len == s[2]   mid == first + len \div 2 IN
          IF len = 0 THEN first
          ELSE IF keys[mid] < k THEN bisect[<<mid + 1, len - len \div 2 - 1>>]
          ELSE bisect[<<first, len \div 2>>]
    IN  bisect[<<1, Len(keys)>>]

\* (mutated form of ChildFor: a key equal to a separator goes right)
ChildForRight(n, k) == n.items[1 + Cardinality({i \in DOMAIN n.keys : n.keys[i] <= k})]

\* child_index_: a key equal to a separator goes left.
ChildFor(n, k) == n.items[LowerBound(n.keys, k)]

Position(n, c) == SelectInSeq(n.items, LAMBDA x : x = c)
HasChild(n, c) == ~n.leaf /\ c \in ToSet(n.items)

PutEntry(n, k, id) == LET p == LowerBound(n.keys, k)
                      IN  [n EXCEPT !.keys = InsertAt(n.keys, p, k), !.items = InsertAt(n.items, p, id)]

\* The child right goes behind the child c, with sep between them.
PutChild(n, c, sep, right) ==
    LET p == Position(n, c)
    IN  [n EXCEPT !.keys = InsertAt(n.keys, p, sep), !.items = InsertAt(n.items, p + 1, right)]

-----------------------------------------------------------------------------
(* Splits.  Node n keeps the left half; the right half joins the arena. *)

Overfull(n) == Len(n.keys) > Capacity

\* (mutated form of Halves: the right half does not take over the right link)
HalvesCutOff(ns, n, m, f) ==
    LET l == ns[n]
    IN  Append([ns EXCEPT ![n] = [l EXCEPT !.keys = SubSeq(l.keys, 1, m), !.items = SubSeq(l.items, 1, f - 1),
                                           !.right = Len(ns) + 1, !.high = l.keys[f - 1]]],
               [l EXCEPT !.keys  = SubSeq(l.keys, f, Len(l.keys)), !.items = SubSeq(l.items, f, Len(l.items)),
                         !.right = NoNode, !.hint = NoNode])

\* Keys 1..m stay left, and so do items 1..m; the keys from f on go right.
Halves(ns, n, m, f) ==
    LET l == ns[n]
    IN  Append([ns EXCEPT ![n] = [l EXCEPT !.keys = SubSeq(l.keys, 1, m), !.items = SubSeq(l.items, 1, f - 1),
                                           !.right = Len(ns) + 1, !.high = l.keys[f - 1]]],
               [l EXCEPT !.keys  = SubSeq(l.keys, f, Len(l.keys)),
                         !.items = SubSeq(l.items, f, Len(l.items)), !.hint = NoNode])

\* A leaf's separator stays in the leaf, an internal node's leaves both halves.
SplitLeaf(ns, n)     == LET m == (Len(ns[n].keys) + 1) \div 2 IN Halves(ns, n, m, m + 1)
\* (mutated form of SplitInternal: the promoted key stays in the right half)
SplitInternalCopies(ns, n) == LET m == Len(ns[n].keys) \div 2 IN Halves(ns, n, m, m + 1)

SplitInternal(ns, n) == LET m == Len(ns[n].keys) \div 2 IN Halves(ns, n, m, m + 2)

-----------------------------------------------------------------------------
(* remove(): for one thread alone.  T is a record of an arena and a root. *)

Tree(ns, root) == [ns |-> ns, root |-> root]

\* The paths from the root to the leaves under it, from left to right.
Paths(T) ==
    LET from[n \in DOMAIN T.ns] ==
          IF T.ns[n].leaf THEN <<(<<n>>)>>
          ELSE LET under == FlattenSeq([i \in DOMAIN T.ns[n].items |-> from[T.ns[n].items[i]]])
               IN  [i \in DOMAIN under |-> <<n>> \o under[i]]
    IN  from[T.root]

Descent(T, k) ==
    LET from[n \in DOMAIN T.ns] == IF T.ns[n].leaf THEN <<n>>
                                   ELSE <<n>> \o from[ChildFor(T.ns[n], k)]
    IN  from[T.root]

EntryAt(n, k, id) == SelectInSeq([i \in DOMAIN n.keys |-> <<n.keys[i], n.items[i]>>],
                                 LAMBDA e : e = <<k, id>>)

\* (mutated form of PathToEntry: only the first leaf is looked at)
PathByDescent(T, k, id) == IF EntryAt(T.ns[Last(Descent(T, k))], k, id) = 0
                           THEN <<>> ELSE Descent(T, k)

\* The path to the leaf that holds <<k, id>>, or none: the walk goes from leaf to leaf
\* while the keys end with k and the next leaf begins with it.
PathToEntry(T, k, id) ==
    LET paths == Paths(T)
        leaf(i) == T.ns[Last(paths[i])]
        start == CHOOSE i \in DOMAIN paths : paths[i] = Descent(T, k)
        reached(i) == /\ \A j \in start..(i - 1) : \A x \in ToSet(leaf(j).keys) : x <= k
                      /\ \A j \in (start + 1)..i : leaf(j).keys # <<>> /\ Head(leaf(j).keys) = k
        hits  == {i \in start..Len(paths) : reached(i) /\ EntryAt(leaf(i), k, id) # 0}
    IN  IF hits = {} THEN <<>> ELSE paths[Min(hits)]

SetHints(ns, cs, p) == [n \in DOMAIN ns |-> IF n \in cs THEN [ns[n] EXCEPT !.hint = p] ELSE ns[n]]

\* Child c of p, and its neighbour one to the right, share their entries anew.
BorrowFromRight(ns, p, c) ==
    LET i == Position(ns[p], c)   r == ns[p].items[i + 1]
        sep == Head(ns[r].keys)   moved == Head(ns[r].items)
        new == [ns EXCEPT
          ![c] = [@ EXCEPT !.keys  = Append(@, IF ns[c].leaf THEN sep ELSE ns[p].keys[i]),
                           !.items = Append(@, moved), !.high = sep],
          ![r] = [@ EXCEPT !.keys = Tail(@), !.items = Tail(@)],
          ![p] = [@ EXCEPT !.keys[i] = sep]]
    IN  IF ns[c].leaf THEN new ELSE SetHints(new, {moved}, c)

BorrowFromLeft(ns, p, c) ==
    LET i == Position(ns[p], c) - 1   l == ns[p].items[i]
        moved == Last(ns[l].items)
        sep == IF ns[c].leaf THEN Last(Front(ns[l].keys)) ELSE Last(ns[l].keys)
        new == [ns EXCEPT
          ![c] = [@ EXCEPT !.keys  = <<IF ns[c].leaf THEN Last(ns[l].keys) ELSE ns[p].keys[i]>> \o @,
                           !.items = <<moved>> \o @],
          ![l] = [@ EXCEPT !.keys = Front(@), !.items = Front(@), !.high = sep],
          ![p] = [@ EXCEPT !.keys[i] = sep]]
    IN  IF ns[c].leaf THEN new ELSE SetHints(new, {moved}, c)

\* (mutated form of MergeWithRight: the absorbed children keep their hints)
MergeKeepingHints(ns, p, i) ==
    LET l == ns[p].items[i]   r == ns[p].items[i + 1]
        between == IF ns[l].leaf THEN <<>> ELSE <<ns[p].keys[i]>>
    IN  [ns EXCEPT
          ![l] = [@ EXCEPT !.keys = @ \o between \o ns[r].keys, !.items = @ \o ns[r].items,
                           !.right = ns[r].right, !.high = ns[r].high],
          ![p] = [@ EXCEPT !.keys = RemoveAt(@, i), !.items = RemoveAt(@, i + 1)]]

\* The i-th child of p absorbs its right neighbour, which leaves the tree.
MergeWithRight(ns, p, i) ==
    LET l == ns[p].items[i]   r == ns[p].items[i + 1]
        between == IF ns[l].leaf THEN <<>> ELSE <<ns[p].keys[i]>>
        new == [ns EXCEPT
          ![l] = [@ EXCEPT !.keys = @ \o between \o ns[r].keys, !.items = @ \o ns[r].items,
                           !.right = ns[r].right, !.high = ns[r].high],
          ![p] = [@ EXCEPT !.keys = RemoveAt(@, i), !.items = RemoveAt(@, i + 1)]]
    IN  IF ns[l].leaf THEN new ELSE SetHints(new, ToSet(ns[r].items), l)

\* One turn of rebalance_after_erase_ at node W.node with its parent p.
Rebalance(W, p) ==
    LET ns == W.ns   c == W.node
        i == Position(ns[p], c)
        hasRight == i < Len(ns[p].items)
        spare(j) == Len(ns[ns[p].items[j]].keys) > MinKeys
    IN  IF W.done \/ Len(ns[c].keys) >= MinKeys THEN [W EXCEPT !.done = TRUE]
        ELSE IF hasRight /\ spare(i + 1) THEN [W EXCEPT !.ns = BorrowFromRight(ns, p, c), !.done = TRUE]
        ELSE IF i > 1 /\ spare(i - 1)    THEN [W EXCEPT !.ns = BorrowFromLeft(ns, p, c), !.done = TRUE]
        ELSE [W EXCEPT !.ns = MergeWithRight(ns, p, IF hasRight THEN i ELSE i - 1), !.node = p]

\* (mutated form of Collapse: the new root keeps the bounds and the parent it had)
CollapseKeepingHint(ns, root) ==
    IF ns[root].leaf \/ ns[root].keys # <<>> THEN Tree(ns, root)
    ELSE Tree(ns, Head(ns[root].items))

\* A root with one child left hands over to it.
Collapse(ns, root) ==
    IF ns[root].leaf \/ ns[root].keys # <<>> THEN Tree(ns, root)
    ELSE LET c == Head(ns[root].items)
         IN  Tree([ns EXCEPT ![c].high = Unbounded, ![c].right = NoNode, ![c].hint = NoNode], c)

\* The tree without <<k, id>>, or the tree itself if the pair is not found.
Without(T, k, id) ==
    LET path == PathToEntry(T, k, id)
        leaf == Last(path)
        at   == EntryAt(T.ns[leaf], k, id)
        erased == [T.ns EXCEPT ![leaf] = [@ EXCEPT !.keys = RemoveAt(@, at), !.items = RemoveAt(@, at)]]
        W == FoldLeft(Rebalance, [ns |-> erased, node |-> leaf, done |-> FALSE], Reverse(Front(path)))
    IN  IF path = <<>> THEN T ELSE IF W.done THEN Tree(W.ns, T.root) ELSE Collapse(W.ns, T.root)
=============================================================================
