------------------------------ MODULE Metadata ------------------------------
(***************************************************************************)
(* The metadata store of src/metadata.cpp: one typed column per attribute, *)
(* keyed by internal id, and what is derived from the columns as they      *)
(* change: the live count of every code, the postings, and the B+-tree of  *)
(* an indexed column.  A store is a record; each operator below returns    *)
(* the store its method leaves behind.                                     *)
(*                                                                         *)
(* Data.  A value is a set of codes: one for a Tag, Bool or number, the    *)
(* distinct terms of a Text (which may have none), NoValue when absent.    *)
(* Dictionaries are left out, since a string is interned under one code    *)
(* and keeps it; document lengths are summed where documents are counted.  *)
(* Internal ids start at 1 here, and the B+-tree is the set of its pairs.  *)
(***************************************************************************)
EXTENDS Integers, Sequences, FiniteSets, Bags

CONSTANTS Attrs,      \* the attributes of the schema
          AttrType,   \* "Tag" (Bool too), "Text", "Indexed" (a number), or "Plain"
          Codes,      \* the codes: interned strings, terms, sortable keys
          NoValue,    \* the value of an absent attribute
          SignBit     \* the sign bit of a number and of a B+-tree key: 2^63 in the code

ASSUME SchemaAssumption ==
    /\ AttrType \in [Attrs -> {"Tag", "Text", "Indexed", "Plain"}]
    /\ SignBit \in Nat \ {0}
    /\ Codes \subseteq -SignBit..(SignBit - 1)

Values(a) == {NoValue} \cup (IF AttrType[a] = "Text" THEN SUBSET Codes ELSE {{c} : c \in Codes})

Posted(a)  == AttrType[a] \in {"Tag", "Text"}
CodesOf(v) == IF v = NoValue THEN {} ELSE v

NoPostings == [a \in Attrs |-> [c \in Codes |-> EmptyBag]]
NoTree     == [a \in Attrs |-> {}]
NoRows     == [data |-> <<>>,
               count |-> [a \in Attrs |-> [c \in Codes |-> 0]], docs |-> [a \in Attrs |-> 0],
               postings |-> NoPostings, tree |-> NoTree]

Has(m, id, a, c) == c \in CodesOf(m.data[id][a])

-----------------------------------------------------------------------------
(* The derived state of one row. *)

\* adjust_count_: the row's codes count n more live rows, and a text column n documents.
AdjustCount(m, id, n) ==
    [m EXCEPT
       !.count = [a \in Attrs |-> [c \in Codes |->
                    IF Posted(a) /\ Has(m, id, a, c) THEN @[a][c] + n ELSE @[a][c]]],
       !.docs  = [a \in Attrs |->
                    IF AttrType[a] = "Text" /\ m.data[id][a] # NoValue THEN @[a] + n ELSE @[a]]]

\* sortable_bits(int64_t): two's complement with the sign bit flipped, so that unsigned
\* comparison of keys is signed comparison of numbers.  Doubles are their order alone.
SortableBits(v) == ((v % (2 * SignBit)) + SignBit) % (2 * SignBit)

\* The pairs adjust_index_ inserts or removes for the row.
TreePairs(m, id, a) ==
    IF AttrType[a] = "Indexed"
    THEN {SortableBits(c) : c \in CodesOf(m.data[id][a])} \X {id} ELSE {}

\* add_posting_: entries are only ever added.
AddPostings(m, id) ==
    [m EXCEPT !.postings = [a \in Attrs |-> [c \in Codes |->
       IF Posted(a) /\ Has(m, id, a, c) THEN @[a][c] (+) SetToBag({id}) ELSE @[a][c]]]]

\* The row has become visible to search ...
MarkLive(m, id) ==
    [AdjustCount(m, id, 1) EXCEPT !.tree = [a \in Attrs |-> @[a] \cup TreePairs(m, id, a)]]

\* ... or has stopped being visible.
MarkDead(m, id) ==
    [AdjustCount(m, id, -1) EXCEPT !.tree = [a \in Attrs |-> @[a] \ TreePairs(m, id, a)]]

-----------------------------------------------------------------------------
(* The methods. *)

\* A row is posted at once, and counted when it is published.
AppendRow(m, rec) == AddPostings([m EXCEPT !.data = Append(@, rec)], Len(m.data) + 1)

\* (mutated form of AppendRowCopy: the copy of the last row)
AppendRowCopyLast(m, src) == AppendRow(m, m.data[Len(m.data)])

AppendRowCopy(m, src) == AppendRow(m, m.data[src])

\* (mutated form of SetRow: the overwritten value stays counted)
SetRowCounted(m, id, rec) ==
    AddPostings(MarkLive([m EXCEPT !.data[id] = rec], id), id)

\* The old value of a live row is uncounted and taken out of the tree before it is
\* overwritten; its postings stay.
SetRow(m, id, rec) ==
    AddPostings(MarkLive([MarkDead(m, id) EXCEPT !.data[id] = rec], id), id)

\* Postings and trees rebuilt from the rows ids, and from nothing else.
Derived(m, ids) ==
    [m EXCEPT
       !.postings = [a \in Attrs |-> [c \in Codes |->
                       SetToBag({i \in ids : Posted(a) /\ Has(m, i, a, c)})]],
       !.tree = [a \in Attrs |-> UNION {TreePairs(m, i, a) : i \in ids}]]

\* (mutated form of Permute: the postings are carried over)
PermuteKeepsPostings(m, live) ==
    LET rows == [i \in 1..Len(live) |-> m.data[live[i]]]
    IN  [Derived([m EXCEPT !.data = rows], 1..Len(live)) EXCEPT !.postings = m.postings]

\* (mutated form of Permute: the rows are cut off, not moved)
PermuteCuts(m, live) ==
    Derived([m EXCEPT !.data = SubSeq(@, 1, Len(live))], 1..Len(live))

\* Row i is what was row live[i]; the counts stand, for only live rows are kept.
Permute(m, live) ==
    LET rows == [i \in 1..Len(live) |-> m.data[live[i]]]
    IN  Derived([m EXCEPT !.data = rows], 1..Len(live))

\* serialize() writes the columns and what they hold, and nothing derived from them;
\* deserialize() sizes the derived state of a fresh store and leaves it empty.
Serialized(m)   == [data |-> m.data]
Deserialized(s) == [NoRows EXCEPT !.data = s.data]

\* rebuild_derived_state, when a snapshot has brought back the columns alone.
Rebuild(m, deleted) ==
    LET live == {i \in 1..Len(m.data) : ~deleted[i]}
    IN  [Derived(m, live) EXCEPT
           !.count = [a \in Attrs |-> [c \in Codes |->
                        Cardinality({i \in live : Posted(a) /\ Has(m, i, a, c)})]],
           !.docs = [a \in Attrs |->
                        Cardinality({i \in live : AttrType[a] = "Text" /\ m.data[i][a] # NoValue})]]

-----------------------------------------------------------------------------
(* Queries. *)

\* resolve() of an equality: the live entries of the postings, with their repetitions.
ResolveEq(m, deleted, a, c) ==
    [i \in {j \in DOMAIN m.postings[a][c] : ~deleted[j]} |-> m.postings[a][c][i]]

\* resolve() of a range on an indexed column.
ResolveRange(m, a, lo, hi) ==
    {p[2] : p \in {q \in m.tree[a] : SortableBits(lo) <= q[1] /\ q[1] <= SortableBits(hi)}}

\* The documents search_text() scores for the query terms.
TextCandidates(m, deleted, a, terms) ==
    {i \in UNION {DOMAIN m.postings[a][c] : c \in terms} :
       ~deleted[i] /\ m.data[i][a] # NoValue}
=============================================================================
