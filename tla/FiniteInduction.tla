-------------------------- MODULE FiniteInduction --------------------------
(***************************************************************************)
(* Induction over a range of naturals, and what it shows of finite sets:   *)
(* the principles the proofs about recursively defined functions and about *)
(* the nearest and the farthest of some nodes rest on.                     *)
(***************************************************************************)
EXTENDS Integers, FiniteSetTheorems, TLAPS

(* A set of naturals that is not empty has a least element.  *)
LEMMA LeastElement ==
    ASSUME NEW T \in SUBSET Nat, T # {}
    PROVE  \E m \in T : \A k \in T : m <= k
<1> DEFINE U == {0..(k - 1) : k \in T}
<1>1. IsWellFoundedOn(StrictSubsetOrdering(Nat), FiniteSubsetsOf(Nat))
  BY FS_StrictSubsetOrderingWellFounded
<1>2. U \subseteq FiniteSubsetsOf(Nat) 
  <2> SUFFICES ASSUME NEW k \in T PROVE 0..(k - 1) \in FiniteSubsetsOf(Nat)
    OBVIOUS
  <2>1. 0..(k - 1) \subseteq Nat /\ IsFiniteSet(0..(k - 1))
    BY FS_Interval
  <2> QED BY <2>1 DEF FiniteSubsetsOf
<1>3. U # {}
  OBVIOUS
<1> HIDE DEF U
<1>4. PICK u \in U : \A v \in U : <<v, u>> \notin StrictSubsetOrdering(Nat)
  BY <1>1, <1>2, <1>3, WFMin
<1>5. PICK m \in T : u = 0..(m - 1)
  BY DEF U
<1>6. ASSUME NEW k \in T, k < m PROVE FALSE
  <2>1. 0..(k - 1) \in U
    BY DEF U
  <2>2. 0..(k - 1) \subseteq 0..(m - 1) /\ 0..(k - 1) # 0..(m - 1)
    <3>1. k \in 0..(m - 1) /\ k \notin 0..(k - 1)
      BY <1>6
    <3> QED BY <1>6, <3>1
  <2>3. <<0..(k - 1), u>> \in StrictSubsetOrdering(Nat)
    BY <1>5, <2>2 DEF StrictSubsetOrdering
  <2> QED BY <1>4, <2>1, <2>3
<1> QED BY <1>6

(* Induction over a set of naturals. *)
LEMMA Induction ==
    ASSUME NEW N \in Nat, NEW T, 0 \in T, \A n \in 0..(N - 1) : n \in T => n + 1 \in T
    PROVE  0..N \subseteq T
<1> SUFFICES ASSUME (0..N) \ T # {} PROVE FALSE
  OBVIOUS
<1>1. PICK m \in (0..N) \ T : \A k \in (0..N) \ T : m <= k
  <2>1. (0..N) \ T \in SUBSET Nat
    OBVIOUS
  <2> QED BY <2>1, LeastElement
<1>2. m # 0 /\ m - 1 \in 0..(N - 1) /\ m - 1 \in 0..N /\ ~(m <= m - 1)
  BY <1>1
<1>3. m - 1 \in T
  BY <1>1, <1>2
<1>4. (m - 1) + 1 = m
  BY <1>1
<1> QED BY <1>1, <1>2, <1>3, <1>4

-----------------------------------------------------------------------------
(* The least and the greatest value of a function on a finite set. *)

(* A finite set that is not empty has an element of greatest value. *)
LEMMA GreatestValue ==
    ASSUME NEW S, IsFiniteSet(S), S # {}, NEW f, \A x \in S : f[x] \in Int
    PROVE  \E x \in S : \A y \in S : f[y] <= f[x]
<1> DEFINE HasGreatest(A) == \E x \in A : \A y \in A : f[y] <= f[x]
           T == {n \in Nat : \A A \in SUBSET S : Cardinality(A) = n /\ A # {} => HasGreatest(A)}
<1>1. 0 \in T
  <2> SUFFICES ASSUME NEW A \in SUBSET S, Cardinality(A) = 0 PROVE A = {}
    OBVIOUS
  <2> QED BY FS_Subset, FS_EmptySet
<1>2. ASSUME NEW n \in Nat, n \in T PROVE n + 1 \in T
  <2> SUFFICES ASSUME NEW A \in SUBSET S, Cardinality(A) = n + 1, A # {} PROVE HasGreatest(A)
    OBVIOUS
  <2>1. PICK a \in A : TRUE
    OBVIOUS
  <2>2. Cardinality(A \ {a}) = n /\ A \ {a} \in SUBSET S
    <3>1. IsFiniteSet(A)
      BY FS_Subset
    <3>2. Cardinality(A \ {a}) = Cardinality(A) - 1
      BY <2>1, <3>1, FS_RemoveElement
    <3> QED BY <3>2
  <2>3. CASE A \ {a} = {}
    BY <2>1, <2>3
  <2>4. CASE A \ {a} # {}
    <3>1. PICK x \in A \ {a} : \A y \in A \ {a} : f[y] <= f[x]
      BY <1>2, <2>2, <2>4
    <3>2. CASE f[a] <= f[x]
      BY <3>1, <3>2
    <3>3. CASE ~(f[a] <= f[x])
      <4>1. \A y \in A : f[y] <= f[a]
        BY <2>1, <3>1, <3>3
      <4> QED BY <2>1, <4>1
    <3> QED BY <3>2, <3>3
  <2> QED BY <2>3, <2>4
<1>3. Cardinality(S) \in Nat
  BY FS_CardinalityType
<1> HIDE DEF T
<1>4. Cardinality(S) \in T
  BY <1>1, <1>2, <1>3, Induction
<1> QED BY <1>4 DEF T

(* And one of least value. *)
LEMMA LeastValue ==
    ASSUME NEW S, IsFiniteSet(S), S # {}, NEW f, \A x \in S : f[x] \in Int
    PROVE  \E x \in S : \A y \in S : f[x] <= f[y]
<1> DEFINE g == [x \in S |-> 0 - f[x]]
<1>1. \A x \in S : g[x] \in Int
  OBVIOUS
<1> HIDE DEF g
<1>2. PICK x \in S : \A y \in S : g[y] <= g[x]
  BY <1>1, GreatestValue
<1>3. \A y \in S : g[y] = 0 - f[y]
  BY DEF g
<1> QED BY <1>2, <1>3
=============================================================================
