------------------------- MODULE DurableVDBProofs ---------------------------
(***************************************************************************)
(* Theorems about DurableVDB, for every set of threads, every rule for     *)
(* automatic checkpoints and every combination of faults:                  *)
(*   Safety                   SafetyInv is an invariant                    *)
(*   PromisesKept             PromisesSurvive is an invariant              *)
(*   StrictlyVisible          DurableLsnIsTrue, StrictVisibility, when     *)
(*                            all crashes are power failures               *)
(* and about its threads and the records in their hands:                   *)
(*   TypesHold                TypeOK                                       *)
(*   OneLeader, LeaderIsReal  LeaderInv, SyncingMeansALeader               *)
(*   NoRefusedRows            RowsAccepted                                 *)
(*   CheckpointsAreConsistent SnapshotSeesEveryLoggedOp                    *)
(*   SomebodyWillWakeThem     NobodySleepsAlone                            *)
(* The argument is inductive: Init establishes the invariant and each      *)
(* action keeps it, one lemma for each action that touches what the        *)
(* invariant speaks of, and one for all the actions that touch little.     *)
(*                                                                         *)
(* The first part is about WalRecords alone, what replaying a log does,    *)
(* for every log:                                                          *)
(*   ReplayFromSnapshot   a snapshot and the records past it make the same *)
(*                        store as the whole log                           *)
(*   ReplayOutOfOrder     a record applied late leaves the store it would  *)
(*                        have left in its turn, when those behind it are  *)
(*                        of other ids                                     *)
(*   ReplayOfPrefix       a replay depends on the records it applies alone *)
(*   ReplayIsDb           it keeps the type of the store                   *)
(* Replay is defined by recursion on the length of the log: IsRun names    *)
(* the function it defines, RunExists shows that there is one.             *)
(***************************************************************************)
EXTENDS DurableVDBInductive, FiniteInduction, SequenceTheorems

-----------------------------------------------------------------------------
(* Replay is what its recursive definition says. *)

\* f[n] is the store after the records up to n of log whose lsn is in S.
IsRun(f, log, d, S, N) ==
    f = [n \in 0..N |-> IF n = 0 THEN d
                        ELSE IF n \in S THEN ApplyTo(f[n - 1], log[n]) ELSE f[n - 1]]

(* The replay loop of recover_ reaches the end of every log. *)
LEMMA RunExists ==
    ASSUME NEW log, NEW d, NEW S, NEW N \in Nat
    PROVE  \E f : IsRun(f, log, d, S, N)
<1> DEFINE T == {n \in 0..N : \E f : IsRun(f, log, d, S, n)}
<1>1. 0 \in T
  <2>1. IsRun([n \in 0..0 |-> d], log, d, S, 0)
    BY DEF IsRun
  <2> QED BY <2>1
<1>2. ASSUME NEW n \in 0..(N - 1), n \in T PROVE n + 1 \in T
  <2>1. PICK f : IsRun(f, log, d, S, n)
    BY <1>2
  <2> DEFINE x == IF n + 1 \in S THEN ApplyTo(f[n], log[n + 1]) ELSE f[n]
  <2> DEFINE g == [i \in 0..(n + 1) |-> IF i = n + 1 THEN x ELSE f[i]]
  <2>2. \A i \in 0..n : g[i] = f[i] /\ f[i] = IF i = 0 THEN d
                        ELSE IF i \in S THEN ApplyTo(f[i - 1], log[i]) ELSE f[i - 1]
    BY <2>1 DEF IsRun
  <2>3. g[n + 1] = x /\ g[n] = f[n]
    OBVIOUS
  <2>4. \A i \in 0..(n + 1) : g[i] = IF i = 0 THEN d
                        ELSE IF i \in S THEN ApplyTo(g[i - 1], log[i]) ELSE g[i - 1]
    <3> SUFFICES ASSUME NEW i \in 0..(n + 1)
        PROVE g[i] = IF i = 0 THEN d
                     ELSE IF i \in S THEN ApplyTo(g[i - 1], log[i]) ELSE g[i - 1]
      OBVIOUS
    <3> HIDE DEF g
    <3>1. CASE i = n + 1
      BY <3>1, <2>3
    <3>2. CASE i \in 1..n
      <4>1. i - 1 \in 0..n /\ i \in 0..n /\ i # 0
        BY <3>2
      <4> QED BY <4>1, <2>2
    <3>3. CASE i = 0
      BY <3>3, <2>2
    <3> QED BY <3>1, <3>2, <3>3
  <2>5. g = [i \in 0..(n + 1) |-> g[i]]
    OBVIOUS
  <2> HIDE DEF g
  <2>6. IsRun(g, log, d, S, n + 1)
    BY <2>4, <2>5 DEF IsRun
  <2>7. n + 1 \in 0..N
    OBVIOUS
  <2> QED BY <2>6, <2>7
<1> HIDE DEF T
<1>3. N \in T
  BY <1>1, <1>2, Induction
<1> QED BY <1>3 DEF T

(* Replay(log, d, S) is the last state of a run. *)
LEMMA ReplayIsRun ==
    ASSUME NEW log, NEW d, NEW S, Len(log) \in Nat
    PROVE  \E f : IsRun(f, log, d, S, Len(log)) /\ Replay(log, d, S) = f[Len(log)]
<1>1. \E f : IsRun(f, log, d, S, Len(log))
  BY RunExists
<1> DEFINE g == CHOOSE f : IsRun(f, log, d, S, Len(log))
<1>2. IsRun(g, log, d, S, Len(log))
  BY <1>1
<1>3. Replay(log, d, S) = g[Len(log)]
  BY DEF Replay, IsRun
<1> QED BY <1>2, <1>3

(* One step of a run. *)
LEMMA RunStep ==
    ASSUME NEW log, NEW d, NEW S, NEW N \in Nat, NEW f, IsRun(f, log, d, S, N)
    PROVE  /\ f[0] = d
           /\ \A n \in 0..(N - 1) :
                 f[n + 1] = IF n + 1 \in S THEN ApplyTo(f[n], log[n + 1]) ELSE f[n]
<1>1. \A i \in 0..N : f[i] = IF i = 0 THEN d
                        ELSE IF i \in S THEN ApplyTo(f[i - 1], log[i]) ELSE f[i - 1]
  BY DEF IsRun
<1>2. f[0] = d
  BY <1>1
<1>3. ASSUME NEW n \in 0..(N - 1)
      PROVE  f[n + 1] = IF n + 1 \in S THEN ApplyTo(f[n], log[n + 1]) ELSE f[n]
  <2>1. n + 1 \in 0..N /\ n + 1 # 0 /\ (n + 1) - 1 = n
    OBVIOUS
  <2> QED BY <2>1, <1>1
<1> QED BY <1>2, <1>3

-----------------------------------------------------------------------------
(* What Replay depends on. *)

\* Up to lsn k, a replay of S1 of l1 reads what a replay of S2 of l2 reads.
ReadAlike(l1, S1, l2, S2, k) ==
    \A n \in 1..k : (n \in S1 <=> n \in S2) /\ (n \in S1 => l1[n] = l2[n])

(* Two replays that read the same records up to lsn k are in the same state there. *)
LEMMA RunsAgree ==
    ASSUME NEW l1, NEW l2, NEW d, NEW S1, NEW S2, NEW N1 \in Nat, NEW N2 \in Nat, NEW f, NEW g,
           IsRun(f, l1, d, S1, N1), IsRun(g, l2, d, S2, N2),
           NEW k \in Nat, k <= N1, k <= N2, ReadAlike(l1, S1, l2, S2, k)
    PROVE  \A n \in 0..k : f[n] = g[n]
<1> DEFINE T == {n \in 0..k : f[n] = g[n]}
<1>1. 0 \in T
  <2>1. f[0] = d
    BY DEF IsRun
  <2>2. g[0] = d
    BY DEF IsRun
  <2> QED BY <2>1, <2>2
<1>2. ASSUME NEW n \in 0..(k - 1), n \in T PROVE n + 1 \in T
  <2>1. n \in 0..(N1 - 1) /\ n \in 0..(N2 - 1) /\ n + 1 \in 1..k
    OBVIOUS
  <2>2. f[n + 1] = IF n + 1 \in S1 THEN ApplyTo(f[n], l1[n + 1]) ELSE f[n]
    <3>1. \A i \in 0..(N1 - 1) : f[i + 1] = IF i + 1 \in S1 THEN ApplyTo(f[i], l1[i + 1]) ELSE f[i]
      BY RunStep
    <3> QED BY ONLY <2>1, <3>1
  <2>3. g[n + 1] = IF n + 1 \in S2 THEN ApplyTo(g[n], l2[n + 1]) ELSE g[n]
    <3>1. \A i \in 0..(N2 - 1) : g[i + 1] = IF i + 1 \in S2 THEN ApplyTo(g[i], l2[i + 1]) ELSE g[i]
      BY RunStep
    <3> QED BY ONLY <2>1, <3>1
  <2> QED BY <1>2, <2>1, <2>2, <2>3 DEF ReadAlike
<1> HIDE DEF T
<1>3. 0..k \subseteq T
  BY <1>1, <1>2, Induction
<1> QED BY <1>3 DEF T

(* A replay stands still where it has no record to apply, or only records that change nothing. *)
LEMMA RunStands ==
    ASSUME NEW l, NEW d, NEW S, NEW N \in Nat, NEW f, IsRun(f, l, d, S, N),
           NEW k \in 0..N, \A n \in (k + 1)..N : n \notin S
    PROVE  f[N] = f[k]
<1> DEFINE T == {n \in Nat : n <= N /\ (n >= k => f[n] = f[k])}
<1>1. 0 \in T
  OBVIOUS
<1>2. ASSUME NEW n \in 0..(N - 1), n \in T PROVE n + 1 \in T
  <2>1. f[n + 1] = IF n + 1 \in S THEN ApplyTo(f[n], l[n + 1]) ELSE f[n]
    BY RunStep
  <2>2. CASE n >= k
    <3>1. n + 1 \in (k + 1)..N
      BY <2>2
    <3> QED BY <1>2, <2>1, <2>2, <3>1
  <2>3. CASE n < k
    BY <2>3
  <2> QED BY <2>2, <2>3
<1> HIDE DEF T
<1>3. 0..N \subseteq T
  BY <1>1, <1>2, Induction
<1> QED BY <1>3 DEF T

\* S is a set of lsns up to k, and up to k the two logs are there and hold the same records.
SameUpTo(l1, l2, S, k) == /\ k <= Len(l1) /\ k <= Len(l2) /\ S \subseteq 1..k
                          /\ \A n \in 1..k : l1[n] = l2[n]

(* What a replay of the records in 1..k comes to depends on those records alone: not on what
   was logged since, nor on what a crash cut off behind them.                                *)
THEOREM ReplayOfPrefix ==
    ASSUME NEW l1, NEW l2, NEW d, NEW S, Len(l1) \in Nat, Len(l2) \in Nat,
           NEW k \in Nat, SameUpTo(l1, l2, S, k)
    PROVE  Replay(l1, d, S) = Replay(l2, d, S)
<1>1. PICK f : IsRun(f, l1, d, S, Len(l1)) /\ Replay(l1, d, S) = f[Len(l1)]
  BY ReplayIsRun
<1>2. PICK g : IsRun(g, l2, d, S, Len(l2)) /\ Replay(l2, d, S) = g[Len(l2)]
  BY ReplayIsRun
<1>0. /\ k <= Len(l1) /\ k <= Len(l2) /\ S \subseteq 1..k
      /\ \A n \in 1..k : l1[n] = l2[n]
  BY DEF SameUpTo
<1>3. f[k] = g[k]
  <2>1. IsRun(f, l1, d, S, Len(l1)) /\ IsRun(g, l2, d, S, Len(l2))
    BY <1>1, <1>2
  <2>2. ReadAlike(l1, S, l2, S, k)
    BY <1>0 DEF ReadAlike
  <2>3. \A n \in 0..k : f[n] = g[n]
    BY <1>0, <2>1, <2>2, RunsAgree
  <2> QED BY <2>3
<1>4. f[Len(l1)] = f[k]
  <2>1. k \in 0..Len(l1) /\ \A n \in (k + 1)..Len(l1) : n \notin S
    BY <1>0
  <2>2. IsRun(f, l1, d, S, Len(l1))
    BY <1>1
  <2> QED BY <2>1, <2>2, RunStands
<1>5. g[Len(l2)] = g[k]
  <2>1. k \in 0..Len(l2) /\ \A n \in (k + 1)..Len(l2) : n \notin S
    BY <1>0
  <2>2. IsRun(g, l2, d, S, Len(l2))
    BY <1>2
  <2> QED BY <2>1, <2>2, RunStands
<1> QED BY <1>1, <1>2, <1>3, <1>4, <1>5

\* A record apply_ passes over: it changes no store.
IsNoOp(r) == r.type \notin {"Insert", "Update", "SetMeta", "Delete"}

(* Recovery from a snapshot that covers the records up to s, then from those of T past it, comes
   to the replay of the whole log, if what is in neither changes nothing.                     *)
THEOREM ReplayFromSnapshot ==
    ASSUME NEW l, NEW d, Len(l) \in Nat, NEW s \in 0..Len(l), NEW T, T \subseteq (s + 1)..Len(l),
           \A n \in (s + 1)..Len(l) : n \in T \/ IsNoOp(l[n])
    PROVE  Replay(l, Replay(l, d, 1..s), T) = Replay(l, d, 1..Len(l))
<1> DEFINE N == Len(l)
<1>1. PICK f : IsRun(f, l, d, 1..s, N) /\ Replay(l, d, 1..s) = f[N]
  BY ReplayIsRun
<1>2. PICK g : IsRun(g, l, f[N], T, N) /\ Replay(l, f[N], T) = g[N]
  BY ReplayIsRun
<1>3. PICK h : IsRun(h, l, d, 1..N, N) /\ Replay(l, d, 1..N) = h[N]
  BY ReplayIsRun
<1>4. f[N] = h[s]
  <2>0. s \in Nat /\ s <= N /\ ReadAlike(l, 1..s, l, 1..N, s)
    BY DEF ReadAlike
  <2>1. \A n \in 0..s : f[n] = h[n]
    BY <1>1, <1>3, <2>0, RunsAgree
  <2>2. f[N] = f[s]
    BY <1>1, RunStands
  <2> QED BY <2>1, <2>2
<1> DEFINE U == {n \in Nat : n <= N /\ IF n >= s THEN g[n] = h[n] ELSE g[n] = f[N]}
<1>5. 0 \in U
  <2>1. g[0] = f[N]
    <3>1. 0 \in 0..N
      OBVIOUS
    <3> QED BY <1>2, <3>1 DEF IsRun
  <2> QED BY <1>4, <2>1
<1>6. ASSUME NEW n \in 0..(N - 1), n \in U PROVE n + 1 \in U
  <2>1. g[n + 1] = IF n + 1 \in T THEN ApplyTo(g[n], l[n + 1]) ELSE g[n]
    BY <1>2, RunStep
  <2>2. h[n + 1] = ApplyTo(h[n], l[n + 1])
    <3>1. n + 1 \in 1..N
      OBVIOUS
    <3> QED BY <1>3, <3>1, RunStep
  <2>3. CASE n >= s
    <3>1. n + 1 \in T \/ IsNoOp(l[n + 1])
      BY <2>3
    <3>2. CASE n + 1 \in T
      BY <1>6, <2>1, <2>2, <2>3, <3>2
    <3>3. CASE n + 1 \notin T /\ IsNoOp(l[n + 1])
      <4>1. ApplyTo(h[n], l[n + 1]) = h[n]
        BY <3>3 DEF IsNoOp, ApplyTo
      <4> QED BY <1>6, <2>1, <2>2, <2>3, <3>3, <4>1
    <3> QED BY <3>1, <3>2, <3>3
  <2>4. CASE n < s
    <3>1. n + 1 \notin T
      BY <2>4
    <3>2. g[n + 1] = f[N]
      BY <1>6, <2>1, <2>4, <3>1
    <3>3. CASE n + 1 = s
      BY <1>4, <3>2, <3>3
    <3>4. CASE n + 1 < s
      BY <3>2, <3>4
    <3> QED BY <2>4, <3>3, <3>4
  <2> QED BY <2>3, <2>4
<1> HIDE DEF U
<1>7. 0..N \subseteq U
  BY <1>5, <1>6, Induction
<1>8. g[N] = h[N]
  BY <1>7 DEF U
<1> QED BY <1>1, <1>2, <1>3, <1>8

(* Records that change nothing need not be replayed. *)
LEMMA ReplayWithoutNoOps ==
    ASSUME NEW l, NEW d, Len(l) \in Nat, NEW S, \A n \in 1..Len(l) : n \in S \/ IsNoOp(l[n])
    PROVE  Replay(l, d, S) = Replay(l, d, 1..Len(l))
<1> DEFINE N == Len(l)
<1>1. PICK f : IsRun(f, l, d, S, N) /\ Replay(l, d, S) = f[N]
  BY ReplayIsRun
<1>2. PICK h : IsRun(h, l, d, 1..N, N) /\ Replay(l, d, 1..N) = h[N]
  BY ReplayIsRun
<1> DEFINE U == {n \in 0..N : f[n] = h[n]}
<1>3. 0 \in U
  <2>1. f[0] = d
    BY <1>1 DEF IsRun
  <2>2. h[0] = d
    BY <1>2 DEF IsRun
  <2> QED BY <2>1, <2>2
<1>4. ASSUME NEW n \in 0..(N - 1), n \in U PROVE n + 1 \in U
  <2>0. n + 1 \in 1..N
    OBVIOUS
  <2>1. f[n + 1] = IF n + 1 \in S THEN ApplyTo(f[n], l[n + 1]) ELSE f[n]
    BY <1>1, RunStep
  <2>2. h[n + 1] = ApplyTo(h[n], l[n + 1])
    BY <1>2, <2>0, RunStep
  <2>3. n + 1 \in S \/ ApplyTo(h[n], l[n + 1]) = h[n]
    BY <2>0 DEF IsNoOp, ApplyTo
  <2> QED BY <1>4, <2>0, <2>1, <2>2, <2>3
<1> HIDE DEF U
<1>5. 0..N \subseteq U
  BY <1>3, <1>4, Induction
<1>6. f[N] = h[N]
  BY <1>5 DEF U
<1> QED BY <1>1, <1>2, <1>6

-----------------------------------------------------------------------------
(* Writers that finish out of order. *)

Without(d, e) == Restrict(d, DOMAIN d \ {e})

\* Whether an Insert, Update or SetMeta writes a row, and which.
Writes(d, r)  == r.type = "Insert" \/ r.ext \in DOMAIN d
Written(d, r) == IF r.type = "SetMeta" THEN [vec |-> d[r.ext].vec, meta |-> r.row.meta] ELSE r.row

(* apply_ deletes a row, writes one, or does nothing (durable_vdb.cpp:44-62). *)
LEMMA AppliesAs ==
    ASSUME NEW d, NEW r, ~IsNoOp(r)
    PROVE  ApplyTo(d, r) = IF r.type = "Delete" THEN Without(d, r.ext)
                           ELSE IF Writes(d, r) THEN Put(d, r.ext, Written(d, r)) ELSE d
<1>1. CASE r.type = "Insert"
  BY <1>1 DEF ApplyTo, Writes, Written
<1>2. CASE r.type = "Update"
  BY <1>2 DEF ApplyTo, Writes, Written
<1>3. CASE r.type = "SetMeta"
  BY <1>3 DEF ApplyTo, Writes, Written
<1>4. CASE r.type = "Delete"
  BY <1>4 DEF ApplyTo, Without
<1> QED BY <1>1, <1>2, <1>3, <1>4 DEF IsNoOp

(* The order in which two records of different ids are applied makes no difference
   (durable_vdb.cpp:44-62).                                                        *)
THEOREM ApplyCommutes ==
    ASSUME NEW d, NEW a, NEW b, a.ext # b.ext \/ IsNoOp(a) \/ IsNoOp(b)
    PROVE  ApplyTo(ApplyTo(d, a), b) = ApplyTo(ApplyTo(d, b), a)
<1>1. CASE IsNoOp(a)
  BY <1>1 DEF IsNoOp, ApplyTo
<1>2. CASE IsNoOp(b)
  BY <1>2 DEF IsNoOp, ApplyTo
<1>3. CASE a.ext # b.ext /\ ~IsNoOp(a) /\ ~IsNoOp(b)
  <2>1. \A x, e, f, r, q : e # f => Put(Put(x, e, r), f, q) = Put(Put(x, f, q), e, r)
    BY DEF Put
  <2>2. \A x, e, f, r : e # f => Without(Put(x, e, r), f) = Put(Without(x, f), e, r)
    BY DEF Put, Without, Restrict
  <2>3. \A x, e, f : Without(Without(x, e), f) = Without(Without(x, f), e)
    BY DEF Without, Restrict
  <2>4. CASE a.type = "Delete" /\ b.type = "Delete"
    <3>1. /\ ApplyTo(d, a) = Without(d, a.ext) /\ ApplyTo(d, b) = Without(d, b.ext)
          /\ ApplyTo(ApplyTo(d, a), b) = Without(ApplyTo(d, a), b.ext)
          /\ ApplyTo(ApplyTo(d, b), a) = Without(ApplyTo(d, b), a.ext)
      BY <1>3, <2>4, AppliesAs
    <3> QED BY <2>3, <3>1
  <2>5. ASSUME NEW r, NEW q, r.ext # q.ext, ~IsNoOp(r), ~IsNoOp(q), r.type = "Delete", q.type # "Delete"
        PROVE  ApplyTo(ApplyTo(d, r), q) = ApplyTo(ApplyTo(d, q), r)
    <3>1. /\ ApplyTo(d, r) = Without(d, r.ext)
          /\ ApplyTo(ApplyTo(d, q), r) = Without(ApplyTo(d, q), r.ext)
      BY <2>5, AppliesAs
    <3>2. Writes(d, q) <=> Writes(Without(d, r.ext), q)
      BY <2>5 DEF Writes, Without, Restrict
    <3>3. Writes(d, q) => Written(d, q) = Written(Without(d, r.ext), q)
      BY <2>5 DEF Writes, Written, Without, Restrict
    <3>4. ApplyTo(d, q) = IF Writes(d, q) THEN Put(d, q.ext, Written(d, q)) ELSE d
      BY <2>5, AppliesAs
    <3>5. ApplyTo(Without(d, r.ext), q)
            = IF Writes(Without(d, r.ext), q)
              THEN Put(Without(d, r.ext), q.ext, Written(Without(d, r.ext), q)) ELSE Without(d, r.ext)
      BY <2>5, AppliesAs
    <3>6. Without(Put(d, q.ext, Written(d, q)), r.ext) = Put(Without(d, r.ext), q.ext, Written(d, q))
      BY <2>2, <2>5
    <3> QED BY <3>1, <3>2, <3>3, <3>4, <3>5, <3>6
  <2>6. CASE a.type # "Delete" /\ b.type # "Delete"
    <3>1. ASSUME NEW r, NEW q, r.ext # q.ext, ~IsNoOp(r), ~IsNoOp(q), r.type # "Delete", q.type # "Delete"
          PROVE  ApplyTo(ApplyTo(d, r), q)
                   = IF Writes(d, r)
                     THEN IF Writes(d, q) THEN Put(Put(d, r.ext, Written(d, r)), q.ext, Written(d, q))
                                          ELSE Put(d, r.ext, Written(d, r))
                     ELSE IF Writes(d, q) THEN Put(d, q.ext, Written(d, q)) ELSE d
      <4> DEFINE x == Put(d, r.ext, Written(d, r))
      <4>1. Writes(x, q) <=> Writes(d, q)
        BY <3>1 DEF Writes, Put
      <4>2. Writes(d, q) => Written(x, q) = Written(d, q)
        BY <3>1 DEF Writes, Written, Put
      <4> HIDE DEF x
      <4>3. ApplyTo(x, q) = IF Writes(x, q) THEN Put(x, q.ext, Written(x, q)) ELSE x
        BY <3>1, AppliesAs
      <4>4. ApplyTo(d, q) = IF Writes(d, q) THEN Put(d, q.ext, Written(d, q)) ELSE d
        BY <3>1, AppliesAs
      <4>5. ApplyTo(d, r) = IF Writes(d, r) THEN x ELSE d
        BY <3>1, AppliesAs DEF x
      <4>6. ApplyTo(x, q) = IF Writes(d, q) THEN Put(x, q.ext, Written(d, q)) ELSE x
        BY <4>1, <4>2, <4>3
      <4> QED BY <4>4, <4>5, <4>6 DEF x
    <3>2. ApplyTo(ApplyTo(d, a), b)
            = IF Writes(d, a)
              THEN IF Writes(d, b) THEN Put(Put(d, a.ext, Written(d, a)), b.ext, Written(d, b))
                                   ELSE Put(d, a.ext, Written(d, a))
              ELSE IF Writes(d, b) THEN Put(d, b.ext, Written(d, b)) ELSE d
      BY <1>3, <2>6, <3>1
    <3>3. ApplyTo(ApplyTo(d, b), a)
            = IF Writes(d, b)
              THEN IF Writes(d, a) THEN Put(Put(d, b.ext, Written(d, b)), a.ext, Written(d, a))
                                   ELSE Put(d, b.ext, Written(d, b))
              ELSE IF Writes(d, a) THEN Put(d, a.ext, Written(d, a)) ELSE d
      BY <1>3, <2>6, <3>1
    <3> QED BY <1>3, <2>1, <3>2, <3>3
  <2>7. CASE a.type = "Delete" /\ b.type # "Delete"
    BY <1>3, <2>5, <2>7
  <2>8. CASE a.type # "Delete" /\ b.type = "Delete"
    BY <1>3, <2>5, <2>8
  <2> QED BY <2>4, <2>6, <2>7, <2>8
<1> QED BY <1>1, <1>2, <1>3

\* The records of S behind lsn n are of other ids than that of n, or change nothing.
OthersBehind(l, S, n) ==
    \A m \in S : m \in (n + 1)..Len(l) => l[m].ext # l[n].ext \/ IsNoOp(l[m])

(* A record applied after later ones leaves the store as if it had been applied in its turn,
   when those are of other ids.                                                             *)
THEOREM ReplayOutOfOrder ==
    ASSUME NEW l, NEW d, Len(l) \in Nat, NEW S, NEW n \in 1..Len(l), n \notin S, OthersBehind(l, S, n)
    PROVE  Replay(l, d, S \cup {n}) = ApplyTo(Replay(l, d, S), l[n])
<1> DEFINE N == Len(l)
<1> SUFFICES ASSUME NEW R, \A m : m \in R <=> m \in S \/ m = n
    PROVE  Replay(l, d, R) = ApplyTo(Replay(l, d, S), l[n])
  OBVIOUS
<1>1. PICK f : IsRun(f, l, d, S, N) /\ Replay(l, d, S) = f[N]
  BY ReplayIsRun
<1>2. PICK h : IsRun(h, l, d, R, N) /\ Replay(l, d, R) = h[N]
  BY ReplayIsRun
<1>7. \A k \in 0..(N - 1) : h[k + 1] = IF k + 1 \in R THEN ApplyTo(h[k], l[k + 1]) ELSE h[k]
  BY <1>2, RunStep
<1> DEFINE U == {k \in 0..N : h[k] = IF k >= n THEN ApplyTo(f[k], l[n]) ELSE f[k]}
<1>3. 0 \in U
  <2>1. f[0] = d
    BY <1>1 DEF IsRun
  <2>2. h[0] = d
    BY <1>2 DEF IsRun
  <2> QED BY <2>1, <2>2
<1>4. ASSUME NEW k \in 0..(N - 1), k \in U PROVE k + 1 \in U
  <2>1. f[k + 1] = IF k + 1 \in S THEN ApplyTo(f[k], l[k + 1]) ELSE f[k]
    BY <1>1, RunStep
  <2>2. h[k + 1] = IF k + 1 \in R THEN ApplyTo(h[k], l[k + 1]) ELSE h[k]
    BY <1>7
  <2>3. CASE k + 1 < n
    BY <1>4, <2>1, <2>2, <2>3
  <2>4. CASE k + 1 = n
    <3>1. f[k + 1] = f[k]
      BY <2>1, <2>4
    <3>2. h[k] = f[k]
      BY <1>4, <2>4
    <3> QED BY <2>2, <2>4, <3>1, <3>2
  <2>5. CASE k + 1 > n
    <3>1. h[k] = ApplyTo(f[k], l[n])
      BY <1>4, <2>5
    <3>2. CASE k + 1 \in S
      <4>1. l[k + 1].ext # l[n].ext \/ IsNoOp(l[k + 1])
        BY <2>5, <3>2 DEF OthersBehind
      <4>2. ApplyTo(ApplyTo(f[k], l[n]), l[k + 1]) = ApplyTo(ApplyTo(f[k], l[k + 1]), l[n])
        BY <4>1, ApplyCommutes
      <4> QED BY <2>1, <2>2, <2>5, <3>1, <3>2, <4>2
    <3>3. CASE k + 1 \notin S
      BY <2>1, <2>2, <2>5, <3>1, <3>3
    <3> QED BY <3>2, <3>3
  <2> QED BY <2>3, <2>4, <2>5
<1> HIDE DEF U
<1>5. 0..N \subseteq U
  BY <1>3, <1>4, Induction
<1>6. h[N] = ApplyTo(f[N], l[n])
  BY <1>5 DEF U
<1> QED BY <1>1, <1>2, <1>6

-----------------------------------------------------------------------------
(* Types. *)

(* apply_ leaves a map from ids to rows (durable_vdb.cpp:44-62). *)
LEMMA ApplyIsDb ==
    ASSUME NEW d, IsDb(d), NEW r, r.ext \in Nat, r.row \in Row
    PROVE  IsDb(ApplyTo(d, r))
<1>1. ASSUME NEW e \in Nat, NEW row \in Row PROVE IsDb(Put(d, e, row))
  BY <1>1 DEF IsDb, Put
<1>2. IsDb(Restrict(d, DOMAIN d \ {r.ext}))
  BY DEF IsDb, Restrict
<1>3. r.ext \in DOMAIN d => [vec |-> d[r.ext].vec, meta |-> r.row.meta] \in Row
  BY DEF IsDb, Row
<1> QED BY <1>1, <1>2, <1>3 DEF ApplyTo

(* Recovery leaves a map from ids to rows, whatever part of the log it replays. *)
THEOREM ReplayIsDb ==
    ASSUME NEW l, NEW d, IsDb(d), Len(l) \in Nat, NEW S,
           \A n \in 1..Len(l) : n \in S => l[n].ext \in Nat /\ l[n].row \in Row
    PROVE  IsDb(Replay(l, d, S))
<1> DEFINE N == Len(l)
<1>1. PICK f : IsRun(f, l, d, S, N) /\ Replay(l, d, S) = f[N]
  BY ReplayIsRun
<1> DEFINE U == {k \in 0..N : IsDb(f[k])}
<1>2. 0 \in U
  <2>1. f[0] = d
    BY <1>1 DEF IsRun
  <2> QED BY <2>1
<1>3. ASSUME NEW k \in 0..(N - 1), k \in U PROVE k + 1 \in U
  <2>1. f[k + 1] = IF k + 1 \in S THEN ApplyTo(f[k], l[k + 1]) ELSE f[k]
    <3>1. IsRun(f, l, d, S, N) /\ N \in Nat
      BY <1>1
    <3> HIDE DEF N
    <3>2. \A i \in 0..(N - 1) : f[i + 1] = IF i + 1 \in S THEN ApplyTo(f[i], l[i + 1]) ELSE f[i]
      BY ONLY <3>1, RunStep
    <3> QED BY ONLY k \in 0..(N - 1), <3>2
  <2>2. IsDb(f[k]) /\ k + 1 \in 1..N
    BY <1>3
  <2> QED BY <2>1, <2>2, ApplyIsDb
<1> HIDE DEF U
<1>4. 0..N \subseteq U
  BY <1>2, <1>3, Induction
<1>5. N \in U
  BY <1>4
<1> QED BY <1>1, <1>5 DEF U

(* apply_ stores no refused row, given a record that is not refused (durable_vdb.cpp:44-62). *)
LEMMA ApplyAccepts ==
    ASSUME NEW d, \A e \in DOMAIN d : d[e].meta # BadMeta, NEW r, ~Refused(r)
    PROVE  \A e \in DOMAIN ApplyTo(d, r) : ApplyTo(d, r)[e].meta # BadMeta
<1>1. ASSUME NEW row, row.meta # BadMeta
      PROVE  \A e \in DOMAIN Put(d, r.ext, row) : Put(d, r.ext, row)[e].meta # BadMeta
  BY <1>1 DEF Put
<1>2. \A e \in DOMAIN Without(d, r.ext) : Without(d, r.ext)[e].meta # BadMeta
  BY DEF Without, Restrict
<1>3. CASE IsNoOp(r)
  BY <1>3 DEF IsNoOp, ApplyTo
<1>4. CASE ~IsNoOp(r)
  <2>1. Written(d, r).meta # BadMeta
    BY DEF Written, Refused
  <2>2. ApplyTo(d, r) \in {Without(d, r.ext), Put(d, r.ext, Written(d, r)), d}
    BY <1>4, AppliesAs
  <2> QED BY <1>1, <1>2, <2>1, <2>2
<1> QED BY <1>3, <1>4

(* Replaying records validate() accepts onto rows it accepted leaves such rows. *)
LEMMA ReplayAccepts ==
    ASSUME NEW l, NEW d, \A e \in DOMAIN d : d[e].meta # BadMeta, Len(l) \in Nat, NEW S,
           \A n \in 1..Len(l) : n \in S => ~Refused(l[n])
    PROVE  \A e \in DOMAIN Replay(l, d, S) : Replay(l, d, S)[e].meta # BadMeta
<1> DEFINE N == Len(l)
           Accepted(x) == \A e \in DOMAIN x : x[e].meta # BadMeta
<1>1. PICK f : IsRun(f, l, d, S, N) /\ Replay(l, d, S) = f[N]
  BY ReplayIsRun
<1>2. ASSUME NEW x, Accepted(x), NEW r, ~Refused(r) PROVE Accepted(ApplyTo(x, r))
  BY <1>2, ApplyAccepts
<1> DEFINE U == {k \in 0..N : Accepted(f[k])}
<1>3. 0 \in U
  <2>1. f[0] = d
    BY <1>1 DEF IsRun
  <2> QED BY <2>1
<1> HIDE DEF Accepted
<1>4. ASSUME NEW k \in 0..(N - 1), k \in U PROVE k + 1 \in U
  <2>1. f[k + 1] = IF k + 1 \in S THEN ApplyTo(f[k], l[k + 1]) ELSE f[k]
    BY <1>1, RunStep
  <2>2. Accepted(f[k]) /\ k + 1 \in 1..N
    BY <1>4
  <2> QED BY <1>2, <2>1, <2>2
<1> HIDE DEF U
<1>5. 0..N \subseteq U
  BY <1>3, <1>4, Induction
<1>6. N \in U
  BY <1>5
<1> QED BY <1>1, <1>6 DEF U, Accepted

(* A store holds no id but those it started with, and those the replayed records insert. *)
LEMMA ReplayedIds ==
    ASSUME NEW l, NEW d, Len(l) \in Nat, NEW S, NEW e \in DOMAIN Replay(l, d, S)
    PROVE  e \in DOMAIN d \/ \E n \in 1..Len(l) : n \in S /\ l[n].type = "Insert" /\ l[n].ext = e
<1> DEFINE N == Len(l)
<1>1. PICK f : IsRun(f, l, d, S, N) /\ Replay(l, d, S) = f[N]
  BY ReplayIsRun
<1> SUFFICES ASSUME \A n \in 1..N : ~(n \in S /\ l[n].type = "Insert" /\ l[n].ext = e), e \notin DOMAIN d
    PROVE  FALSE
  OBVIOUS
<1> DEFINE U == {k \in 0..N : e \notin DOMAIN f[k]}
<1>2. 0 \in U
  <2>1. f[0] = d
    BY <1>1 DEF IsRun
  <2> QED BY <2>1
<1>3. ASSUME NEW k \in 0..(N - 1), k \in U PROVE k + 1 \in U
  <2>1. f[k + 1] = IF k + 1 \in S THEN ApplyTo(f[k], l[k + 1]) ELSE f[k]
    BY <1>1, RunStep
  <2>2. e \notin DOMAIN f[k] /\ k + 1 \in 1..N
    BY <1>3
  <2>3. k + 1 \in S => l[k + 1].type # "Insert" \/ l[k + 1].ext # e
    BY <2>2
  <2>4. ASSUME NEW r, r.type # "Insert" \/ r.ext # e PROVE e \notin DOMAIN ApplyTo(f[k], r)
    <3>1. CASE IsNoOp(r)
      BY <2>2, <3>1 DEF IsNoOp, ApplyTo
    <3>2. CASE ~IsNoOp(r)
      <4>1. \/ ApplyTo(f[k], r) \in {Without(f[k], r.ext), f[k]}
            \/ ApplyTo(f[k], r) = Put(f[k], r.ext, Written(f[k], r)) /\ Writes(f[k], r)
        BY <3>2, AppliesAs
      <4>2. e \notin DOMAIN Without(f[k], r.ext)
        BY <2>2 DEF Without, Restrict
      <4>3. Writes(f[k], r) => r.ext # e
        BY <2>2, <2>4 DEF Writes
      <4>4. DOMAIN Put(f[k], r.ext, Written(f[k], r)) = DOMAIN f[k] \cup {r.ext}
        BY DEF Put
      <4> QED BY <2>2, <4>1, <4>2, <4>3, <4>4
    <3> QED BY <3>1, <3>2
  <2> QED BY <2>1, <2>2, <2>3, <2>4
<1> HIDE DEF U
<1>4. 0..N \subseteq U
  BY <1>2, <1>3, Induction
<1>5. N \in U
  BY <1>4
<1> QED BY <1>1, <1>5 DEF U

-----------------------------------------------------------------------------
(* The store. *)

(* Tuples of variables, moves of the program counter and sets of program counters are
   abbreviations: every step below sees through them.                                 *)
USE DEF disk, logVars, commitVars, local, ghosts, Step, Goto, Return, Forget, NotifyAndGoto,
        Lead, CanBegin, BeginMutation, SyncPcs, CkptPcs, Pcs, Callers, InFlight, Leads,
        HoldsWriteMutex, Larger

-----------------------------------------------------------------------------
(* Logs. *)

(* A function on 1..n is a log of n records: the shape the history has after a cut. *)
LEMMA FunctionIsLog ==
    ASSUME NEW n \in Nat, NEW l, l = [i \in 1..n |-> l[i]]
    PROVE  IsLog(l) /\ Len(l) = n
<1> DEFINE S == {l[i] : i \in DOMAIN l}
<1>1. DOMAIN l = 1..n OBVIOUS
<1>2. l \in [1..n -> S] BY <1>1
<1> HIDE DEF S
<1>3. l \in Seq(S) BY <1>2, SeqDef
<1>4. Len(l) \in Nat /\ DOMAIN l = 1..Len(l) BY <1>3, LenProperties
<1>5. Len(l) = n BY <1>1, <1>4
<1> QED BY <1>3, <1>5 DEF IsLog, S

(* Wal::append makes a log of a log, one record longer (wal.cpp:377-394). *)
LEMMA AppendToLog ==
    ASSUME NEW l, IsLog(l), NEW x
    PROVE  IsLog(Append(l, x)) /\ Len(Append(l, x)) = Len(l) + 1 /\ Len(l) \in Nat
<1> DEFINE T == {l[n] : n \in DOMAIN l} \cup {x}
           a == Append(l, x)
<1>1. l \in Seq({l[n] : n \in DOMAIN l}) BY DEF IsLog
<1>2. l \in Seq(T) BY <1>1, SeqMonotonic
<1>3. x \in T OBVIOUS
<1> HIDE DEF T
<1>4. Append(l, x) \in Seq(T) /\ Len(Append(l, x)) = Len(l) + 1
  BY <1>2, <1>3, AppendProperties
<1>5. Len(a) \in Nat /\ a = [i \in 1..Len(a) |-> a[i]] 
  BY <1>4, LenProperties
<1>6. Len(l) \in Nat BY <1>2, LenProperties
<1>7. IsLog(a) BY <1>5, FunctionIsLog
<1> QED BY <1>4, <1>6, <1>7

(* Replay after a power failure keeps a prefix of the records, which is a log (wal.cpp:333-375). *)
LEMMA CutLog ==
    ASSUME NEW l, IsLog(l), NEW k \in 0..Len(l)
    PROVE  /\ IsLog([n \in 1..k |-> l[n]]) /\ Len([n \in 1..k |-> l[n]]) = k
<1> DEFINE c == [n \in 1..k |-> l[n]]
<1>1. k \in Nat BY LenProperties DEF IsLog
<1>2. c = [n \in 1..k |-> c[n]] OBVIOUS
<1> HIDE DEF c
<1>3. IsLog(c) /\ Len(c) = k BY <1>1, <1>2, FunctionIsLog
<1> QED BY <1>3 DEF c

-----------------------------------------------------------------------------
(* SafetyInv is inductive. *)

(* Lsns that are safe are lsns of the history, and safety is inherited by older lsns. *)
LEMMA SafeBounds ==
    ASSUME SafetyInv
    PROVE  /\ Len(hist) \in Nat
           /\ \A n \in Nat : Safe(n) => n <= Len(hist)
           /\ \A n, m \in Nat : Safe(m) /\ n <= m => Safe(n)
<1>1. Len(hist) \in Nat
  BY LenProperties DEF SafetyInv, LsnTypes, IsLog
<1>2. \A m \in wal : m \in Nat /\ m <= Len(hist)
  BY <1>1 DEF SafetyInv, LsnTypes
<1>3. snapStable.lsn \in Nat /\ snap.lsn \in Nat /\ snapStable.lsn <= Len(hist) /\ stable \in Nat
  BY <1>1 DEF SafetyInv, LsnTypes, HistoryEnds
<1> QED BY <1>1, <1>2, <1>3 DEF Safe

(* A new, empty directory: nothing logged, nothing promised (durable_vdb.cpp:10-20). *)
LEMMA InitSafety == Init => SafetyInv
<1> SUFFICES ASSUME Init PROVE SafetyInv
  OBVIOUS
<1>1. IsLog(hist) /\ Len(hist) = 0
  <2>1. hist = [n \in 1..0 |-> hist[n]]
    BY DEF Init
  <2> QED BY <2>1, FunctionIsLog
<1>2. LsnTypes
  <2>1. wal \subseteq 1..Len(hist) /\ promised \subseteq Nat \ {0} /\ applied \subseteq Nat
    BY DEF Init
  <2>2. /\ pc \in [Threads -> Pcs] /\ lsn \in [Threads -> Nat]
        /\ via \in [Threads -> Callers] /\ target \in [Threads -> Nat]
    BY DEF Init
  <2>3. stable = 0 /\ snap.lsn = 0 /\ snapStable.lsn = 0
    BY DEF Init, NoSnapshot
  <2>4. /\ mode = "up" /\ nextLsn = 1 /\ highestLsn = 0 /\ durableLsn = 0 /\ ckptLsn = 0
        /\ writeMutex = FALSE
    BY DEF Init
  <2>5. nextLsn \in Nat \ {0} /\ stable \in Nat /\ snap.lsn \in Nat /\ snapStable.lsn \in Nat
    BY <2>3, <2>4
  <2>6. highestLsn \in Nat /\ durableLsn \in Nat /\ ckptLsn \in Nat /\ writeMutex \in BOOLEAN
    BY <2>4
  <2> QED BY <1>1, <2>1, <2>2, <2>4, <2>5, <2>6 DEF LsnTypes
<1>3. HistoryEnds
  BY <1>1 DEF Init, NoSnapshot, HistoryEnds
<1>4. Exclusion /\ TargetsKnown /\ CheckpointKnows /\ CommitsKnown /\ PromisesSafe
  BY DEF Init, Exclusion, TargetsKnown, CheckpointKnows, CommitsKnown, PromisesSafe
<1> QED BY <1>2, <1>3, <1>4 DEF SafetyInv

(* The actions that move a thread, take a mutex, set syncing_ or save a snapshot that is not
   durable yet: what is on stable storage, durable_lsn_ and the promises stay as they are. *)
LEMMA QuietStep ==
    ASSUME SafetyInv, NEW t \in Threads,
           \/ BeginInsert(t) \/ BeginOnLiveId(t) \/ BeginCheckpoint(t) \/ BeginSync(t)
           \/ PrefixRowGone(t) \/ CommitDone(t) \/ CommitWait(t) \/ CommitLead(t)
           \/ FlushSkip(t) \/ FlushLead(t) \/ SyncCapture(t) \/ ApplyThrows(t)
           \/ CkptLock(t) \/ CkptQuiet(t) \/ CkptWait(t) \/ CkptSave(t)
    PROVE  SafetyInv'
<1> USE DEF SafetyInv, LsnTypes, HistoryEnds, Exclusion, TargetsKnown, CheckpointKnows,
            CommitsKnown, PromisesSafe, Safe
<1>1. CASE BeginInsert(t)
  BY <1>1, SMTT(40) DEF BeginInsert
<1>2. CASE BeginOnLiveId(t)
  BY <1>2, SMTT(40) DEF BeginOnLiveId
<1>3. CASE BeginCheckpoint(t)
  BY <1>3, SMTT(40) DEF BeginCheckpoint
<1>4. CASE BeginSync(t)
  BY <1>4, SMTT(40) DEF BeginSync
<1>5. CASE PrefixRowGone(t)
  BY <1>5, SMTT(40) DEF PrefixRowGone
<1>6. CASE CommitDone(t)
  BY <1>6, SMTT(40) DEF CommitDone
<1>7. CASE CommitWait(t)
  BY <1>7, SMTT(40) DEF CommitWait
<1>8. CASE CommitLead(t)
  BY <1>8, SMTT(40) DEF CommitLead
<1>9. CASE FlushSkip(t)
  BY <1>9, SMTT(40) DEF FlushSkip
<1>10. CASE FlushLead(t)
  BY <1>10, SMTT(40) DEF FlushLead
<1>11. CASE SyncCapture(t)
  BY <1>11, SMTT(40) DEF SyncCapture
<1>12. CASE ApplyThrows(t)
  BY <1>12, SMTT(40) DEF ApplyThrows
<1>13. CASE CkptLock(t)
  BY <1>13, SMTT(40) DEF CkptLock
<1>14. CASE CkptQuiet(t)
  BY <1>14, SMTT(40) DEF CkptQuiet
<1>15. CASE CkptWait(t)
  BY <1>15, SMTT(40) DEF CkptWait
<1>16. CASE CkptSave(t)
  BY <1>16, SMTT(40) DEF CkptSave
<1> QED BY <1>1, <1>2, <1>3, <1>4, <1>5, <1>6, <1>7, <1>8, <1>9, <1>10, <1>11, <1>12, <1>13, <1>14, <1>15, <1>16

(* The append of a serialised prefix keeps the invariant (durable_vdb.cpp:106-135, 137-234): it
   takes the next lsn, and the new record is the newest of the log. *)
LEMMA LogRecordStep ==
    ASSUME SafetyInv, NEW t \in Threads, NEW r, pc[t] = "prefix", ~writeMutex, LogRecord(t, r)
    PROVE  SafetyInv'
<1>0. mode = "up"
  BY DEF SafetyInv, Exclusion, LsnTypes
<1>1. /\ IsLog(hist') /\ Len(hist') = Len(hist) + 1 /\ Len(hist) \in Nat
      /\ nextLsn = Len(hist) + 1
  BY <1>0, AppendToLog DEF SafetyInv, LsnTypes, HistoryEnds, LogRecord
<1> DEFINE dest == IF Policy = "PerOpSync" THEN "commit" ELSE "apply"
<1>2. dest \in {"commit", "apply"} /\ (Policy = "PerOpSync" => dest = "commit")
  OBVIOUS
<1>3. /\ pc' = [pc EXCEPT ![t] = dest] 
      /\ lsn' = [lsn EXCEPT ![t] = Len(hist) + 1]
      /\ wal' = wal \cup {Len(hist) + 1} /\ highestLsn' = Len(hist) + 1
      /\ nextLsn' = Len(hist) + 2
      /\ UNCHANGED <<stable, snap, snapStable, mode, writeMutex, durableLsn, ckptLsn, via, target, applied, promised>>
  BY <1>1 DEF LogRecord
<1> HIDE DEF dest
<1>4. LsnTypes'
  <2>1. wal' \subseteq 1..Len(hist')
    <3>1. 1..Len(hist) \subseteq 1..Len(hist') /\ Len(hist) + 1 \in 1..Len(hist')
      BY <1>1
    <3> QED BY <3>1, <1>3 DEF SafetyInv, LsnTypes
  <2>2. pc' \in [Threads -> Pcs] /\ lsn' \in [Threads -> Nat]
    BY <1>1, <1>2, <1>3 DEF SafetyInv, LsnTypes
  <2> QED BY <2>1, <2>2, <1>1, <1>3 DEF SafetyInv, LsnTypes
<1>5. HistoryEnds'
  BY <1>1, <1>3 DEF SafetyInv, LsnTypes, HistoryEnds
<1>6. Exclusion'
  BY <1>0, <1>2, <1>3 DEF SafetyInv, LsnTypes, Exclusion
<1>7. TargetsKnown'
  BY <1>1, <1>2, <1>3 DEF SafetyInv, LsnTypes, TargetsKnown, Safe
<1>8. CheckpointKnows'
  BY <1>1, <1>2, <1>3 DEF SafetyInv, LsnTypes, CheckpointKnows, Exclusion
<1>9. CommitsKnown'
  BY <1>0, <1>1, <1>2, <1>3 DEF SafetyInv, LsnTypes, CommitsKnown, HistoryEnds, Safe
<1>10. PromisesSafe'
  BY <1>3 DEF SafetyInv, LsnTypes, PromisesSafe, Safe
<1> QED BY <1>4, <1>5, <1>6, <1>7, <1>8, <1>9, <1>10 DEF SafetyInv

(* fsync (wal.cpp:396-416) makes the target it captured safe. *)
LEMMA SyncFsyncStep ==
    ASSUME SafetyInv, NEW t \in Threads, SyncFsync(t)
    PROVE  SafetyInv'
<1> DEFINE dest == IF via[t] = "ckpt" THEN "truncate" ELSE "publish"
<1>1. /\ pc[t] = "fsync" /\ pc' = [pc EXCEPT ![t] = dest]
      /\ dest \in {"truncate", "publish"} /\ (dest = "truncate" <=> via[t] = "ckpt")
      /\ stable' \in Nat /\ stable' >= stable /\ stable' >= target[t]
      /\ UNCHANGED <<hist, wal, snap, snapStable, mode, nextLsn, highestLsn, durableLsn, ckptLsn,
                     writeMutex, lsn, via, target, applied, promised>>
  BY DEF SyncFsync, SafetyInv, LsnTypes
<1> HIDE DEF dest
<1>2. \A n \in Nat : Safe(n) => Safe(n)'
  BY <1>1 DEF Safe, SafetyInv, LsnTypes
<1>3. Safe(target[t])'
  BY <1>1, <1>2 DEF Safe, SafetyInv, LsnTypes, TargetsKnown
<1>4. LsnTypes' /\ HistoryEnds' /\ PromisesSafe'
  BY <1>1, <1>2 DEF SafetyInv, LsnTypes, HistoryEnds, PromisesSafe
<1>5. Exclusion'
  BY <1>1 DEF SafetyInv, LsnTypes, Exclusion
<1>6. TargetsKnown'
  BY <1>1, <1>2, <1>3 DEF SafetyInv, LsnTypes, TargetsKnown
<1>7. CheckpointKnows'
  BY <1>1 DEF SafetyInv, LsnTypes, CheckpointKnows, Exclusion
<1>8. CommitsKnown'
  BY <1>1, <1>2 DEF SafetyInv, LsnTypes, CommitsKnown
<1> QED BY <1>4, <1>5, <1>6, <1>7, <1>8 DEF SafetyInv

(* The leader publishes a durable_lsn_ that is safe (durable_vdb.cpp:68-98). *)
LEMMA LeaderPublishStep ==
    ASSUME SafetyInv, NEW t \in Threads, LeaderPublish(t)
    PROVE  SafetyInv'
<1> DEFINE dest == IF via[t] = "commit" THEN "commit" ELSE "finish"
<1>1. /\ pc[t] = "publish" /\ via[t] \in {"commit", "flush"} /\ mode = "up"
      /\ pc' \in [Threads -> Pcs] /\ pc'[t] = dest
      /\ \A u \in Threads \ {t} : \/ pc'[u] = pc[u]
                                  \/ pc[u] = "wait" /\ pc'[u] = "commit"
                                  \/ pc[u] = "quiesceWait" /\ pc'[u] = "quiesce"
      /\ dest \in {"commit", "finish"} /\ (Policy = "PerOpSync" => dest = "commit")
      /\ target' = [target EXCEPT ![t] = 0]
      /\ UNCHANGED <<hist, wal, stable, snap, snapStable, mode, nextLsn, highestLsn, ckptLsn,
                     writeMutex, lsn, via, applied, promised>>
  BY DEF LeaderPublish, SafetyInv, LsnTypes, Exclusion, CommitsKnown
<1>2. /\ durableLsn' \in Nat /\ durableLsn' >= durableLsn /\ durableLsn' < nextLsn
      /\ durableLsn' = durableLsn \/ (durableLsn' = target[t] /\ Safe(target[t]))
  BY <1>1 DEF LeaderPublish, SafetyInv, LsnTypes, TargetsKnown, HistoryEnds
<1> HIDE DEF dest
<1>3. \A n, m \in Nat : Safe(m) /\ n <= m => Safe(n)
  BY DEF Safe, SafetyInv, LsnTypes
<1>4. LsnTypes' /\ HistoryEnds' /\ PromisesSafe'
  BY <1>1, <1>2 DEF SafetyInv, LsnTypes, HistoryEnds, PromisesSafe, Safe
<1>5. Exclusion'
  <2>1. \A u \in Threads : HoldsWriteMutex(u)' => HoldsWriteMutex(u)
    BY <1>1
  <2> QED BY <2>1, <1>1 DEF SafetyInv, Exclusion
<1>6. TargetsKnown'
  BY <1>1 DEF SafetyInv, LsnTypes, TargetsKnown, Safe
<1>7. CheckpointKnows'
  BY <1>1 DEF SafetyInv, LsnTypes, CheckpointKnows
<1>8. CommitsKnown'
  <2> SUFFICES ASSUME NEW u \in Threads
      PROVE  /\ InFlight(u)' => lsn[u] \in 1..Len(hist) /\ (lsn[u] <= durableLsn' => Safe(lsn[u]))
             /\ Policy = "PerOpSync" => /\ pc'[u] \in {"apply", "finish"} => lsn[u] <= durableLsn'
                                        /\ pc'[u] # "flush" /\ (pc'[u] \in SyncPcs => via[u] # "flush")
    BY <1>1 DEF CommitsKnown, Safe
  <2>1. InFlight(u)' => InFlight(u)
    BY <1>1
  <2>2. InFlight(u)' => lsn[u] \in 1..Len(hist) /\ (lsn[u] <= durableLsn' => Safe(lsn[u]))
    BY <2>1, <1>2, <1>3 DEF SafetyInv, LsnTypes, CommitsKnown
  <2>3. ASSUME Policy = "PerOpSync"
        PROVE /\ pc'[u] \in {"apply", "finish"} => lsn[u] <= durableLsn'
              /\ pc'[u] # "flush" /\ (pc'[u] \in SyncPcs => via[u] # "flush")
    BY <2>3, <1>1, <1>2 DEF SafetyInv, LsnTypes, CommitsKnown
  <2> QED BY <2>2, <2>3
<1> QED BY <1>4, <1>5, <1>6, <1>7, <1>8 DEF SafetyInv

(* sync() returns with its target published and safe (durable_vdb.cpp:257-262). *)
LEMMA SyncReturnStep ==
    ASSUME SafetyInv, NEW t \in Threads, SyncReturn(t)
    PROVE  SafetyInv'
<1>1. /\ pc[t] = "publish" /\ via[t] = "sync" /\ mode = "up"
      /\ pc' = [pc EXCEPT ![t] = "idle"] /\ via' = [via EXCEPT ![t] = "commit"]
      /\ lsn' = [lsn EXCEPT ![t] = 0] /\ target' = [target EXCEPT ![t] = 0]
      /\ promised' = promised \cup {n \in wal : n <= target[t]}
      /\ UNCHANGED <<hist, wal, stable, snap, snapStable, mode, nextLsn, highestLsn, ckptLsn,
                     writeMutex, applied>>
  BY DEF SyncReturn, SafetyInv, LsnTypes, Exclusion
<1>2. /\ durableLsn' \in Nat /\ durableLsn' >= durableLsn /\ durableLsn' < nextLsn
      /\ durableLsn' = durableLsn \/ (durableLsn' = target[t] /\ Safe(target[t]))
  BY <1>1 DEF SyncReturn, SafetyInv, LsnTypes, TargetsKnown, HistoryEnds
<1>3. \A n, m \in Nat : Safe(m) /\ n <= m => Safe(n)
  BY DEF Safe, SafetyInv, LsnTypes
<1>4. target[t] \in Nat /\ Safe(target[t])
  BY <1>1 DEF SafetyInv, LsnTypes, TargetsKnown
<1>5. LsnTypes'
  <2>1. /\ pc' \in [Threads -> Pcs] /\ lsn' \in [Threads -> Nat]
        /\ via' \in [Threads -> Callers] /\ target' \in [Threads -> Nat]
    BY <1>1 DEF SafetyInv, LsnTypes
  <2>2. promised' \subseteq Nat \ {0}
    <3>1. wal \subseteq Nat \ {0} /\ promised \subseteq Nat \ {0}
      BY SafeBounds DEF SafetyInv, LsnTypes
    <3> QED BY <3>1, <1>1
  <2> QED BY <2>1, <2>2, <1>1, <1>2 DEF SafetyInv, LsnTypes
<1>6. HistoryEnds' /\ Exclusion'
  BY <1>1, <1>2 DEF SafetyInv, LsnTypes, HistoryEnds, Exclusion
<1>7. TargetsKnown' /\ CheckpointKnows'
  BY <1>1 DEF SafetyInv, LsnTypes, TargetsKnown, CheckpointKnows, Safe
<1>8. CommitsKnown'
  BY <1>1, <1>2, <1>3 DEF SafetyInv, LsnTypes, CommitsKnown, Safe
<1>9. PromisesSafe'
  <2>1. \A n \in wal : n <= target[t] => Safe(n)
    BY <1>3, <1>4, SafeBounds DEF SafetyInv, LsnTypes
  <2> QED BY <2>1, <1>1 DEF SafetyInv, PromisesSafe, Safe
<1> QED BY <1>5, <1>6, <1>7, <1>8, <1>9 DEF SafetyInv

(* apply_ changes nothing the lsns depend on (durable_vdb.cpp:44-62). *)
LEMMA ApplyStep ==
    ASSUME SafetyInv, NEW t \in Threads, Apply(t)
    PROVE  SafetyInv'
<1> DEFINE dest == IF Policy = "Periodic" THEN "flush" ELSE "finish"
<1>1. /\ pc[t] = "apply" /\ pc' = [pc EXCEPT ![t] = dest]
      /\ dest \in {"flush", "finish"} /\ (Policy = "PerOpSync" => dest = "finish")
      /\ applied' = applied \cup {lsn[t]} /\ lsn[t] \in Nat /\ mode = "up"
      /\ UNCHANGED <<hist, wal, stable, snap, snapStable, mode, nextLsn, highestLsn, durableLsn,
                     ckptLsn, writeMutex, lsn, via, target, promised>>
  BY DEF Apply, SafetyInv, LsnTypes, Exclusion
<1> HIDE DEF dest
<1>2. LsnTypes'
  <2>1. pc' \in [Threads -> Pcs] /\ applied' \subseteq Nat
    BY <1>1 DEF SafetyInv, LsnTypes
  <2> QED BY <2>1, <1>1 DEF SafetyInv, LsnTypes
<1>3. HistoryEnds' /\ Exclusion' /\ PromisesSafe'
  BY <1>1 DEF SafetyInv, LsnTypes, HistoryEnds, Exclusion, PromisesSafe, Safe
<1>4. TargetsKnown' /\ CheckpointKnows' /\ CommitsKnown'
  BY <1>1 DEF SafetyInv, LsnTypes, TargetsKnown, CheckpointKnows, CommitsKnown, Safe
<1> QED BY <1>2, <1>3, <1>4 DEF SafetyInv

(* finish_op_ returns a PerOpSync write to its caller: its lsn is safe (durable_vdb.cpp:100-104). *)
LEMMA FinishStep ==
    ASSUME SafetyInv, NEW t \in Threads, Finish(t)
    PROVE  SafetyInv'
<1>1. /\ pc[t] = "finish" /\ mode = "up"
      /\ pc' \in [Threads -> Pcs] /\ pc'[t] \in {"ckpt", "idle"}
      /\ \A u \in Threads \ {t} : \/ pc'[u] = pc[u]
                                  \/ pc[u] = "wait" /\ pc'[u] = "commit"
                                  \/ pc[u] = "quiesceWait" /\ pc'[u] = "quiesce"
      /\ via' = [via EXCEPT ![t] = "commit"]
      /\ lsn' = [lsn EXCEPT ![t] = 0] /\ target' = [target EXCEPT ![t] = 0]
      /\ UNCHANGED <<hist, wal, stable, snap, snapStable, mode, nextLsn, highestLsn, durableLsn,
                     ckptLsn, writeMutex, applied>>
  BY DEF Finish, SafetyInv, LsnTypes, Exclusion
<1>2. /\ lsn[t] \in 1..Len(hist)
      /\ promised' = promised \/ (promised' = promised \cup {lsn[t]} /\ Safe(lsn[t]))
  BY <1>1 DEF Finish, SafetyInv, CommitsKnown
<1>3. LsnTypes'
  <2>1. lsn[t] \in Nat \ {0}
    BY <1>2, SafeBounds
  <2>2. promised' \subseteq Nat \ {0}
    BY <2>1, <1>2 DEF SafetyInv, LsnTypes
  <2> QED BY <2>2, <1>1 DEF SafetyInv, LsnTypes
<1>4. HistoryEnds' /\ PromisesSafe'
  BY <1>1, <1>2 DEF SafetyInv, HistoryEnds, PromisesSafe, Safe
<1>5. Exclusion'
  <2>1. \A u \in Threads : HoldsWriteMutex(u)' => HoldsWriteMutex(u)
    BY <1>1
  <2> QED BY <2>1, <1>1 DEF SafetyInv, Exclusion
<1>6. TargetsKnown' /\ CheckpointKnows'
  BY <1>1 DEF SafetyInv, LsnTypes, TargetsKnown, CheckpointKnows, Safe
<1>7. CommitsKnown'
  BY <1>1 DEF SafetyInv, LsnTypes, CommitsKnown, Safe
<1> QED BY <1>3, <1>4, <1>5, <1>6, <1>7 DEF SafetyInv

(* An fsync or a snapshot write that throws leaves the disk, and durable_lsn_, as they were. *)
LEMMA ThrowsStep ==
    ASSUME SafetyInv, NEW t \in Threads, SyncThrows(t) \/ CkptSaveThrows(t)
    PROVE  SafetyInv'
<1>1. /\ pc' = [pc EXCEPT ![t] = "idle"] /\ via' = [via EXCEPT ![t] = "commit"]
      /\ lsn' = [lsn EXCEPT ![t] = 0] /\ target' = [target EXCEPT ![t] = 0]
      /\ UNCHANGED <<hist, wal, stable, snap, snapStable, mode, nextLsn, highestLsn, durableLsn,
                     ckptLsn, promised, applied>>
  BY DEF SyncThrows, CkptSaveThrows
<1>2. /\ writeMutex' \in BOOLEAN
      /\ HoldsWriteMutex(t) \/ writeMutex' = writeMutex
  BY DEF SyncThrows, CkptSaveThrows, SafetyInv, LsnTypes
<1>3. LsnTypes'
  BY <1>1, <1>2 DEF SafetyInv, LsnTypes
<1>4. Exclusion'
  BY <1>1, <1>2 DEF SafetyInv, LsnTypes, Exclusion
<1>5. HistoryEnds' /\ PromisesSafe'
  BY <1>1 DEF SafetyInv, HistoryEnds, PromisesSafe, Safe
<1>6. TargetsKnown' /\ CheckpointKnows'
  BY <1>1 DEF SafetyInv, LsnTypes, TargetsKnown, CheckpointKnows, Safe
<1>7. CommitsKnown'
  BY <1>1 DEF SafetyInv, LsnTypes, CommitsKnown, Safe
<1> QED BY <1>3, <1>4, <1>5, <1>6, <1>7 DEF SafetyInv

(* An append that throws uses its lsn up and logs nothing (durable_vdb.cpp:115-117, 248). *)
LEMMA SkipLsnStep ==
    ASSUME SafetyInv, NEW t \in Threads, PrefixThrows(t) \/ CkptMarkThrows(t)
    PROVE  SafetyInv'
<1>1. mode = "up" /\ SkipLsn(t) /\ pc[t] \in {"prefix", "mark"}
  BY DEF PrefixThrows, CkptMarkThrows, SafetyInv, Exclusion
<1>2. /\ IsLog(hist') /\ Len(hist') = Len(hist) + 1 /\ Len(hist) \in Nat
      /\ nextLsn' = Len(hist) + 2
  BY <1>1, AppendToLog DEF SafetyInv, LsnTypes, HistoryEnds, SkipLsn
<1>3. /\ pc' = [pc EXCEPT ![t] = "idle"] /\ via' = [via EXCEPT ![t] = "commit"]
      /\ lsn' = [lsn EXCEPT ![t] = 0] /\ target' = [target EXCEPT ![t] = 0]
      /\ UNCHANGED <<wal, stable, snap, snapStable, mode, highestLsn, durableLsn, ckptLsn,
                     promised, applied>>
  BY <1>1 DEF SkipLsn
<1>4. /\ writeMutex' \in BOOLEAN
      /\ writeMutex' = writeMutex \/ (HoldsWriteMutex(t) /\ ~writeMutex')
      /\ \A u \in Threads : HoldsWriteMutex(u) => u = t
  BY DEF PrefixThrows, CkptMarkThrows, SafetyInv, LsnTypes, Exclusion
<1>5. LsnTypes'
  <2>1. 1..Len(hist) \subseteq 1..Len(hist')
    BY <1>2
  <2>2. nextLsn' \in Nat \ {0}
    BY <1>2
  <2> QED BY <2>1, <2>2, <1>2, <1>3, <1>4 DEF SafetyInv, LsnTypes
<1>6. HistoryEnds'
  BY <1>1, <1>2, <1>3 DEF SafetyInv, LsnTypes, HistoryEnds
<1>7. Exclusion'
  BY <1>1, <1>3, <1>4 DEF SafetyInv, LsnTypes, Exclusion
<1>8. TargetsKnown' /\ PromisesSafe'
  BY <1>2, <1>3 DEF SafetyInv, LsnTypes, TargetsKnown, PromisesSafe, Safe
<1>9. CheckpointKnows'
  BY <1>3, <1>4 DEF SafetyInv, LsnTypes, CheckpointKnows
<1>10. CommitsKnown'
  BY <1>2, <1>3 DEF SafetyInv, LsnTypes, CommitsKnown, Safe
<1> QED BY <1>5, <1>6, <1>7, <1>8, <1>9, <1>10 DEF SafetyInv

(* The directory fsync replaces the stable snapshot by one that covers more (snapshot.cpp:38-48). *)
LEMMA CkptDirSyncStep ==
    ASSUME SafetyInv, NEW t \in Threads, CkptDirSync(t)
    PROVE  SafetyInv'
<1>1. /\ pc[t] = "dirsync" /\ pc' = [pc EXCEPT ![t] = "mark"]
      /\ snapStable' = snap \/ snapStable' = snapStable
      /\ UNCHANGED <<hist, wal, stable, snap, mode, nextLsn, highestLsn, durableLsn, ckptLsn,
                     writeMutex, lsn, via, target, applied, promised>>
  BY DEF CkptDirSync
<1>2. snapStable'.lsn \in Nat /\ snapStable.lsn <= snapStable'.lsn /\ snapStable'.lsn <= snap.lsn
  BY <1>1 DEF SafetyInv, LsnTypes, HistoryEnds
<1>3. \A n \in Nat : Safe(n) => Safe(n)'
  BY <1>1, <1>2 DEF Safe, SafetyInv, LsnTypes
<1>4. LsnTypes' /\ HistoryEnds'
  BY <1>1, <1>2 DEF SafetyInv, LsnTypes, HistoryEnds
<1>5. Exclusion'
  BY <1>1 DEF SafetyInv, LsnTypes, Exclusion
<1>6. TargetsKnown' /\ PromisesSafe'
  BY <1>1, <1>3 DEF SafetyInv, LsnTypes, TargetsKnown, PromisesSafe
<1>7. CheckpointKnows'
  BY <1>1 DEF SafetyInv, LsnTypes, CheckpointKnows
<1>8. CommitsKnown'
  BY <1>1, <1>3 DEF SafetyInv, LsnTypes, CommitsKnown
<1> QED BY <1>4, <1>5, <1>6, <1>7, <1>8 DEF SafetyInv

(* The Checkpoint record is the newest of the log, one past ckptLsn (durable_vdb.cpp:246-247). *)
LEMMA CkptMarkStep ==
    ASSUME SafetyInv, NEW t \in Threads, CkptMark(t)
    PROVE  SafetyInv'
<1>1. /\ pc[t] = "mark" /\ mode = "up" /\ ckptLsn = Len(hist)
      /\ \A u \in Threads \ {t} : ~HoldsWriteMutex(u)
  BY DEF CkptMark, SafetyInv, Exclusion, CheckpointKnows
<1>2. /\ IsLog(hist') /\ Len(hist') = Len(hist) + 1 /\ Len(hist) \in Nat
      /\ nextLsn = Len(hist) + 1
  BY <1>1, AppendToLog DEF SafetyInv, LsnTypes, HistoryEnds, CkptMark
<1>3. /\ pc' = [pc EXCEPT ![t] = "capture"] /\ via' = [via EXCEPT ![t] = "ckpt"]
      /\ wal' = wal \cup {Len(hist) + 1} /\ highestLsn' = Len(hist) + 1
      /\ nextLsn' = Len(hist) + 2
      /\ UNCHANGED <<stable, snap, snapStable, mode, writeMutex, durableLsn, ckptLsn, lsn, target,
                     applied, promised>>
  BY <1>2 DEF CkptMark
<1>4. LsnTypes'
  <2>1. wal' \subseteq 1..Len(hist')
    <3>1. 1..Len(hist) \subseteq 1..Len(hist') /\ Len(hist) + 1 \in 1..Len(hist')
      BY <1>2
    <3> QED BY <3>1, <1>3 DEF SafetyInv, LsnTypes
  <2>2. pc' \in [Threads -> Pcs] /\ via' \in [Threads -> Callers]
    BY <1>3 DEF SafetyInv, LsnTypes
  <2> QED BY <2>1, <2>2, <1>2, <1>3 DEF SafetyInv, LsnTypes
<1>5. HistoryEnds'
  BY <1>2, <1>3 DEF SafetyInv, LsnTypes, HistoryEnds
<1>6. Exclusion'
  BY <1>1, <1>3 DEF SafetyInv, LsnTypes, Exclusion
<1>7. TargetsKnown' /\ PromisesSafe'
  BY <1>2, <1>3 DEF SafetyInv, LsnTypes, TargetsKnown, PromisesSafe, Safe
<1>8. CheckpointKnows'
  BY <1>1, <1>2, <1>3 DEF SafetyInv, LsnTypes, CheckpointKnows
<1>9. CommitsKnown'
  BY <1>2, <1>3 DEF SafetyInv, LsnTypes, CommitsKnown, Safe
<1> QED BY <1>4, <1>5, <1>6, <1>7, <1>8, <1>9 DEF SafetyInv

(* Wal::truncate (wal.cpp:418-437) takes records away, yet every lsn stays safe: the stable
   Checkpoint record is newer than each of them. *)
LEMMA CkptTruncateStep ==
    ASSUME SafetyInv, NEW t \in Threads, CkptTruncate(t)
    PROVE  SafetyInv'
<1>1. /\ pc[t] = "truncate" /\ pc' = [pc EXCEPT ![t] = "release"] /\ mode = "up"
      /\ wal' \subseteq wal /\ \A n \in wal : n > ckptLsn => n \in wal'
      /\ UNCHANGED <<hist, stable, snap, snapStable, mode, nextLsn, highestLsn, durableLsn,
                     ckptLsn, writeMutex, lsn, via, target, applied, promised>>
  <2>1. PICK gone \in SUBSET {n \in wal : n <= ckptLsn} : wal' = wal \ gone
    BY DEF CkptTruncate
  <2>2. \A n \in wal : n \in Nat /\ ckptLsn \in Nat
    BY SafeBounds DEF SafetyInv, LsnTypes
  <2>3. wal' \subseteq wal /\ \A n \in wal : n > ckptLsn => n \in wal'
    BY <2>1, <2>2
  <2> QED BY <2>3 DEF CkptTruncate, SafetyInv, Exclusion
<1>2. /\ Len(hist) \in wal /\ Len(hist) \in wal' /\ Len(hist) <= stable /\ Len(hist) \in Nat
      /\ wal \subseteq 1..Len(hist)
  BY <1>1, SafeBounds DEF SafetyInv, CheckpointKnows, LsnTypes
<1>3. \A n \in 0..Len(hist) : Safe(n)'
  BY <1>1, <1>2 DEF Safe, SafetyInv, LsnTypes
<1>4. LsnTypes'
  BY <1>1, <1>2 DEF SafetyInv, LsnTypes
<1>5. HistoryEnds'
  <2>1. highestLsn \in wal' /\ Len(hist) \in wal'
    BY <1>1, <1>2 DEF SafetyInv, CheckpointKnows
  <2> QED BY <2>1, <1>1 DEF SafetyInv, HistoryEnds
<1>6. Exclusion'
  BY <1>1 DEF SafetyInv, LsnTypes, Exclusion
<1>7. TargetsKnown' /\ PromisesSafe'
  <2>1. promised \subseteq 0..Len(hist)
    BY SafeBounds DEF SafetyInv, PromisesSafe, LsnTypes
  <2>2. PromisesSafe'
    BY <2>1, <1>1, <1>3 DEF PromisesSafe
  <2>3. TargetsKnown'
    BY <1>1, <1>2, <1>3 DEF SafetyInv, LsnTypes, TargetsKnown
  <2> QED BY <2>2, <2>3
<1>8. CheckpointKnows'
  BY <1>1, <1>2 DEF SafetyInv, LsnTypes, CheckpointKnows
<1>9. CommitsKnown'
  BY <1>1, <1>2, <1>3 DEF SafetyInv, LsnTypes, CommitsKnown
<1> QED BY <1>4, <1>5, <1>6, <1>7, <1>8, <1>9 DEF SafetyInv

(* checkpoint() returns: its lsn is older than its own stable record (durable_vdb.cpp:249-254). *)
LEMMA CkptReleaseStep ==
    ASSUME SafetyInv, NEW t \in Threads, CkptRelease(t)
    PROVE  SafetyInv'
<1>1. /\ pc[t] = "release" /\ pc' = [pc EXCEPT ![t] = "idle"] /\ mode = "up"
      /\ via' = [via EXCEPT ![t] = "commit"]
      /\ lsn' = [lsn EXCEPT ![t] = 0] /\ target' = [target EXCEPT ![t] = 0]
      /\ writeMutex' = FALSE /\ ckptLsn' = 0 /\ promised' = promised \cup 1..ckptLsn
      /\ UNCHANGED <<hist, wal, stable, snap, snapStable, mode, nextLsn, highestLsn, applied>>
  BY DEF CkptRelease, SafetyInv, Exclusion
<1>2. /\ Len(hist) \in wal /\ Len(hist) <= stable /\ Len(hist) \in Nat
      /\ ckptLsn \in Nat /\ ckptLsn < Len(hist) /\ wal \subseteq 1..Len(hist)
  BY <1>1, SafeBounds DEF SafetyInv, CheckpointKnows, LsnTypes
<1>3. durableLsn' \in Nat /\ durableLsn' >= durableLsn /\ durableLsn' < nextLsn
  BY <1>1, <1>2 DEF CkptRelease, SafetyInv, LsnTypes, HistoryEnds
<1>4. \A n \in 0..Len(hist) : Safe(n)'
  BY <1>1, <1>2 DEF Safe, SafetyInv, LsnTypes
<1>5. LsnTypes'
  <2>1. 1..ckptLsn \subseteq Nat \ {0}
    BY <1>2
  <2>2. promised' \subseteq Nat \ {0}
    BY <2>1, <1>1 DEF SafetyInv, LsnTypes
  <2>3. /\ pc' \in [Threads -> Pcs] /\ lsn' \in [Threads -> Nat]
        /\ via' \in [Threads -> Callers] /\ target' \in [Threads -> Nat]
    BY <1>1 DEF SafetyInv, LsnTypes
  <2> QED BY <2>2, <2>3, <1>1, <1>3 DEF SafetyInv, LsnTypes
<1>6. HistoryEnds'
  BY <1>1, <1>3 DEF SafetyInv, HistoryEnds
<1>7. Exclusion'
  BY <1>1 DEF SafetyInv, LsnTypes, Exclusion
<1>8. TargetsKnown' /\ CheckpointKnows'
  BY <1>1 DEF SafetyInv, LsnTypes, TargetsKnown, CheckpointKnows, Exclusion, Safe
<1>9. CommitsKnown'
  BY <1>1, <1>3, <1>4 DEF SafetyInv, LsnTypes, CommitsKnown
<1>10. PromisesSafe'
  <2>1. \A n \in 1..ckptLsn : Safe(n)'
    BY <1>2, <1>4
  <2> QED BY <2>1, <1>1 DEF SafetyInv, PromisesSafe, Safe
<1> QED BY <1>5, <1>6, <1>7, <1>8, <1>9, <1>10 DEF SafetyInv

(* What is left of the process when it ends. *)
LEMMA MemoryLost ==
    ASSUME LoseMemory
    PROVE  /\ mode' = "down" /\ nextLsn' = 1 /\ highestLsn' = 0 /\ durableLsn' = 0 /\ ckptLsn' = 0
           /\ writeMutex' = FALSE /\ applied' = {}
           /\ pc' \in [Threads -> Pcs] /\ lsn' \in [Threads -> Nat]
           /\ via' \in [Threads -> Callers] /\ target' \in [Threads -> Nat]
           /\ \A t \in Threads : pc'[t] = "idle"
BY DEF LoseMemory

(* The history a crash leaves is a log again, ends where the files end, and holds them all. *)
LEMMA CutHistoryIsLog ==
    ASSUME SafetyInv, NEW log, log \subseteq wal, NEW s \in {snap, snapStable}, CutHistory(log, s)
    PROVE  /\ IsLog(hist') /\ Len(hist') \in log \cup {s.lsn} /\ s.lsn <= Len(hist')
           /\ log \subseteq 1..Len(hist')
<1>1. PICK last \in log \cup {s.lsn} : /\ IsMax(last, log \cup {s.lsn})
                                       /\ hist' = [n \in 1..last |-> hist[n]]
  BY DEF CutHistory
<1>2. \A n \in log : n \in 1..Len(hist) /\ n <= last
  BY <1>1 DEF IsMax, SafetyInv, LsnTypes
<1>3. last \in 0..Len(hist) /\ s.lsn <= last
  BY <1>1, <1>2, SafeBounds DEF IsMax, SafetyInv, LsnTypes, HistoryEnds
<1>4. IsLog(hist') /\ Len(hist') = last
  BY <1>1, <1>3, CutLog DEF SafetyInv, LsnTypes
<1>5. log \subseteq 1..last
  BY <1>2, <1>3, SafeBounds
<1> QED BY <1>1, <1>3, <1>4, <1>5

(* A close or a process crash leaves the files as they are, or fsyncs them (durable_vdb.cpp:22-27). *)
LEMMA StopStep ==
    ASSUME SafetyInv, Close \/ ProcessCrash
    PROVE  SafetyInv'
<1>1. /\ LoseMemory /\ CutHistory(wal, snap)
      /\ stable' = stable \/ stable' = Larger(stable, highestLsn)
      /\ UNCHANGED <<wal, snap, snapStable, promised>>
  BY DEF Close, ProcessCrash
<1>2. stable' \in Nat /\ stable <= stable'
  BY <1>1 DEF SafetyInv, LsnTypes
<1>3. /\ IsLog(hist') /\ Len(hist') \in wal \cup {snap.lsn} /\ snap.lsn <= Len(hist')
      /\ wal \subseteq 1..Len(hist')
  BY <1>1, CutHistoryIsLog
<1>4. LsnTypes'
  BY <1>1, <1>2, <1>3, MemoryLost DEF SafetyInv, LsnTypes
<1>5. PromisesSafe'
  BY <1>1, <1>2 DEF SafetyInv, LsnTypes, PromisesSafe, Safe
<1> QED
  BY <1>1, <1>3, <1>4, <1>5, MemoryLost
     DEF SafetyInv, HistoryEnds, Exclusion, TargetsKnown, CheckpointKnows, CommitsKnown

(* A power failure keeps every stable record and one of the two snapshots. *)
LEMMA PowerLossStep ==
    ASSUME SafetyInv, PowerLoss
    PROVE  SafetyInv'
<1>1. PICK cut \in {stable} \cup {n \in wal : n > stable}, s \in {snap, snapStable} :
         /\ wal' = {n \in wal : n <= cut} /\ stable' = cut
         /\ snap' = s /\ snapStable' = s
         /\ CutHistory({n \in wal : n <= cut}, s)
  BY DEF PowerLoss
<1>2. LoseMemory /\ promised' = promised
  BY DEF PowerLoss
<1>3. cut \in Nat /\ stable <= cut /\ s.lsn \in Nat /\ snapStable.lsn <= s.lsn
  BY SafeBounds DEF SafetyInv, LsnTypes, HistoryEnds
<1>4. wal' \subseteq wal /\ CutHistory(wal', s)
  BY <1>1
<1>5. /\ IsLog(hist') /\ Len(hist') \in wal' \cup {s.lsn} /\ s.lsn <= Len(hist')
      /\ wal' \subseteq 1..Len(hist')
  BY <1>4, CutHistoryIsLog
<1>6. LsnTypes'
  <2>1. stable' \in Nat /\ snap'.lsn \in Nat /\ snapStable'.lsn \in Nat
    BY <1>1, <1>3
  <2>2. promised' \subseteq Nat \ {0}
    BY <1>2 DEF SafetyInv, LsnTypes
  <2> QED BY <2>1, <2>2, <1>2, <1>5, MemoryLost DEF LsnTypes
<1>7. PromisesSafe'
  <2> SUFFICES ASSUME NEW n \in promised PROVE Safe(n)'
    BY <1>2 DEF PromisesSafe
  <2>1. Safe(n) /\ n \in Nat
    BY DEF SafetyInv, PromisesSafe, LsnTypes
  <2>2. CASE n <= snapStable.lsn
    BY <2>1, <2>2, <1>1, <1>3 DEF Safe, SafetyInv, LsnTypes
  <2>3. CASE \E m \in wal : n <= m /\ m <= stable
    BY <2>1, <2>3, <1>1, <1>3, SafeBounds DEF Safe, SafetyInv, LsnTypes
  <2> QED BY <2>1, <2>2, <2>3 DEF Safe
<1>8. snapStable'.lsn <= snap'.lsn /\ snap'.lsn <= Len(hist') /\ Len(hist') \in wal' \cup {snap'.lsn}
  BY <1>1, <1>3, <1>5
<1> QED
  BY <1>2, <1>6, <1>7, <1>8, MemoryLost
     DEF SafetyInv, HistoryEnds, Exclusion, TargetsKnown, CheckpointKnows, CommitsKnown

(* recover_ resumes after the newest surviving record (durable_vdb.cpp:29-42). *)
LEMMA RecoverStep ==
    ASSUME SafetyInv, Recover
    PROVE  SafetyInv'
<1> USE SafeBounds
<1>1. /\ mode = "down" /\ mode' = "up" /\ \A t \in Threads : pc[t] = "idle"
      /\ nextLsn' = Larger(snap.lsn, highestLsn') + 1
      /\ durableLsn' = nextLsn' - 1 /\ applied' = 1..(nextLsn' - 1)
      /\ UNCHANGED <<disk, writeMutex, ckptLsn, pc, lsn, via, target, promised>>
  BY DEF Recover, SafetyInv, Exclusion
<1>2. IsMax(highestLsn', {0} \cup wal)
  BY DEF Recover
<1>3. highestLsn' \in {0} \cup wal /\ highestLsn' \in Nat /\ \A n \in wal : n <= highestLsn'
  BY <1>2 DEF IsMax, SafetyInv, LsnTypes
<1>4. nextLsn' = Len(hist) + 1
  BY <1>1, <1>3 DEF SafetyInv, LsnTypes, HistoryEnds
<1>5. LsnTypes'
  <2>1. 1..(nextLsn' - 1) \subseteq Nat
    BY <1>4
  <2>2. nextLsn' \in Nat \ {0} /\ durableLsn' \in Nat
    BY <1>1, <1>4
  <2> QED BY <2>1, <2>2, <1>1, <1>3 DEF SafetyInv, LsnTypes
<1>6. HistoryEnds'
  <2>1. durableLsn' < nextLsn'
    BY <1>1, <1>4
  <2> QED BY <2>1, <1>1, <1>3, <1>4 DEF SafetyInv, HistoryEnds
<1>7. Exclusion' /\ TargetsKnown' /\ CheckpointKnows' /\ CommitsKnown' /\ PromisesSafe'
  BY <1>1 DEF SafetyInv, Exclusion, TargetsKnown, CheckpointKnows, CommitsKnown, PromisesSafe, Safe
<1> QED BY <1>5, <1>6, <1>7 DEF SafetyInv

(* A constructor that throws changes nothing on disk. *)
LEMMA ReopenStep ==
    ASSUME SafetyInv, RecoverThrows \/ Reopen
    PROVE  SafetyInv'
<1>1. /\ mode # "up" /\ mode' \in {"down", "failed"}
      /\ UNCHANGED <<disk, db, logVars, writeMutex, commitVars, ckptLsn, pc, local, ghosts>>
  BY DEF RecoverThrows, Reopen
<1> QED BY <1>1 DEF SafetyInv, LsnTypes, HistoryEnds, Exclusion, TargetsKnown, CheckpointKnows, CommitsKnown, PromisesSafe, Safe

(* A step that leaves every variable alone. *)
LEMMA StutterStep ==
    ASSUME SafetyInv, UNCHANGED vars
    PROVE  SafetyInv'
BY DEF vars, SafetyInv, LsnTypes, HistoryEnds, Exclusion, TargetsKnown, CheckpointKnows, CommitsKnown, PromisesSafe, Safe

(* Every step keeps the invariant. *)
LEMMA NextSafety == SafetyInv /\ [Next]_vars => SafetyInv'
<1> SUFFICES ASSUME SafetyInv, [Next]_vars PROVE SafetyInv'
  OBVIOUS
<1>1. ASSUME NEW t \in Threads, Begin(t) PROVE SafetyInv'
  BY <1>1, QuietStep DEF Begin
<1>2. ASSUME NEW t \in Threads, Work(t) PROVE SafetyInv'
  <2>1. CASE Prefix(t)
    BY <2>1, LogRecordStep, SkipLsnStep, QuietStep DEF Prefix, PrefixInsert, PrefixGiven, PrefixUpdateVec
  <2>2. CASE GroupCommit(t) \/ MaybeFlush(t)
    BY <2>2, QuietStep DEF GroupCommit, MaybeFlush
  <2>3. CASE WalSync(t)
    BY <2>3, QuietStep, SyncFsyncStep, ThrowsStep, LeaderPublishStep, SyncReturnStep DEF WalSync
  <2>4. CASE ApplyOp(t) \/ Finish(t)
    BY <2>4, ApplyStep, QuietStep, FinishStep DEF ApplyOp
  <2>5. CASE Checkpoint(t)
    BY <2>5, QuietStep, ThrowsStep, SkipLsnStep, CkptDirSyncStep, CkptMarkStep, CkptTruncateStep,
       CkptReleaseStep DEF Checkpoint
  <2> QED BY <1>2, <2>1, <2>2, <2>3, <2>4, <2>5 DEF Work
<1>3. CASE Close \/ ProcessCrash \/ PowerLoss
  BY <1>3, StopStep, PowerLossStep
<1>4. CASE Restart
  BY <1>4, RecoverStep, ReopenStep DEF Restart
<1>5. CASE UNCHANGED vars
  BY <1>5, StutterStep
<1> QED BY <1>1, <1>2, <1>3, <1>4, <1>5 DEF Next

(* The core of the store's crash safety, whatever fails: lsns, mutexes and log records keep the
   shape above, and every promise is kept by a stable record or by the stable snapshot.        *)
THEOREM Safety == Spec => []SafetyInv
BY InitSafety, NextSafety, PTL DEF Spec

-----------------------------------------------------------------------------
(* KeptInv is inductive when the directory fsync of a snapshot works. *)

(* The actions of the threads: a promise is made when its record is on stable storage, and
   truncation takes only records the stable snapshot covers.                               *)
LEMMA ThreadKept ==
    ASSUME SafetyInv, KeptInv, NEW t \in Threads,
           \/ BeginInsert(t) \/ BeginOnLiveId(t) \/ BeginCheckpoint(t) \/ BeginSync(t)
           \/ PrefixRowGone(t) \/ CommitDone(t) \/ CommitWait(t) \/ CommitLead(t)
           \/ FlushSkip(t) \/ FlushLead(t) \/ SyncCapture(t) \/ SyncThrows(t) \/ ApplyThrows(t)
           \/ Apply(t) \/ CkptLock(t) \/ CkptQuiet(t) \/ CkptWait(t) \/ CkptSave(t)
           \/ CkptSaveThrows(t) \/ PrefixThrows(t) \/ CkptMarkThrows(t) \/ CkptMark(t)
           \/ SyncFsync(t) \/ LeaderPublish(t) \/ SyncReturn(t) \/ Finish(t) \/ CkptTruncate(t)
           \/ CkptRelease(t)
    PROVE  KeptInv'
<1> USE DEF SafetyInv, LsnTypes, HistoryEnds, TargetsKnown, CheckpointKnows, Exclusion,
            CommitsKnown, KeptInv, SnapshotIsStable, RecordSafe
<1>0. Len(hist) \in Nat /\ \A n \in wal : n \in Nat
  BY SafeBounds
<1>1. CASE BeginInsert(t)
  BY <1>0, <1>1 DEF BeginInsert
<1>2. CASE BeginOnLiveId(t)
  BY <1>0, <1>2 DEF BeginOnLiveId
<1>3. CASE BeginCheckpoint(t)
  BY <1>0, <1>3 DEF BeginCheckpoint
<1>4. CASE BeginSync(t)
  BY <1>0, <1>4 DEF BeginSync
<1>5. CASE PrefixRowGone(t)
  BY <1>0, <1>5 DEF PrefixRowGone
<1>6. CASE CommitDone(t)
  BY <1>0, <1>6 DEF CommitDone
<1>7. CASE CommitWait(t)
  BY <1>0, <1>7 DEF CommitWait
<1>8. CASE CommitLead(t)
  BY <1>0, <1>8 DEF CommitLead
<1>9. CASE FlushSkip(t)
  BY <1>0, <1>9 DEF FlushSkip
<1>10. CASE FlushLead(t)
  BY <1>0, <1>10 DEF FlushLead
<1>11. CASE SyncCapture(t)
  BY <1>0, <1>11 DEF SyncCapture
<1>12. CASE SyncThrows(t)
  BY <1>0, <1>12 DEF SyncThrows
<1>13. CASE ApplyThrows(t)
  BY <1>0, <1>13 DEF ApplyThrows
<1>14. CASE Apply(t)
  BY <1>0, <1>14 DEF Apply
<1>15. CASE CkptLock(t)
  BY <1>0, <1>15 DEF CkptLock
<1>16. CASE CkptQuiet(t)
  BY <1>0, <1>16 DEF CkptQuiet
<1>17. CASE CkptWait(t)
  BY <1>0, <1>17 DEF CkptWait
<1>18. CASE CkptSave(t)
  BY <1>0, <1>18 DEF CkptSave
<1>19. CASE CkptSaveThrows(t)
  BY <1>0, <1>19 DEF CkptSaveThrows
<1>20. CASE PrefixThrows(t)
  BY <1>0, <1>20 DEF PrefixThrows, SkipLsn
<1>21. CASE CkptMarkThrows(t)
  BY <1>0, <1>21 DEF CkptMarkThrows, SkipLsn
<1>22. CASE CkptMark(t)
  BY <1>0, <1>22 DEF CkptMark
<1>23. CASE SyncFsync(t)
  BY <1>0, <1>23 DEF SyncFsync
<1>24. CASE LeaderPublish(t)
  BY <1>0, <1>24 DEF LeaderPublish
<1>25. CASE SyncReturn(t)
  BY <1>0, <1>25 DEF SyncReturn
<1>26. CASE Finish(t)
  BY <1>0, <1>26 DEF Finish
<1>27. CASE CkptTruncate(t)
  BY <1>0, <1>27 DEF CkptTruncate
<1>28. CASE CkptRelease(t)
  BY <1>0, <1>28 DEF CkptRelease
<1> QED
  BY <1>1, <1>2, <1>3, <1>4, <1>5, <1>6, <1>7, <1>8, <1>9, <1>10, <1>11, <1>12, <1>13, <1>14,
     <1>15, <1>16, <1>17, <1>18, <1>19, <1>20, <1>21, <1>22, <1>23, <1>24, <1>25, <1>26, <1>27, <1>28

(* The append of a prefix: the record is in the log, and not yet counted durable. *)
LEMMA LogRecordKept ==
    ASSUME SafetyInv, KeptInv, NEW t \in Threads, NEW r, pc[t] = "prefix", ~writeMutex,
           LogRecord(t, r)
    PROVE  KeptInv'
<1> USE DEF SafetyInv, LsnTypes, HistoryEnds, Exclusion, KeptInv, SnapshotIsStable, RecordSafe
<1>1. Len(hist) \in Nat /\ \A n \in wal : n \in Nat
  BY SafeBounds
<1>2. mode = "up" /\ durableLsn < nextLsn
  BY DEF LogRecord
<1>3. /\ pc' = [pc EXCEPT ![t] = IF Policy = "PerOpSync" THEN "commit" ELSE "apply"]
      /\ lsn' = [lsn EXCEPT ![t] = nextLsn] /\ wal' = wal \cup {nextLsn}
      /\ UNCHANGED <<stable, snap, snapStable, durableLsn, ckptLsn, target, via, promised>>
  BY DEF LogRecord
<1>4. lsn'[t] \in wal' /\ ~(lsn'[t] <= durableLsn')
  BY <1>2, <1>3
<1> QED BY <1>1, <1>3, <1>4

(* The directory fsync succeeds: the stable snapshot is the one checkpoint() just wrote. *)
LEMMA CkptDirSyncKept ==
    ASSUME "dirSyncError" \notin Faults, SafetyInv, KeptInv, NEW t \in Threads, CkptDirSync(t)
    PROVE  KeptInv'
<1> USE DEF SafetyInv, LsnTypes, HistoryEnds, Exclusion, KeptInv, SnapshotIsStable, RecordSafe
<1>1. /\ pc[t] = "dirsync" /\ pc' = [pc EXCEPT ![t] = "mark"] /\ snapStable' = snap
      /\ UNCHANGED <<wal, stable, snap, durableLsn, ckptLsn, target, via, lsn, promised>>
  BY DEF CkptDirSync
<1>2. snapStable.lsn <= snapStable'.lsn /\ ckptLsn <= snapStable'.lsn
  BY <1>1
<1>3. \A n \in Nat : RecordSafe(n) => RecordSafe(n)'
  BY <1>1, <1>2
<1> QED BY <1>1, <1>2, <1>3

(* What a crash or a close leaves holds every record that was safe. *)
LEMMA StopKept ==
    ASSUME SafetyInv, KeptInv, Close \/ ProcessCrash \/ PowerLoss
    PROVE  KeptInv'
<1>1. promised' = promised /\ \A t \in Threads : pc'[t] = "idle"
  BY MemoryLost DEF Close, ProcessCrash, PowerLoss
<1>2. ASSUME NEW n \in promised PROVE RecordSafe(n)'
  <2>1. RecordSafe(n) /\ n \in Nat
    BY DEF KeptInv, SafetyInv, LsnTypes
  <2>2. CASE Close \/ ProcessCrash
    BY <2>1, <2>2 DEF Close, ProcessCrash, RecordSafe, SafetyInv, LsnTypes
  <2>3. CASE PowerLoss
    <3>1. PICK cut \in {stable} \cup {m \in wal : m > stable}, s \in {snap, snapStable} :
            wal' = {m \in wal : m <= cut} /\ stable' = cut /\ snapStable' = s
      BY <2>3 DEF PowerLoss
    <3>2. stable <= cut /\ cut \in Nat /\ snapStable.lsn <= s.lsn /\ s.lsn \in Nat
      BY SafeBounds DEF SafetyInv, LsnTypes, HistoryEnds
    <3> QED BY <2>1, <3>1, <3>2 DEF RecordSafe, SafetyInv, LsnTypes
  <2> QED BY <2>2, <2>3
<1> QED BY <1>1, <1>2 DEF KeptInv, SnapshotIsStable, InFlight, SyncPcs

(* The constructor leaves the disk alone. *)
LEMMA RestartKept ==
    ASSUME SafetyInv, KeptInv, Restart
    PROVE  KeptInv'
<1>1. /\ \A t \in Threads : pc[t] = "idle"
      /\ UNCHANGED <<disk, pc, promised>>
  BY DEF Restart, Recover, RecoverThrows, Reopen, SafetyInv, Exclusion, ghosts
<1> QED BY <1>1 DEF KeptInv, SnapshotIsStable, RecordSafe, InFlight, SyncPcs, disk

(* Every step keeps the invariant. *)
LEMMA NextKept == "dirSyncError" \notin Faults /\ SafetyInv /\ KeptInv /\ [Next]_vars => KeptInv'
<1> SUFFICES ASSUME "dirSyncError" \notin Faults, SafetyInv, KeptInv, [Next]_vars PROVE KeptInv'
  OBVIOUS
<1>1. ASSUME NEW t \in Threads, Begin(t) \/ Work(t) PROVE KeptInv'
  <2>1. CASE Prefix(t)
    BY <2>1, LogRecordKept, ThreadKept DEF Prefix, PrefixInsert, PrefixGiven, PrefixUpdateVec
  <2>2. CASE Begin(t) \/ GroupCommit(t) \/ MaybeFlush(t) \/ ApplyOp(t) \/ Finish(t)
    BY <2>2, ThreadKept DEF Begin, GroupCommit, MaybeFlush, ApplyOp
  <2>3. CASE WalSync(t) \/ Checkpoint(t)
    BY <2>3, ThreadKept, CkptDirSyncKept DEF WalSync, Checkpoint
  <2> QED BY <1>1, <2>1, <2>2, <2>3 DEF Work
<1>2. CASE Close \/ ProcessCrash \/ PowerLoss
  BY <1>2, StopKept
<1>3. CASE Restart
  BY <1>3, RestartKept
<1>4. CASE UNCHANGED vars
  BY <1>4 DEF vars, disk, commitVars, local, ghosts, KeptInv, SnapshotIsStable, RecordSafe, InFlight
<1> QED BY <1>1, <1>2, <1>3, <1>4 DEF Next

(* A write that returned under PerOpSync, and what sync() or checkpoint() covered before it
   returned, is in the log or under the snapshot whenever the store is opened, through any
   crash, failed write and failed fsync, but for that of the snapshot's directory.          *)
THEOREM PromisesKept ==
    ASSUME "dirSyncError" \notin Faults
    PROVE  Spec => []PromisesSurvive
<1>1. Init => KeptInv
  BY DEF Init, KeptInv, SnapshotIsStable, InFlight, SyncPcs
<1>2. SafetyInv /\ KeptInv /\ [Next]_vars => KeptInv'
  BY NextKept
<1>3. SafetyInv /\ KeptInv => PromisesSurvive
  BY DEF SafetyInv, LsnTypes, HistoryEnds, KeptInv, RecordSafe, PromisesSurvive
<1> QED BY <1>1, <1>2, <1>3, Safety, PTL DEF Spec

-----------------------------------------------------------------------------
(* VisibleInv is inductive when only power failures interrupt the store. *)

(* The actions of the threads: durable_lsn_ moves only to what an fsync reached, and a
   PerOpSync write is applied only when durable_lsn_ has reached it.                   *)
LEMMA ThreadVisible ==
    ASSUME SafetyInv, VisibleInv, NEW t \in Threads,
           \/ BeginInsert(t) \/ BeginOnLiveId(t) \/ BeginCheckpoint(t) \/ BeginSync(t)
           \/ PrefixRowGone(t) \/ CommitDone(t) \/ CommitWait(t) \/ CommitLead(t)
           \/ FlushSkip(t) \/ FlushLead(t) \/ SyncCapture(t) \/ ApplyThrows(t)
           \/ CkptLock(t) \/ CkptQuiet(t) \/ CkptWait(t) \/ CkptSave(t)
           \/ CkptTruncate(t) \/ CkptRelease(t) \/ SyncFsync(t) \/ LeaderPublish(t)
           \/ SyncReturn(t) \/ Apply(t) \/ Finish(t) \/ CkptMark(t)
    PROVE  VisibleInv'
<1> USE DEF SafetyInv, LsnTypes, HistoryEnds, TargetsKnown, CheckpointKnows, Exclusion,
            CommitsKnown, VisibleInv, DiskIsKnown, StrictVisibility, DurableUpTo
<1>0. Len(hist) \in Nat /\ \A n \in wal : n \in Nat
  BY SafeBounds
<1>1. CASE BeginInsert(t)
  BY <1>0, <1>1 DEF BeginInsert
<1>2. CASE BeginOnLiveId(t)
  BY <1>0, <1>2 DEF BeginOnLiveId
<1>3. CASE BeginCheckpoint(t)
  BY <1>0, <1>3 DEF BeginCheckpoint
<1>4. CASE BeginSync(t)
  BY <1>0, <1>4 DEF BeginSync
<1>5. CASE PrefixRowGone(t)
  BY <1>0, <1>5 DEF PrefixRowGone
<1>6. CASE CommitDone(t)
  BY <1>0, <1>6 DEF CommitDone
<1>7. CASE CommitWait(t)
  BY <1>0, <1>7 DEF CommitWait
<1>8. CASE CommitLead(t)
  BY <1>0, <1>8 DEF CommitLead
<1>9. CASE FlushSkip(t)
  BY <1>0, <1>9 DEF FlushSkip
<1>10. CASE FlushLead(t)
  BY <1>0, <1>10 DEF FlushLead
<1>11. CASE SyncCapture(t)
  BY <1>0, <1>11 DEF SyncCapture
<1>12. CASE ApplyThrows(t)
  BY <1>0, <1>12 DEF ApplyThrows
<1>13. CASE CkptLock(t)
  BY <1>0, <1>13 DEF CkptLock
<1>14. CASE CkptQuiet(t)
  BY <1>0, <1>14 DEF CkptQuiet
<1>15. CASE CkptWait(t)
  BY <1>0, <1>15 DEF CkptWait
<1>16. CASE CkptSave(t)
  BY <1>0, <1>16 DEF CkptSave
<1>17. CASE CkptTruncate(t)
  BY <1>0, <1>17 DEF CkptTruncate
<1>18. CASE CkptRelease(t)
  BY <1>0, <1>18 DEF CkptRelease
<1>19. CASE SyncFsync(t)
  BY <1>0, <1>19 DEF SyncFsync
<1>20. CASE LeaderPublish(t)
  BY <1>0, <1>20 DEF LeaderPublish
<1>21. CASE SyncReturn(t)
  BY <1>0, <1>21 DEF SyncReturn
<1>22. CASE Apply(t)
  BY <1>0, <1>22 DEF Apply
<1>23. CASE Finish(t)
  BY <1>0, <1>23 DEF Finish
<1>24. CASE CkptMark(t)
  BY <1>0, <1>24 DEF CkptMark
<1> QED
  BY <1>1, <1>2, <1>3, <1>4, <1>5, <1>6, <1>7, <1>8, <1>9, <1>10, <1>11, <1>12, <1>13, <1>14,
     <1>15, <1>16, <1>17, <1>18, <1>19, <1>20, <1>21, <1>22, <1>23, <1>24

(* The append of a prefix: the record is the newest of the log, and nothing is applied. *)
LEMMA LogRecordVisible ==
    ASSUME SafetyInv, VisibleInv, NEW t \in Threads, NEW r, pc[t] = "prefix", ~writeMutex,
           LogRecord(t, r)
    PROVE  VisibleInv'
<1> USE DEF SafetyInv, LsnTypes, HistoryEnds, Exclusion, VisibleInv, DiskIsKnown,
            StrictVisibility, DurableUpTo
<1>1. Len(hist) \in Nat /\ \A n \in wal : n \in Nat /\ n < nextLsn
  BY SafeBounds
<1>2. mode = "up" /\ mode' = "up"
  BY DEF LogRecord
<1>3. /\ pc' = [pc EXCEPT ![t] = IF Policy = "PerOpSync" THEN "commit" ELSE "apply"]
      /\ wal' = wal \cup {nextLsn} /\ highestLsn' = nextLsn
      /\ UNCHANGED <<stable, snap, snapStable, durableLsn, target, applied>>
  BY DEF LogRecord
<1> QED BY <1>1, <1>2, <1>3

(* The directory fsync succeeds: the new snapshot is the stable one. *)
LEMMA CkptDirSyncVisible ==
    ASSUME OnlyPowerFails, SafetyInv, VisibleInv, NEW t \in Threads, CkptDirSync(t)
    PROVE  VisibleInv'
<1> USE DEF SafetyInv, LsnTypes, HistoryEnds, Exclusion, VisibleInv, DiskIsKnown,
            StrictVisibility, DurableUpTo
<1>1. /\ pc[t] = "dirsync" /\ mode = "up" /\ pc' = [pc EXCEPT ![t] = "mark"]
      /\ snapStable' = snap
      /\ UNCHANGED <<wal, stable, snap, mode, highestLsn, durableLsn, target, applied>>
  BY DEF CkptDirSync, OnlyPowerFails
<1>2. DurableUpTo <= DurableUpTo' /\ DurableUpTo \in Nat /\ DurableUpTo' \in Nat
  BY <1>1
<1>3. DiskIsKnown'
  BY <1>1, <1>2
<1>4. StrictVisibility'
  BY <1>1, <1>2
<1> QED BY <1>3, <1>4

(* A close fsyncs the log; what a power failure leaves is what was stable. *)
LEMMA StopVisible ==
    ASSUME OnlyPowerFails, SafetyInv, VisibleInv, Close \/ ProcessCrash \/ PowerLoss
    PROVE  VisibleInv'
<1> USE SafeBounds
<1>1. mode' = "down" /\ applied' = {} /\ \A t \in Threads : pc'[t] = "idle"
  BY MemoryLost DEF Close, ProcessCrash, PowerLoss
<1>2. CASE Close
  <2>1. /\ mode = "up" /\ snap = snapStable /\ stable' = Larger(stable, highestLsn)
        /\ CutHistory(wal, snap) /\ UNCHANGED <<wal, snap, snapStable>>
    BY <1>2 DEF Close, OnlyPowerFails, VisibleInv, DiskIsKnown
  <2>2. Len(hist') \in wal \cup {snap.lsn} /\ \A n \in wal : n \in Nat
    BY <2>1, CutHistoryIsLog, SafeBounds DEF SafetyInv, LsnTypes
  <2>3. Len(hist') <= DurableUpTo'
    BY <2>1, <2>2 DEF DurableUpTo, SafetyInv, LsnTypes, VisibleInv, DiskIsKnown
  <2> QED BY <1>1, <2>1, <2>3 DEF VisibleInv, DiskIsKnown, StrictVisibility
<1>3. CASE PowerLoss
  <2>1. Len(hist') \in wal' \cup {snap'.lsn} /\ \A n \in wal' : n <= stable' /\ n \in Nat
    <3>1. SafetyInv'
      BY <1>3, PowerLossStep
    <3>2. \A n \in wal' : n <= stable'
      BY <1>3 DEF PowerLoss
    <3>3. \A n \in wal' : n \in Nat
      BY <1>3, SafeBounds DEF PowerLoss, SafetyInv, LsnTypes
    <3> QED BY <1>1, <3>1, <3>2, <3>3 DEF SafetyInv, HistoryEnds
  <2>2. snap' = snapStable' /\ stable' \in Nat /\ snap'.lsn \in Nat
    BY <1>3, PowerLossStep DEF PowerLoss, SafetyInv, LsnTypes
  <2>3. Len(hist') <= DurableUpTo'
    BY <2>1, <2>2 DEF DurableUpTo
  <2> QED BY <1>1, <2>2, <2>3 DEF VisibleInv, DiskIsKnown, StrictVisibility
<1>4. CASE ProcessCrash
  BY <1>4 DEF ProcessCrash, OnlyPowerFails
<1> QED BY <1>2, <1>3, <1>4

(* recover_ believes everything it found durable, and it is (durable_vdb.cpp:41). *)
LEMMA RestartVisible ==
    ASSUME SafetyInv, VisibleInv, Restart
    PROVE  VisibleInv'
<1>1. CASE Recover
  <2>1. SafetyInv'
    BY <1>1, RecoverStep
  <2>2. /\ mode = "down" /\ mode' = "up" /\ durableLsn' = nextLsn' - 1
        /\ applied' = 1..(nextLsn' - 1) /\ UNCHANGED <<disk, pc, target>>
        /\ \A t \in Threads : pc[t] = "idle"
        /\ \A n \in wal : n <= highestLsn'
    BY <1>1 DEF Recover, IsMax, SafetyInv, Exclusion
  <2>3. Len(hist) \in Nat /\ Len(hist) <= DurableUpTo /\ DurableUpTo \in Nat
    BY <2>2, SafeBounds DEF VisibleInv, DiskIsKnown, DurableUpTo, SafetyInv, LsnTypes
  <2>4. nextLsn' - 1 = Len(hist) /\ DurableUpTo' = DurableUpTo
    BY <2>1, <2>2, <2>3 DEF SafetyInv, HistoryEnds, DurableUpTo
  <2> QED BY <2>2, <2>3, <2>4 DEF VisibleInv, DiskIsKnown, StrictVisibility
<1>2. CASE RecoverThrows \/ Reopen
  BY <1>2 DEF RecoverThrows, Reopen, VisibleInv, DiskIsKnown, StrictVisibility, DurableUpTo
<1> QED BY <1>1, <1>2 DEF Restart

(* Every step keeps the invariant. *)
LEMMA NextVisible == OnlyPowerFails /\ SafetyInv /\ VisibleInv /\ [Next]_vars => VisibleInv'
<1> SUFFICES ASSUME OnlyPowerFails, SafetyInv, VisibleInv, [Next]_vars PROVE VisibleInv'
  OBVIOUS
<1>1. ASSUME NEW t \in Threads, Begin(t) \/ Work(t) PROVE VisibleInv'
  <2>0. ~SyncThrows(t) /\ ~CkptSaveThrows(t) /\ ~PrefixThrows(t) /\ ~CkptMarkThrows(t)
    BY DEF SyncThrows, CkptSaveThrows, PrefixThrows, CkptMarkThrows, SkipLsn, OnlyPowerFails
  <2>1. CASE Prefix(t)
    BY <2>1, <2>0, LogRecordVisible, ThreadVisible DEF Prefix, PrefixInsert, PrefixGiven, PrefixUpdateVec
  <2>2. CASE Begin(t) \/ GroupCommit(t) \/ MaybeFlush(t) \/ ApplyOp(t) \/ Finish(t)
    BY <2>2, ThreadVisible DEF Begin, GroupCommit, MaybeFlush, ApplyOp
  <2>4. CASE WalSync(t) \/ Checkpoint(t)
    BY <2>0, <2>4, ThreadVisible, CkptDirSyncVisible DEF WalSync, Checkpoint
  <2> QED BY <1>1, <2>1, <2>2, <2>4 DEF Work
<1>2. CASE Close \/ ProcessCrash \/ PowerLoss
  BY <1>2, StopVisible
<1>3. CASE Restart
  BY <1>3, RestartVisible
<1>4. CASE UNCHANGED vars
  BY <1>4 DEF vars, VisibleInv, DiskIsKnown, StrictVisibility, DurableUpTo
<1> QED BY <1>1, <1>2, <1>3, <1>4 DEF Next

(* When only power failures interrupt the store, durable_lsn_ never claims more than stable
   storage holds, and under PerOpSync no reader sees a write that a crash can take back.    *)
THEOREM StrictlyVisible ==
    ASSUME OnlyPowerFails
    PROVE  Spec => [](DurableLsnIsTrue /\ StrictVisibility)
<1>1. Init => VisibleInv
  BY DEF Init, NoSnapshot, VisibleInv, DiskIsKnown, StrictVisibility, DurableUpTo
<1>2. SafetyInv /\ VisibleInv /\ [Next]_vars => VisibleInv'
  BY NextVisible
<1>3. VisibleInv => DurableLsnIsTrue /\ StrictVisibility
  BY DEF VisibleInv, DiskIsKnown, DurableLsnIsTrue
<1> QED BY <1>1, <1>2, <1>3, Safety, PTL DEF Spec

-----------------------------------------------------------------------------
(* Types. *)

(* The records callers hand in, and what recovery finds in the place of one. *)
LEMMA RecordTypesKnown ==
    /\ NoCall \in Call /\ NoRow \in Row /\ EmptyDb = [e \in {} |-> NoRow] /\ IsDb(EmptyDb)
    /\ \A r \in Rows : r \in Row
    /\ \A call \in InsertCalls : call \in Call
    /\ \A e \in Nat : \A call \in CallsOn(e) : call \in Call
    /\ \A r \in WalRecord \cup {NoCall} : r.ext \in Nat /\ r.row \in Row
    /\ \A r \in Call : r.type \in {"Insert", "Update", "SetMeta", "Delete"} => r \in WalRecord
    /\ \A r \in WalRecord : r.type \in Mutations => r \in Call
    /\ Record("Checkpoint", 0, NoRow) \in WalRecord
<1> USE DEF NoCall, Call, NoRow, Row, Record, WalRecord, Mutations, RecordTypes
<1>1. IsDb(EmptyDb) /\ EmptyDb = [e \in {} |-> NoRow]
  BY DEF IsDb, EmptyDb
<1>2. NoRow \in Row
  OBVIOUS
<1>3. \A r \in Rows : r \in Row
  BY DEF Rows
<1>4. \A call \in InsertCalls : call \in Call
  BY <1>3 DEF InsertCalls
<1>5. ASSUME NEW e \in Nat, NEW call \in CallsOn(e) PROVE call \in Call
  <2>1. \A r \in Rows : [r EXCEPT !.vec = NoVec] \in Row
    BY DEF Rows
  <2>2. \A v \in Vecs : [vec |-> v, meta |-> NoMeta] \in Row
    OBVIOUS
  <2> HIDE DEF Row, NoRow
  <2> QED BY <1>2, <1>3, <2>1, <2>2 DEF CallsOn
<1> QED BY <1>1, <1>2, <1>3, <1>4, <1>5

(* The serialised prefix logs a record of a mutation. *)
LEMMA LogRecordTypes ==
    ASSUME SafetyInv, TypeOK, NEW t \in Threads, NEW r \in WalRecord, r.type \in Mutations,
           LogRecord(t, r), nextExt' \in Nat
    PROVE  TypeOK'
<1> USE DEF SafetyInv, LsnTypes, TypeOK
<1>1. r \in Call
  BY RecordTypesKnown
<1>2. hist' \in Seq(WalRecord \cup {NoCall})
  <2>1. hist' = Append(hist, r)
    BY DEF LogRecord
  <2>2. r \in WalRecord \cup {NoCall} /\ hist \in Seq(WalRecord \cup {NoCall})
    OBVIOUS
  <2> HIDE DEF LsnTypes, TypeOK, SafetyInv
  <2> QED BY <2>1, <2>2, AppendProperties
<1>3. /\ wal' \subseteq Nat /\ highestLsn' \in Nat /\ nextLsn' \in Nat /\ inFlight' \in Int
      /\ lsn' \in [Threads -> Nat] /\ op' \in [Threads -> Call]
  BY <1>1 DEF LogRecord
<1>4. opsSinceCheckpoint' \in Nat /\ doCkpt' \in [Threads -> BOOLEAN]
  <2>1. \/ opsSinceCheckpoint' = 0 /\ doCkpt' = [doCkpt EXCEPT ![t] = TRUE]
        \/ opsSinceCheckpoint' = opsSinceCheckpoint + 1 /\ doCkpt' = doCkpt
    BY DEF LogRecord
  <2>2. opsSinceCheckpoint \in Nat /\ doCkpt \in [Threads -> BOOLEAN]
    OBVIOUS
  <2> HIDE DEF SafetyInv, LsnTypes, TypeOK
  <2>3. CASE opsSinceCheckpoint' = 0 /\ doCkpt' = [doCkpt EXCEPT ![t] = TRUE]
    BY <2>2, <2>3
  <2>4. CASE opsSinceCheckpoint' = opsSinceCheckpoint + 1 /\ doCkpt' = doCkpt
    BY <2>2, <2>4
  <2> QED BY <2>1, <2>3, <2>4
<1>5. pc' \in [Threads -> Pcs]
  BY DEF LogRecord
<1> QED BY <1>2, <1>3, <1>4, <1>5 DEF LogRecord

(* Each action of a thread keeps the types. *)
LEMMA ThreadTypes ==
    ASSUME SafetyInv, TypeOK, NEW t \in Threads, Begin(t) \/ Work(t)
    PROVE  TypeOK'
<1> USE DEF SafetyInv, LsnTypes, TypeOK
<1>1. CASE BeginInsert(t)
  BY <1>1, RecordTypesKnown DEF BeginInsert
<1>2. CASE BeginOnLiveId(t)
  <2>1. PICK e \in DOMAIN db : \E call \in CallsOn(e) : BeginMutation(t, call)
    BY <1>2 DEF BeginOnLiveId
  <2>2. PICK call \in CallsOn(e) : BeginMutation(t, call)
    BY <2>1
  <2>3. call \in Call
    BY RecordTypesKnown DEF IsDb
  <2> QED BY <2>2, <2>3
<1>3. CASE BeginCheckpoint(t)
  BY <1>3, RecordTypesKnown DEF BeginCheckpoint
<1>4. CASE BeginSync(t)
  BY <1>4, RecordTypesKnown DEF BeginSync
<1>5. CASE PrefixInsert(t)
  <2>1. Record("Insert", nextExt, op[t].row) \in WalRecord
    BY DEF Call, WalRecord, Record, RecordTypes
  <2>2. nextExt' \in Nat /\ LogRecord(t, Record("Insert", nextExt, op[t].row))
    BY <1>5 DEF PrefixInsert
  <2>3. Record("Insert", nextExt, op[t].row).type \in Mutations
    BY DEF Record, Mutations
  <2> QED BY <2>1, <2>2, <2>3, LogRecordTypes
<1>6. CASE PrefixGiven(t)
  <2>1. op[t] \in WalRecord
    BY <1>6, RecordTypesKnown DEF PrefixGiven
  <2> QED BY <1>6, <2>1, LogRecordTypes DEF PrefixGiven, Mutations
<1>7. CASE PrefixUpdateVec(t)
  <2>1. [op[t].row EXCEPT !.meta = db[op[t].ext].meta] \in Row
    BY <1>7 DEF PrefixUpdateVec, Call, IsDb, Row
  <2>2. Record("Update", op[t].ext, [op[t].row EXCEPT !.meta = db[op[t].ext].meta]) \in WalRecord
    BY <2>1 DEF Call, WalRecord, Record, RecordTypes
  <2> QED BY <1>7, <2>2, LogRecordTypes DEF PrefixUpdateVec, Record, Mutations
<1>8. CASE PrefixRowGone(t)
  BY <1>8, RecordTypesKnown DEF PrefixRowGone
<1>9. CASE PrefixThrows(t)
  BY <1>9, RecordTypesKnown DEF PrefixThrows, SkipLsn
<1>10. CASE CommitDone(t)
  BY <1>10, RecordTypesKnown DEF CommitDone
<1>11. CASE CommitWait(t)
  BY <1>11, RecordTypesKnown DEF CommitWait
<1>12. CASE CommitLead(t)
  BY <1>12, RecordTypesKnown DEF CommitLead
<1>13. CASE FlushSkip(t)
  BY <1>13, RecordTypesKnown DEF FlushSkip
<1>14. CASE FlushLead(t)
  BY <1>14, RecordTypesKnown DEF FlushLead
<1>15. CASE SyncCapture(t)
  BY <1>15, RecordTypesKnown DEF SyncCapture
<1>16. CASE SyncFsync(t)
  BY <1>16, RecordTypesKnown DEF SyncFsync
<1>17. CASE SyncThrows(t)
  BY <1>17, RecordTypesKnown DEF SyncThrows
<1>18. CASE LeaderPublish(t)
  BY <1>18, RecordTypesKnown DEF LeaderPublish
<1>19. CASE SyncReturn(t)
  BY <1>19, RecordTypesKnown DEF SyncReturn
<1>20. CASE Apply(t)
  <2>1. IsDb(db')
    BY <1>20, ApplyIsDb DEF Apply, Call
  <2> QED BY <1>20, <2>1 DEF Apply
<1>21. CASE ApplyThrows(t)
  BY <1>21, RecordTypesKnown DEF ApplyThrows
<1>22. CASE Finish(t)
  <2>1. pc' \in [Threads -> Pcs]
    BY <1>22 DEF Finish
  <2>2. promised' \subseteq Nat /\ inFlight' \in Int
    BY <1>22 DEF Finish
  <2>3. /\ op' \in [Threads -> Call] /\ lsn' \in [Threads -> Nat] /\ via' \in [Threads -> Callers]
        /\ target' \in [Threads -> Nat] /\ doCkpt' \in [Threads -> BOOLEAN]
    BY <1>22, RecordTypesKnown DEF Finish
  <2>4. UNCHANGED <<disk, mode, db, logVars, writeMutex, durableLsn, syncing, ckptLsn, applied, crashes>>
    BY <1>22 DEF Finish
  <2> QED BY <2>1, <2>2, <2>3, <2>4
<1>23. CASE CkptLock(t)
  BY <1>23, RecordTypesKnown DEF CkptLock
<1>24. CASE CkptQuiet(t)
  BY <1>24, RecordTypesKnown DEF CkptQuiet
<1>25. CASE CkptWait(t)
  BY <1>25, RecordTypesKnown DEF CkptWait
<1>26. CASE CkptSave(t)
  <2>1. IsSnapshot(snap')
    BY <1>26 DEF CkptSave, IsSnapshot
  <2> QED BY <1>26, <2>1 DEF CkptSave
<1>27. CASE CkptSaveThrows(t)
  BY <1>27, RecordTypesKnown DEF CkptSaveThrows
<1>28. CASE CkptDirSync(t)
  BY <1>28, RecordTypesKnown DEF CkptDirSync
<1>29. CASE CkptMark(t)
  BY <1>29, RecordTypesKnown DEF CkptMark
<1>30. CASE CkptMarkThrows(t)
  <2>1. hist' \in Seq(WalRecord \cup {NoCall}) /\ nextLsn' \in Nat
    BY <1>30 DEF CkptMarkThrows, SkipLsn
  <2> QED BY <1>30, <2>1, RecordTypesKnown DEF CkptMarkThrows, SkipLsn
<1>31. CASE CkptTruncate(t)
  BY <1>31, RecordTypesKnown DEF CkptTruncate
<1>32. CASE CkptRelease(t)
  <2>1. durableLsn' \in Nat /\ 1..ckptLsn \subseteq Nat
    BY <1>32 DEF CkptRelease
  <2>2. promised' \subseteq Nat /\ ckptLsn' \in Int
    BY <1>32, <2>1 DEF CkptRelease
  <2> QED BY <1>32, <2>1, <2>2, RecordTypesKnown DEF CkptRelease
<1> QED
  BY <1>1, <1>2, <1>3, <1>4, <1>5, <1>6, <1>7, <1>8, <1>9, <1>10, <1>11, <1>12, <1>13, <1>14, <1>15, <1>16, <1>17, <1>18, <1>19, <1>20, <1>21, <1>22, <1>23, <1>24, <1>25, <1>26, <1>27, <1>28, <1>29, <1>30, <1>31, <1>32
     DEF Begin, Work, Prefix, GroupCommit, MaybeFlush, WalSync, ApplyOp, Checkpoint

(* What is left of a history when a process ends is a history. *)
LEMMA CutTypes ==
    ASSUME TypeOK, SafetyInv, NEW log, NEW s, log \subseteq wal, s \in {snap, snapStable}, CutHistory(log, s)
    PROVE  /\ hist' \in Seq(WalRecord \cup {NoCall}) /\ Len(hist') \in 0..Len(hist)
           /\ \A n \in 1..Len(hist') : hist'[n] = hist[n]
<1>1. PICK last \in log \cup {s.lsn} : hist' = [n \in 1..last |-> hist[n]]
  BY DEF CutHistory
<1>2. Len(hist) \in Nat /\ DOMAIN hist = 1..Len(hist) /\ \A n \in 1..Len(hist) : hist[n] \in WalRecord \cup {NoCall}
  BY LenProperties, ElementOfSeq DEF TypeOK
<1>3. last \in 0..Len(hist)
  BY <1>2 DEF SafetyInv, HistoryEnds, LsnTypes
<1>4. hist' \in [1..last -> WalRecord \cup {NoCall}]
  BY <1>1, <1>2, <1>3
<1>5. hist' \in Seq(WalRecord \cup {NoCall})
  BY <1>3, <1>4, SeqDef
<1>6. Len(hist') = last
  BY <1>3, <1>4, <1>5, LenProperties
<1> QED BY <1>1, <1>3, <1>5, <1>6

(* A process that ends leaves its files, and nothing in memory. *)
LEMMA StopTypes ==
    ASSUME SafetyInv, TypeOK, Close \/ ProcessCrash \/ PowerLoss
    PROVE  TypeOK'
<1> USE DEF SafetyInv, LsnTypes
<1>1. /\ mode' = "down" /\ db' = EmptyDb /\ nextExt' = 0 /\ nextLsn' = 1 /\ opsSinceCheckpoint' = 0
      /\ highestLsn' = 0 /\ writeMutex' = FALSE /\ durableLsn' = 0 /\ syncing' = FALSE
      /\ inFlight' = 0 /\ ckptLsn' = 0 /\ pc' = [t \in Threads |-> "idle"]
      /\ op' = [t \in Threads |-> NoCall] /\ lsn' = [t \in Threads |-> 0]
      /\ via' = [t \in Threads |-> "commit"] /\ target' = [t \in Threads |-> 0]
      /\ doCkpt' = [t \in Threads |-> FALSE] /\ applied' = {} /\ promised' = promised
  BY DEF Close, ProcessCrash, PowerLoss, LoseMemory
<1>2. crashes' \in Nat
  BY DEF TypeOK, Close, ProcessCrash, PowerLoss
<1>3. /\ hist' \in Seq(WalRecord \cup {NoCall}) /\ stable' \in Nat /\ wal' \subseteq Nat
      /\ IsSnapshot(snap') /\ IsSnapshot(snapStable')
  <2>1. CASE Close \/ ProcessCrash
    BY <2>1, CutTypes DEF Close, ProcessCrash, TypeOK
  <2>2. CASE PowerLoss
    <3>1. PICK cut \in {stable} \cup {n \in wal : n > stable}, s \in {snap, snapStable} :
             /\ wal' = {n \in wal : n <= cut} /\ stable' = cut
             /\ snap' = s /\ snapStable' = s
             /\ CutHistory({n \in wal : n <= cut}, s)
      BY <2>2 DEF PowerLoss
    <3>2. {n \in wal : n <= cut} \subseteq wal
      OBVIOUS
    <3>3. hist' \in Seq(WalRecord \cup {NoCall})
      BY <3>1, <3>2, CutTypes
    <3> QED BY <3>1, <3>3 DEF TypeOK
  <2> QED BY <2>1, <2>2
<1>4. /\ IsDb(db') /\ op' \in [Threads -> Call]
      /\ pc' \in [Threads -> Pcs] /\ lsn' \in [Threads -> Nat] /\ via' \in [Threads -> Callers]
      /\ target' \in [Threads -> Nat] /\ doCkpt' \in [Threads -> BOOLEAN]
  <2> USE RecordTypesKnown
  <2> HIDE DEF SafetyInv
  <2> QED BY <1>1
<1> HIDE DEF SafetyInv
<1>5. /\ mode' \in {"up", "down", "failed"} /\ nextExt' \in Nat /\ nextLsn' \in Nat
      /\ opsSinceCheckpoint' \in Nat /\ highestLsn' \in Nat /\ durableLsn' \in Nat
      /\ inFlight' \in Int /\ ckptLsn' \in Int 
  BY <1>1
<1>6. writeMutex' \in BOOLEAN /\ syncing' \in BOOLEAN
  BY <1>1
<1>7. applied' \subseteq Nat /\ promised' \subseteq Nat
  BY <1>1 DEF TypeOK
<1> QED BY <1>2, <1>3, <1>4, <1>5, <1>6, <1>7 DEF TypeOK

(* The constructor makes a store of the snapshot and the log, whatever they hold. *)
LEMMA RestartTypes ==
    ASSUME SafetyInv, TypeOK, Restart
    PROVE  TypeOK'
<1> USE DEF SafetyInv, LsnTypes
<1>0. Len(hist) \in Nat /\ \A n \in 1..Len(hist) : hist[n].ext \in Nat /\ hist[n].row \in Row
  BY RecordTypesKnown, LenProperties, ElementOfSeq DEF TypeOK
<1>1. CASE Recover
  <2> DEFINE pending == {n \in wal : n > snap.lsn}
             bounds  == {snap.nextExt} \cup {hist[n].ext + 1 : n \in {m \in pending : hist[m].type = "Insert"}}
  <2>1. IsDb(db')
    <3>1. db' = Replay(hist, snap.db, pending)
      BY <1>1 DEF Recover
    <3>2. IsDb(snap.db)
      BY DEF TypeOK, IsSnapshot
    <3> QED BY <1>0, <3>1, <3>2, ReplayIsDb
  <2>2. nextExt' \in Nat
    <3>1. nextExt' \in bounds
      BY <1>1 DEF Recover
    <3>2. snap.nextExt \in Nat /\ \A n \in pending : hist[n].ext + 1 \in Nat
      BY <1>0 DEF TypeOK, IsSnapshot
    <3> QED BY <3>1, <3>2
  <2>4. nextLsn' \in Nat /\ highestLsn' \in Nat /\ durableLsn' \in Nat
    BY <1>1, RecoverStep
  <2>5. /\ mode' = "up" /\ applied' = 1..(nextLsn' - 1)
        /\ UNCHANGED <<disk, opsSinceCheckpoint, writeMutex, syncing, inFlight, ckptLsn, pc, local,
                       promised, crashes>>
    BY <1>1 DEF Recover
  <2>6. applied' \subseteq Nat
    <3>1. \A n \in Nat : 1..(n - 1) \subseteq Nat
      OBVIOUS
    <3> QED BY <2>4, <2>5, <3>1
  <2> HIDE DEF SafetyInv
  <2> QED BY <2>1, <2>2, <2>4, <2>5, <2>6 DEF TypeOK
<1>2. CASE RecoverThrows \/ Reopen
  BY <1>2 DEF RecoverThrows, Reopen, TypeOK
<1> QED BY <1>1, <1>2 DEF Restart

(* Every step keeps the types. *)
LEMMA NextTypes == SafetyInv /\ TypeOK /\ [Next]_vars => TypeOK'
<1> SUFFICES ASSUME SafetyInv, TypeOK, [Next]_vars PROVE TypeOK'
  OBVIOUS
<1>1. ASSUME NEW t \in Threads, Begin(t) \/ Work(t) PROVE TypeOK'
  BY <1>1, ThreadTypes
<1>2. CASE Close \/ ProcessCrash \/ PowerLoss
  BY <1>2, StopTypes
<1>3. CASE Restart
  BY <1>3, RestartTypes
<1>4. CASE UNCHANGED vars
  BY <1>4 DEF vars, TypeOK
<1> QED BY <1>1, <1>2, <1>3, <1>4 DEF Next

(* Every variable keeps its type, for every set of threads and rows and every fault: the store
   stays a map from ids to rows through every order of writes, checkpoint and recovery.       *)
THEOREM TypesHold == Spec => []TypeOK
<1>1. ASSUME Init PROVE TypeOK
  <2>1. hist \in Seq(WalRecord \cup {NoCall})
    BY <1>1 DEF Init
  <2>2. IsSnapshot(snap) /\ IsSnapshot(snapStable) /\ IsDb(db)
    BY <1>1, RecordTypesKnown DEF Init, NoSnapshot, IsSnapshot
  <2>3. op \in [Threads -> Call]
    BY <1>1, RecordTypesKnown DEF Init
  <2>4. /\ pc \in [Threads -> Pcs] /\ lsn \in [Threads -> Nat] /\ via \in [Threads -> Callers]
        /\ target \in [Threads -> Nat] /\ doCkpt \in [Threads -> BOOLEAN]
    BY <1>1 DEF Init
  <2>5. /\ mode \in {"up", "down", "failed"} /\ nextExt \in Nat /\ nextLsn \in Nat
        /\ opsSinceCheckpoint \in Nat /\ highestLsn \in Nat /\ durableLsn \in Nat
        /\ inFlight \in Int /\ ckptLsn \in Int /\ stable \in Nat /\ crashes \in Nat
    BY <1>1 DEF Init
  <2>6. /\ writeMutex \in BOOLEAN /\ syncing \in BOOLEAN /\ wal \subseteq Nat
        /\ applied \subseteq Nat /\ promised \subseteq Nat
    BY <1>1 DEF Init
  <2> QED BY <2>1, <2>2, <2>3, <2>4, <2>5, <2>6 DEF TypeOK
<1>2. SafetyInv /\ TypeOK /\ [Next]_vars => TypeOK'
  BY NextTypes
<1> QED BY <1>1, <1>2, Safety, PTL DEF Spec

-----------------------------------------------------------------------------
(* Logs. *)

(* What the records of a log are after one more is appended. *)
LEMMA AppendedLog ==
    ASSUME NEW l, IsLog(l), NEW x, NEW a, a = Append(l, x)
    PROVE  /\ DOMAIN l = 1..Len(l) /\ DOMAIN a = 1..(Len(l) + 1) /\ Len(l) \in Nat
           /\ \A n \in 1..Len(l) : a[n] = l[n]
           /\ a[Len(l) + 1] = x
           /\ \A n \in DOMAIN a : (n \in DOMAIN l /\ a[n] = l[n]) \/ (n = Len(l) + 1 /\ a[n] = x)
<1> DEFINE T == {l[n] : n \in DOMAIN l} \cup {x}
<1>1. l \in Seq({l[n] : n \in DOMAIN l})
  BY DEF IsLog
<1>2. l \in Seq(T) /\ x \in T
  BY <1>1, SeqMonotonic
<1> HIDE DEF T
<1>3. /\ a \in Seq(T) /\ Len(a) = Len(l) + 1 /\ a[Len(l) + 1] = x
      /\ \A n \in 1..Len(l) : a[n] = l[n]
  BY <1>2, AppendProperties
<1>4. DOMAIN l = 1..Len(l) /\ DOMAIN a = 1..Len(a) /\ Len(l) \in Nat
  BY <1>2, <1>3, LenProperties
<1>5. DOMAIN a = 1..(Len(l) + 1)
  BY <1>3, <1>4
<1>6. \A n \in 1..(Len(l) + 1) : n \in 1..Len(l) \/ n = Len(l) + 1
  BY <1>4
<1> QED BY <1>3, <1>4, <1>5, <1>6

-----------------------------------------------------------------------------
(* Leaders of group commits and flushes. *)

(* What a thread does to syncing_, and to its own claim on it. *)
LEMMA ThreadLeads ==
    ASSUME SafetyInv, LeaderInv, NEW t \in Threads, Begin(t) \/ Work(t)
    PROVE  LeaderInv'
<1> USE DEF SafetyInv, LsnTypes, LeaderInv
<1>1. CASE BeginInsert(t)
  BY <1>1 DEF BeginInsert
<1>2. CASE BeginOnLiveId(t)
  BY <1>2 DEF BeginOnLiveId
<1>3. CASE BeginCheckpoint(t)
  BY <1>3 DEF BeginCheckpoint
<1>4. CASE BeginSync(t)
  BY <1>4 DEF BeginSync
<1>5. CASE PrefixInsert(t)
  BY <1>5 DEF PrefixInsert, LogRecord
<1>6. CASE PrefixGiven(t)
  BY <1>6 DEF PrefixGiven, LogRecord
<1>7. CASE PrefixUpdateVec(t)
  BY <1>7 DEF PrefixUpdateVec, LogRecord
<1>8. CASE PrefixRowGone(t)
  BY <1>8 DEF PrefixRowGone
<1>9. CASE PrefixThrows(t)
  BY <1>9 DEF PrefixThrows, SkipLsn
<1>10. CASE CommitDone(t)
  BY <1>10 DEF CommitDone
<1>11. CASE CommitWait(t)
  BY <1>11 DEF CommitWait
<1>12. CASE CommitLead(t)
  BY <1>12 DEF CommitLead
<1>13. CASE FlushSkip(t)
  BY <1>13 DEF FlushSkip
<1>14. CASE FlushLead(t)
  BY <1>14 DEF FlushLead
<1>15. CASE SyncCapture(t)
  BY <1>15 DEF SyncCapture
<1>16. CASE SyncFsync(t)
  BY <1>16 DEF SyncFsync
<1>17. CASE SyncThrows(t)
  BY <1>17 DEF SyncThrows
<1>18. CASE LeaderPublish(t)
  BY <1>18 DEF LeaderPublish
<1>19. CASE SyncReturn(t)
  BY <1>19 DEF SyncReturn
<1>20. CASE Apply(t)
  BY <1>20 DEF Apply
<1>21. CASE ApplyThrows(t)
  BY <1>21 DEF ApplyThrows
<1>22. CASE Finish(t)
  <2>1. pc' = [u \in Threads |-> IF u = t THEN IF doCkpt[t] THEN "ckpt" ELSE "idle"
                                 ELSE IF pc[u] = "wait" THEN "commit"
                                 ELSE IF pc[u] = "quiesceWait" THEN "quiesce" ELSE pc[u]]
    BY <1>22 DEF Finish
  <2>2. \A u \in Threads \ {t} : via'[u] = via[u]
    BY <1>22 DEF Finish, Forget
  <2>3. syncing' = syncing /\ pc[t] = "finish"
    BY <1>22 DEF Finish
  <2>4. \A u \in Threads : (Leads(u)' <=> Leads(u)) /\ pc'[u] # "wait"
    BY <2>1, <2>2, <2>3
  <2> QED
    BY <2>3, <2>4 DEF Leads
<1>23. CASE CkptLock(t)
  BY <1>23 DEF CkptLock
<1>24. CASE CkptQuiet(t)
  BY <1>24 DEF CkptQuiet
<1>25. CASE CkptWait(t)
  BY <1>25 DEF CkptWait
<1>26. CASE CkptSave(t)
  BY <1>26 DEF CkptSave
<1>27. CASE CkptSaveThrows(t)
  BY <1>27 DEF CkptSaveThrows
<1>28. CASE CkptDirSync(t)
  BY <1>28 DEF CkptDirSync
<1>29. CASE CkptMark(t)
  BY <1>29 DEF CkptMark
<1>30. CASE CkptMarkThrows(t)
  BY <1>30 DEF CkptMarkThrows, SkipLsn
<1>31. CASE CkptTruncate(t)
  BY <1>31 DEF CkptTruncate
<1>32. CASE CkptRelease(t)
  BY <1>32 DEF CkptRelease
<1> QED
  BY <1>1, <1>2, <1>3, <1>4, <1>5, <1>6, <1>7, <1>8, <1>9, <1>10, <1>11, <1>12, <1>13, <1>14, <1>15, <1>16, <1>17, <1>18, <1>19, <1>20, <1>21, <1>22, <1>23, <1>24, <1>25, <1>26, <1>27, <1>28, <1>29, <1>30, <1>31, <1>32
     DEF Begin, Work, Prefix, GroupCommit, MaybeFlush, WalSync, ApplyOp, Checkpoint

(* Every step keeps the invariant. *)
LEMMA NextLeads == SafetyInv /\ LeaderInv /\ [Next]_vars => LeaderInv'
<1> SUFFICES ASSUME SafetyInv, LeaderInv, [Next]_vars PROVE LeaderInv'
  OBVIOUS
<1>1. ASSUME NEW t \in Threads, Begin(t) \/ Work(t) PROVE LeaderInv'
  BY <1>1, ThreadLeads
<1>2. CASE Close \/ ProcessCrash \/ PowerLoss
  BY <1>2 DEF Close, ProcessCrash, PowerLoss, LoseMemory, LeaderInv
<1>3. CASE Restart \/ UNCHANGED vars
  BY <1>3 DEF Restart, Recover, RecoverThrows, Reopen, vars, LeaderInv
<1> QED BY <1>1, <1>2, <1>3 DEF Next

(* One thread at a time runs the fsync of a group commit or a lazy flush, in every policy and
   whatever fails; who waits for it waits while syncing_ is set.                             *)
THEOREM OneLeader == Spec => []LeaderInv
<1>1. Init => LeaderInv
  BY DEF Init, LeaderInv
<1>2. SafetyInv /\ LeaderInv /\ [Next]_vars => LeaderInv'
  BY NextLeads
<1> QED BY <1>1, <1>2, Safety, PTL DEF Spec

(* As long as no fsync throws, syncing_ is set exactly while a leader is at work
   (durable_vdb.h:131).                                                          *)
THEOREM LeaderIsReal ==
    ASSUME "ioError" \notin Faults
    PROVE  Spec => []SyncingMeansALeader
<1>1. LeaderInv => SyncingMeansALeader
  BY DEF LeaderInv, SyncingMeansALeader
<1> QED BY <1>1, OneLeader, PTL

-----------------------------------------------------------------------------
(* Operations in flight, and what a checkpoint waits for. *)

(* CountInv outlives a step that changes no operation in flight and hides no applied record. *)
LEMMA CountKept ==
    ASSUME CountInv, inFlight' = inFlight, UNCHANGED <<hist, mode>>, applied \subseteq applied',
           \A t \in Threads : InFlight(t)' <=> InFlight(t),
           \A t \in Threads : Pending(t) => Pending(t)' /\ lsn'[t] = lsn[t],
           \A t \in Threads : pc'[t] = "quiesceWait" => pc[t] = "quiesceWait" \/ inFlight # 0
    PROVE  CountInv'
<1>1. OpsInFlight' = OpsInFlight
  BY DEF OpsInFlight
<1> QED BY <1>1 DEF CountInv, Passed

(* ... or adds a record that apply_ passes over. *)
LEMMA CountKeptPast ==
    ASSUME SafetyInv, CountInv, mode = "up", UNCHANGED <<mode, inFlight, applied>>,
           NEW r, hist' = Append(hist, r), Passed(r),
           \A t \in Threads : InFlight(t)' <=> InFlight(t),
           \A t \in Threads : Pending(t) => Pending(t)' /\ lsn'[t] = lsn[t],
           \A t \in Threads : pc'[t] = "quiesceWait" => pc[t] = "quiesceWait"
    PROVE  CountInv'
<1>1. OpsInFlight' = OpsInFlight
  BY DEF OpsInFlight
<1>2. \A n \in DOMAIN hist' : (n \in DOMAIN hist /\ hist'[n] = hist[n]) \/ hist'[n] = r
  BY AppendedLog DEF SafetyInv, LsnTypes
<1> QED BY <1>1, <1>2 DEF CountInv, Passed

(* Most steps of a thread leave the operations in flight as they were. *)
LEMMA ThreadCountKept ==
    ASSUME SafetyInv, CountInv, NEW t \in Threads,
           \/ Begin(t) \/ PrefixRowGone(t) \/ GroupCommit(t) \/ MaybeFlush(t) \/ SyncCapture(t)
           \/ SyncFsync(t) \/ LeaderPublish(t) \/ SyncReturn(t)
           \/ CkptLock(t) \/ CkptQuiet(t) \/ CkptWait(t) \/ CkptSave(t) \/ CkptSaveThrows(t)
           \/ CkptDirSync(t) \/ CkptTruncate(t) \/ CkptRelease(t)
    PROVE  CountInv'
<1> USE DEF SafetyInv, LsnTypes, Pending
<1>1. CASE BeginInsert(t)
  BY <1>1, CountKept DEF BeginInsert
<1>2. CASE BeginOnLiveId(t)
  BY <1>2, CountKept DEF BeginOnLiveId
<1>3. CASE BeginCheckpoint(t)
  BY <1>3, CountKept DEF BeginCheckpoint
<1>4. CASE BeginSync(t)
  BY <1>4, CountKept DEF BeginSync
<1>5. CASE PrefixRowGone(t)
  BY <1>5, CountKept DEF PrefixRowGone
<1>6. CASE CommitDone(t)
  BY <1>6, CountKept DEF CommitDone
<1>7. CASE CommitWait(t)
  BY <1>7, CountKept DEF CommitWait
<1>8. CASE CommitLead(t)
  BY <1>8, CountKept DEF CommitLead
<1>9. CASE FlushSkip(t)
  BY <1>9, CountKept DEF FlushSkip
<1>10. CASE FlushLead(t)
  BY <1>10, CountKept DEF FlushLead
<1>11. CASE SyncCapture(t)
  BY <1>11, CountKept DEF SyncCapture
<1>12. CASE SyncFsync(t)
  BY <1>12, CountKept DEF SyncFsync
<1>13. CASE LeaderPublish(t)
  BY <1>13, CountKept DEF LeaderPublish
<1>14. CASE SyncReturn(t)
  BY <1>14, CountKept DEF SyncReturn
<1>15. CASE CkptLock(t)
  BY <1>15, CountKept DEF CkptLock
<1>16. CASE CkptQuiet(t)
  BY <1>16, CountKept DEF CkptQuiet
<1>17. CASE CkptWait(t)
  BY <1>17, CountKept DEF CkptWait
<1>18. CASE CkptSave(t)
  BY <1>18, CountKept DEF CkptSave
<1>19. CASE CkptSaveThrows(t)
  BY <1>19, CountKept DEF CkptSaveThrows
<1>20. CASE CkptDirSync(t)
  BY <1>20, CountKept DEF CkptDirSync
<1>21. CASE CkptTruncate(t)
  BY <1>21, CountKept DEF CkptTruncate
<1>22. CASE CkptRelease(t)
  BY <1>22, CountKept DEF CkptRelease
<1> QED
  BY <1>1, <1>2, <1>3, <1>4, <1>5, <1>6, <1>7, <1>8, <1>9, <1>10, <1>11, <1>12, <1>13, <1>14, <1>15, <1>16, <1>17, <1>18, <1>19, <1>20, <1>21, <1>22 DEF Begin, GroupCommit, MaybeFlush

(* An append that throws leaves an unused lsn, and a checkpoint a Checkpoint record: recovery
   passes over both.                                                                        *)
LEMMA PassedRecordCounts ==
    ASSUME SafetyInv, CountInv, NEW t \in Threads,
           PrefixThrows(t) \/ CkptMark(t) \/ CkptMarkThrows(t)
    PROVE  CountInv'
<1> USE DEF SafetyInv, LsnTypes, Pending
<1>0. mode = "up"
  BY DEF PrefixThrows, CkptMark, CkptMarkThrows, Exclusion
<1>1. CASE PrefixThrows(t)
  <2>1. Passed(NoCall)
    BY DEF Passed, NoCall, Record
  <2> QED BY <1>0, <1>1, <2>1, CountKeptPast DEF PrefixThrows, SkipLsn
<1>2. CASE CkptMark(t)
  <2>1. Passed(Record("Checkpoint", 0, NoRow))
    BY DEF Passed, Record
  <2> QED BY <1>0, <1>2, <2>1, CountKeptPast DEF CkptMark
<1>3. CASE CkptMarkThrows(t)
  <2>1. Passed(NoCall)
    BY DEF Passed, NoCall, Record
  <2> QED BY <1>0, <1>3, <2>1, CountKeptPast DEF CkptMarkThrows, SkipLsn
<1> QED BY <1>1, <1>2, <1>3

(* ++in_flight_: the record is in the hands of the thread that logged it. *)
LEMMA LogRecordCounts ==
    ASSUME SafetyInv, CountInv, NEW t \in Threads, NEW r, pc[t] = "prefix", LogRecord(t, r)
    PROVE  CountInv'
<1> USE DEF SafetyInv, LsnTypes
<1>1. mode = "up" /\ nextLsn = Len(hist) + 1 /\ hist' = Append(hist, r) /\ inFlight' = inFlight + 1
  BY DEF LogRecord, Exclusion, HistoryEnds
<1>2. /\ pc' = [pc EXCEPT ![t] = IF Policy = "PerOpSync" THEN "commit" ELSE "apply"]
      /\ lsn' = [lsn EXCEPT ![t] = nextLsn] /\ UNCHANGED <<via, mode, applied>>
  BY DEF LogRecord
<1>3. t \notin OpsInFlight /\ OpsInFlight' = OpsInFlight \cup {t}
  BY <1>2 DEF OpsInFlight
<1>4. IsFiniteSet(OpsInFlight') /\ Cardinality(OpsInFlight') = Cardinality(OpsInFlight) + 1
  BY <1>3, FS_AddElement DEF CountInv
<1>5. Cardinality(OpsInFlight) \in Nat
  BY FS_CardinalityType DEF CountInv
<1>6. Pending(t)' /\ lsn'[t] = Len(hist) + 1
  BY <1>1, <1>2 DEF Pending
<1>7. \A u \in Threads \ {t} : Pending(u)' = Pending(u) /\ lsn'[u] = lsn[u]
  BY <1>2 DEF Pending
<1>8. ~Pending(t)
  BY DEF Pending
<1>9. \A n \in DOMAIN hist' : (n \in DOMAIN hist /\ hist'[n] = hist[n]) \/ n = Len(hist) + 1
  BY <1>1, AppendedLog
<1>10. \A u \in Threads : pc'[u] = "quiesceWait" => pc[u] = "quiesceWait"
  BY <1>2
<1>11. ASSUME inFlight = Cardinality(OpsInFlight)
       PROVE  \A n \in DOMAIN hist' : n \in applied \/ Passed(hist'[n])
                                      \/ \E u \in Threads : Pending(u)' /\ lsn'[u] = n
  <2> SUFFICES ASSUME NEW n \in DOMAIN hist'
      PROVE n \in applied \/ Passed(hist'[n]) \/ \E u \in Threads : Pending(u)' /\ lsn'[u] = n
    OBVIOUS
  <2>1. CASE n = Len(hist) + 1
    BY <2>1, <1>6
  <2>2. CASE n \in DOMAIN hist /\ hist'[n] = hist[n]
    <3>1. n \in applied \/ Passed(hist[n]) \/ \E u \in Threads : Pending(u) /\ lsn[u] = n
      BY <1>1, <1>11, <2>2 DEF CountInv
    <3>2. CASE n \in applied \/ Passed(hist[n])
      BY <2>2, <3>2 DEF Passed
    <3>3. ASSUME NEW u \in Threads, Pending(u), lsn[u] = n PROVE Pending(u)' /\ lsn'[u] = n
      BY <1>7, <1>8, <3>3
    <3> QED BY <3>1, <3>2, <3>3
  <2> QED BY <1>9, <2>1, <2>2
<1> QED
  BY <1>1, <1>2, <1>4, <1>5, <1>10, <1>11 DEF CountInv, Passed

(* The effect of a record becomes visible before its thread lets go of it. *)
LEMMA ApplyCounts ==
    ASSUME SafetyInv, CountInv, NEW t \in Threads, Apply(t)
    PROVE  CountInv'
<1> USE DEF SafetyInv, LsnTypes
<1>1. /\ pc[t] = "apply" /\ pc' = [pc EXCEPT ![t] = IF Policy = "Periodic" THEN "flush" ELSE "finish"]
      /\ applied' = applied \cup {lsn[t]} /\ UNCHANGED <<hist, mode, inFlight, lsn, via>>
  BY DEF Apply
<1>2. OpsInFlight' = OpsInFlight
  BY <1>1 DEF OpsInFlight
<1>3. \A u \in Threads \ {t} : Pending(u)' = Pending(u)
  BY <1>1 DEF Pending
<1> QED BY <1>1, <1>2, <1>3 DEF CountInv, Passed

(* --in_flight_, after the effect of the operation is visible. *)
LEMMA FinishCounts ==
    ASSUME SafetyInv, CountInv, NEW t \in Threads, Finish(t)
    PROVE  CountInv'
<1> USE DEF SafetyInv, LsnTypes
<1>1. /\ pc' = [u \in Threads |-> IF u = t THEN IF doCkpt[t] THEN "ckpt" ELSE "idle"
                                  ELSE IF pc[u] = "wait" THEN "commit"
                                  ELSE IF pc[u] = "quiesceWait" THEN "quiesce" ELSE pc[u]]
      /\ pc[t] = "finish"
  BY DEF Finish
<1>2. /\ inFlight' = inFlight - 1 /\ UNCHANGED <<hist, mode, applied>>
      /\ \A u \in Threads \ {t} : via'[u] = via[u] /\ lsn'[u] = lsn[u]
  BY DEF Finish
<1>3. OpsInFlight' = OpsInFlight \ {t} /\ t \in OpsInFlight
  BY <1>1, <1>2 DEF OpsInFlight
<1>4. IsFiniteSet(OpsInFlight') /\ Cardinality(OpsInFlight') = Cardinality(OpsInFlight) - 1
  BY <1>3, FS_RemoveElement DEF CountInv
<1>5. Cardinality(OpsInFlight) \in Nat /\ Cardinality(OpsInFlight') \in Nat
  BY <1>4, FS_CardinalityType DEF CountInv
<1>6. ~Pending(t) /\ \A u \in Threads \ {t} : Pending(u)' = Pending(u)
  BY <1>1, <1>2 DEF Pending
<1>7. \A u \in Threads : pc'[u] # "quiesceWait"
  BY <1>1
<1>8. inFlight' \in Nat /\ Cardinality(OpsInFlight') <= inFlight'
  BY <1>2, <1>4, <1>5 DEF CountInv
<1>9. inFlight' = Cardinality(OpsInFlight') <=> inFlight = Cardinality(OpsInFlight)
  BY <1>2, <1>4, <1>5 DEF CountInv
<1>10. \A n : (\E u \in Threads : Pending(u) /\ lsn[u] = n)
                 => (\E u \in Threads : Pending(u)' /\ lsn'[u] = n)
  BY <1>2, <1>6
<1>11. Faults \cap {"ioError", "badRecord"} = {} => inFlight' = Cardinality(OpsInFlight')
  BY <1>9 DEF CountInv
<1>12. mode = "up" /\ inFlight = Cardinality(OpsInFlight) =>
          \A n \in DOMAIN hist : n \in applied \/ Passed(hist[n])
                                 \/ \E u \in Threads : Pending(u)' /\ lsn'[u] = n
  BY <1>10 DEF CountInv
<1> QED BY <1>2, <1>4, <1>7, <1>8, <1>9, <1>11, <1>12 DEF CountInv, Passed

(* An exception takes a thread out of flight without --in_flight_, which never reaches 0 again. *)
LEMMA ThrowsCounts ==
    ASSUME SafetyInv, CountInv, NEW t \in Threads, SyncThrows(t) \/ ApplyThrows(t),
           Refused(op[t]) => "badRecord" \in Faults
    PROVE  CountInv'
<1> USE DEF SafetyInv, LsnTypes
<1>1. /\ pc' = [pc EXCEPT ![t] = "idle"] /\ UNCHANGED <<hist, mode, applied, inFlight>>
      /\ \A u \in Threads \ {t} : via'[u] = via[u] /\ lsn'[u] = lsn[u]
  BY DEF SyncThrows, ApplyThrows
<1>2. Faults \cap {"ioError", "badRecord"} # {}
  BY DEF SyncThrows, ApplyThrows
<1>3. CASE InFlight(t)
  <2>1. OpsInFlight' = OpsInFlight \ {t} /\ t \in OpsInFlight
    BY <1>1, <1>3 DEF OpsInFlight
  <2>2. IsFiniteSet(OpsInFlight') /\ Cardinality(OpsInFlight') = Cardinality(OpsInFlight) - 1
    BY <2>1, FS_RemoveElement DEF CountInv
  <2>3. Cardinality(OpsInFlight) \in Nat
    BY FS_CardinalityType DEF CountInv
  <2>4. inFlight' # Cardinality(OpsInFlight') /\ Cardinality(OpsInFlight') <= inFlight'
    BY <1>1, <2>2, <2>3 DEF CountInv
  <2> QED BY <1>1, <1>2, <2>2, <2>4 DEF CountInv
<1>4. CASE ~InFlight(t)
  <2>1. ~Pending(t) /\ \A u \in Threads \ {t} : Pending(u)' = Pending(u)
    BY <1>1, <1>4 DEF Pending
  <2>2. OpsInFlight' = OpsInFlight
    BY <1>1, <1>4 DEF OpsInFlight
  <2> QED BY <1>1, <1>2, <2>1, <2>2 DEF CountInv, Passed
<1> QED BY <1>3, <1>4

-----------------------------------------------------------------------------
(* Refused rows: none where none was passed. *)

(* The calls, the log and the stores hold no refused row when callers pass none. *)
LEMMA ThreadAccepts ==
    ASSUME TypeOK, SafetyInv, RowsAccepted, "badRecord" \notin Faults, NEW t \in Threads, Begin(t) \/ Work(t)
    PROVE  RowsAccepted'
<1> DEFINE Accepted(d) == \A e \in DOMAIN d : d[e].meta # BadMeta
<1>1. ~Refused(NoCall)
  BY RecordsAssumption DEF Refused, NoCall, Record, NoRow
<1>2. /\ \A u \in Threads : ~Refused(op[u])
      /\ \A n \in DOMAIN hist : ~Refused(hist[n])
      /\ Accepted(db) /\ Accepted(snap.db) /\ Accepted(snapStable.db)
  BY DEF RowsAccepted
<1>3. \A e : \A call \in InsertCalls \cup CallsOn(e) : ~Refused(call)
  BY RecordsAssumption DEF InsertCalls, CallsOn, Rows, Refused, Record, NoRow
<1>4. op \in [Threads -> Call] /\ IsLog(hist)
  BY DEF TypeOK, SafetyInv, LsnTypes
<1> SUFFICES /\ \A u \in Threads : ~Refused(op'[u])
             /\ \A n \in DOMAIN hist' : ~Refused(hist'[n])
             /\ Accepted(db') /\ Accepted(snap'.db) /\ Accepted(snapStable'.db)
  BY DEF RowsAccepted, Refused
<1> HIDE DEF Accepted
<1>5. CASE Begin(t)
  <2>1. /\ UNCHANGED <<hist, db, snap, snapStable>>
        /\ op' = op \/ \E e : \E call \in InsertCalls \cup CallsOn(e) : op' = [op EXCEPT ![t] = call]
    BY <1>5 DEF Begin, BeginInsert, BeginOnLiveId, BeginCheckpoint, BeginSync
  <2> QED BY <1>2, <1>3, <1>4, <2>1
<1>6. ASSUME NEW r, ~Refused(r), hist' = Append(hist, r), op' \in {op, [op EXCEPT ![t] = r], [op EXCEPT ![t] = NoCall]},
             UNCHANGED <<db, snap, snapStable>>
      PROVE  /\ \A u \in Threads : ~Refused(op'[u])
             /\ \A n \in DOMAIN hist' : ~Refused(hist'[n])
             /\ Accepted(db') /\ Accepted(snap'.db) /\ Accepted(snapStable'.db)
  BY <1>1, <1>2, <1>4, <1>6, AppendedLog
<1>7. CASE PrefixInsert(t) \/ PrefixGiven(t)
  <2>1. ~Refused(Record("Insert", nextExt, op[t].row))
    BY <1>2 DEF Refused, Record
  <2> QED BY <1>2, <1>6, <1>7, <2>1 DEF PrefixInsert, PrefixGiven, LogRecord
<1>8. CASE PrefixUpdateVec(t)
  <2> DEFINE r == Record("Update", op[t].ext, [op[t].row EXCEPT !.meta = db[op[t].ext].meta])
  <2>1. ~Refused(r)
    BY <1>2, <1>4, <1>8 DEF PrefixUpdateVec, Refused, Record, Accepted, Call, Row
  <2> QED BY <1>6, <1>8, <2>1 DEF PrefixUpdateVec, LogRecord
<1>9. CASE PrefixThrows(t) \/ CkptMarkThrows(t)
  BY <1>1, <1>6, <1>9 DEF PrefixThrows, CkptMarkThrows, SkipLsn
<1>10. CASE CkptMark(t)
  <2>1. ~Refused(Record("Checkpoint", 0, NoRow))
    BY <1>1 DEF Refused, NoCall, Record
  <2> QED BY <1>6, <1>10, <2>1 DEF CkptMark
<1>11. CASE Apply(t)
  <2>1. Accepted(db')
    BY <1>2, <1>11, ApplyAccepts DEF Apply, Accepted
  <2> QED BY <1>2, <1>11, <2>1 DEF Apply
<1>12. CASE CkptSave(t)
  BY <1>2, <1>12 DEF CkptSave
<1>13. CASE CkptDirSync(t)
  BY <1>2, <1>13 DEF CkptDirSync
<1>14. ASSUME UNCHANGED <<hist, db, snap, snapStable>>, op' \in {op, [op EXCEPT ![t] = NoCall]}
       PROVE  /\ \A u \in Threads : ~Refused(op'[u])
              /\ \A n \in DOMAIN hist' : ~Refused(hist'[n])
              /\ Accepted(db') /\ Accepted(snap'.db) /\ Accepted(snapStable'.db)
  BY <1>1, <1>2, <1>4, <1>14
<1>15. CASE PrefixRowGone(t) \/ GroupCommit(t) \/ MaybeFlush(t)
  BY <1>14, <1>15 DEF PrefixRowGone, GroupCommit, CommitDone, CommitWait, CommitLead, MaybeFlush,
     FlushSkip, FlushLead
<1>16. CASE WalSync(t) \/ ApplyThrows(t) \/ Finish(t)
  BY <1>14, <1>16 DEF WalSync, SyncCapture, SyncFsync, SyncThrows, LeaderPublish, SyncReturn,
     ApplyThrows, Finish
<1>17. CASE \/ CkptLock(t) \/ CkptQuiet(t) \/ CkptWait(t) \/ CkptSaveThrows(t)
            \/ CkptTruncate(t) \/ CkptRelease(t)
  BY <1>14, <1>17 DEF CkptLock, CkptQuiet, CkptWait, CkptSaveThrows, CkptTruncate, CkptRelease
<1> QED
  BY <1>5, <1>7, <1>8, <1>9, <1>10, <1>11, <1>12, <1>13, <1>15, <1>16, <1>17
     DEF Work, Prefix, ApplyOp, Checkpoint

(* A process that ends leaves a part of its log, and one of its snapshots. *)
LEMMA StopAccepts ==
    ASSUME TypeOK, SafetyInv, RowsAccepted, "badRecord" \notin Faults, Close \/ ProcessCrash \/ PowerLoss
    PROVE  RowsAccepted'
<1>1. ~Refused(NoCall)
  BY RecordsAssumption DEF Refused, NoCall, Record, NoRow
<1>2. db' = EmptyDb /\ op' = [t \in Threads |-> NoCall]
  BY DEF Close, ProcessCrash, PowerLoss, LoseMemory
<1>3. snap' \in {snap, snapStable} /\ snapStable' \in {snap, snapStable}
  BY DEF Close, ProcessCrash, PowerLoss
<1>4. \A n \in DOMAIN hist' : n \in DOMAIN hist /\ hist'[n] = hist[n]
  <2>1. \E log, s : log \subseteq wal /\ s \in {snap, snapStable} /\ CutHistory(log, s)
    BY DEF Close, ProcessCrash, PowerLoss
  <2>2. /\ hist' \in Seq(WalRecord \cup {NoCall}) /\ Len(hist') \in 0..Len(hist)
        /\ \A n \in 1..Len(hist') : hist'[n] = hist[n]
    BY <2>1, CutTypes
  <2>3. DOMAIN hist' = 1..Len(hist') /\ DOMAIN hist = 1..Len(hist) /\ Len(hist) \in Nat
    BY <2>2, LenProperties DEF TypeOK
  <2> QED BY <2>2, <2>3
<1>5. \A e \in DOMAIN EmptyDb : EmptyDb[e].meta # BadMeta
  BY DEF EmptyDb
<1> QED BY <1>1, <1>2, <1>3, <1>4, <1>5 DEF RowsAccepted, Refused

(* Every step keeps the invariant. *)
LEMMA NextAccepts == TypeOK /\ SafetyInv /\ RowsAccepted /\ [Next]_vars => RowsAccepted'
<1> SUFFICES ASSUME TypeOK, SafetyInv, RowsAccepted, [Next]_vars, "badRecord" \notin Faults
    PROVE RowsAccepted'
  BY DEF RowsAccepted
<1>1. ASSUME NEW t \in Threads, Begin(t) \/ Work(t) PROVE RowsAccepted'
  BY <1>1, ThreadAccepts
<1>2. CASE Close \/ ProcessCrash \/ PowerLoss
  BY <1>2, StopAccepts
<1>3. CASE Recover
  <2> DEFINE pending == {n \in wal : n > snap.lsn}
  <2>1. db' = Replay(hist, snap.db, pending) /\ UNCHANGED <<hist, snap, snapStable, op>>
    BY <1>3 DEF Recover
  <2>2. Len(hist) \in Nat /\ DOMAIN hist = 1..Len(hist)
    BY LenProperties DEF TypeOK
  <2>3. \A e \in DOMAIN db' : db'[e].meta # BadMeta
    BY <2>1, <2>2, ReplayAccepts DEF RowsAccepted
  <2> QED BY <2>1, <2>3 DEF RowsAccepted, Refused
<1>4. CASE RecoverThrows \/ Reopen \/ UNCHANGED vars
  BY <1>4 DEF RecoverThrows, Reopen, vars, RowsAccepted, Refused
<1> QED BY <1>1, <1>2, <1>3, <1>4 DEF Next, Restart

-----------------------------------------------------------------------------
(* What a checkpoint waits for, and finds. *)

(* Every step keeps the count. *)
LEMMA NextCounts == SafetyInv /\ RowsAccepted /\ CountInv /\ [Next]_vars => CountInv'
<1> SUFFICES ASSUME SafetyInv, RowsAccepted, CountInv, [Next]_vars PROVE CountInv'
  OBVIOUS
<1>1. ASSUME NEW t \in Threads, Begin(t) \/ Work(t) PROVE CountInv'
  <2>1. CASE Prefix(t)
    BY <2>1, LogRecordCounts, PassedRecordCounts, ThreadCountKept
       DEF Prefix, PrefixInsert, PrefixGiven, PrefixUpdateVec
  <2>2. CASE Begin(t) \/ GroupCommit(t) \/ MaybeFlush(t)
    BY <2>2, ThreadCountKept
  <2>3. CASE WalSync(t) \/ ApplyOp(t)
    <3>1. Refused(op[t]) => "badRecord" \in Faults
      BY DEF RowsAccepted
    <3> QED BY <2>3, <3>1, ThreadCountKept, ThrowsCounts, ApplyCounts DEF WalSync, ApplyOp
  <2>4. CASE Finish(t)
    BY <2>4, FinishCounts
  <2>5. CASE Checkpoint(t)
    BY <2>5, ThreadCountKept, PassedRecordCounts DEF Checkpoint
  <2> QED BY <1>1, <2>1, <2>2, <2>3, <2>4, <2>5 DEF Work
<1>2. CASE Close \/ ProcessCrash \/ PowerLoss
  <2>1. pc' = [t \in Threads |-> "idle"] /\ mode' = "down" /\ inFlight' = 0
    BY <1>2 DEF Close, ProcessCrash, PowerLoss, LoseMemory
  <2>2. OpsInFlight' = {}
    BY <2>1 DEF OpsInFlight
  <2>3. IsFiniteSet(OpsInFlight') /\ Cardinality(OpsInFlight') = 0
    BY <2>2, FS_EmptySet
  <2> QED BY <2>1, <2>3 DEF CountInv
<1>3. CASE Restart
  <2>1. /\ \A t \in Threads : pc[t] = "idle" /\ pc'[t] = "idle"
        /\ inFlight' = inFlight /\ hist' = hist
    BY <1>3 DEF Restart, Recover, RecoverThrows, Reopen, SafetyInv, Exclusion
  <2>2. OpsInFlight' = OpsInFlight
    BY <2>1 DEF OpsInFlight
  <2>3. mode' = "up" => \A n \in DOMAIN hist' : n \in applied'
    <3>1. CASE Recover
      <4>1. nextLsn' = Len(hist) + 1 /\ DOMAIN hist = 1..Len(hist) /\ Len(hist) \in Nat
        BY <3>1, RecoverStep, <2>1, AppendedLog DEF Recover, SafetyInv, HistoryEnds, LsnTypes
      <4> QED BY <2>1, <3>1, <4>1 DEF Recover
    <3>2. CASE RecoverThrows \/ Reopen
      BY <3>2 DEF RecoverThrows, Reopen
    <3> QED BY <1>3, <3>1, <3>2 DEF Restart
  <2> QED BY <2>1, <2>2, <2>3 DEF CountInv
<1>4. CASE UNCHANGED vars
  <2>1. OpsInFlight' = OpsInFlight
    BY <1>4 DEF vars, OpsInFlight
  <2> QED BY <1>4, <2>1 DEF vars, CountInv, Passed, Pending
<1> QED BY <1>1, <1>2, <1>3, <1>4 DEF Next

\* checkpoint() is between the end of the quiesce and its Checkpoint record.
Saving(t) == pc[t] \in {"save", "dirsync", "mark"}

(* Every step keeps what a checkpoint found when the store was quiet. *)
LEMMA NextSaves ==
    ASSUME SafetyInv, CountInv, SnapshotSeesEveryLoggedOp, [Next]_vars, SafetyInv'
    PROVE  SnapshotSeesEveryLoggedOp'
<1> USE DEF Saving
<1>0. DOMAIN hist = 1..Len(hist)
  BY AppendedLog DEF SafetyInv, LsnTypes
<1>1. (\A t \in Threads : Saving(t)' => \A n \in 1..Len(hist') : n \in applied' \/ Passed(hist'[n]))
         => SnapshotSeesEveryLoggedOp'
  BY DEF SafetyInv, CheckpointKnows, SnapshotSeesEveryLoggedOp, Passed
<1>2. \A t \in Threads : Saving(t) => \A n \in 1..Len(hist) : n \in applied \/ Passed(hist[n])
  BY DEF SnapshotSeesEveryLoggedOp, Passed
<1>3. ASSUME UNCHANGED hist, applied \subseteq applied', \A t \in Threads : Saving(t)' => Saving(t)
      PROVE  SnapshotSeesEveryLoggedOp'
  BY <1>1, <1>2, <1>3 DEF Passed
<1>4. ASSUME \A t \in Threads : ~Saving(t)' PROVE SnapshotSeesEveryLoggedOp'
  BY <1>4 DEF SnapshotSeesEveryLoggedOp
<1>5. ASSUME NEW t \in Threads, Begin(t) \/ Work(t) PROVE SnapshotSeesEveryLoggedOp'
  <2> USE DEF SafetyInv, LsnTypes
  <2>1. CASE Prefix(t)
    <3>1. CASE PrefixRowGone(t)
      BY <1>3, <3>1 DEF PrefixRowGone
    <3>2. ASSUME ~writeMutex, pc' = [pc EXCEPT ![t] = pc'[t]], ~Saving(t)'
          PROVE  SnapshotSeesEveryLoggedOp'
      <4>1. \A u \in Threads : ~Saving(u)
        BY <3>2 DEF Exclusion, HoldsWriteMutex
      <4> QED BY <1>4, <3>2, <4>1
    <3>3. ASSUME NEW r, LogRecord(t, r), ~writeMutex PROVE SnapshotSeesEveryLoggedOp'
      BY <3>2, <3>3 DEF LogRecord
    <3>4. CASE PrefixThrows(t)
      BY <3>2, <3>4 DEF PrefixThrows, SkipLsn
    <3> QED BY <2>1, <3>1, <3>3, <3>4 DEF Prefix, PrefixInsert, PrefixGiven, PrefixUpdateVec
  <2>2. CASE Begin(t)
    BY <1>3, <2>2 DEF Begin, BeginInsert, BeginOnLiveId, BeginCheckpoint, BeginSync
  <2>3. CASE GroupCommit(t) \/ MaybeFlush(t)
    BY <1>3, <2>3 DEF GroupCommit, CommitDone, CommitWait, CommitLead, MaybeFlush, FlushSkip, FlushLead
  <2>4. CASE SyncCapture(t) \/ SyncFsync(t) \/ SyncThrows(t)
    BY <1>3, <2>4 DEF SyncCapture, SyncFsync, SyncThrows
  <2>5. CASE LeaderPublish(t)
    BY <1>3, <2>5 DEF LeaderPublish
  <2>6. CASE SyncReturn(t)
    BY <1>3, <2>6 DEF SyncReturn
  <2>7. CASE ApplyOp(t)
    BY <1>3, <2>7 DEF ApplyOp, Apply, ApplyThrows
  <2>8. CASE Finish(t)
    BY <1>3, <2>8 DEF Finish
  <2>9. CASE CkptQuiet(t)
    <3>1. inFlight = 0 /\ UNCHANGED <<hist, applied>> /\ mode = "up"
      BY <2>9 DEF CkptQuiet, Exclusion
    <3>2. OpsInFlight = {}
      <4>1. Cardinality(OpsInFlight) = 0
        BY <3>1, FS_CardinalityType DEF CountInv
      <4> QED BY <4>1, FS_EmptySet DEF CountInv
    <3>3. \A u \in Threads : ~Pending(u)
      BY <3>2 DEF OpsInFlight, Pending
    <3>4. inFlight = Cardinality(OpsInFlight)
      BY <3>1, <3>2, FS_EmptySet
    <3>5. \A n \in 1..Len(hist) : n \in applied \/ Passed(hist[n])
      BY <1>0, <3>1, <3>3, <3>4 DEF CountInv
    <3> QED BY <1>1, <3>1, <3>5 DEF Passed
  <2>10. CASE CkptMark(t) \/ CkptMarkThrows(t)
    <3>1. \A u \in Threads : Saving(u) => u = t
      BY <2>10 DEF CkptMark, CkptMarkThrows, Exclusion, HoldsWriteMutex
    <3> QED BY <1>4, <2>10, <3>1 DEF CkptMark, CkptMarkThrows, SkipLsn
  <2>11. CASE CkptLock(t) \/ CkptWait(t) \/ CkptSave(t) \/ CkptSaveThrows(t)
    BY <1>3, <2>11 DEF CkptLock, CkptWait, CkptSave, CkptSaveThrows
  <2>12. CASE CkptDirSync(t) \/ CkptTruncate(t) \/ CkptRelease(t)
    BY <1>3, <2>12 DEF CkptDirSync, CkptTruncate, CkptRelease
  <2> QED
    BY <1>5, <2>1, <2>2, <2>3, <2>4, <2>5, <2>6, <2>7, <2>8, <2>9, <2>10, <2>11, <2>12
       DEF Work, WalSync, Checkpoint
<1>6. CASE Close \/ ProcessCrash \/ PowerLoss
  BY <1>4, <1>6 DEF Close, ProcessCrash, PowerLoss, LoseMemory
<1>7. CASE Restart
  BY <1>4, <1>7 DEF Restart, Recover, RecoverThrows, Reopen, SafetyInv, Exclusion
<1>8. CASE UNCHANGED vars
  BY <1>3, <1>8 DEF vars
<1> QED BY <1>5, <1>6, <1>7, <1>8 DEF Next

(* The row a caller passes, and every row in the store, the log and the snapshots, passes
   validate() if callers pass only such rows (metadata.h, durable_vdb.cpp:44-62).          *)
THEOREM NoRefusedRows == Spec => []RowsAccepted
<1>1. Init => RowsAccepted
  BY RecordsAssumption DEF Init, RowsAccepted, NoSnapshot, EmptyDb, Refused, NoCall, Record, NoRow
<1>2. TypeOK /\ SafetyInv /\ RowsAccepted /\ [Next]_vars => RowsAccepted'
  BY NextAccepts
<1> QED BY <1>1, <1>2, Safety, TypesHold, PTL DEF Spec

(* in_flight_ counts the operations under way, and those an exception took out of flight. *)
LEMMA QuiesceInvAlways == Spec => []QuiesceInv
<1>1. Init => QuiesceInv
  <2> SUFFICES ASSUME Init PROVE QuiesceInv
    OBVIOUS
  <2>1. OpsInFlight = {} /\ inFlight = 0 /\ hist = << >> /\ \A t \in Threads : pc[t] = "idle"
    BY DEF Init, OpsInFlight
  <2>2. IsFiniteSet(OpsInFlight) /\ Cardinality(OpsInFlight) = 0
    BY <2>1, FS_EmptySet
  <2> QED BY <2>1, <2>2 DEF QuiesceInv, CountInv, SnapshotSeesEveryLoggedOp
<1>2. SafetyInv /\ RowsAccepted /\ QuiesceInv /\ [Next]_vars => QuiesceInv'
  BY NextSafety, NextCounts, NextSaves DEF QuiesceInv
<1> QED BY <1>1, <1>2, Safety, NoRefusedRows, PTL DEF Spec

(* "so the snapshot it serialises is consistent" (durable_vdb.h:31): while a checkpoint saves,
   every operation that was logged has been applied, whatever failed before it: an operation
   that failed after its append leaves in_flight_ up, and no checkpoint saves after that.    *)
THEOREM CheckpointsAreConsistent == Spec => []SnapshotSeesEveryLoggedOp
  BY QuiesceInvAlways, PTL DEF QuiesceInv

(* As long as no fsync throws and no row is refused, a follower sleeps on commit_cv_ only while
   its leader is at work, and a checkpoint only while an operation is under way that will call
   finish_op_ (durable_vdb.cpp:100-147).                                                       *)
THEOREM SomebodyWillWakeThem ==
    ASSUME Faults \cap {"ioError", "badRecord"} = {}
    PROVE  Spec => []NobodySleepsAlone
<1>1. SafetyInv /\ LeaderInv /\ QuiesceInv => NobodySleepsAlone
  <2> SUFFICES ASSUME SafetyInv, LeaderInv, QuiesceInv PROVE NobodySleepsAlone
    OBVIOUS
  <2>1. (\E t \in Threads : pc[t] = "wait") => \E u \in Threads : Leads(u)
    BY DEF LeaderInv
  <2>2. ASSUME \E t \in Threads : pc[t] = "quiesceWait" PROVE \E u \in Threads : InFlight(u)
    <3>1. Cardinality(OpsInFlight) # 0
      BY <2>2 DEF QuiesceInv, CountInv
    <3>2. OpsInFlight # {}
      BY <3>1, FS_EmptySet
    <3> QED BY <3>2 DEF OpsInFlight
  <2> QED BY <2>1, <2>2 DEF NobodySleepsAlone
<1> QED BY <1>1, Safety, OneLeader, QuiesceInvAlways, PTL
=============================================================================
