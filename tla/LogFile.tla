------------------------------ MODULE LogFile ------------------------------
(***************************************************************************)
(* What the rest of the store may assume of the write-ahead log: a set of  *)
(* records known by their lsns, of which a part is on stable storage.      *)
(* Wal (segments, rotation, fsyncs, unlinks) is shown to implement it, and *)
(* DurableVDB to use its log in no other way.                              *)
(***************************************************************************)
EXTENDS Integers

VARIABLES open,     \* a process has the log open
          kept,     \* the lsns of the records in the log
          stable,   \* those a power failure cannot take
          synced,   \* the lsns callers were told are durable
          highest,  \* Wal::max_lsn(), 0 when closed
          covered   \* the records up to this lsn are in a durable snapshot

vars == <<open, kept, stable, synced, highest, covered>>

UpTo(n, S) == {x \in S : x <= n}

Init == /\ kept = {} /\ stable = {} /\ synced = {} /\ highest = 0 /\ covered = 0
        /\ open \in BOOLEAN

\* Records join at the end.
AppendRecord ==
    /\ open
    /\ highest' > highest
    /\ kept' = kept \cup {highest'} /\ highest' \notin kept
    /\ UNCHANGED <<open, stable, synced, covered>>

\* More of the log becomes stable, front first, and callers are told so of what is.
Sync ==
    /\ open
    /\ stable \subseteq stable' /\ stable' \subseteq kept
    /\ \A n \in stable' : UpTo(n, kept) \subseteq stable'
    /\ synced \subseteq synced'
    /\ \A n \in synced' \ synced : n \in stable' \/ n <= covered
    /\ UNCHANGED <<open, kept, highest, covered>>

\* A newer snapshot is durable.
Cover == /\ open
         /\ covered' > covered
         /\ UNCHANGED <<open, kept, stable, synced, highest>>

\* Records a snapshot covers are reclaimed, any part of them; never one it does not cover.
Reclaim ==
    /\ open
    /\ kept' \subseteq kept /\ stable' = stable \cap kept'
    /\ \A n \in kept \ kept' : n <= covered
    /\ UNCHANGED <<open, synced, highest, covered>>

\* The process ends.  The log loses an end of it at most, and nothing that was stable;
\* reclaimed records whose unlink was not durable may come back.
Stop ==
    /\ open' = FALSE /\ highest' = 0
    /\ \A n \in stable : n \in kept' \/ n <= covered
    /\ \A n \in kept' \ kept : n <= covered
    /\ \A n \in kept \cap kept', m \in kept : (m < n /\ m > covered) => m \in kept'
    /\ stable' \subseteq kept' /\ stable \cap kept' \subseteq stable'
    /\ covered' >= covered    \* a snapshot just renamed may turn out to be durable
    /\ UNCHANGED synced

\* The next process has every record that is left.
Reopen ==
    /\ ~open /\ open' = TRUE
    /\ \A n \in kept : n <= highest'
    /\ highest' \in kept \cup {0}
    /\ stable \subseteq stable' /\ stable' \subseteq kept
    /\ UNCHANGED <<kept, synced, covered>>

Next == AppendRecord \/ Sync \/ Cover \/ Reclaim \/ Stop \/ Reopen
Spec == Init /\ [][Next]_vars
=============================================================================
