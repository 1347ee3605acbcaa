------------------------ MODULE DurableVDBInductive ------------------------
(***************************************************************************)
(* The inductive invariants behind the theorems about DurableVDB, each     *)
(* inductive relative to those before it.                                  *)
(***************************************************************************)
EXTENDS DurableVDB

IsLog(l) == l \in Seq({l[n] : n \in DOMAIN l})

\* The types the argument about lsns needs.  What rows and records hold is left out.
LsnTypes ==
    /\ IsLog(hist)
    /\ wal \subseteq 1..Len(hist)
    /\ stable \in Nat /\ snap.lsn \in Nat /\ snapStable.lsn \in Nat
    /\ mode \in {"up", "down", "failed"}
    /\ nextLsn \in Nat \ {0} /\ highestLsn \in Nat /\ durableLsn \in Nat /\ ckptLsn \in Nat
    /\ writeMutex \in BOOLEAN
    /\ pc \in [Threads -> Pcs]
    /\ lsn \in [Threads -> Nat]
    /\ via \in [Threads -> Callers]
    /\ target \in [Threads -> Nat]
    /\ promised \subseteq Nat \ {0} /\ applied \subseteq Nat

\* A process that is up numbers its records on from the end of the history; at rest, that
\* end is in the log or in the snapshot, where recovery will find it.
HistoryEnds ==
    /\ snapStable.lsn <= snap.lsn /\ snap.lsn <= Len(hist)
    /\ mode # "up" => Len(hist) \in wal \cup {snap.lsn}
    /\ mode = "up" => /\ nextLsn = Len(hist) + 1
                      /\ highestLsn \in wal \cup {0}
                      /\ durableLsn < nextLsn

\* Nobody runs in a process that is not there; one thread at a time holds write_mutex_.
Exclusion ==
    /\ mode # "up" => \A t \in Threads : pc[t] = "idle"
    /\ \A t \in Threads : HoldsWriteMutex(t) => writeMutex
    /\ \A t, u \in Threads : HoldsWriteMutex(t) /\ HoldsWriteMutex(u) => t = u

\* lsn n is safe: a stable record of the log that is no older, or the stable snapshot,
\* keeps the history at least that long.
Safe(n) == (\E m \in wal : n <= m /\ m <= stable) \/ n <= snapStable.lsn

\* What a thread inside wal_.sync(), and after it, knows of its target.
TargetsKnown ==
    \A t \in Threads :
       /\ pc[t] = "fsync" => target[t] \in wal \/ Safe(target[t])
       /\ pc[t] = "publish" => Safe(target[t])
       /\ pc[t] \in {"fsync", "publish"} => target[t] <= Len(hist)

\* What the thread of a checkpoint knows of ckptLsn and of its Checkpoint record.
CheckpointKnows ==
    \A t \in Threads :
       /\ pc[t] \in {"save", "dirsync", "mark"} => ckptLsn = Len(hist)
       /\ (pc[t] \in {"capture", "fsync"} /\ via[t] = "ckpt") \/ pc[t] \in {"truncate", "release"}
             => ckptLsn + 1 = Len(hist) /\ highestLsn = Len(hist) /\ Len(hist) \in wal
       /\ pc[t] = "fsync" /\ via[t] = "ckpt" => target[t] = Len(hist)
       /\ pc[t] = "publish" => via[t] # "ckpt"
       /\ pc[t] \in {"truncate", "release"} => Len(hist) <= stable

\* An operation under way whose lsn durable_lsn_ has reached is safe; under PerOpSync
\* it is applied only then, and nobody flushes lazily.
CommitsKnown ==
    \A t \in Threads :
       /\ InFlight(t) => lsn[t] \in 1..Len(hist) /\ (lsn[t] <= durableLsn => Safe(lsn[t]))
       /\ Policy = "PerOpSync" =>
             /\ pc[t] \in {"apply", "finish"} => lsn[t] <= durableLsn
             /\ pc[t] # "flush" /\ (pc[t] \in SyncPcs => via[t] # "flush")

PromisesSafe == \A n \in promised : Safe(n)

SafetyInv == LsnTypes /\ HistoryEnds /\ Exclusion /\ TargetsKnown /\ CheckpointKnows
             /\ CommitsKnown /\ PromisesSafe

-----------------------------------------------------------------------------
(* When the directory fsync after the rename of a snapshot works, a promise is kept by the
   record itself, and not only by the history's being long enough: truncation takes only
   records the stable snapshot covers.                                                     *)
RecordSafe(n) == (n \in wal /\ n <= stable) \/ n <= snapStable.lsn

\* checkpoint() is past the directory fsync of its snapshot.
SnapshotIsStable(t) == pc[t] \in {"mark", "truncate", "release"}
                       \/ (pc[t] \in {"capture", "fsync"} /\ via[t] = "ckpt")

KeptInv ==
    /\ \A n \in promised : RecordSafe(n)
    /\ \A t \in Threads :
          /\ pc[t] = "publish" => target[t] <= stable
          /\ pc[t] = "dirsync" => snap.lsn = ckptLsn
          /\ SnapshotIsStable(t) => ckptLsn <= snapStable.lsn
          /\ InFlight(t) => /\ lsn[t] \in wal \/ lsn[t] <= snapStable.lsn
                            /\ lsn[t] <= durableLsn => RecordSafe(lsn[t])

-----------------------------------------------------------------------------
(* When no process dies short of a power failure, and no fsync fails, what the process
   believes durable is durable, and what it left behind when it ended is all durable.  *)
OnlyPowerFails == Faults \cap {"processCrash", "ioError", "dirSyncError"} = {}

DiskIsKnown ==
    /\ mode = "up" => durableLsn <= DurableUpTo /\ \A n \in wal : n <= highestLsn
    /\ mode # "up" => Len(hist) <= DurableUpTo
    /\ snap = snapStable \/ \E t \in Threads : pc[t] = "dirsync"
    /\ \A t \in Threads : pc[t] = "publish" => target[t] <= DurableUpTo

VisibleInv == DiskIsKnown /\ StrictVisibility

-----------------------------------------------------------------------------
(* The threads between ++in_flight_ and --in_flight_, and those whose record is not applied. *)
OpsInFlight == {t \in Threads : InFlight(t)}
Pending(t)  == pc[t] \in {"commit", "wait", "apply"} \/ (pc[t] \in SyncPcs /\ via[t] = "commit")

\* apply_ passes over it: a Checkpoint record, or the lsn of an append that failed.
Passed(r) == r.type \in {"Checkpoint", "None"}

\* One leader at a time, which an fsync that throws may leave syncing_ set behind; a
\* follower sleeps only while it is set.
LeaderInv ==
    /\ \A t \in Threads : Leads(t) \/ pc[t] = "wait" => syncing
    /\ \A t, u \in Threads : Leads(t) /\ Leads(u) => t = u
    /\ "ioError" \notin Faults /\ syncing => \E t \in Threads : Leads(t)

\* in_flight_ counts the operations in flight, and those an exception took out of flight; as
\* long as there are none of these, every record is applied or in the hands of its thread.
CountInv ==
    /\ IsFiniteSet(OpsInFlight) /\ inFlight \in Nat /\ Cardinality(OpsInFlight) <= inFlight
    /\ mode = "up" /\ inFlight = Cardinality(OpsInFlight) =>
          \A n \in DOMAIN hist : n \in applied \/ Passed(hist[n])
                                 \/ \E t \in Threads : Pending(t) /\ lsn[t] = n
    /\ \A t \in Threads : pc[t] = "quiesceWait" => inFlight # 0
    /\ Faults \cap {"ioError", "badRecord"} = {} => inFlight = Cardinality(OpsInFlight)

QuiesceInv == CountInv /\ SnapshotSeesEveryLoggedOp

\* With no refused row among the calls there is none in the store or on disk.
RowsAccepted ==
    "badRecord" \notin Faults =>
       /\ \A t \in Threads : ~Refused(op[t])
       /\ \A n \in DOMAIN hist : ~Refused(hist[n])
       /\ \A d \in {db, snap.db, snapStable.db} : \A e \in DOMAIN d : d[e].meta # BadMeta

-----------------------------------------------------------------------------
(* When the directory fsync works, recovery finds every record of the history. *)
HistoryKept == \A n \in DOMAIN hist : n \in wal \/ n <= snapStable.lsn \/ Passed(hist[n])

\* The end of the stable part is a record of the log, or in the stable snapshot.
StableKnown == stable = 0 \/ stable \in wal \/ stable <= snapStable.lsn

\* Ids minted so far are below the bound of a process, and those a snapshot covers below its own.
IdsInv ==
    /\ IdsFollowLogOrder
    /\ mode = "up" => \A n \in DOMAIN hist : hist[n].type = "Insert" => hist[n].ext < nextExt
    /\ \A s \in {snap, snapStable} : \A n \in DOMAIN hist :
          hist[n].type = "Insert" /\ n <= s.lsn => hist[n].ext < s.nextExt

-----------------------------------------------------------------------------
(* The store is the log replayed. *)

\* With no append that fails, every lsn has its record.
NoLsnSkipped == "ioError" \notin Faults => \A n \in DOMAIN hist : hist[n].type # "None"

\* t is in a mutation that has not been applied and whose id is known.
Mutating(t) == /\ op[t].type \in Mutations
               /\ Pending(t) \/ (pc[t] = "prefix" /\ op[t].type # "Insert")

\* The lsns of the applied records, and of those in the hands of threads: callers that
\* run one mutation of an id at a time apply the records of an id in lsn order.
PendingInv ==
    /\ applied \subseteq DOMAIN hist
    /\ mode # "up" => applied = {} /\ db = EmptyDb
    /\ \A t \in Threads : Pending(t) => /\ lsn[t] \in DOMAIN hist \ applied
                                        /\ hist[lsn[t]] = op[t] /\ op[t].type \in Mutations
    /\ \A t \in Threads : Mutating(t) => op[t].ext < nextExt
    /\ \A t, u \in Threads : (Pending(t) /\ Pending(u) /\ lsn[t] = lsn[u]) => t = u
    /\ SerialisedIds => \A t, u \in Threads :
          (Mutating(t) /\ Mutating(u) /\ op[t].ext = op[u].ext) => t = u
    /\ SerialisedIds => \A t \in Threads, m \in applied :
          (Pending(t) /\ m > lsn[t]) => hist[m].ext # op[t].ext \/ Passed(hist[m])

ReplayInv ==
    /\ StoreIsReplayOfLog
    /\ \A s \in {snap, snapStable} : s.db = Replay(hist, EmptyDb, 1..s.lsn)
=============================================================================
