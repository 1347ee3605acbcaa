----------------------------- MODULE DurableVDB -----------------------------
(***************************************************************************)
(* The durable vector store of src/durable_vdb.cpp: an in-memory VDB       *)
(* composed with a write-ahead log and a snapshot file.  Several threads   *)
(* call insert, update, set_metadata, remove, checkpoint and sync; the     *)
(* process may die, the machine may lose power, an fsync may fail, and a   *)
(* caller may pass a row the schema refuses.                               *)
(*                                                                         *)
(* Grain.  One action per critical section or system call that another     *)
(* thread, or a crash, can tell apart.  The serialised prefix of a write   *)
(* is one action: append is the only step of it that others see, the rest  *)
(* is guarded by write_mutex_.                                             *)
(*                                                                         *)
(* Data.  The VDB is the map from live external ids to rows; its internals *)
(* (graph, tombstones, postings) are not seen at this level.  The segment  *)
(* files are the set of lsns they hold: the record of lsn n is hist[n],    *)
(* NoCall for an lsn whose append failed, and hist is the history of the   *)
(* store since it was created, cut where a crash cut it.                   *)
(***************************************************************************)
EXTENDS WalRecords, FiniteSets

CONSTANTS
    Threads,        \* the threads that call into the store
    Policy,         \* Options::policy, "PerOpSync" or "Periodic"
    CheckpointOps,  \* Options::checkpoint_ops
    Kinds,          \* the kinds of call the clients make
    Faults,         \* which of the faults below happen
    SerialisedIds,  \* callers do not run two mutations of one id at once
    MaxLsn,         \* bound: a call starts only while next_lsn_ is at most this
    MaxCrashes      \* bound: crashes

FaultKinds == {"powerLoss", "processCrash", "badRecord", "ioError", "dirSyncError"}

Mutations == {"Insert", "Update", "UpdateVec", "SetMeta", "Delete"}

ASSUME ConstantsAssumption ==
    /\ Kinds \subseteq Mutations \cup {"Checkpoint", "Sync"}
    /\ Policy \in {"PerOpSync", "Periodic"}
    /\ CheckpointOps \in Nat \ {0}
    /\ Faults \subseteq FaultKinds
    /\ SerialisedIds \in BOOLEAN
    /\ MaxLsn \in Nat /\ MaxCrashes \in Nat

VARIABLES
    \* the disk
    hist,           \* hist[n] is the log record of lsn n in the surviving history
    wal,            \* the lsns of the records the segment files hold
    stable,         \* every record of the files up to this lsn is on stable storage
    snap,           \* the snapshot a reader of the directory finds
    snapStable,     \* the snapshot a power failure leaves
    \* the process
    mode,           \* "up", "down", or "failed": the constructor threw
    db,             \* the VDB: a row for every live external id
    nextExt,        \* VDB::next_ext_id_
    nextLsn, opsSinceCheckpoint, writeMutex,   \* guarded by write_mutex_
    highestLsn,     \* Wal::highest_lsn_
    durableLsn, syncing, inFlight,             \* guarded by commit_mutex_
    ckptLsn,        \* the local lsn of the running checkpoint()
    \* the threads
    pc,             \* where each thread stands
    op,             \* the call it runs
    lsn,            \* the lsn of its record
    via,            \* on whose behalf it is inside wal_.sync()
    target,         \* the high-water mark its wal_.sync() captured
    doCkpt,         \* this writer owns the automatic checkpoint
    \* history
    applied,        \* the lsns whose effect the current db shows
    promised,       \* the lsns callers were told are durable
    crashes

disk    == <<hist, wal, stable, snap, snapStable>>
logVars == <<nextExt, nextLsn, opsSinceCheckpoint, highestLsn>>
commitVars == <<durableLsn, syncing, inFlight>>
local   == <<op, lsn, via, target, doCkpt>>
ghosts  == <<applied, promised, crashes>>
vars    == <<disk, mode, db, logVars, writeMutex, commitVars, ckptLsn, pc, local, ghosts>>

-----------------------------------------------------------------------------
IsMax(m, S) == m \in S /\ \A x \in S : x <= m
Larger(a, b) == IF a >= b THEN a ELSE b

IsSnapshot(s) == /\ s = [lsn |-> s.lsn, db |-> s.db, nextExt |-> s.nextExt]
                 /\ s.lsn \in Nat /\ IsDb(s.db) /\ s.nextExt \in Nat
NoSnapshot == [lsn |-> 0, db |-> EmptyDb, nextExt |-> 0]

-----------------------------------------------------------------------------
(* Where a thread stands, and what it was called to do. *)

SyncPcs == {"capture", "fsync", "publish"}             \* inside wal_.sync(), and after it
CkptPcs == {"quiesce", "quiesceWait", "save", "dirsync", "mark", "truncate", "release"}
Pcs == {"idle", "prefix", "commit", "wait", "apply", "flush", "finish", "ckpt"}
       \cup SyncPcs \cup CkptPcs
Callers == {"commit", "flush", "sync", "ckpt"}

Call   == [type : Mutations \cup {"None"}, ext : Nat, row : Row]
NoCall == Record("None", 0, NoRow)

\* The thread is between ++in_flight_ and --in_flight_.
InFlight(t) == \/ pc[t] \in {"commit", "wait", "apply", "flush", "finish"}
               \/ pc[t] \in SyncPcs /\ via[t] \in {"commit", "flush"}
\* The thread set syncing_ and has not cleared it.
Leads(t) == pc[t] \in SyncPcs /\ via[t] \in {"commit", "flush"}
\* The thread holds write_mutex_ across its steps: it runs checkpoint().
HoldsWriteMutex(t) == pc[t] \in CkptPcs \/ (pc[t] \in SyncPcs /\ via[t] = "ckpt")

TypeOK ==
    /\ hist \in Seq(WalRecord \cup {NoCall})
    /\ wal \subseteq Nat
    /\ stable \in Nat
    /\ IsSnapshot(snap) /\ IsSnapshot(snapStable)
    /\ mode \in {"up", "down", "failed"}
    /\ IsDb(db)
    /\ nextExt \in Nat /\ nextLsn \in Nat /\ opsSinceCheckpoint \in Nat /\ highestLsn \in Nat
    /\ writeMutex \in BOOLEAN
    /\ durableLsn \in Nat /\ syncing \in BOOLEAN /\ inFlight \in Int
    /\ ckptLsn \in Int
    /\ pc \in [Threads -> Pcs]
    /\ op \in [Threads -> Call]
    /\ lsn \in [Threads -> Nat]
    /\ via \in [Threads -> Callers]
    /\ target \in [Threads -> Nat]
    /\ doCkpt \in [Threads -> BOOLEAN]
    /\ applied \subseteq Nat /\ promised \subseteq Nat /\ crashes \in Nat

-----------------------------------------------------------------------------
Init ==
    /\ hist = <<>> /\ wal = {} /\ stable = 0
    /\ snap = NoSnapshot /\ snapStable = NoSnapshot
    /\ mode = "up" /\ db = EmptyDb
    /\ nextExt = 0 /\ nextLsn = 1 /\ opsSinceCheckpoint = 0 /\ highestLsn = 0
    /\ writeMutex = FALSE
    /\ durableLsn = 0 /\ syncing = FALSE /\ inFlight = 0 /\ ckptLsn = 0
    /\ pc = [t \in Threads |-> "idle"]
    /\ op = [t \in Threads |-> NoCall]
    /\ lsn = [t \in Threads |-> 0]
    /\ via = [t \in Threads |-> "commit"]
    /\ target = [t \in Threads |-> 0]
    /\ doCkpt = [t \in Threads |-> FALSE]
    /\ applied = {} /\ promised = {} /\ crashes = 0

Goto(t, p) == pc' = [pc EXCEPT ![t] = p]

\* (mutated form of NotifyAndGoto: commit_cv_ is not notified)
GotoUnnotified(t, p) == Goto(t, p)

\* notify_all on commit_cv_: t goes to p, and every waiter re-evaluates its condition.
NotifyAndGoto(t, p) ==
    pc' = [u \in Threads |-> CASE u = t -> p
                               [] u # t /\ pc[u] = "wait" -> "commit"
                               [] u # t /\ pc[u] = "quiesceWait" -> "quiesce"
                               [] OTHER -> pc[u]]

\* A step that moves t and nothing else.
Step(t, p) ==
    /\ Goto(t, p)
    /\ UNCHANGED <<disk, mode, db, logVars, writeMutex, commitVars, ckptLsn, local, ghosts>>

\* The locals of a call that is over.
Forget(t) ==
    /\ op' = [op EXCEPT ![t] = NoCall]
    /\ lsn' = [lsn EXCEPT ![t] = 0]
    /\ via' = [via EXCEPT ![t] = "commit"]
    /\ target' = [target EXCEPT ![t] = 0]
    /\ doCkpt' = [doCkpt EXCEPT ![t] = FALSE]

\* The call ends, normally or by an exception.
Return(t) == Goto(t, "idle") /\ Forget(t)

-----------------------------------------------------------------------------
(* Calls.  contains(id) is read before write_mutex_ is taken; a call on an id that is
   not live returns false and changes nothing, so only the others start.             *)

Rows == [vec : Vecs, meta : Metas \cup (IF "badRecord" \in Faults THEN {BadMeta} ELSE {})]

\* The calls a client may make, given the live ids.
InsertCalls == {Record("Insert", 0, r) : r \in Rows}
CallsOn(e) ==
    {Record("Update", e, r) : r \in Rows}
    \cup {Record("UpdateVec", e, [vec |-> v, meta |-> NoMeta]) : v \in Vecs}
    \cup {Record("SetMeta", e, [r EXCEPT !.vec = NoVec]) : r \in Rows}
    \cup {Record("Delete", e, NoRow)}

\* Another thread's mutation of e has not been applied yet.
Busy(t, e) == \E u \in Threads \ {t} :
                 /\ op[u].type \in Mutations /\ op[u].ext = e
                 /\ \/ pc[u] \in {"prefix", "commit", "wait", "apply"}
                    \/ pc[u] \in SyncPcs /\ via[u] = "commit"

BeginMutation(t, call) ==
    /\ call.type \in Kinds
    /\ op' = [op EXCEPT ![t] = call]
    /\ Goto(t, "prefix")
    /\ UNCHANGED <<disk, mode, db, logVars, writeMutex, commitVars, ckptLsn, lsn, via, target,
                   doCkpt, ghosts>>

CanBegin(t) == mode = "up" /\ pc[t] = "idle"

BeginInsert(t) ==
    /\ CanBegin(t) /\ nextLsn <= MaxLsn
    /\ \E call \in InsertCalls : BeginMutation(t, call)

BeginOnLiveId(t) ==
    /\ CanBegin(t) /\ nextLsn <= MaxLsn
    /\ \E e \in DOMAIN db :
          /\ SerialisedIds => ~Busy(t, e)
          /\ \E call \in CallsOn(e) : BeginMutation(t, call)

BeginCheckpoint(t) == "Checkpoint" \in Kinds /\ CanBegin(t) /\ nextLsn <= MaxLsn /\ Step(t, "ckpt")

BeginSync(t) ==
    /\ "Sync" \in Kinds /\ CanBegin(t)
    /\ via' = [via EXCEPT ![t] = "sync"]
    /\ Goto(t, "capture")
    /\ UNCHANGED <<disk, mode, db, logVars, writeMutex, commitVars, ckptLsn, op, lsn, target,
                   doCkpt, ghosts>>

-----------------------------------------------------------------------------
(* The serialised prefix, under write_mutex_: external id, lsn, append, ++in_flight_. *)

\* Appends r with the next lsn and counts the operation.
LogRecord(t, r) ==
    /\ hist' = Append(hist, r)
    /\ wal' = wal \cup {nextLsn}
    /\ highestLsn' = nextLsn
    /\ nextLsn' = nextLsn + 1
    /\ lsn' = [lsn EXCEPT ![t] = nextLsn]
    /\ inFlight' = inFlight + 1
    /\ IF opsSinceCheckpoint + 1 >= CheckpointOps
       THEN opsSinceCheckpoint' = 0 /\ doCkpt' = [doCkpt EXCEPT ![t] = TRUE]
       ELSE opsSinceCheckpoint' = opsSinceCheckpoint + 1 /\ UNCHANGED doCkpt
    /\ op' = [op EXCEPT ![t] = r]
    /\ Goto(t, IF Policy = "PerOpSync" THEN "commit" ELSE "apply")
    /\ UNCHANGED <<stable, snap, snapStable, mode, db, writeMutex, durableLsn, syncing,
                   ckptLsn, via, target, ghosts>>

\* reserve_id, then the record under the minted id.
PrefixInsert(t) ==
    /\ pc[t] = "prefix" /\ op[t].type = "Insert" /\ ~writeMutex
    /\ nextExt' = nextExt + 1
    /\ LogRecord(t, Record("Insert", nextExt, op[t].row))

\* update with metadata, set_metadata, remove: the record is the caller's.
PrefixGiven(t) ==
    /\ pc[t] = "prefix" /\ op[t].type \in {"Update", "SetMeta", "Delete"}
    /\ ~writeMutex
    /\ LogRecord(t, op[t])
    /\ UNCHANGED nextExt

\* (mutated form of PrefixUpdateVec: the record lacks the metadata the row has)
PrefixUpdateVecBare(t) ==
    /\ pc[t] = "prefix" /\ op[t].type = "UpdateVec" /\ ~writeMutex
    /\ LogRecord(t, op[t])
    /\ UNCHANGED nextExt

\* update without metadata logs the metadata the row has now ...
PrefixUpdateVec(t) ==
    /\ pc[t] = "prefix" /\ op[t].type = "UpdateVec" /\ ~writeMutex
    /\ op[t].ext \in DOMAIN db
    /\ LogRecord(t, Record("Update", op[t].ext,
                           [op[t].row EXCEPT !.meta = db[op[t].ext].meta]))
    /\ UNCHANGED nextExt

\* ... and returns false, with nothing logged, when the row is gone by then.
PrefixRowGone(t) ==
    /\ pc[t] = "prefix" /\ op[t].type = "UpdateVec" /\ ~writeMutex
    /\ op[t].ext \notin DOMAIN db
    /\ Return(t)
    /\ UNCHANGED <<disk, mode, db, logVars, writeMutex, commitVars, ckptLsn, ghosts>>

\* append() throws: the lsn stays unused, and nothing is counted.
SkipLsn(t) ==
    /\ "ioError" \in Faults
    /\ hist' = Append(hist, NoCall)
    /\ nextLsn' = nextLsn + 1
    /\ Return(t)
    /\ UNCHANGED <<wal, stable, snap, snapStable, mode, db, opsSinceCheckpoint, highestLsn,
                   commitVars, ckptLsn, ghosts>>

\* ... out of a mutation, whose minted id stays unused, too.
PrefixThrows(t) ==
    /\ pc[t] = "prefix" /\ ~writeMutex
    /\ op[t].type = "UpdateVec" => op[t].ext \in DOMAIN db
    /\ nextExt' = IF op[t].type = "Insert" THEN nextExt + 1 ELSE nextExt
    /\ SkipLsn(t)
    /\ UNCHANGED writeMutex

-----------------------------------------------------------------------------
(* group_commit_, maybe_flush_, sync() and Wal::sync(). *)

\* The leader hand-off shared by group_commit_ and maybe_flush_.
Lead(t, caller) ==
    /\ syncing' = TRUE
    /\ via' = [via EXCEPT ![t] = caller]
    /\ Goto(t, "capture")
    /\ UNCHANGED <<disk, mode, db, logVars, writeMutex, durableLsn, inFlight, ckptLsn,
                   op, lsn, target, doCkpt, ghosts>>

\* (mutated form of CommitDone: a writer goes on to apply without waiting for its fsync)
CommitDoneEarly(t) == pc[t] = "commit" /\ Step(t, "apply")

CommitDone(t) == pc[t] = "commit" /\ durableLsn >= lsn[t] /\ Step(t, "apply")
CommitWait(t) == pc[t] = "commit" /\ durableLsn < lsn[t] /\ syncing /\ Step(t, "wait")
CommitLead(t) == pc[t] = "commit" /\ durableLsn < lsn[t] /\ ~syncing /\ Lead(t, "commit")

\* Whether flush_interval_ms has elapsed is the clock's choice.
FlushSkip(t) == pc[t] = "flush" /\ Step(t, "finish")
FlushLead(t) == pc[t] = "flush" /\ ~syncing /\ Lead(t, "flush")

\* Wal::sync: the high-water mark and a dup of the active fd, under io_mu_ ...
SyncCapture(t) ==
    /\ pc[t] = "capture"
    /\ target' = [target EXCEPT ![t] = highestLsn]
    /\ Goto(t, "fsync")
    /\ UNCHANGED <<disk, mode, db, logVars, writeMutex, commitVars, ckptLsn, op, lsn, via,
                   doCkpt, ghosts>>

\* (mutated form of SyncFsync: a segment sealed after the capture is not fsynced)
SyncFsyncMissesSealed(t) ==
    /\ pc[t] = "fsync"
    /\ stable' \in {stable, Larger(stable, target[t])}
    /\ Goto(t, IF via[t] = "ckpt" THEN "truncate" ELSE "publish")
    /\ UNCHANGED <<hist, wal, snap, snapStable, mode, db, logVars, writeMutex, commitVars,
                   ckptLsn, local, ghosts>>

\* ... then fsync with no lock held.
SyncFsync(t) ==
    /\ pc[t] = "fsync"
    /\ stable' = Larger(stable, target[t])
    /\ Goto(t, IF via[t] = "ckpt" THEN "truncate" ELSE "publish")
    /\ UNCHANGED <<hist, wal, snap, snapStable, mode, db, logVars, writeMutex, commitVars,
                   ckptLsn, local, ghosts>>

\* fsync fails and wal_.sync() throws through its caller: nobody clears syncing_ or
\* decrements in_flight_; checkpoint() releases write_mutex_ as its guard unwinds.
SyncThrows(t) ==
    /\ "ioError" \in Faults
    /\ pc[t] = "fsync"
    /\ writeMutex' = IF via[t] = "ckpt" THEN FALSE ELSE writeMutex
    /\ Return(t)
    /\ UNCHANGED <<disk, mode, db, logVars, commitVars, ckptLsn, ghosts>>

\* (mutated form of LeaderPublish: syncing_ is not cleared)
LeaderPublishStaysLeader(t) ==
    /\ pc[t] = "publish" /\ via[t] \in {"commit", "flush"}
    /\ durableLsn' = Larger(durableLsn, target[t])
    /\ target' = [target EXCEPT ![t] = 0]
    /\ NotifyAndGoto(t, IF via[t] = "commit" THEN "commit" ELSE "finish")
    /\ UNCHANGED <<disk, mode, db, logVars, writeMutex, syncing, inFlight, ckptLsn, op, lsn, via,
                   doCkpt, ghosts>>

\* The leader of a group commit or of a lazy flush publishes what it made durable.
LeaderPublish(t) ==
    /\ pc[t] = "publish" /\ via[t] \in {"commit", "flush"}
    /\ durableLsn' = Larger(durableLsn, target[t])
    /\ syncing' = FALSE
    /\ target' = [target EXCEPT ![t] = 0]
    /\ NotifyAndGoto(t, IF via[t] = "commit" THEN "commit" ELSE "finish")
    /\ UNCHANGED <<disk, mode, db, logVars, writeMutex, inFlight, ckptLsn, op, lsn, via, doCkpt,
                   ghosts>>

\* (mutated form of SyncReturn: it answers for what was logged during its fsync, too)
SyncReturnAll(t) ==
    /\ pc[t] = "publish" /\ via[t] = "sync"
    /\ durableLsn' = Larger(durableLsn, highestLsn)
    /\ promised' = promised \cup {n \in wal : n <= highestLsn}
    /\ Return(t)
    /\ UNCHANGED <<disk, mode, db, logVars, writeMutex, syncing, inFlight, ckptLsn, applied,
                   crashes>>

\* sync() returns: every record of the log when it captured its target is durable.
SyncReturn(t) ==
    /\ pc[t] = "publish" /\ via[t] = "sync"
    /\ durableLsn' = Larger(durableLsn, target[t])
    /\ promised' = promised \cup {n \in wal : n <= target[t]}
    /\ Return(t)
    /\ UNCHANGED <<disk, mode, db, logVars, writeMutex, syncing, inFlight, ckptLsn, applied,
                   crashes>>

-----------------------------------------------------------------------------
(* Apply and finish. *)

Apply(t) ==
    /\ pc[t] = "apply" /\ ~Refused(op[t])
    /\ db' = ApplyTo(db, op[t])
    /\ applied' = applied \cup {lsn[t]}
    /\ Goto(t, IF Policy = "Periodic" THEN "flush" ELSE "finish")
    /\ UNCHANGED <<disk, mode, logVars, writeMutex, commitVars, ckptLsn, local, promised, crashes>>

\* validate() throws out of the call: the record stays in the log, in_flight_ stays up.
ApplyThrows(t) ==
    /\ pc[t] = "apply" /\ Refused(op[t])
    /\ Return(t)
    /\ UNCHANGED <<disk, mode, db, logVars, writeMutex, commitVars, ckptLsn, ghosts>>

\* finish_op_; the call returns unless it owns a checkpoint.
Finish(t) ==
    /\ pc[t] = "finish"
    /\ inFlight' = inFlight - 1
    /\ NotifyAndGoto(t, IF doCkpt[t] THEN "ckpt" ELSE "idle")
    /\ Forget(t)
    /\ promised' = IF Policy = "PerOpSync" /\ ~doCkpt[t] THEN promised \cup {lsn[t]} ELSE promised
    /\ UNCHANGED <<disk, mode, db, logVars, writeMutex, durableLsn, syncing, ckptLsn, applied, crashes>>

-----------------------------------------------------------------------------
(* checkpoint(), save_snapshot and write_file_atomic. *)

CkptLock(t) ==
    /\ pc[t] = "ckpt" /\ ~writeMutex
    /\ writeMutex' = TRUE
    /\ Goto(t, "quiesce")
    /\ UNCHANGED <<disk, mode, db, logVars, commitVars, ckptLsn, local, ghosts>>

\* (mutated form of CkptQuiet: operations are still in flight)
CkptQuietAtOnce(t) ==
    /\ pc[t] = "quiesce"
    /\ ckptLsn' = nextLsn - 1
    /\ Goto(t, "save")
    /\ UNCHANGED <<disk, mode, db, logVars, writeMutex, commitVars, local, ghosts>>

CkptQuiet(t) ==
    /\ pc[t] = "quiesce" /\ inFlight = 0
    /\ ckptLsn' = nextLsn - 1
    /\ Goto(t, "save")
    /\ UNCHANGED <<disk, mode, db, logVars, writeMutex, commitVars, local, ghosts>>

CkptWait(t) == pc[t] = "quiesce" /\ inFlight # 0 /\ Step(t, "quiesceWait")

\* The temporary file is written, fsynced and renamed over the old snapshot.
CkptSave(t) ==
    /\ pc[t] = "save"
    /\ snap' = [lsn |-> ckptLsn, db |-> db, nextExt |-> nextExt]
    /\ Goto(t, "dirsync")
    /\ UNCHANGED <<hist, wal, stable, snapStable, mode, db, logVars, writeMutex, commitVars,
                   ckptLsn, local, ghosts>>

\* A write or fsync of the temporary file fails: the old snapshot stays.
CkptSaveThrows(t) ==
    /\ "ioError" \in Faults
    /\ pc[t] = "save"
    /\ writeMutex' = FALSE
    /\ Return(t)
    /\ UNCHANGED <<disk, mode, db, logVars, commitVars, ckptLsn, ghosts>>

\* The rename is durable once the directory is fsynced; the code ignores a failure.
CkptDirSync(t) ==
    /\ pc[t] = "dirsync"
    /\ \/ snapStable' = snap
       \/ "dirSyncError" \in Faults /\ UNCHANGED snapStable
    /\ Goto(t, "mark")
    /\ UNCHANGED <<hist, wal, stable, snap, mode, db, logVars, writeMutex, commitVars,
                   ckptLsn, local, ghosts>>

\* The Checkpoint record takes the next lsn; then wal_.sync().
CkptMark(t) ==
    /\ pc[t] = "mark"
    /\ hist' = Append(hist, Record("Checkpoint", 0, NoRow))
    /\ wal' = wal \cup {nextLsn}
    /\ highestLsn' = nextLsn
    /\ nextLsn' = nextLsn + 1
    /\ via' = [via EXCEPT ![t] = "ckpt"]
    /\ Goto(t, "capture")
    /\ UNCHANGED <<stable, snap, snapStable, mode, db, nextExt, opsSinceCheckpoint, writeMutex,
                   commitVars, ckptLsn, op, lsn, target, doCkpt, ghosts>>

\* The append of the Checkpoint record throws.
CkptMarkThrows(t) ==
    /\ pc[t] = "mark"
    /\ writeMutex' = FALSE
    /\ SkipLsn(t)
    /\ UNCHANGED nextExt

\* (mutated form of CkptTruncate: every record goes, the Checkpoint record with them)
CkptTruncateAll(t) ==
    /\ pc[t] = "truncate"
    /\ wal' = {n \in wal : n > highestLsn}
    /\ Goto(t, "release")
    /\ UNCHANGED <<hist, stable, snap, snapStable, mode, db, logVars, writeMutex, commitVars,
                   ckptLsn, local, ghosts>>

\* Wal::truncate unlinks sealed segments whose records are all covered; the segment
\* boundaries decide which of the records up to ckptLsn go.
CkptTruncate(t) ==
    /\ pc[t] = "truncate"
    /\ \E gone \in SUBSET {n \in wal : n <= ckptLsn} : wal' = wal \ gone
    /\ Goto(t, "release")
    /\ UNCHANGED <<hist, stable, snap, snapStable, mode, db, logVars, writeMutex, commitVars,
                   ckptLsn, local, ghosts>>

CkptRelease(t) ==
    /\ pc[t] = "release"
    /\ durableLsn' = Larger(durableLsn, ckptLsn)
    /\ writeMutex' = FALSE
    /\ promised' = promised \cup 1..ckptLsn
    /\ ckptLsn' = 0
    /\ Return(t)
    /\ UNCHANGED <<disk, mode, db, logVars, syncing, inFlight, applied, crashes>>

-----------------------------------------------------------------------------
(* The end of a process, and the constructor of the next one. *)

\* What a process held in memory is gone.
LoseMemory ==
    /\ mode' = "down" /\ db' = EmptyDb
    /\ nextExt' = 0 /\ nextLsn' = 1 /\ opsSinceCheckpoint' = 0 /\ highestLsn' = 0
    /\ writeMutex' = FALSE
    /\ durableLsn' = 0 /\ syncing' = FALSE /\ inFlight' = 0 /\ ckptLsn' = 0
    /\ pc' = [t \in Threads |-> "idle"]
    /\ op' = [t \in Threads |-> NoCall]
    /\ lsn' = [t \in Threads |-> 0]
    /\ via' = [t \in Threads |-> "commit"]
    /\ target' = [t \in Threads |-> 0]
    /\ doCkpt' = [t \in Threads |-> FALSE]
    /\ applied' = {}

\* The history ends with the newest record of the log, or with the snapshot.
CutHistory(log, s) ==
    \E last \in log \cup {s.lsn} : /\ IsMax(last, log \cup {s.lsn})
                                   /\ hist' = [n \in 1..last |-> hist[n]]

\* ~DurableVDB: the last fsync is best effort.
Close ==
    /\ mode = "up" /\ \A t \in Threads : pc[t] = "idle"
    /\ \/ stable' = Larger(stable, highestLsn)
       \/ "ioError" \in Faults /\ UNCHANGED stable
    /\ LoseMemory /\ CutHistory(wal, snap)
    /\ UNCHANGED <<wal, snap, snapStable, promised, crashes>>

\* The process dies; the kernel still holds every byte it wrote.
ProcessCrash ==
    /\ "processCrash" \in Faults /\ crashes < MaxCrashes
    /\ mode = "up"
    /\ LoseMemory /\ CutHistory(wal, snap)
    /\ crashes' = crashes + 1
    /\ UNCHANGED <<wal, stable, snap, snapStable, promised>>

\* The machine loses power: of the log, the stable part and a prefix of the rest
\* survive (replay cuts a torn tail), and either snapshot if the rename was not durable.
PowerLoss ==
    /\ "powerLoss" \in Faults /\ crashes < MaxCrashes
    /\ \E cut \in {stable} \cup {n \in wal : n > stable}, s \in {snap, snapStable} :
          /\ wal' = {n \in wal : n <= cut} /\ stable' = cut
          /\ snap' = s /\ snapStable' = s
          /\ CutHistory({n \in wal : n <= cut}, s)
    /\ LoseMemory
    /\ crashes' = crashes + 1
    /\ UNCHANGED promised

\* (mutated form of Recover: next_ext_id_ is the snapshot's)
RecoverReusesIds ==
    /\ mode = "down"
    /\ \A n \in wal : n > snap.lsn => ~Refused(hist[n])
    /\ db' = Replay(hist, snap.db, {n \in wal : n > snap.lsn})
    /\ nextExt' = snap.nextExt
    /\ \E h \in {0} \cup wal : IsMax(h, {0} \cup wal) /\ highestLsn' = h
    /\ nextLsn' = Larger(snap.lsn, highestLsn') + 1
    /\ durableLsn' = nextLsn' - 1
    /\ mode' = "up"
    /\ applied' = 1..(nextLsn' - 1)
    /\ UNCHANGED <<disk, opsSinceCheckpoint, writeMutex, syncing, inFlight, ckptLsn, pc, local,
                   promised, crashes>>

\* recover_: the snapshot, then the records of the log it does not cover.
Recover ==
    /\ mode = "down"
    /\ LET pending == {n \in wal : n > snap.lsn}
           bounds  == {snap.nextExt} \cup {hist[n].ext + 1 : n \in {m \in pending : hist[m].type = "Insert"}}
       IN  /\ \A n \in pending : ~Refused(hist[n])
           /\ db' = Replay(hist, snap.db, pending)
           /\ \E e \in bounds : IsMax(e, bounds) /\ nextExt' = e
    /\ \E h \in {0} \cup wal : IsMax(h, {0} \cup wal) /\ highestLsn' = h
    /\ nextLsn' = Larger(snap.lsn, highestLsn') + 1
    /\ durableLsn' = nextLsn' - 1
    /\ mode' = "up"
    /\ applied' = 1..(nextLsn' - 1)
    /\ UNCHANGED <<disk, opsSinceCheckpoint, writeMutex, syncing, inFlight, ckptLsn, pc, local,
                   promised, crashes>>

\* Replay meets a record the VDB refuses: the constructor throws, and would again.
RecoverThrows ==
    /\ mode = "down"
    /\ \E n \in wal : n > snap.lsn /\ Refused(hist[n])
    /\ mode' = "failed"
    /\ UNCHANGED <<disk, db, logVars, writeMutex, commitVars, ckptLsn, pc, local, ghosts>>

Reopen ==
    /\ mode = "failed" /\ mode' = "down"
    /\ UNCHANGED <<disk, db, logVars, writeMutex, commitVars, ckptLsn, pc, local, ghosts>>

-----------------------------------------------------------------------------
Begin(t) == BeginInsert(t) \/ BeginOnLiveId(t) \/ BeginCheckpoint(t) \/ BeginSync(t)
Prefix(t) == PrefixInsert(t) \/ PrefixGiven(t) \/ PrefixUpdateVec(t) \/ PrefixRowGone(t)
             \/ PrefixThrows(t)
GroupCommit(t) == CommitDone(t) \/ CommitWait(t) \/ CommitLead(t)
MaybeFlush(t) == FlushSkip(t) \/ FlushLead(t)
WalSync(t) == SyncCapture(t) \/ SyncFsync(t) \/ SyncThrows(t) \/ LeaderPublish(t) \/ SyncReturn(t)
ApplyOp(t) == Apply(t) \/ ApplyThrows(t)
Checkpoint(t) == CkptLock(t) \/ CkptQuiet(t) \/ CkptWait(t) \/ CkptSave(t) \/ CkptSaveThrows(t)
                 \/ CkptDirSync(t) \/ CkptMark(t) \/ CkptMarkThrows(t) \/ CkptTruncate(t) \/ CkptRelease(t)

Work(t) == Prefix(t) \/ GroupCommit(t) \/ MaybeFlush(t) \/ WalSync(t) \/ ApplyOp(t)
           \/ Finish(t) \/ Checkpoint(t)
Restart == Recover \/ RecoverThrows \/ Reopen

Next == \/ \E t \in Threads : Begin(t) \/ Work(t)
        \/ Close \/ ProcessCrash \/ PowerLoss \/ Restart

Spec == Init /\ [][Next]_vars

\* A thread inside a call keeps running, and a stopped store is opened again.
Fairness == /\ \A t \in Threads : WF_vars(Work(t))
            /\ WF_vars(Recover)
FairSpec == Spec /\ Fairness

-----------------------------------------------------------------------------
(* Properties. *)

\* Records up to this lsn outlive a power failure, in the log or in the snapshot.
DurableUpTo == Larger(stable, snapStable.lsn)

\* durable_lsn_ is "the highest lsn known on stable storage" (durable_vdb.h:130).
DurableLsnIsTrue == mode = "up" => durableLsn <= DurableUpTo

\* PerOpSync's strict visibility (durable_vdb.h:19): what a reader can see in the store
\* is on stable storage, so no reader has ever seen a write a crash takes back.
StrictVisibility ==
    Policy = "PerOpSync" => \A n \in applied : n <= DurableUpTo

\* A write that returned under PerOpSync, and everything sync() or checkpoint() covered
\* before it returned, is where recovery finds it, no matter what crashed since: its record
\* is in the log, or the snapshot covers it.
PromisesSurvive == \A n \in promised : n \in wal \/ n <= snap.lsn

\* The live store is the log replayed: writers apply their records in any order, in any
\* incarnation, from any snapshot, and the result is the records applied in lsn order.
StoreIsReplayOfLog == mode = "up" => db = Replay(hist, EmptyDb, applied)

\* "so the snapshot it serialises is consistent" (durable_vdb.h:31): while a checkpoint
\* saves, every operation that was logged has been applied, and no prefix is running.
SnapshotSeesEveryLoggedOp ==
    \A t \in Threads : pc[t] \in {"save", "dirsync", "mark"} =>
       /\ ckptLsn = Len(hist)
       /\ \A n \in 1..Len(hist) : n \in applied \/ hist[n].type \in {"Checkpoint", "None"}

\* The prefix fixes "WAL-order = lsn-order = ext-id-order" (durable_vdb.h:26-27): across
\* restarts too, an external id is minted once in the surviving history, in lsn order.
IdsFollowLogOrder ==
    \A i, j \in DOMAIN hist :
       (i < j /\ hist[i].type = "Insert" /\ hist[j].type = "Insert") => hist[i].ext < hist[j].ext

\* A follower sleeps on commit_cv_ only while the leader that will wake it is at work,
\* and a checkpoint only while an operation that will call finish_op_ is under way.
NobodySleepsAlone ==
    /\ (\E t \in Threads : pc[t] = "wait") => \E u \in Threads : Leads(u)
    /\ (\E t \in Threads : pc[t] = "quiesceWait") => \E u \in Threads : InFlight(u)

\* syncing_ means "a leader is fsyncing right now" (durable_vdb.h:131).
SyncingMeansALeader == syncing => \E t \in Threads : Leads(t)

\* The store can be opened again whatever has been logged (durable_vdb.h:14-16).
AlwaysReopens == mode # "failed"

\* The store keeps the abstract promise of DurableStore: the log is the surviving
\* history, what is durable is what the log or the snapshot keeps on stable storage.
Store == INSTANCE DurableStore WITH
            log <- hist, durable <- DurableUpTo, open <- mode = "up",
            visible <- applied, view <- db, Strict <- Policy = "PerOpSync"
ImplementsStore == Store!Spec

\* The store uses its log by the contract of LogFile, which Wal keeps; records are
\* reclaimed only when a durable snapshot covers them.
Log == INSTANCE LogFile WITH
          open <- mode = "up", kept <- wal, stable <- {n \in wal : n <= stable},
          synced <- promised, highest <- highestLsn, covered <- snapStable.lsn
UsesLogFile == Log!Spec

\* Every call returns: no writer, checkpoint or sync waits for ever.
CallsReturn == \A t \in Threads : (pc[t] # "idle") ~> (pc[t] = "idle")
=============================================================================
