----------------------- MODULE DurableVDBStoreProofs ------------------------
(***************************************************************************)
(* Theorems about what DurableVDB makes of its log, its snapshots and its  *)
(* in-memory store:                                                        *)
(*   LogIsKept              KeptInv, HistoryKept, StableKnown              *)
(*   IdsAreInLogOrder       IdsFollowLogOrder                              *)
(*   StoreIsTheLogReplayed  PendingInv, ReplayInv, StoreIsReplayOfLog      *)
(* and that it implements the two abstract specifications it is held to:   *)
(*   LogIsUsedByContract    LogFile, the contract its write-ahead log keeps*)
(*   StoreKeepsItsPromise   DurableStore, the promise of durable_vdb.h     *)
(***************************************************************************)
EXTENDS DurableVDBProofs

USE DEF disk, logVars, commitVars, local, ghosts, Step, Goto, Return, Forget, NotifyAndGoto,
        Lead, CanBegin, BeginMutation, SyncPcs, CkptPcs, Pcs, Callers, InFlight, Leads,
        HoldsWriteMutex, Larger

-----------------------------------------------------------------------------
(* The steps that touch the files, the log or the store. *)

\* Steps of t that touch none of them.
Quiet(t) == \/ Begin(t) \/ PrefixRowGone(t) \/ GroupCommit(t) \/ MaybeFlush(t)
            \/ SyncCapture(t) \/ SyncThrows(t) \/ LeaderPublish(t) \/ ApplyThrows(t)
            \/ CkptLock(t) \/ CkptQuiet(t) \/ CkptWait(t) \/ CkptSaveThrows(t)

(* Calls, waits and the work of a leader change pcs and locals. *)
LEMMA QuietIsQuiet ==
    ASSUME NEW t, Quiet(t)
    PROVE  UNCHANGED <<disk, mode, db, logVars, ghosts>>
<1>1. CASE Begin(t) \/ PrefixRowGone(t)
  BY <1>1 DEF Begin, BeginInsert, BeginOnLiveId, BeginCheckpoint, BeginSync, PrefixRowGone
<1>2. CASE GroupCommit(t) \/ MaybeFlush(t)
  BY <1>2 DEF GroupCommit, CommitDone, CommitWait, CommitLead, MaybeFlush, FlushSkip, FlushLead
<1>3. CASE SyncCapture(t) \/ SyncThrows(t) \/ LeaderPublish(t) \/ ApplyThrows(t)
  BY <1>3 DEF SyncCapture, SyncThrows, LeaderPublish, ApplyThrows
<1>4. CASE CkptLock(t) \/ CkptQuiet(t) \/ CkptWait(t) \/ CkptSaveThrows(t)
  BY <1>4 DEF CkptLock, CkptQuiet, CkptWait, CkptSaveThrows
<1> QED BY <1>1, <1>2, <1>3, <1>4 DEF Quiet

\* t logs record r.
Logs(t, r) == pc[t] = "prefix" /\ ~writeMutex /\ LogRecord(t, r)

(* The other steps of a thread. *)
LEMMA LoudSteps ==
    ASSUME NEW t, Begin(t) \/ Work(t)
    PROVE  \/ Quiet(t)
           \/ PrefixInsert(t) \/ PrefixGiven(t) \/ PrefixUpdateVec(t)
           \/ PrefixThrows(t) \/ CkptMarkThrows(t) \/ CkptMark(t)
           \/ SyncFsync(t) \/ SyncReturn(t) \/ Apply(t) \/ Finish(t)
           \/ CkptSave(t) \/ CkptDirSync(t) \/ CkptTruncate(t) \/ CkptRelease(t)
  BY DEF Work, Prefix, GroupCommit, MaybeFlush, WalSync, ApplyOp, Checkpoint, Quiet

(* What the ends of a process leave of the disk. *)
LEMMA StopKeepsDisk ==
    ASSUME TypeOK, SafetyInv, Close \/ ProcessCrash \/ PowerLoss
    PROVE  /\ hist' \in Seq(WalRecord \cup {NoCall})
           /\ DOMAIN hist' \subseteq DOMAIN hist /\ \A n \in DOMAIN hist' : hist'[n] = hist[n]
           /\ snap' \in {snap, snapStable} /\ snapStable' \in {snap, snapStable}
           /\ snapStable.lsn <= snapStable'.lsn /\ mode' = "down"
           /\ \/ wal' = wal /\ snap' = snap /\ snapStable' = snapStable
              \/ PowerLoss
<1>1. \E log, s : log \subseteq wal /\ s \in {snap, snapStable} /\ CutHistory(log, s)
  BY DEF Close, ProcessCrash, PowerLoss
<1>2. /\ hist' \in Seq(WalRecord \cup {NoCall}) /\ Len(hist') \in 0..Len(hist)
      /\ \A n \in 1..Len(hist') : hist'[n] = hist[n]
  BY <1>1, CutTypes
<1>3. DOMAIN hist' = 1..Len(hist') /\ DOMAIN hist = 1..Len(hist) /\ Len(hist) \in Nat
  BY <1>2, LenProperties DEF TypeOK
<1>4. /\ snap' \in {snap, snapStable} /\ snapStable' \in {snap, snapStable}
      /\ mode' = "down"
      /\ \/ wal' = wal /\ snap' = snap /\ snapStable' = snapStable
         \/ PowerLoss
  BY DEF Close, ProcessCrash, PowerLoss, LoseMemory
<1>5. snapStable.lsn <= snapStable'.lsn
  BY <1>4 DEF SafetyInv, HistoryEnds, LsnTypes
<1> QED BY <1>2, <1>3, <1>4, <1>5

-----------------------------------------------------------------------------
(* Recovery finds every record of the history. *)

(* Every step keeps HistoryKept and StableKnown. *)
LEMMA ThreadKeepsHistory ==
    ASSUME "dirSyncError" \notin Faults, SafetyInv, KeptInv, HistoryKept, StableKnown,
           NEW t \in Threads, Begin(t) \/ Work(t)
    PROVE  HistoryKept' /\ StableKnown'
<1> USE DEF SafetyInv, LsnTypes
<1>1. DOMAIN hist = 1..Len(hist) /\ Len(hist) \in Nat /\ wal \subseteq Nat
  BY AppendedLog
<1>2. ASSUME UNCHANGED <<hist, wal, stable, snapStable>> PROVE HistoryKept' /\ StableKnown'
  BY <1>2 DEF HistoryKept, StableKnown, Passed
<1>3. CASE Quiet(t)
  BY <1>2, <1>3, QuietIsQuiet
<1>4. CASE SyncReturn(t) \/ Apply(t) \/ Finish(t) \/ CkptSave(t) \/ CkptRelease(t)
  BY <1>2, <1>4 DEF SyncReturn, Apply, Finish, CkptSave, CkptRelease
<1>5. ASSUME NEW r, hist' = Append(hist, r), wal' = wal \cup {Len(hist) + 1} \/ (wal' = wal /\ Passed(r)),
             UNCHANGED <<stable, snapStable>>
      PROVE  HistoryKept' /\ StableKnown'
  <2>1. \A n \in DOMAIN hist' : (n \in DOMAIN hist /\ hist'[n] = hist[n]) \/ (n = Len(hist) + 1 /\ hist'[n] = r)
    BY <1>5, AppendedLog
  <2> QED BY <1>5, <2>1 DEF HistoryKept, StableKnown, Passed
<1>6. CASE PrefixInsert(t) \/ PrefixGiven(t) \/ PrefixUpdateVec(t)
  <2>1. PICK r : LogRecord(t, r)
    BY <1>6 DEF PrefixInsert, PrefixGiven, PrefixUpdateVec
  <2>2. mode = "up" /\ nextLsn = Len(hist) + 1
    BY <1>6 DEF PrefixInsert, PrefixGiven, PrefixUpdateVec, Exclusion, HistoryEnds
  <2> QED BY <1>5, <2>1, <2>2 DEF LogRecord
<1>7. CASE PrefixThrows(t) \/ CkptMarkThrows(t)
  <2>1. Passed(NoCall)
    BY DEF Passed, NoCall, Record
  <2> QED BY <1>5, <1>7, <2>1 DEF PrefixThrows, CkptMarkThrows, SkipLsn
<1>8. CASE CkptMark(t)
  <2>1. mode = "up" /\ nextLsn = Len(hist) + 1
    BY <1>8 DEF CkptMark, Exclusion, HistoryEnds
  <2> QED BY <1>5, <1>8, <2>1 DEF CkptMark
<1>9. CASE SyncFsync(t)
  <2>1. /\ stable' = Larger(stable, target[t]) /\ UNCHANGED <<hist, wal, snapStable>>
        /\ target[t] \in wal \/ Safe(target[t])
    BY <1>9 DEF SyncFsync, TargetsKnown
  <2>2. target[t] \in Nat
    OBVIOUS
  <2>3. StableKnown'
    BY <1>1, <2>1, <2>2 DEF StableKnown, Safe
  <2> QED BY <2>1, <2>3 DEF HistoryKept, Passed
<1>10. CASE CkptDirSync(t)
  <2>1. snapStable' = snap /\ UNCHANGED <<hist, wal, stable>> /\ snapStable.lsn <= snap.lsn
    BY <1>10 DEF CkptDirSync, HistoryEnds
  <2> QED BY <1>1, <2>1 DEF HistoryKept, StableKnown, Passed
<1>11. CASE CkptTruncate(t)
  <2>1. ckptLsn <= snapStable.lsn
    BY <1>11 DEF CkptTruncate, KeptInv, SnapshotIsStable
  <2>2. UNCHANGED <<hist, stable, snapStable>> /\ \A n \in wal : n \in wal' \/ n <= ckptLsn
    BY <1>11 DEF CkptTruncate
  <2> QED BY <1>1, <2>1, <2>2 DEF HistoryKept, StableKnown, Passed
<1> QED BY <1>3, <1>4, <1>6, <1>7, <1>8, <1>9, <1>10, <1>11, LoudSteps

(* A power failure cuts the history no further than the log, or the snapshot it leaves. *)
LEMMA StopKeepsHistory ==
    ASSUME SafetyInv, TypeOK, HistoryKept, StableKnown, Close \/ ProcessCrash \/ PowerLoss
    PROVE  HistoryKept' /\ StableKnown'
<1> USE DEF SafetyInv, LsnTypes
<1>1. /\ DOMAIN hist' \subseteq DOMAIN hist /\ \A n \in DOMAIN hist' : hist'[n] = hist[n]
  BY StopKeepsDisk
<1>2. CASE Close \/ ProcessCrash
  <2>1. wal' = wal /\ snapStable' = snapStable
    BY <1>2 DEF Close, ProcessCrash
  <2>2. stable' \in {stable, highestLsn} /\ highestLsn \in wal \cup {0}
    BY <1>2 DEF Close, ProcessCrash, HistoryEnds
  <2> QED BY <1>1, <2>1, <2>2 DEF HistoryKept, StableKnown, Passed
<1>3. CASE PowerLoss
  <2>1. PICK cut \in {stable} \cup {n \in wal : n > stable}, s \in {snap, snapStable} :
             /\ wal' = {n \in wal : n <= cut} /\ stable' = cut
             /\ snap' = s /\ snapStable' = s
             /\ CutHistory({n \in wal : n <= cut}, s)
    BY <1>3 DEF PowerLoss
  <2>2. cut \in Nat /\ s.lsn \in Nat /\ snapStable.lsn <= s.lsn /\ wal \subseteq Nat
    BY SafeBounds DEF HistoryEnds
  <2>3. StableKnown'
    BY <2>1, <2>2 DEF StableKnown
  <2>4. PICK last \in wal' \cup {s.lsn} : hist' = [n \in 1..last |-> hist[n]]
    BY <2>1 DEF CutHistory
  <2>5. \A n \in DOMAIN hist' : n <= cut \/ n <= s.lsn
    BY <2>1, <2>2, <2>4
  <2>6. ASSUME NEW n \in DOMAIN hist' PROVE n \in wal' \/ n <= s.lsn \/ Passed(hist'[n])
    <3>1. n \in wal \/ n <= snapStable.lsn \/ Passed(hist[n])
      BY <1>1 DEF HistoryKept
    <3>2. n \in Nat /\ hist'[n] = hist[n]
      BY <1>1, AppendedLog
    <3> QED BY <2>1, <2>2, <2>5, <3>1, <3>2 DEF Passed
  <2> QED BY <2>1, <2>3, <2>6 DEF HistoryKept, Passed
<1> QED BY <1>2, <1>3

(* Every step keeps them. *)
LEMMA NextKeepsHistory ==
    ASSUME "dirSyncError" \notin Faults, TypeOK, SafetyInv, KeptInv, HistoryKept, StableKnown, [Next]_vars
    PROVE  HistoryKept' /\ StableKnown'
<1>1. ASSUME NEW t \in Threads, Begin(t) \/ Work(t) PROVE HistoryKept' /\ StableKnown'
  BY <1>1, ThreadKeepsHistory
<1>2. CASE Close \/ ProcessCrash \/ PowerLoss
  BY <1>2, StopKeepsHistory
<1>3. CASE Restart \/ UNCHANGED vars
  BY <1>3 DEF Restart, Recover, RecoverThrows, Reopen, vars, HistoryKept, StableKnown, Passed
<1> QED BY <1>1, <1>2, <1>3 DEF Next

(* When the fsync of the directory after the rename of a snapshot works, every record that
   apply_ does not pass over is in the log or in the stable snapshot, at all times: recovery
   after any crash finds it, and truncation takes only what a durable snapshot covers.      *)
THEOREM LogIsKept ==
    ASSUME "dirSyncError" \notin Faults
    PROVE  Spec => [](KeptInv /\ HistoryKept /\ StableKnown)
<1>1. Init => KeptInv /\ HistoryKept /\ StableKnown
  BY DEF Init, KeptInv, SnapshotIsStable, HistoryKept, StableKnown
<1>2. TypeOK /\ SafetyInv /\ (KeptInv /\ HistoryKept /\ StableKnown) /\ [Next]_vars
        => (KeptInv /\ HistoryKept /\ StableKnown)'
  BY NextKept, NextKeepsHistory
<1> QED BY <1>1, <1>2, Safety, TypesHold, PTL DEF Spec

-----------------------------------------------------------------------------
(* External ids. *)

(* Each step of a thread keeps what is known of the ids. *)
LEMMA ThreadKeepsIds ==
    ASSUME TypeOK, SafetyInv, IdsInv, NEW t \in Threads, Begin(t) \/ Work(t)
    PROVE  IdsInv'
<1> USE DEF SafetyInv, LsnTypes
<1> DEFINE Covers(s) == \A n \in DOMAIN hist : hist[n].type = "Insert" /\ n <= s.lsn => hist[n].ext < s.nextExt
           Below     == mode = "up" => \A n \in DOMAIN hist : hist[n].type = "Insert" => hist[n].ext < nextExt
<1>1. DOMAIN hist = 1..Len(hist) /\ Len(hist) \in Nat /\ nextExt \in Nat
  BY AppendedLog DEF TypeOK
<1>2. ASSUME UNCHANGED <<hist, mode, nextExt>>, snap' \in {snap, snapStable}, snapStable' \in {snap, snapStable}
      PROVE  IdsInv'
  BY <1>2 DEF IdsInv, IdsFollowLogOrder
<1>3. CASE Quiet(t)
  BY <1>2, <1>3, QuietIsQuiet
<1>4. CASE SyncFsync(t) \/ SyncReturn(t) \/ Apply(t) \/ Finish(t)
  BY <1>2, <1>4 DEF SyncFsync, SyncReturn, Apply, Finish
<1>5. CASE CkptDirSync(t) \/ CkptTruncate(t) \/ CkptRelease(t)
  BY <1>2, <1>5 DEF CkptDirSync, CkptTruncate, CkptRelease
<1>6. CASE CkptSave(t)
  <2>1. /\ UNCHANGED <<hist, mode, nextExt, snapStable>> /\ mode = "up"
        /\ snap' = [lsn |-> ckptLsn, db |-> db, nextExt |-> nextExt]
    BY <1>6 DEF CkptSave, Exclusion
  <2> QED BY <2>1 DEF IdsInv, IdsFollowLogOrder
<1>7. ASSUME NEW r, hist' = Append(hist, r), UNCHANGED <<mode, snap, snapStable>>, mode = "up", nextExt' \in Nat,
             \/ r.type # "Insert" /\ nextExt <= nextExt'
             \/ r.ext = nextExt /\ nextExt' = nextExt + 1
      PROVE  IdsInv'
  <2>1. /\ DOMAIN hist' = 1..(Len(hist) + 1)
        /\ \A n \in DOMAIN hist' : (n \in DOMAIN hist /\ hist'[n] = hist[n]) \/ (n = Len(hist) + 1 /\ hist'[n] = r)
    BY <1>7, AppendedLog
  <2>2. \A n \in DOMAIN hist : hist[n].type = "Insert" => hist[n].ext < nextExt /\ hist[n].ext \in Nat
    BY <1>1, <1>7, RecordTypesKnown, ElementOfSeq DEF IdsInv, TypeOK
  <2>3. \A n \in DOMAIN hist' : hist'[n].type = "Insert" => hist'[n].ext < nextExt'
    BY <1>1, <1>7, <2>1, <2>2
  <2>4. \A i, j \in DOMAIN hist' :
           (i < j /\ hist'[i].type = "Insert" /\ hist'[j].type = "Insert") => hist'[i].ext < hist'[j].ext
    <3> SUFFICES ASSUME NEW i \in DOMAIN hist', NEW j \in DOMAIN hist', i < j,
                        hist'[i].type = "Insert", hist'[j].type = "Insert"
        PROVE  hist'[i].ext < hist'[j].ext
      OBVIOUS
    <3>1. i \in DOMAIN hist /\ hist'[i] = hist[i]
      BY <1>1, <2>1
    <3>2. CASE j \in DOMAIN hist /\ hist'[j] = hist[j]
      BY <3>1, <3>2 DEF IdsInv, IdsFollowLogOrder
    <3>3. CASE hist'[j] = r
      BY <1>7, <2>2, <3>1, <3>3
    <3> QED BY <2>1, <3>2, <3>3
  <2>5. ASSUME NEW s \in {snap', snapStable'}
        PROVE  \A n \in DOMAIN hist' : hist'[n].type = "Insert" /\ n <= s.lsn => hist'[n].ext < s.nextExt
    <3>1. s \in {snap, snapStable} /\ s.lsn \in Nat /\ s.lsn <= Len(hist)
      BY <1>7 DEF HistoryEnds
    <3> QED BY <1>1, <2>1, <3>1 DEF IdsInv
  <2> QED BY <2>3, <2>4, <2>5 DEF IdsInv, IdsFollowLogOrder
<1>8. mode = "up" \/ pc[t] = "idle"
  BY DEF Exclusion
<1>9. CASE PrefixInsert(t)
  <2>1. Record("Insert", nextExt, op[t].row).ext = nextExt
    BY DEF Record
  <2> QED BY <1>1, <1>7, <1>8, <1>9, <2>1 DEF PrefixInsert, LogRecord
<1>10. CASE PrefixGiven(t)
  BY <1>1, <1>7, <1>8, <1>10 DEF PrefixGiven, LogRecord
<1>11. CASE PrefixUpdateVec(t)
  <2> DEFINE r == Record("Update", op[t].ext, [op[t].row EXCEPT !.meta = db[op[t].ext].meta])
  <2>1. r.type # "Insert"
    BY DEF Record
  <2> QED BY <1>1, <1>7, <1>8, <1>11, <2>1 DEF PrefixUpdateVec, LogRecord
<1>12. CASE PrefixThrows(t) \/ CkptMarkThrows(t)
  <2>1. NoCall.type # "Insert"
    BY DEF NoCall, Record
  <2> QED BY <1>1, <1>7, <1>8, <1>12, <2>1 DEF PrefixThrows, CkptMarkThrows, SkipLsn
<1>13. CASE CkptMark(t)
  <2>1. Record("Checkpoint", 0, NoRow).type # "Insert"
    BY DEF Record
  <2> QED BY <1>1, <1>7, <1>8, <1>13, <2>1 DEF CkptMark
<1> QED BY <1>3, <1>4, <1>5, <1>6, <1>9, <1>10, <1>11, <1>12, <1>13, LoudSteps

(* recover_ resumes above every id of the snapshot and of the log it replays. *)
LEMMA RestartKeepsIds ==
    ASSUME TypeOK, SafetyInv, HistoryKept, IdsInv, Restart
    PROVE  IdsInv'
<1> USE DEF SafetyInv, LsnTypes
<1>1. CASE Recover
  <2> DEFINE pending == {n \in wal : n > snap.lsn}
             bounds  == {snap.nextExt} \cup {hist[n].ext + 1 : n \in {m \in pending : hist[m].type = "Insert"}}
  <2>1. UNCHANGED <<hist, snap, snapStable>> /\ IsMax(nextExt', bounds)
    BY <1>1 DEF Recover
  <2>2. /\ DOMAIN hist = 1..Len(hist) /\ Len(hist) \in Nat
        /\ \A n \in DOMAIN hist : hist[n].ext \in Nat
    BY AppendedLog, RecordTypesKnown, ElementOfSeq DEF TypeOK
  <2>3. nextExt' \in Nat /\ snap.nextExt \in Nat /\ snap.nextExt <= nextExt'
    BY <2>1, RestartTypes DEF IsMax, TypeOK, IsSnapshot
  <2>4. ASSUME NEW n \in DOMAIN hist, hist[n].type = "Insert" PROVE hist[n].ext < nextExt'
    <3>1. CASE n <= snap.lsn
      <4>1. hist[n].ext < snap.nextExt
        BY <2>4, <3>1 DEF IdsInv
      <4> QED BY <2>2, <2>3, <4>1
    <3>2. CASE n > snap.lsn
      <4>1. n \in pending
        <5>1. n \in wal \/ n <= snapStable.lsn
          BY <2>4 DEF HistoryKept, Passed
        <5>2. snapStable.lsn <= snap.lsn /\ snap.lsn \in Nat /\ snapStable.lsn \in Nat /\ n \in Nat
          BY <2>2 DEF HistoryEnds
        <5> QED BY <3>2, <5>1, <5>2
      <4>2. hist[n].ext + 1 \in bounds
        BY <2>4, <4>1
      <4>3. hist[n].ext + 1 <= nextExt'
        BY <2>1, <4>2 DEF IsMax
      <4> QED BY <2>2, <2>3, <4>3
    <3> QED BY <2>2, <3>1, <3>2
  <2> QED BY <2>1, <2>4 DEF IdsInv, IdsFollowLogOrder
<1>2. CASE RecoverThrows \/ Reopen
  BY <1>2 DEF RecoverThrows, Reopen, IdsInv, IdsFollowLogOrder
<1> QED BY <1>1, <1>2 DEF Restart

(* Every step keeps what is known of the ids. *)
LEMMA NextKeepsIds ==
    ASSUME TypeOK, SafetyInv, HistoryKept, IdsInv, [Next]_vars
    PROVE  IdsInv'
<1>1. ASSUME NEW t \in Threads, Begin(t) \/ Work(t) PROVE IdsInv'
  BY <1>1, ThreadKeepsIds
<1>2. CASE Close \/ ProcessCrash \/ PowerLoss
  BY <1>2, StopKeepsDisk DEF IdsInv, IdsFollowLogOrder
<1>3. CASE UNCHANGED vars
  BY <1>3 DEF vars, IdsInv, IdsFollowLogOrder
<1> QED BY <1>1, <1>2, <1>3, RestartKeepsIds DEF Next

(* "WAL-order = lsn-order = ext-id-order" (durable_vdb.h:26-27): across every restart an external
   id is minted once in the surviving history, and a later insert has the larger id.             *)
THEOREM IdsAreInLogOrder ==
    ASSUME "dirSyncError" \notin Faults
    PROVE  Spec => []IdsFollowLogOrder
<1>1. Init => IdsInv
  BY DEF Init, IdsInv, IdsFollowLogOrder
<1>2. TypeOK /\ SafetyInv /\ HistoryKept /\ IdsInv /\ [Next]_vars => IdsInv'
  BY NextKeepsIds
<1>3. IdsInv => IdsFollowLogOrder
  BY DEF IdsInv
<1> QED BY <1>1, <1>2, <1>3, Safety, TypesHold, LogIsKept, PTL DEF Spec

-----------------------------------------------------------------------------
(* Writers apply their records in any order, one of each id at a time. *)

(* The ids of the store are ids the history inserted. *)
LEMMA LiveIdsAreMinted ==
    ASSUME TypeOK, SafetyInv, IdsInv, ReplayInv, mode = "up"
    PROVE  \A e \in DOMAIN db : e < nextExt
<1>1. db = Replay(hist, EmptyDb, applied)
  BY DEF ReplayInv, StoreIsReplayOfLog
<1>2. DOMAIN hist = 1..Len(hist) /\ Len(hist) \in Nat
  BY AppendedLog DEF SafetyInv, LsnTypes
<1>3. \A e \in DOMAIN db : e \in DOMAIN EmptyDb \/ \E n \in 1..Len(hist) : hist[n].type = "Insert" /\ hist[n].ext = e
  BY <1>1, <1>2, ReplayedIds
<1>4. DOMAIN EmptyDb = {}
  BY DEF EmptyDb
<1> QED BY <1>2, <1>3, <1>4 DEF IdsInv

(* PendingInv outlives a step in which every thread keeps its record or lets go of it. *)
LEMMA PendingKept ==
    ASSUME SafetyInv, PendingInv, UNCHANGED applied,
           mode' # "up" => applied' = {} /\ db' = EmptyDb,
           \A n \in DOMAIN hist : n \in DOMAIN hist' /\ hist'[n] = hist[n],
           \A t \in Threads : Pending(t)' => Pending(t) /\ lsn'[t] = lsn[t] /\ op'[t] = op[t],
           \A t \in Threads : Mutating(t)' => Mutating(t) /\ op'[t] = op[t],
           nextExt \in Nat, nextExt' \in Nat, nextExt <= nextExt', op \in [Threads -> Call]
    PROVE  PendingInv'
<1>1. \A t \in Threads : Mutating(t)' => op'[t].ext < nextExt'
  <2>1. \A t \in Threads : op[t].ext \in Nat
    BY DEF Call
  <2> QED BY <2>1 DEF PendingInv
<1>2. applied' \subseteq DOMAIN hist'
  BY DEF PendingInv
<1>3. \A t \in Threads : Pending(t)' => /\ lsn'[t] \in DOMAIN hist' \ applied'
                                        /\ hist'[lsn'[t]] = op'[t] /\ op'[t].type \in Mutations
  BY DEF PendingInv
<1>4. \A t, u \in Threads : (Pending(t)' /\ Pending(u)' /\ lsn'[t] = lsn'[u]) => t = u
  BY DEF PendingInv
<1>5. SerialisedIds => \A t, u \in Threads :
          (Mutating(t)' /\ Mutating(u)' /\ op'[t].ext = op'[u].ext) => t = u
  BY DEF PendingInv
<1>6. SerialisedIds => \A t \in Threads, m \in applied' :
          (Pending(t)' /\ m > lsn'[t]) => hist'[m].ext # op'[t].ext \/ Passed(hist'[m])
  BY DEF PendingInv, Passed
<1> QED BY <1>1, <1>2, <1>3, <1>4, <1>5, <1>6 DEF PendingInv

(* Threads work in a process that is up. *)
LEMMA UpWhileWorking ==
    ASSUME SafetyInv, NEW t \in Threads, Begin(t) \/ Work(t)
    PROVE  mode = "up"
<1>1. mode = "up" \/ pc[t] = "idle"
  BY DEF SafetyInv, Exclusion
<1>2. CASE Begin(t)
  BY <1>2 DEF Begin, BeginInsert, BeginOnLiveId, BeginCheckpoint, BeginSync
<1>3. CASE Prefix(t) \/ GroupCommit(t) \/ MaybeFlush(t) \/ ApplyOp(t) \/ Finish(t)
  BY <1>1, <1>3 DEF Prefix, PrefixInsert, PrefixGiven, PrefixUpdateVec, PrefixRowGone, PrefixThrows,
     GroupCommit, CommitDone, CommitWait, CommitLead, MaybeFlush, FlushSkip, FlushLead,
     ApplyOp, Apply, ApplyThrows, Finish
<1>4. CASE WalSync(t)
  BY <1>1, <1>4 DEF WalSync, SyncCapture, SyncFsync, SyncThrows, LeaderPublish, SyncReturn
<1>5. CASE Checkpoint(t)
  BY <1>1, <1>5 DEF Checkpoint, CkptLock, CkptQuiet, CkptWait, CkptSave, CkptSaveThrows, CkptDirSync,
     CkptMark, CkptMarkThrows, CkptTruncate, CkptRelease
<1> QED BY <1>2, <1>3, <1>4, <1>5 DEF Work

(* Most steps of a thread leave the records in the hands of threads where they are. *)
LEMMA ThreadPendingKept ==
    ASSUME TypeOK, SafetyInv, PendingInv, NEW t \in Threads, Begin(t) \/ Work(t),
           ~BeginOnLiveId(t), ~PrefixInsert(t), ~PrefixGiven(t), ~PrefixUpdateVec(t), ~Apply(t)
    PROVE  PendingInv'
<1> USE DEF Pending, Mutating
<1>0. /\ pc \in [Threads -> Pcs] /\ op \in [Threads -> Call] /\ lsn \in [Threads -> Nat]
      /\ via \in [Threads -> Callers] /\ nextExt \in Nat
  BY DEF TypeOK
<1>a. mode = "up"
  BY UpWhileWorking
<1>b. \A r : hist' = Append(hist, r) => \A n \in DOMAIN hist : n \in DOMAIN hist' /\ hist'[n] = hist[n]
  BY AppendedLog DEF SafetyInv, LsnTypes
<1>c. NoCall.type \notin Mutations
  BY DEF NoCall, Record, Mutations
<1>p. ASSUME UNCHANGED <<mode, applied>>, hist' = hist \/ \E r : hist' = Append(hist, r),
             \A u \in Threads : Pending(u)' => Pending(u) /\ lsn'[u] = lsn[u] /\ op'[u] = op[u],
             \A u \in Threads : Mutating(u)' => Mutating(u) /\ op'[u] = op[u],
             nextExt' \in {nextExt, nextExt + 1}
      PROVE  PendingInv'
  <2> HIDE DEF Pending, Mutating
  <2> QED BY <1>0, <1>a, <1>b, <1>p, PendingKept
<1>1. CASE BeginInsert(t)
  BY <1>0, <1>c, <1>p, <1>1 DEF BeginInsert, InsertCalls, Record
<1>2. CASE BeginCheckpoint(t)
  BY <1>0, <1>c, <1>p, <1>2 DEF BeginCheckpoint
<1>3. CASE BeginSync(t)
  BY <1>0, <1>c, <1>p, <1>3 DEF BeginSync
<1>4. CASE PrefixRowGone(t)
  BY <1>0, <1>c, <1>p, <1>4 DEF PrefixRowGone
<1>5. CASE PrefixThrows(t)
  BY <1>0, <1>c, <1>p, <1>5 DEF PrefixThrows, SkipLsn
<1>6. CASE CommitDone(t)
  BY <1>0, <1>c, <1>p, <1>6 DEF CommitDone
<1>7. CASE CommitWait(t)
  BY <1>0, <1>c, <1>p, <1>7 DEF CommitWait
<1>8. CASE CommitLead(t)
  BY <1>0, <1>c, <1>p, <1>8 DEF CommitLead
<1>9. CASE FlushSkip(t)
  BY <1>0, <1>c, <1>p, <1>9 DEF FlushSkip
<1>10. CASE FlushLead(t)
  BY <1>0, <1>c, <1>p, <1>10 DEF FlushLead
<1>11. CASE SyncCapture(t)
  BY <1>0, <1>c, <1>p, <1>11 DEF SyncCapture
<1>12. CASE SyncFsync(t)
  BY <1>0, <1>c, <1>p, <1>12 DEF SyncFsync
<1>13. CASE SyncThrows(t)
  BY <1>0, <1>c, <1>p, <1>13 DEF SyncThrows
<1>14. CASE LeaderPublish(t)
  BY <1>0, <1>c, <1>p, <1>14 DEF LeaderPublish
<1>15. CASE SyncReturn(t)
  BY <1>0, <1>c, <1>p, <1>15 DEF SyncReturn
<1>16. CASE ApplyThrows(t)
  BY <1>0, <1>c, <1>p, <1>16 DEF ApplyThrows
<1>17. CASE Finish(t)
  BY <1>0, <1>c, <1>p, <1>17 DEF Finish
<1>18. CASE CkptLock(t)
  BY <1>0, <1>c, <1>p, <1>18 DEF CkptLock
<1>19. CASE CkptQuiet(t)
  BY <1>0, <1>c, <1>p, <1>19 DEF CkptQuiet
<1>20. CASE CkptWait(t)
  BY <1>0, <1>c, <1>p, <1>20 DEF CkptWait
<1>21. CASE CkptSave(t)
  BY <1>0, <1>c, <1>p, <1>21 DEF CkptSave
<1>22. CASE CkptSaveThrows(t)
  BY <1>0, <1>c, <1>p, <1>22 DEF CkptSaveThrows
<1>23. CASE CkptDirSync(t)
  BY <1>0, <1>c, <1>p, <1>23 DEF CkptDirSync
<1>24. CASE CkptMark(t)
  BY <1>0, <1>c, <1>p, <1>24 DEF CkptMark
<1>25. CASE CkptMarkThrows(t)
  BY <1>0, <1>c, <1>p, <1>25 DEF CkptMarkThrows, SkipLsn
<1>26. CASE CkptTruncate(t)
  BY <1>0, <1>c, <1>p, <1>26 DEF CkptTruncate
<1>27. CASE CkptRelease(t)
  BY <1>0, <1>c, <1>p, <1>27 DEF CkptRelease
<1> QED
  BY <1>1, <1>2, <1>3, <1>4, <1>5, <1>6, <1>7, <1>8, <1>9, <1>10, <1>11, <1>12, <1>13, <1>14, <1>15, <1>16, <1>17, <1>18, <1>19, <1>20, <1>21, <1>22, <1>23, <1>24, <1>25, <1>26, <1>27
     DEF Begin, Work, Prefix, GroupCommit, MaybeFlush, WalSync, ApplyOp, Checkpoint

(* A call on a live id begins while no other mutation of the id is under way. *)
LEMMA BeginPends ==
    ASSUME TypeOK, SafetyInv, IdsInv, ReplayInv, PendingInv, NEW t \in Threads, BeginOnLiveId(t)
    PROVE  PendingInv'
<1>0. /\ pc \in [Threads -> Pcs] /\ op \in [Threads -> Call] /\ pc[t] = "idle" /\ mode = "up"
  BY DEF TypeOK, BeginOnLiveId
<1>1. PICK e \in DOMAIN db :
         /\ SerialisedIds => ~Busy(t, e)
         /\ \E call \in CallsOn(e) : BeginMutation(t, call)
  BY DEF BeginOnLiveId
<1>2. PICK call \in CallsOn(e) : BeginMutation(t, call)
  BY <1>1
<1>3. /\ call.ext = e /\ pc' = [pc EXCEPT ![t] = "prefix"] /\ op' = [op EXCEPT ![t] = call]
      /\ UNCHANGED <<hist, mode, db, nextExt, applied, lsn, via>>
  BY <1>2 DEF CallsOn, Record
<1>4. e < nextExt
  BY <1>0, LiveIdsAreMinted
<1>5. \A u \in Threads : Pending(u)' <=> Pending(u)
  BY <1>0, <1>3 DEF Pending
<1>6. ~Pending(t)
  BY <1>0 DEF Pending
<1>7. \A u \in Threads : Mutating(u)' => u = t \/ (Mutating(u) /\ op'[u] = op[u])
  BY <1>0, <1>3 DEF Mutating, Pending
<1>8. \A u \in Threads \ {t} : SerialisedIds /\ Mutating(u) => op[u].ext # e
  BY <1>1 DEF Busy, Mutating, Pending
<1>9. op'[t] = call /\ \A u \in Threads \ {t} : op'[u] = op[u]
  BY <1>0, <1>3
<1>10. \A u \in Threads : Mutating(u)' => op'[u].ext < nextExt'
  BY <1>3, <1>4, <1>7, <1>9 DEF PendingInv
<1>11. SerialisedIds => \A u, v \in Threads :
          (Mutating(u)' /\ Mutating(v)' /\ op'[u].ext = op'[v].ext) => u = v
  BY <1>3, <1>7, <1>8, <1>9 DEF PendingInv
<1>12. \A u \in Threads : Pending(u)' => Pending(u) /\ op'[u] = op[u] /\ lsn'[u] = lsn[u]
  BY <1>3, <1>5, <1>6, <1>9
<1> QED BY <1>0, <1>3, <1>10, <1>11, <1>12 DEF PendingInv, Passed

(* The thread that logs a record takes it in hand. *)
LEMMA LogRecordPends ==
    ASSUME TypeOK, SafetyInv, PendingInv, NEW t \in Threads, NEW r, Logs(t, r),
           r.type \in Mutations, nextExt' \in Nat, nextExt <= nextExt', r.ext < nextExt',
           r.ext = nextExt \/ (Mutating(t) /\ op[t].ext = r.ext)
    PROVE  PendingInv'
<1> DEFINE n == Len(hist) + 1
<1>0. /\ pc \in [Threads -> Pcs] /\ op \in [Threads -> Call] /\ lsn \in [Threads -> Nat] /\ nextExt \in Nat
  BY DEF TypeOK
<1>1. /\ pc[t] = "prefix" /\ mode = "up" /\ nextLsn = Len(hist) + 1 /\ hist' = Append(hist, r)
      /\ pc' = [pc EXCEPT ![t] = IF Policy = "PerOpSync" THEN "commit" ELSE "apply"]
      /\ op' = [op EXCEPT ![t] = r] /\ lsn' = [lsn EXCEPT ![t] = nextLsn]
      /\ UNCHANGED <<mode, db, applied, via>>
  BY DEF Logs, LogRecord, SafetyInv, Exclusion, HistoryEnds
<1>2. /\ DOMAIN hist = 1..Len(hist) /\ DOMAIN hist' = 1..(Len(hist) + 1) /\ Len(hist) \in Nat
      /\ \A i \in 1..Len(hist) : hist'[i] = hist[i]
      /\ hist'[n] = r
  BY <1>1, AppendedLog DEF SafetyInv, LsnTypes
<1>3. Pending(t)' /\ ~Pending(t) /\ \A u \in Threads \ {t} : Pending(u)' <=> Pending(u)
  BY <1>0, <1>1 DEF Pending
<1>4. op'[t] = r /\ lsn'[t] = n /\ \A u \in Threads \ {t} : op'[u] = op[u] /\ lsn'[u] = lsn[u]
  BY <1>0, <1>1
<1>5. \A u \in Threads \ {t} : Mutating(u)' <=> Mutating(u)
  BY <1>0, <1>1, <1>3, <1>4 DEF Mutating
<1>6. \A u \in Threads : op[u].ext \in Nat
  BY <1>0 DEF Call
<1>7. \A u \in Threads \ {t} : Mutating(u)' => op'[u].ext < nextExt /\ (SerialisedIds => op'[u].ext # r.ext)
  BY <1>4, <1>5, <1>6 DEF PendingInv
<1> HIDE DEF n
<1>8. \A u \in Threads \ {t} : Pending(u)' => /\ lsn'[u] \in DOMAIN hist \ applied
                                              /\ hist[lsn'[u]] = op'[u] /\ op'[u].type \in Mutations
  BY <1>3, <1>4 DEF PendingInv
<1>9. applied' \subseteq DOMAIN hist /\ n \notin DOMAIN hist /\ n \in DOMAIN hist' /\ DOMAIN hist \subseteq DOMAIN hist'
  BY <1>1, <1>2 DEF PendingInv, n
<1>10. \A u \in Threads : Mutating(u)' => op'[u].ext < nextExt'
  BY <1>0, <1>4, <1>6, <1>7
<1>11. \A u \in Threads : Pending(u)' => /\ lsn'[u] \in DOMAIN hist' \ applied'
                                         /\ hist'[lsn'[u]] = op'[u] /\ op'[u].type \in Mutations
  BY <1>1, <1>2, <1>3, <1>4, <1>8, <1>9
<1>12. \A u, v \in Threads : (Pending(u)' /\ Pending(v)' /\ lsn'[u] = lsn'[v]) => u = v
  BY <1>3, <1>4, <1>8, <1>9 DEF PendingInv
<1>13. SerialisedIds => \A u, v \in Threads :
          (Mutating(u)' /\ Mutating(v)' /\ op'[u].ext = op'[v].ext) => u = v
  BY <1>4, <1>5, <1>7 DEF PendingInv
<1>14. SerialisedIds => \A u \in Threads, m \in applied' :
          (Pending(u)' /\ m > lsn'[u]) => hist'[m].ext # op'[u].ext \/ Passed(hist'[m])
  <2> SUFFICES ASSUME SerialisedIds, NEW u \in Threads, NEW m \in applied', Pending(u)', m > lsn'[u]
      PROVE hist'[m].ext # op'[u].ext \/ Passed(hist'[m])
    OBVIOUS
  <2>1. m \in DOMAIN hist /\ hist'[m] = hist[m] /\ m \in applied
    BY <1>1, <1>2, <1>9
  <2>2. u # t
    BY <1>2, <1>4, <2>1 DEF n
  <2> QED BY <1>3, <1>4, <2>1, <2>2 DEF PendingInv, Passed
<1> QED BY <1>1, <1>9, <1>10, <1>11, <1>12, <1>13, <1>14 DEF PendingInv

(* The serialised prefix (durable_vdb.cpp:159-279). *)
LEMMA PrefixPends ==
    ASSUME TypeOK, SafetyInv, IdsInv, PendingInv, NEW t \in Threads,
           PrefixInsert(t) \/ PrefixGiven(t) \/ PrefixUpdateVec(t)
    PROVE  PendingInv'
<1>0. nextExt \in Nat
  BY DEF TypeOK
<1>1. CASE PrefixInsert(t)
  <2> DEFINE r == Record("Insert", nextExt, op[t].row)
  <2>1. r.type \in Mutations /\ r.ext = nextExt
    BY DEF Record, Mutations
  <2> HIDE DEF r
  <2>2. Logs(t, r) /\ nextExt' = nextExt + 1
    BY <1>1 DEF PrefixInsert, Logs, r
  <2> QED BY <1>0, <2>1, <2>2, LogRecordPends
<1>2. CASE PrefixGiven(t) \/ PrefixUpdateVec(t)
  <2>0. Mutating(t)
    BY <1>2 DEF PrefixGiven, PrefixUpdateVec, Mutating, Mutations
  <2>1. op[t].ext < nextExt
    BY <2>0 DEF PendingInv
  <2>2. nextExt' = nextExt
    BY <1>2 DEF PrefixGiven, PrefixUpdateVec
  <2>3. PICK r : Logs(t, r) /\ r.type \in Mutations /\ r.ext = op[t].ext
    <3>1. CASE PrefixGiven(t)
      BY <3>1 DEF PrefixGiven, Logs, Mutations
    <3>2. CASE PrefixUpdateVec(t)
      BY <3>2 DEF PrefixUpdateVec, Logs, Mutations, Record
    <3> QED BY <1>2, <3>1, <3>2
  <2> QED BY <1>0, <2>0, <2>1, <2>2, <2>3, LogRecordPends
<1> QED BY <1>1, <1>2

(* The effect of a record becomes visible after those of later records of other ids at most. *)
LEMMA ApplyPends ==
    ASSUME TypeOK, SafetyInv, PendingInv, NEW t \in Threads, Apply(t)
    PROVE  PendingInv'
<1>0. /\ pc \in [Threads -> Pcs] /\ lsn \in [Threads -> Nat]
  BY DEF TypeOK
<1>1. /\ pc[t] = "apply" /\ mode = "up"
      /\ pc' = [pc EXCEPT ![t] = IF Policy = "Periodic" THEN "flush" ELSE "finish"]
      /\ applied' = applied \cup {lsn[t]}
      /\ UNCHANGED <<hist, mode, op, lsn, via, nextExt>>
  BY DEF Apply, SafetyInv, Exclusion
<1>2. Pending(t) /\ ~Pending(t)' /\ ~Mutating(t)' /\ \A u \in Threads \ {t} : Pending(u)' <=> Pending(u)
  BY <1>0, <1>1 DEF Pending, Mutating
<1>3. Mutating(t) /\ \A u \in Threads : Pending(u) => Mutating(u)
  BY <1>2 DEF Mutating, PendingInv
<1>4. \A u \in Threads \ {t} : Mutating(u)' <=> Mutating(u)
  BY <1>0, <1>1, <1>2 DEF Mutating
<1>5. \A u \in Threads : Pending(u)' => u # t /\ Pending(u)
  BY <1>2
<1>6. \A u \in Threads : Mutating(u)' => u # t /\ Mutating(u)
  BY <1>2, <1>4
<1>7. lsn[t] \in DOMAIN hist /\ hist[lsn[t]] = op[t]
  BY <1>2 DEF PendingInv
<1>8. SerialisedIds => \A u \in Threads, m \in applied' :
          (Pending(u)' /\ m > lsn'[u]) => hist'[m].ext # op'[u].ext \/ Passed(hist'[m])
  <2> SUFFICES ASSUME SerialisedIds, NEW u \in Threads, NEW m \in applied', Pending(u)', m > lsn[u]
      PROVE hist[m].ext # op[u].ext \/ Passed(hist[m])
    BY <1>1 DEF Passed
  <2>1. CASE m = lsn[t]
    BY <1>3, <1>5, <1>7, <2>1 DEF PendingInv
  <2>2. CASE m \in applied
    BY <1>5, <2>2 DEF PendingInv
  <2> QED BY <1>1, <2>1, <2>2
<1>9. \A u \in Threads : Pending(u)' => /\ lsn'[u] \in DOMAIN hist' \ applied'
                                        /\ hist'[lsn'[u]] = op'[u] /\ op'[u].type \in Mutations
  BY <1>1, <1>2, <1>5 DEF PendingInv
<1>10. applied' \subseteq DOMAIN hist'
  BY <1>1, <1>7 DEF PendingInv
<1>11. \A u, v \in Threads : (Pending(u)' /\ Pending(v)' /\ lsn'[u] = lsn'[v]) => u = v
  BY <1>1, <1>5 DEF PendingInv
<1>12. /\ \A u \in Threads : Mutating(u)' => op'[u].ext < nextExt'
       /\ SerialisedIds => \A u, v \in Threads :
             (Mutating(u)' /\ Mutating(v)' /\ op'[u].ext = op'[v].ext) => u = v
  BY <1>1, <1>6 DEF PendingInv
<1> QED BY <1>1, <1>8, <1>9, <1>10, <1>11, <1>12 DEF PendingInv

(* Nothing is in flight in a process that ended, nor in one that has just started. *)
LEMMA StopPends ==
    ASSUME TypeOK, SafetyInv, PendingInv, Close \/ ProcessCrash \/ PowerLoss
    PROVE  PendingInv'
<1>1. /\ pc' = [t \in Threads |-> "idle"] /\ mode' = "down" /\ applied' = {} /\ db' = EmptyDb
  BY DEF Close, ProcessCrash, PowerLoss, LoseMemory
<1>2. \A t \in Threads : ~Pending(t)' /\ ~Mutating(t)'
  BY <1>1 DEF Pending, Mutating
<1> QED BY <1>1, <1>2 DEF PendingInv

LEMMA RestartPends ==
    ASSUME TypeOK, SafetyInv, PendingInv, Restart
    PROVE  PendingInv'
<1>1. /\ mode # "up" /\ UNCHANGED <<hist, pc>> /\ \A t \in Threads : pc[t] = "idle"
      /\ mode' # "up" => UNCHANGED <<applied, db>>
  BY DEF Restart, Recover, RecoverThrows, Reopen, SafetyInv, Exclusion
<1>2. \A t \in Threads : ~Pending(t)' /\ ~Mutating(t)'
  BY <1>1 DEF Pending, Mutating
<1>3. applied' \subseteq DOMAIN hist'
  <2>1. CASE Recover
    <3>1. DOMAIN hist = 1..Len(hist) /\ nextLsn' = Len(hist) + 1 /\ Len(hist) \in Nat
      BY <2>1, RecoverStep, AppendedLog, <1>1 DEF Recover, SafetyInv, HistoryEnds, LsnTypes
    <3> QED BY <1>1, <2>1, <3>1 DEF Recover
  <2>2. CASE RecoverThrows \/ Reopen
    BY <2>2 DEF RecoverThrows, Reopen, PendingInv
  <2> QED BY <2>1, <2>2 DEF Restart
<1> QED BY <1>1, <1>2, <1>3 DEF PendingInv

(* Every step keeps PendingInv. *)
LEMMA NextPends ==
    ASSUME TypeOK, SafetyInv, IdsInv, ReplayInv, PendingInv, [Next]_vars
    PROVE  PendingInv'
<1>1. ASSUME NEW t \in Threads, Begin(t) \/ Work(t) PROVE PendingInv'
  BY <1>1, ThreadPendingKept, BeginPends, PrefixPends, ApplyPends
<1>2. CASE UNCHANGED vars
  BY <1>2 DEF vars, PendingInv, Pending, Mutating, Passed
<1> QED BY <1>1, <1>2, StopPends, RestartPends DEF Next

-----------------------------------------------------------------------------
(* The store is the log replayed. *)

(* What apply_ passes over changes no store. *)
LEMMA PassedIsNoOp ==
    ASSUME NEW r, Passed(r)
    PROVE  IsNoOp(r)
  BY DEF Passed, IsNoOp

(* Each step of a thread keeps ReplayInv. *)
LEMMA ThreadReplays ==
    ASSUME SerialisedIds, TypeOK, SafetyInv, SnapshotSeesEveryLoggedOp, PendingInv, ReplayInv,
           NEW t \in Threads, Begin(t) \/ Work(t)
    PROVE  ReplayInv'
<1> USE DEF SafetyInv, LsnTypes
<1>0. /\ DOMAIN hist = 1..Len(hist) /\ Len(hist) \in Nat /\ mode = "up"
      /\ snap.lsn \in Nat /\ snap.lsn <= Len(hist) /\ snapStable.lsn \in Nat /\ snapStable.lsn <= Len(hist)
  BY AppendedLog, UpWhileWorking DEF HistoryEnds
<1>1. /\ db = Replay(hist, EmptyDb, applied)
      /\ snap.db = Replay(hist, EmptyDb, 1..snap.lsn)
      /\ snapStable.db = Replay(hist, EmptyDb, 1..snapStable.lsn)
  BY <1>0 DEF ReplayInv, StoreIsReplayOfLog
<1>2. ASSUME UNCHANGED <<hist, db, applied>>, snap' \in {snap, snapStable}, snapStable' \in {snap, snapStable}
      PROVE  ReplayInv'
  BY <1>1, <1>2 DEF ReplayInv, StoreIsReplayOfLog
<1>3. CASE Quiet(t)
  BY <1>2, <1>3, QuietIsQuiet
<1>4. CASE SyncFsync(t) \/ SyncReturn(t) \/ Finish(t)
  BY <1>2, <1>4 DEF SyncFsync, SyncReturn, Finish
<1>5. CASE CkptDirSync(t) \/ CkptTruncate(t) \/ CkptRelease(t)
  BY <1>2, <1>5 DEF CkptDirSync, CkptTruncate, CkptRelease
<1>6. CASE CkptSave(t)
  <2>1. /\ UNCHANGED <<hist, db, applied, snapStable>>
        /\ snap'.lsn = ckptLsn /\ snap'.db = db
    BY <1>6 DEF CkptSave
  <2>2. ckptLsn = Len(hist) /\ \A n \in 1..Len(hist) : n \in applied \/ IsNoOp(hist[n])
    BY <1>6 DEF CkptSave, SnapshotSeesEveryLoggedOp, IsNoOp
  <2>3. db = Replay(hist, EmptyDb, 1..Len(hist))
    BY <1>0, <1>1, <2>2, ReplayWithoutNoOps
  <2> QED BY <1>1, <2>1, <2>2, <2>3 DEF ReplayInv, StoreIsReplayOfLog
<1>7. ASSUME NEW r, hist' = Append(hist, r), UNCHANGED <<db, applied, snap, snapStable>>
      PROVE  ReplayInv'
  <2>1. /\ Len(hist') = Len(hist) + 1 /\ \A n \in 1..Len(hist) : hist'[n] = hist[n]
    BY <1>7, AppendedLog, AppendToLog
  <2>2. ASSUME NEW S, S \subseteq 1..Len(hist)
        PROVE  Replay(hist', EmptyDb, S) = Replay(hist, EmptyDb, S)
    <3>1. PICK k \in Nat : k = Len(hist)
      BY <1>0
    <3>2. SameUpTo(hist', hist, S, k) /\ Len(hist') \in Nat
      BY <2>1, <2>2, <3>1 DEF SameUpTo
    <3> QED BY <1>0, <3>2, ReplayOfPrefix
  <2>3. applied \subseteq 1..Len(hist)
    BY <1>0 DEF PendingInv
  <2>4. 1..snap.lsn \subseteq 1..Len(hist) /\ 1..snapStable.lsn \subseteq 1..Len(hist)
    BY <1>0
  <2> QED BY <1>1, <1>7, <2>2, <2>3, <2>4 DEF ReplayInv, StoreIsReplayOfLog
<1>8. CASE PrefixInsert(t) \/ PrefixGiven(t) \/ PrefixUpdateVec(t)
  BY <1>7, <1>8 DEF PrefixInsert, PrefixGiven, PrefixUpdateVec, LogRecord
<1>9. CASE PrefixThrows(t) \/ CkptMarkThrows(t) \/ CkptMark(t)
  BY <1>7, <1>9 DEF PrefixThrows, CkptMarkThrows, CkptMark, SkipLsn
<1>10. CASE Apply(t)
  <2> DEFINE n == lsn[t]
  <2>1. /\ db' = ApplyTo(db, op[t]) /\ applied' = applied \cup {n} /\ pc[t] = "apply"
        /\ UNCHANGED <<hist, snap, snapStable>>
    BY <1>10 DEF Apply
  <2>2. Pending(t)
    BY <2>1 DEF Pending
  <2>3. n \in 1..Len(hist) /\ n \notin applied /\ hist[n] = op[t]
    BY <1>0, <2>2 DEF PendingInv
  <2>4. OthersBehind(hist, applied, n)
    BY <2>2, <2>3, PassedIsNoOp DEF PendingInv, OthersBehind
  <2> HIDE DEF n
  <2>5. Replay(hist, EmptyDb, applied \cup {n}) = ApplyTo(Replay(hist, EmptyDb, applied), hist[n])
    <3> HIDE DEF SafetyInv, LsnTypes
    <3>1. Len(hist) \in Nat /\ n \in 1..Len(hist) /\ n \notin applied
      BY <1>0, <2>3
    <3> QED BY <2>4, <3>1, ReplayOutOfOrder
  <2> QED BY <1>1, <2>1, <2>3, <2>5 DEF ReplayInv, StoreIsReplayOfLog
<1> QED BY <1>3, <1>4, <1>5, <1>6, <1>8, <1>9, <1>10, LoudSteps

(* A snapshot still is the replay of the log it covers when a crash cuts the log behind it. *)
LEMMA StopReplays ==
    ASSUME TypeOK, SafetyInv, ReplayInv, Close \/ ProcessCrash \/ PowerLoss, SafetyInv'
    PROVE  ReplayInv'
<1>1. /\ hist' \in Seq(WalRecord \cup {NoCall})
      /\ DOMAIN hist' \subseteq DOMAIN hist /\ \A n \in DOMAIN hist' : hist'[n] = hist[n]
      /\ snap' \in {snap, snapStable} /\ snapStable' \in {snap, snapStable} /\ mode' = "down"
  BY StopKeepsDisk
<1>2. /\ DOMAIN hist = 1..Len(hist) /\ Len(hist) \in Nat /\ DOMAIN hist' = 1..Len(hist') /\ Len(hist') \in Nat
  BY <1>1, LenProperties DEF TypeOK
<1>3. Len(hist') <= Len(hist)
  BY <1>1, <1>2
<1>4. ASSUME NEW s \in {snap', snapStable'} PROVE s.db = Replay(hist', EmptyDb, 1..s.lsn)
  <2>1. s.lsn \in Nat /\ s.lsn <= Len(hist')
    BY <1>2, <1>4 DEF SafetyInv, HistoryEnds, LsnTypes
  <2>2. s.db = Replay(hist, EmptyDb, 1..s.lsn)
    BY <1>1 DEF ReplayInv
  <2>3. SameUpTo(hist', hist, 1..s.lsn, s.lsn)
    BY <1>1, <1>2, <1>3, <2>1 DEF SameUpTo
  <2>4. Replay(hist', EmptyDb, 1..s.lsn) = Replay(hist, EmptyDb, 1..s.lsn)
    BY <1>2, <2>1, <2>3, ReplayOfPrefix
  <2> QED BY <2>2, <2>4
<1> QED BY <1>1, <1>4 DEF ReplayInv, StoreIsReplayOfLog

(* recover_ makes the store of the whole log from a snapshot and what the log holds past it. *)
LEMMA RecoverReplays ==
    ASSUME TypeOK, SafetyInv, HistoryKept, ReplayInv, Recover
    PROVE  ReplayInv'
<1> DEFINE pending == {n \in wal : n > snap.lsn}
<1>1. /\ db' = Replay(hist, snap.db, pending) /\ applied' = 1..(nextLsn' - 1) /\ mode' = "up"
      /\ UNCHANGED <<hist, snap, snapStable>>
  BY DEF Recover
<1>2. /\ DOMAIN hist = 1..Len(hist) /\ Len(hist) \in Nat /\ snap.lsn \in 0..Len(hist)
      /\ snapStable.lsn \in Nat /\ snapStable.lsn <= snap.lsn /\ wal \subseteq 1..Len(hist)
  BY AppendedLog DEF SafetyInv, LsnTypes, HistoryEnds
<1>3. nextLsn' - 1 = Len(hist)
  BY <1>1, <1>2, RecoverStep DEF SafetyInv, HistoryEnds
<1>4. pending \subseteq (snap.lsn + 1)..Len(hist)
  <2> SUFFICES ASSUME NEW n \in wal, n > snap.lsn PROVE n \in (snap.lsn + 1)..Len(hist)
    OBVIOUS
  <2>1. n \in 1..Len(hist) /\ snap.lsn \in Nat
    BY <1>2
  <2> QED BY <1>2, <2>1
<1>5. \A n \in (snap.lsn + 1)..Len(hist) : n \in pending \/ IsNoOp(hist[n])
  <2> SUFFICES ASSUME NEW n \in (snap.lsn + 1)..Len(hist), ~Passed(hist[n]) PROVE n \in pending
    BY PassedIsNoOp
  <2>1. n \in 1..Len(hist) /\ n > snap.lsn /\ ~(n <= snapStable.lsn)
    BY <1>2
  <2> QED BY <1>2, <2>1 DEF HistoryKept
<1>6. snap.db = Replay(hist, EmptyDb, 1..snap.lsn)
  BY DEF ReplayInv
<1> HIDE DEF pending
<1>7. Replay(hist, Replay(hist, EmptyDb, 1..snap.lsn), pending) = Replay(hist, EmptyDb, 1..Len(hist))
  BY <1>2, <1>4, <1>5, ReplayFromSnapshot
<1>8. db' = Replay(hist', EmptyDb, applied')
  BY <1>1, <1>3, <1>6, <1>7 DEF pending
<1> QED BY <1>1, <1>8 DEF ReplayInv, StoreIsReplayOfLog

(* Every step keeps ReplayInv. *)
LEMMA NextReplays ==
    ASSUME SerialisedIds, TypeOK, SafetyInv, HistoryKept, SnapshotSeesEveryLoggedOp, PendingInv, ReplayInv,
           [Next]_vars, SafetyInv'
    PROVE  ReplayInv'
<1>1. ASSUME NEW t \in Threads, Begin(t) \/ Work(t) PROVE ReplayInv'
  BY <1>1, ThreadReplays
<1>2. CASE RecoverThrows \/ Reopen
  BY <1>2 DEF RecoverThrows, Reopen, ReplayInv, StoreIsReplayOfLog
<1>3. CASE UNCHANGED vars
  BY <1>3 DEF vars, ReplayInv, StoreIsReplayOfLog
<1> QED BY <1>1, <1>2, <1>3, StopReplays, RecoverReplays DEF Next, Restart

(* The store is the log replayed: writers apply their records in any order, in any incarnation,
   from any snapshot, and what readers see is the applied records in lsn order, provided callers
   keep to the rule of vdb.h:58-59 (one mutation of an id at a time) and the directory fsync of a
   checkpoint works.                                                                            *)
THEOREM StoreIsTheLogReplayed ==
    ASSUME SerialisedIds, "dirSyncError" \notin Faults
    PROVE  Spec => [](PendingInv /\ ReplayInv /\ StoreIsReplayOfLog)
<1>1. Init => IdsInv /\ PendingInv /\ ReplayInv
  <2> SUFFICES ASSUME Init PROVE IdsInv /\ PendingInv /\ ReplayInv
    OBVIOUS
  <2>1. IdsInv
    BY DEF Init, IdsInv, IdsFollowLogOrder
  <2>2. PendingInv
    BY DEF Init, PendingInv, Pending, Mutating
  <2>3. Len(<< >>) = 0 /\ 0 \in Nat /\ 0 \in 0..0 /\ 1..0 = {}
    OBVIOUS
  <2>4. Replay(<< >>, EmptyDb, {}) = EmptyDb
    <3>1. PICK f : IsRun(f, << >>, EmptyDb, {}, Len(<< >>)) /\ Replay(<< >>, EmptyDb, {}) = f[Len(<< >>)]
      BY <2>3, ReplayIsRun
    <3>2. f[0] = EmptyDb
      BY <2>3, <3>1 DEF IsRun
    <3> QED BY <2>3, <3>1, <3>2
  <2> QED BY <2>1, <2>2, <2>3, <2>4 DEF Init, NoSnapshot, ReplayInv, StoreIsReplayOfLog
<1>2. TypeOK /\ SafetyInv /\ SafetyInv' /\ QuiesceInv /\ HistoryKept /\ (IdsInv /\ PendingInv /\ ReplayInv)
        /\ [Next]_vars => (IdsInv /\ PendingInv /\ ReplayInv)'
  BY NextKeepsIds, NextPends, NextReplays DEF QuiesceInv
<1>3. ReplayInv => StoreIsReplayOfLog
  BY DEF ReplayInv
<1> QED BY <1>1, <1>2, <1>3, Safety, TypesHold, LogIsKept, QuiesceInvAlways, PTL DEF Spec

-----------------------------------------------------------------------------
(* The store uses its log by the contract of LogFile. *)

(* The records at the end of the log are past what is stable. *)
LEMMA StableInHistory ==
    ASSUME SafetyInv, StableKnown
    PROVE  /\ stable \in Nat /\ Len(hist) \in Nat /\ stable <= Len(hist) /\ wal \subseteq 1..Len(hist)
           /\ snapStable.lsn \in Nat /\ snapStable.lsn <= snap.lsn /\ snap.lsn \in Nat /\ snap.lsn <= Len(hist)
  BY AppendedLog DEF SafetyInv, LsnTypes, HistoryEnds, StableKnown

(* The part of a set of lsns up to a bound is a front of it, and grows with the bound. *)
LEMMA Fronts ==
    ASSUME NEW W, W \subseteq Nat, NEW a \in Nat
    PROVE  /\ \A n \in {m \in W : m <= a} : Log!UpTo(n, W) \subseteq {m \in W : m <= a}
           /\ \A b \in Nat : a <= b => {m \in W : m <= a} \subseteq {m \in W : m <= b}
<1>1. ASSUME NEW n \in W, n <= a, NEW x \in W, x <= n PROVE x <= a
  <2>1. n \in Nat /\ x \in Nat
    OBVIOUS
  <2> QED BY <1>1, <2>1
<1>2. ASSUME NEW b \in Nat, a <= b, NEW x \in W, x <= a PROVE x <= b
  <2>1. x \in Nat
    OBVIOUS
  <2> QED BY <1>2, <2>1
<1> QED BY <1>1, <1>2 DEF Log!UpTo

(* Each step of a thread is a step of LogFile, or touches nothing of it. *)
LEMMA ThreadUsesLog ==
    ASSUME SafetyInv, KeptInv, StableKnown, "dirSyncError" \notin Faults,
           NEW t \in Threads, Begin(t) \/ Work(t)
    PROVE  [Log!Next]_(Log!vars)
<1> USE DEF Log!vars
<1>0. /\ mode = "up" /\ stable \in Nat /\ Len(hist) \in Nat /\ stable <= Len(hist) /\ wal \subseteq 1..Len(hist)
      /\ snapStable.lsn \in Nat /\ snapStable.lsn <= snap.lsn /\ snap.lsn \in Nat
  BY StableInHistory, UpWhileWorking
<1>1. ASSUME UNCHANGED <<mode, wal, stable, promised, highestLsn, snapStable>> PROVE [Log!Next]_(Log!vars)
  BY <1>1
<1>2. CASE Quiet(t)
  BY <1>1, <1>2, QuietIsQuiet
<1>3. CASE PrefixThrows(t) \/ CkptMarkThrows(t) \/ Apply(t) \/ CkptSave(t)
  BY <1>1, <1>3 DEF PrefixThrows, CkptMarkThrows, SkipLsn, Apply, CkptSave
<1>4. CASE PrefixInsert(t) \/ PrefixGiven(t) \/ PrefixUpdateVec(t) \/ CkptMark(t)
  <2>1. /\ wal' = wal \cup {nextLsn} /\ highestLsn' = nextLsn
        /\ UNCHANGED <<mode, stable, promised, snapStable>>
    BY <1>4 DEF PrefixInsert, PrefixGiven, PrefixUpdateVec, CkptMark, LogRecord
  <2>2. nextLsn = Len(hist) + 1 /\ highestLsn \in wal \cup {0}
    BY <1>0 DEF SafetyInv, HistoryEnds
  <2>3. nextLsn \notin wal /\ highestLsn < nextLsn /\ ~(nextLsn <= stable)
    BY <1>0, <2>2
  <2>4. {n \in wal' : n <= stable'} = {n \in wal : n <= stable}
    BY <2>1, <2>3
  <2>5. Log!AppendRecord
    BY <1>0, <2>1, <2>3, <2>4 DEF Log!AppendRecord
  <2> QED BY <2>5 DEF Log!Next
<1>5. CASE SyncFsync(t)
  <2>1. /\ stable' = Larger(stable, target[t]) /\ UNCHANGED <<mode, wal, promised, highestLsn, snapStable>>
    BY <1>5 DEF SyncFsync
  <2>2. target[t] \in Nat /\ \A n \in wal : n \in Nat
    BY <1>0 DEF SafetyInv, LsnTypes
  <2>3. stable' \in Nat /\ stable <= stable'
    BY <1>0, <2>1, <2>2
  <2>4. {n \in wal : n <= stable} \subseteq {n \in wal : n <= stable'}
    BY <1>0, <2>2, <2>3, Fronts
  <2>5. \A n \in {m \in wal : m <= stable'} : Log!UpTo(n, wal) \subseteq {m \in wal : m <= stable'}
    BY <2>2, <2>3, Fronts
  <2>6. Log!Sync
    BY <1>0, <2>1, <2>4, <2>5 DEF Log!Sync
  <2> QED BY <2>6 DEF Log!Next
<1>6. ASSUME NEW S, promised' = promised \cup S, UNCHANGED <<mode, wal, stable, highestLsn, snapStable>>,
             \A n \in S : RecordSafe(n)
      PROVE  [Log!Next]_(Log!vars)
  <2>1. \A n \in wal : n \in Nat
    BY <1>0
  <2>2. \A n \in {m \in wal : m <= stable} : Log!UpTo(n, wal) \subseteq {m \in wal : m <= stable}
    BY <1>0, <2>1, Fronts
  <2>3. \A n \in promised' \ promised : n \in {m \in wal : m <= stable} \/ n <= snapStable.lsn
    BY <1>6 DEF RecordSafe
  <2>4. Log!Sync
    BY <1>0, <1>6, <2>2, <2>3 DEF Log!Sync
  <2> QED BY <2>4 DEF Log!Next
<1>7. CASE SyncReturn(t)
  <2>1. target[t] <= stable /\ target[t] \in Nat
    BY <1>7 DEF SyncReturn, KeptInv, SafetyInv, LsnTypes
  <2>2. \A n \in {m \in wal : m <= target[t]} : RecordSafe(n)
    BY <1>0, <2>1 DEF RecordSafe
  <2> QED BY <1>6, <1>7, <2>2 DEF SyncReturn
<1>8. CASE Finish(t)
  <2>1. Policy = "PerOpSync" => RecordSafe(lsn[t])
    BY <1>8 DEF Finish, SafetyInv, CommitsKnown, KeptInv
  <2>2. UNCHANGED <<mode, wal, stable, highestLsn, snapStable>>
    BY <1>8 DEF Finish
  <2>3. CASE Policy = "PerOpSync" /\ ~doCkpt[t]
    <3>1. promised' = promised \cup {lsn[t]}
      BY <1>8, <2>3 DEF Finish
    <3> QED BY <1>6, <2>1, <2>2, <2>3, <3>1
  <2>4. CASE ~(Policy = "PerOpSync" /\ ~doCkpt[t])
    <3>1. promised' = promised
      BY <1>8, <2>4 DEF Finish
    <3> QED BY <1>1, <2>2, <3>1
  <2> QED BY <2>3, <2>4
<1>9. CASE CkptRelease(t)
  <2>1. ckptLsn <= snapStable.lsn /\ ckptLsn \in Nat
    BY <1>9 DEF CkptRelease, KeptInv, SnapshotIsStable, SafetyInv, LsnTypes
  <2>2. \A n \in 1..ckptLsn : RecordSafe(n)
    BY <1>0, <2>1 DEF RecordSafe
  <2> QED BY <1>6, <1>9, <2>2 DEF CkptRelease
<1>10. CASE CkptDirSync(t)
  <2>1. snapStable' = snap /\ UNCHANGED <<mode, wal, stable, promised, highestLsn>>
    BY <1>10 DEF CkptDirSync
  <2>2. CASE snap.lsn = snapStable.lsn
    BY <2>1, <2>2
  <2>3. CASE snap.lsn > snapStable.lsn
    <3>1. Log!Cover
      BY <1>0, <2>1, <2>3 DEF Log!Cover
    <3> QED BY <3>1 DEF Log!Next
  <2> QED BY <1>0, <2>2, <2>3
<1>11. CASE CkptTruncate(t)
  <2>1. ckptLsn <= snapStable.lsn /\ ckptLsn \in Nat
    BY <1>11 DEF CkptTruncate, KeptInv, SnapshotIsStable, SafetyInv, LsnTypes
  <2>2. /\ wal' \subseteq wal /\ \A n \in wal \ wal' : n <= ckptLsn
        /\ UNCHANGED <<mode, stable, promised, highestLsn, snapStable>>
    BY <1>11 DEF CkptTruncate
  <2>3. \A n \in wal \ wal' : n <= snapStable.lsn
    BY <1>0, <2>1, <2>2
  <2>4. Log!Reclaim
    BY <1>0, <2>2, <2>3 DEF Log!Reclaim
  <2> QED BY <2>4 DEF Log!Next
<1> QED BY <1>2, <1>3, <1>4, <1>5, <1>7, <1>8, <1>9, <1>10, <1>11, LoudSteps

(* A process that ends loses no more of the log than LogFile allows. *)
LEMMA StopUsesLog ==
    ASSUME SafetyInv, StableKnown, Close \/ ProcessCrash \/ PowerLoss
    PROVE  Log!Stop
<1>0. /\ stable \in Nat /\ wal \subseteq Nat /\ highestLsn \in Nat
      /\ snapStable.lsn \in Nat /\ snapStable.lsn <= snap.lsn /\ snap.lsn \in Nat
  BY StableInHistory DEF SafetyInv, LsnTypes
<1>1. highestLsn' = 0 /\ mode' = "down" /\ promised' = promised
  BY DEF Close, ProcessCrash, PowerLoss, LoseMemory
<1>2. CASE Close \/ ProcessCrash
  <2>1. /\ stable' = Larger(stable, highestLsn) \/ stable' = stable
        /\ UNCHANGED <<wal, snapStable>>
    BY <1>2 DEF Close, ProcessCrash
  <2>2. stable' \in Nat /\ stable <= stable'
    BY <1>0, <2>1
  <2>3. {n \in wal : n <= stable} \subseteq {n \in wal : n <= stable'}
    BY <1>0, <2>2, Fronts
  <2>4. snapStable'.lsn >= snapStable.lsn
    BY <1>0, <2>1
  <2> QED BY <1>1, <2>1, <2>3, <2>4 DEF Log!Stop
<1>3. CASE PowerLoss
  <2>1. PICK cut \in {stable} \cup {n \in wal : n > stable}, s \in {snap, snapStable} :
             /\ wal' = {n \in wal : n <= cut} /\ stable' = cut
             /\ snap' = s /\ snapStable' = s
    BY <1>3 DEF PowerLoss
  <2>2. cut \in Nat /\ stable <= cut /\ s.lsn >= snapStable.lsn
    BY <1>0, <2>1
  <2>3. \A n \in wal : n \in Nat
    BY <1>0
  <2>4. /\ \A n \in {m \in wal : m <= stable} : n \in wal'
        /\ \A n \in wal, m \in wal : (n \in wal' /\ m < n) => m \in wal'
        /\ wal' \subseteq wal /\ {n \in wal' : n <= stable'} = wal'
    BY <1>0, <2>1, <2>2, <2>3
  <2>5. snapStable'.lsn >= snapStable.lsn
    BY <2>1, <2>2
  <2> QED BY <1>1, <2>4, <2>5 DEF Log!Stop
<1> QED BY <1>2, <1>3

(* Every step is a step of LogFile, or touches nothing of it. *)
LEMMA NextUsesLog ==
    ASSUME SafetyInv, KeptInv, StableKnown, "dirSyncError" \notin Faults, [Next]_vars
    PROVE  [Log!Next]_(Log!vars)
<1> USE DEF Log!vars
<1>1. ASSUME NEW t \in Threads, Begin(t) \/ Work(t) PROVE [Log!Next]_(Log!vars)
  BY <1>1, ThreadUsesLog
<1>2. CASE Close \/ ProcessCrash \/ PowerLoss
  BY <1>2, StopUsesLog DEF Log!Next
<1>3. CASE Recover
  <2>1. IsMax(highestLsn', {0} \cup wal) /\ mode = "down" /\ mode' = "up"
        /\ UNCHANGED <<wal, stable, promised, snapStable>>
    BY <1>3 DEF Recover
  <2>2. Log!Reopen
    BY <2>1 DEF Log!Reopen, IsMax
  <2> QED BY <2>2 DEF Log!Next
<1>4. CASE RecoverThrows \/ Reopen \/ UNCHANGED vars
  <2>1. (mode = "up") = (mode' = "up") /\ UNCHANGED <<wal, stable, promised, highestLsn, snapStable>>
    BY <1>4 DEF RecoverThrows, Reopen, vars
  <2> QED BY <2>1
<1> QED BY <1>1, <1>2, <1>3, <1>4 DEF Next, Restart

(* DurableVDB uses its log in no way but that of LogFile, which Wal keeps: records join at the
   end, promises are made of what is stable or covered, records are reclaimed only when a durable
   snapshot covers them, and a crash takes no stable record (durable_vdb.cpp, wal.h:14-39).     *)
THEOREM LogIsUsedByContract ==
    ASSUME "dirSyncError" \notin Faults
    PROVE  Spec => UsesLogFile
<1>1. Init => Log!Init
  BY DEF Init, Log!Init, NoSnapshot
<1>2. SafetyInv /\ (KeptInv /\ HistoryKept /\ StableKnown) /\ [Next]_vars => [Log!Next]_(Log!vars)
  BY NextUsesLog
<1> QED BY <1>1, <1>2, Safety, LogIsKept, PTL DEF Spec, UsesLogFile, Log!Spec

-----------------------------------------------------------------------------
(* The store keeps the promise of DurableStore. *)

(* DurableStore reads records as DurableVDB does. *)
LEMMA SameRecords ==
    /\ Store!WalRecord = WalRecord /\ Store!EmptyDb = EmptyDb
    /\ \A l, d, S : Store!Replay(l, d, S) = Replay(l, d, S)
<1>1. Store!WalRecord = WalRecord /\ Store!EmptyDb = EmptyDb
  BY DEF Store!WalRecord, WalRecord, Store!EmptyDb, EmptyDb, Store!NoRow, NoRow, Store!Row, Row,
         Store!RecordTypes, RecordTypes
<1>2. \A l, d, S : Store!Replay(l, d, S) = Replay(l, d, S)
  BY DEF Store!Replay, Replay, Store!ApplyTo, ApplyTo, Store!Put, Put
<1> QED BY <1>1, <1>2

(* A log that grew by one record, or lost a suffix, starts as it did. *)
LEMMA GrownLog ==
    ASSUME NEW R, NEW l \in Seq(R), NEW r \in R
    PROVE  /\ Append(l, r) \in Seq(R) /\ Len(Append(l, r)) = Len(l) + 1
           /\ SubSeq(Append(l, r), 1, Len(l)) = l
  OBVIOUS

LEMMA CutLogStarts ==
    ASSUME NEW R, NEW l \in Seq(R), NEW c \in Seq(R), Len(c) <= Len(l),
           \A n \in 1..Len(c) : c[n] = l[n]
    PROVE  c = SubSeq(l, 1, Len(c))
  OBVIOUS

(* Every step keeps NoLsnSkipped. *)
LEMMA NextSkipsNone ==
    ASSUME "ioError" \notin Faults, TypeOK, SafetyInv, NoLsnSkipped, [Next]_vars
    PROVE  NoLsnSkipped'
<1>1. ASSUME DOMAIN hist' \subseteq DOMAIN hist, \A n \in DOMAIN hist' : hist'[n] = hist[n]
      PROVE  NoLsnSkipped'
  BY <1>1 DEF NoLsnSkipped
<1>2. ASSUME NEW r, hist' = Append(hist, r), r.type # "None" PROVE NoLsnSkipped'
  <2>1. \A n \in DOMAIN hist' : (n \in DOMAIN hist /\ hist'[n] = hist[n]) \/ hist'[n] = r
    BY <1>2, AppendedLog DEF SafetyInv, LsnTypes
  <2> QED BY <1>2, <2>1 DEF NoLsnSkipped
<1>3. ASSUME NEW t \in Threads, Begin(t) \/ Work(t) PROVE NoLsnSkipped'
  <2>1. CASE Quiet(t)
    BY <1>1, <2>1, QuietIsQuiet
  <2>2. CASE PrefixInsert(t)
    <3>1. Record("Insert", nextExt, op[t].row).type # "None"
      BY DEF Record
    <3> QED BY <1>2, <2>2, <3>1 DEF PrefixInsert, LogRecord
  <2>3. CASE PrefixGiven(t)
    BY <1>2, <2>3 DEF PrefixGiven, LogRecord
  <2>4. CASE PrefixUpdateVec(t)
    <3> DEFINE r == Record("Update", op[t].ext, [op[t].row EXCEPT !.meta = db[op[t].ext].meta])
    <3>1. r.type # "None"
      BY DEF Record
    <3> QED BY <1>2, <2>4, <3>1 DEF PrefixUpdateVec, LogRecord
  <2>5. CASE CkptMark(t)
    <3>1. Record("Checkpoint", 0, NoRow).type # "None"
      BY DEF Record
    <3> QED BY <1>2, <2>5, <3>1 DEF CkptMark
  <2>6. ~PrefixThrows(t) /\ ~CkptMarkThrows(t)
    BY DEF PrefixThrows, CkptMarkThrows, SkipLsn
  <2>7. CASE SyncFsync(t) \/ SyncReturn(t) \/ Apply(t) \/ Finish(t)
    BY <1>1, <2>7 DEF SyncFsync, SyncReturn, Apply, Finish
  <2>8. CASE CkptSave(t) \/ CkptDirSync(t) \/ CkptTruncate(t) \/ CkptRelease(t)
    BY <1>1, <2>8 DEF CkptSave, CkptDirSync, CkptTruncate, CkptRelease
  <2> QED BY <1>3, <2>1, <2>2, <2>3, <2>4, <2>5, <2>6, <2>7, <2>8, LoudSteps
<1>4. CASE Close \/ ProcessCrash \/ PowerLoss
  BY <1>1, <1>4, StopKeepsDisk
<1>5. CASE Restart \/ UNCHANGED vars
  BY <1>1, <1>5 DEF Restart, Recover, RecoverThrows, Reopen, vars
<1> QED BY <1>3, <1>4, <1>5 DEF Next

\* What outlives a power failure is a part of the history.
DurableIsLogged == DurableUpTo \in Nat /\ Len(hist) \in Nat /\ DurableUpTo <= Len(hist)

(* What is safe outlives a power failure. *)
LEMMA SafeIsDurable ==
    ASSUME SafetyInv, StableKnown
    PROVE  /\ DurableIsLogged
           /\ \A n \in Nat : Safe(n) => n <= DurableUpTo
<1>1. /\ stable \in Nat /\ Len(hist) \in Nat /\ stable <= Len(hist) /\ wal \subseteq 1..Len(hist)
      /\ snapStable.lsn \in Nat /\ snapStable.lsn <= snap.lsn /\ snap.lsn \in Nat /\ snap.lsn <= Len(hist)
  BY StableInHistory
<1>2. \A n \in Nat : Safe(n) => n <= DurableUpTo
  <2> SUFFICES ASSUME NEW n \in Nat, Safe(n) PROVE n <= DurableUpTo
    OBVIOUS
  <2>1. CASE n <= snapStable.lsn
    BY <1>1, <2>1 DEF DurableUpTo
  <2>2. CASE \E m \in wal : n <= m /\ m <= stable
    <3>1. PICK m \in wal : n <= m /\ m <= stable
      BY <2>2
    <3>2. m \in Nat
      BY <1>1
    <3> QED BY <1>1, <3>1, <3>2 DEF DurableUpTo
  <2> QED BY <2>1, <2>2 DEF Safe
<1> QED BY <1>1, <1>2 DEF DurableUpTo, DurableIsLogged

(* Logging a record is LogMutation: it joins the log, and nobody sees it yet. *)
LEMMA LoggingIsLogMutation ==
    ASSUME TypeOK, NoLsnSkipped, NoLsnSkipped', TypeOK', "ioError" \notin Faults, mode = "up",
           NEW r, hist' = Append(hist, r), UNCHANGED <<stable, snapStable, mode, applied, db, promised>>
    PROVE  Store!LogMutation
<1>1. hist \in Seq(WalRecord) /\ hist' \in Seq(WalRecord)
  <2>1. ASSUME NEW h, h \in Seq(WalRecord \cup {NoCall}), \A n \in DOMAIN h : h[n].type # "None"
        PROVE  h \in Seq(WalRecord)
    <3>1. \A n \in DOMAIN h : h[n] \in WalRecord
      BY <2>1, ElementOfSeq DEF NoCall, Record
    <3>2. DOMAIN h = 1..Len(h) /\ Len(h) \in Nat /\ h = [n \in 1..Len(h) |-> h[n]]
      BY <2>1, LenProperties
    <3> QED BY <3>1, <3>2
  <2> QED BY <2>1 DEF TypeOK, NoLsnSkipped
<1>2. Len(hist') = Len(hist) + 1 /\ SubSeq(hist', 1, Len(hist)) = hist
  <2>1. r \in WalRecord
    <3>1. hist'[Len(hist) + 1] = r /\ Len(hist) + 1 \in DOMAIN hist'
      BY <1>1
    <3> QED BY <1>1, <3>1, ElementOfSeq
  <2> QED BY <1>1, <2>1, GrownLog
<1>3. DurableUpTo' = DurableUpTo
  BY DEF DurableUpTo
<1> QED BY <1>1, <1>2, <1>3, SameRecords DEF Store!LogMutation

(* Each step of a thread is a step of DurableStore, or touches nothing of it. *)
LEMMA ThreadRefinesStore ==
    ASSUME TypeOK, SafetyInv, StableKnown, PendingInv, NoLsnSkipped,
           TypeOK', SafetyInv', DurableIsLogged', ReplayInv', NoLsnSkipped',
           "ioError" \notin Faults, NEW t \in Threads, Begin(t) \/ Work(t)
    PROVE  [Store!Next]_(Store!vars)
<1> USE DEF Store!vars
<1>0. /\ mode = "up" /\ DurableUpTo \in Nat /\ DurableUpTo <= Len(hist) /\ Len(hist) \in Nat
      /\ \A n \in Nat : Safe(n) => n <= DurableUpTo
  BY UpWhileWorking, SafeIsDurable DEF DurableIsLogged
<1>1. ASSUME UNCHANGED <<hist, stable, snapStable, mode, applied, db, promised>> PROVE [Store!Next]_(Store!vars)
  BY <1>1 DEF DurableUpTo
<1>2. CASE Quiet(t)
  BY <1>1, <1>2, QuietIsQuiet
<1>3. ~PrefixThrows(t) /\ ~CkptMarkThrows(t)
  BY DEF PrefixThrows, CkptMarkThrows, SkipLsn
<1>4. CASE CkptSave(t) \/ CkptTruncate(t)
  BY <1>1, <1>4 DEF CkptSave, CkptTruncate
<1>5. CASE PrefixInsert(t) \/ PrefixGiven(t) \/ PrefixUpdateVec(t) \/ CkptMark(t)
  <2>1. PICK r : hist' = Append(hist, r) /\ UNCHANGED <<stable, snapStable, mode, applied, db, promised>>
    BY <1>5 DEF PrefixInsert, PrefixGiven, PrefixUpdateVec, CkptMark, LogRecord
  <2>2. Store!LogMutation
    BY <1>0, <2>1, LoggingIsLogMutation
  <2> QED BY <2>2 DEF Store!Next
<1>6. ASSUME DurableUpTo <= DurableUpTo', UNCHANGED <<hist, mode, applied, db, promised>>
      PROVE  [Store!Next]_(Store!vars)
  <2>1. DurableUpTo' \in Nat /\ DurableUpTo' <= Len(hist)
    <3>1. DurableUpTo' \in Nat /\ DurableUpTo' <= Len(hist')
      BY DEF DurableIsLogged
    <3> QED BY <1>6, <3>1
  <2>2. CASE DurableUpTo' = DurableUpTo
    BY <1>6, <2>2
  <2>3. CASE DurableUpTo' # DurableUpTo
    <3>1. Store!Persist
      BY <1>0, <1>6, <2>1, <2>3 DEF Store!Persist
    <3> QED BY <3>1 DEF Store!Next
  <2> QED BY <2>2, <2>3
<1>7. CASE SyncFsync(t)
  <2>1. stable' = Larger(stable, target[t]) /\ UNCHANGED <<hist, snapStable, mode, applied, db, promised>>
    BY <1>7 DEF SyncFsync
  <2>2. stable \in Nat /\ target[t] \in Nat /\ snapStable.lsn \in Nat
    BY DEF SafetyInv, LsnTypes
  <2>3. DurableUpTo <= DurableUpTo'
    BY <2>1, <2>2 DEF DurableUpTo
  <2> QED BY <1>6, <2>1, <2>3
<1>8. CASE CkptDirSync(t)
  <2>1. snapStable' \in {snap, snapStable} /\ UNCHANGED <<hist, stable, mode, applied, db, promised>>
    BY <1>8 DEF CkptDirSync
  <2>2. /\ stable \in Nat /\ snapStable.lsn \in Nat /\ snap.lsn \in Nat /\ snapStable.lsn <= snap.lsn
    BY DEF SafetyInv, LsnTypes, HistoryEnds
  <2>3. DurableUpTo <= DurableUpTo'
    BY <2>1, <2>2 DEF DurableUpTo
  <2> QED BY <1>6, <2>1, <2>3
<1>9. CASE Apply(t)
  <2> DEFINE n == lsn[t]
  <2>1. /\ pc[t] = "apply" /\ applied' = applied \cup {n}
        /\ UNCHANGED <<hist, stable, snapStable, mode, promised>>
    BY <1>9 DEF Apply
  <2>2. n \in 1..Len(hist) /\ n \notin applied
    <3>1. lsn[t] \in DOMAIN hist \ applied
      BY <2>1 DEF PendingInv, Pending
    <3>2. DOMAIN hist = 1..Len(hist)
      BY LenProperties DEF TypeOK
    <3> QED BY <3>1, <3>2
  <2>3. Policy = "PerOpSync" => n <= DurableUpTo
    BY <1>0, <2>1, <2>2 DEF SafetyInv, CommitsKnown
  <2>4. mode' = "up" /\ db' = Replay(hist, EmptyDb, applied')
    BY <1>0, <2>1 DEF ReplayInv, StoreIsReplayOfLog
  <2>5. DurableUpTo' = DurableUpTo
    BY <2>1 DEF DurableUpTo
  <2> HIDE DEF n
  <2>6. Store!Show
    BY <1>0, <2>1, <2>2, <2>3, <2>4, <2>5, SameRecords DEF Store!Show
  <2> QED BY <2>6 DEF Store!Next
<1>10. ASSUME NEW S, promised' = promised \cup S, \A n \in S : n \in 1..DurableUpTo,
              UNCHANGED <<hist, stable, snapStable, mode, applied, db>>
       PROVE  [Store!Next]_(Store!vars)
  <2>1. DurableUpTo' = DurableUpTo
    BY <1>10 DEF DurableUpTo
  <2>2. S \in SUBSET (1..DurableUpTo)
    BY <1>10
  <2>3. Store!Promise
    BY <1>0, <1>10, <2>1, <2>2 DEF Store!Promise
  <2> QED BY <2>3 DEF Store!Next
<1>11. CASE SyncReturn(t)
  <2>1. Safe(target[t]) /\ target[t] \in Nat /\ wal \subseteq 1..Len(hist)
    BY <1>11 DEF SyncReturn, SafetyInv, TargetsKnown, LsnTypes
  <2>2. target[t] <= DurableUpTo
    BY <1>0, <2>1
  <2>3. \A n \in {m \in wal : m <= target[t]} : n \in 1..DurableUpTo
    BY <1>0, <2>1, <2>2
  <2> QED BY <1>10, <1>11, <2>3 DEF SyncReturn
<1>12. CASE Finish(t)
  <2>1. UNCHANGED <<hist, stable, snapStable, mode, applied, db>>
    BY <1>12 DEF Finish
  <2>2. CASE Policy = "PerOpSync" /\ ~doCkpt[t]
    <3>1. lsn[t] \in 1..Len(hist) /\ Safe(lsn[t])
      BY <1>12, <2>2 DEF Finish, SafetyInv, CommitsKnown
    <3>2. lsn[t] \in 1..DurableUpTo
      BY <1>0, <3>1
    <3>3. promised' = promised \cup {lsn[t]}
      BY <1>12, <2>2 DEF Finish
    <3> QED BY <1>10, <2>1, <3>2, <3>3
  <2>3. CASE ~(Policy = "PerOpSync" /\ ~doCkpt[t])
    <3>1. promised' = promised
      BY <1>12, <2>3 DEF Finish
    <3> QED BY <1>1, <2>1, <3>1
  <2> QED BY <2>2, <2>3
<1>13. CASE CkptRelease(t)
  <2>1. ckptLsn \in Nat /\ ckptLsn + 1 = Len(hist) /\ Len(hist) <= stable
    BY <1>13 DEF CkptRelease, SafetyInv, CheckpointKnows, LsnTypes
  <2>2. stable \in Nat /\ snapStable.lsn \in Nat
    BY DEF SafetyInv, LsnTypes
  <2>3. \A n \in 1..ckptLsn : n \in 1..DurableUpTo
    BY <1>0, <2>1, <2>2 DEF DurableUpTo
  <2> QED BY <1>10, <1>13, <2>3 DEF CkptRelease
<1> QED BY <1>2, <1>3, <1>4, <1>5, <1>7, <1>8, <1>9, <1>11, <1>12, <1>13, LoudSteps

(* A process that ends leaves the log up to what is durable, and in a strict store no more. *)
LEMMA StopRefinesStore ==
    ASSUME TypeOK, SafetyInv, StableKnown, SafetyInv', DurableIsLogged',
           Policy = "PerOpSync" => VisibleInv', Close \/ ProcessCrash \/ PowerLoss
    PROVE  Store!Stop
<1>1. /\ DurableUpTo \in Nat /\ DurableUpTo' \in Nat /\ DurableUpTo' <= Len(hist')
      /\ Len(hist) \in Nat /\ Len(hist') \in Nat
  BY SafeIsDurable DEF DurableIsLogged
<1>2. /\ hist' \in Seq(WalRecord \cup {NoCall}) /\ \A n \in DOMAIN hist' : hist'[n] = hist[n]
      /\ DOMAIN hist' \subseteq DOMAIN hist /\ snapStable.lsn <= snapStable'.lsn /\ mode' = "down"
  BY StopKeepsDisk
<1>3. DOMAIN hist = 1..Len(hist) /\ DOMAIN hist' = 1..Len(hist')
  BY <1>2, LenProperties DEF TypeOK
<1>4. Len(hist') <= Len(hist)
  BY <1>1, <1>2, <1>3
<1>5. hist' = SubSeq(hist, 1, Len(hist'))
  BY <1>2, <1>3, <1>4, CutLogStarts DEF TypeOK
<1>6. DurableUpTo <= DurableUpTo'
  <2>1. stable \in Nat /\ highestLsn \in Nat /\ wal \subseteq 1..Len(hist)
    BY StableInHistory DEF SafetyInv, LsnTypes
  <2>2. stable' \in Nat /\ stable <= stable'
    <3>1. CASE Close \/ ProcessCrash
      BY <2>1, <3>1 DEF Close, ProcessCrash
    <3>2. CASE PowerLoss
      <4>1. PICK cut \in {stable} \cup {n \in wal : n > stable} : stable' = cut
        BY <3>2 DEF PowerLoss
      <4> QED BY <1>1, <2>1, <4>1
    <3> QED BY <3>1, <3>2
  <2>3. snapStable.lsn \in Nat /\ snapStable'.lsn \in Nat
    BY DEF SafetyInv, LsnTypes
  <2> QED BY <1>2, <2>1, <2>2, <2>3 DEF DurableUpTo
<1>7. Policy = "PerOpSync" => DurableUpTo' = Len(hist')
  BY <1>1, <1>2 DEF VisibleInv, DiskIsKnown
<1>8. applied' = {} /\ db' = EmptyDb /\ promised' = promised
  BY DEF Close, ProcessCrash, PowerLoss, LoseMemory
<1>9. Len(hist') \in DurableUpTo..Len(hist) /\ DurableUpTo' \in DurableUpTo..Len(hist')
  BY <1>1, <1>4, <1>6
<1> QED BY <1>2, <1>5, <1>7, <1>8, <1>9, SameRecords DEF Store!Stop

(* Every step is a step of DurableStore, or touches nothing of it. *)
LEMMA NextRefinesStore ==
    ASSUME TypeOK, SafetyInv, StableKnown, PendingInv, NoLsnSkipped,
           TypeOK', SafetyInv', DurableIsLogged', ReplayInv', NoLsnSkipped',
           Policy = "PerOpSync" => VisibleInv', "ioError" \notin Faults, [Next]_vars
    PROVE  [Store!Next]_(Store!vars)
<1>1. ASSUME NEW t \in Threads, Begin(t) \/ Work(t) PROVE [Store!Next]_(Store!vars)
  BY <1>1, ThreadRefinesStore
<1>2. CASE Close \/ ProcessCrash \/ PowerLoss
  BY <1>2, StopRefinesStore DEF Store!Next
<1>3. CASE Recover
  <2>1. /\ mode = "down" /\ mode' = "up" /\ applied' = 1..(nextLsn' - 1)
        /\ UNCHANGED <<hist, stable, snapStable, promised>>
    BY <1>3 DEF Recover
  <2>2. nextLsn' - 1 = Len(hist)
    BY <2>1, StableInHistory DEF SafetyInv, HistoryEnds
  <2>3. db' = Replay(hist, EmptyDb, applied') /\ DurableUpTo' = DurableUpTo
    BY <2>1 DEF ReplayInv, StoreIsReplayOfLog, DurableUpTo
  <2>4. Store!Reopen
    BY <2>1, <2>2, <2>3, SameRecords DEF Store!Reopen
  <2> QED BY <2>4 DEF Store!Next
<1>4. CASE RecoverThrows \/ Reopen \/ UNCHANGED vars
  <2>1. (mode = "up") = (mode' = "up") /\ UNCHANGED <<hist, stable, snapStable, applied, db, promised>>
    BY <1>4 DEF RecoverThrows, Reopen, vars
  <2> QED BY <2>1 DEF Store!vars, DurableUpTo
<1> QED BY <1>1, <1>2, <1>3, <1>4 DEF Next, Restart

\* The disk of a strict store is known.
StrictInv == Policy = "PerOpSync" => VisibleInv

(* DurableVDB keeps what durable_vdb.h:14-31 promises: the log only grows while a process runs;
   one mutation at a time becomes visible, under PerOpSync only when it is durable; readers see
   the visible mutations as if applied in log order; callers are promised only what is durable;
   a crash takes at most a suffix that was not durable, and the next process shows what is left.
   The callers run one mutation of an id at a time (vdb.h:58-59), no write or fsync of a file
   fails, and, under PerOpSync, no process dies while the machine stays up: recovery does not
   fsync what such a process left in the page cache.                                           *)
THEOREM StoreKeepsItsPromise ==
    ASSUME SerialisedIds, Faults \cap {"ioError", "dirSyncError"} = {},
           Policy = "PerOpSync" => "processCrash" \notin Faults
    PROVE  Spec => ImplementsStore
<1>1. /\ "ioError" \notin Faults /\ "dirSyncError" \notin Faults
      /\ Policy = "PerOpSync" => OnlyPowerFails
  BY DEF OnlyPowerFails
<1>2. Init => Store!Init /\ NoLsnSkipped /\ StrictInv
  <2> SUFFICES ASSUME Init PROVE Store!Init /\ NoLsnSkipped /\ StrictInv
    OBVIOUS
  <2>1. Store!Init
    BY SameRecords DEF Init, Store!Init, NoSnapshot, DurableUpTo
  <2>3. NoLsnSkipped /\ StrictInv
    BY DEF Init, NoSnapshot, NoLsnSkipped, StrictInv, VisibleInv, DiskIsKnown, StrictVisibility, DurableUpTo
  <2> QED BY <2>1, <2>3
<1>3. SafetyInv /\ StrictInv /\ [Next]_vars => StrictInv'
  BY <1>1, NextVisible DEF StrictInv
<1>4. TypeOK /\ SafetyInv /\ NoLsnSkipped /\ [Next]_vars => NoLsnSkipped'
  BY <1>1, NextSkipsNone
<1>5. SafetyInv /\ StableKnown => DurableIsLogged
  BY SafeIsDurable
<1>6. /\ TypeOK /\ SafetyInv /\ StableKnown /\ PendingInv /\ NoLsnSkipped
      /\ TypeOK' /\ SafetyInv' /\ DurableIsLogged' /\ ReplayInv' /\ NoLsnSkipped' /\ StrictInv' /\ [Next]_vars
      => [Store!Next]_(Store!vars)
  BY <1>1, NextRefinesStore DEF StrictInv
<1>7. Spec => [](PendingInv /\ ReplayInv /\ StoreIsReplayOfLog)
  BY <1>1, StoreIsTheLogReplayed
<1>8. Spec => [](KeptInv /\ HistoryKept /\ StableKnown)
  BY <1>1, LogIsKept
<1> QED BY <1>2, <1>3, <1>4, <1>5, <1>6, <1>7, <1>8, Safety, TypesHold, PTL DEF Spec, ImplementsStore, Store!Spec
=============================================================================
