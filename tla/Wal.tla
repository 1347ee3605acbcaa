-------------------------------- MODULE Wal --------------------------------
(***************************************************************************)
(* The segmented write-ahead log of src/wal.cpp on a file system that      *)
(* keeps, across a power failure, only what was fsynced: file contents by  *)
(* fsync of the file, directory entries by fsync of the directory.         *)
(*                                                                         *)
(* The environment is DurableVDB: append() is called by one thread at a    *)
(* time (write_mutex_) with increasing lsns, truncate() by a checkpoint    *)
(* that holds the same mutex, sync() by any number of threads.  append and *)
(* truncate hold io_mu_ throughout, so their steps are seen by a crash but *)
(* by no other call; sync holds it only to capture.                        *)
(*                                                                         *)
(* Data.  A record is its lsn.  Frame sizes are not kept: whether a frame  *)
(* still fits the active segment is a choice.  Bytes after the last whole  *)
(* frame of a file are its junk, present or not.                           *)
(***************************************************************************)
EXTENDS Integers, Sequences, SequencesExt

CONSTANTS Syncers,     \* threads that call sync()
          Faults,      \* which of the faults below happen
          MaxLsn,      \* bound: records appended
          MaxSegment,  \* bound: segments created
          MaxCrashes   \* bound: crashes

FaultKinds == {"powerLoss", "processCrash",
               "interruptedCreate",  \* open_new_segment_ crashes or fails once the file exists
               "createError",        \* the file of a new segment cannot be created
               "shortWrite",         \* write_at_ fails after part of a frame
               "fsyncError"}         \* an fsync of a segment fails

ASSUME WalConstants == /\ Faults \subseteq FaultKinds
                       /\ MaxLsn \in Nat /\ MaxSegment \in Nat /\ MaxCrashes \in Nat

VARIABLES
    files,     \* the directory: segment number -> file
    unlinked,  \* files unlinked since the directory was last fsynced
    state,     \* "closed", "open", or "failed": open() or replay() threw
    segments,  \* segments_, each [number, last, sealed]
    active,    \* the number behind active_fd_, 0 for no fd
    highest,   \* highest_lsn_
    io,        \* where the holder of io_mu_ stands, "free" when nobody holds it
    arg,       \* what it was called with: the lsn to append, or truncate's upto_lsn
    sync,      \* each syncer: the segment it has a dup of (0: none) and its target
    nextLsn,   \* next_lsn_ of the caller
    synced,    \* the lsns some sync() has covered
    covered,   \* the caller's snapshot holds the records up to this lsn
    crashes

disk  == <<files, unlinked>>
mem   == <<segments, active, highest>>
env   == <<nextLsn, synced, covered, crashes>>
vars  == <<disk, state, mem, io, arg, sync, env>>

File == [header : {"none", "written", "stable"},  \* the 32 bytes decode_header accepts
         entry  : {"new", "stable"},              \* its name in the directory
         recs   : Seq(Nat), stable : Nat,         \* frames, and how many are fsynced
         junk   : BOOLEAN]
Segment == [number : Nat, last : Nat, sealed : BOOLEAN]

IoStates == {"free", "seal", "create", "header", "headerSync", "dirSync", "write", "unlink"}

TypeOK ==
    /\ DOMAIN files \subseteq Nat /\ \A n \in DOMAIN files : files[n] \in File
    /\ DOMAIN unlinked \subseteq Nat /\ \A n \in DOMAIN unlinked : unlinked[n] \in File
    /\ state \in {"closed", "open", "failed"}
    /\ segments \in Seq(Segment) /\ active \in Nat /\ highest \in Nat
    /\ io \in IoStates /\ arg \in Nat
    /\ sync \in [Syncers -> [number : Nat, target : Nat]]
    /\ nextLsn \in Nat /\ synced \subseteq Nat /\ covered \in Nat /\ crashes \in Nat

NoFiles == [n \in {} |-> 0]
NewFile == [header |-> "none", entry |-> "new", recs |-> <<>>, stable |-> 0, junk |-> FALSE]
NoSync  == [number |-> 0, target |-> 0]

With(fs, n, f) == [x \in DOMAIN fs \cup {n} |-> IF x = n THEN f ELSE fs[x]]
Without(fs, S) == [x \in DOMAIN fs \ S |-> fs[x]]
Lsns(f) == {f.recs[i] : i \in DOMAIN f.recs}
AllLsns(fs) == UNION {Lsns(fs[n]) : n \in DOMAIN fs}

IsLast(n, S) == n \in S /\ \A x \in S : x <= n
Larger(a, b) == IF a >= b THEN a ELSE b

\* The one sequence that holds the members of a finite set S of numbers in increasing order.
InOrder(S) == {s \in Bijection(1..Cardinality(S), S) :
                 \A i, j \in DOMAIN s : i < j => s[i] < s[j]}

\* fsync of file n, if it still has a name.
Fsynced(n) == IF n \in DOMAIN files
              THEN [files EXCEPT ![n].stable = Len(files[n].recs),
                                 ![n].header = IF @ = "written" THEN "stable" ELSE @]
              ELSE files

Init ==
    /\ files = NoFiles /\ unlinked = NoFiles
    /\ state = "closed"
    /\ segments = <<>> /\ active = 0 /\ highest = 0
    /\ io = "free" /\ arg = 0
    /\ sync = [s \in Syncers |-> NoSync]
    /\ nextLsn = 1 /\ synced = {} /\ covered = 0 /\ crashes = 0

-----------------------------------------------------------------------------
(* append(), with rotate_() and open_new_segment_(). *)

\* A frame that does not fit rotates first, unless the active segment holds no record.
AppendStart ==
    /\ state = "open" /\ io = "free" /\ active # 0 /\ nextLsn <= MaxLsn
    /\ arg' = nextLsn /\ nextLsn' = nextLsn + 1
    /\ \/ io' = "write"
       \/ files[active].recs # <<>> /\ Len(segments) > 0 /\ active < MaxSegment /\ io' = "seal"
    /\ UNCHANGED <<disk, state, mem, sync, synced, covered, crashes>>

\* (mutated form of Seal: the segment is not fsynced before it is closed)
SealUnsynced ==
    /\ io = "seal"
    /\ segments' = [segments EXCEPT ![Len(segments)].sealed = TRUE]
    /\ active' = 0
    /\ io' = "create"
    /\ UNCHANGED <<disk, state, highest, arg, sync, env>>

\* rotate_: fsync, close, seal.
Seal ==
    /\ io = "seal"
    /\ files' = Fsynced(active)
    /\ segments' = [segments EXCEPT ![Len(segments)].sealed = TRUE]
    /\ active' = 0
    /\ io' = "create"
    /\ UNCHANGED <<unlinked, state, highest, arg, sync, env>>

\* open_new_segment_ creates the next number ...
Create ==
    /\ io = "create"
    /\ LET number == IF segments = <<>> THEN 1 ELSE Last(segments).number + 1
       IN  /\ number \notin DOMAIN files
           /\ files' = With(files, number, NewFile)
    /\ io' = "header"
    /\ UNCHANGED <<unlinked, state, mem, arg, sync, env>>

\* The file just created.
Newest == CHOOSE n \in DOMAIN files : IsLast(n, DOMAIN files)

\* ... writes its header, fsyncs it ...
WriteHeader ==
    /\ io = "header"
    /\ files' = [files EXCEPT ![Newest].header = "written"]
    /\ io' = "headerSync"
    /\ UNCHANGED <<unlinked, state, mem, arg, sync, env>>

SyncHeader ==
    /\ io = "headerSync"
    /\ files' = Fsynced(Newest)
    /\ io' = "dirSync"
    /\ UNCHANGED <<unlinked, state, mem, arg, sync, env>>

\* ... fsyncs the directory and makes it the active one.  The caller is append(), or
\* open() on an empty directory.
SyncDir ==
    /\ io = "dirSync"
    /\ files' = [n \in DOMAIN files |-> [files[n] EXCEPT !.entry = "stable"]]
    /\ unlinked' = NoFiles
    /\ segments' = Append(segments, [number |-> Newest, last |-> 0, sealed |-> FALSE])
    /\ active' = Newest
    /\ IF state = "open" THEN io' = "write" ELSE io' = "free"
    /\ state' = "open"
    /\ UNCHANGED <<highest, arg, sync, env>>

\* (mutated form of Write: last_lsn is set by the first record only)
WriteFirstLsn ==
    /\ io = "write"
    /\ files' = [files EXCEPT ![active].recs = Append(@, arg)]
    /\ segments' = [segments EXCEPT ![Len(segments)].last = IF @ = 0 THEN arg ELSE @]
    /\ highest' = Larger(highest, arg)
    /\ io' = "free" /\ arg' = 0
    /\ UNCHANGED <<unlinked, state, active, sync, env>>

\* The frame goes over whatever junk an earlier failed write left, and may be shorter.
Write ==
    /\ io = "write"
    /\ \E j \in {files[active].junk, FALSE} :
          files' = [files EXCEPT ![active].recs = Append(@, arg), ![active].junk = j]
    /\ segments' = [segments EXCEPT ![Len(segments)].last = arg]
    /\ highest' = Larger(highest, arg)
    /\ io' = "free" /\ arg' = 0
    /\ UNCHANGED <<unlinked, state, active, sync, env>>

\* Exceptions out of append(): io_mu_ is released and nothing is undone.
Throw == io' = "free" /\ arg' = 0 /\ UNCHANGED <<unlinked, state, mem, sync, env>>

WriteThrows  == /\ "shortWrite" \in Faults /\ io = "write"
                /\ files' = [files EXCEPT ![active].junk = TRUE]
                /\ Throw
SealThrows   == "fsyncError" \in Faults /\ io = "seal" /\ Throw /\ UNCHANGED files
CreateThrows == "createError" \in Faults /\ io = "create" /\ Throw /\ UNCHANGED files
HeaderThrows == /\ "interruptedCreate" \in Faults
                /\ io \in {"header", "headerSync", "dirSync"} /\ Throw /\ UNCHANGED files

-----------------------------------------------------------------------------
(* sync() and truncate(). *)

SyncCapture(s) ==
    /\ state = "open" /\ io = "free" /\ active # 0 /\ sync[s] = NoSync
    /\ sync' = [sync EXCEPT ![s] = [number |-> active, target |-> highest]]
    /\ UNCHANGED <<disk, state, mem, io, arg, env>>

SyncFsync(s) ==
    /\ sync[s] # NoSync
    /\ files' = Fsynced(sync[s].number)
    /\ synced' = synced \cup {n \in AllLsns(files) : n <= sync[s].target}
    /\ sync' = [sync EXCEPT ![s] = NoSync]
    /\ UNCHANGED <<unlinked, state, mem, io, arg, nextLsn, covered, crashes>>

SyncThrows(s) ==
    /\ "fsyncError" \in Faults /\ sync[s] # NoSync
    /\ sync' = [sync EXCEPT ![s] = NoSync]
    /\ UNCHANGED <<disk, state, mem, io, arg, env>>

\* (mutated form of TruncateStart: an empty log is truncated, too)
TruncateStartEmpty ==
    /\ state = "open" /\ io = "free"
    /\ arg' = highest - 1 /\ UNCHANGED covered
    /\ io' = "unlink"
    /\ UNCHANGED <<disk, state, mem, sync, nextLsn, synced, crashes>>

\* A checkpoint saved a snapshot of everything logged but its own record.
TruncateStart ==
    /\ state = "open" /\ io = "free" /\ highest > 1
    /\ arg' = highest - 1 /\ covered' = highest - 1
    /\ covered < highest - 1
    /\ io' = "unlink"
    /\ UNCHANGED <<disk, state, mem, sync, nextLsn, synced, crashes>>

\* (mutated form of Covered: off by one, the Checkpoint record's segment may go)
CoveredPast(i) == /\ i < Len(segments) /\ segments[i].sealed
                  /\ segments[i].last # 0 /\ segments[i].last <= arg + 1

Covered(i) == /\ i < Len(segments) /\ segments[i].sealed
              /\ segments[i].last # 0 /\ segments[i].last <= arg

\* The covered segments go one after the other; segments_ is swapped at the end.
Unlink ==
    /\ io = "unlink"
    /\ \E i \in DOMAIN segments :
          /\ Covered(i) /\ segments[i].number \in DOMAIN files
          /\ \A k \in 1..(i - 1) : Covered(k) => segments[k].number \notin DOMAIN files
          /\ unlinked' = With(unlinked, segments[i].number, files[segments[i].number])
          /\ files' = Without(files, {segments[i].number})
    /\ UNCHANGED <<state, mem, io, arg, sync, env>>

TruncateEnd ==
    /\ io = "unlink"
    /\ \A i \in DOMAIN segments : Covered(i) => segments[i].number \notin DOMAIN files
    /\ \E left \in InOrder({i \in DOMAIN segments : segments[i].number \in DOMAIN files}) :
          segments' = [i \in DOMAIN left |-> segments[left[i]]]
    /\ IF segments' = segments THEN UNCHANGED disk
       ELSE /\ unlinked' = NoFiles
            /\ files' = [n \in DOMAIN files |-> [files[n] EXCEPT !.entry = "stable"]]
    /\ io' = "free" /\ arg' = 0
    /\ UNCHANGED <<state, active, highest, sync, env>>

-----------------------------------------------------------------------------
(* Crashes, and open() followed by replay(). *)

Forget ==
    /\ state' = "closed" /\ segments' = <<>> /\ active' = 0 /\ highest' = 0
    /\ io' = "free" /\ arg' = 0
    /\ sync' = [s \in Syncers |-> NoSync]
    /\ crashes < MaxCrashes /\ crashes' = crashes + 1
    /\ UNCHANGED <<nextLsn, synced, covered>>

CanCrash == io \in {"header", "headerSync", "dirSync"} => "interruptedCreate" \in Faults

\* The kernel keeps what it was given; a write() under way may be cut short.
ProcessCrash ==
    /\ "processCrash" \in Faults /\ CanCrash /\ state # "closed"
    /\ \/ UNCHANGED files
       \/ io = "write" /\ files' = [files EXCEPT ![active].junk = TRUE]
    /\ UNCHANGED unlinked
    /\ Forget

\* What the disk may hold of file f after a power failure.
Remains(f) ==
    {[header |-> h, entry |-> "stable", recs |-> SubSeq(f.recs, 1, k), stable |-> k, junk |-> j] :
        h \in IF f.header = "written" THEN {"none", "stable"} ELSE {f.header},
        k \in f.stable..Len(f.recs), j \in IF f.stable = Len(f.recs) THEN {f.junk} ELSE BOOLEAN}

PowerLoss ==
    /\ "powerLoss" \in Faults /\ CanCrash
    /\ LET named == {n \in DOMAIN files : files[n].entry = "stable"}
           maybe == (DOMAIN files \ named) \cup DOMAIN unlinked
           content(n) == IF n \in DOMAIN files THEN files[n] ELSE unlinked[n]
       IN  \E back \in SUBSET maybe :
              \E left \in [named \cup back -> UNION {Remains(content(n)) : n \in named \cup maybe}] :
                 /\ \A n \in DOMAIN left : left[n] \in Remains(content(n))
                 /\ files' = left
    /\ unlinked' = NoFiles
    /\ Forget

\* open() of a directory without segments creates the first one.
OpenEmpty ==
    /\ state = "closed" /\ io = "free" /\ DOMAIN files = {}
    /\ io' = "create" /\ nextLsn' = covered + 1
    /\ UNCHANGED <<disk, state, mem, arg, sync, synced, covered, crashes>>

Readable(n) == /\ files[n].header # "none"
               /\ files[n].junk => IsLast(n, DOMAIN files)

\* (mutated form of SegmentOrder: the directory's order, unsorted)
UnsortedOrder == {s \in Bijection(1..Cardinality(DOMAIN files), DOMAIN files) :
                    \A i, j \in DOMAIN s : i < j => s[i] > s[j]}

\* discover_segments_: the segment numbers, sorted.
SegmentOrder == InOrder(DOMAIN files)

\* The torn tail of file n is cut off, and only then is the file fsynced.
CutTail(n) == [Fsynced(n) EXCEPT ![n].junk = FALSE]

\* open() and replay(): every segment in number order.
OpenExisting ==
    /\ state = "closed" /\ io = "free" /\ DOMAIN files # {}
    /\ \A n \in DOMAIN files : Readable(n)
    /\ \E order \in SegmentOrder :
          /\ active' = Last(order)
          /\ segments' = [i \in DOMAIN order |->
                            LET recs == files[order[i]].recs
                            IN  [number |-> order[i], sealed |-> i # Len(order),
                                 last |-> IF recs = <<>> THEN 0 ELSE Last(recs)]]
    /\ files' = IF files[active'].junk THEN CutTail(active') ELSE files
    /\ \E h \in AllLsns(files) \cup {0} : IsLast(h, AllLsns(files) \cup {0}) /\ highest' = h
    /\ nextLsn' = Larger(covered, highest') + 1
    /\ state' = "open"
    /\ UNCHANGED <<unlinked, io, arg, sync, synced, covered, crashes>>

OpenThrows ==
    /\ state = "closed" /\ io = "free" /\ \E n \in DOMAIN files : ~Readable(n)
    /\ state' = "failed"
    /\ UNCHANGED <<disk, mem, io, arg, sync, env>>

Next ==
    \/ AppendStart \/ Seal \/ Create \/ WriteHeader \/ SyncHeader \/ SyncDir \/ Write
    \/ WriteThrows \/ SealThrows \/ CreateThrows \/ HeaderThrows
    \/ \E s \in Syncers : SyncCapture(s) \/ SyncFsync(s) \/ SyncThrows(s)
    \/ TruncateStart \/ Unlink \/ TruncateEnd
    \/ ProcessCrash \/ PowerLoss \/ OpenEmpty \/ OpenExisting \/ OpenThrows

Spec == Init /\ [][Next]_vars

-----------------------------------------------------------------------------
(* Properties. *)

\* The files hold increasing lsns in segment-number order, which is the order of replay.
ReplayIsInLsnOrder ==
    \A n, m \in DOMAIN files : \A i \in DOMAIN files[n].recs, j \in DOMAIN files[m].recs :
       (n < m \/ (n = m /\ i < j)) => files[n].recs[i] < files[m].recs[j]

\* "every sealed segment is complete and only the active one can hold a torn tail"
\* (wal.h:77-78), and sync() relies on it: "sealed segments were already fsync'd".
SealedSegmentsAreComplete ==
    \A i \in DOMAIN segments :
       (segments[i].sealed /\ segments[i].number \in DOMAIN files) =>
          LET f == files[segments[i].number] IN f.stable = Len(f.recs) /\ ~f.junk

\* truncate() decides by segments_[i].last_lsn: it must be the last lsn of the file.
SegmentsDescribeFiles ==
    \A i \in DOMAIN segments : segments[i].number \in DOMAIN files =>
       LET recs == files[segments[i].number].recs
       IN  segments[i].last = IF recs = <<>> THEN 0 ELSE Last(recs)

\* "fsync the log - the durability point" (wal.h:113): a record is lost only if no sync()
\* covered it or a snapshot does.
SyncIsDurable == \A n \in synced : n \in AllLsns(files) \/ n <= covered

\* The log can be opened again after any crash: so it can unless the creation of a segment
\* is interrupted or a rotation seals the rest of a failed write (see the README).
AlwaysOpens == state # "failed"

\* The segments keep the contract of LogFile.
StableLsns == UNION {{files[n].recs[i] : i \in 1..files[n].stable} : n \in DOMAIN files}
Log == INSTANCE LogFile WITH open <- state = "open", kept <- AllLsns(files),
                             stable <- StableLsns
ImplementsLog == Log!Spec
=============================================================================
