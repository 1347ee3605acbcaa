---------------------------- MODULE WalInductive ----------------------------
(***************************************************************************)
(* The inductive invariants behind the theorems about Wal.  WalInv holds   *)
(* under every fault; the parts after it need one of them excluded.        *)
(***************************************************************************)
EXTENDS Wal

IsFiles(fs) ==
    /\ fs = [n \in DOMAIN fs |-> fs[n]] /\ DOMAIN fs \subseteq Nat \ {0} /\ IsFiniteSet(DOMAIN fs)
    /\ \A n \in DOMAIN fs : fs[n] \in File /\ fs[n].stable <= Len(fs[n].recs)

Types ==
    /\ IsFiles(files) /\ IsFiles(unlinked)
    /\ state \in {"closed", "open", "failed"}
    /\ segments \in Seq(Segment) /\ active \in Nat /\ highest \in Nat
    /\ io \in IoStates /\ arg \in Nat
    /\ sync \in [Syncers -> [number : Nat, target : Nat]]
    /\ nextLsn \in Nat /\ synced \subseteq Nat /\ covered \in Nat /\ crashes \in Nat

\* open_new_segment_ is between creating the file and making it the active one.
Creating  == io \in {"header", "headerSync", "dirSync"}
\* append() is under way.
Appending == state = "open" /\ io \in {"seal", "create", "header", "headerSync", "dirSync", "write"}

Known(n)    == \E i \in DOMAIN segments : segments[i].number = n
Complete(f) == f.stable = Len(f.recs)

\* Where a log that is open, and one that is not, may stand.
Stages ==
    /\ state = "open" <=> segments # <<>>
    /\ state # "open" => active = 0 /\ highest = 0 /\ \A s \in Syncers : sync[s] = NoSync
    /\ io \in {"seal", "write"} => active # 0
    /\ io = "create" \/ Creating => active = 0
    /\ io = "unlink" => state = "open"

\* How segments_ and active_fd_ stand to the files.  The last segment is never unlinked, and
\* a file that is not in segments_ is the newest.
Shape ==
    /\ \A i, j \in DOMAIN segments : i < j => segments[i].number < segments[j].number
    /\ io # "unlink" => \A i \in DOMAIN segments : segments[i].number \in DOMAIN files
    /\ segments # <<>> => segments[Len(segments)].number \in DOMAIN files
    /\ active # 0 => /\ segments # <<>> /\ active = segments[Len(segments)].number
                     /\ IsLast(active, DOMAIN files) /\ ~segments[Len(segments)].sealed
    /\ active # 0 \/ io = "create" => \A n \in DOMAIN files : Known(n)
    /\ Creating => \E n \in DOMAIN files : /\ files[n].recs = <<>> /\ IsLast(n, DOMAIN files)
                                           /\ \A m \in DOMAIN files : m # n <=> Known(m)
    /\ \A u \in DOMAIN unlinked : u \notin DOMAIN files /\ \E n \in DOMAIN files : u < n

\* Every file that could be there after a crash, unlinked ones included.
AnyFile == DOMAIN files \cup DOMAIN unlinked
Recs(n) == IF n \in DOMAIN files THEN files[n].recs ELSE unlinked[n].recs

\* The order of all records, and what is behind and ahead of them.
Order ==
    \A n, m \in AnyFile : \A i \in DOMAIN Recs(n), j \in DOMAIN Recs(m) :
       (n < m \/ (n = m /\ i < j)) => Recs(n)[i] < Recs(m)[j]

Bounds ==
    /\ covered < nextLsn
    /\ state = "open" => /\ highest < nextLsn
                         /\ \A n \in DOMAIN files : \A i \in DOMAIN files[n].recs : files[n].recs[i] <= highest
    /\ \A u \in DOMAIN unlinked : \A i \in DOMAIN unlinked[u].recs : unlinked[u].recs[i] <= covered
    /\ Appending => highest < arg /\ covered < arg /\ arg < nextLsn
    /\ io = "unlink" => arg <= covered

\* Only the active file, or the last one when nobody has the log open, has anything that
\* was not fsynced.
Sealed ==
    /\ \A n \in DOMAIN files : \/ Complete(files[n]) \/ n = active
                               \/ state # "open" /\ IsLast(n, DOMAIN files)
    /\ \A u \in DOMAIN unlinked : Complete(unlinked[u])

\* The fsync under way in sync() covers what it was asked to: the rest is stable already.
SyncKnown ==
    \A s \in Syncers : sync[s] # NoSync =>
       /\ sync[s].target <= highest
       /\ \A n \in DOMAIN files : \A i \in DOMAIN files[n].recs :
             files[n].recs[i] <= sync[s].target => n = sync[s].number \/ i <= files[n].stable

WalInv == Types /\ Stages /\ Shape /\ Order /\ Bounds /\ Sealed /\ SyncKnown /\ SegmentsDescribeFiles

-----------------------------------------------------------------------------
\* Without short writes nothing but a crash leaves a torn tail, and only in the last file.
TailInv ==
    /\ \A n \in DOMAIN files : files[n].junk => state # "open" /\ ~Creating /\ IsLast(n, DOMAIN files)
    /\ \A u \in DOMAIN unlinked : ~unlinked[u].junk

\* When a segment's creation is not interrupted, only its creator sees a name that a power
\* failure can take, and what a sync() covered is on stable storage or under the snapshot.
EntryInv  == \A n \in DOMAIN files : files[n].entry = "new" => Creating /\ IsLast(n, DOMAIN files)
SyncedInv == \A x \in synced : x <= covered \/ x \in StableLsns
=============================================================================
