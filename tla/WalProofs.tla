---------------------------- MODULE WalProofs ----------------------------
(***************************************************************************)
(* Proofs about the write-ahead log, for every number of segments, records *)
(* and threads in sync().  WalInv (WalInductive) holds under every fault:  *)
(* it gives the types, replay in lsn order and what segments_ says of the  *)
(* files.  TailInv, EntryInv and SyncedInv come on top of it, each for the *)
(* logs without the one fault that breaks it, and give durability and the  *)
(* implementation of LogFile, the contract DurableVDB uses its log by.     *)
(***************************************************************************)
EXTENDS WalInductive, FiniteSetTheorems, TLAPS

USE DEF disk, mem, env, IsLast, File

(* std::max. *)
LEMMA LargerIs ==
    \A a, b \in Nat : /\ Larger(a, b) \in {a, b} /\ Larger(a, b) \in Nat
                      /\ a <= Larger(a, b) /\ b <= Larger(a, b)
  BY DEF Larger

-----------------------------------------------------------------------------
(* What the operators on files and directories do. *)

(* fsync of a file changes what is stable of it, and nothing it holds. *)
LEMMA FsyncedFiles ==
    ASSUME IsFiles(files), NEW k
    PROVE  /\ IsFiles(Fsynced(k)) /\ DOMAIN Fsynced(k) = DOMAIN files
           /\ \A n \in DOMAIN files :
                 /\ Fsynced(k)[n].recs = files[n].recs /\ Fsynced(k)[n].junk = files[n].junk
                 /\ Fsynced(k)[n].entry = files[n].entry
                 /\ Fsynced(k)[n].stable = IF n = k THEN Len(files[n].recs) ELSE files[n].stable
<1>1. CASE k \in DOMAIN files
  <2> DEFINE g == [files EXCEPT ![k].stable = Len(files[k].recs),
                                ![k].header = IF @ = "written" THEN "stable" ELSE @]
  <2>1. Fsynced(k) = g
    BY <1>1 DEF Fsynced
  <2>2. DOMAIN g = DOMAIN files /\ g = [n \in DOMAIN g |-> g[n]]
    OBVIOUS
  <2>3. \A n \in DOMAIN files : n # k => g[n] = files[n]
    OBVIOUS
  <2>4. /\ g[k].recs = files[k].recs /\ g[k].junk = files[k].junk /\ g[k].entry = files[k].entry
        /\ g[k].stable = Len(files[k].recs) /\ g[k] \in File
    <3> DEFINE f == files[k]
               h == IF f.header = "written" THEN "stable" ELSE f.header
    <3>1. f \in File /\ f.recs \in Seq(Nat) /\ Len(f.recs) \in Nat
      BY <1>1 DEF IsFiles
    <3>2. g[k] = [f EXCEPT !.stable = Len(f.recs), !.header = h]
      BY <1>1
    <3>3. h \in {"none", "written", "stable"}
      BY <3>1
    <3> HIDE DEF f, g, h
    <3>4. [f EXCEPT !.stable = Len(f.recs), !.header = h] \in File
      BY <3>1, <3>3
    <3>5. /\ g[k].recs = f.recs /\ g[k].junk = f.junk /\ g[k].entry = f.entry
          /\ g[k].stable = Len(f.recs)
      BY <3>1, <3>2, <3>3
    <3> QED BY <3>2, <3>4, <3>5 DEF f
  <2> HIDE DEF g
  <2>5. g[k].stable <= Len(g[k].recs)
    <3>1. files[k].recs \in Seq(Nat)
      BY <1>1 DEF IsFiles
    <3> QED BY <2>4, <3>1
  <2>6. IsFiles(g)
    BY <2>2, <2>3, <2>4, <2>5 DEF IsFiles
  <2> QED BY <1>1, <2>1, <2>2, <2>3, <2>4, <2>6
<1>2. CASE k \notin DOMAIN files
  BY <1>2 DEF Fsynced
<1> QED BY <1>1, <1>2

\* The files g hold the records of the files fs, no less of them stable.
Holds(g, fs) ==
    /\ DOMAIN g = DOMAIN fs
    /\ \A n \in DOMAIN fs : g[n].recs = fs[n].recs /\ fs[n].stable <= g[n].stable

(* A change of one of the flags of files is a change of nothing else. *)
LEMMA FlagsOnly ==
    ASSUME IsFiles(files), NEW g, g = [n \in DOMAIN g |-> g[n]], DOMAIN g = DOMAIN files,
           \A n \in DOMAIN files : \/ g[n] = files[n]
                                   \/ g[n] = [files[n] EXCEPT !.header = "written"]
                                   \/ g[n] = [files[n] EXCEPT !.entry = "stable"]
                                   \/ g[n] = [files[n] EXCEPT !.junk = TRUE]
    PROVE  IsFiles(g) /\ Holds(g, files) /\ \A n \in DOMAIN files : g[n].stable = files[n].stable
<1>1. ASSUME NEW n \in DOMAIN files
      PROVE  g[n] \in File /\ g[n].recs = files[n].recs /\ g[n].stable = files[n].stable
  <2> DEFINE f == files[n]
  <2>1. f \in File
    BY <1>1 DEF IsFiles
  <2>2. g[n] \in {f, [f EXCEPT !.header = "written"], [f EXCEPT !.entry = "stable"],
                  [f EXCEPT !.junk = TRUE]}
    BY <1>1
  <2> HIDE DEF f
  <2>3. /\ [f EXCEPT !.header = "written"] \in File /\ [f EXCEPT !.entry = "stable"] \in File
        /\ [f EXCEPT !.junk = TRUE] \in File
    BY <2>1
  <2>4. g[n] \in File /\ g[n].recs = f.recs /\ g[n].stable = f.stable
    BY <2>1, <2>2, <2>3
  <2> QED BY <2>4 DEF f
<1>2. \A n \in DOMAIN files : files[n].stable \in Nat /\ files[n].stable <= Len(files[n].recs)
  BY DEF IsFiles
<1>3. DOMAIN g \subseteq Nat \ {0} /\ IsFiniteSet(DOMAIN g)
  BY DEF IsFiles
<1>4. Holds(g, files)
  BY <1>1, <1>2 DEF Holds
<1> QED BY <1>1, <1>2, <1>3, <1>4 DEF IsFiles

(* fsync makes more stable. *)
LEMMA FsyncHolds ==
    ASSUME IsFiles(files), NEW k
    PROVE  Holds(Fsynced(k), files)
<1>1. \A n \in DOMAIN files : files[n].stable \in Nat /\ files[n].stable <= Len(files[n].recs)
                              /\ Len(files[n].recs) \in Nat
  BY DEF IsFiles
<1> QED BY <1>1, FsyncedFiles DEF Holds

(* No file at all is a directory, too. *)
LEMMA NoFilesAre ==
    IsFiles(NoFiles) /\ DOMAIN NoFiles = {}
  BY FS_EmptySet DEF IsFiles, NoFiles

(* The torn tail of a file is cut off, and the file fsynced. *)
LEMMA TornTail ==
    ASSUME IsFiles(files), NEW k
    PROVE  /\ IsFiles(CutTail(k)) /\ Holds(CutTail(k), files)
           /\ \A n \in DOMAIN files : /\ CutTail(k)[n].junk <=> files[n].junk /\ n # k
                                      /\ CutTail(k)[n].entry = files[n].entry
                                      /\ n # k => CutTail(k)[n].stable = files[n].stable
<1> DEFINE h == Fsynced(k)
           g == CutTail(k)
<1>1. /\ IsFiles(h) /\ Holds(h, files) /\ DOMAIN h = DOMAIN files
      /\ \A n \in DOMAIN files : /\ h[n].recs = files[n].recs /\ h[n].junk = files[n].junk
                                 /\ h[n].entry = files[n].entry
                                 /\ n # k => h[n].stable = files[n].stable
  BY FsyncedFiles, FsyncHolds
<1>2. g = [h EXCEPT ![k].junk = FALSE]
  BY DEF CutTail
<1> HIDE DEF g, h
<1>3. DOMAIN g = DOMAIN h /\ g = [n \in DOMAIN g |-> g[n]]
  BY <1>2
<1>4. ASSUME NEW n \in DOMAIN h
      PROVE  /\ g[n] \in File /\ g[n].recs = h[n].recs /\ g[n].stable = h[n].stable
             /\ g[n].entry = h[n].entry
             /\ g[n].junk <=> h[n].junk /\ n # k
  <2> DEFINE f == h[n]
  <2>1. f \in File
    BY <1>1, <1>4 DEF IsFiles
  <2>2. g[n] = IF n = k THEN [f EXCEPT !.junk = FALSE] ELSE f
    BY <1>2, <1>4
  <2> HIDE DEF f
  <2>3. [f EXCEPT !.junk = FALSE] \in File
    BY <2>1
  <2>4. /\ g[n] \in File /\ g[n].recs = f.recs /\ g[n].stable = f.stable
        /\ g[n].entry = f.entry /\ (g[n].junk <=> f.junk /\ n # k)
    <3>1. CASE n = k
      BY <2>1, <2>2, <2>3, <3>1
    <3>2. CASE n # k
      BY <2>1, <2>2, <3>2
    <3> QED BY <3>1, <3>2
  <2> QED BY <2>4 DEF f
<1>5. IsFiles(g)
  BY <1>1, <1>3, <1>4 DEF IsFiles
<1>6. Holds(g, files)
  BY <1>1, <1>3, <1>4 DEF Holds
<1> QED BY <1>1, <1>4, <1>5, <1>6 DEF g

-----------------------------------------------------------------------------
(* The actions and the files.  Most of them leave every record where it is. *)

\* All actions but Create, Write, Unlink and PowerLoss.
KeepsRecs ==
    \/ AppendStart \/ Seal \/ WriteHeader \/ SyncHeader \/ SyncDir
    \/ WriteThrows \/ SealThrows \/ CreateThrows \/ HeaderThrows
    \/ \E s \in Syncers : SyncCapture(s) \/ SyncFsync(s) \/ SyncThrows(s)
    \/ TruncateStart \/ TruncateEnd
    \/ ProcessCrash \/ OpenEmpty \/ OpenExisting \/ OpenThrows

(* What they leave alone, and that a directory stays one. *)
LEMMA RecsKept ==
    ASSUME Types, KeepsRecs
    PROVE  /\ IsFiles(files') /\ Holds(files', files)
           /\ IsFiles(unlinked') /\ (unlinked' = unlinked \/ unlinked' = NoFiles)
<1>0. IsFiles(files) /\ IsFiles(unlinked) /\ files = [n \in DOMAIN files |-> files[n]]
  BY DEF Types, IsFiles
<1>1. Holds(files, files)
  BY <1>0 DEF Holds, IsFiles
<1>2. IsFiles(unlinked') /\ (unlinked' = unlinked \/ unlinked' = NoFiles)
  <2>1. unlinked' = unlinked \/ unlinked' = NoFiles
    BY DEF KeepsRecs, AppendStart, Seal, WriteHeader, SyncHeader, SyncDir, WriteThrows, SealThrows,
           CreateThrows, HeaderThrows, Throw, SyncCapture, SyncFsync, SyncThrows, TruncateStart,
           TruncateEnd, ProcessCrash, OpenEmpty, OpenExisting, OpenThrows
  <2> QED BY <1>0, <2>1, NoFilesAre
<1>3. CASE \/ AppendStart \/ SealThrows \/ CreateThrows \/ HeaderThrows \/ TruncateStart
           \/ OpenEmpty \/ OpenThrows \/ \E s \in Syncers : SyncCapture(s) \/ SyncThrows(s)
  <2>1. files' = files
    BY <1>3 DEF AppendStart, SealThrows, CreateThrows, HeaderThrows, TruncateStart, OpenEmpty,
                OpenThrows, SyncCapture, SyncThrows
  <2> QED BY <1>0, <1>1, <1>2, <2>1
<1>4. CASE Seal \/ SyncHeader \/ \E s \in Syncers : SyncFsync(s)
  <2>1. \E k : files' = Fsynced(k)
    BY <1>4 DEF Seal, SyncHeader, SyncFsync
  <2> QED BY <1>0, <1>2, <2>1, FsyncedFiles, FsyncHolds
<1>5. CASE WriteHeader \/ SyncDir \/ WriteThrows \/ TruncateEnd \/ ProcessCrash
  <2>1. /\ files' = [n \in DOMAIN files' |-> files'[n]] /\ DOMAIN files' = DOMAIN files
        /\ \A n \in DOMAIN files : \/ files'[n] = files[n]
                                   \/ files'[n] = [files[n] EXCEPT !.header = "written"]
                                   \/ files'[n] = [files[n] EXCEPT !.entry = "stable"]
                                   \/ files'[n] = [files[n] EXCEPT !.junk = TRUE]
    <3>1. CASE WriteHeader
      BY <1>0, <3>1 DEF WriteHeader
    <3>2. CASE SyncDir \/ TruncateEnd
      BY <1>0, <3>2 DEF SyncDir, TruncateEnd
    <3>3. CASE WriteThrows \/ ProcessCrash
      BY <1>0, <3>3 DEF WriteThrows, ProcessCrash
    <3> QED BY <1>5, <3>1, <3>2, <3>3
  <2> QED BY <1>0, <1>2, <2>1, FlagsOnly
<1>6. CASE OpenExisting
  <2>1. files' = CutTail(active') \/ files' = files
    BY <1>6 DEF OpenExisting
  <2> QED BY <1>0, <1>1, <1>2, <2>1, TornTail
<1> QED BY <1>3, <1>4, <1>5, <1>6 DEF KeepsRecs

(* The entries of segments_. *)
LEMMA SegmentsAre ==
    ASSUME NEW s, s \in Seq(Segment)
    PROVE  /\ Len(s) \in Nat /\ DOMAIN s = 1..Len(s)
           /\ \A i \in DOMAIN s : s[i] \in Segment /\ s[i].number \in Nat /\ s[i].last \in Nat
<1>1. Len(s) \in Nat /\ DOMAIN s = 1..Len(s) /\ \A i \in 1..Len(s) : s[i] \in Segment
  OBVIOUS
<1>2. \A g \in Segment : g.number \in Nat /\ g.last \in Nat
  BY DEF Segment
<1> QED BY <1>1, <1>2

(* The file open_new_segment_ creates is empty, and newer than any other. *)
LEMMA CreateFiles ==
    ASSUME Types, Stages, Shape, Create
    PROVE  \E number \in Nat \ {0} :
              /\ DOMAIN files' = DOMAIN files \cup {number} /\ IsFiles(files')
              /\ files'[number] = NewFile /\ NewFile.recs = <<>>
              /\ \A n \in DOMAIN files : files'[n] = files[n] /\ n < number
              /\ \A u \in DOMAIN unlinked : u < number
              /\ \A i \in DOMAIN segments : segments[i].number < number
<1> DEFINE number == IF segments = <<>> THEN 1 ELSE Last(segments).number + 1
<1>1. number \notin DOMAIN files /\ files' = With(files, number, NewFile)
  BY DEF Create
<1>2. /\ IsFiles(files) /\ segments \in Seq(Segment) /\ Len(segments) \in Nat
      /\ DOMAIN segments = 1..Len(segments)
  BY DEF Types
<1>3. number \in Nat \ {0} /\ \A i \in DOMAIN segments : segments[i].number < number
  <2>1. CASE segments = <<>>
    BY <1>2, <2>1
  <2>2. CASE segments # <<>>
    <3>1. Len(segments) > 0 /\ Len(segments) \in DOMAIN segments
      BY <1>2, <2>2
    <3>2. number = segments[Len(segments)].number + 1
      BY <2>2 DEF Last
    <3>3. \A i \in DOMAIN segments : /\ segments[i].number \in Nat
                                     /\ i = Len(segments) \/ i < Len(segments)
      BY <1>2, SegmentsAre
    <3>4. \A i \in DOMAIN segments : i < Len(segments) => segments[i].number < segments[Len(segments)].number
      BY <3>1 DEF Shape
    <3>5. \A i \in DOMAIN segments : segments[i].number <= segments[Len(segments)].number
      BY <3>1, <3>3, <3>4
    <3> QED BY <3>1, <3>2, <3>3, <3>5
  <2> QED BY <2>1, <2>2
<1>4. \A n \in DOMAIN files : n < number
  BY <1>3 DEF Create, Shape, Known
<1>5. \A u \in DOMAIN unlinked : u < number
  <2>1. \A u \in DOMAIN unlinked : u \in Nat /\ \E n \in DOMAIN files : n \in Nat /\ u < n
    BY DEF Shape, Types, IsFiles
  <2> QED BY <1>3, <1>4, <2>1
<1> HIDE DEF number
<1>6. /\ DOMAIN files' = DOMAIN files \cup {number} /\ files' = [n \in DOMAIN files' |-> files'[n]]
      /\ files'[number] = NewFile /\ \A n \in DOMAIN files : files'[n] = files[n]
  BY <1>1 DEF With
<1>7. NewFile \in File /\ NewFile.recs = <<>> /\ NewFile.stable <= Len(NewFile.recs)
  BY DEF NewFile
<1>8. IsFiniteSet(DOMAIN files')
  <2>1. IsFiniteSet(DOMAIN files)
    BY <1>2 DEF IsFiles
  <2> QED BY <1>6, <2>1, FS_AddElement
<1>9. IsFiles(files')
  BY <1>2, <1>3, <1>6, <1>7, <1>8 DEF IsFiles
<1> QED BY <1>3, <1>4, <1>5, <1>6, <1>7, <1>9

(* append() puts one frame at the end of the active file (wal.cpp:387-394). *)
LEMMA WriteFiles ==
    ASSUME Types, Stages, Shape, Write
    PROVE  /\ active \in DOMAIN files /\ DOMAIN files' = DOMAIN files /\ IsFiles(files')
           /\ \A n \in DOMAIN files : n # active => files'[n] = files[n]
           /\ files'[active].recs = Append(files[active].recs, arg)
           /\ files'[active].stable = files[active].stable /\ files'[active].entry = files[active].entry
           /\ files'[active].junk => files[active].junk
<1>1. PICK j \in {files[active].junk, FALSE} :
         files' = [files EXCEPT ![active].recs = Append(@, arg), ![active].junk = j]
  BY DEF Write
<1>2. active # 0 /\ active \in DOMAIN files /\ IsFiles(files) /\ arg \in Nat
  BY DEF Write, Stages, Shape, Types
<1> DEFINE f == files[active]
<1>3. f \in File /\ f.recs \in Seq(Nat) /\ Len(f.recs) \in Nat /\ f.stable \in Nat /\ f.stable <= Len(f.recs)
      /\ j \in BOOLEAN
  <2>1. f \in File /\ f.stable <= Len(f.recs)
    BY <1>2 DEF IsFiles
  <2> HIDE DEF f
  <2>2. f.recs \in Seq(Nat) /\ f.stable \in Nat /\ f.junk \in BOOLEAN
    BY <2>1
  <2>3. Len(f.recs) \in Nat
    BY <2>2
  <2>4. j \in {f.junk, FALSE}
    BY <1>1 DEF f
  <2> QED BY <2>1, <2>2, <2>3, <2>4
<1> DEFINE r == Append(f.recs, arg)
<1>4. r \in Seq(Nat) /\ Len(r) = Len(f.recs) + 1
  BY <1>2, <1>3
<1>5. files'[active] = [f EXCEPT !.recs = r, !.junk = j]
  BY <1>1, <1>2
<1>6. DOMAIN files' = DOMAIN files /\ files' = [n \in DOMAIN files' |-> files'[n]]
      /\ \A n \in DOMAIN files : n # active => files'[n] = files[n]
  BY <1>1
<1>7. j => f.junk
  BY <1>1
<1> HIDE DEF f, r
<1>8. files'[active] \in File
  BY <1>3, <1>4, <1>5
<1>9. /\ files'[active].recs = r /\ files'[active].stable = f.stable
      /\ files'[active].entry = f.entry /\ files'[active].junk = j
  BY <1>3, <1>4, <1>5
<1>10. files'[active].stable <= Len(files'[active].recs)
  BY <1>3, <1>4, <1>9
<1>11. IsFiles(files')
  BY <1>2, <1>6, <1>8, <1>10 DEF IsFiles
<1> QED BY <1>2, <1>6, <1>7, <1>9, <1>11 DEF f, r

(* truncate() takes a file all of whose records the snapshot covers, and not the last one
   (wal.cpp:424-433).                                                                       *)
LEMMA UnlinkFiles ==
    ASSUME WalInv, Unlink
    PROVE  \E x \in DOMAIN files :
              /\ DOMAIN files' = DOMAIN files \ {x} /\ IsFiles(files')
              /\ \A n \in DOMAIN files' : files'[n] = files[n]
              /\ DOMAIN unlinked' = DOMAIN unlinked \cup {x} /\ IsFiles(unlinked')
              /\ unlinked'[x] = files[x] /\ \A n \in DOMAIN unlinked : unlinked'[n] = unlinked[n]
              /\ \A i \in DOMAIN files[x].recs : files[x].recs[i] <= covered
              /\ x # active /\ segments[Len(segments)].number # x
              /\ \E n \in DOMAIN files' : x < n
<1>0. Types /\ Stages /\ Shape /\ Order /\ Bounds /\ SegmentsDescribeFiles
  BY DEF WalInv
<1>1. PICK i \in DOMAIN segments :
         /\ Covered(i) /\ segments[i].number \in DOMAIN files
         /\ unlinked' = With(unlinked, segments[i].number, files[segments[i].number])
         /\ files' = Without(files, {segments[i].number})
  BY DEF Unlink
<1> DEFINE x == segments[i].number
           last == segments[Len(segments)].number
<1>2. /\ segments \in Seq(Segment) /\ Len(segments) \in Nat /\ i \in 1..Len(segments)
      /\ i < Len(segments) /\ Len(segments) \in DOMAIN segments
  BY <1>0, <1>1, SegmentsAre DEF Types, Covered
<1>3. x < last /\ last \in DOMAIN files /\ (active # 0 => active = last)
  BY <1>0, <1>2 DEF Shape
<1>4. x \in DOMAIN files /\ x \in Nat \ {0} /\ last \in Nat /\ IsFiles(files) /\ IsFiles(unlinked)
  BY <1>0, <1>1, <1>3 DEF Types, IsFiles
<1>5. \A k \in DOMAIN files[x].recs : files[x].recs[k] <= covered
  <2> DEFINE recs == files[x].recs
  <2>1. recs \in Seq(Nat) /\ Len(recs) \in Nat /\ DOMAIN recs = 1..Len(recs)
    BY <1>4 DEF IsFiles
  <2>2. segments[i].last = IF recs = <<>> THEN 0 ELSE Last(recs)
    BY <1>0, <1>1 DEF SegmentsDescribeFiles
  <2>3. segments[i].last # 0 /\ segments[i].last <= arg
    BY <1>1 DEF Covered
  <2>4. recs # <<>> /\ recs[Len(recs)] <= arg /\ Len(recs) \in DOMAIN recs
    BY <2>1, <2>2, <2>3 DEF Last
  <2>5. arg \in Nat /\ covered \in Nat /\ arg <= covered
    BY <1>0 DEF Bounds, Unlink, Types
  <2>6. ASSUME NEW k \in DOMAIN recs, k # Len(recs)
        PROVE  recs[k] < recs[Len(recs)]
    <3>1. x \in AnyFile /\ Recs(x) = recs
      BY <1>4 DEF AnyFile, Recs
    <3>2. k < Len(recs)
      BY <2>1, <2>6
    <3> HIDE DEF recs, x
    <3> QED BY <1>0, <2>4, <2>6, <3>1, <3>2 DEF Order
  <2>7. \A k \in DOMAIN recs : recs[k] \in Nat
    BY <2>1
  <2> QED BY <2>4, <2>5, <2>6, <2>7
<1>6. DOMAIN files' = DOMAIN files \ {x} /\ (\A n \in DOMAIN files' : files'[n] = files[n])
      /\ files' = [n \in DOMAIN files' |-> files'[n]]
  BY <1>1 DEF Without
<1>7. /\ DOMAIN unlinked' = DOMAIN unlinked \cup {x} /\ unlinked' = [n \in DOMAIN unlinked' |-> unlinked'[n]]
      /\ unlinked'[x] = files[x] /\ \A n \in DOMAIN unlinked : n # x => unlinked'[n] = unlinked[n]
  BY <1>1 DEF With
<1>8. x \notin DOMAIN unlinked
  BY <1>0, <1>4 DEF Shape
<1>9. IsFiniteSet(DOMAIN files') /\ IsFiniteSet(DOMAIN unlinked')
  <2>1. IsFiniteSet(DOMAIN files) /\ IsFiniteSet(DOMAIN unlinked)
    BY <1>4 DEF IsFiles
  <2> HIDE DEF x
  <2> QED BY <1>6, <1>7, <2>1, FS_AddElement, FS_RemoveElement
<1> HIDE DEF x, last
<1>10. IsFiles(files')
  BY <1>4, <1>6, <1>9 DEF IsFiles
<1>11. IsFiles(unlinked')
  BY <1>4, <1>7, <1>9 DEF IsFiles
<1>12. x # active /\ last # x /\ last \in DOMAIN files'
  BY <1>3, <1>4, <1>6
<1> QED BY <1>3, <1>4, <1>5, <1>6, <1>7, <1>8, <1>10, <1>11, <1>12 DEF last

(* What is left of a file after a power failure is the start of it, what was fsynced at the
   least.                                                                                    *)
LEMMA RemainsOfFile ==
    ASSUME NEW f \in File, f.stable <= Len(f.recs), NEW g \in Remains(f)
    PROVE  /\ g \in File /\ g.stable = Len(g.recs) /\ g.entry = "stable"
           /\ Len(g.recs) \in Nat /\ f.stable <= Len(g.recs) /\ Len(g.recs) <= Len(f.recs)
           /\ DOMAIN g.recs \subseteq DOMAIN f.recs
           /\ \A i \in DOMAIN g.recs : g.recs[i] = f.recs[i]
           /\ \A i \in DOMAIN f.recs : i <= f.stable => i \in DOMAIN g.recs
           /\ Complete(f) => Len(g.recs) = Len(f.recs) /\ DOMAIN g.recs = DOMAIN f.recs
           /\ g.junk => f.junk \/ ~Complete(f)
<1>1. f.recs \in Seq(Nat) /\ f.stable \in Nat /\ f.junk \in BOOLEAN
      /\ f.header \in {"none", "written", "stable"}
  OBVIOUS
<1>2. Len(f.recs) \in Nat /\ DOMAIN f.recs = 1..Len(f.recs)
  BY <1>1
<1> DEFINE H == IF f.header = "written" THEN {"none", "stable"} ELSE {f.header}
           K == f.stable..Len(f.recs)
           J == IF f.stable = Len(f.recs) THEN {f.junk} ELSE BOOLEAN
           left(h, k, j) == [header |-> h, entry |-> "stable", recs |-> SubSeq(f.recs, 1, k),
                             stable |-> k, junk |-> j]
<1>3. PICK h \in H, k \in K, j \in J : g = left(h, k, j)
  <2>1. Remains(f) = {left(h, k, j) : h \in H, k \in K, j \in J}
    BY DEF Remains
  <2> HIDE DEF H, K, J, left
  <2> QED BY <2>1
<1> DEFINE r == SubSeq(f.recs, 1, k)
<1>4. /\ k \in Nat /\ k <= Len(f.recs) /\ r \in Seq(Nat) /\ Len(r) = k /\ DOMAIN r = 1..k
      /\ \A i \in 1..k : r[i] = f.recs[i]
  BY <1>1, <1>2
<1>5. j \in BOOLEAN /\ h \in {"none", "written", "stable"}
  BY <1>1
<1>6. g = [header |-> h, entry |-> "stable", recs |-> r, stable |-> k, junk |-> j]
  BY <1>3
<1> HIDE DEF r
<1>7. g \in File /\ g.recs = r /\ g.stable = k /\ g.entry = "stable" /\ g.junk = j
  BY <1>4, <1>5, <1>6
<1>8. g.junk => f.junk \/ ~Complete(f)
  BY <1>7 DEF Complete
<1>9. Complete(f) => k = Len(f.recs)
  BY <1>1, <1>2 DEF Complete
<1> QED BY <1>1, <1>2, <1>4, <1>7, <1>8, <1>9

(* A power failure leaves a part of what each file held, of the unlinked ones, too; a file whose
   name is stable stays.                                                                        *)
LEMMA PowerFiles ==
    ASSUME Types, PowerLoss
    PROVE  /\ IsFiles(files') /\ DOMAIN files' \subseteq AnyFile
           /\ \A n \in DOMAIN files' :
                 \/ n \in DOMAIN files /\ files'[n] \in Remains(files[n])
                 \/ n \notin DOMAIN files /\ n \in DOMAIN unlinked /\ files'[n] \in Remains(unlinked[n])
           /\ \A n \in DOMAIN files : files[n].entry = "stable" => n \in DOMAIN files'
<1> DEFINE named == {n \in DOMAIN files : files[n].entry = "stable"}
           maybe == (DOMAIN files \ named) \cup DOMAIN unlinked
           content(n) == IF n \in DOMAIN files THEN files[n] ELSE unlinked[n]
<1>1. PICK back \in SUBSET maybe :
         \E left \in [named \cup back -> UNION {Remains(content(n)) : n \in named \cup maybe}] :
            /\ \A n \in DOMAIN left : left[n] \in Remains(content(n))
            /\ files' = left
  BY DEF PowerLoss
<1>2. /\ DOMAIN files' = named \cup back /\ files' = [n \in DOMAIN files' |-> files'[n]]
      /\ \A n \in DOMAIN files' : files'[n] \in Remains(content(n))
  BY <1>1
<1>3. named \cup back \subseteq AnyFile /\ IsFiles(files) /\ IsFiles(unlinked)
  BY DEF AnyFile, Types
<1>4. ASSUME NEW n \in AnyFile
      PROVE  content(n) \in File /\ content(n).stable <= Len(content(n).recs) /\ n \in Nat \ {0}
  BY <1>3 DEF IsFiles, AnyFile
<1>5. \A n \in DOMAIN files' : \/ n \in DOMAIN files /\ files'[n] \in Remains(files[n])
                               \/ n \notin DOMAIN files /\ n \in DOMAIN unlinked
                                  /\ files'[n] \in Remains(unlinked[n])
  BY <1>2, <1>3 DEF AnyFile
<1>6. \A n \in DOMAIN files : files[n].entry = "stable" => n \in DOMAIN files'
  BY <1>2
<1>7. IsFiniteSet(DOMAIN files')
  <2>1. IsFiniteSet(DOMAIN files) /\ IsFiniteSet(DOMAIN unlinked)
    BY <1>3 DEF IsFiles
  <2>2. IsFiniteSet(AnyFile)
    BY <2>1, FS_Union DEF AnyFile
  <2>3. DOMAIN files' \in SUBSET AnyFile
    BY <1>2, <1>3
  <2> QED BY ONLY <2>2, <2>3, FS_Subset
<1> HIDE DEF content, named
<1>8. \A n \in DOMAIN files' : /\ files'[n] \in File /\ n \in Nat \ {0}
                               /\ files'[n].stable <= Len(files'[n].recs)
  <2> SUFFICES ASSUME NEW n \in DOMAIN files'
               PROVE  files'[n] \in File /\ n \in Nat \ {0} /\ files'[n].stable <= Len(files'[n].recs)
    OBVIOUS
  <2>1. n \in AnyFile /\ files'[n] \in Remains(content(n))
    BY <1>2, <1>3
  <2>2. content(n) \in File /\ content(n).stable <= Len(content(n).recs) /\ n \in Nat \ {0}
    BY <1>4, <2>1
  <2>3. /\ files'[n] \in File /\ files'[n].stable = Len(files'[n].recs)
        /\ Len(files'[n].recs) \in Nat
    BY <2>1, <2>2, RemainsOfFile
  <2> QED BY <2>2, <2>3
<1>9. IsFiles(files')
  BY <1>2, <1>7, <1>8 DEF IsFiles
<1> QED BY <1>2, <1>3, <1>5, <1>6, <1>9

-----------------------------------------------------------------------------
(* The increasing order of a set of numbers. *)

(* Numbers in order: each once, and the largest last (std::sort in discover_segments_,
   wal.cpp:225).                                                                         *)
LEMMA InOrderIs ==
    ASSUME NEW S, S \subseteq Nat, IsFiniteSet(S), NEW s \in InOrder(S)
    PROVE  /\ s \in Seq(S) /\ Len(s) \in Nat /\ DOMAIN s = 1..Len(s)
           /\ \A i \in DOMAIN s : s[i] \in S
           /\ \A x \in S : \E i \in DOMAIN s : s[i] = x
           /\ \A i, j \in DOMAIN s : i < j => s[i] < s[j]
           /\ S # {} => s # <<>> /\ Len(s) \in DOMAIN s /\ Last(s) = s[Len(s)] /\ IsLast(Last(s), S)
<1> DEFINE N == Cardinality(S)
<1>1. N \in Nat
  BY FS_CardinalityType
<1>2. /\ s \in [1..N -> S] /\ \A x \in S : \E i \in 1..N : s[i] = x
      /\ \A i, j \in DOMAIN s : i < j => s[i] < s[j]
  BY DEF InOrder, Bijection, Injection, Surjection
<1> HIDE DEF N
<1>3. s \in Seq(S) /\ Len(s) = N /\ DOMAIN s = 1..N
  BY <1>1, <1>2
<1>4. ASSUME S # {}
      PROVE  s # <<>> /\ N \in DOMAIN s /\ Last(s) = s[N] /\ IsLast(s[N], S)
  <2>1. N >= 1 /\ N \in DOMAIN s
    <3>1. PICK x \in S : TRUE
      BY <1>4
    <3>2. PICK i \in 1..N : s[i] = x
      BY <1>2
    <3> QED BY <1>1, <1>3, <3>2
  <2>2. ASSUME NEW x \in S
        PROVE  x <= s[N]
    <3>1. PICK i \in 1..N : s[i] = x
      BY <1>2
    <3>2. i < N => s[i] < s[N]
      BY <1>2, <1>3, <2>1
    <3>3. i = N \/ i < N
      BY <1>1
    <3>4. s[i] \in Nat /\ s[N] \in Nat
      BY <1>2, <1>3, <2>1
    <3> QED BY <3>1, <3>2, <3>3, <3>4
  <2>3. s # <<>> /\ Last(s) = s[N]
    BY <1>3, <2>1 DEF Last
  <2> QED BY <1>2, <2>1, <2>2, <2>3
<1> QED BY <1>1, <1>2, <1>3, <1>4

(* open() and replay() describe every file, in number order, and the last one becomes the
   active one (wal.cpp:275-318).                                                           *)
LEMMA OpenSegments ==
    ASSUME Types, OpenExisting
    PROVE  /\ segments' \in Seq(Segment) /\ segments' # <<>> /\ Len(segments') \in Nat
           /\ Len(segments') \in DOMAIN segments' /\ DOMAIN segments' = 1..Len(segments')
           /\ active' = segments'[Len(segments')].number /\ IsLast(active', DOMAIN files)
           /\ \A i, j \in DOMAIN segments' : i < j => segments'[i].number < segments'[j].number
           /\ \A i \in DOMAIN segments' :
                 /\ segments'[i].number \in DOMAIN files
                 /\ segments'[i].sealed <=> i # Len(segments')
                 /\ LET recs == files[segments'[i].number].recs
                    IN  segments'[i].last = IF recs = <<>> THEN 0 ELSE Last(recs)
           /\ \A n \in DOMAIN files : \E i \in DOMAIN segments' : segments'[i].number = n
<1> DEFINE last(n) == IF files[n].recs = <<>> THEN 0 ELSE Last(files[n].recs)
<1>1. PICK order \in InOrder(DOMAIN files) :
         /\ active' = Last(order)
         /\ segments' = [i \in DOMAIN order |->
                           [number |-> order[i], sealed |-> i # Len(order), last |-> last(order[i])]]
  BY DEF OpenExisting, SegmentOrder
<1>2. DOMAIN files # {} /\ DOMAIN files \subseteq Nat /\ IsFiniteSet(DOMAIN files)
  BY DEF OpenExisting, Types, IsFiles
<1>3. /\ order \in Seq(DOMAIN files) /\ Len(order) \in Nat /\ DOMAIN order = 1..Len(order)
      /\ \A i \in DOMAIN order : order[i] \in DOMAIN files
      /\ \A x \in DOMAIN files : \E i \in DOMAIN order : order[i] = x
      /\ \A i, j \in DOMAIN order : i < j => order[i] < order[j]
      /\ Len(order) \in DOMAIN order /\ Last(order) = order[Len(order)] /\ IsLast(Last(order), DOMAIN files)
  BY <1>1, <1>2, InOrderIs
<1>4. ASSUME NEW n \in DOMAIN files
      PROVE  last(n) \in Nat
  <2> DEFINE recs == files[n].recs
  <2>1. recs \in Seq(Nat)
    BY DEF Types, IsFiles
  <2> HIDE DEF recs
  <2>2. recs # <<>> => Last(recs) \in Nat
    BY <2>1 DEF Last
  <2> QED BY <2>2 DEF recs
<1> HIDE DEF last
<1> DEFINE g(i) == [number |-> order[i], sealed |-> i # Len(order), last |-> last(order[i])]
<1>5. \A i \in DOMAIN order : /\ g(i) \in Segment /\ g(i).number = order[i] /\ g(i).last = last(order[i])
                              /\ g(i).sealed <=> i # Len(order)
  BY <1>2, <1>3, <1>4 DEF Segment
<1>6. segments' = [i \in 1..Len(order) |-> g(i)]
  BY <1>1, <1>3
<1> HIDE DEF g
<1>7. segments' \in Seq(Segment) /\ Len(segments') = Len(order) /\ DOMAIN segments' = DOMAIN order
      /\ \A i \in DOMAIN order : segments'[i] = g(i)
  BY <1>3, <1>5, <1>6
<1>8. segments' # <<>>
  BY <1>3, <1>7
<1>9. \A i \in DOMAIN segments' : /\ segments'[i].number = order[i] /\ segments'[i].last = last(order[i])
                                  /\ segments'[i].sealed <=> i # Len(order)
  BY <1>5, <1>7
<1> QED BY <1>1, <1>3, <1>7, <1>8, <1>9 DEF last

(* truncate() keeps the segments whose files are left, the last one among them
   (wal.cpp:420-447).                                                          *)
LEMMA TruncateSegments ==
    ASSUME WalInv, TruncateEnd
    PROVE  /\ segments' \in Seq(Segment) /\ segments' # <<>> /\ Len(segments') \in Nat
           /\ Len(segments') \in DOMAIN segments' /\ DOMAIN segments' = 1..Len(segments')
           /\ segments'[Len(segments')] = segments[Len(segments)]
           /\ \A i, j \in DOMAIN segments' : i < j => segments'[i].number < segments'[j].number
           /\ \A i \in DOMAIN segments' :
                 \E k \in DOMAIN segments : /\ segments'[i] = segments[k]
                                            /\ segments[k].number \in DOMAIN files
           /\ \A k \in DOMAIN segments : segments[k].number \in DOMAIN files =>
                 \E i \in DOMAIN segments' : segments'[i] = segments[k]
<1> DEFINE S == {i \in DOMAIN segments : segments[i].number \in DOMAIN files}
           N == Len(segments)
<1>1. PICK left \in InOrder(S) : segments' = [i \in DOMAIN left |-> segments[left[i]]]
  BY DEF TruncateEnd
<1>2. /\ segments \in Seq(Segment) /\ N \in Nat /\ DOMAIN segments = 1..N
      /\ segments # <<>> /\ state = "open"
  BY SegmentsAre DEF WalInv, Types, Stages, TruncateEnd
<1>3. N \in S /\ \A i, j \in DOMAIN segments : i < j => segments[i].number < segments[j].number
  BY <1>2 DEF WalInv, Shape
<1>4. S \subseteq Nat /\ IsFiniteSet(S)
  <2>1. S \in SUBSET (1..N) /\ IsFiniteSet(1..N)
    BY <1>2, FS_Interval
  <2>2. IsFiniteSet(S)
    BY ONLY <2>1, FS_Subset
  <2> QED BY <2>1, <2>2
<1>5. /\ left \in Seq(S) /\ Len(left) \in Nat /\ DOMAIN left = 1..Len(left)
      /\ \A i \in DOMAIN left : left[i] \in S
      /\ \A x \in S : \E i \in DOMAIN left : left[i] = x
      /\ \A i, j \in DOMAIN left : i < j => left[i] < left[j]
      /\ Len(left) \in DOMAIN left /\ Last(left) = left[Len(left)] /\ IsLast(Last(left), S)
  BY <1>1, <1>3, <1>4, InOrderIs
<1>6. left[Len(left)] = N
  <2>1. left[Len(left)] \in S /\ N <= left[Len(left)] /\ \A x \in S : x \in 1..N
    BY <1>2, <1>3, <1>5
  <2> HIDE DEF S, N
  <2> QED BY <1>2, <2>1
<1>7. \A i \in DOMAIN left : segments[left[i]] \in Segment
  BY <1>2, <1>5
<1>8. segments' \in Seq(Segment) /\ Len(segments') = Len(left) /\ DOMAIN segments' = DOMAIN left
      /\ \A i \in DOMAIN left : segments'[i] = segments[left[i]]
  BY <1>1, <1>5, <1>7
<1>9. segments' # <<>>
  BY <1>5, <1>8
<1>10. /\ \A i \in DOMAIN left : left[i] \in DOMAIN segments /\ segments[left[i]].number \in DOMAIN files
       /\ \A k \in DOMAIN segments : segments[k].number \in DOMAIN files => k \in S
  BY <1>5
<1> HIDE DEF S
<1>11. \A i, j \in DOMAIN segments' : i < j => segments'[i].number < segments'[j].number
  BY <1>3, <1>5, <1>8, <1>10
<1>12. \A k \in DOMAIN segments : segments[k].number \in DOMAIN files =>
                 \E i \in DOMAIN segments' : segments'[i] = segments[k]
  BY <1>5, <1>8, <1>10
<1> QED BY <1>5, <1>6, <1>8, <1>9, <1>10, <1>11, <1>12

-----------------------------------------------------------------------------
(* WalInv, conjunct by conjunct. *)

(* A directory stays one. *)
LEMMA FilesNext ==
    ASSUME WalInv, Next
    PROVE  IsFiles(files') /\ IsFiles(unlinked')
<1>0. Types /\ Stages /\ Shape
  BY DEF WalInv
<1>1. CASE Create
  <2>1. unlinked' = unlinked
    BY <1>1 DEF Create
  <2> QED BY <1>0, <1>1, <2>1, CreateFiles DEF Types
<1>2. CASE Write
  <2>1. unlinked' = unlinked
    BY <1>2 DEF Write
  <2> QED BY <1>0, <1>2, <2>1, WriteFiles DEF Types
<1>3. CASE Unlink
  BY <1>3, UnlinkFiles
<1>4. CASE PowerLoss
  <2>1. unlinked' = NoFiles
    BY <1>4 DEF PowerLoss
  <2> QED BY <1>0, <1>4, <2>1, PowerFiles, NoFilesAre
<1>5. CASE KeepsRecs
  BY <1>0, <1>5, RecsKept
<1> QED BY <1>1, <1>2, <1>3, <1>4, <1>5 DEF Next, KeepsRecs

(* The file being created is the newest one. *)
LEMMA NewestIs ==
    ASSUME WalInv, Creating
    PROVE  /\ Newest \in DOMAIN files /\ Newest \in Nat \ {0} /\ IsLast(Newest, DOMAIN files)
           /\ files[Newest].recs = <<>>
           /\ \A m \in DOMAIN files : m # Newest <=> Known(m)
<1>1. PICK n \in DOMAIN files : /\ files[n].recs = <<>> /\ IsLast(n, DOMAIN files)
                                /\ \A m \in DOMAIN files : m # n <=> Known(m)
  BY DEF WalInv, Shape
<1>2. DOMAIN files \subseteq Nat \ {0}
  BY DEF WalInv, Types, IsFiles
<1>3. \A m \in DOMAIN files : IsLast(m, DOMAIN files) => m = n
  BY <1>1, <1>2
<1>4. Newest = n
  BY <1>1, <1>3 DEF Newest
<1> QED BY <1>1, <1>2, <1>4

(* The types of the log's variables. *)
LEMMA TypesNext ==
    ASSUME WalInv, Next
    PROVE  Types'
<1>0. Types /\ Stages /\ Shape /\ IsFiles(files') /\ IsFiles(unlinked')
  BY FilesNext DEF WalInv
<1> DEFINE Mem == segments \in Seq(Segment) /\ active \in Nat /\ highest \in Nat
           Rest == /\ state \in {"closed", "open", "failed"}
                   /\ io \in IoStates /\ arg \in Nat
                   /\ sync \in [Syncers -> [number : Nat, target : Nat]]
                   /\ nextLsn \in Nat /\ synced \subseteq Nat /\ covered \in Nat /\ crashes \in Nat
<1>1. Mem /\ Rest
  BY <1>0 DEF Types
<1>2. Len(segments) \in Nat /\ DOMAIN segments = 1..Len(segments)
      /\ (segments # <<>> => Len(segments) \in DOMAIN segments)
  BY <1>1, SegmentsAre
<1>3. CASE AppendStart \/ CreateThrows \/ SealThrows \/ HeaderThrows \/ WriteThrows
  <2>1. Mem'
    BY <1>1, <1>3 DEF AppendStart, CreateThrows, SealThrows, HeaderThrows, WriteThrows, Throw
  <2>2. Rest'
    BY <1>1, <1>3 DEF AppendStart, CreateThrows, SealThrows, HeaderThrows, WriteThrows, Throw, IoStates
  <2> QED BY <1>0, <2>1, <2>2 DEF Types
<1>4. CASE Create \/ WriteHeader \/ SyncHeader \/ OpenEmpty \/ OpenThrows \/ TruncateStart \/ Unlink
  <2>1. Mem'
    BY <1>1, <1>4 DEF Create, WriteHeader, SyncHeader, OpenEmpty, OpenThrows, TruncateStart, Unlink
  <2>2. Rest'
    BY <1>1, <1>4 DEF Create, WriteHeader, SyncHeader, OpenEmpty, OpenThrows, TruncateStart, Unlink, IoStates
  <2> QED BY <1>0, <2>1, <2>2 DEF Types
<1>5. CASE Seal
  <2>1. segments' \in Seq(Segment)
    <3>1. segments # <<>>
      BY <1>0, <1>5 DEF Seal, Stages, Shape
    <3>2. segments[Len(segments)] \in Segment
      BY <1>1, <1>2, <3>1, SegmentsAre
    <3>3. [segments[Len(segments)] EXCEPT !.sealed = TRUE] \in Segment
      BY <3>2 DEF Segment
    <3>4. segments' = [segments EXCEPT ![Len(segments)] = [segments[Len(segments)] EXCEPT !.sealed = TRUE]]
      BY <1>5 DEF Seal
    <3> QED BY <1>1, <1>2, <3>1, <3>3, <3>4
  <2>2. Mem' /\ Rest'
    BY <1>1, <1>5, <2>1 DEF Seal, IoStates
  <2> QED BY <1>0, <2>2 DEF Types
<1>6. CASE SyncDir
  <2>1. Newest \in Nat
    BY <1>6, NewestIs DEF SyncDir, Creating
  <2>2. [number |-> Newest, last |-> 0, sealed |-> FALSE] \in Segment
    BY <2>1 DEF Segment
  <2>3. segments' \in Seq(Segment)
    BY <1>1, <1>6, <2>2 DEF SyncDir
  <2>4. Mem'
    BY <1>1, <1>6, <2>1, <2>3 DEF SyncDir
  <2>5. Rest'
    BY <1>1, <1>6 DEF SyncDir, IoStates
  <2> QED BY <1>0, <2>4, <2>5 DEF Types
<1>7. CASE Write
  <2>1. segments' \in Seq(Segment)
    <3>1. segments # <<>>
      BY <1>0, <1>7 DEF Write, Stages, Shape
    <3>2. segments[Len(segments)] \in Segment
      BY <1>1, <1>2, <3>1, SegmentsAre
    <3>3. [segments[Len(segments)] EXCEPT !.last = arg] \in Segment
      BY <1>1, <3>2 DEF Segment
    <3>4. segments' = [segments EXCEPT ![Len(segments)] = [segments[Len(segments)] EXCEPT !.last = arg]]
      BY <1>7 DEF Write
    <3> QED BY <1>1, <1>2, <3>1, <3>3, <3>4
  <2>2. Mem' /\ Rest'
    BY <1>1, <1>7, <2>1, LargerIs DEF Write, IoStates
  <2> QED BY <1>0, <2>2 DEF Types
<1>8. ASSUME NEW s \in Syncers, SyncCapture(s) \/ SyncFsync(s) \/ SyncThrows(s)
      PROVE  Types'
  <2>1. Mem'
    BY <1>1, <1>8 DEF SyncCapture, SyncFsync, SyncThrows
  <2>2. sync' \in [Syncers -> [number : Nat, target : Nat]]
    <3> DEFINE Target == [number : Nat, target : Nat]
               captured == [number |-> active, target |-> highest]
    <3>1. NoSync \in Target /\ captured \in Target
      BY <1>1 DEF NoSync
    <3>2. sync' = [sync EXCEPT ![s] = captured] \/ sync' = [sync EXCEPT ![s] = NoSync]
      BY <1>8 DEF SyncCapture, SyncFsync, SyncThrows
    <3>3. sync \in [Syncers -> Target]
      BY <1>1
    <3> HIDE DEF Target, captured
    <3>4. sync' \in [Syncers -> Target]
      BY <1>8, <3>1, <3>2, <3>3
    <3> QED BY <3>4 DEF Target
  <2>3. synced' \subseteq Nat
    <3>1. AllLsns(files) \subseteq Nat
      <4>1. \A n \in DOMAIN files : files[n].recs \in Seq(Nat)
        BY <1>0 DEF Types, IsFiles
      <4> QED BY <4>1 DEF AllLsns, Lsns
    <3> QED BY <1>1, <1>8, <3>1 DEF SyncCapture, SyncFsync, SyncThrows
  <2>4. Rest'
    BY <1>1, <1>8, <2>2, <2>3 DEF SyncCapture, SyncFsync, SyncThrows
  <2> QED BY <1>0, <2>1, <2>4 DEF Types
<1>9. CASE TruncateEnd
  <2>1. segments' \in Seq(Segment)
    BY <1>9, TruncateSegments
  <2>2. Mem' /\ Rest'
    BY <1>1, <1>9, <2>1 DEF TruncateEnd, IoStates
  <2> QED BY <1>0, <2>2 DEF Types
<1>10. CASE ProcessCrash \/ PowerLoss
  <2>1. Mem'
    <3>1. segments' = <<>> /\ active' = 0 /\ highest' = 0
      BY <1>10 DEF ProcessCrash, PowerLoss, Forget
    <3> QED BY <3>1
  <2>2. sync' \in [Syncers -> [number : Nat, target : Nat]]
    BY <1>1, <1>10 DEF ProcessCrash, PowerLoss, Forget, NoSync
  <2>3. Rest'
    BY <1>1, <1>10, <2>2 DEF ProcessCrash, PowerLoss, Forget, IoStates
  <2> QED BY <1>0, <2>1, <2>3 DEF Types
<1>11. CASE OpenExisting
  <2>1. segments' \in Seq(Segment) /\ active' \in Nat
    <3>1. DOMAIN files \subseteq Nat
      BY <1>0 DEF Types, IsFiles
    <3> QED BY <1>0, <1>11, <3>1, OpenSegments
  <2>2. highest' \in Nat
    <3>1. \A n \in DOMAIN files : files[n].recs \in Seq(Nat)
      BY <1>0 DEF Types, IsFiles
    <3>2. AllLsns(files) \subseteq Nat
      BY <3>1 DEF AllLsns, Lsns
    <3> QED BY <1>11, <3>2 DEF OpenExisting
  <2>3. Mem' /\ Rest'
    <3>1. /\ nextLsn' = Larger(covered, highest') + 1 /\ state' = "open"
          /\ UNCHANGED <<io, arg, sync, synced, covered, crashes>>
      BY <1>11 DEF OpenExisting
    <3>2. Larger(covered, highest') \in Nat
      BY <1>1, <2>2, LargerIs
    <3> QED BY <1>1, <2>1, <2>2, <3>1, <3>2
  <2> QED BY <1>0, <2>3 DEF Types
<1> QED BY <1>3, <1>4, <1>5, <1>6, <1>7, <1>8, <1>9, <1>10, <1>11 DEF Next

(* Where the log stands. *)
LEMMA StagesNext ==
    ASSUME WalInv, Next
    PROVE  Stages'
<1>0. Stages /\ segments \in Seq(Segment)
  BY DEF WalInv, Types
<1>1. Len(segments) \in Nat /\ DOMAIN segments = 1..Len(segments)
  BY <1>0, SegmentsAre
<1>2. CASE AppendStart \/ CreateThrows \/ SealThrows \/ HeaderThrows \/ WriteThrows
  BY <1>0, <1>2 DEF Stages, Creating, AppendStart, CreateThrows, SealThrows, HeaderThrows, WriteThrows, Throw
<1>3. CASE Create \/ WriteHeader \/ SyncHeader \/ TruncateStart \/ Unlink
  BY <1>0, <1>3 DEF Stages, Creating, Create, WriteHeader, SyncHeader, TruncateStart, Unlink
<1>4. CASE OpenEmpty \/ OpenThrows
  BY <1>0, <1>4 DEF Stages, Creating, OpenEmpty, OpenThrows
<1>5. CASE Seal \/ Write
  <2>1. segments # <<>> /\ state = "open"
    BY <1>0, <1>5 DEF Stages, Seal, Write
  <2>2. segments' # <<>>
    <3>1. DOMAIN segments' = DOMAIN segments
      BY <1>5 DEF Seal, Write
    <3>2. DOMAIN segments # {}
      BY <1>1, <2>1, <1>0
    <3> QED BY <3>1, <3>2
  <2> QED BY <1>0, <1>5, <2>1, <2>2 DEF Stages, Creating, Seal, Write
<1>6. CASE SyncDir
  <2>1. segments' # <<>>
    BY <1>0, <1>6 DEF SyncDir
  <2>2. Newest # 0
    BY <1>6, NewestIs DEF SyncDir, Creating
  <2> QED BY <1>0, <1>6, <2>1, <2>2 DEF Stages, Creating, SyncDir
<1>7. ASSUME NEW s \in Syncers, SyncCapture(s) \/ SyncFsync(s) \/ SyncThrows(s)
      PROVE  Stages'
  <2>1. state = "open" /\ state' = "open" /\ segments' = segments /\ active' = active /\ io' = io
    BY <1>0, <1>7 DEF Stages, SyncCapture, SyncFsync, SyncThrows
  <2> QED BY <1>0, <2>1 DEF Stages, Creating
<1>8. CASE TruncateEnd
  <2>1. segments' # <<>>
    BY <1>8, TruncateSegments
  <2> QED BY <1>0, <1>8, <2>1 DEF Stages, Creating, TruncateEnd
<1>9. CASE ProcessCrash \/ PowerLoss
  <2>1. /\ state' = "closed" /\ segments' = <<>> /\ active' = 0 /\ highest' = 0 /\ io' = "free"
        /\ sync' = [s \in Syncers |-> NoSync]
    BY <1>9 DEF ProcessCrash, PowerLoss, Forget
  <2> QED BY <2>1 DEF Stages, Creating
<1>10. CASE OpenExisting
  <2>1. segments' # <<>>
    BY <1>10, OpenSegments DEF WalInv
  <2> QED BY <1>0, <1>10, <2>1 DEF Stages, Creating, OpenExisting
<1> QED BY <1>2, <1>3, <1>4, <1>5, <1>6, <1>7, <1>8, <1>9, <1>10 DEF Next

(* segments_ grows at its end only, and says of a segment what it said. *)
LEMMA SealedSegments ==
    ASSUME WalInv, Seal \/ Write
    PROVE  /\ segments # <<>> /\ Len(segments) \in DOMAIN segments
           /\ Len(segments') = Len(segments) /\ DOMAIN segments' = DOMAIN segments
           /\ \A i \in DOMAIN segments : segments'[i].number = segments[i].number
           /\ \A i \in DOMAIN segments : i # Len(segments) => segments'[i] = segments[i]
           /\ Seal => /\ segments'[Len(segments)].last = segments[Len(segments)].last
                      /\ segments'[Len(segments)].sealed = TRUE
           /\ Write => /\ segments'[Len(segments)].last = arg
                       /\ segments'[Len(segments)].sealed = segments[Len(segments)].sealed
<1>1. /\ segments \in Seq(Segment) /\ segments # <<>> /\ Len(segments) \in Nat
      /\ Len(segments) \in DOMAIN segments /\ DOMAIN segments = 1..Len(segments)
  <2>1. segments \in Seq(Segment) /\ segments # <<>>
    BY DEF WalInv, Types, Stages, Shape, Seal, Write
  <2> QED BY <2>1, SegmentsAre
<1> DEFINE N == Len(segments)
           g == segments[N]
<1>2. g \in Segment
  BY <1>1, SegmentsAre
<1>3. \/ Seal /\ segments' = [segments EXCEPT ![N] = [g EXCEPT !.sealed = TRUE]]
      \/ Write /\ segments' = [segments EXCEPT ![N] = [g EXCEPT !.last = arg]]
  BY DEF Seal, Write
<1>4. DOMAIN segments' = DOMAIN segments /\ \A i \in DOMAIN segments : i # N => segments'[i] = segments[i]
  BY <1>3
<1>5. Len(segments') = N
  <2>1. segments' \in Seq(Segment)
    BY TypesNext DEF Types, Next
  <2> QED BY <1>1, <1>4, <2>1, SegmentsAre
<1>6. ~(Seal /\ Write)
  BY DEF Seal, Write
<1>7. /\ segments'[N].number = g.number
      /\ Seal => segments'[N].last = g.last /\ segments'[N].sealed = TRUE
      /\ Write => segments'[N].last = arg /\ segments'[N].sealed = g.sealed
  <2>1. \/ Seal /\ segments'[N] = [g EXCEPT !.sealed = TRUE]
        \/ Write /\ segments'[N] = [g EXCEPT !.last = arg]
    BY <1>1, <1>3
  <2> HIDE DEF g, N
  <2> QED BY <1>2, <1>6, <2>1 DEF Segment
<1> QED BY <1>1, <1>4, <1>5, <1>7

(* segments_ and active_fd_ against the files. *)
LEMMA ShapeNext ==
    ASSUME WalInv, Next
    PROVE  Shape'
<1>0. Types /\ Stages /\ Shape /\ Types' /\ Stages'
  BY TypesNext, StagesNext DEF WalInv
<1>1. /\ segments \in Seq(Segment) /\ Len(segments) \in Nat /\ DOMAIN segments = 1..Len(segments)
      /\ (segments # <<>> => Len(segments) \in DOMAIN segments)
      /\ \A i \in DOMAIN segments : segments[i].number \in Nat
      /\ DOMAIN files \subseteq Nat \ {0} /\ DOMAIN unlinked \subseteq Nat \ {0}
  BY <1>0, SegmentsAre DEF Types, IsFiles
<1>2. ASSUME segments' = segments, active' = active, DOMAIN files' = DOMAIN files,
             \A n \in DOMAIN files : files'[n].recs = files[n].recs,
             unlinked' = unlinked,
             io' # "unlink" => io # "unlink",
             io' = "create" => io = "create" \/ DOMAIN files = {},
             Creating' => Creating
      PROVE  Shape'
  <2>1. \A n : Known(n)' <=> Known(n)
    BY <1>2 DEF Known
  <2> QED BY <1>0, <1>2, <2>1 DEF Shape
<1>3. ASSUME KeepsRecs
      PROVE  /\ DOMAIN files' = DOMAIN files
             /\ \A n \in DOMAIN files : files'[n].recs = files[n].recs
             /\ unlinked' = unlinked \/ DOMAIN unlinked' = {}
  BY <1>0, <1>3, RecsKept, NoFilesAre DEF Holds
<1>4. CASE AppendStart \/ CreateThrows \/ SealThrows \/ HeaderThrows \/ WriteThrows
  <2>1. /\ segments' = segments /\ active' = active /\ unlinked' = unlinked /\ io # "unlink"
        /\ io' \in {"write", "seal", "free"}
    BY <1>4 DEF AppendStart, CreateThrows, SealThrows, HeaderThrows, WriteThrows, Throw
  <2>2. KeepsRecs
    BY <1>4 DEF KeepsRecs
  <2> QED BY <1>2, <1>3, <2>1, <2>2 DEF Creating
<1>5. CASE WriteHeader \/ SyncHeader \/ TruncateStart \/ OpenEmpty \/ OpenThrows
  <2>1. /\ segments' = segments /\ active' = active /\ unlinked' = unlinked /\ io # "unlink"
        /\ io' = "create" => DOMAIN files = {}
        /\ Creating' => Creating
    BY <1>5 DEF WriteHeader, SyncHeader, TruncateStart, OpenEmpty, OpenThrows, Creating
  <2>2. KeepsRecs
    BY <1>5 DEF KeepsRecs
  <2> QED BY <1>2, <1>3, <2>1, <2>2
<1>6. ASSUME NEW s \in Syncers, SyncCapture(s) \/ SyncFsync(s) \/ SyncThrows(s)
      PROVE  Shape'
  <2>1. segments' = segments /\ active' = active /\ unlinked' = unlinked /\ io' = io
    BY <1>6 DEF SyncCapture, SyncFsync, SyncThrows
  <2>2. files' = files \/ \E k : files' = Fsynced(k)
    BY <1>6 DEF SyncCapture, SyncFsync, SyncThrows
  <2>3. DOMAIN files' = DOMAIN files /\ \A n \in DOMAIN files : files'[n].recs = files[n].recs
    BY <1>0, <2>2, FsyncedFiles DEF Types
  <2> QED BY <1>2, <2>1, <2>3 DEF Creating
<1>7. CASE Seal
  <2>1. active # 0 /\ active' = 0 /\ io' = "create" /\ unlinked' = unlinked /\ io # "unlink"
    BY <1>0, <1>7 DEF Seal, Stages
  <2>2. DOMAIN files' = DOMAIN files
    BY <1>0, <1>7, FsyncedFiles DEF Seal, Types
  <2>3. \A n : Known(n)' <=> Known(n)
    BY <1>7, SealedSegments DEF Known
  <2> QED BY <1>0, <1>7, <2>1, <2>2, <2>3, SealedSegments DEF Shape, Creating
<1>8. CASE Create
  <2>1. PICK number \in Nat \ {0} :
              /\ DOMAIN files' = DOMAIN files \cup {number}
              /\ files'[number] = NewFile /\ NewFile.recs = <<>>
              /\ \A n \in DOMAIN files : files'[n] = files[n] /\ n < number
              /\ \A u \in DOMAIN unlinked : u < number
              /\ \A i \in DOMAIN segments : segments[i].number < number
    BY <1>0, <1>8, CreateFiles
  <2>2. segments' = segments /\ active' = 0 /\ io' = "header" /\ io = "create" /\ unlinked' = unlinked
    BY <1>0, <1>8 DEF Create, Stages
  <2>3. \A n : Known(n)' <=> Known(n)
    BY <2>2 DEF Known
  <2>4. ~Known(number)
    BY <1>1, <2>1 DEF Known
  <2>5. \A n \in DOMAIN files : Known(n)
    BY <1>0, <2>2 DEF Shape
  <2>6. IsLast(number, DOMAIN files')
    BY <1>1, <2>1
  <2>7. \A m \in DOMAIN files' : m # number <=> Known(m)'
    BY <2>1, <2>3, <2>4, <2>5
  <2>8. \A u \in DOMAIN unlinked' : u \notin DOMAIN files' /\ \E n \in DOMAIN files' : u < n
    BY <1>0, <1>1, <2>1, <2>2 DEF Shape
  <2> QED BY <1>0, <2>1, <2>2, <2>6, <2>7, <2>8 DEF Shape, Creating
<1>9. CASE SyncDir
  <2>1. /\ Newest \in DOMAIN files /\ Newest \in Nat \ {0} /\ IsLast(Newest, DOMAIN files)
        /\ \A m \in DOMAIN files : m # Newest <=> Known(m)
    BY <1>9, NewestIs DEF SyncDir, Creating
  <2> DEFINE new == [number |-> Newest, last |-> 0, sealed |-> FALSE]
             N == Len(segments)
  <2>2. /\ segments' = Append(segments, new) /\ active' = Newest /\ io' \in {"write", "free"}
        /\ DOMAIN files' = DOMAIN files /\ DOMAIN unlinked' = {} /\ io \notin {"create", "unlink"}
    BY <1>9, NoFilesAre DEF SyncDir
  <2>3. new.number = Newest /\ new.sealed = FALSE
    OBVIOUS
  <2> HIDE DEF new
  <2>4. /\ Len(segments') = N + 1 /\ DOMAIN segments' = 1..(N + 1) /\ segments' # <<>>
        /\ segments'[N + 1] = new /\ \A i \in DOMAIN segments : segments'[i] = segments[i]
    BY <1>1, <2>2
  <2>5. \A i \in DOMAIN segments : segments[i].number \in DOMAIN files /\ segments[i].number < Newest
    <3>1. \A i \in DOMAIN segments : segments[i].number \in DOMAIN files /\ Known(segments[i].number)
      BY <1>0, <2>2 DEF Shape, Known
    <3> QED BY <1>1, <2>1, <3>1
  <2>6. \A n \in DOMAIN files : Known(n)'
    <3>1. ASSUME NEW n \in DOMAIN files, n # Newest
          PROVE  \E i \in DOMAIN segments' : segments'[i].number = n
      <4>1. PICK i \in DOMAIN segments : segments[i].number = n
        BY <2>1, <3>1 DEF Known
      <4> QED BY <1>1, <2>4, <4>1
    <3>2. N + 1 \in DOMAIN segments' /\ segments'[N + 1].number = Newest
      BY <1>1, <2>3, <2>4
    <3> QED BY <3>1, <3>2 DEF Known
  <2>7. \A i, j \in DOMAIN segments' : i < j => segments'[i].number < segments'[j].number
    <3> SUFFICES ASSUME NEW i \in DOMAIN segments', NEW j \in DOMAIN segments', i < j
                 PROVE  segments'[i].number < segments'[j].number
      OBVIOUS
    <3>1. CASE j = N + 1
      BY <1>1, <2>3, <2>4, <2>5, <3>1
    <3>2. CASE j # N + 1
      BY <1>0, <1>1, <2>4, <3>2 DEF Shape
    <3> QED BY <3>1, <3>2
  <2>8. \A i \in DOMAIN segments' : segments'[i].number \in DOMAIN files'
    BY <1>1, <2>1, <2>2, <2>3, <2>4, <2>5
  <2>9. Len(segments') \in DOMAIN segments' /\ segments'[Len(segments')].number = Newest
        /\ segments'[Len(segments')].sealed = FALSE
    BY <1>1, <2>3, <2>4
  <2>10. ~Creating' /\ io' # "create"
    BY <2>2 DEF Creating
  <2> QED BY <2>1, <2>2, <2>4, <2>6, <2>7, <2>8, <2>9, <2>10 DEF Shape
<1>10. CASE Write
  <2>1. /\ active \in DOMAIN files /\ DOMAIN files' = DOMAIN files
    BY <1>0, <1>10, WriteFiles
  <2>2. active' = active /\ io' = "free" /\ io = "write" /\ unlinked' = unlinked
    BY <1>10 DEF Write
  <2>3. \A n : Known(n)' <=> Known(n)
    BY <1>10, SealedSegments DEF Known
  <2> QED BY <1>0, <1>10, <2>1, <2>2, <2>3, SealedSegments DEF Shape, Creating
<1>11. CASE Unlink
  <2>1. PICK x \in DOMAIN files :
              /\ DOMAIN files' = DOMAIN files \ {x}
              /\ DOMAIN unlinked' = DOMAIN unlinked \cup {x}
              /\ x # active /\ segments[Len(segments)].number # x
              /\ \E n \in DOMAIN files' : x < n
    BY <1>11, UnlinkFiles
  <2>2. segments' = segments /\ active' = active /\ io' = "unlink" /\ io = "unlink"
    BY <1>11 DEF Unlink
  <2>3. \A n : Known(n)' <=> Known(n)
    BY <2>2 DEF Known
  <2>4. \A u \in DOMAIN unlinked' : u \notin DOMAIN files' /\ \E n \in DOMAIN files' : u < n
    <3> SUFFICES ASSUME NEW u \in DOMAIN unlinked'
                 PROVE  u \notin DOMAIN files' /\ \E n \in DOMAIN files' : u < n
      OBVIOUS
    <3>1. CASE u = x
      BY <2>1, <3>1
    <3>2. CASE u # x
      <4>1. u \in DOMAIN unlinked /\ u \notin DOMAIN files
        BY <1>0, <2>1, <3>2 DEF Shape
      <4>2. PICK n \in DOMAIN files : u < n
        BY <1>0, <4>1 DEF Shape
      <4>3. PICK m \in DOMAIN files' : x < m
        BY <2>1
      <4>4. n \in DOMAIN files' \/ u < m
        BY <1>1, <2>1, <4>1, <4>2, <4>3
      <4> QED BY <2>1, <4>1, <4>2, <4>3, <4>4
    <3> QED BY <3>1, <3>2
  <2>5. active' # 0 => IsLast(active', DOMAIN files')
    BY <1>0, <2>1, <2>2 DEF Shape
  <2> QED BY <1>0, <2>1, <2>2, <2>3, <2>4, <2>5 DEF Shape, Creating
<1>12. CASE TruncateEnd
  <2>1. /\ segments' # <<>> /\ Len(segments') \in DOMAIN segments'
        /\ segments'[Len(segments')] = segments[Len(segments)]
        /\ \A i, j \in DOMAIN segments' : i < j => segments'[i].number < segments'[j].number
        /\ \A i \in DOMAIN segments' :
              \E k \in DOMAIN segments : /\ segments'[i] = segments[k]
                                         /\ segments[k].number \in DOMAIN files
        /\ \A k \in DOMAIN segments : segments[k].number \in DOMAIN files =>
              \E i \in DOMAIN segments' : segments'[i] = segments[k]
    BY <1>12, TruncateSegments
  <2>2. active' = active /\ io' = "free" /\ io = "unlink"
        /\ (unlinked' = unlinked \/ DOMAIN unlinked' = {}) /\ DOMAIN files' = DOMAIN files
    BY <1>12, NoFilesAre DEF TruncateEnd
  <2>3. segments # <<>>
    BY <1>0, <2>2 DEF Stages
  <2>4. \A n \in DOMAIN files : Known(n) => Known(n)'
    BY <2>1 DEF Known
  <2>5. \A i \in DOMAIN segments' : segments'[i].number \in DOMAIN files'
    BY <2>1, <2>2
  <2> QED BY <1>0, <2>1, <2>2, <2>3, <2>4, <2>5 DEF Shape, Creating
<1>13. CASE ProcessCrash \/ PowerLoss
  <2>1. segments' = <<>> /\ active' = 0 /\ io' = "free"
    BY <1>13 DEF ProcessCrash, PowerLoss, Forget
  <2>2. \A u \in DOMAIN unlinked' : u \notin DOMAIN files' /\ \E n \in DOMAIN files' : u < n
    <3>1. CASE PowerLoss
      BY <3>1, NoFilesAre DEF PowerLoss
    <3>2. CASE ProcessCrash
      <4>1. unlinked' = unlinked /\ DOMAIN files' = DOMAIN files
        BY <3>2 DEF ProcessCrash
      <4> QED BY <1>0, <4>1 DEF Shape
    <3> QED BY <1>13, <3>1, <3>2
  <2>3. DOMAIN segments' = {}
    BY <2>1
  <2> QED BY <2>1, <2>2, <2>3 DEF Shape, Creating
<1>14. CASE OpenExisting
  <2>1. /\ segments' # <<>> /\ Len(segments') \in DOMAIN segments'
        /\ active' = segments'[Len(segments')].number /\ IsLast(active', DOMAIN files)
        /\ \A i, j \in DOMAIN segments' : i < j => segments'[i].number < segments'[j].number
        /\ \A i \in DOMAIN segments' : /\ segments'[i].number \in DOMAIN files
                                       /\ segments'[i].sealed <=> i # Len(segments')
        /\ \A n \in DOMAIN files : \E i \in DOMAIN segments' : segments'[i].number = n
    BY <1>0, <1>14, OpenSegments
  <2>2. io' = "free" /\ unlinked' = unlinked
    BY <1>14 DEF OpenExisting
  <2>3. DOMAIN files' = DOMAIN files
    <3>1. files' = CutTail(active') \/ files' = files
      BY <1>14 DEF OpenExisting
    <3> QED BY <1>0, <3>1, TornTail DEF Types, Holds
  <2>4. \A n \in DOMAIN files' : Known(n)'
    BY <2>1, <2>3 DEF Known
  <2> QED BY <1>0, <2>1, <2>2, <2>3, <2>4 DEF Shape, Creating
<1> QED BY <1>4, <1>5, <1>6, <1>7, <1>8, <1>9, <1>10, <1>11, <1>12, <1>13, <1>14 DEF Next

(* The lsns in a file. *)
LEMMA RecsAre ==
    ASSUME Types, NEW n \in AnyFile
    PROVE  /\ n \in Nat \ {0} /\ Recs(n) \in Seq(Nat) /\ Len(Recs(n)) \in Nat
           /\ DOMAIN Recs(n) = 1..Len(Recs(n)) /\ \A i \in DOMAIN Recs(n) : Recs(n)[i] \in Nat
<1>1. Recs(n) \in Seq(Nat) /\ n \in Nat \ {0}
  BY DEF Types, IsFiles, AnyFile, Recs
<1> QED BY <1>1

\* Every record there is was there, at the same place.
NoNewRecs ==
    \A n \in AnyFile' : /\ n \in AnyFile /\ DOMAIN Recs(n)' \subseteq DOMAIN Recs(n)
                        /\ \A i \in DOMAIN Recs(n)' : Recs(n)'[i] = Recs(n)[i]

(* All actions but Write bring no record; Create brings a file without one. *)
LEMMA NoNewRecsNext ==
    ASSUME WalInv, Next, ~Create, ~Write
    PROVE  NoNewRecs
<1>0. Types /\ Stages /\ Shape
  BY DEF WalInv
<1>1. CASE KeepsRecs
  <2>1. /\ DOMAIN files' = DOMAIN files /\ \A n \in DOMAIN files : files'[n].recs = files[n].recs
        /\ unlinked' = unlinked \/ DOMAIN unlinked' = {}
    BY <1>0, <1>1, RecsKept, NoFilesAre DEF Holds
  <2> QED BY <2>1 DEF NoNewRecs, AnyFile, Recs
<1>2. CASE Unlink
  <2>1. PICK x \in DOMAIN files :
              /\ DOMAIN files' = DOMAIN files \ {x}
              /\ \A n \in DOMAIN files' : files'[n] = files[n]
              /\ DOMAIN unlinked' = DOMAIN unlinked \cup {x}
              /\ unlinked'[x] = files[x] /\ \A n \in DOMAIN unlinked : unlinked'[n] = unlinked[n]
    BY <1>2, UnlinkFiles
  <2>2. \A u \in DOMAIN unlinked : u \notin DOMAIN files
    BY <1>0 DEF Shape
  <2> QED BY <2>1, <2>2 DEF NoNewRecs, AnyFile, Recs
<1>3. CASE PowerLoss
  <2>1. /\ DOMAIN files' \subseteq AnyFile
        /\ \A n \in DOMAIN files' :
                 \/ n \in DOMAIN files /\ files'[n] \in Remains(files[n])
                 \/ n \notin DOMAIN files /\ n \in DOMAIN unlinked /\ files'[n] \in Remains(unlinked[n])
    BY <1>0, <1>3, PowerFiles
  <2>2. AnyFile' = DOMAIN files' /\ \A n \in DOMAIN files' : Recs(n)' = files'[n].recs
    BY <1>3, NoFilesAre DEF AnyFile, Recs, PowerLoss
  <2>3. ASSUME NEW n \in DOMAIN files'
        PROVE  /\ DOMAIN files'[n].recs \subseteq DOMAIN Recs(n)
               /\ \A i \in DOMAIN files'[n].recs : files'[n].recs[i] = Recs(n)[i]
    <3>1. \E f \in File : f.stable <= Len(f.recs) /\ f.recs = Recs(n) /\ files'[n] \in Remains(f)
      BY <1>0, <2>1 DEF Types, IsFiles, Recs
    <3> QED BY <3>1, RemainsOfFile
  <2> QED BY <2>1, <2>2, <2>3 DEF NoNewRecs
<1> QED BY <1>1, <1>2, <1>3 DEF Next, KeepsRecs

(* What Create and Write do to the records. *)
LEMMA NewRecs ==
    ASSUME WalInv
    PROVE  /\ Create => \E x : /\ AnyFile' = AnyFile \cup {x} /\ DOMAIN Recs(x)' = {}
                               /\ DOMAIN files' = DOMAIN files \cup {x} /\ files'[x].recs = <<>>
                               /\ x \notin AnyFile
                               /\ \A n \in AnyFile : Recs(n)' = Recs(n)
           /\ Write => /\ AnyFile' = AnyFile /\ active \in AnyFile /\ active' = active
                       /\ \A n \in AnyFile : n <= active /\ (n # active => Recs(n)' = Recs(n))
                       /\ Recs(active)' = Append(Recs(active), arg)
                       /\ \A n \in AnyFile : \A i \in DOMAIN Recs(n) : Recs(n)[i] < arg
<1>0. Types /\ Stages /\ Shape /\ Bounds
  BY DEF WalInv
<1>1. ASSUME Create
      PROVE  \E x : /\ AnyFile' = AnyFile \cup {x} /\ DOMAIN Recs(x)' = {} /\ x \notin AnyFile
                    /\ DOMAIN files' = DOMAIN files \cup {x} /\ files'[x].recs = <<>>
                    /\ \A n \in AnyFile : Recs(n)' = Recs(n)
  <2>1. PICK x \in Nat \ {0} :
              /\ DOMAIN files' = DOMAIN files \cup {x} /\ files'[x] = NewFile /\ NewFile.recs = <<>>
              /\ \A n \in DOMAIN files : files'[n] = files[n] /\ n < x
              /\ \A u \in DOMAIN unlinked : u < x
    BY <1>0, <1>1, CreateFiles
  <2>2. unlinked' = unlinked
    BY <1>1 DEF Create
  <2>3. x \notin AnyFile
    BY <2>1 DEF AnyFile
  <2> QED BY <2>1, <2>2, <2>3 DEF AnyFile, Recs
<1>2. ASSUME Write
      PROVE  /\ AnyFile' = AnyFile /\ active \in AnyFile /\ active' = active
             /\ \A n \in AnyFile : n <= active /\ (n # active => Recs(n)' = Recs(n))
             /\ Recs(active)' = Append(Recs(active), arg)
             /\ \A n \in AnyFile : \A i \in DOMAIN Recs(n) : Recs(n)[i] < arg
  <2>1. /\ active \in DOMAIN files /\ DOMAIN files' = DOMAIN files
        /\ \A n \in DOMAIN files : n # active => files'[n] = files[n]
        /\ files'[active].recs = Append(files[active].recs, arg)
    BY <1>0, <1>2, WriteFiles
  <2>2. unlinked' = unlinked /\ active' = active
    BY <1>2 DEF Write
  <2>3. state = "open" /\ IsLast(active, DOMAIN files) /\ Appending
    BY <1>0, <1>2 DEF Write, Stages, Shape, Appending
  <2>4. DOMAIN files \subseteq Nat /\ DOMAIN unlinked \subseteq Nat
    BY <1>0 DEF Types, IsFiles
  <2>5. \A n \in AnyFile : n <= active
    BY <1>0, <2>1, <2>3, <2>4 DEF AnyFile, Shape
  <2>6. \A n \in AnyFile : \A i \in DOMAIN Recs(n) : Recs(n)[i] < arg
    <3>1. highest < arg /\ covered < arg /\ highest \in Nat /\ covered \in Nat /\ arg \in Nat
      BY <1>0, <2>3 DEF Bounds, Types
    <3>2. ASSUME NEW n \in AnyFile, NEW i \in DOMAIN Recs(n)
          PROVE  Recs(n)[i] \in Nat /\ (Recs(n)[i] <= highest \/ Recs(n)[i] <= covered)
      BY <1>0, <2>3, RecsAre DEF Bounds, AnyFile, Recs
    <3> QED BY <3>1, <3>2
  <2>7. \A n \in AnyFile : n # active => Recs(n)' = Recs(n)
    BY <2>1, <2>2 DEF AnyFile, Recs
  <2>8. Recs(active)' = Append(Recs(active), arg)
    BY <2>1, <2>2 DEF Recs
  <2>9. AnyFile' = AnyFile /\ active \in AnyFile
    BY <2>1, <2>2 DEF AnyFile
  <2> QED BY <2>2, <2>5, <2>6, <2>7, <2>8, <2>9
<1> QED BY <1>1, <1>2

(* The records are in the order of their lsns, in the files that would come back, too. *)
LEMMA OrderNext ==
    ASSUME WalInv, Next
    PROVE  Order'
<1>0. Types /\ Order
  BY DEF WalInv
<1> SUFFICES ASSUME NEW n \in AnyFile', NEW m \in AnyFile', NEW i \in DOMAIN Recs(n)',
                    NEW j \in DOMAIN Recs(m)', n < m \/ (n = m /\ i < j)
             PROVE  Recs(n)'[i] < Recs(m)'[j]
  BY DEF Order
<1>1. CASE ~Create /\ ~Write
  BY <1>0, <1>1, NoNewRecsNext DEF NoNewRecs, Order
<1>2. CASE Create
  BY <1>0, <1>2, NewRecs DEF Order
<1>3. CASE Write
  <2>1. /\ AnyFile' = AnyFile /\ active \in AnyFile /\ active' = active /\ n <= active /\ m <= active
        /\ (n # active => Recs(n)' = Recs(n)) /\ (m # active => Recs(m)' = Recs(m))
        /\ Recs(active)' = Append(Recs(active), arg)
        /\ \A x \in AnyFile : \A k \in DOMAIN Recs(x) : Recs(x)[k] < arg
    BY <1>3, NewRecs
  <2> DEFINE r == Recs(active)
             N == Len(r)
  <2>2. r \in Seq(Nat) /\ N \in Nat /\ DOMAIN r = 1..N /\ n \in Nat /\ m \in Nat /\ active \in Nat
    BY <1>0, <2>1, RecsAre
  <2>3. arg \in Nat
    BY <1>0 DEF Types
  <2> HIDE DEF r
  <2>4. /\ DOMAIN Append(r, arg) = 1..(N + 1) /\ Append(r, arg)[N + 1] = arg
        /\ \A k \in DOMAIN r : Append(r, arg)[k] = r[k]
    BY <2>2, <2>3
  <2>5. \A x \in AnyFile : x = active => Recs(x)' = Append(r, arg)
    BY <2>1 DEF r
  <2>6. CASE m # active
    BY <1>0, <2>1, <2>2, <2>6 DEF Order
  <2>7. CASE m = active
    <3>1. \/ i \in DOMAIN Recs(n) /\ Recs(n)'[i] = Recs(n)[i]
          \/ n = active /\ i = N + 1
      <4>1. CASE n = active
        BY <2>1, <2>2, <2>4, <2>5, <4>1 DEF r
      <4>2. CASE n # active
        BY <2>1, <4>2
      <4> QED BY <4>1, <4>2
    <3>2. ~(n = active /\ i = N + 1)
      BY <2>1, <2>2, <2>4, <2>5, <2>7
    <3>3. CASE j = N + 1
      <4>1. Recs(m)'[j] = arg
        BY <2>1, <2>4, <2>5, <2>7, <3>3
      <4> QED BY <2>1, <3>1, <3>2, <4>1
    <3>4. CASE j # N + 1
      <4>1. j \in DOMAIN Recs(m) /\ Recs(m)'[j] = Recs(m)[j]
        BY <2>1, <2>2, <2>4, <2>5, <2>7, <3>4 DEF r
      <4> QED BY <1>0, <2>1, <3>1, <3>2, <4>1 DEF Order
    <3> QED BY <3>3, <3>4
  <2> QED BY <2>6, <2>7
<1> QED BY <1>1, <1>2, <1>3

(* The lsns against highest_lsn_, the caller's next one and its snapshot. *)
LEMMA BoundsNext ==
    ASSUME WalInv, Next
    PROVE  Bounds'
<1>0. /\ Types /\ Stages /\ Shape /\ Bounds /\ Types'
      /\ arg \in Nat /\ highest \in Nat /\ nextLsn \in Nat /\ covered \in Nat
      /\ arg' \in Nat /\ highest' \in Nat /\ nextLsn' \in Nat /\ covered' \in Nat
  BY TypesNext DEF WalInv, Types
<1> DEFINE Numbers == /\ covered < nextLsn
                      /\ state = "open" => highest < nextLsn
                      /\ Appending => highest < arg /\ covered < arg /\ arg < nextLsn
                      /\ io = "unlink" => arg <= covered
           OfFiles == state = "open" =>
              \A n \in DOMAIN files : \A i \in DOMAIN files[n].recs : files[n].recs[i] <= highest
           OfUnlinked ==
              \A u \in DOMAIN unlinked : \A i \in DOMAIN unlinked[u].recs : unlinked[u].recs[i] <= covered
<1>1. Numbers /\ OfFiles /\ OfUnlinked
  BY <1>0 DEF Bounds
<1>2. ASSUME Numbers', OfFiles', OfUnlinked'
      PROVE  Bounds'
  BY <1>2 DEF Bounds
<1>3. \A n \in DOMAIN files : files[n].recs \in Seq(Nat)
  BY <1>0 DEF Types, IsFiles
<1>4. covered <= covered'
  BY <1>0 DEF Next, AppendStart, Seal, Create, WriteHeader, SyncHeader, SyncDir, Write, WriteThrows,
     SealThrows, CreateThrows, HeaderThrows, Throw, SyncCapture, SyncFsync, SyncThrows, TruncateStart,
     Unlink, TruncateEnd, ProcessCrash, PowerLoss, Forget, OpenEmpty, OpenExisting, OpenThrows
<1>5. OfUnlinked'
  <2>1. CASE Create \/ Write
    <3>1. unlinked' = unlinked /\ covered' = covered
      BY <2>1 DEF Create, Write
    <3> QED BY <1>1, <3>1
  <2>2. CASE Unlink
    <3>1. PICK x \in DOMAIN files :
              /\ DOMAIN unlinked' = DOMAIN unlinked \cup {x}
              /\ unlinked'[x] = files[x] /\ \A n \in DOMAIN unlinked : unlinked'[n] = unlinked[n]
              /\ \A i \in DOMAIN files[x].recs : files[x].recs[i] <= covered
      BY <2>2, UnlinkFiles
    <3>2. covered' = covered
      BY <2>2 DEF Unlink
    <3> QED BY <1>1, <3>1, <3>2
  <2>3. CASE PowerLoss
    BY <2>3, NoFilesAre DEF PowerLoss
  <2>4. CASE KeepsRecs
    <3>1. unlinked' = unlinked \/ DOMAIN unlinked' = {}
      BY <1>0, <2>4, RecsKept, NoFilesAre
    <3>2. \A u \in DOMAIN unlinked : \A i \in DOMAIN unlinked[u].recs : unlinked[u].recs[i] \in Nat
      <4>1. \A u \in DOMAIN unlinked : unlinked[u].recs \in Seq(Nat)
        BY <1>0 DEF Types, IsFiles
      <4> QED BY <4>1
    <3>3. CASE unlinked' = unlinked
      BY <1>0, <1>1, <1>4, <3>2, <3>3
    <3>4. CASE DOMAIN unlinked' = {}
      BY <3>4
    <3> QED BY <3>1, <3>3, <3>4
  <2> QED BY <2>1, <2>2, <2>3, <2>4 DEF Next, KeepsRecs
<1>6. ASSUME DOMAIN files' = DOMAIN files, state' = "open" => state = "open", highest' = highest,
             \A n \in DOMAIN files : files'[n].recs = files[n].recs
      PROVE  OfFiles'
  BY <1>1, <1>6
<1>7. KeepsRecs => /\ DOMAIN files' = DOMAIN files
                   /\ \A n \in DOMAIN files : files'[n].recs = files[n].recs
  BY <1>0, RecsKept DEF Holds
<1>8. CASE AppendStart \/ TruncateStart
  <2>1. Numbers'
    BY <1>0, <1>1, <1>8 DEF AppendStart, TruncateStart, Appending
  <2>2. OfFiles'
    BY <1>6, <1>7, <1>8 DEF AppendStart, TruncateStart, KeepsRecs
  <2> QED BY <1>2, <1>5, <2>1, <2>2
<1>9. CASE SealThrows \/ CreateThrows \/ HeaderThrows \/ WriteThrows
  <2>1. Numbers'
    BY <1>0, <1>1, <1>9 DEF SealThrows, CreateThrows, HeaderThrows, WriteThrows, Throw, Appending
  <2>2. OfFiles'
    BY <1>6, <1>7, <1>9 DEF SealThrows, CreateThrows, HeaderThrows, WriteThrows, Throw, KeepsRecs
  <2> QED BY <1>2, <1>5, <2>1, <2>2
<1>10. CASE Seal \/ WriteHeader \/ SyncHeader
  <2>1. Numbers'
    BY <1>0, <1>1, <1>10 DEF Seal, WriteHeader, SyncHeader, Appending
  <2>2. OfFiles'
    BY <1>6, <1>7, <1>10 DEF Seal, WriteHeader, SyncHeader, KeepsRecs
  <2> QED BY <1>2, <1>5, <2>1, <2>2
<1>11. CASE Create
  <2>1. Numbers'
    BY <1>0, <1>1, <1>11 DEF Create, Appending
  <2>2. PICK number \in Nat \ {0} :
              /\ DOMAIN files' = DOMAIN files \cup {number}
              /\ files'[number] = NewFile /\ NewFile.recs = <<>>
              /\ \A n \in DOMAIN files : files'[n] = files[n]
    BY <1>0, <1>11, CreateFiles
  <2>3. OfFiles'
    BY <1>1, <1>11, <2>2 DEF Create
  <2> QED BY <1>2, <1>5, <2>1, <2>3
<1>12. CASE SyncDir
  <2>1. Numbers'
    <3>1. CASE state = "open"
      BY <1>0, <1>1, <1>12, <3>1 DEF SyncDir, Appending
    <3>2. CASE state # "open"
      <4>1. /\ highest' = 0 /\ covered' = covered /\ nextLsn' = nextLsn /\ io' = "free"
        BY <1>0, <1>12, <3>2 DEF SyncDir, Stages
      <4> QED BY <1>0, <1>1, <4>1 DEF Appending
    <3> QED BY <3>1, <3>2
  <2>2. OfFiles'
    <3>1. CASE state = "open"
      BY <1>6, <1>7, <1>12, <3>1 DEF SyncDir, KeepsRecs
    <3>2. CASE state # "open"
      <4>1. segments = <<>>
        BY <1>0, <3>2 DEF Stages
      <4>2. \A n \in DOMAIN files : ~Known(n)
        BY <4>1 DEF Known
      <4>3. \A n \in DOMAIN files : files[n].recs = <<>>
        BY <1>12, <4>2, NewestIs DEF SyncDir, Creating
      <4>4. \A n \in DOMAIN files' : files'[n].recs = <<>>
        BY <1>7, <1>12, <4>3 DEF KeepsRecs
      <4> QED BY <4>4
    <3> QED BY <3>1, <3>2
  <2> QED BY <1>2, <1>5, <2>1, <2>2
<1>13. CASE Write
  <2>1. state = "open" /\ Appending
    BY <1>0, <1>13 DEF Write, Stages, Appending
  <2>2. highest' = arg /\ covered' = covered /\ nextLsn' = nextLsn /\ io' = "free" /\ state' = "open"
    <3>1. highest' = Larger(highest, arg) /\ highest < arg
      BY <1>0, <1>1, <1>13, <2>1 DEF Write
    <3>2. Larger(highest, arg) = arg
      BY <1>0, <3>1 DEF Larger
    <3> QED BY <1>0, <1>13, <2>1, <3>1, <3>2 DEF Write
  <2>3. Numbers'
    BY <1>0, <1>1, <2>1, <2>2 DEF Appending
  <2>4. /\ AnyFile' = AnyFile /\ active \in AnyFile
        /\ \A n \in AnyFile : n # active => Recs(n)' = Recs(n)
        /\ active' = active /\ Recs(active)' = Append(Recs(active), arg)
        /\ \A n \in AnyFile : \A i \in DOMAIN Recs(n) : Recs(n)[i] < arg
    BY <1>13, NewRecs
  <2>5. ASSUME NEW n \in AnyFile', NEW i \in DOMAIN Recs(n)'
        PROVE  Recs(n)'[i] <= arg
    <3>1. CASE n # active
      BY <1>0, <2>4, <3>1, RecsAre
    <3>2. CASE n = active
      <4> DEFINE r == Recs(n)
      <4>1. r \in Seq(Nat) /\ \A k \in DOMAIN r : r[k] < arg /\ r[k] \in Nat
        BY <1>0, <2>4, <3>2, RecsAre
      <4>2. Recs(n)' = Append(r, arg)
        BY <2>4, <3>2
      <4> HIDE DEF r
      <4>3. i \in DOMAIN Append(r, arg)
        BY <4>2
      <4>4. Append(r, arg)[i] <= arg
        BY <1>0, <4>1, <4>3
      <4> QED BY <4>2, <4>4
    <3> QED BY <3>1, <3>2
  <2>6. OfFiles'
    BY <2>2, <2>5 DEF AnyFile, Recs
  <2> QED BY <1>2, <1>5, <2>3, <2>6
<1>14. ASSUME NEW s \in Syncers, SyncCapture(s) \/ SyncFsync(s) \/ SyncThrows(s)
       PROVE  Bounds'
  <2>1. Numbers'
    BY <1>1, <1>14 DEF SyncCapture, SyncFsync, SyncThrows, Appending
  <2>2. OfFiles'
    BY <1>6, <1>7, <1>14 DEF SyncCapture, SyncFsync, SyncThrows, KeepsRecs
  <2> QED BY <1>2, <1>5, <2>1, <2>2
<1>15. CASE Unlink
  <2>1. Numbers'
    BY <1>0, <1>1, <1>15 DEF Unlink, Appending
  <2>2. OfFiles'
    <3>1. DOMAIN files' \subseteq DOMAIN files /\ \A n \in DOMAIN files' : files'[n] = files[n]
      BY <1>15, UnlinkFiles
    <3> QED BY <1>1, <1>15, <3>1 DEF Unlink
  <2> QED BY <1>2, <1>5, <2>1, <2>2
<1>16. CASE TruncateEnd
  <2>1. Numbers'
    BY <1>0, <1>1, <1>16 DEF TruncateEnd, Appending
  <2>2. OfFiles'
    BY <1>6, <1>7, <1>16 DEF TruncateEnd, KeepsRecs
  <2> QED BY <1>2, <1>5, <2>1, <2>2
<1>17. CASE ProcessCrash \/ PowerLoss
  <2>1. state' = "closed" /\ io' = "free" /\ UNCHANGED <<nextLsn, covered>>
    BY <1>17 DEF ProcessCrash, PowerLoss, Forget
  <2> QED BY <1>1, <1>2, <1>5, <2>1 DEF Appending
<1>18. CASE OpenEmpty \/ OpenThrows
  <2>1. Numbers' /\ OfFiles'
    BY <1>0, <1>1, <1>18 DEF OpenEmpty, OpenThrows, Appending
  <2> QED BY <1>2, <1>5, <2>1
<1>19. CASE OpenExisting
  <2>1. nextLsn' = Larger(covered, highest') + 1 /\ covered' = covered /\ io' = "free"
    BY <1>19 DEF OpenExisting
  <2>2. Numbers'
    <3>1. covered' < nextLsn' /\ highest' < nextLsn'
      <4> DEFINE top == Larger(covered, highest')
      <4>1. top \in Nat /\ covered <= top /\ highest' <= top
        BY <1>0, LargerIs
      <4>2. nextLsn' = top + 1
        BY <2>1
      <4> HIDE DEF top
      <4> QED BY <1>0, <2>1, <4>1, <4>2
    <3>2. ~Appending' /\ io' # "unlink"
      BY <2>1 DEF Appending
    <3> QED BY <3>1, <3>2
  <2>3. \A n \in DOMAIN files : \A i \in DOMAIN files[n].recs : files[n].recs[i] <= highest'
    <3>1. \A x \in AllLsns(files) : x <= highest'
      BY <1>19 DEF OpenExisting
    <3> QED BY <3>1 DEF AllLsns, Lsns
  <2>4. OfFiles'
    BY <1>7, <1>19, <2>3 DEF KeepsRecs
  <2> QED BY <1>2, <1>5, <2>2, <2>4
<1> QED BY <1>8, <1>9, <1>10, <1>11, <1>12, <1>13, <1>14, <1>15, <1>16, <1>17, <1>18, <1>19 DEF Next

(* What was fsynced of a file, stays so. *)
LEMMA CompleteKept ==
    ASSUME Types, KeepsRecs
    PROVE  /\ DOMAIN files' = DOMAIN files
           /\ \A n \in DOMAIN files : Complete(files[n]) => Complete(files'[n])
           /\ unlinked' = unlinked \/ DOMAIN unlinked' = {}
<1>1. IsFiles(files') /\ Holds(files', files) /\ (unlinked' = unlinked \/ DOMAIN unlinked' = {})
  BY RecsKept, NoFilesAre
<1>2. ASSUME NEW n \in DOMAIN files, Complete(files[n])
      PROVE  Complete(files'[n])
  <2> DEFINE r == files[n].recs
             a == files[n].stable
             b == files'[n].stable
  <2>1. r \in Seq(Nat) /\ a \in Nat /\ b \in Nat
    BY <1>1 DEF Types, IsFiles, Holds
  <2>2. files'[n].recs = r /\ a <= b /\ b <= Len(r) /\ a = Len(r)
    BY <1>1, <1>2 DEF Holds, IsFiles, Complete
  <2> HIDE DEF r, a, b
  <2>3. b = Len(r)
    BY <2>1, <2>2
  <2> QED BY <2>2, <2>3 DEF Complete, b
<1> QED BY <1>1, <1>2 DEF Holds

(* Only the active file has what was not fsynced, or the last one while the log is closed: an
   fsync comes before the seal (wal.cpp:250-257), and replay makes the last file the active one. *)
LEMMA SealedNext ==
    ASSUME WalInv, Next
    PROVE  Sealed'
<1>0. Types /\ Stages /\ Shape /\ Sealed /\ DOMAIN files \subseteq Nat \ {0} /\ Types'
  BY TypesNext DEF WalInv, Types, IsFiles
<1>1. ASSUME KeepsRecs,
             \A n \in DOMAIN files : n = active => n = active' \/ (state' # "open" /\ IsLast(n, DOMAIN files)),
             \A n \in DOMAIN files : (state # "open" /\ IsLast(n, DOMAIN files)) =>
                                     n = active' \/ state' # "open"
      PROVE  Sealed'
  BY <1>0, <1>1, CompleteKept DEF Sealed
<1>2. CASE AppendStart \/ TruncateStart \/ SealThrows \/ CreateThrows \/ HeaderThrows \/ WriteThrows
  <2>1. active' = active /\ state' = state
    BY <1>2 DEF AppendStart, TruncateStart, SealThrows, CreateThrows, HeaderThrows, WriteThrows, Throw
  <2>2. KeepsRecs
    BY <1>2 DEF KeepsRecs
  <2> QED BY <1>1, <2>1, <2>2
<1>3. CASE WriteHeader \/ SyncHeader \/ TruncateEnd \/ OpenEmpty
  <2>1. active' = active /\ state' = state
    BY <1>3 DEF WriteHeader, SyncHeader, TruncateEnd, OpenEmpty
  <2>2. KeepsRecs
    BY <1>3 DEF KeepsRecs
  <2> QED BY <1>1, <2>1, <2>2
<1>4. ASSUME NEW s \in Syncers, SyncCapture(s) \/ SyncFsync(s) \/ SyncThrows(s)
      PROVE  Sealed'
  <2>1. active' = active /\ state' = state
    BY <1>4 DEF SyncCapture, SyncFsync, SyncThrows
  <2>2. KeepsRecs
    BY <1>4 DEF KeepsRecs
  <2> QED BY <1>1, <2>1, <2>2
<1>5. CASE OpenThrows
  <2>1. active' = active /\ state' = "failed" /\ state = "closed"
    BY <1>5 DEF OpenThrows
  <2>2. KeepsRecs
    BY <1>5 DEF KeepsRecs
  <2> QED BY <1>1, <2>1, <2>2
<1>6. CASE Seal
  <2>1. active \in DOMAIN files /\ state = "open" /\ IsFiles(files)
    BY <1>0, <1>6 DEF Seal, Stages, Shape, Types
  <2>2. DOMAIN files' = DOMAIN files /\ unlinked' = unlinked
        /\ \A n \in DOMAIN files : Complete(files[n]) => Complete(files'[n])
    BY <1>0, <1>6, CompleteKept DEF Seal, KeepsRecs
  <2>3. Complete(files'[active])
    BY <1>6, <2>1, FsyncedFiles DEF Seal, Complete
  <2> QED BY <1>0, <2>1, <2>2, <2>3 DEF Sealed
<1>7. CASE Create
  <2>1. PICK number \in Nat \ {0} :
              /\ DOMAIN files' = DOMAIN files \cup {number}
              /\ files'[number] = NewFile
              /\ \A n \in DOMAIN files : files'[n] = files[n] /\ n < number
    BY <1>0, <1>7, CreateFiles
  <2>2. unlinked' = unlinked /\ active = 0 /\ io = "create" /\ state' = state
    BY <1>0, <1>7 DEF Create, Stages
  <2>3. Complete(NewFile)
    BY DEF NewFile, Complete
  <2>4. \A n \in DOMAIN files : Complete(files[n])
    <3>1. CASE state = "open"
      BY <1>0, <2>2, <3>1 DEF Sealed
    <3>2. CASE state # "open"
      BY <1>0, <2>2, <3>2 DEF Stages, Shape, Known
    <3> QED BY <3>1, <3>2
  <2> QED BY <1>0, <2>1, <2>2, <2>3, <2>4 DEF Sealed
<1>8. CASE SyncDir
  <2>1. IsLast(Newest, DOMAIN files) /\ Newest \in DOMAIN files
    BY <1>8, NewestIs DEF SyncDir, Creating
  <2>2. active' = Newest /\ active = 0
    BY <1>0, <1>8 DEF SyncDir, Stages, Creating
  <2>3. KeepsRecs
    BY <1>8 DEF KeepsRecs
  <2> QED BY <1>0, <1>1, <2>1, <2>2, <2>3
<1>9. CASE Write
  <2>1. /\ active \in DOMAIN files /\ DOMAIN files' = DOMAIN files
        /\ \A n \in DOMAIN files : n # active => files'[n] = files[n]
    BY <1>0, <1>9, WriteFiles
  <2>2. unlinked' = unlinked /\ active' = active /\ state' = state
    BY <1>9 DEF Write
  <2> QED BY <1>0, <2>1, <2>2 DEF Sealed
<1>10. CASE Unlink
  <2>1. PICK x \in DOMAIN files :
              /\ DOMAIN files' = DOMAIN files \ {x}
              /\ \A n \in DOMAIN files' : files'[n] = files[n]
              /\ DOMAIN unlinked' = DOMAIN unlinked \cup {x}
              /\ unlinked'[x] = files[x] /\ \A n \in DOMAIN unlinked : unlinked'[n] = unlinked[n]
              /\ x # active
    BY <1>10, UnlinkFiles
  <2>2. state = "open" /\ state' = "open" /\ active' = active
    BY <1>0, <1>10 DEF Unlink, Stages
  <2> QED BY <1>0, <2>1, <2>2 DEF Sealed
<1>11. CASE ProcessCrash
  <2>1. state' = "closed" /\ active' = 0
    BY <1>11 DEF ProcessCrash, Forget
  <2>2. \A n \in DOMAIN files : n = active => IsLast(n, DOMAIN files)
    BY <1>0 DEF Shape
  <2>3. KeepsRecs
    BY <1>11 DEF KeepsRecs
  <2> QED BY <1>1, <2>1, <2>2, <2>3
<1>12. CASE PowerLoss
  <2>1. \A n \in DOMAIN files' :
                 \/ n \in DOMAIN files /\ files'[n] \in Remains(files[n])
                 \/ n \notin DOMAIN files /\ n \in DOMAIN unlinked /\ files'[n] \in Remains(unlinked[n])
    BY <1>0, <1>12, PowerFiles
  <2>2. ASSUME NEW n \in DOMAIN files'
        PROVE  Complete(files'[n])
    <3>1. \E f \in File : f.stable <= Len(f.recs) /\ files'[n] \in Remains(f)
      BY <1>0, <2>1 DEF Types, IsFiles
    <3> QED BY <3>1, RemainsOfFile DEF Complete
  <2>3. DOMAIN unlinked' = {}
    BY <1>12, NoFilesAre DEF PowerLoss
  <2> QED BY <2>2, <2>3 DEF Sealed
<1>13. CASE OpenExisting
  <2>1. IsLast(active', DOMAIN files)
    BY <1>0, <1>13, OpenSegments
  <2>2. active = 0
    BY <1>0, <1>13 DEF OpenExisting, Stages
  <2>3. KeepsRecs
    BY <1>13 DEF KeepsRecs
  <2> QED BY <1>0, <1>1, <2>1, <2>2, <2>3
<1> QED BY <1>2, <1>3, <1>4, <1>5, <1>6, <1>7, <1>8, <1>9, <1>10, <1>11, <1>12, <1>13 DEF Next

(* What a sync() under way was asked to cover is stable, but for the file it is about to
   fsync (wal.cpp:397-418): rotate_() fsyncs before it leaves a file.                        *)
LEMMA SyncKnownNext ==
    ASSUME WalInv, Next
    PROVE  SyncKnown'
<1>0. /\ Types /\ Stages /\ Shape /\ Sealed /\ SyncKnown /\ Types' /\ Bounds
      /\ sync \in [Syncers -> [number : Nat, target : Nat]] /\ highest \in Nat
      /\ IsFiles(files) /\ IsFiles(files')
  BY TypesNext DEF WalInv, Types
<1>1. \A n \in DOMAIN files : /\ files[n].recs \in Seq(Nat) /\ files[n].stable \in Nat
  BY <1>0 DEF IsFiles
<1>2. ASSUME NEW s \in Syncers, KeepsRecs, sync'[s] = sync[s], highest' = highest, sync'[s] # NoSync
      PROVE  /\ sync'[s].target <= highest'
             /\ \A n \in DOMAIN files' : \A i \in DOMAIN files'[n].recs :
                   files'[n].recs[i] <= sync'[s].target => n = sync'[s].number \/ i <= files'[n].stable
  <2>1. /\ DOMAIN files' = DOMAIN files
        /\ \A n \in DOMAIN files : files'[n].recs = files[n].recs /\ files[n].stable <= files'[n].stable
    BY <1>0, <1>2, RecsKept DEF Holds
  <2>2. \A n \in DOMAIN files' : files'[n].stable \in Nat
    BY <1>0 DEF IsFiles
  <2> SUFFICES ASSUME NEW n \in DOMAIN files', NEW i \in DOMAIN files'[n].recs,
                      files'[n].recs[i] <= sync'[s].target, n # sync'[s].number
               PROVE  sync'[s].target <= highest' /\ i <= files'[n].stable
    BY <1>0, <1>2 DEF SyncKnown
  <2>3. i <= files[n].stable /\ i \in Nat
    BY <1>0, <1>1, <1>2, <2>1 DEF SyncKnown
  <2> QED BY <1>0, <1>1, <1>2, <2>1, <2>2, <2>3 DEF SyncKnown
<1>3. ASSUME KeepsRecs, sync' = sync, highest' = highest
      PROVE  SyncKnown'
  BY <1>2, <1>3 DEF SyncKnown
<1>4. CASE AppendStart \/ TruncateStart \/ SealThrows \/ CreateThrows \/ HeaderThrows \/ WriteThrows
  <2>1. sync' = sync /\ highest' = highest /\ KeepsRecs
    BY <1>4 DEF AppendStart, TruncateStart, SealThrows, CreateThrows, HeaderThrows, WriteThrows, Throw, KeepsRecs
  <2> QED BY <1>3, <2>1
<1>5. CASE Seal \/ WriteHeader \/ SyncHeader \/ SyncDir
  <2>1. sync' = sync /\ highest' = highest /\ KeepsRecs
    BY <1>5 DEF Seal, WriteHeader, SyncHeader, SyncDir, KeepsRecs
  <2> QED BY <1>3, <2>1
<1>6. CASE TruncateEnd \/ OpenEmpty \/ OpenThrows
  <2>1. sync' = sync /\ highest' = highest /\ KeepsRecs
    BY <1>6 DEF TruncateEnd, OpenEmpty, OpenThrows, KeepsRecs
  <2> QED BY <1>3, <2>1
<1>7. CASE OpenExisting
  <2>1. \A s \in Syncers : sync'[s] = NoSync
    BY <1>0, <1>7 DEF OpenExisting, Stages
  <2> QED BY <2>1 DEF SyncKnown
<1>8. CASE ProcessCrash \/ PowerLoss
  <2>1. \A s \in Syncers : sync'[s] = NoSync
    BY <1>8 DEF ProcessCrash, PowerLoss, Forget
  <2> QED BY <2>1 DEF SyncKnown
<1>9. ASSUME NEW t \in Syncers, SyncFsync(t) \/ SyncThrows(t)
      PROVE  SyncKnown'
  <2>1. KeepsRecs /\ highest' = highest /\ \A s \in Syncers : sync'[s] = sync[s] \/ sync'[s] = NoSync
    BY <1>0, <1>9 DEF SyncFsync, SyncThrows, KeepsRecs
  <2> QED BY <1>2, <2>1 DEF SyncKnown
<1>10. ASSUME NEW t \in Syncers, SyncCapture(t)
       PROVE  SyncKnown'
  <2>1. /\ KeepsRecs /\ highest' = highest /\ files' = files /\ state = "open"
        /\ sync' = [sync EXCEPT ![t] = [number |-> active, target |-> highest]]
    BY <1>10 DEF SyncCapture, KeepsRecs
  <2>2. \A s \in Syncers : s # t => sync'[s] = sync[s]
    BY <1>0, <2>1
  <2>3. sync'[t] = [number |-> active, target |-> highest]
    BY <1>0, <1>10, <2>1
  <2>4. sync'[t].target = highest /\ sync'[t].number = active
    BY <2>3
  <2>5. ASSUME NEW n \in DOMAIN files, NEW i \in DOMAIN files[n].recs, n # active
        PROVE  i <= files[n].stable
    <3>1. files[n].stable = Len(files[n].recs)
      BY <1>0, <2>1, <2>5 DEF Sealed, Complete
    <3> QED BY <1>1, <3>1
  <2>6. highest <= highest
    BY <1>0
  <2> QED BY <1>2, <2>1, <2>2, <2>4, <2>5, <2>6 DEF SyncKnown
<1>11. CASE Create
  <2>1. PICK number \in Nat \ {0} :
              /\ DOMAIN files' = DOMAIN files \cup {number}
              /\ files'[number] = NewFile /\ NewFile.recs = <<>>
              /\ \A n \in DOMAIN files : files'[n] = files[n]
    BY <1>0, <1>11, CreateFiles
  <2>2. sync' = sync /\ highest' = highest
    BY <1>11 DEF Create
  <2> QED BY <1>0, <2>1, <2>2 DEF SyncKnown
<1>12. CASE Write
  <2>1. /\ active \in DOMAIN files /\ DOMAIN files' = DOMAIN files
        /\ \A n \in DOMAIN files : n # active => files'[n] = files[n]
        /\ files'[active].recs = Append(files[active].recs, arg)
        /\ files'[active].stable = files[active].stable
    BY <1>0, <1>12, WriteFiles
  <2>2. sync' = sync /\ highest' = Larger(highest, arg) /\ Appending /\ arg \in Nat
    BY <1>0, <1>12 DEF Write, Appending, Stages, Types
  <2>3. highest < arg /\ highest' = arg
    <3>1. highest < arg
      BY <1>0, <2>2 DEF Bounds
    <3> QED BY <1>0, <2>2, <3>1 DEF Larger
  <2>4. ASSUME NEW s \in Syncers, sync'[s] # NoSync
        PROVE  /\ sync'[s].target <= highest'
               /\ \A n \in DOMAIN files' : \A i \in DOMAIN files'[n].recs :
                     files'[n].recs[i] <= sync'[s].target => n = sync'[s].number \/ i <= files'[n].stable
    <3>1. sync[s].target <= highest /\ sync[s].target \in Nat
      BY <1>0, <2>2, <2>4 DEF SyncKnown
    <3>2. ASSUME NEW n \in DOMAIN files', NEW i \in DOMAIN files'[n].recs,
                 files'[n].recs[i] <= sync[s].target, n # sync[s].number
          PROVE  i <= files'[n].stable
      <4>1. CASE n # active
        BY <1>0, <2>1, <2>2, <2>4, <3>2, <4>1 DEF SyncKnown
      <4>2. CASE n = active
        <5> DEFINE r == files[n].recs
        <5>1. r \in Seq(Nat) /\ Len(r) \in Nat
          BY <1>1, <2>1
        <5>2. files'[n].recs = Append(r, arg) /\ files'[n].stable = files[n].stable
          BY <2>1, <4>2
        <5> HIDE DEF r
        <5>3. i \in DOMAIN Append(r, arg) /\ Append(r, arg)[i] <= sync[s].target
          BY <3>2, <5>2
        <5>4. i \in DOMAIN r /\ Append(r, arg)[i] = r[i]
          BY <1>0, <2>2, <2>3, <3>1, <5>1, <5>3
        <5>5. i <= files[n].stable
          BY <1>0, <2>1, <2>2, <2>4, <3>2, <5>3, <5>4 DEF SyncKnown, r
        <5> QED BY <5>2, <5>5
      <4> QED BY <4>1, <4>2
    <3> QED BY <1>0, <2>2, <2>3, <3>1, <3>2
  <2> QED BY <2>4 DEF SyncKnown
<1>13. CASE Unlink
  <2>1. DOMAIN files' \subseteq DOMAIN files /\ \A n \in DOMAIN files' : files'[n] = files[n]
    BY <1>13, UnlinkFiles
  <2>2. sync' = sync /\ highest' = highest
    BY <1>13 DEF Unlink
  <2> QED BY <1>0, <2>1, <2>2 DEF SyncKnown
<1> QED BY <1>4, <1>5, <1>6, <1>7, <1>8, <1>9, <1>10, <1>11, <1>12, <1>13 DEF Next

(* segments_ has the last lsn of each file that is there. *)
LEMMA DescribeNext ==
    ASSUME WalInv, Next
    PROVE  SegmentsDescribeFiles'
<1>0. /\ Types /\ Stages /\ Shape /\ SegmentsDescribeFiles
      /\ DOMAIN files \subseteq Nat \ {0}
  BY DEF WalInv, Types, IsFiles
<1>1. /\ segments \in Seq(Segment) /\ Len(segments) \in Nat /\ DOMAIN segments = 1..Len(segments)
      /\ \A i \in DOMAIN segments : segments[i].number \in Nat
  BY <1>0, SegmentsAre DEF Types
<1>2. ASSUME segments' = segments, KeepsRecs
      PROVE  SegmentsDescribeFiles'
  BY <1>0, <1>2, RecsKept DEF SegmentsDescribeFiles, Holds
<1>3. CASE AppendStart \/ TruncateStart \/ SealThrows \/ CreateThrows \/ HeaderThrows \/ WriteThrows
  <2>1. segments' = segments /\ KeepsRecs
    BY <1>3 DEF AppendStart, TruncateStart, SealThrows, CreateThrows, HeaderThrows, WriteThrows, Throw, KeepsRecs
  <2> QED BY <1>2, <2>1
<1>4. CASE \/ WriteHeader \/ SyncHeader \/ OpenEmpty \/ OpenThrows
           \/ \E s \in Syncers : SyncCapture(s) \/ SyncFsync(s) \/ SyncThrows(s)
  <2>1. segments' = segments /\ KeepsRecs
    BY <1>4 DEF WriteHeader, SyncHeader, OpenEmpty, OpenThrows, SyncCapture, SyncFsync, SyncThrows, KeepsRecs
  <2> QED BY <1>2, <2>1
<1>5. CASE Seal
  <2>1. DOMAIN files' = DOMAIN files /\ \A n \in DOMAIN files : files'[n].recs = files[n].recs
    BY <1>0, <1>5, RecsKept DEF Seal, KeepsRecs, Holds
  <2>2. /\ DOMAIN segments' = DOMAIN segments
        /\ \A i \in DOMAIN segments : /\ segments'[i].number = segments[i].number
                                      /\ segments'[i].last = segments[i].last
    BY <1>5, SealedSegments
  <2> QED BY <1>0, <2>1, <2>2 DEF SegmentsDescribeFiles
<1>6. CASE Create
  <2>1. PICK number \in Nat \ {0} :
              /\ DOMAIN files' = DOMAIN files \cup {number}
              /\ \A n \in DOMAIN files : files'[n] = files[n]
              /\ \A i \in DOMAIN segments : segments[i].number < number
    BY <1>0, <1>6, CreateFiles
  <2>2. segments' = segments
    BY <1>6 DEF Create
  <2> QED BY <1>0, <1>1, <2>1, <2>2 DEF SegmentsDescribeFiles
<1>7. CASE SyncDir
  <2>1. Newest \in DOMAIN files /\ files[Newest].recs = <<>>
    BY <1>7, NewestIs DEF SyncDir, Creating
  <2>2. DOMAIN files' = DOMAIN files /\ \A n \in DOMAIN files : files'[n].recs = files[n].recs
    BY <1>0, <1>7, RecsKept DEF KeepsRecs, Holds
  <2> DEFINE new == [number |-> Newest, last |-> 0, sealed |-> FALSE]
  <2>3. segments' = Append(segments, new) /\ new.number = Newest /\ new.last = 0
    BY <1>7 DEF SyncDir
  <2> HIDE DEF new
  <2>4. \A i \in DOMAIN segments' : \/ i \in DOMAIN segments /\ segments'[i] = segments[i]
                                    \/ segments'[i] = new
    BY <1>1, <2>3
  <2> QED BY <1>0, <2>1, <2>2, <2>3, <2>4 DEF SegmentsDescribeFiles
<1>8. CASE Write
  <2>1. /\ active \in DOMAIN files /\ DOMAIN files' = DOMAIN files
        /\ \A n \in DOMAIN files : n # active => files'[n] = files[n]
        /\ files'[active].recs = Append(files[active].recs, arg)
    BY <1>0, <1>8, WriteFiles
  <2>2. active = segments[Len(segments)].number
    BY <1>0, <1>8 DEF Write, Stages, Shape
  <2>3. files'[active].recs # <<>> /\ Last(files'[active].recs) = arg
    <3>1. files[active].recs \in Seq(Nat) /\ arg \in Nat
      BY <1>0, <2>1 DEF Types, IsFiles
    <3> QED BY <2>1, <3>1 DEF Last
  <2>4. \A i \in DOMAIN segments : i # Len(segments) => segments[i].number # active
    BY <1>0, <1>1, <1>8, <2>2, SealedSegments DEF Shape
  <2>5. /\ DOMAIN segments' = DOMAIN segments /\ segments'[Len(segments)].last = arg
        /\ \A i \in DOMAIN segments : segments'[i].number = segments[i].number
        /\ \A i \in DOMAIN segments : i # Len(segments) => segments'[i] = segments[i]
    BY <1>8, SealedSegments
  <2> SUFFICES ASSUME NEW i \in DOMAIN segments, segments[i].number \in DOMAIN files
               PROVE  segments'[i].last = IF files'[segments[i].number].recs = <<>> THEN 0
                                          ELSE Last(files'[segments[i].number].recs)
    BY <2>1, <2>5 DEF SegmentsDescribeFiles
  <2>6. CASE i = Len(segments)
    BY <2>2, <2>3, <2>5, <2>6
  <2>7. CASE i # Len(segments)
    BY <1>0, <2>1, <2>4, <2>5, <2>7 DEF SegmentsDescribeFiles
  <2> QED BY <2>6, <2>7
<1>9. CASE Unlink
  <2>1. DOMAIN files' \subseteq DOMAIN files /\ \A n \in DOMAIN files' : files'[n] = files[n]
    BY <1>9, UnlinkFiles
  <2>2. segments' = segments
    BY <1>9 DEF Unlink
  <2> QED BY <1>0, <2>1, <2>2 DEF SegmentsDescribeFiles
<1>10. CASE TruncateEnd
  <2>1. \A i \in DOMAIN segments' : \E k \in DOMAIN segments : segments'[i] = segments[k]
    BY <1>10, TruncateSegments
  <2>2. DOMAIN files' = DOMAIN files /\ \A n \in DOMAIN files : files'[n].recs = files[n].recs
    BY <1>0, <1>10, RecsKept DEF KeepsRecs, Holds
  <2> QED BY <1>0, <2>1, <2>2 DEF SegmentsDescribeFiles
<1>11. CASE ProcessCrash \/ PowerLoss
  <2>1. DOMAIN segments' = {}
    BY <1>11 DEF ProcessCrash, PowerLoss, Forget
  <2> QED BY <2>1 DEF SegmentsDescribeFiles
<1>12. CASE OpenExisting
  <2>1. DOMAIN files' = DOMAIN files /\ \A n \in DOMAIN files : files'[n].recs = files[n].recs
    BY <1>0, <1>12, RecsKept DEF KeepsRecs, Holds
  <2>2. \A i \in DOMAIN segments' :
                 /\ segments'[i].number \in DOMAIN files
                 /\ LET recs == files[segments'[i].number].recs
                    IN  segments'[i].last = IF recs = <<>> THEN 0 ELSE Last(recs)
    BY <1>0, <1>12, OpenSegments
  <2> QED BY <2>1, <2>2 DEF SegmentsDescribeFiles
<1> QED BY <1>3, <1>4, <1>5, <1>6, <1>7, <1>8, <1>9, <1>10, <1>11, <1>12 DEF Next

-----------------------------------------------------------------------------
(* The invariant, and what it says of every run. *)

(* The log starts in it. *)
LEMMA WalInvInit ==
    Init => WalInv
<1> SUFFICES ASSUME Init
             PROVE  WalInv
  OBVIOUS
<1>1. DOMAIN files = {} /\ DOMAIN unlinked = {} /\ IsFiles(files) /\ IsFiles(unlinked)
  BY NoFilesAre DEF Init
<1>2. /\ state = "closed" /\ segments = <<>> /\ active = 0 /\ highest = 0 /\ io = "free" /\ arg = 0
      /\ sync = [s \in Syncers |-> NoSync] /\ nextLsn = 1 /\ synced = {} /\ covered = 0 /\ crashes = 0
  BY DEF Init
<1>3. Types
  <2>1. NoSync \in [number : Nat, target : Nat]
    BY DEF NoSync
  <2>2. segments \in Seq(Segment)
    BY <1>2
  <2> QED BY <1>1, <1>2, <2>1, <2>2 DEF Types, IoStates
<1>4. Stages
  BY <1>2 DEF Stages, Creating
<1>5. Shape /\ SegmentsDescribeFiles
  <2>1. DOMAIN segments = {}
    BY <1>2
  <2> QED BY <1>1, <1>2, <2>1 DEF Shape, Creating, SegmentsDescribeFiles
<1>6. Order
  BY <1>1 DEF Order, AnyFile
<1>7. Bounds
  BY <1>1, <1>2 DEF Bounds, Appending
<1>8. Sealed
  BY <1>1 DEF Sealed
<1>9. SyncKnown
  BY <1>2 DEF SyncKnown
<1> QED BY <1>3, <1>4, <1>5, <1>6, <1>7, <1>8, <1>9 DEF WalInv

(* And stays in it. *)
LEMMA WalInvNext ==
    WalInv /\ [Next]_vars => WalInv'
<1>1. WalInv /\ Next => WalInv'
  BY TypesNext, StagesNext, ShapeNext, OrderNext, BoundsNext, SealedNext, SyncKnownNext, DescribeNext
     DEF WalInv
<1>2. WalInv /\ UNCHANGED vars => WalInv'
  BY DEF vars, WalInv, Types, IsFiles, Stages, Shape, Creating, Appending, Known, Complete, Order,
         AnyFile, Recs, Bounds, Sealed, SyncKnown, SegmentsDescribeFiles
<1> QED BY <1>1, <1>2

LEMMA WalInvAlways == Spec => []WalInv
  BY WalInvInit, WalInvNext, PTL DEF Spec

(* The files of the directory and the tables in memory are of their types. *)
THEOREM TypesHold == Spec => []TypeOK
<1>1. WalInv => TypeOK
  BY DEF WalInv, Types, TypeOK, IsFiles
<1> QED BY <1>1, WalInvAlways, PTL

(* Whatever fails or crashes, replay reads the records in the order of their lsns, segment by
   segment (wal.cpp:302-313).                                                                  *)
THEOREM ReplayInOrder == Spec => []ReplayIsInLsnOrder
<1>1. WalInv => ReplayIsInLsnOrder
  BY DEF WalInv, Order, AnyFile, Recs, ReplayIsInLsnOrder
<1> QED BY <1>1, WalInvAlways, PTL

(* The last lsn truncate() decides by is that of the file (wal.cpp:424-427). *)
THEOREM SegmentsAreDescribed == Spec => []SegmentsDescribeFiles
<1>1. WalInv => SegmentsDescribeFiles
  BY DEF WalInv
<1> QED BY <1>1, WalInvAlways, PTL

-----------------------------------------------------------------------------
(* What needs a fault excluded: torn tails, and names that a power failure takes. *)

(* A frame is torn by a write only, and a name gets stable only. *)
LEMMA FlagsKept ==
    ASSUME Types, KeepsRecs, NEW n \in DOMAIN files
    PROVE  /\ n \in DOMAIN files'
           /\ files'[n].junk => files[n].junk \/ ((WriteThrows \/ ProcessCrash) /\ n = active /\ io = "write")
           /\ files'[n].entry = files[n].entry \/ files'[n].entry = "stable"
           /\ SyncDir => files'[n].entry = "stable"
<1>1. IsFiles(files) /\ DOMAIN files' = DOMAIN files
  BY RecsKept DEF Types, Holds
<1> DEFINE f == files[n]
<1>2. f \in File
  BY <1>1 DEF IsFiles
<1>3. CASE \/ AppendStart \/ SealThrows \/ CreateThrows \/ HeaderThrows \/ TruncateStart
           \/ OpenEmpty \/ OpenThrows \/ \E s \in Syncers : SyncCapture(s) \/ SyncThrows(s)
  <2>1. files' = files /\ ~SyncDir
    BY <1>3 DEF AppendStart, SealThrows, CreateThrows, HeaderThrows, TruncateStart, OpenEmpty,
                OpenThrows, SyncCapture, SyncThrows, Throw, SyncDir
  <2> QED BY <1>1, <2>1
<1>4. CASE Seal \/ SyncHeader \/ \E s \in Syncers : SyncFsync(s)
  <2>1. \E k : files' = Fsynced(k)
    BY <1>4 DEF Seal, SyncHeader, SyncFsync
  <2>2. files'[n].junk = files[n].junk /\ files'[n].entry = files[n].entry
    BY <1>1, <2>1, FsyncedFiles
  <2>3. ~SyncDir
    BY <1>4 DEF Seal, SyncHeader, SyncFsync, SyncDir
  <2> QED BY <1>1, <2>2, <2>3
<1>5. CASE WriteHeader
  <2>1. files'[n] = f \/ files'[n] = [f EXCEPT !.header = "written"]
    BY <1>5 DEF WriteHeader
  <2>2. ~SyncDir
    BY <1>5 DEF WriteHeader, SyncDir
  <2> HIDE DEF f
  <2>3. files'[n].junk = f.junk /\ files'[n].entry = f.entry
    BY <1>2, <2>1
  <2> QED BY <1>1, <2>2, <2>3 DEF f
<1>6. CASE SyncDir \/ TruncateEnd
  <2>1. files'[n] = [f EXCEPT !.entry = "stable"] \/ (TruncateEnd /\ files'[n] = f)
    BY <1>6 DEF SyncDir, TruncateEnd
  <2>2. ~(SyncDir /\ TruncateEnd)
    BY DEF SyncDir, TruncateEnd
  <2> HIDE DEF f
  <2>3. files'[n].junk = f.junk /\ (files'[n].entry = "stable" \/ (TruncateEnd /\ files'[n].entry = f.entry))
    BY <1>2, <2>1
  <2> QED BY <1>1, <2>2, <2>3 DEF f
<1>7. CASE WriteThrows \/ ProcessCrash
  <2>1. files'[n] = f \/ (n = active /\ io = "write" /\ files'[n] = [f EXCEPT !.junk = TRUE])
    BY <1>7 DEF WriteThrows, ProcessCrash
  <2>2. ~SyncDir
    BY <1>7 DEF WriteThrows, ProcessCrash, SyncDir, Forget
  <2> HIDE DEF f
  <2>3. files'[n].entry = f.entry /\ (files'[n].junk = f.junk \/ (n = active /\ io = "write"))
    BY <1>2, <2>1
  <2> QED BY <1>1, <1>7, <2>2, <2>3 DEF f
<1>8. CASE OpenExisting
  <2>1. files' = CutTail(active') \/ files' = files
    BY <1>8 DEF OpenExisting
  <2>2. files'[n].entry = files[n].entry /\ (files'[n].junk => files[n].junk)
    BY <1>1, <2>1, TornTail
  <2>3. ~SyncDir
    BY <1>8 DEF OpenExisting, SyncDir
  <2> QED BY <1>1, <2>2, <2>3
<1> QED BY <1>3, <1>4, <1>5, <1>6, <1>7, <1>8 DEF KeepsRecs

(* Without short writes a torn tail is what a crash left, in the last file (wal.h:77-78). *)
LEMMA TailNext ==
    ASSUME WalInv, Next, "shortWrite" \notin Faults, TailInv
    PROVE  TailInv'
<1>0. /\ Types /\ Stages /\ Shape /\ Sealed
      /\ DOMAIN files \subseteq Nat \ {0} /\ DOMAIN unlinked \subseteq Nat \ {0}
  BY DEF WalInv, Types, IsFiles
<1>1. ASSUME KeepsRecs
      PROVE  /\ DOMAIN files' = DOMAIN files /\ (unlinked' = unlinked \/ DOMAIN unlinked' = {})
             /\ \A n \in DOMAIN files : files'[n].junk =>
                   files[n].junk \/ (ProcessCrash /\ n = active /\ io = "write")
  BY <1>0, <1>1, FlagsKept, CompleteKept DEF WriteThrows
<1>2. ASSUME KeepsRecs, state' = state \/ state' # "open", io' # io => io' \in {"free", "write", "seal", "create"} \/ Creating
      PROVE  TailInv'
  <2>1. ASSUME NEW n \in DOMAIN files', files'[n].junk
        PROVE  state' # "open" /\ ~Creating' /\ IsLast(n, DOMAIN files')
    <3>1. CASE files[n].junk
      BY <1>1, <1>2, <2>1, <3>1 DEF TailInv, Creating
    <3>2. CASE ProcessCrash /\ n = active /\ io = "write"
      <4>1. state' = "closed" /\ io' = "free"
        BY <3>2 DEF ProcessCrash, Forget
      <4> QED BY <1>0, <1>1, <1>2, <3>2, <4>1 DEF Stages, Shape, Creating
    <3> QED BY <1>1, <1>2, <2>1, <3>1, <3>2
  <2> QED BY <1>1, <1>2, <2>1 DEF TailInv
<1>3. CASE AppendStart \/ SealThrows \/ CreateThrows \/ HeaderThrows \/ WriteThrows
  <2>1. state' = state /\ io' \in {"free", "write", "seal"} /\ KeepsRecs
    BY <1>3 DEF AppendStart, SealThrows, CreateThrows, HeaderThrows, WriteThrows, Throw, KeepsRecs
  <2> QED BY <1>2, <2>1
<1>4. CASE Seal \/ WriteHeader \/ SyncHeader \/ OpenEmpty \/ TruncateEnd
  <2>1. state' = state /\ (io' \in {"create", "free"} \/ Creating) /\ KeepsRecs
    BY <1>4 DEF Seal, WriteHeader, SyncHeader, OpenEmpty, TruncateEnd, Creating, KeepsRecs
  <2> QED BY <1>2, <2>1
<1>5. ASSUME NEW s \in Syncers, SyncCapture(s) \/ SyncFsync(s) \/ SyncThrows(s)
      PROVE  TailInv'
  <2>1. state' = state /\ io' = io /\ KeepsRecs
    BY <1>5 DEF SyncCapture, SyncFsync, SyncThrows, KeepsRecs
  <2> QED BY <1>2, <2>1
<1>6. CASE OpenThrows \/ ProcessCrash
  <2>1. state' # "open" /\ io' \in {"free"} /\ KeepsRecs
    BY <1>6 DEF OpenThrows, ProcessCrash, Forget, KeepsRecs
  <2> QED BY <1>2, <2>1
<1>7. CASE TruncateStart
  <2>1. state = "open" /\ KeepsRecs /\ ~ProcessCrash
    BY <1>7 DEF TruncateStart, ProcessCrash, Forget, KeepsRecs
  <2>2. \A n \in DOMAIN files' : ~files'[n].junk
    BY <1>1, <2>1 DEF TailInv
  <2> QED BY <1>1, <2>1, <2>2 DEF TailInv
<1>8. CASE Create
  <2>1. PICK number \in Nat \ {0} :
              /\ DOMAIN files' = DOMAIN files \cup {number}
              /\ files'[number] = NewFile
              /\ \A n \in DOMAIN files : files'[n] = files[n]
    BY <1>0, <1>8, CreateFiles
  <2>2. \A n \in DOMAIN files : ~files[n].junk
    <3>1. CASE state = "open"
      BY <3>1 DEF TailInv
    <3>2. CASE state # "open"
      BY <1>0, <1>8, <3>2 DEF Create, Stages, Shape, Known
    <3> QED BY <3>1, <3>2
  <2>3. ~NewFile.junk /\ unlinked' = unlinked
    BY <1>8 DEF NewFile, Create
  <2> QED BY <2>1, <2>2, <2>3 DEF TailInv
<1>9. CASE SyncDir
  <2>1. Creating /\ KeepsRecs /\ ~ProcessCrash
    BY <1>9 DEF SyncDir, Creating, ProcessCrash, Forget, KeepsRecs
  <2>2. \A n \in DOMAIN files' : ~files'[n].junk
    BY <1>1, <2>1 DEF TailInv
  <2> QED BY <1>1, <2>1, <2>2 DEF TailInv
<1>10. CASE Write
  <2>1. /\ active \in DOMAIN files /\ DOMAIN files' = DOMAIN files
        /\ \A n \in DOMAIN files : n # active => files'[n] = files[n]
        /\ files'[active].junk => files[active].junk
    BY <1>0, <1>10, WriteFiles
  <2>2. unlinked' = unlinked /\ state = "open"
    BY <1>0, <1>10 DEF Write, Stages
  <2>3. \A n \in DOMAIN files' : ~files'[n].junk
    BY <2>1, <2>2 DEF TailInv
  <2> QED BY <2>2, <2>3 DEF TailInv
<1>11. CASE Unlink
  <2>1. PICK x \in DOMAIN files :
              /\ DOMAIN files' = DOMAIN files \ {x}
              /\ \A n \in DOMAIN files' : files'[n] = files[n]
              /\ DOMAIN unlinked' = DOMAIN unlinked \cup {x}
              /\ unlinked'[x] = files[x] /\ \A n \in DOMAIN unlinked : unlinked'[n] = unlinked[n]
    BY <1>11, UnlinkFiles
  <2>2. state = "open"
    BY <1>0, <1>11 DEF Unlink, Stages
  <2> QED BY <2>1, <2>2 DEF TailInv
<1>12. CASE PowerLoss
  <2>1. /\ DOMAIN files' \subseteq AnyFile
        /\ \A n \in DOMAIN files' :
                 \/ n \in DOMAIN files /\ files'[n] \in Remains(files[n])
                 \/ n \notin DOMAIN files /\ n \in DOMAIN unlinked /\ files'[n] \in Remains(unlinked[n])
    BY <1>0, <1>12, PowerFiles
  <2>2. state' = "closed" /\ io' = "free" /\ DOMAIN unlinked' = {}
    BY <1>12, NoFilesAre DEF PowerLoss, Forget
  <2>3. ASSUME NEW n \in DOMAIN files', files'[n].junk
        PROVE  n \in DOMAIN files /\ IsLast(n, DOMAIN files)
    <3>1. CASE n \in DOMAIN files
      <4>1. files[n] \in File /\ files[n].stable <= Len(files[n].recs)
        BY <1>0, <3>1 DEF Types, IsFiles
      <4>2. files[n].junk \/ ~Complete(files[n])
        BY <2>1, <2>3, <3>1, <4>1, RemainsOfFile
      <4> QED BY <1>0, <3>1, <4>2 DEF TailInv, Sealed, Shape
    <3>2. CASE n \notin DOMAIN files
      <4>1. n \in DOMAIN unlinked /\ unlinked[n] \in File /\ unlinked[n].stable <= Len(unlinked[n].recs)
        BY <1>0, <2>1, <2>3, <3>2 DEF Types, IsFiles
      <4>2. unlinked[n].junk \/ ~Complete(unlinked[n])
        BY <2>1, <2>3, <3>2, <4>1, RemainsOfFile
      <4> QED BY <1>0, <4>1, <4>2 DEF TailInv, Sealed
    <3> QED BY <3>1, <3>2
  <2>4. ASSUME NEW n \in DOMAIN files, IsLast(n, DOMAIN files), NEW m \in AnyFile
        PROVE  m <= n
    BY <1>0, <2>4 DEF AnyFile, Shape
  <2> QED BY <2>1, <2>2, <2>3, <2>4 DEF TailInv, Creating
<1>13. CASE OpenExisting
  <2>1. KeepsRecs /\ ~ProcessCrash /\ IsLast(active', DOMAIN files)
    BY <1>0, <1>13, OpenSegments DEF OpenExisting, ProcessCrash, Forget, KeepsRecs
  <2>2. \A n \in DOMAIN files : files[n].junk => n = active'
    BY <1>0, <1>13, <2>1 DEF OpenExisting, Readable
  <2>3. \A n \in DOMAIN files' : ~files'[n].junk
    <3>1. CASE files[active'].junk
      <4>1. files' = CutTail(active')
        BY <1>13, <3>1 DEF OpenExisting
      <4>2. ~files'[active'].junk
        BY <1>0, <2>1, <4>1, TornTail DEF Types
      <4> QED BY <1>1, <2>1, <2>2, <4>2
    <3>2. CASE ~files[active'].junk
      BY <1>1, <2>1, <2>2, <3>2
    <3> QED BY <3>1, <3>2
  <2> QED BY <1>1, <2>1, <2>3 DEF TailInv
<1> QED BY <1>3, <1>4, <1>5, <1>6, <1>7, <1>8, <1>9, <1>10, <1>11, <1>12, <1>13 DEF Next

(* When no creation is interrupted, only its creator sees a file whose name could go. *)
LEMMA EntryNext ==
    ASSUME WalInv, Next, "interruptedCreate" \notin Faults, EntryInv
    PROVE  EntryInv'
<1>0. Types /\ Stages /\ Shape /\ Types' /\ DOMAIN files \subseteq Nat \ {0}
  BY TypesNext DEF WalInv, Types, IsFiles
<1>1. KeepsRecs => /\ DOMAIN files' = DOMAIN files
                   /\ \A n \in DOMAIN files : /\ files'[n].entry = "new" => files[n].entry = "new"
                                              /\ SyncDir => files'[n].entry # "new"
  BY <1>0, FlagsKept, CompleteKept
<1>2. ASSUME KeepsRecs, Creating => Creating'
      PROVE  EntryInv'
  BY <1>1, <1>2 DEF EntryInv
<1>3. CASE AppendStart \/ Seal \/ TruncateStart \/ TruncateEnd \/ OpenEmpty \/ OpenExisting \/ OpenThrows
  <2>1. ~Creating /\ KeepsRecs
    BY <1>3 DEF AppendStart, Seal, TruncateStart, TruncateEnd, OpenEmpty, OpenExisting, OpenThrows,
                Creating, KeepsRecs
  <2> QED BY <1>2, <2>1
<1>4. CASE SealThrows \/ CreateThrows \/ HeaderThrows \/ WriteThrows
  <2>1. ~Creating /\ KeepsRecs
    BY <1>4 DEF SealThrows, CreateThrows, HeaderThrows, WriteThrows, Creating, KeepsRecs
  <2> QED BY <1>2, <2>1
<1>5. CASE WriteHeader \/ SyncHeader
  <2>1. Creating' /\ KeepsRecs
    BY <1>5 DEF WriteHeader, SyncHeader, Creating, KeepsRecs
  <2> QED BY <1>2, <2>1
<1>6. ASSUME NEW s \in Syncers, SyncCapture(s) \/ SyncFsync(s) \/ SyncThrows(s)
      PROVE  EntryInv'
  <2>1. io' = io /\ KeepsRecs
    BY <1>6 DEF SyncCapture, SyncFsync, SyncThrows, KeepsRecs
  <2> QED BY <1>2, <2>1 DEF Creating
<1>7. CASE SyncDir
  BY <1>1, <1>7 DEF EntryInv, KeepsRecs
<1>8. CASE ProcessCrash
  <2>1. ~Creating /\ KeepsRecs
    BY <1>8 DEF ProcessCrash, CanCrash, Creating, KeepsRecs
  <2> QED BY <1>2, <2>1
<1>9. CASE PowerLoss
  <2>1. \A n \in DOMAIN files' :
                 \/ n \in DOMAIN files /\ files'[n] \in Remains(files[n])
                 \/ n \notin DOMAIN files /\ n \in DOMAIN unlinked /\ files'[n] \in Remains(unlinked[n])
    BY <1>0, <1>9, PowerFiles
  <2>2. ASSUME NEW n \in DOMAIN files'
        PROVE  files'[n].entry = "stable"
    <3>1. \E f \in File : f.stable <= Len(f.recs) /\ files'[n] \in Remains(f)
      BY <1>0, <2>1 DEF Types, IsFiles
    <3> QED BY <3>1, RemainsOfFile
  <2> QED BY <2>2 DEF EntryInv
<1>10. CASE Create
  <2>1. PICK number \in Nat \ {0} :
              /\ DOMAIN files' = DOMAIN files \cup {number}
              /\ \A n \in DOMAIN files : files'[n] = files[n] /\ n < number
    BY <1>0, <1>10, CreateFiles
  <2>2. ~Creating /\ Creating'
    BY <1>10 DEF Create, Creating
  <2> QED BY <1>0, <2>1, <2>2 DEF EntryInv
<1>11. CASE Write
  <2>1. /\ active \in DOMAIN files /\ DOMAIN files' = DOMAIN files
        /\ \A n \in DOMAIN files : n # active => files'[n] = files[n]
        /\ files'[active].entry = files[active].entry
    BY <1>0, <1>11, WriteFiles
  <2>2. ~Creating
    BY <1>11 DEF Write, Creating
  <2> QED BY <2>1, <2>2 DEF EntryInv
<1>12. CASE Unlink
  <2>1. DOMAIN files' \subseteq DOMAIN files /\ \A n \in DOMAIN files' : files'[n] = files[n]
    BY <1>12, UnlinkFiles
  <2>2. ~Creating
    BY <1>12 DEF Unlink, Creating
  <2> QED BY <2>1, <2>2 DEF EntryInv
<1> QED BY <1>3, <1>4, <1>5, <1>6, <1>7, <1>8, <1>9, <1>10, <1>11, <1>12 DEF Next

-----------------------------------------------------------------------------
(* The steps of the log, seen as sets of records: what it holds and what of it is stable. *)

StableOf(fs) == UNION {{fs[n].recs[i] : i \in 1..fs[n].stable} : n \in DOMAIN fs}

(* The records of a directory, and the stable ones. *)
LEMMA LsnSets ==
    ASSUME NEW fs, IsFiles(fs)
    PROVE  /\ \A x : x \in AllLsns(fs) <=>
                     \E n \in DOMAIN fs : \E i \in DOMAIN fs[n].recs : fs[n].recs[i] = x
           /\ \A x : x \in StableOf(fs) <=>
                     \E n \in DOMAIN fs : \E i \in DOMAIN fs[n].recs : i <= fs[n].stable /\ fs[n].recs[i] = x
           /\ StableOf(fs) \subseteq AllLsns(fs) /\ AllLsns(fs) \subseteq Nat
<1>1. ASSUME NEW n \in DOMAIN fs
      PROVE  /\ fs[n].recs \in Seq(Nat) /\ DOMAIN fs[n].recs = 1..Len(fs[n].recs)
             /\ \A i : i \in 1..fs[n].stable <=> i \in DOMAIN fs[n].recs /\ i <= fs[n].stable
  <2> DEFINE r == fs[n].recs
             k == fs[n].stable
  <2>1. r \in Seq(Nat) /\ k \in Nat /\ k <= Len(r)
    BY DEF IsFiles
  <2> HIDE DEF r, k
  <2>2. DOMAIN r = 1..Len(r) /\ Len(r) \in Nat
    BY <2>1
  <2>3. \A i : i \in 1..k <=> i \in DOMAIN r /\ i <= k
    BY <2>1, <2>2
  <2> QED BY <2>1, <2>2, <2>3 DEF r, k
<1>2. \A x : x \in AllLsns(fs) <=>
             \E n \in DOMAIN fs : \E i \in DOMAIN fs[n].recs : fs[n].recs[i] = x
  BY DEF AllLsns, Lsns
<1>3. \A x : x \in StableOf(fs) <=>
             \E n \in DOMAIN fs : \E i \in 1..fs[n].stable : fs[n].recs[i] = x
  BY DEF StableOf
<1>4. \A x : x \in StableOf(fs) <=>
             \E n \in DOMAIN fs : \E i \in DOMAIN fs[n].recs : i <= fs[n].stable /\ fs[n].recs[i] = x
  BY <1>1, <1>3
<1>5. StableOf(fs) \subseteq AllLsns(fs)
  BY <1>2, <1>4
<1>6. AllLsns(fs) \subseteq Nat
  BY <1>1, <1>2
<1> QED BY <1>2, <1>4, <1>5, <1>6

(* Most actions lose no record and make none less stable. *)
LEMMA KeepsSets ==
    ASSUME WalInv, KeepsRecs
    PROVE  /\ AllLsns(files') = AllLsns(files) /\ StableLsns \subseteq StableLsns'
           /\ (\A n \in DOMAIN files : files'[n].stable = files[n].stable) => StableLsns' = StableLsns
<1>1. /\ IsFiles(files) /\ IsFiles(files') /\ DOMAIN files' = DOMAIN files
      /\ \A n \in DOMAIN files : files'[n].recs = files[n].recs /\ files[n].stable <= files'[n].stable
  BY RecsKept DEF WalInv, Types, Holds
<1>2. StableLsns = StableOf(files) /\ StableLsns' = StableOf(files')
  BY DEF StableLsns, StableOf
<1>3. AllLsns(files') = AllLsns(files)
  <2>1. ASSUME NEW x
        PROVE  x \in AllLsns(files') <=> x \in AllLsns(files)
    <3>1. x \in AllLsns(files') <=> \E n \in DOMAIN files' : \E i \in DOMAIN files'[n].recs : files'[n].recs[i] = x
      BY <1>1, LsnSets
    <3>2. x \in AllLsns(files) <=> \E n \in DOMAIN files : \E i \in DOMAIN files[n].recs : files[n].recs[i] = x
      BY <1>1, LsnSets
    <3> QED BY <1>1, <3>1, <3>2
  <2> QED BY <2>1
<1>4. ASSUME NEW x \in StableOf(files)
      PROVE  x \in StableOf(files')
  <2>1. PICK n \in DOMAIN files : \E i \in DOMAIN files[n].recs : i <= files[n].stable /\ files[n].recs[i] = x
    BY <1>1, <1>4, LsnSets
  <2>2. PICK i \in DOMAIN files[n].recs : i <= files[n].stable /\ files[n].recs[i] = x
    BY <2>1
  <2>3. /\ files[n].stable \in Nat /\ files'[n].stable \in Nat /\ files[n].recs \in Seq(Nat)
    BY <1>1 DEF IsFiles
  <2>4. i \in Nat
    BY <2>2, <2>3
  <2>5. i <= files'[n].stable
    BY <1>1, <2>2, <2>3, <2>4
  <2> QED BY <1>1, <2>2, <2>5, LsnSets
<1>5. ASSUME \A n \in DOMAIN files : files'[n].stable = files[n].stable
      PROVE  StableOf(files') = StableOf(files)
  <2>1. ASSUME NEW x
        PROVE  x \in StableOf(files') <=> x \in StableOf(files)
    <3>1. x \in StableOf(files') <=>
             \E n \in DOMAIN files' : \E i \in DOMAIN files'[n].recs : i <= files'[n].stable /\ files'[n].recs[i] = x
      BY <1>1, LsnSets
    <3>2. x \in StableOf(files) <=>
             \E n \in DOMAIN files : \E i \in DOMAIN files[n].recs : i <= files[n].stable /\ files[n].recs[i] = x
      BY <1>1, LsnSets
    <3> QED BY <1>1, <1>5, <3>1, <3>2
  <2> QED BY <2>1
<1> QED BY <1>2, <1>3, <1>4, <1>5

\* Of these, only Seal, a sync() and the reopening make any more stable.
KeepsStable ==
    \/ AppendStart \/ WriteHeader \/ SyncHeader \/ SyncDir
    \/ WriteThrows \/ SealThrows \/ CreateThrows \/ HeaderThrows
    \/ \E s \in Syncers : SyncCapture(s) \/ SyncThrows(s)
    \/ TruncateStart \/ TruncateEnd \/ ProcessCrash \/ OpenEmpty \/ OpenThrows

(* The others leave the records as stable as they were. *)
LEMMA SameStable ==
    ASSUME WalInv, KeepsStable
    PROVE  AllLsns(files') = AllLsns(files) /\ StableLsns' = StableLsns
<1> KeepsRecs
  BY DEF KeepsStable, KeepsRecs
<1>0. IsFiles(files) /\ files = [n \in DOMAIN files |-> files[n]]
  BY DEF WalInv, Types, IsFiles
<1>1. CASE \/ AppendStart \/ SealThrows \/ CreateThrows \/ HeaderThrows \/ TruncateStart
           \/ OpenEmpty \/ OpenThrows \/ \E s \in Syncers : SyncCapture(s) \/ SyncThrows(s)
  <2>1. files' = files
    BY <1>1 DEF AppendStart, SealThrows, CreateThrows, HeaderThrows, TruncateStart, OpenEmpty,
                OpenThrows, SyncCapture, SyncThrows
  <2> QED BY <2>1, KeepsSets
<1>2. CASE WriteHeader \/ SyncDir \/ WriteThrows \/ TruncateEnd \/ ProcessCrash
  <2>1. /\ files' = [n \in DOMAIN files' |-> files'[n]] /\ DOMAIN files' = DOMAIN files
        /\ \A n \in DOMAIN files : \/ files'[n] = files[n]
                                   \/ files'[n] = [files[n] EXCEPT !.header = "written"]
                                   \/ files'[n] = [files[n] EXCEPT !.entry = "stable"]
                                   \/ files'[n] = [files[n] EXCEPT !.junk = TRUE]
    <3>1. CASE WriteHeader
      BY <1>0, <3>1 DEF WriteHeader
    <3>2. CASE SyncDir \/ TruncateEnd
      BY <1>0, <3>2 DEF SyncDir, TruncateEnd
    <3>3. CASE WriteThrows \/ ProcessCrash
      BY <1>0, <3>3 DEF WriteThrows, ProcessCrash
    <3> QED BY <1>2, <3>1, <3>2, <3>3
  <2>2. \A n \in DOMAIN files : files'[n].stable = files[n].stable
    BY <1>0, <2>1, FlagsOnly
  <2> QED BY <2>2, KeepsSets
<1>3. CASE SyncHeader
  <2>1. files' = Fsynced(Newest) /\ files[Newest].recs = <<>> /\ Newest \in DOMAIN files
    BY <1>3, NewestIs DEF SyncHeader, Creating
  <2>2. files[Newest].stable = 0
    <3>1. files[Newest].stable \in Nat /\ files[Newest].stable <= Len(files[Newest].recs)
      BY <1>0, <2>1 DEF IsFiles
    <3> QED BY <2>1, <3>1
  <2>3. \A n \in DOMAIN files : files'[n].stable = IF n = Newest THEN Len(files[n].recs) ELSE files[n].stable
    BY <1>0, <2>1, FsyncedFiles
  <2>4. \A n \in DOMAIN files : files'[n].stable = files[n].stable
    BY <2>1, <2>2, <2>3
  <2> QED BY <2>4, KeepsSets
<1> QED BY <1>1, <1>2, <1>3 DEF KeepsStable

(* A record is in one place only. *)
LEMMA OnePlace ==
    ASSUME WalInv, NEW n \in AnyFile, NEW m \in AnyFile, NEW i \in DOMAIN Recs(n), NEW j \in DOMAIN Recs(m),
           Recs(n)[i] = Recs(m)[j]
    PROVE  n = m /\ i = j
<1>1. /\ n \in Nat /\ m \in Nat /\ i \in Nat /\ j \in Nat
      /\ Recs(n)[i] \in Nat /\ Recs(m)[j] \in Nat
  BY RecsAre DEF WalInv
<1>2. ~(Recs(n)[i] < Recs(m)[j]) /\ ~(Recs(m)[j] < Recs(n)[i])
  BY <1>1
<1>3. ~(n < m) /\ ~(m < n) /\ (n = m => ~(i < j) /\ ~(j < i))
  BY <1>2 DEF WalInv, Order
<1> QED BY <1>1, <1>3

(* What Create, Write and Unlink make of the sets. *)
LEMMA SetSteps ==
    ASSUME WalInv
    PROVE  /\ Create => AllLsns(files') = AllLsns(files) /\ StableLsns' = StableLsns
           /\ Write => /\ AllLsns(files') = AllLsns(files) \cup {arg} /\ arg \notin AllLsns(files)
                       /\ StableLsns' = StableLsns
           /\ Unlink => /\ AllLsns(files') \subseteq AllLsns(files)
                        /\ StableLsns' = StableLsns \cap AllLsns(files')
                        /\ \A x \in AllLsns(files) \ AllLsns(files') : x <= covered
<1>0. Types /\ Stages /\ Shape /\ IsFiles(files)
  BY DEF WalInv, Types
<1>1. StableLsns = StableOf(files) /\ StableLsns' = StableOf(files')
  BY DEF StableLsns, StableOf
<1>2. ASSUME Create
      PROVE  AllLsns(files') = AllLsns(files) /\ StableLsns' = StableLsns
  <2>1. PICK number \in Nat \ {0} :
              /\ DOMAIN files' = DOMAIN files \cup {number} /\ IsFiles(files')
              /\ files'[number] = NewFile /\ NewFile.recs = <<>>
              /\ \A n \in DOMAIN files : files'[n] = files[n]
    BY <1>0, <1>2, CreateFiles
  <2>2. DOMAIN files'[number].recs = {}
    BY <2>1
  <2>3. ASSUME NEW x
        PROVE  x \in AllLsns(files') <=> x \in AllLsns(files)
    <3>1. x \in AllLsns(files') <=> \E n \in DOMAIN files' : \E i \in DOMAIN files'[n].recs : files'[n].recs[i] = x
      BY <2>1, LsnSets
    <3>2. x \in AllLsns(files) <=> \E n \in DOMAIN files : \E i \in DOMAIN files[n].recs : files[n].recs[i] = x
      BY <1>0, LsnSets
    <3> QED BY <2>1, <2>2, <3>1, <3>2
  <2>4. ASSUME NEW x
        PROVE  x \in StableOf(files') <=> x \in StableOf(files)
    <3>1. x \in StableOf(files') <=>
             \E n \in DOMAIN files' : \E i \in DOMAIN files'[n].recs : i <= files'[n].stable /\ files'[n].recs[i] = x
      BY <2>1, LsnSets
    <3>2. x \in StableOf(files) <=>
             \E n \in DOMAIN files : \E i \in DOMAIN files[n].recs : i <= files[n].stable /\ files[n].recs[i] = x
      BY <1>0, LsnSets
    <3> QED BY <2>1, <2>2, <3>1, <3>2
  <2> QED BY <1>1, <2>3, <2>4
<1>3. ASSUME Write
      PROVE  /\ AllLsns(files') = AllLsns(files) \cup {arg} /\ arg \notin AllLsns(files)
             /\ StableLsns' = StableLsns
  <2>1. /\ active \in DOMAIN files /\ DOMAIN files' = DOMAIN files /\ IsFiles(files')
        /\ \A n \in DOMAIN files : n # active => files'[n] = files[n]
        /\ files'[active].recs = Append(files[active].recs, arg)
        /\ files'[active].stable = files[active].stable
    BY <1>0, <1>3, WriteFiles
  <2> DEFINE r == files[active].recs
  <2>2. r \in Seq(Nat) /\ Len(r) \in Nat /\ arg \in Nat
        /\ files[active].stable \in Nat /\ files[active].stable <= Len(r)
    BY <1>0, <2>1 DEF Types, IsFiles
  <2> DEFINE N == Len(r)
             s == Append(r, arg)
  <2>3. /\ DOMAIN s = DOMAIN r \cup {N + 1} /\ s[N + 1] = arg /\ \A i \in DOMAIN r : s[i] = r[i]
    <3> HIDE DEF r
    <3> QED BY <2>2
  <2>4. ~(N + 1 <= files[active].stable)
    BY <2>2
  <2>5. files'[active].recs = s
    BY <2>1
  <2> HIDE DEF s, N
  <2>6. AllLsns(files') = AllLsns(files) \cup {arg}
    <3>1. ASSUME NEW x
          PROVE  x \in AllLsns(files') <=> x \in AllLsns(files) \/ x = arg
      <4>1. x \in AllLsns(files') <=> \E n \in DOMAIN files : \E i \in DOMAIN files'[n].recs : files'[n].recs[i] = x
        BY <2>1, LsnSets
      <4>2. x \in AllLsns(files) <=> \E n \in DOMAIN files : \E i \in DOMAIN files[n].recs : files[n].recs[i] = x
        BY <1>0, LsnSets
      <4> QED BY <2>1, <2>3, <2>5, <4>1, <4>2
    <3> QED BY <3>1
  <2>7. arg \notin AllLsns(files)
    <3>1. \A n \in AnyFile : \A i \in DOMAIN Recs(n) : Recs(n)[i] < arg
      BY <1>3, NewRecs
    <3>2. \A n \in DOMAIN files : \A i \in DOMAIN files[n].recs : files[n].recs[i] < arg
      BY <3>1 DEF AnyFile, Recs
    <3>3. \A n \in DOMAIN files : \A i \in DOMAIN files[n].recs : files[n].recs[i] # arg
      BY <2>2, <3>2
    <3> QED BY <1>0, <3>3, LsnSets
  <2>8. ASSUME NEW x
        PROVE  x \in StableOf(files') <=> x \in StableOf(files)
    <3>1. x \in StableOf(files') <=>
             \E n \in DOMAIN files : \E i \in DOMAIN files'[n].recs : i <= files'[n].stable /\ files'[n].recs[i] = x
      BY <2>1, LsnSets
    <3>2. x \in StableOf(files) <=>
             \E n \in DOMAIN files : \E i \in DOMAIN files[n].recs : i <= files[n].stable /\ files[n].recs[i] = x
      BY <1>0, LsnSets
    <3> QED BY <2>1, <2>3, <2>4, <2>5, <3>1, <3>2
  <2> QED BY <1>1, <2>6, <2>7, <2>8
<1>4. ASSUME Unlink
      PROVE  /\ AllLsns(files') \subseteq AllLsns(files)
             /\ StableLsns' = StableLsns \cap AllLsns(files')
             /\ \A x \in AllLsns(files) \ AllLsns(files') : x <= covered
  <2>1. PICK u \in DOMAIN files :
              /\ DOMAIN files' = DOMAIN files \ {u} /\ IsFiles(files')
              /\ \A n \in DOMAIN files' : files'[n] = files[n]
              /\ \A i \in DOMAIN files[u].recs : files[u].recs[i] <= covered
    BY <1>4, UnlinkFiles
  <2>2. AllLsns(files') \subseteq AllLsns(files)
    BY <1>0, <2>1, LsnSets
  <2>3. \A x \in AllLsns(files) \ AllLsns(files') : x <= covered
    BY <1>0, <2>1, LsnSets
  <2>4. StableOf(files') \subseteq StableOf(files) \cap AllLsns(files')
    BY <1>0, <2>1, LsnSets
  <2>5. ASSUME NEW x \in StableOf(files), x \in AllLsns(files')
        PROVE  x \in StableOf(files')
    <3>1. PICK n \in DOMAIN files : \E i \in DOMAIN files[n].recs : i <= files[n].stable /\ files[n].recs[i] = x
      BY <1>0, <2>5, LsnSets
    <3>2. PICK i \in DOMAIN files[n].recs : i <= files[n].stable /\ files[n].recs[i] = x
      BY <3>1
    <3>3. PICK m \in DOMAIN files' : \E j \in DOMAIN files'[m].recs : files'[m].recs[j] = x
      BY <2>1, <2>5, LsnSets
    <3>4. n = m
      BY <2>1, <3>2, <3>3, OnePlace DEF AnyFile, Recs
    <3> QED BY <2>1, <3>2, <3>3, <3>4, LsnSets
  <2> QED BY <1>1, <2>2, <2>3, <2>4, <2>5
<1> QED BY <1>2, <1>3, <1>4

(* What a power failure may do when every name in the directory is stable: it takes an end of
   the log that was not fsynced, and brings back what a snapshot covers.                      *)
LEMMA PowerSets ==
    ASSUME WalInv, PowerLoss, EntryInv, ~Creating
    PROVE  /\ StableLsns \subseteq AllLsns(files') /\ StableLsns' = AllLsns(files')
           /\ \A x \in AllLsns(files') \ AllLsns(files) : x <= covered
           /\ \A x \in AllLsns(files) \cap AllLsns(files'), y \in AllLsns(files) :
                 (y < x /\ y > covered) => y \in AllLsns(files')
<1>0. /\ Types /\ Stages /\ Shape /\ Sealed /\ Bounds /\ Order /\ IsFiles(files) /\ IsFiles(unlinked)
      /\ covered \in Nat
  BY DEF WalInv, Types
<1>1. /\ IsFiles(files') /\ DOMAIN files' \subseteq AnyFile
      /\ \A n \in DOMAIN files' :
                 \/ n \in DOMAIN files /\ files'[n] \in Remains(files[n])
                 \/ n \notin DOMAIN files /\ n \in DOMAIN unlinked /\ files'[n] \in Remains(unlinked[n])
  BY <1>0, PowerFiles
<1>2. DOMAIN files \subseteq DOMAIN files'
  <2>1. \A n \in DOMAIN files : files[n].entry \in {"new", "stable"}
    BY <1>0 DEF IsFiles
  <2> QED BY <1>0, <2>1, PowerFiles DEF EntryInv
<1>3. ASSUME NEW n \in DOMAIN files
      PROVE  /\ DOMAIN files'[n].recs \subseteq DOMAIN files[n].recs
             /\ \A i \in DOMAIN files'[n].recs : files'[n].recs[i] = files[n].recs[i]
             /\ \A i \in DOMAIN files[n].recs : i <= files[n].stable => i \in DOMAIN files'[n].recs
             /\ Complete(files[n]) => DOMAIN files'[n].recs = DOMAIN files[n].recs
             /\ files'[n].stable = Len(files'[n].recs)
             /\ \A i, j : (i \in DOMAIN files'[n].recs /\ j \in DOMAIN files[n].recs /\ j < i)
                          => j \in DOMAIN files'[n].recs
  <2>1. files[n] \in File /\ files[n].stable <= Len(files[n].recs) /\ files'[n] \in Remains(files[n])
    BY <1>0, <1>1, <1>2 DEF IsFiles
  <2>2. files'[n].recs \in Seq(Nat) /\ files[n].recs \in Seq(Nat)
    BY <1>0, <1>1, <1>2 DEF IsFiles
  <2>3. \A i, j : (i \in DOMAIN files'[n].recs /\ j \in DOMAIN files[n].recs /\ j < i)
                  => j \in DOMAIN files'[n].recs
    BY <2>2
  <2> QED BY <2>1, <2>3, RemainsOfFile
<1>4. ASSUME NEW n \in DOMAIN files', n \notin DOMAIN files
      PROVE  /\ \A i \in DOMAIN files'[n].recs : files'[n].recs[i] <= covered
             /\ files'[n].stable = Len(files'[n].recs)
  <2>1. /\ n \in DOMAIN unlinked /\ files'[n] \in Remains(unlinked[n])
        /\ unlinked[n] \in File /\ unlinked[n].stable <= Len(unlinked[n].recs)
    BY <1>0, <1>1, <1>4 DEF IsFiles
  <2>2. /\ DOMAIN files'[n].recs \subseteq DOMAIN unlinked[n].recs
        /\ \A i \in DOMAIN files'[n].recs : files'[n].recs[i] = unlinked[n].recs[i]
        /\ files'[n].stable = Len(files'[n].recs)
    BY <2>1, RemainsOfFile
  <2> QED BY <1>0, <2>1, <2>2 DEF Bounds
<1>5. StableLsns \subseteq AllLsns(files')
  <2>1. ASSUME NEW x \in StableOf(files)
        PROVE  x \in AllLsns(files')
    <3>1. PICK n \in DOMAIN files : \E i \in DOMAIN files[n].recs : i <= files[n].stable /\ files[n].recs[i] = x
      BY <1>0, LsnSets
    <3>2. PICK i \in DOMAIN files[n].recs : i <= files[n].stable /\ files[n].recs[i] = x
      BY <3>1
    <3>3. n \in DOMAIN files' /\ i \in DOMAIN files'[n].recs /\ files'[n].recs[i] = x
      BY <1>2, <1>3, <3>2
    <3> QED BY <1>1, <3>3, LsnSets
  <2> QED BY <2>1 DEF StableLsns, StableOf
<1>6. StableLsns' = AllLsns(files')
  <2>1. ASSUME NEW x \in AllLsns(files')
        PROVE  x \in StableOf(files')
    <3>1. PICK n \in DOMAIN files' : \E i \in DOMAIN files'[n].recs : files'[n].recs[i] = x
      BY <1>1, LsnSets
    <3>2. PICK i \in DOMAIN files'[n].recs : files'[n].recs[i] = x
      BY <3>1
    <3>3. files'[n].stable = Len(files'[n].recs) /\ files'[n].recs \in Seq(Nat)
      BY <1>1, <1>3, <1>4 DEF IsFiles
    <3>4. i <= files'[n].stable
      BY <3>2, <3>3
    <3> QED BY <1>1, <3>2, <3>4, LsnSets
  <2>2. StableOf(files') \subseteq AllLsns(files')
    BY <1>1, LsnSets
  <2>3. StableLsns' = StableOf(files')
    BY DEF StableLsns, StableOf
  <2> QED BY <2>1, <2>2, <2>3
<1>7. ASSUME NEW x \in AllLsns(files'), x > covered
      PROVE  \E n \in DOMAIN files : \E i \in DOMAIN files'[n].recs : files'[n].recs[i] = x
  <2>1. PICK n \in DOMAIN files' : \E i \in DOMAIN files'[n].recs : files'[n].recs[i] = x
    BY <1>1, LsnSets
  <2>2. x \in Nat
    BY <1>1, LsnSets
  <2>3. n \in DOMAIN files
    BY <1>0, <1>4, <1>7, <2>1, <2>2
  <2> QED BY <2>1, <2>3
<1>8. ASSUME NEW x \in AllLsns(files') \ AllLsns(files)
      PROVE  x <= covered
  <2>1. x \in Nat
    BY <1>1, LsnSets
  <2> SUFFICES ASSUME x > covered PROVE FALSE
    BY <1>0, <2>1
  <2>2. x \in AllLsns(files)
    BY <1>0, <1>3, <1>7, LsnSets
  <2> QED BY <2>2
<1>9. ASSUME NEW x \in AllLsns(files) \cap AllLsns(files'), NEW y \in AllLsns(files), y < x, y > covered
      PROVE  y \in AllLsns(files')
  <2>1. x \in Nat /\ y \in Nat
    BY <1>0, LsnSets
  <2>2. x > covered
    BY <1>0, <1>9, <2>1
  <2>3. PICK n \in DOMAIN files : \E i \in DOMAIN files'[n].recs : files'[n].recs[i] = x
    BY <1>7, <2>2
  <2>4. PICK i \in DOMAIN files'[n].recs : files'[n].recs[i] = x
    BY <2>3
  <2>5. PICK m \in DOMAIN files : \E j \in DOMAIN files[m].recs : files[m].recs[j] = y
    BY <1>0, LsnSets
  <2>6. PICK j \in DOMAIN files[m].recs : files[m].recs[j] = y
    BY <2>5
  <2>7. i \in DOMAIN files[n].recs /\ files[n].recs[i] = x
    BY <1>3, <2>4
  <2>8. n \in Nat /\ m \in Nat /\ i \in Nat /\ j \in Nat
    <3>1. n \in AnyFile /\ m \in AnyFile /\ Recs(n) = files[n].recs /\ Recs(m) = files[m].recs
      BY DEF AnyFile, Recs
    <3> QED BY <1>0, <2>6, <2>7, <3>1, RecsAre
  <2>9. ~(n < m \/ (n = m /\ i < j))
    <3>1. (n < m \/ (n = m /\ i < j)) => x < y
      BY <1>0, <2>6, <2>7 DEF Order, AnyFile, Recs
    <3> QED BY <1>9, <2>1, <3>1
  <2>10. j \in DOMAIN files'[m].recs
    <3>1. CASE m = n
      <4>1. i # j
        BY <1>9, <2>1, <2>6, <2>7, <3>1
      <4>2. j < i
        BY <2>8, <2>9, <3>1, <4>1
      <4> QED BY <1>3, <2>4, <2>6, <3>1, <4>2
    <3>2. CASE m # n
      <4>1. m < n
        BY <2>8, <2>9, <3>2
      <4>2. ~IsLast(m, DOMAIN files)
        BY <2>8, <4>1
      <4>3. m # active
        BY <1>0, <4>2 DEF Shape
      <4>4. Complete(files[m])
        BY <1>0, <4>2, <4>3 DEF Sealed
      <4> QED BY <1>3, <2>6, <4>4
    <3> QED BY <3>1, <3>2
  <2> QED BY <1>1, <1>2, <1>3, <2>6, <2>10, LsnSets
<1> QED BY <1>5, <1>6, <1>8, <1>9

(* The fsync of sync() makes every record stable that it was asked to (wal.cpp:411-415). *)
LEMMA FsyncCovers ==
    ASSUME WalInv, NEW s \in Syncers, SyncFsync(s), NEW x \in AllLsns(files), x <= sync[s].target
    PROVE  x \in StableLsns'
<1>1. IsFiles(files) /\ files' = Fsynced(sync[s].number)
  BY DEF WalInv, Types, SyncFsync
<1>2. PICK n \in DOMAIN files : \E i \in DOMAIN files[n].recs : files[n].recs[i] = x
  BY <1>1, LsnSets
<1>3. PICK i \in DOMAIN files[n].recs : files[n].recs[i] = x
  BY <1>2
<1>4. n = sync[s].number \/ i <= files[n].stable
  BY <1>3 DEF WalInv, SyncKnown, SyncFsync
<1> DEFINE g == Fsynced(sync[s].number)
<1>5. /\ IsFiles(g) /\ DOMAIN g = DOMAIN files /\ g[n].recs = files[n].recs
      /\ g[n].stable = IF n = sync[s].number THEN Len(files[n].recs) ELSE files[n].stable
  BY <1>1, FsyncedFiles
<1>6. files[n].recs \in Seq(Nat)
  BY <1>1 DEF IsFiles
<1>7. i <= g[n].stable
  BY <1>3, <1>4, <1>5, <1>6
<1> HIDE DEF g
<1>8. x \in StableOf(g)
  BY <1>3, <1>5, <1>7, LsnSets
<1> QED BY <1>1, <1>8 DEF g, StableLsns, StableOf

(* What is stable of an open log is a front of it. *)
LEMMA FrontFirst ==
    ASSUME NEW fs, IsFiles(fs),
           \A n, m \in DOMAIN fs : \A i \in DOMAIN fs[n].recs, j \in DOMAIN fs[m].recs :
              (n < m \/ (n = m /\ i < j)) => fs[n].recs[i] < fs[m].recs[j],
           \A n \in DOMAIN fs : Complete(fs[n]) \/ IsLast(n, DOMAIN fs),
           NEW x \in StableOf(fs), NEW y \in AllLsns(fs), y <= x
    PROVE  y \in StableOf(fs)
<1>1. PICK n \in DOMAIN fs : \E i \in DOMAIN fs[n].recs : i <= fs[n].stable /\ fs[n].recs[i] = x
  BY LsnSets
<1>2. PICK i \in DOMAIN fs[n].recs : i <= fs[n].stable /\ fs[n].recs[i] = x
  BY <1>1
<1>3. PICK m \in DOMAIN fs : \E j \in DOMAIN fs[m].recs : fs[m].recs[j] = y
  BY LsnSets
<1>4. PICK j \in DOMAIN fs[m].recs : fs[m].recs[j] = y
  BY <1>3
<1>5. n \in Nat /\ m \in Nat /\ x \in Nat /\ y \in Nat
  BY LsnSets DEF IsFiles
<1>6. i \in Nat /\ j \in Nat /\ j <= Len(fs[m].recs) /\ fs[n].stable \in Nat /\ fs[m].stable \in Nat
  <2>1. fs[n].recs \in Seq(Nat) /\ fs[m].recs \in Seq(Nat) /\ fs[n].stable \in Nat /\ fs[m].stable \in Nat
    BY DEF IsFiles
  <2>2. DOMAIN fs[n].recs = 1..Len(fs[n].recs) /\ DOMAIN fs[m].recs = 1..Len(fs[m].recs)
        /\ Len(fs[n].recs) \in Nat /\ Len(fs[m].recs) \in Nat
    BY <2>1
  <2>3. i \in 1..Len(fs[n].recs) /\ j \in 1..Len(fs[m].recs)
    BY <2>2
  <2> QED BY <2>1, <2>2, <2>3
<1>7. ~(n < m \/ (n = m /\ i < j))
  <2>1. (n < m \/ (n = m /\ i < j)) => x < y
    BY <1>2, <1>4
  <2> QED BY <1>5, <2>1
<1>8. j <= fs[m].stable
  <2>1. CASE m = n
    BY <1>2, <1>6, <1>7, <2>1
  <2>2. CASE m # n
    <3>1. ~IsLast(m, DOMAIN fs)
      BY <1>5, <1>7, <2>2
    <3>2. fs[m].stable = Len(fs[m].recs)
      BY <3>1 DEF Complete
    <3> QED BY <1>6, <3>2
  <2> QED BY <2>1, <2>2
<1> QED BY <1>4, <1>8, LsnSets

(* What sync() covered stays on stable storage, or under a snapshot. *)
LEMMA SyncedNext ==
    ASSUME WalInv, Next, "interruptedCreate" \notin Faults, EntryInv, SyncedInv
    PROVE  SyncedInv'
<1>0. /\ covered \in Nat /\ covered' \in Nat /\ synced \subseteq Nat
  BY TypesNext DEF WalInv, Types
<1>1. CASE PowerLoss
  <2>1. ~Creating
    BY <1>1 DEF PowerLoss, CanCrash, Creating
  <2>2. synced' = synced /\ covered' = covered
    BY <1>1 DEF PowerLoss, Forget
  <2> QED BY <1>1, <2>1, <2>2, PowerSets DEF SyncedInv
<1>2. CASE Unlink
  <2>1. synced' = synced /\ covered' = covered
    BY <1>2 DEF Unlink
  <2>2. StableLsns \subseteq AllLsns(files)
    <3>1. StableLsns = StableOf(files)
      BY DEF StableLsns, StableOf
    <3> QED BY <3>1, LsnSets DEF WalInv, Types
  <2> QED BY <1>2, <2>1, <2>2, SetSteps DEF SyncedInv
<1>3. CASE Create \/ Write
  <2>1. synced' = synced /\ covered' = covered
    BY <1>3 DEF Create, Write
  <2> QED BY <1>3, <2>1, SetSteps DEF SyncedInv
<1>4. CASE \E s \in Syncers : SyncFsync(s)
  <2>1. PICK s \in Syncers : SyncFsync(s)
    BY <1>4
  <2>2. /\ synced' = synced \cup {n \in AllLsns(files) : n <= sync[s].target} /\ covered' = covered
        /\ KeepsRecs
    BY <2>1 DEF SyncFsync, KeepsRecs
  <2>3. StableLsns \subseteq StableLsns'
    BY <2>2, KeepsSets
  <2> QED BY <2>1, <2>2, <2>3, FsyncCovers DEF SyncedInv
<1>5. CASE KeepsRecs /\ ~\E s \in Syncers : SyncFsync(s)
  <2>1. synced' = synced /\ covered <= covered'
    BY <1>0, <1>5 DEF KeepsRecs, AppendStart, Seal, WriteHeader, SyncHeader, SyncDir, WriteThrows,
       SealThrows, CreateThrows, HeaderThrows, Throw, SyncCapture, SyncThrows, TruncateStart,
       TruncateEnd, ProcessCrash, Forget, OpenEmpty, OpenExisting, OpenThrows
  <2>2. StableLsns \subseteq StableLsns'
    BY <1>5, KeepsSets
  <2> QED BY <1>0, <2>1, <2>2 DEF SyncedInv
<1> QED BY <1>1, <1>2, <1>3, <1>4, <1>5 DEF Next, KeepsRecs

-----------------------------------------------------------------------------
(* What is promised as long as one fault is excluded. *)

LEMMA TailAlways ==
    ASSUME "shortWrite" \notin Faults
    PROVE  Spec => []TailInv
<1>1. Init => TailInv
  BY NoFilesAre DEF Init, TailInv
<1>2. WalInv /\ TailInv /\ [Next]_vars => TailInv'
  <2>1. WalInv /\ TailInv /\ Next => TailInv'
    BY TailNext
  <2>2. TailInv /\ UNCHANGED vars => TailInv'
    BY DEF vars, TailInv, Creating
  <2> QED BY <2>1, <2>2
<1> QED BY <1>1, <1>2, WalInvAlways, PTL DEF Spec

LEMMA SyncedAlways ==
    ASSUME "interruptedCreate" \notin Faults
    PROVE  Spec => [](EntryInv /\ SyncedInv)
<1>1. Init => EntryInv /\ SyncedInv
  BY NoFilesAre DEF Init, EntryInv, SyncedInv
<1>2. WalInv /\ EntryInv /\ SyncedInv /\ [Next]_vars => EntryInv' /\ SyncedInv'
  <2>1. WalInv /\ EntryInv /\ SyncedInv /\ Next => EntryInv' /\ SyncedInv'
    BY EntryNext, SyncedNext
  <2>2. EntryInv /\ SyncedInv /\ UNCHANGED vars => EntryInv' /\ SyncedInv'
    BY DEF vars, EntryInv, SyncedInv, Creating, StableLsns
  <2> QED BY <2>1, <2>2
<1> QED BY <1>1, <1>2, WalInvAlways, PTL DEF Spec

(* Without short writes a sealed segment holds whole frames, all of them fsynced: what
   wal.h:77-78 says of it and sync() relies on.                                             *)
THEOREM SealedAreComplete ==
    ASSUME "shortWrite" \notin Faults
    PROVE  Spec => []SealedSegmentsAreComplete
<1>1. WalInv /\ TailInv => SealedSegmentsAreComplete
  <2> SUFFICES ASSUME WalInv, TailInv, NEW i \in DOMAIN segments,
                      segments[i].sealed, segments[i].number \in DOMAIN files
               PROVE  LET f == files[segments[i].number] IN f.stable = Len(f.recs) /\ ~f.junk
    BY DEF SealedSegmentsAreComplete
  <2> DEFINE n == segments[i].number
  <2>1. /\ segments \in Seq(Segment) /\ Len(segments) \in Nat /\ DOMAIN segments = 1..Len(segments)
        /\ \A k \in DOMAIN segments : segments[k].number \in Nat
    BY SegmentsAre DEF WalInv, Types
  <2>2. state = "open"
    BY DEF WalInv, Stages
  <2>3. n # active
    <3>1. active # 0 => active = segments[Len(segments)].number /\ ~segments[Len(segments)].sealed
      BY DEF WalInv, Shape
    <3>2. i # Len(segments) => segments[i].number < segments[Len(segments)].number
      BY <2>1 DEF WalInv, Shape
    <3>3. n \in Nat \ {0}
      BY DEF WalInv, Types, IsFiles
    <3> QED BY <2>1, <3>1, <3>2, <3>3
  <2>4. Complete(files[n]) /\ ~files[n].junk
    BY <2>2, <2>3 DEF WalInv, Sealed, TailInv
  <2> QED BY <2>4 DEF Complete
<1> QED BY <1>1, WalInvAlways, TailAlways, PTL

(* As long as no creation of a segment is interrupted, a record that a sync() covered is in the
   files or under the snapshot, whatever crashes or fails ("the durability point", wal.h:113).  *)
THEOREM SyncsAreDurable ==
    ASSUME "interruptedCreate" \notin Faults
    PROVE  Spec => []SyncIsDurable
<1>1. WalInv /\ SyncedInv => SyncIsDurable
  <2>1. WalInv => StableOf(files) \subseteq AllLsns(files)
    BY LsnSets DEF WalInv, Types
  <2>2. StableLsns = StableOf(files)
    BY DEF StableLsns, StableOf
  <2> QED BY <2>1, <2>2 DEF SyncedInv, SyncIsDurable
<1> QED BY <1>1, WalInvAlways, SyncedAlways, PTL

-----------------------------------------------------------------------------
(* Wal implements LogFile, step by step. *)

\* The two ways a sync, and a rotation, may make more of the log stable.
LEMMA SyncStep ==
    ASSUME WalInv, WalInv', SyncedInv', KeepsRecs, state = "open", state' = "open",
           highest' = highest, covered' = covered, synced \subseteq synced'
    PROVE  Log!Sync
<1>1. AllLsns(files') = AllLsns(files) /\ StableLsns \subseteq StableLsns'
  BY KeepsSets
<1>2. StableLsns' \subseteq AllLsns(files')
  <2>1. IsFiles(files') /\ StableLsns' = StableOf(files')
    BY DEF WalInv, Types, StableLsns, StableOf
  <2> QED BY <2>1, LsnSets
<1>3. \A n \in StableLsns' : \A y \in AllLsns(files') : y <= n => y \in StableLsns'
  <2>1. IsFiles(files') /\ StableLsns' = StableOf(files')
    BY DEF WalInv, Types, StableLsns, StableOf
  <2>2. \A n, m \in DOMAIN files' : \A i \in DOMAIN files'[n].recs, j \in DOMAIN files'[m].recs :
           (n < m \/ (n = m /\ i < j)) => files'[n].recs[i] < files'[m].recs[j]
    BY DEF WalInv, Order, AnyFile, Recs
  <2>3. \A n \in DOMAIN files' : Complete(files'[n]) \/ IsLast(n, DOMAIN files')
    <3>1. \A n \in DOMAIN files' : n # 0
      BY <2>1 DEF IsFiles
    <3> QED BY <3>1 DEF WalInv, Sealed, Shape, Complete
  <2> QED BY <2>1, <2>2, <2>3, FrontFirst
<1>4. \A n \in synced' \ synced : n \in StableLsns' \/ n <= covered
  BY DEF SyncedInv
<1> QED BY <1>1, <1>2, <1>3, <1>4 DEF Log!Sync, Log!UpTo

(* Every step of the log is one of LogFile's, or none. *)
LEMMA LogStep ==
    ASSUME WalInv, WalInv', EntryInv, SyncedInv', Next, "interruptedCreate" \notin Faults
    PROVE  [Log!Next]_(Log!vars)
<1> DEFINE K == AllLsns(files)
<1>0. /\ Types /\ Stages /\ Shape /\ Bounds /\ IsFiles(files) /\ K \subseteq Nat
      /\ covered \in Nat /\ highest \in Nat /\ arg \in Nat
      /\ StableLsns \subseteq K
  <2>1. StableLsns = StableOf(files)
    BY DEF StableLsns, StableOf
  <2> QED BY <2>1, LsnSets DEF WalInv, Types
<1>1. ASSUME K' = K, StableLsns' = StableLsns, state' = "open" <=> state = "open",
             UNCHANGED <<synced, highest, covered>>
      PROVE  UNCHANGED Log!vars
  BY <1>1 DEF Log!vars
<1>2. CASE \/ AppendStart \/ WriteHeader \/ SyncHeader \/ WriteThrows \/ SealThrows \/ CreateThrows
           \/ HeaderThrows \/ TruncateEnd \/ OpenEmpty \/ OpenThrows
           \/ \E s \in Syncers : SyncCapture(s) \/ SyncThrows(s)
  <2>1. /\ UNCHANGED <<synced, highest, covered>> /\ (state' = "open" <=> state = "open")
    BY <1>2 DEF AppendStart, WriteHeader, SyncHeader, WriteThrows, SealThrows, CreateThrows,
       HeaderThrows, Throw, TruncateEnd, OpenEmpty, OpenThrows, SyncCapture, SyncThrows
  <2>2. KeepsStable
    BY <1>2 DEF KeepsStable
  <2> QED BY <1>1, <2>1, <2>2, SameStable
<1>3. CASE Create
  <2>1. UNCHANGED <<synced, highest, covered, state>>
    BY <1>3 DEF Create
  <2> QED BY <1>1, <1>3, <2>1, SetSteps
<1>4. CASE Seal
  <2>1. state = "open" /\ state' = "open" /\ UNCHANGED <<synced, highest, covered>> /\ KeepsRecs
    BY <1>0, <1>4 DEF Seal, Stages, KeepsRecs
  <2>2. Log!Sync
    BY <2>1, SyncStep
  <2> QED BY <2>2 DEF Log!Next
<1>5. ASSUME NEW s \in Syncers, SyncFsync(s)
      PROVE  [Log!Next]_(Log!vars)
  <2>1. /\ state = "open" /\ state' = "open" /\ UNCHANGED <<highest, covered>> /\ KeepsRecs
        /\ synced \subseteq synced'
    BY <1>0, <1>5 DEF SyncFsync, Stages, KeepsRecs
  <2>2. Log!Sync
    BY <2>1, SyncStep
  <2> QED BY <2>2 DEF Log!Next
<1>6. CASE SyncDir
  <2>1. K' = K /\ StableLsns' = StableLsns
    BY <1>6, SameStable DEF KeepsStable
  <2>2. state' = "open" /\ UNCHANGED <<synced, highest, covered>>
    BY <1>6 DEF SyncDir
  <2>3. CASE state = "open"
    BY <1>1, <2>1, <2>2, <2>3
  <2>4. CASE state # "open"
    <3>1. segments = <<>> /\ highest = 0
      BY <1>0, <2>4 DEF Stages
    <3>2. \A n \in DOMAIN files : files[n].recs = <<>>
      BY <1>6, <3>1, NewestIs DEF SyncDir, Creating, Known
    <3>3. K = {}
      BY <1>0, <3>2, LsnSets
    <3>4. Log!Reopen
      BY <1>0, <2>1, <2>2, <2>4, <3>1, <3>3 DEF Log!Reopen
    <3> QED BY <3>4 DEF Log!Next
  <2> QED BY <2>3, <2>4
<1>7. CASE OpenExisting
  <2>1. K' = K /\ StableLsns \subseteq StableLsns'
    BY <1>7, KeepsSets DEF KeepsRecs
  <2>2. StableLsns' \subseteq K'
    <3>1. IsFiles(files') /\ StableLsns' = StableOf(files')
      BY DEF WalInv, Types, StableLsns, StableOf
    <3> QED BY <3>1, LsnSets
  <2>3. /\ state = "closed" /\ state' = "open" /\ UNCHANGED <<synced, covered>>
        /\ highest' \in K \cup {0} /\ \A x \in K \cup {0} : x <= highest'
    BY <1>7 DEF OpenExisting
  <2>4. Log!Reopen
    BY <2>1, <2>2, <2>3 DEF Log!Reopen
  <2> QED BY <2>4 DEF Log!Next
<1>8. CASE Write
  <2>1. K' = K \cup {arg} /\ arg \notin K /\ StableLsns' = StableLsns
    BY <1>8, SetSteps
  <2>2. state = "open" /\ Appending
    BY <1>0, <1>8 DEF Write, Stages, Appending
  <2>3. highest < arg
    BY <1>0, <2>2 DEF Bounds
  <2>4. highest' = arg
    BY <1>0, <1>8, <2>3 DEF Write, Larger
  <2>5. state' = "open" /\ UNCHANGED <<synced, covered>>
    BY <1>8, <2>2 DEF Write
  <2>6. Log!AppendRecord
    BY <1>0, <2>1, <2>2, <2>3, <2>4, <2>5 DEF Log!AppendRecord
  <2> QED BY <2>6 DEF Log!Next
<1>9. CASE TruncateStart
  <2>1. K' = K /\ StableLsns' = StableLsns
    BY <1>9, SameStable DEF KeepsStable
  <2>2. state = "open" /\ state' = "open" /\ covered' > covered /\ UNCHANGED <<synced, highest>>
    BY <1>0, <1>9 DEF TruncateStart
  <2>3. Log!Cover
    BY <2>1, <2>2 DEF Log!Cover
  <2> QED BY <2>3 DEF Log!Next
<1>10. CASE Unlink
  <2>1. state = "open" /\ state' = "open" /\ UNCHANGED <<synced, highest, covered>>
    BY <1>0, <1>10 DEF Unlink, Stages
  <2>2. Log!Reclaim
    BY <1>10, <2>1, SetSteps DEF Log!Reclaim
  <2> QED BY <2>2 DEF Log!Next
<1>11. CASE ProcessCrash \/ PowerLoss
  <2>1. state' = "closed" /\ highest' = 0 /\ UNCHANGED <<synced, covered>>
    BY <1>11 DEF ProcessCrash, PowerLoss, Forget
  <2>2. CASE ProcessCrash
    <3>1. K' = K /\ StableLsns' = StableLsns
      BY <2>2, SameStable DEF KeepsStable
    <3>2. Log!Stop
      BY <1>0, <2>1, <3>1 DEF Log!Stop
    <3> QED BY <3>2 DEF Log!Next
  <2>3. CASE PowerLoss
    <3>1. ~Creating
      BY <2>3 DEF PowerLoss, CanCrash, Creating
    <3>2. /\ StableLsns \subseteq K' /\ StableLsns' = K'
          /\ \A x \in K' \ K : x <= covered
          /\ \A x \in K \cap K', y \in K : (y < x /\ y > covered) => y \in K'
      BY <2>3, <3>1, PowerSets
    <3>3. Log!Stop
      BY <1>0, <2>1, <3>2 DEF Log!Stop
    <3> QED BY <3>3 DEF Log!Next
  <2> QED BY <1>11, <2>2, <2>3
<1> QED BY <1>2, <1>3, <1>4, <1>5, <1>6, <1>7, <1>8, <1>9, <1>10, <1>11 DEF Next

(* As long as no creation of a segment is interrupted, the segments keep the contract of LogFile,
   which is what DurableVDB uses of its log (DurableVDBRefinement).                             *)
THEOREM LogIsImplemented ==
    ASSUME "interruptedCreate" \notin Faults
    PROVE  Spec => ImplementsLog
<1>1. Init => Log!Init
  <2> SUFFICES ASSUME Init PROVE Log!Init
    OBVIOUS
  <2>1. DOMAIN files = {} /\ IsFiles(files)
    BY NoFilesAre DEF Init
  <2>2. AllLsns(files) = {} /\ StableLsns = {}
    <3>1. StableLsns = StableOf(files)
      BY DEF StableLsns, StableOf
    <3> QED BY <2>1, <3>1, LsnSets
  <2> QED BY <2>2 DEF Init, Log!Init
<1>2. ASSUME WalInv, WalInv', EntryInv, SyncedInv', [Next]_vars
      PROVE  [Log!Next]_(Log!vars)
  <2>1. CASE Next
    BY <1>2, <2>1, LogStep
  <2>2. CASE UNCHANGED vars
    BY <2>2 DEF vars, Log!vars, StableLsns
  <2> QED BY <1>2, <2>1, <2>2
<1>3. WalInv /\ WalInv' /\ EntryInv /\ SyncedInv' /\ [Next]_vars => [Log!Next]_(Log!vars)
  BY <1>2
<1>4. Spec => Log!Spec
  BY <1>1, <1>3, WalInvAlways, SyncedAlways, PTL DEF Spec, Log!Spec
<1> QED BY <1>4 DEF ImplementsLog

=============================================================================
