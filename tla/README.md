# A verification development for vdb

`vdb` is a vector database in C++: an in-memory store with an approximate nearest-neighbour index and filterable metadata, made durable by a write-ahead log and snapshots. This directory holds TLA+ models of it, the TLC configurations that check them, and TLAPS proofs of what matters most. Paths below are relative to the repository.

## 1. Inventory

| Component | State | Operations | Talks to | What is hard | What makes it correct |
|---|---|---|---|---|---|
| **DurableVDB** `src/durable_vdb.cpp` | `next_lsn_`, `ops_since_checkpoint_`, `write_mutex_`; `durable_lsn_`, `syncing_`, `in_flight_`, `commit_cv_` | insert, update, set_metadata, remove, checkpoint, sync, constructor (recovery), destructor | Wal, snapshot, VDB | group commit with one leader and sleeping followers; the quiescence of a checkpoint; crash at any step; exceptions half way | what a caller was told is durable survives; nothing is visible before it is durable (PerOpSync); the live state is the log replayed; every call returns |
| **Wal** `src/wal.cpp` | segment files, `segments_`, `active_fd_`, `highest_lsn_`, `io_mu_` | open, replay, append (rotate), sync, truncate | file system | fsync runs beside appends and rotations; crash in the middle of creating a segment; torn writes | a synced record survives; replay is in lsn order; a log can always be opened; truncate removes only what a snapshot covers |
| **snapshot** `src/snapshot.cpp` | the snapshot file and its `.tmp` | save, load | VDB internals, file system | atomic replacement | a crash leaves the old snapshot or the new one |
| **VDB** `src/vdb.cpp` | `ext_to_int_`, `int_to_ext_`, `deleted_`, `vectors_`, two counters, `mu_` | insert (three phases), update (three phases), remove, set_metadata, compact, searches | index, MetadataStore, filter planner | half-inserted nodes; compaction beside writers; over-fetching by counters | each live id has one live node; counters are exact; a search finds min(K, matches) live rows |
| **MetadataStore** `src/metadata.cpp` | typed columns, dictionaries, live counts, postings, B+-trees | append_row, set_row, mark_live, mark_dead, permute, resolve, search_text, (de)serialize | BPlusTree | derived state updated incrementally at several call sites; postings are never cleaned | counts, postings and trees agree with the live rows; resolve is exact |
| **BPlusTree** `src/bplus_tree.cpp` | nodes with right links and high keys, per-node locks | insert, remove, find, range | | splits that reach the parents late, through stale hints; merges | the tree is the set of pairs inserted and not removed; keys are found during splits |
| **HNSWIndex** `src/hnsw_index.cpp` | layered graph, entry point, per-node locks | allocate, link, add, search, (de)serialize | distance | concurrent links overwriting neighbour lists | nodes stay reachable; back-links stay within the cap |
| **IVFIndex, BruteIndex** | inverted lists and centroids; flat rows | train, add, search | distance | training order | numbering agrees with VDB's |
| **filter planner, sortable_bits, distance, crc32c, serialize** | none | pure functions | | numeric edges | order preservation, choice of the cheaper plan |
| **vdb_server** `server/vdb_server.cpp` | none | gRPC handlers | DurableVDB | none of its own | |

Mutations enter through DurableVDB (or VDB directly in a memory-only program). A durable mutation runs a *prefix* under `write_mutex_` (mint the id, take the lsn, append the record, count the operation), waits for an fsync covering its lsn (PerOpSync), applies the record to the VDB, possibly flushes (Periodic), and un-counts itself; the writer that hits the `checkpoint_ops`-th operation then runs a checkpoint. Searches go straight to the VDB.

## 2. Plan

The order puts what loses data first.

1. `WalRecords`, `DurableVDB`: the durable store with all its threads, locks, crashes and I/O errors. Abstract specification `DurableStore`. **Done.**
2. `Wal` on a file system with explicit durability; `LogFile` is the contract between it and DurableVDB, so the two modules compose through it. **Done.**
3. The proofs about the durable store and its log, for all constants: every safety property the runs check, and that the store implements `DurableStore` and meets `Wal` at `LogFile`. **Done.**
4. `Metadata`, `VDB`, `VDBSearch`: three-phase writes, compaction, reload, counters and derived state; vector, filtered, text and hybrid search. Abstract specification `RowStore`, a map from ids to rows, which is what `DurableVDB` takes its VDB for. **Done.**
5. `BTreeNodes`, `BPlusTree`: the B+-tree, concurrent inserts and scans lock by lock, removals alone. Abstract specification `PairSet`, which is what `Metadata` takes its tree for. **Done.**
6. `Hnsw`: concurrent allocation, linking and search. **Done.**
7. The proofs about `VDB`: identity of rows, counters, derived state, and that it implements `RowStore`. **Done.**
8. The proofs about `Hnsw`: every invariant its run checks, the reachability of linked nodes among them. **Done.**
9. The proofs about `BPlusTree` for inserts and scans: that hints lead to parents, that no pair gets out of reach, that scans are exact, and that it implements `PairSet`. **Done.**

How the modules compose:

```
 DurableStore <-- DurableVDB --> LogFile <-- Wal            --> : implements, or uses by contract
                     | WalRecords (a map of rows)
                     v
                  RowStore <-- VDB <- VDBSearch
                                | Metadata (a set of pairs per indexed column)
                                v
                             PairSet <-- BPlusTree (BTreeNodes)
                  Hnsw: the index VDB links outside its lock
```

## 3. The durable store

### Modules

- `WalRecords`: a log record (`Record(type, ext, row)`, its lsn is its position), the VDB as a map from live external ids to rows, `ApplyTo` (`apply_`), `Replay`, and `Refused` (`MetadataStore::validate`). Vectors and metadata are model values.
- `DurableVDB`: variables named after the members (`nextLsn`, `durableLsn`, `syncing`, `inFlight`, ...). `pc[t]` places a thread in the code:

| `pc` | Code |
|---|---|
| `prefix` | before the block under `write_mutex_` |
| `commit`, `wait` | the loop of `group_commit_`; asleep on `commit_cv_` |
| `capture`, `fsync`, `publish` | inside `Wal::sync` under `io_mu_`; in `::fsync`; back in the caller (`via[t]` says which) |
| `apply`, `flush`, `finish` | `db_.insert_reserved` and its like; `maybe_flush_`; `finish_op_` |
| `ckpt`, `quiesce`, `quiesceWait`, `save`, `dirsync`, `mark`, `truncate`, `release` | the steps of `checkpoint`, `save_snapshot` and `write_file_atomic` |

  One action is one critical section or one system call. The prefix is a single action because everything in it but the append is guarded by `write_mutex_`, and the append is seen through `wal` and `highestLsn` only. `inFlight` is incremented in the same action: `commit_mutex_` is taken inside the prefix, and a checkpoint, the only reader that cares, cannot run until the prefix is over.

  The disk is `wal` (the lsns the segment files hold), `stable` (up to which they are on stable storage), `snap` and `snapStable` (what a reader, and what a power failure, finds). `hist` is the history: `hist[n]` is the record of lsn n, `NoCall` where an append failed. A crash cuts it after the last record that the log or the snapshot still has. `applied`, `promised` and `crashes` are history variables; no action reads `applied` or `promised`.

  Faults are constants (`Faults`): `processCrash` (the page cache survives), `powerLoss` (only fsynced data survives), `badRecord` (a caller passes metadata the schema refuses), `ioError` (append, fsync or the writing of a snapshot throws), `dirSyncError` (the directory fsync after the rename fails, which the code ignores).
- `DurableStore`: what the store promises: a log, the durable part of it, what is visible, what callers were promised. `Strict` is the extra promise of PerOpSync.
- `MCDurableVDB`: symmetry sets. Liveness runs use none.

### The log

- `Wal` has directory entries and file contents that become durable separately: an entry by the fsync of the directory, contents by the fsync of the file. `io` places the holder of `io_mu_`; `Seal`, `Create`, `WriteHeader`, `SyncHeader` and `SyncDir` are the system calls of `rotate_` and `open_new_segment_`. A frame is its lsn; bytes behind the last whole frame are `junk`. Whether a frame still fits is a choice, since sizes are not kept. The environment is DurableVDB: one appender, truncation to one less than the highest lsn when the covering snapshot is durable.
- `LogFile` is the contract: records join at the end, become stable front first, are reclaimed only when covered; a crash takes an end of the log at most. `Wal` implements it (`ImplementsLog`), and `DurableVDB` uses its log only in this way (`UsesLogFile`). This is how the two are composed without a product of their states. Both halves are proved (section 7).

### Runs

| Run | Instance | Shows |
|---|---|---|
| GroupCommit | PerOpSync, 3 threads inserting, checkpoint every 2 operations, fairness, no symmetry | one leader fsyncs for the group: no follower or checkpoint sleeps without somebody who will wake it, `syncing_` means a leader is at work, and every call returns |
| SyncOps | PerOpSync, 2 threads, all five mutations, checkpoint every 2 operations, power failure | returned writes survive; nothing visible can be lost; a checkpoint sees every logged operation; the live store is the log replayed, in whatever order writers apply; DurableVDB implements DurableStore and uses its log by LogFile |
| PeriodicFaults | Periodic, 2 threads, sync(), checkpoints; both kinds of crash, failing I/O, refused rows, racing callers | promises are kept (`KeptInv`), `SafetyInv` holds, ids stay in log order although lost ids are minted again |
| WalSegments | 2 syncers, 4 records, 3 segments, 2 crashes, failing fsyncs | synced records survive, sealed segments are whole, and the segments keep LogFile |
| WalFaults | 1 syncer, 3 records, all faults | whatever is lost, replay is in lsn order and `segments_` describes the files |
| RefusedReopen | refused rows, process crash | the disagreement below |

Bounds: `MaxLsn` is the number of log records begun, `MaxCrashes` the number of crashes, `MaxSegment` the number of segments. Two threads give every pairwise race. Three records with `CheckpointOps = 2` give a record before, in and after a checkpoint; two crashes let a recovered state crash again. Ids matter only by equality, so one or two rows suffice.

In GroupCommit the third thread gives a follower that wakes while another leads.

`CHECK_DEADLOCK FALSE` stands in the runs whose faults really stop the store (an error leaves `syncing_` or `in_flight_` up, a log without an active fd). In the others TLC also shows that some thread can always go on, up to the bounds.

Fairness (`FairSpec`): weak fairness of each thread's steps inside a call, which is what an operating system that schedules every runnable thread gives, and of recovery. GroupCommit has no faults, because several of them do stop calls for ever (below). No fairness is assumed of callers, of crashes or of the clock. `std::mutex` is not fair, so a thread could lose `write_mutex_` again and again; under the bound on lsns the others run out of calls, so starvation by an endless stream of rivals is outside what the liveness runs show.

### Disagreements

Four runs of the project end in a violation. Each is a statement of the repository's own comments or tests that the code does not keep, listed with its lines under `findings` in PROJECT.json.

| Run | What happens |
|---|---|
| RefusedReopen | metadata is validated only after the record was logged: a refused row makes the constructor throw on every later start |
| VDBStaleEq | a tag predicate returns rows whose tag was overwritten (section 4) |
| BTreeLateSplice | two splits of one leaf reach the parent in the wrong order, and a later `remove()` cuts a pair off the tree (section 5) |
| HnswLost | two overlapping links overwrite one another, and a node can never be found (section 6) |

The passing runs exclude the faults a property cannot bear, and say so in their `Faults`. Adding one back shows more of what the code does not survive:

| Add | to run | and TLC finds violated |
|---|---|---|
| `processCrash` | SyncOps | `StrictVisibility` and `ImplementsStore`: `recover_` (durable_vdb.cpp:41) calls records durable, and shows them, that only the page cache holds |
| `dirSyncError` | SyncOps | `UsesLogFile` and `PromisesSurvive`: the failing directory fsync (snapshot.cpp:46) is ignored and the log truncated |
| callers racing for one id (`SerialisedIds = FALSE`) | SyncOps | `StoreIsReplayOfLog` and `ImplementsStore`: two updates are applied in the other order than logged, so a restart brings back the older row; `vdb.h:58-59` leaves this to the callers |
| `badRecord` | GroupCommit | `NobodySleepsAlone`: the exception leaves the operation counted, so the next checkpoint waits for ever with `write_mutex_` held |
| `ioError` | GroupCommit | `SyncingMeansALeader`: a leader whose fsync throws leaves `syncing_` set, and later writers sleep for ever |
| `shortWrite` | WalSegments | `SealedSegmentsAreComplete`: a failed append leaves part of a frame that a rotation seals, and such a log cannot be opened |
| `interruptedCreate` | WalSegments | deadlock, or `AlwaysOpens` when it is listed: a crash between creating a segment and its header (wal.cpp:287) leaves a log on which every later start throws; `SyncIsDurable` and `ImplementsLog`: `open` never fsyncs the directory, so a segment whose entry was not yet stable at a crash takes synced records that a power failure then removes |
| `createError` | WalSegments | deadlock: after `rotate_` closed the old segment there is no active fd, and every later append throws |

## 4. The in-memory store

### Modules

- `Metadata`: a metadata store is a record of columns (`data`), live counts (`count`, `docs`), `postings` and range indexes (`tree`); an operator per method returns the store it leaves behind. A value is a set of codes: one for a tag, a Boolean or a number, the distinct terms of a text. Postings are bags, for a row may be listed under a value twice. A range index holds numbers as `SortableBits`, unsigned keys whose top bit weighs `SignBit` (2^63 in the code). `serialize` writes the columns alone, so `Deserialized(Serialized(m))` has no derived state, and `Rebuild` recomputes it.
- `VDB`: the identity maps, tombstones, vectors and counters, with one action per exclusive hold of `mu_` and one for `link()`. `pc[t]` is `reserved` between `reserve_id` and phase 1, `link` before phase 2, `publish` before phase 3. Internal ids start at 1.
- `VDBSearch`: the searches. One holds `mu_` shared throughout and changes nothing, so it is an operator on the state: `Want` and `WantAllowed` are how many nodes `collect_` asks the index for, `Collect` what is left of its answer, `PreFiltered` the scan of the allowlist; the planner (`CollectAuto`) may pick either. Distances and scores are a ranking of the nodes, and the properties quantify over all of them. The index is exact, as BruteIndex is. `search_hybrid` holds `mu_` twice, so it is an operator on two states: the hits of the first hold carry external ids and payloads, and `Fused` ranks them with those of the second.
- `RowStore`: the store as callers see it: a map from ids to rows, and ids handed out once. `VDB` implements it with the live rows for `rows`. `DurableVDB` applies its records to the same kind of map with the same `ApplyTo`.
- `MCVDB`: a tag, a text and an indexed number that may be negative, and two rows that differ in all three, one without a tag.

Two things are assumed of the callers, because the code does: calls on one id do not overlap (`Busy`, `vdb.h:58-59`), and `compact` and `load_snapshot` run while nobody is between two phases (`Quiet`, `bplus_tree.h:112-113`). The second is not obvious from `vdb.cpp`: `compact` takes `mu_`, but a writer in phase 2 does not hold it and keeps an internal id that the compaction renumbers. `PendingIdsAreTheWriters` is the property that breaks without it (`CompactAmidWrites`).

### Runs

| Run | Instance | Shows |
|---|---|---|
| VDBWriters | 2 writers, 3 ids, 1 vector, 2 metadata rows, 3 nodes between compactions | id maps inverse to each other; counters exact, with pending nodes counted as dead, and nothing live before it is linked; counts, postings and range index what the rows make them (`DerivedStateIsExact`); every search finds the K nearest (`SearchesAreExact`); a hybrid search over any step shows no row that never was, and a row the step left alone loses its place only to rows ranked above it (`HybridFindsKeptRows`); compaction and reload change no row; each call makes the caller's row appear; and RowStore |
| VDBStaleEq | 1 writer, 1 id | the disagreement below |

Two writers give every pair of phases; three nodes hold three live rows, or let an update leave a tombstone beside a second row, so that compaction renumbers; `MaxPostings` 2 lets a value be overwritten and come back. The hybrid search lets one step fall between its holds; a step is any action of the specification, a compaction included. It goes 3 deep, so the first ranker finds every live row, and returns 2, so with three ids the fusion cuts one off; which one depends on both rankings and on what the step did. One vector is enough, for any ranking of the nodes is tried and the metadata tells rows apart; that rows keep their vectors is proved for any set of them (`TheStoreIsARowStore`). The run ends when ids and nodes are used up, hence `CHECK_DEADLOCK FALSE`.

*Disagreement.* `set_row` leaves the old value's posting, and `resolve` of an equality checks liveness only. `metadata.h:145` promises an exact allowlist; after `set_metadata` the old tag still returns the row (VDBStaleEq), and a tag that is set again lists it twice. A doubled entry is returned twice by the pre-filter scan, and makes `K + (size - allowlist)` of `collect_` smaller than K, so a post-filtered search may ask the index for too little and return nothing where a row matches. `SearchesAreExact` therefore measures a filtered search by its allowlist, and leaves out lists with repetitions. `search_text` has the same stale candidates but scores them anew, so they come out with score zero. Compaction cleans both (`CompactReclaims`).

What a hybrid search can mix: the comment at `vdb.cpp:392` calls the payloads of both lists identical, but they are read under different holds. A hit may carry the payload of the first and the rank of the second.

## 5. The B+-tree

- `BTreeNodes`: what one thread does to nodes it has for itself: the halves of a split, and all of `remove()`, which the code runs alone: the path to the pair among the leaves its equal keys fill, borrow, merge, collapse of the root.
- `BPlusTree`: inserts and scans by the B-link protocol. `pc[t]` is `walk` (descending, or at its leaf), `seek` (moving right to the parent of a split node), `rehome` (telling the children of the new half of an internal node), each with the lock of `at[t]` held; `enter` and `climb` wait for a first lock; `grow`, `hintLeft`, `hintRight` make a new root. The code couples locks on its way right and down, taking the next before it lets go of the last (`bplus_tree.h:100-104` speaks of at most one), so an action includes the acquisition of the next lock, and a cycle of waiting would be a deadlock.
- `PairSet`: a set of pairs; `BPlusTree` implements it, with the pairs found along the leaf chain for `pairs`.

| Run | Instance | Shows |
|---|---|---|
| BTree | 2 threads, keys 1 and 2, leaves of 2, 7 nodes, 7 calls with a scan among them, 2 removals | in every step of a split no pair is out of reach, hints lead to parents, a scan returns exactly what was there all along, an insert takes effect in one step; with nobody inside, a tree whose inserts did not overlap is balanced and ordered, and `remove` takes away one pair |
| BTreeLateSplice | the same, with removals after overlapping inserts | the disagreement below |

Two keys fill several leaves with equal keys, the hard case of `remove`. Five inserts into leaves of two can split an internal node, which takes seven nodes. The inserts in `Alone` begin only when nobody is inside: the fourth may overlap the third, which is the first to split, and the seventh the sixth, when a parent may split while another thread is on its way to it. `RemovesExactlyOne` looks one removal ahead of the two. Deadlock is checked, and a writer that spins for its hint counts as waiting.

*Disagreement.* Two threads split one leaf one after the other; each puts its new half directly behind the leaf in the parent, in whichever order they get there. If the later split comes first, children and leaf chain disagree (children 1, 2, 3 for the chain 1, 3, 2). Finds and scans still work, since they follow the chain. `remove` merges children that are not neighbours and cuts another pair off (BTreeLateSplice).

Two more things TLC finds:

- A data race. `split_internal_` walks the children of its new node without that node's lock (`bplus_tree.cpp:289`), against `bplus_tree.h:225`. A thread that has just been told of the new node by its first child may split that child and put the half there, while the walk goes on over a vector whose memory is gone. `NodesAreGuarded` states it; listed as an INVARIANT of BTree it is violated by two overlapping inserts, the sixth and the seventh. What follows is undefined, so both runs use it as a CONSTRAINT and explore nothing beyond such a state: what they show holds of executions up to the first race.
- A full arena. With `MaxNodes` 3 and `Alone` {1}, BTree ends in a deadlock: the exception leaves the root split without a parent, and the other writer that waits for its hint spins for ever.

## 6. The HNSW graph

`Hnsw` has one action for each critical section of `allocate`, `link_node_` and `search`: `Allocate`, `ReadEntry` (entry point and top layer are copied), `Expand` (one node's list is copied and its neighbours visited), `Descend`, `SetLinks` (a new node's list of one layer, by the diversity rule of `SelectNeighbors`), `BackLink` (one neighbour is told, and its list pruned when full), `NextLayer`, `Promote`, `Answer`. Vectors are points on a line, no two equally far from a third. The layer of a node is any up to `MaxLayer`.

| Run | Instance | Shows |
|---|---|---|
| Hnsw | 2 threads, 3 nodes of up to 3 layers, lists of 1 (2 at the bottom), one search | no link leads to a node without the layer, the entry point is the tallest node and not below any linked one, what no pruned or overwritten list cut off is found, also by a search that runs beside the links |
| HnswLost | room in every list | the disagreement below |

Three nodes are enough for one to be linked while another is between its own layers and a third is searched from; lists of one make every prune happen. `EfSearch` 3 covers the nodes, so that a miss is the graph's and not the beam's.

*Disagreement.* A node of two layers is told to others in the upper layer before its lower list is written. A linker that descends to it there links to it below and pushes itself into its list; the assignment at `hnsw_index.cpp:232` then overwrites that list. With nothing ever pruned, a node is in nobody's list for good (HnswLost), though `test_concurrency.cpp:111-113` says no insert is lost.

`SearchesLoseNothing` speaks of what is within reach of the node the last layer starts at. The stronger form, what is within reach of the entry point, does not hold: a search may descend to a node whose bottom list is still empty, and then finds that node alone.

## 7. Proofs

TLAPS checks the theorems below for every set of threads, every bound and every value of the other constants. They use the named assumptions of the modules (`ConstantsAssumption`, `RecordsAssumption`, `SchemaAssumption`, `VDBAssumption`, `WalConstants`, `HnswAssumption`, `BTreeAssumption`, `TreeAssumption`), which give constants their types, and the hypotheses in the tables.

### The durable store

| Module | Theorem | States | Hypotheses |
|---|---|---|---|
| DurableVDBProofs | Safety | `SafetyInv` | |
| | PromisesKept | `PromisesSurvive`: what callers were told is durable is in the log or under the snapshot | the directory fsync works |
| | StrictlyVisible | `StrictVisibility`: nothing visible under PerOpSync can be lost; `durable_lsn_` is never ahead of the disk | `OnlyPowerFails` |
| | TypesHold | `TypeOK` | |
| | OneLeader, LeaderIsReal | one leader of the group commit; `SyncingMeansALeader` | none; no `ioError` |
| | CheckpointsAreConsistent | `SnapshotSeesEveryLoggedOp` | |
| | SomebodyWillWakeThem | `NobodySleepsAlone` | no `ioError`, no `badRecord` |
| | ReplayFromSnapshot, ReplayOutOfOrder | a snapshot and the records past it make the store of the whole log; a record applied late makes the store of its turn | those behind it are of other ids |
| DurableVDBStoreProofs | LogIsKept, IdsAreInLogOrder | `KeptInv`; `IdsFollowLogOrder` | the directory fsync works |
| | StoreIsTheLogReplayed | `StoreIsReplayOfLog`, and each snapshot is a replay | the same, and `SerialisedIds` |
| | LogIsUsedByContract | `UsesLogFile` | the directory fsync works |
| | StoreKeepsItsPromise | `ImplementsStore` | no `ioError`, no `dirSyncError`; `SerialisedIds`; under PerOpSync no `processCrash` |

The hypotheses are needed: the second table under *Disagreements* in section 3 names what TLC finds when a fault is let in, and with `dirSyncError` it also finds `KeptInv`, `StoreIsReplayOfLog` and, with a checkpoint after each insert, `IdsFollowLogOrder` violated. The one exception is the directory fsync in `OnlyPowerFails`: the proof uses it to know that the snapshot on disk is the stable one, but TLC finds no state of the bounded instances where `StrictVisibility` fails without it. `SerialisedIds` is what `vdb.h:58-59` asks of callers.

*Argument.* The invariants of `DurableVDBInductive` come in layers, each inductive relative to the ones before, with one lemma per action or per group of actions that touch the same state.

1. `SafetyInv` is about the length of the history. An lsn is *safe* (`Safe(n)`) if some record of the log at or after n is stable or the stable snapshot covers n, so that recovery will never mint it again. `PromisesSafe` alone is not inductive: that a promised lsn survives depends on what is on disk, and that on what the leader captured. So the invariant says what each thread knows in each place: a captured target is the highest record in the log (`TargetsKnown`), after the fsync it is safe, an operation whose lsn `durable_lsn_` has reached is safe (`CommitsKnown`), a checkpoint past `mark` has its Checkpoint record in the log and, past its fsync, stable (`CheckpointKnows`). `HistoryEnds` says that a running process continues the history, and that the history of a stopped one ends with something recovery will find; `Exclusion` gives checkpoints and prefixes `write_mutex_`.
2. `KeptInv` is about single records: a promised one is itself stable in the log or covered by the stable snapshot (`RecordSafe`). It needs the snapshot of a checkpoint that is about to truncate to be stable (`SnapshotIsStable`), which is where the directory fsync comes in, and an operation under way to be in the log until a snapshot covers it, which holds because a checkpoint waits for `in_flight_`. `HistoryKept` and `StableKnown` extend it to records nobody was promised.
3. `VisibleInv` adds that `durable_lsn_` never runs ahead of the disk and that a stopped store has only durable records left (`DiskIsKnown`).
4. `LeaderInv` gives `syncing_` to one thread. `CountInv` relates `in_flight_` to the cardinality of the threads in flight. An exception that skips `finish_op_` leaves the counter too high for good, so the counter is only an upper bound; where it is exact, every record is applied or in some thread's hands. A checkpoint proceeds at zero, where it is exact. This is why `SnapshotSeesEveryLoggedOp` needs no hypothesis about faults.
5. `PendingInv` says that threads hold distinct records and, callers being serialised per id, that no record behind a pending one is of its id. `ReplayInv` then follows step by step: to apply a record late is to apply it in its turn (`ReplayOutOfOrder`), and to recover is to replay from a snapshot (`ReplayFromSnapshot`). `Replay` is a recursive function of the length of the log; facts about it are inductions, done without the induction theorems of the library, from the least member of a set of naturals (`FiniteInduction`).
6. The two refinements map each action to a step of the abstract specification or to a stutter. The hard cases are a crash, after which the log must still hold the durable part and nothing new, and recovery, after which what is visible must be the log replayed.

### The log

| Module | Theorem | States | Hypotheses |
|---|---|---|---|
| WalProofs | TypesHold, ReplayInOrder, SegmentsAreDescribed | `TypeOK`, `ReplayIsInLsnOrder`, `SegmentsDescribeFiles` | |
| | SealedAreComplete | `SealedSegmentsAreComplete` | no `shortWrite` |
| | SyncsAreDurable, LogIsImplemented | `SyncIsDurable`, `ImplementsLog` | no `interruptedCreate` |

`WalInv` (`WalInductive`) holds under every fault. Its parts: what `segments_` and the active file are at each step of an append (`Stages`, `Shape`); the order of all records in all files that a crash may leave, unlinked ones included (`Order`); how far they reach (`Bounds`); that only the newest file has anything unsynced (`Sealed`); and that the rest of what a running `sync()` must cover is stable already (`SyncKnown`), which is why it may fsync one file beside appends and rotations. `ReplayIsInLsnOrder` is not inductive without the unlinked files, since a power failure may bring them back. On top, `TailInv` says that a torn tail is in the newest file and `EntryInv` that only the creator of a segment sees its name unsynced; each is false with the one fault its theorem excludes, and section 3 shows what follows.

Together with LogIsUsedByContract: DurableVDB uses its log as LogFile allows, and Wal does what LogFile says. The composition has one gap. After a power failure LogFile lets truncated records come back, as they do in Wal when an unlink was not yet stable; in DurableVDB they stay away. There they would lie below the `lsn` of the snapshot, and recovery skips those.

### The in-memory store

| Module | Theorem | States |
|---|---|---|
| VDBProofs | IdsHoldTogether, PendingIdsStayTrue, CountersStayExact | `IdsAreInverse`, `PendingIdsAreTheWriters`, `CountersAreExact` |
| | TheCallersRowAppears | `PublishesCallersRow` |
| | TheStoreIsARowStore | `ImplementsRowStore` |
| | TypesHold | `TypeOK` |
| | QueriesRestOnTheTruth | `DerivedStateIsExact` |
| | CompactionReclaims | `CompactReclaims` |
| | EverySearchIsExact | `SearchesAreExact` |

There are no faults in memory and no hypotheses beyond the assumptions on constants. What the model asks of callers (`Busy`, `Quiet`, section 4) is in its actions.

`IdsInv` (`VDBInductive`) makes the three properties about ids inductive: the parallel arrays have one length (`ArraysInv`), no two calls are about one external id (`CallsInv`), a pending node holds its caller's row (`PendingRows`) and is linked before it is published (`LinkedInv`). A compaction is the hard step, for it renumbers every node: the order it takes the live nodes in is a bijection (lemma `InOrder`), and every part of the invariant moves along it. `DerivedInv` says that counts and range indexes are those of the live rows and that the postings overlook no live or pending row. Its lemmas come in two parts, what each method does to a metadata store whose live rows are in a given set, and what each action of VDB does to that set.

`SearchesAreExact` is proved as a consequence of the two, for every ranking of the nodes. What a search asks of the index beyond its `K` is the number of nodes it may have to drop: the dead and pending ones, which the counters give exactly, and for a filtered search those not in the allowlist, which the range index or the postings name (lemmas `WantIsEnough`, `AllowedIsEnough`). So if fewer than `K` are left, the index was asked for all it has. What is left of an answer is `Only`, a recursion over the prefixes of the answer that the proof unfolds by induction.

### The graph

| Module | Theorem | States |
|---|---|---|
| HnswProofs | GraphIsInShape | `TypeOK`, `EntryIsTallest` |
| | SearchesFindAll | `SearchesLoseNothing` |
| | LinkedNodesAreFound | `LinkedAreFound` |

They hold for any number of threads and nodes, any layers and any `M`, `Mmax`, `Mmax0`, `Ef`, `EfSearch`. The only hypothesis is about the points (`HnswAssumption`): no two are equally far from a third, which stands for the order in which the code meets equal distances. There are three invariants in `HnswInductive`.

1. `ShapeInv` is `TypeOK` with what each thread holds: a node it links is there and has the layers it is on, what it visited has the layer it searches, a search that is not over has somewhere left to look. A list of the node's own may be longer than `Mmax` when `M` is: `TypeOK` bounds it by the larger of the two, as the code does, which caps back-links alone.
2. `WalkInv` is about a search of the last layer when `ef` covers the index. The nodes that were within reach when the layer began are in every set that holds what the search has visited and that no list still to be copied leads out of. This stays true when others add links anywhere, and when the walk ends what it has visited is such a set.
3. `ForestInv` is why no linked node is cut off. Linking a node places it: in each of its layers under the node the search of that layer started from, above them under the node its descent came by. The invariant says that there are such pointers: functions `R` and `V` that take every node of a layer to the root of its tree, as far as nodes are placed and as far as starts are known, and a `rank` that goes down along them, so that placing makes no cycle, although a search in one layer starts at what another thread has yet to place. Links join nodes of one tree (`LinksAreInTree`); while none was cut, what a tree joins is joined by links (`TreesAreLinked`), and these go both ways or will, once a waiting back-link is made (`LinksAreMutual`). When nobody is linking, every tree of layer 0 has the first node as its root (`OneRoot`): there is one tree, and what no link leads out of that holds the entry point holds every node. `NodesHaveLinkers` and `HiddenIsUnknown` say that a node is unknown to others until its own thread comes to one of its layers, so that what it is placed under is not itself.

No pointers like these are in the code. They are quantified (`\E R, V, rank`), and each step that places a node gives new ones (lemma `PlacedIsForest`).

### The B+-tree

| Module | Theorem | States |
|---|---|---|
| BPlusTreeProofs | TypesAreKept | `TypeOK` |
| | HintsAlwaysLead | `HintsLeadToParents` |
| | TreeIsASet | `ImplementsPairSet` |
| | NothingGetsLost | `NothingIsLost` |
| | ScansReturnAll | `ScansAreExact` |

They hold for any number of threads, any finite set of keys, any capacity and arena, under two hypotheses. `NoRemoves` (`MaxRemoves = 0`) leaves `remove()` out, which runs alone and rebuilds part of the tree. `[]NodesAreGuarded` leaves out what follows the data race of section 5, as the run does with its CONSTRAINT: a theorem about what is read from freed memory would be about the model alone. Late splices are not left out: the theorems hold also where children and leaf chain disagree.

`TreeInv` (`BPlusTreeInductive`) has six parts. `ShapeInv` is `TypeOK` with what each thread holds. `LockInv`: no two threads hold one node, nor walk one new half. `LevelInv`: there are levels such that a right link stays on its level and a child is one below its parent; no height is stored in the code, so the levels are quantified. `FamilyInv`: a node has one parent, a hint leads to it or to the left of it, and the half of a split that no parent knows is some thread's own. `FirstInv`: nothing is to the left of the first node of a level, whose first child is the first node below; so the walk down from the root comes to leaf 1 and the chain from there has every leaf. `FreshInv`: the row ids of inserts under way are in no leaf.

The rest of that invariant is about one arena and what is done to it (`BPlusTreeArenaProofs`). `ChainFrom` is a recursive function that must also stop in a cycle; lemma `ChainIsLeast` makes it the least set that is closed under right links, after which no induction is needed. Only four things happen to an arena: hints are set, a node is halved, a node gets an entry or a child, a root is added. Each is followed through the parts of the invariant that speak of the arena (`Good`), as a `Change`: what was to the right of a node still is, the parent of a child is where it was or to the right of there, no first node gets a left neighbour. Then `insert()` is put together from them, and every action is a `Change` by one thread. The delicate step is the second hint of a split, written while the first half's new parent may itself be split: the parent is then to the right of what is written, and that is all the invariant asks.

`NothingIsLost` and `ScansAreExact` need the order of the keys, and that is where late splices bite: once they have been, the keys of an internal node may be out of order, and so may its children. `OrderInv` is what remains true. Every node has a low bound: the high key of its left neighbour, and also the key its parent has in front of it, whichever position that is; a leaf's keys are sorted between its low and its high bound. Lemma `LowerBoundIs` shows that a bisection of keys in any order still stops behind a key that is below `k`. So a search is never at a node whose low bound is not below its key, and from there right links lead to the leaf, since every walk to the right comes to an end. The bounds are not stored in the code; they are quantified, as levels are.

`ScansInv` is about each scan on its way along the leaves: what it has to find, the pairs within its bounds that were there when it began, is in what it has collected or in the leaves from where it is on; nothing is in both, because no item has two places in the leaves (`OnePlace`) and splits only move pairs to the right of where they were, never behind a scan.

### Model-checked only

- Liveness (`CallsReturn`): fairness and ENABLED are beyond TLAPS here.
- `HybridFindsKeptRows`: it is about two states, between which there may be any step, and the fusion of two rankings is a fold. What it rests on, `DerivedStateIsExact`, is proved.
- `RemovesExactlyOne` and `WellFormed` of the B+-tree, which are about `remove()`.

TLC checks `SafetyInv` and `KeptInv` as invariants of PeriodicFaults; the inductive invariants of the other components were checked on the instances of their runs before they were proved, as far as TLC can enumerate what they quantify over.

## 8. Not modelled

- IVFIndex: no store that uses it can hold a row. A fresh one is not trained, and the first insert trips the assertion `ivf_index.cpp:85`; `train` in `compact` would store the vectors before `add` stores them again. Its clustering is floating-point arithmetic.
- Byte layouts and checksums (a frame is whole or not), dictionaries, scores, distances and quantisation; the encoding of doubles in `sortable_bits`; the cost formula of the planner, whose two outcomes are a choice in `VDBSearch`.
- The schema fingerprint in segment headers, which nothing compares (`wal.cpp:342` against `wal.h:43`); the loss of dirty pages after a failed fsync; the directory entry of `wal/` itself; a failing unlink in `truncate`.
- Of HNSW, the exception when `nodes_` is full and the one before quantisation is trained, and recall, which is statistical.
- The gRPC server, which has no state, and the tests and benchmarks, which were read for what they say of the program.

`components` and `hazards` in PROJECT.json say what each part leaves open.
