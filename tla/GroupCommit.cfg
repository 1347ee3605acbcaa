\* PerOpSync with three writers and their checkpoints, all threads scheduled fairly: one
\* leader fsyncs for the group, and every call returns.
SPECIFICATION FairSpec
CONSTANTS
    t1 = t1  t2 = t2  t3 = t3
    Threads = {t1, t2, t3}
    Policy = "PerOpSync"
    CheckpointOps = 2
    Kinds = {"Insert"}
    v1 = v1  v2 = v2  m1 = m1  m2 = m2
    Vecs = {v1}
    Metas = {m1}
    Faults = {}
    SerialisedIds = TRUE
    MaxLsn = 3
    MaxCrashes = 1
    NoVec = NoVec  NoMeta = NoMeta  BadMeta = BadMeta
INVARIANTS
    NobodySleepsAlone
    SyncingMeansALeader
PROPERTIES
    CallsReturn
