\* PerOpSync: every mutation, an automatic checkpoint every second one, a power failure anywhere.
SPECIFICATION Spec
CONSTANTS
    t1 = t1  t2 = t2  t3 = t3
    Threads = {t1, t2}
    Policy = "PerOpSync"
    CheckpointOps = 2
    Kinds = {"Insert", "Update", "UpdateVec", "SetMeta", "Delete"}
    v1 = v1  v2 = v2  m1 = m1  m2 = m2
    Vecs = {v1}
    Metas = {m1, m2}
    Faults = {"powerLoss"}
    SerialisedIds = TRUE
    MaxLsn = 3
    MaxCrashes = 1
    NoVec = NoVec  NoMeta = NoMeta  BadMeta = BadMeta
SYMMETRY Symmetry
INVARIANTS
    TypeOK
    SnapshotSeesEveryLoggedOp
    PromisesSurvive
    StrictVisibility
    StoreIsReplayOfLog
PROPERTIES
    ImplementsStore
    UsesLogFile
