\* Periodic, with power failures, process crashes, failing writes and fsyncs, refused rows, and
\* callers that race for one id.
\* The faults may bring the store to a standstill: no deadlock check.
SPECIFICATION Spec
CONSTANTS
    t1 = t1  t2 = t2  t3 = t3
    Threads = {t1, t2}
    Policy = "Periodic"
    CheckpointOps = 2
    Kinds = {"Insert", "Delete", "UpdateVec", "Sync", "Checkpoint"}
    v1 = v1  v2 = v2  m1 = m1  m2 = m2
    Vecs = {v1}
    Metas = {m1}
    Faults = {"powerLoss", "processCrash", "ioError", "badRecord"}
    SerialisedIds = FALSE
    MaxLsn = 2
    MaxCrashes = 2
    NoVec = NoVec  NoMeta = NoMeta  BadMeta = BadMeta
SYMMETRY Symmetry
INVARIANTS
    KeptInv
    IdsFollowLogOrder
    SafetyInv
CHECK_DEADLOCK FALSE
