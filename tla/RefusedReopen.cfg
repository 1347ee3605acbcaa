\* A refused row stays in the log: after a crash the constructor throws, every time.
SPECIFICATION Spec
CONSTANTS
    t1 = t1  t2 = t2  t3 = t3
    Threads = {t1, t2}
    Policy = "PerOpSync"
    CheckpointOps = 2
    Kinds = {"Insert"}
    v1 = v1  v2 = v2  m1 = m1  m2 = m2
    Vecs = {v1}
    Metas = {m1}
    Faults = {"badRecord", "processCrash"}
    SerialisedIds = TRUE
    MaxLsn = 2
    MaxCrashes = 1
    NoVec = NoVec  NoMeta = NoMeta  BadMeta = BadMeta
SYMMETRY Symmetry
INVARIANTS
    AlwaysReopens
CHECK_DEADLOCK FALSE
