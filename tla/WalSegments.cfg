\* Rotation, syncs and truncation, with failing fsyncs and a crash at any
\* step but an interrupted creation.
SPECIFICATION Spec
CONSTANTS
    s1 = s1  s2 = s2
    Syncers = {s1, s2}
    Faults = {"powerLoss", "processCrash", "fsyncError"}
    MaxLsn = 4
    MaxSegment = 3
    MaxCrashes = 2
SYMMETRY Symmetry
INVARIANTS
    TypeOK
    SyncIsDurable
    SealedSegmentsAreComplete
PROPERTIES
    ImplementsLog
