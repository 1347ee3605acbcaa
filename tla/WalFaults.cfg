\* Every fault: short writes, failing fsyncs and creations, and crashes at any step.
\* A segment that cannot be created ends the log for good: no deadlock check.
SPECIFICATION Spec
CONSTANTS
    s1 = s1
    Syncers = {s1}
    Faults = {"powerLoss", "processCrash", "shortWrite", "fsyncError", "createError", "interruptedCreate"}
    MaxLsn = 3
    MaxSegment = 3
    MaxCrashes = 2
INVARIANTS
    ReplayIsInLsnOrder
    SegmentsDescribeFiles
CHECK_DEADLOCK FALSE
