\* The same, with remove() called once the inserts have returned, however they overlapped.
SPECIFICATION MCSpec
CONSTANTS
    t1 = t1  t2 = t2
    Threads = {t1, t2}
    Keys = {1, 2}
    Capacity = 2
    MaxNodes = 7
    MaxCalls = 6
    MaxScans = 1
    MaxRemoves = 2
    Alone = {1, 2, 3}
    RemoveUnclean = TRUE
CONSTRAINT NodesAreGuarded
SYMMETRY Symmetry
CHECK_DEADLOCK FALSE
INVARIANTS
    RemovesExactlyOne
