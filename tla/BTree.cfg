\* Two threads insert, and scan: the fourth insert may overlap the first split, the seventh
\* a split of an internal node; leaves of two entries.
SPECIFICATION MCSpec
CONSTANTS
    t1 = t1  t2 = t2
    Threads = {t1, t2}
    Keys = {1, 2}
    Capacity = 2
    MaxNodes = 7
    MaxCalls = 7
    MaxScans = 1
    MaxRemoves = 2
    Alone = {1, 2, 3, 5, 6}
    RemoveUnclean = FALSE
CONSTRAINT NodesAreGuarded
SYMMETRY Symmetry
INVARIANTS
    TypeOK
    NothingIsLost
    HintsLeadToParents
    ScansAreExact
    RemovesExactlyOne
    WellFormed
PROPERTIES
    ImplementsPairSet
