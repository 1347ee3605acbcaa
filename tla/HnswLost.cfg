\* Room in every list for every node: no link is ever pruned.
SPECIFICATION MCSpec
CONSTANTS
    t1 = t1  t2 = t2
    Threads = {t1, t2}
    Points = {0, 1, 3}
    MaxLayer = 1
    M = 3  Mmax = 9  Mmax0 = 9
    Ef = 3  EfSearch = 3
    MaxSearches = 0
SYMMETRY Symmetry
INVARIANTS
    EveryInsertIsFound
