\* Two threads link three nodes of up to three layers, and one of them searches.
SPECIFICATION MCSpec
CONSTANTS
    t1 = t1  t2 = t2
    Threads = {t1, t2}
    Points = {0, 1, 3}
    MaxLayer = 2
    M = 1  Mmax = 1  Mmax0 = 2
    Ef = 2  EfSearch = 3
    MaxSearches = 1
SYMMETRY Symmetry
INVARIANTS
    TypeOK
    EntryIsTallest
    LinkedAreFound
    SearchesLoseNothing
