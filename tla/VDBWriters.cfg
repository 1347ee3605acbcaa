\* Two writers, three ids, three attributes, two rows to choose from; compaction and a reload
\* at any quiet moment; searches of every kind in every state.  A hybrid search returns two of
\* three rows.
SPECIFICATION Spec
CONSTANTS
    t1 = t1  t2 = t2
    Threads = {t1, t2}
    v1 = v1
    Vecs = {v1}
    Attrs <- MCAttrs
    AttrType <- MCAttrType
    Metas <- MCMetas
    Codes <- MCCodes
    SignBit = 8
    HybridK = 2
    Depth = 3
    NoValue = NoValue  NoVec = NoVec  NoMeta = NoMeta  BadMeta = BadMeta
    MaxExt = 3
    MaxNodes = 3
    MaxPostings = 2
SYMMETRY Symmetry
INVARIANTS
    TypeOK
    IdsAreInverse
    PendingIdsAreTheWriters
    CountersAreExact
    DerivedStateIsExact
    SearchesAreExact
PROPERTIES
    HybridFindsKeptRows
    CompactReclaims
    PublishesCallersRow
    ImplementsRowStore
\* Every bound can be used up: the last thread then has nothing left to begin.
CHECK_DEADLOCK FALSE
