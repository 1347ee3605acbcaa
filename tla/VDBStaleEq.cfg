\* One writer: a tag overwritten by set_metadata, and the predicate on its old value.
SPECIFICATION Spec
CONSTANTS
    t1 = t1
    Threads = {t1}
    v1 = v1  v2 = v2
    Vecs = {v1, v2}
    Attrs <- MCAttrs
    AttrType <- MCAttrType
    Metas <- MCMetas
    Codes <- MCCodes
    SignBit = 8
    HybridK = 2
    Depth = 2
    NoValue = NoValue  NoVec = NoVec  NoMeta = NoMeta  BadMeta = BadMeta
    MaxExt = 1
    MaxNodes = 2
    MaxPostings = 2
SYMMETRY Symmetry
INVARIANTS
    EqIsExact
CHECK_DEADLOCK FALSE
