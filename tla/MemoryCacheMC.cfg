SPECIFICATION Spec
CONSTANTS
    p = p
    q = q
    r = r
    Slot = {p, q, r}
    CacheSizes = {0, 2, 5}
    MaxBlock = 2
INVARIANTS
    TypeOK
    LiveBlocksApart
    ArenaInv
    ArenaNeverFreed
PROPERTY
    ReallocReadsInside
CHECK_DEADLOCK FALSE
SYMMETRY MCSymmetry
