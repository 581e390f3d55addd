CONSTANTS
    m1 = m1
    m2 = m2
    b1 = b1
    TotalPages = 3
    PageBytes = 2
    MapIds = {m1, m2}
    Buffers = {b1}
    BufSize <- OneAndAHalfPages
    MaxCommon = 1
    Values <- OneBit
    Zero = 0
    None = None
SYMMETRY MapSymmetry
SPECIFICATION Spec
CHECK_DEADLOCK FALSE
INVARIANTS PoolAccounting BounceFaithful
PROPERTIES UnmapDelivers CommonUndisturbed
