SPECIFICATION Spec
CONSTANTS
    SIZE_MAX = 2047
    CHUNK = 64
    PAGE = 32
    NCLASS = 3
    Sizes = {16, 24}
    Counts = {0, 9, 256}
    ElemSize = 8
    MaxChunks = 2
    MaxLive = 3
INVARIANTS HeapConsistent DataIntact ListsExact StatsExact
