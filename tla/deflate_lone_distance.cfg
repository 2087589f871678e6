SPECIFICATION Spec
CONSTANTS
    Bytes <- MCBytes
    Inputs <- MCInputs
    Levels <- MCLevels
    Hash <- MCHash
    WINDOW_SIZE = 4
    MIN_MATCH = 3
    MAX_MATCH = 5
    MAX_CODE_BITS = 5
    MAX_CL_BITS = 4
    BYTE_BITS = 4
    LEN_BITS = 4
    END_OF_BLOCK = 8
    LENGTH_BASE <- MCLengthBase
    LENGTH_EXTRA <- MCLengthExtra
    DIST_BASE <- MCDistBase
    DIST_EXTRA <- MCDistExtra
    FIXED_LIT <- MCFixedLit
    FIXED_DIST <- MCFixedDist
    REPEAT <- MCRepeat
    CODELEN_ORDER <- MCCodelenOrder
    HLIT_BITS = 2
    HDIST_BITS = 2
    HCLEN_BITS = 3
    CL_BITS = 3
    DamagedUpTo = 3
INVARIANT RoundTripAlways
