SPECIFICATION Spec
CONSTANTS
    Receivers = {r1, r2}
    Blocks = {b1, b2, b3, b4}
    Sizes = {0, 1, 3, 7, 13, 14, 15}
    Counts = {0, 1, 2, 3, 5}
    Word = 16
    Limit = 13
    Header = 2
    ImplSize = 1
    CtxSize = 1
    None = None
SYMMETRY MCSymmetry
CHECK_DEADLOCK FALSE
INVARIANTS
    LedgerExact
    ImplLivesWithItsBlocks
    NoDanglingImpl
    BlocksAreLargeEnough
