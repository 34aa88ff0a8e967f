SPECIFICATION Spec
CONSTANTS
    Threads = {a, b, c}
    PoolSize = 2
    MaxBlocks = 3
    MaxHeld = 2
    Recycle = FALSE
SYMMETRY Symmetry
INVARIANT PoolInv
PROPERTY HandedOnce
