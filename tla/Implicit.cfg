SPECIFICATION Spec
CONSTANTS
    Consumers = {c1, c2}
    MaxBulk = 3
    MaxItems = 7
    BLOCK_SIZE = 2
    IMPLICIT_INITIAL_INDEX_SIZE = 2
    MaxGrowth = 1
    MaxBlocks = 4
SYMMETRY Symmetry
INVARIANTS
    FindsItsItems
    ImplicitInv
CHECK_DEADLOCK FALSE
