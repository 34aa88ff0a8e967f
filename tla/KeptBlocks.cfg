SPECIFICATION Spec
CONSTANTS
    Consumers = {c1, c2}
    MaxBulk = 3
    MaxItems = 8
    BLOCK_SIZE = 2
    EXPLICIT_INITIAL_INDEX_SIZE = 2
    MaxBlocks = 4
    KeepsBlocks = TRUE
CHECK_DEADLOCK FALSE
INVARIANT FindsItsItems
