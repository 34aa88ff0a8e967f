SPECIFICATION ClaimsSpec
CONSTANTS
    Consumers = {c1, c2, c3}
    MaxBulk = 2
    MaxItems = 4
    MaxTickets = 8
SYMMETRY Symmetry
INVARIANT NoItemHidden
PROPERTY ImplementsItemClaims
CHECK_DEADLOCK FALSE
