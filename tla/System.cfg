SPECIFICATION Spec
CONSTANTS
    Tasks = {t1, t2}
    NoTask = NoTask
    Handles = {h1, h2}
    NoHandle = NoHandle
    NoThread = NoThread
    DemoConfigs = {FALSE, TRUE}
    HostMoves = {"remove"}
SYMMETRY Symmetry
INVARIANTS
    TypeOK
    LockDiscipline
    NoHandleLeak
    StreamExclusive
    ReadsOwnStream
    ConfigMatchesStream
    OwnerAccounted
    NoOrphanStream
    SafeTeardown
PROPERTY
    ImplementsLease
