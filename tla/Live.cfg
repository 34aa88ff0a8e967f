SPECIFICATION FairSpec
CONSTANTS
    Tasks = {t1}
    NoTask = NoTask
    Handles = {h1}
    NoHandle = NoHandle
    NoThread = NoThread
    DemoConfigs = {FALSE}
    HostMoves = {"remove"}
PROPERTIES
    ConnectionConverges
    StopTerminates
    OwnershipReturned
    TeardownCompletes
