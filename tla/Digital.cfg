SPECIFICATION FairDigitalSpec
CONSTANTS
    Tasks = {}
    NoTask = NoTask
    Handles = {h1}
    NoHandle = NoHandle
    NoThread = NoThread
    DemoConfigs = {FALSE, TRUE}
    HostMoves = {}
    w1 = w1
    w2 = w2
    c1 = c1
    c2 = c2
    Writers = {w1, w2}
    Channels = {c1, c2}
    NoChannel = NoChannel
    Arguments <- SharedRegister
INVARIANT DigitalInv
PROPERTIES
    StateMirrorsCommand
    RestUndisturbed
    WriteReturns
    OutputsSettle
