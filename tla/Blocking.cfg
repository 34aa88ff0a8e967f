SPECIFICATION Spec
CONSTANTS
    Waiters = {c1, c2}
    Signallers = {p1, p2}
    MaxBulk = 2
    MaxItems = 4
INVARIANT BlockingInv
PROPERTIES
    NoLostWakeup
    TimedWaitReturns
CHECK_DEADLOCK FALSE
