SPECIFICATION FairSpec
CONSTANTS
    a1 = a1
    Free = Free
    Run = Run
    N = 2
    Callers = {}
    MaxSignals = 2
    MaxReloads = 1
PROPERTY SignalEndsRun
CHECK_DEADLOCK FALSE
