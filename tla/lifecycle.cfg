SPECIFICATION FairSpec
CONSTANTS
    a1 = a1
    Free = Free
    Run = Run
    N = 2
    Callers = {a1}
    MaxSignals = 2
    MaxReloads = 1
INVARIANTS
    TypeOK
    ReadyMeansStarted
    StopInReverse
    ReturnedMeansEnded
PROPERTIES
    NeverBack
    InterruptedStartFails
    StopRequestEndsRun
CHECK_DEADLOCK FALSE
