SPECIFICATION Spec
CONSTANTS
    r1 = r1
    r2 = r2
    r3 = r3
    Runs = {r1, r2}
    NoRun = NoRun
    Options <- MixedOptions
    Keys = {r1, r2}
    RunKey <- OwnKey
    Ttl = 1
    MaxClock = 1
SYMMETRY Symmetry
INVARIANT TypeOK
INVARIANT SoleAdmission
INVARIANT OverlapHasCause
INVARIANT StagesOwnWork
INVARIANT BuildsFromOwnIndex
INVARIANT NoStaleLock
\* every run makes one attempt and stops
CHECK_DEADLOCK FALSE
