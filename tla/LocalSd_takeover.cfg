SPECIFICATION Spec
CONSTANTS
    r1 = r1
    r2 = r2
    r3 = r3
    Runs = {r1, r2, r3}
    NoRun = NoRun
    Options <- UnforcedHarness
    Keys = {r1, r2, r3}
    RunKey <- OwnKey
    Ttl = 2
    MaxClock = 3
SYMMETRY Symmetry
INVARIANT FreshLockExcludes
\* every run makes one attempt and stops
CHECK_DEADLOCK FALSE
