SPECIFICATION FairSpec
CONSTANTS
    r1 = r1
    r2 = r2
    c1 = c1
    c2 = c2
    Runs = {r1}
    Clones = {c1}
    CloneOf <- OneClone
    Options <- EveryOption
    NoRun = NoRun
    NoToken = NoToken
    Extract = Extract
    Shared = Shared
PROPERTY LockReleased
\* every run makes one attempt and stops
CHECK_DEADLOCK FALSE
