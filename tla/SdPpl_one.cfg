SPECIFICATION Spec
CONSTANTS
    r1 = r1
    r2 = r2
    c1 = c1
    c2 = c2
    Runs = {r1, r2}
    Clones = {c1}
    CloneOf <- OneClone
    Options <- FewOptions
    NoRun = NoRun
    NoToken = NoToken
    Extract = Extract
    Shared = Shared
SYMMETRY Symmetry
INVARIANT TypeOK
INVARIANT LockExcludes
INVARIANT TokenIsOwn
 
INVARIANT CopiesOnlyGood
PROPERTY ImplementsSession
\* every run makes one attempt and stops
CHECK_DEADLOCK FALSE
