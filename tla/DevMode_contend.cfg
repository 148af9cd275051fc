SPECIFICATION Spec
CONSTANTS
    t1 = t1
    t2 = t2
    c1 = c1
    c2 = c2
    other = other
    Terminals = {t1, t2}
    Repositories = {c1, c2}
    Worktrees = {c1, c2}
    Strangers = {other}
    Doubled = Doubled
    NoPath = NoPath
    NoSummary = NoSummary
    Contents <- Found
    Archs <- A32and64
    Calls <- Contending
    MaxCalls = 2
SYMMETRY Symmetry
\* every call ends, and the number of calls is bounded
CHECK_DEADLOCK FALSE
INVARIANT ReportedIsSo
INVARIANT OutcomesCovered
INVARIANT ForeignSpared
INVARIANT SomeBindHolds
