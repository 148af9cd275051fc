\* Two pull requests, checked, merged and released in any order.
SPECIFICATION Spec
CONSTANTS
  Rows <- MCRows
  Files <- MCFiles
  Models = {"tm"}
  Metrics = {"load", "save"}
  Archs = {"x64", "x86"}
  DataLocations = {"trw"}
  Prs = {p1, p2}
  FirstTree <- MCFirstTree
  Changes <- MCChanges
  Baseline <- MCBaseline
  PerfInputs <- MCPerfInputs
  PortInputs <- MCPortInputs
  MaxAttempts = 2
  MaxCompletions = 1
SYMMETRY PrSymmetry
CHECK_DEADLOCK FALSE
 
INVARIANT VerdictIsTheGates
INVARIANT IncidentsMatchGaps
INVARIANT GreenIsEarned
