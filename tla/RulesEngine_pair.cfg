SPECIFICATION Spec
CONSTANTS
  w1 = w1
  w2 = w2
  Procs <- MCProcs
  Calls <- MCCalls
  Prs <- MCPrs
  Paths <- MCPaths
  Tests <- MCTests
  Commands <- MCCommands
  Globs <- MCGlobs
  CommandOf <- MCCommandOf
  Generic <- MCGeneric
  Covers <- MCCovers
  FileConfig <- MCFileConfig
  EarlierFiles <- MCEarlierFiles
  EarlierEvents <- MCEarlierEvents
  MaxDay = 1
  NoCall = NoCall
  NoRow = NoRow
  NoManifest = NoManifest
  Torn = Torn
SYMMETRY Sym
CHECK_DEADLOCK FALSE
INVARIANT CountsAreRight
INVARIANT HistoryKept
PROPERTY GateHolds
PROPERTY RulesFollowData
