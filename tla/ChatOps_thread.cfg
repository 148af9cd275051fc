SPECIFICATION Spec
CONSTANTS
  w1 = w1
  w2 = w2
  v1 = v1
  v2 = v2
  small = small
  vague = vague
  leaky = leaky
  Runs <- MCRuns
  Reviews <- MCReviews
  Threads <- MCThreads
  Patches <- MCPatches
  PatchLines <- MCPatchLines
  PatchPaths <- MCPatchPaths
  Secretive = {leaky}
  FailsLint = {vague}
  SrsPaths = {"docs/srs"}
  AllowedPaths = {"docs/srs"}
  MaxLines = 2
  EarlierPatches <- MCEarlierPatches
  EarlierPrs <- MCEarlierPrs
  Comments <- MCComments
  AllowedUsers = {"maintainer"}
  LabelRequired = TRUE
  Requests <- MCRequests
  Ignored = FALSE
  MaxHead = 1
  MaxRuns = 2
  NoComment = NoComment
  NoPatch = NoPatch
  NoRequest = NoRequest
  Nothing = Nothing
SYMMETRY Sym
CHECK_DEADLOCK FALSE
 
 
INVARIANT FrozenCyclesAgree
INVARIANT RecordsAreTrue
PROPERTY TrailHolds
