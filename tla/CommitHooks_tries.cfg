SPECIFICATION Spec
CONSTANTS
  Bases <- MCBases
  BaseLen <- MCBaseLen
  Tags <- MCTags
  TagsLen <- MCTagsLen
  CoreTags = {}
  Ids <- MCIds
  Files <- MCFiles
  IdsIn <- MCIdsIn
  Trace <- MCTrace
  Lost = "gone"
  Unversioned = {}
  Issues <- MCIssues
  Drafts <- MCDrafts
  Environments <- MCEnvironments
  MaxVersion = 2
  MaxTries = 3
  NoMetadata = NoMetadata
  NoMemory = NoMemory
CHECK_DEADLOCK FALSE
 
INVARIANT RecordIsOfCommit
INVARIANT RetriesDiffer
