SPECIFICATION Spec
CONSTANTS
  StdLinks <- MCStdLinks
  FirstContent <- MCFirstContent
  EditedContent <- MCEditedContent
  PageSize = 2
  MaxPushes = 2
  MaxComments = 4
CHECK_DEADLOCK FALSE
INVARIANT DuplicateHasCause
 
