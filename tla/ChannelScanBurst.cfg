\* A burst between the empty first scan and the next one.
SPECIFICATION Spec
CONSTANTS
  FirstId = 8
  LastId = 12
  WidthStep = 10
  InitialPosts <- MCEmptyOrNot
  Malformed <- NoMessages
  Deletable <- NoMessages
  PageSize = 2
  MaxMessages = 3
  BackfillEnabled = TRUE
  Budget = 4
  MaxRuns = 3
  MaxFailures = 0
  MaxCrashes = 0
INVARIANTS FrontierIsScanned
CHECK_DEADLOCK FALSE
