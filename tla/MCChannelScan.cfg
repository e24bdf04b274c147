SPECIFICATION FairSpec
CONSTANTS
  FirstId = 8
  LastId = 12
  WidthStep = 10
  InitialPosts <- MCShortHistory
  Malformed <- MCMalformedPage
  Deletable <- MCDeletable
  PageSize = 2
  MaxMessages = 3
  BackfillEnabled = TRUE
  Budget = 4
  MaxRuns = 2
  MaxFailures = 1
  MaxCrashes = 2
INVARIANTS FrontierSeamless BackfilledIsWhole
PROPERTIES KeptOnDisk PromiseKept ForwardCatchesUp BackfillSettles
CHECK_DEADLOCK FALSE
