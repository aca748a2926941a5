SPECIFICATION FairSpec
CONSTANTS
  MaxChunks = 1
  RateLimited = FALSE
PROPERTY FailureReported
CHECK_DEADLOCK FALSE
