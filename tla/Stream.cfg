SPECIFICATION FairSpec
CONSTANTS
  MaxChunks = 2
  RateLimited = TRUE
INVARIANTS TypeOK RelayedInOrder DoneMeansAll EventMatchesWire
PROPERTIES HandlerEnds
CHECK_DEADLOCK FALSE
