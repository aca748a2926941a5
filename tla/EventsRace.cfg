SPECIFICATION FairSpec
CONSTANTS
  Requests = {"a"}
  Attempts = 1
  QueueSize = 2
  BatchSize = 2
  Policies = {"drop_oldest"}
  NumObservers = 1
  MaxEvents = 2
INVARIANT NeverCrashes
CHECK_DEADLOCK FALSE
