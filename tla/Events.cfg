SPECIFICATION FairSpec
CONSTANTS
  Requests = {"a", "b"}
  Attempts = 2
  QueueSize = 2
  BatchSize = 2
  Policies = {"drop_oldest"}
  NumObservers = 1
  MaxEvents = 4
INVARIANTS TypeOK ReceivedAsHistory ShownAsEmitted
PROPERTIES LastIsSeen
CHECK_DEADLOCK FALSE
