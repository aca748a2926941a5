SPECIFICATION FairSpec
CONSTANTS
  QueueSize = 3
  BatchSize = 2
  Policies = {"drop_oldest", "fail"}
  NumObservers = 2
  MaxEvents = 7
INVARIANTS Accounted CloseDrains
PROPERTIES EventuallySettled CloseStopsFlusher ImplementsLossyFifo
CHECK_DEADLOCK FALSE
