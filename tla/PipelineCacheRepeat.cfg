SPECIFICATION Spec
CONSTANTS
  Configs <- FullConfig
  Routings <- SmallRoutings
INVARIANT StoredIsFound
CHECK_DEADLOCK FALSE
