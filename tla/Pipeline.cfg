SPECIFICATION FairSpec
CONSTANTS
  Configs <- AllConfigs
  Routings <- SmallRoutings
INVARIANTS TypeOK AdmittedFirst FallbackDiscipline IndexIsServer SettledOnce LeastData
PROPERTIES EveryRequestAnswered
CHECK_DEADLOCK FALSE
