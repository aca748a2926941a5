SPECIFICATION FairSpec
CONSTANTS
  Second = 4
  Caps <- AllCaps
  Configs <- SmallConfigs
  Env <- Environment
INVARIANTS TypeOK ReadyIsComplete StartedInOrder SecretsScoped
  NoStrayProcess RequestsFirst
PROPERTIES SignalEnds
CHECK_DEADLOCK FALSE
