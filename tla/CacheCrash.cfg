SPECIFICATION Spec
CONSTANTS
  Gateways <- One
  Sources <- CrashSources
  Archive <- Releases
  Means <- Spellings
  Local <- OwnFiles
  MaxStarts = 2
INVARIANT RunsVerified
CHECK_DEADLOCK FALSE
