SPECIFICATION Spec
CONSTANTS
  Gateways <- Two
  Sources <- SmallSources
  Archive <- Releases
  Means <- Spellings
  Local <- OwnFiles
  MaxStarts = 3
INVARIANTS TypeOK FiledByChecksum RunsPinned ChmodCommits
PROPERTIES FetchedOnce
CHECK_DEADLOCK FALSE
