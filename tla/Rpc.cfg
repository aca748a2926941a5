SPECIFICATION FairSpec
CONSTANTS
  Callers = {k1, k2}
  MaxConns = 3
INVARIANTS NoConnLeak NoDoubleExecution
PROPERTIES OnlyDeadReplaced LostCallsEnd
CHECK_DEADLOCK FALSE
