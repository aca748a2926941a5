\* Two calls at plugin servers of every kind (MCDeployments).
SPECIFICATION Spec
CONSTANTS
  c1 = c1  c2 = c2
  Calls = {c1, c2}
  Deployments <- MCDeployments
  MaxChunks = 2
INVARIANTS TypeOK RoutedToSelf AnswerMatchesRun
CHECK_DEADLOCK FALSE
