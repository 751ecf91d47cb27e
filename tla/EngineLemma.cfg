SPECIFICATION Spec
CONSTANTS
  N = 4
  T = 3
  F = 1
  Scenarios = {"Equivocation"}
  Rounds = 2
  ContinueAfterFork = TRUE
  MaxIterations = 10000
  STRIP_LEN = 2
  Oracles <- MCOracles
  Elect <- MCElect
INVARIANT HonestLeaderFinalizes
CHECK_DEADLOCK FALSE
