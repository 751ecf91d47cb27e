SPECIFICATION Spec
CONSTANTS
  N = 4
  T = 3
  F = 1
  Scenarios = {"Happy", "SilentLeader", "Equivocation", "FakeLeader", "NonVoter", "FullAttack", "Capitulation"}
  Rounds = 4
  ContinueAfterFork = TRUE
  MaxIterations = 10000
  STRIP_LEN = 2
  Oracles <- MCOracles
  Elect <- MCElect
INVARIANTS
  InLockStep
  DeliveriesBounded
  OutcomeTrue
  HonestLeaderHeard
  StripTrue
PROPERTY
  ImplementsSimplex
CHECK_DEADLOCK FALSE
