SPECIFICATION Spec
CONSTANTS
  N = 4
  T = 3
  F = 1
  MaxView = 2
  MaxDummyVotes = 3
  Scenario = "Happy"
  FirstLeader = 1
  Behavior <- MCBehavior
  Elect <- MCElect
INVARIANT FinalizedNotNullified
CHECK_DEADLOCK FALSE
