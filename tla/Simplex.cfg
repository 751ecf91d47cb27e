SPECIFICATION Spec
CONSTANTS
  N = 4
  T = 3
  F = 1
  MaxView = 2
  MaxDummyVotes = 2
  Scenario = "Capitulation"
  FirstLeader = 4
  Behavior <- MCBehavior
  Elect <- MCElect
INVARIANTS NotarizationUnique FinalizeExcludesNullify ChainAccounted Consistency IInv
PROPERTY FinalizedKept
CHECK_DEADLOCK FALSE
