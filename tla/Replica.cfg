CONSTANTS
  Idle = Idle
  N = 4
  T = 3
  MaxView = 1
  MaxFinalize = 7
SPECIFICATION MCSpec
INVARIANTS
  NotarizedByQuorum
  SignsOnce
  ViewsAccounted
  SameViewSameTip
CHECK_DEADLOCK FALSE
