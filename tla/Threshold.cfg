CONSTANTS
  Never = Never
  P = 7
  Gen = 2
  N = 4
  T = 3
  NumCheck = 2
  VerifyEvery = 2
  MaxRounds = 2
  Draws = {0, 1, 3}
  Faulty = {1, 2}
SPECIFICATION MCSpec
INVARIANTS
  SharesMatchCommitment
  QuorumSigns
  CacheAgrees
  FewerSharesHideSecret
  BeaconsSound
  FaultsShow
CHECK_DEADLOCK FALSE
