CONSTANTS
  P = 5
  Gen = 2
  N = 3
  T = 2
  IdentityKey <- MCIdentityKey
  PadHash <- MCPadHash
  Draws <- MCDraws
  Verdicts = {"valid", "invalid", "none"}
  FaultKinds = {"none"}
SPECIFICATION Spec
INVARIANT
  HonestDealingVerifies
CHECK_DEADLOCK FALSE
