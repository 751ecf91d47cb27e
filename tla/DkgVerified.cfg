CONSTANTS
  P = 5
  Gen = 2
  N = 3
  T = 2
  IdentityKey <- MCIdentityKey
  PadHash <- MCPadHash
  Draws <- MCDraws
  Verdicts = {"valid"}
  FaultKinds = {"Pad"}
SPECIFICATION Spec
INVARIANT
  CompletedFromVerified
CHECK_DEADLOCK FALSE
