CONSTANTS
  P = 5
  Gen = 2
  N = 3
  T = 2
  IdentityKey <- MCIdentityKey
  PadHash <- MCPadHash
  Draws <- MCDraws
  Verdicts = {"valid"}
  FaultKinds = {"none", "Key", "Share", "PadCommitment", "Pad", "Vss", "Session", "Missing", "Secret"}
SPECIFICATION FairSpec
INVARIANTS
  TypeOK
  CompletionUnanimous
  Agreement
  SharesOpenKeyShares
  QuorumReconstructs
PROPERTY
  EveryNodeReturns
CHECK_DEADLOCK FALSE
