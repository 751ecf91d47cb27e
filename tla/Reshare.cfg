CONSTANTS
  P = 5
  Gen = 2
  IdentityKey <- MCIdentityKey
  PadHash <- MCPadHash
  Setups <- MCSetups
SPECIFICATION FairSpec
INVARIANTS
  KeySurvives
  SharesOpenKeyShares
  CompletionSound
PROPERTY
  MainEnds
CHECK_DEADLOCK FALSE
