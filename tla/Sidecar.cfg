CONSTANTS
  Pk = {a, b}
  Setups <- MCSetups
SPECIFICATION FairSpec
INVARIANTS
  SlotsAccounted
  KeysFitTogether
  QuietShowsLatest
PROPERTIES
  LatestFrameWins
  KeepsServing
