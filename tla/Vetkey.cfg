CONSTANTS
  Idle = Idle
  P = 11
  Gen = 2
  Gen2 = 3
  N = 3
  T = 2
  Identities = {0, 1}
  Draws = {1, 4}
  Faulty = {2}
SPECIFICATION MCSpec
INVARIANTS
  SharesChecked
  NothingElseOpens
PROPERTY
  FilesSound
CHECK_DEADLOCK FALSE
