SPECIFICATION FairSpec

CONSTANTS
  w1 = w1
  w2 = w2
  w3 = w3
  Sockets = {w1, w2, w3}
  MaxTimers = 2
  Base = 250
  Longest = 10000
  None = None

INVARIANTS
  TypeOK
  OneLine
  OpenIsHeld
  NeverGivenUp

PROPERTIES
  CloseSettles
