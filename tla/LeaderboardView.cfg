SPECIFICATION FairSpec

CONSTANTS
  u1 = u1
  u2 = u2
  f1 = f1
  f2 = f2
  w1 = w1
  w2 = w2
  Users = {u1, u2}
  Fetches = {f1, f2}
  MaxAsks = 2
  Sockets = {w1, w2}
  MaxRows = 1
  RetryFirst = 2
  RetryLast = 3
  None = None

INVARIANTS
  TypeOK
  OneLine
  ShowsCurrent
  LoadingHasCause
  PanelMatches

PROPERTIES
  NotifiedIsShown
