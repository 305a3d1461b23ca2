SPECIFICATION Spec

CONSTANTS
  t1 = t1
  t2 = t2
  player = player
  leaderboard = leaderboard
  Threads = {t1}
  Endpoints = {player, leaderboard}
  Limit <- TwoLimits
  Window <- TwoWindows
  Horizon = 4
  None = None

INVARIANTS
  DeclaredLimit
