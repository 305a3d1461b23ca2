SPECIFICATION Spec

CONSTANTS
  t1 = t1
  t2 = t2
  p1 = p1
  p2 = p2
  u1 = u1
  today = today
  Threads = {t1, t2}
  Players = {p1, p2}
  Names = {u1}
  Dates = {today}
  Cards <- Seven
  ValidSets <- SetsOfSeven
  Daily <- SevenDaily
  Exclusive = TRUE
  Faults = TRUE
  MaxSessions = 2
  MaxFound = 2
  MaxDirect = 1
  None = None
  Absent = Absent
  Anonymous = Anonymous

SYMMETRY Symmetry

INVARIANTS
  CardsAccountedFor
  FinishedIsExhausted
  OneActiveSession
  OneSessionTimePerDay

PROPERTIES
  NoPlayAfterCompletion
  NoSessionAfterCompletion
  PlaysAtomically
