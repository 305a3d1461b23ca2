SPECIFICATION FairSpec

CONSTANTS
  t1 = t1
  t2 = t2
  p1 = p1
  p2 = p2
  u1 = u1
  today = today
  Threads = {t1, t2}
  Players = {p1}
  Names = {u1}
  Dates = {today}
  Cards <- Seven
  ValidSets <- SetsOfSeven
  Daily <- CrossDaily
  Exclusive = FALSE
  Faults = FALSE
  MaxSessions = 2
  MaxFound = 2
  MaxDirect = 1
  None = None
  Absent = Absent
  Anonymous = Anonymous

PROPERTIES
  FinishedGetsTime
