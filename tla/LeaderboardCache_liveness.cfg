SPECIFICATION FairSpec

CONSTANTS
  t1 = t1
  t2 = t2
  t3 = t3
  today = today
  yesterday = yesterday
  Threads = {t1, t2}
  Dates = {today}
  Limits = {1}
  Ttl = 2
  MaxRows = 2
  Overlap = TRUE
  Faults = TRUE
  None = None

PROPERTIES
  StalenessEnds
