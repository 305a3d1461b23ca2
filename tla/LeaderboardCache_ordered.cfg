SPECIFICATION Spec

CONSTANTS
  t1 = t1
  t2 = t2
  t3 = t3
  today = today
  yesterday = yesterday
  Threads = {t1, t2}
  Dates = {today, yesterday}
  Limits = {1}
  Ttl = 2
  MaxRows = 2
  Overlap = FALSE
  Faults = FALSE
  None = None

INVARIANTS
  TypeOK
  CachedIsCurrent
  AnswerIsCurrent
