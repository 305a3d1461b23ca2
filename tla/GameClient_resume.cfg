SPECIFICATION Spec

CONSTANTS
  p1 = p1
  p2 = p2
  s1 = s1
  s2 = s2
  Players = {p1, p2}
  Cards <- Nine
  ValidSets <- SetsOfNine
  Deal <- NineDeal
  Slots = {s1, s2}
  MaxRounds = 1
  Picks <- NinePicks
  None = None

INVARIANTS
  Resumes
