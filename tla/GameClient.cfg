SPECIFICATION Spec

CONSTANTS
  p1 = p1
  p2 = p2
  Players = {p1}
  Cards <- Nine
  ValidSets <- SetsOfNine
  Deal <- NineDeal
  s1 = s1
  s2 = s2
  Slots = {s1, s2}
  MaxRounds = 1
  Picks <- NinePicks
  None = None

SYMMETRY Symmetry

INVARIANTS
  TypeOK
  BoardsAgree
  NeverOverclaims
  SelectionOnBoard
  SessionWhileStarted
  GateSound
  ResumesByCookie
