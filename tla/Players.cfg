SPECIFICATION Spec
CONSTANTS
  Players = {p1}
  Restarts = {r1, r2}
  PollInterval = 5
  StaleAge = 12
  AnswerTime = 1
SYMMETRY Symmetry
INVARIANTS
  OnlineStayListed
  GhostsAgeOut
