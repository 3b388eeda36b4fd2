SPECIFICATION Spec
CONSTANTS
  c1 = c1
  c2 = c2
  Callers = {c1, c2}
  Items = 2
  Rounds = 2
  InterruptsPerRound = 2
  ArgCallbacks = TRUE
SYMMETRY Symmetry
INVARIANTS
  ActiveOpsExact
  NoPartialAnswer
  CancelNeedsInterrupt
CHECK_DEADLOCK FALSE
