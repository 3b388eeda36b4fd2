SPECIFICATION Spec
CONSTANTS
  c1 = c1
  c2 = c2
  Callers = {c1, c2}
  Items = 1
  Rounds = 1
  InterruptsPerRound = 2
  ArgCallbacks = FALSE
INVARIANTS
  NoUseAfterRelease
CHECK_DEADLOCK FALSE
