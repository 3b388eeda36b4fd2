SPECIFICATION LiveSpec
CONSTANTS
  c1 = c1
  c2 = c2
  Callers = {c1, c2}
  Items = 1
  Rounds = 2
  InterruptsPerRound = 1
  ArgCallbacks = FALSE
INVARIANTS
  TypeOK
  NoUseAfterRelease
PROPERTIES
  ImplementsHandle
  InterruptedCallReturns
CHECK_DEADLOCK FALSE
