SPECIFICATION Spec
CONSTANTS
  Scores = {1, 2, 9, 0}
  NaN = 9
  NegInf = 0
  Matrices <- MCMatrices
  Ks = {0, 1, 2, 5}
  CheckEvery = 2
  LargeRows = 3
  MaxInterrupts = 1
INVARIANTS TypeOK BestSoFar AnswerIsTopK
PROPERTY ScanIsUndisturbed
