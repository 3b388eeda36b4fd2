SPECIFICATION Spec
CONSTANTS
  ChunkSize = 2
  RowsPerChunk = 2
  Alignment = 2
  SectionSizes <- MCSectionSizes
  ReadAhead = 8
  PageSize = 6
  Plans <- MCPlans
INVARIANTS TypeOK PayloadInPlace LoadableIsComplete FinishedIsGood VerifiedLoadIsWhole
CHECK_DEADLOCK FALSE
