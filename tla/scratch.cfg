SPECIFICATION Spec
CONSTANTS
  t1 = t1
  t2 = t2
  Threads = {t1, t2}
  Word = 64
  TextKeep = 1
  IdsReserve = 1
  IdsRetain = 2
  Workloads <- MCWorkloads
INVARIANTS TypeOK OneOwner CurrentIsInUse RetentionBounded HighWaterKept PeakCovers
