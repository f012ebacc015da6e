CONSTANTS
  Hours = 4
  TicksPerHour = 6
  FreshHour = 0
  Sleep = 1
  MaxIteration = 3
  Uids = {u1, u2}
  NoUid = NoUid
  Retention = 2
  Stall = 2
  DistinctStamps = TRUE
  MaxReg = 4
  MaxNow = 8
SPECIFICATION MCSpec
INVARIANTS TypeOK GateTypeOK NoOrphan AtMostOnce
PROPERTIES OnlyExpiredErased EventuallyForgotten EveryDay JobRepeats
