CONSTANTS
  Uids = {u1}
  NoUid = NoUid
  Retention <- RetentionTicks
  Stall = 0
  DistinctStamps = TRUE
  MaxReg = 2
  MaxNow = 6
SPECIFICATION Spec
PROPERTIES KeptForADay
