CONSTANTS
  Uids = {u1, u2}
  NoUid = NoUid
  Retention = 2
  Stall = 0
  DistinctStamps = TRUE
  MaxReg = 4
  MaxNow = 8
SPECIFICATION Spec

PROPERTIES NoEarlyErase
