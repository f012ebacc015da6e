CONSTANTS
  NWorkers = 2
  Jobs = {j1, j2}
  MaxStarts = 2
  None = None
SPECIFICATION FairSpec
INVARIANTS TypeOK JobsKept
PROPERTIES OnlyPoppedOverlooked StopQuiet JobsTaken CallsReturn WaitReturns
CHECK_DEADLOCK FALSE
