CONSTANTS
  Poppers = {t1, t2}
  Items = {i1, i2}
  MaxSize = 3
  Lockers = {t1, t2}
  MaxGuards = 2
  Writers = {w1}
  Nil = Nil
  MaxQueued = 3
  MaxSwitches = 2
  MaxNum = 3
  MaxLength = 2
  Reopen = 1
  Day = 3
  Zone = 1
  MaxLines = 5
  MaxTime = 8
  Nodes = {n1, n2}
  c1 = c1
  c2 = c2
  Clients <- MCClients
  BadAfter = 2
  a1 = a1
  a2 = a2
  a3 = a3
  Addrs <- MCAddrs
  Size = 3
  Width = 8
  MaxRows = 2
  Foreign = "Ping"
  MaxCalls = 3
  MaxPartition = 1
  MaxRecords = 3
  MaxStarts = 2
  MaxRevokes = 1
SPECIFICATION MCSpec
INVARIANTS TypesOK WaitsAndLocksExact LogIsWhole ReportsAreTrue
PROPERTIES ClientsRecover LogFlushed
CHECK_DEADLOCK FALSE
