CONSTANTS
  Readers = {r1, r2}
  NoVersion = NoVersion
  MaxVersion = 2
SPECIFICATION FairSpec
INVARIANTS TypeOK RefsExact WholeCopiesSafe
PROPERTIES OldFreed ImplementsSnapshot
