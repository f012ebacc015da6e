CONSTANTS
  Readers = {r1}
  NoVersion = NoVersion
  MaxVersion = 1
SPECIFICATION Spec
INVARIANTS NoUseAfterFree
