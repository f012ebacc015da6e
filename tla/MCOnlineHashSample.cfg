CONSTANTS
  MaxConfigId = 10
  Tables <- SampleOnly
  Asks <- AllAsks
SPECIFICATION Spec
INVARIANTS Proportional
