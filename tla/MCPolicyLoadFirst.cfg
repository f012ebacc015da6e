CONSTANTS
  a = a
  b = b
  p = p
  Bad = Bad
  Types = {a, b}
  Lists <- SomeLists
  Texts <- NoBucketTexts
  ConfTypes <- FileTypes
  Plugins = {"online_plugin"}
  MaxEdits = 0
SPECIFICATION Spec
INVARIANTS FirstExists
