CONSTANTS
  MaxConfigId = 10
  Tables <- AllTables
  Asks <- AllAsks
  a = a
  b = b
  p = p
  q = q
  x = x
  y = y
  Bad = Bad
  Types = {a, b}
  Lists <- SomeLists
  Texts <- SomeTexts
  ConfTypes <- SomeConfTypes
  Plugins = {"online_plugin", "white_list"}
  MaxEdits = 2
  k1 = k1
  k2 = k2
  t1 = t1
  t2 = t2
  Keys = {k1, k2}
  UserTypes = {t1, t2}
  Results <- UpToThree
SPECIFICATION MCSpec
INVARIANTS TypesOK LookupComputesConf LookupNeverDefaultForOwn LoadSteadyServed LatestWins
PROPERTIES LookupReturns LoadFromThisLoad LoadConverges
