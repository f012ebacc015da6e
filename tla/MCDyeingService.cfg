CONSTANTS
  u1 = u1
  Workers = {w1}
  Uids <- One
  Types <- AllTypes
  Calls <- AllCalls
  NoCall = NoCall
  WhiteLists <- WhiteNews
  Policies <- SomePolicies
  Snapshots <- UidSets
  PushTables <- UidSets
  MaxBatch = 2
  MaxVersion = 2
SPECIFICATION FairSpec
INVARIANTS TypeOK ReplyShape WhiteListWins ProductJustified VersionsMonotone
PROPERTIES Answered
