SPECIFICATION FairSpec
CONSTANTS
  r1 = r1
  r2 = r2
  Requests <- TwoRequests
  Posts <- SomePosts
  Bodies <- SomeBodies
  ConsumerLists <- Lists
  PrefixOf <- Prefixes
  maxBodyBytes = 4
INVARIANTS
  TypeOK
  StatsAccountForEveryRecord
  NoGuessedOwner
  EveryClaimedRecordIsHandled
  NoTruncatedBody
PROPERTY
  EveryRequestIsAnswered
CHECK_DEADLOCK FALSE
