SPECIFICATION FairSpec
CONSTANTS
  HalfWord = 16
  Millisecond = 3
  ZeroTime <- TimeZero
  Now = 50
  identityAttrs = {"user.email", "user.id"}
  forwardIdentity = FALSE
  Calls = {c1, c2}
  Records <- SomeRecords
INVARIANTS
  TypeOK
  NothingInventedNothingDropped
  TimesAreTheSenders
  SignalsAgree
  SeriesAreBounded
  NoIdentityIsExported
  LostOnlyToTheFlush
PROPERTIES
  FlushReachesEveryProvider
  KeepsBooks
CHECK_DEADLOCK FALSE
