SPECIFICATION FairSpec
CONSTANTS
  r1 = r1
  r2 = r2
  Requests <- TwoRequests
  Configs <- AnyConfig
INVARIANTS
  TypeOK
  GracefulStopDrains
  CleanExitIsGraceful
  LateWritesHaveACause
  ClosingLineIsFinal
  CleanReturnOnlyOnSignal
  ListenersReleased
PROPERTIES
  RefusedOnlyOutsideRun
  KeepsPromise
  ServingCollectorStops
  DecodedIsAnswered
CHECK_DEADLOCK FALSE
