SPECIFICATION Spec
CONSTANTS
  c1 = c1
  c2 = c2
  c3 = c3
  Calls <- ThreeCalls
  Records <- SomeRecords
  metricsOnlyGrace = 2
INVARIANTS
  TypeOK
  MetricsOnlyIsReported
  NoEarlyWarning
  PointsInOrder
  UsageOncePerCall
PROPERTY LogsSilenceTheWarning
CHECK_DEADLOCK FALSE
