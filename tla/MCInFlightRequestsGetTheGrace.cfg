SPECIFICATION Spec
CONSTANTS
  r1 = r1
  r2 = r2
  Requests <- OneRequest
  Configs <- OnlyHTTP
INVARIANT InFlightRequestsGetTheGrace
CHECK_DEADLOCK FALSE
