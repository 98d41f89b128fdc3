SPECIFICATION FairSpec
CONSTANTS
  r1 = r1
  r2 = r2
  Requests <- OneRequest
  Configs <- OnlyHTTP
PROPERTY RunsUntilInterrupted
CHECK_DEADLOCK FALSE
