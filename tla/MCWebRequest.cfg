SPECIFICATION FairSpec
CONSTANTS
  Progress <- OnTheWay
CHECK_DEADLOCK FALSE
INVARIANTS
  TypeOK
  WaitsEndWithReports
PROPERTIES
  RequestEnds
