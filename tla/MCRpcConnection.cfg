SPECIFICATION FairSpec
CONSTANTS
  Writers = {w1, w2}
CHECK_DEADLOCK FALSE
INVARIANTS
  TypeOK
  LossReportedOnce
  ConnectedIsAligned
  FramesAreIntact
PROPERTIES
  CloseReleasesReader
  ImplementsRpcLink
