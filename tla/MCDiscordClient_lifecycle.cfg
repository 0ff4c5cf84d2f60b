SPECIFICATION FairSpec
CONSTANTS
  Tokens = {t1}
  NoToken = NoToken
  Callers = {g1}
  Fetch = Fetch
  Faults <- LifecycleFaults
  StartingCredentials <- AnyStart
CHECK_DEADLOCK FALSE
PROPERTIES
  SavedTokenLoginEnds
  InitialDataArrivesOrLost
  CallsComplete
  DestructorReturns
