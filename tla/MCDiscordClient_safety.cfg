SPECIFICATION Spec
CONSTANTS
  Tokens = {t1, t2}
  NoToken = NoToken
  Callers = {g1, g2}
  Fetch = Fetch
  Faults <- AllFaults
  StartingCredentials <- AnyStart
CHECK_DEADLOCK FALSE
INVARIANTS
  TypeOK
  ReadyMeansLoaded
  OneAuthExchange
  RequestsMatchCredentials
  RepliesFindCallers
PROPERTIES
  ImplementsRpcStateMachine
