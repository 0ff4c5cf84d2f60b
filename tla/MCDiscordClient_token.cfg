SPECIFICATION Spec
CONSTANTS
  Tokens = {t1}
  NoToken = NoToken
  Callers = {g1}
  Fetch = Fetch
  Faults <- NoFaults
  StartingCredentials <- AnyStart
CHECK_DEADLOCK FALSE
INVARIANTS
  TokenReachesDiscord
