SPECIFICATION FairSpec
CONSTANTS
  Clients = {c1, c2}
  Pool = {p1}
  NoClient = NoClient
  Loop = Loop
  NoConfig = none
  Configs = {none, A}
  Complete = {A}
  Events <- ReconnectEvents
  MaxWaiting = 2
CHECK_DEADLOCK FALSE
INVARIANTS
  FailureIsFollowedUp

  
