SPECIFICATION Spec
CONSTANTS
  Clients = {c1, c2}
  Pool = {p1, p2}
  NoClient = NoClient
  Loop = Loop
  NoConfig = none
  Configs = {none, A}
  Complete = {A}
  Events <- AllEvents
  MaxWaiting = 1
CHECK_DEADLOCK FALSE
INVARIANTS
  WorkerStartedOnce
