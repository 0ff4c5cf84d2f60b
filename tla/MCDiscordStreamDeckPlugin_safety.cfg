SPECIFICATION Spec
CONSTANTS
  Clients = {c1, c2}
  Pool = {p1, p2}
  NoClient = NoClient
  Loop = Loop
  NoConfig = none
  Configs = {none, A}
  Complete = {A}
  Events <- PointerEvents
  MaxWaiting = 1
SYMMETRY PluginSymmetry
CHECK_DEADLOCK FALSE
INVARIANTS
  TypeOK
  NothingPointsToDying
  UnownedIsDying
