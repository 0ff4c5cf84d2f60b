SPECIFICATION FairSpec
CONSTANTS
  Apps = {a1, a2}
  None = None
  MaxEdits = 2
  MaxTrouble = 4
CHECK_DEADLOCK FALSE
INVARIANTS
  TypeOK
  TokensBelongToApp
  EnteredIsKept
  PluginFollowsStore
PROPERTIES
  PastedSettingsAreUsed
