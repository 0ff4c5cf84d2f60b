SPECIFICATION FairSpec
CONSTANTS
  b1 = b1
  Buttons = {b1}
  Placeable <- MCPlaceable
  Channels = {"c1", "c2"}
  FirstVoice <- MCFirstVoice
  MaxClients = 2
  MaxChanges = 2
CHECK_DEADLOCK FALSE
INVARIANTS
  TypeOK
  HeldDataIsLoaded
  CacheFollowsDiscord
  ButtonsShowTheData
  ButtonsAreSubscribed
PROPERTIES
  PressesAnswerIcons
  ButtonsAgreeWithDiscord
