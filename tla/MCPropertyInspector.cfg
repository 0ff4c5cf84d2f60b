SPECIFICATION Spec
CONSTANTS
  g1 = g1
  g2 = g2
  g3 = g3
  left = left
  c1 = c1
  c2 = c2
  c3 = c3
  deleted = deleted
  None = None
  Guilds <- Servers
  ChannelsOf <- VoiceChannels
  FirstGuild = g1
  FirstChannel <- Firsts
  StartSettings <- AnyButton
  MaxAsked = 2
INVARIANTS
  TypeOK
  ChoiceIsKept
  ChannelsAreListed
PROPERTIES
  SavedBelongTogether
