------------------------- MODULE PropertyInspector -------------------------
(***************************************************************************)
(* The property inspector of a Join Voice Channel button                   *)
(* (sdPlugin/propertyinspector/index.html) and the coroutines of           *)
(* JoinVoiceChannelAction that answer it: the lists of servers ("guilds")  *)
(* and channels, the button's settings, and answers that come when the     *)
(* user has gone on.                                                       *)
(*                                                                         *)
(* An inspector is one page, made when the user selects the button and     *)
(* gone when another is selected; answers are addressed to the button, so  *)
(* a new page receives what an earlier one asked for.  A select element    *)
(* shows its last option that was marked selected, or else its first.      *)
(***************************************************************************)
EXTENDS Naturals

CONSTANTS
  Guilds,        \* servers the user is in
  ChannelsOf,    \* the voice channels of each
  FirstGuild,    \* the first of their names
  FirstChannel,  \* of each server, the first of its voice channels' names
  StartSettings, \* what the button's settings may be when the model starts
  None,          \* undefined, or nothing selected
  MaxAsked       \* bound on the equal requests that wait when the user goes on

Unset == [guild |-> None, channel |-> None]
GuildIds == Guilds \cup ({s.guild : s \in StartSettings} \ {None})
ChannelIds == (UNION {ChannelsOf[g] : g \in Guilds}) \cup ({s.channel : s \in StartSettings} \ {None})
Requests == Guilds \cup {"getDiscordGuilds"}

ASSUME NoneAssumption ==
  /\ None \notin Guilds
  /\ \A g \in Guilds : None \notin ChannelsOf[g]
ASSUME FirstAssumption ==
  /\ FirstGuild \in Guilds
  /\ \A g \in Guilds : ChannelsOf[g] # {} => FirstChannel[g] \in ChannelsOf[g]
ASSUME RequestAssumption == "getDiscordGuilds" \notin Guilds
ASSUME StartAssumption ==
  \A s \in StartSettings :
    /\ s = [guild |-> s.guild, channel |-> s.channel]
    /\ s = Unset \/ (s.guild # None /\ s.channel # None)
ASSUME BoundAssumption == MaxAsked \in Nat \ {0}

VARIABLES
  saved,     \* the button's settings, kept by Stream Deck
  asked,     \* how many coroutines of the action are answering each request
  opened,    \* a page is there
  global,    \* it has received the global settings, and is shown
  settings,  \* its actionSettings: those of the button when it was opened
  listed,    \* it has received the servers
  guild,     \* what guildInput shows
  channels,  \* the options of channelInput
  channel,   \* what channelInput shows
  \* History, not in the code:
  lost,      \* requests whose last answer did not come
  choice,    \* the channel the user chose last, if no server was chosen since
  calm       \* the user never went on while an answer was awaited

vars == <<saved, asked, opened, global, settings, listed, guild, channels, channel,
          lost, choice, calm>>
page == <<opened, global, settings, listed, guild, channels, channel>>

\* Every variable holds a value its counterpart can hold, and channelInput
\* shows one of its options if it has any.
TypeOK ==
  /\ saved \in [guild : GuildIds \cup {None}, channel : ChannelIds \cup {None}]
  /\ asked \in [Requests -> Nat]
  /\ opened \in BOOLEAN
  /\ global \in BOOLEAN
  /\ settings \in [guild : GuildIds \cup {None}, channel : ChannelIds \cup {None}]
  /\ listed \in BOOLEAN
  /\ guild \in GuildIds \cup {None}
  /\ channels \subseteq ChannelIds
  /\ IF channels = {} THEN channel = None ELSE channel \in channels
  /\ lost \subseteq Requests
  /\ choice \in ChannelIds \cup {None}
  /\ calm \in BOOLEAN

Valid(s) == s.guild \in Guilds /\ s.channel \in ChannelsOf[s.guild]

Init ==
  /\ saved \in StartSettings
  /\ asked = [r \in Requests |-> 0]
  /\ opened = FALSE
  /\ global = FALSE
  /\ settings = Unset
  /\ listed = FALSE
  /\ guild = None
  /\ channels = {}
  /\ channel = None
  /\ lost = {}
  /\ choice = IF Valid(saved) THEN saved.channel ELSE None
  /\ calm = TRUE

-----------------------------------------------------------------------------
(* Helpers. *)

Quiet == \A r \in Requests : asked[r] = 0
Shown == opened /\ global

\* saveSettings(), after the global settings.  Before they are there it throws.
SaveSettings ==
  saved' = IF global /\ guild' # None /\ channel' # None
           THEN [guild |-> guild', channel |-> channel']
           ELSE saved

\* Mutant of GuildChanged: the channels are not removed.
GuildChangedKeeps(g, waiting) ==
  /\ UNCHANGED <<channels, channel>>
  /\ asked' = [r \in Requests |-> IF r = g THEN waiting[r] + 1 ELSE waiting[r]]
  /\ lost' = lost \ {g}

\* Mutant of GuildChanged: the channels are not asked for.
GuildChangedSilently(g, waiting) ==
  /\ channels' = {}
  /\ channel' = None
  /\ asked' = waiting
  /\ lost' = lost \ {g}

\* guildChanged(): the channels go, and those of g are asked for.  A server
\* the user has left is asked for in vain.
GuildChanged(g, waiting) ==
  /\ channels' = {}
  /\ channel' = None
  /\ asked' = [r \in Requests |-> IF r = g THEN waiting[r] + 1 ELSE waiting[r]]
  /\ lost' = lost \ {g}

\* Mutants of Selected: the saved channel is selected without having an
\* option; the saved channel is not looked for.
SelectedUnlisted(g) == IF settings.channel # None THEN settings.channel ELSE FirstChannel[g]
SelectedFirst(g) ==
  IF channel # None \/ ChannelsOf[g] = {} THEN channel ELSE FirstChannel[g]

\* What channelInput shows when the channels of g have been appended.
Selected(g) ==
  IF settings.channel \in ChannelsOf[g] THEN settings.channel
  ELSE IF channel # None \/ ChannelsOf[g] = {} THEN channel
  ELSE FirstChannel[g]

-----------------------------------------------------------------------------
(* The page. *)

Connected ==
  /\ ~opened
  /\ \A r \in Requests : asked[r] < MaxAsked
  /\ opened' = TRUE
  /\ settings' = saved
  /\ guild' = saved.guild
  /\ channel' = saved.channel
  /\ channels' = {saved.channel} \ {None}
  /\ asked' = [asked EXCEPT !["getDiscordGuilds"] = @ + 1]
  /\ lost' = lost \ {"getDiscordGuilds"}
  /\ calm' = (calm /\ Quiet)
  /\ UNCHANGED <<saved, global, listed, choice>>

Close ==
  /\ opened
  /\ opened' = FALSE
  /\ global' = FALSE
  /\ settings' = Unset
  /\ listed' = FALSE
  /\ guild' = None
  /\ channels' = {}
  /\ channel' = None
  /\ UNCHANGED <<saved, asked, lost, choice, calm>>

DidReceiveGlobalSettings ==
  /\ opened
  /\ global' = TRUE
  /\ UNCHANGED <<saved, asked, opened, settings, listed, guild, channels, channel,
                 lost, choice, calm>>

\* The saved server is shown if the user is still in it; otherwise what was
\* shown before stays, or the first is shown.
DiscordGuilds ==
  /\ opened
  /\ asked["getDiscordGuilds"] > 0
  /\ listed' = TRUE
  /\ guild' = IF settings.guild \in Guilds THEN settings.guild
              ELSE IF guild # None THEN guild
              ELSE FirstGuild
  /\ GuildChanged(guild', [asked EXCEPT !["getDiscordGuilds"] = @ - 1])
  /\ UNCHANGED <<saved, opened, global, settings, choice, calm>>

\* The channels are appended, whatever server is shown by then.
DiscordChannels(g) ==
  /\ opened
  /\ asked[g] > 0
  /\ asked' = [asked EXCEPT ![g] = @ - 1]
  /\ channels' = channels \cup ChannelsOf[g]
  /\ channel' = Selected(g)
  /\ lost' = lost \ {g}
  /\ UNCHANGED <<opened, global, settings, listed, guild, choice, calm>>
  /\ SaveSettings

\* The saved server has an option of its own: it can be chosen again although
\* it is shown, or although the user has left it.
ChooseGuild(g) ==
  /\ Shown
  /\ listed
  /\ g \in (Guilds \ {guild}) \cup {settings.guild}
  /\ \A r \in Requests : r = g => asked[r] < MaxAsked
  /\ guild' = g
  /\ GuildChanged(g, asked)
  /\ choice' = None
  /\ calm' = (calm /\ Quiet)
  /\ UNCHANGED <<saved, opened, global, settings, listed>>

ChooseChannel(c) ==
  /\ Shown
  /\ c \in channels \ {channel}
  /\ channel' = c
  /\ choice' = c
  /\ calm' = (calm /\ Quiet)
  /\ UNCHANGED <<asked, opened, global, settings, listed, guild, channels, lost>>
  /\ SaveSettings

\* The app id or secret is changed.
ChangeApp ==
  /\ Shown
  /\ UNCHANGED <<asked, page, lost, choice, calm>>
  /\ SaveSettings

-----------------------------------------------------------------------------
(* JoinVoiceChannelAction::SendToPlugin's coroutines. *)

\* There is no client, it loses the connection, Discord refuses, or no page is
\* there to receive the answer.
NoAnswer(r) ==
  /\ asked[r] > 0
  /\ asked' = [asked EXCEPT ![r] = @ - 1]
  /\ lost' = lost \cup {r}
  /\ UNCHANGED <<saved, page, choice, calm>>

-----------------------------------------------------------------------------
Next ==
  \/ Connected \/ Close \/ DidReceiveGlobalSettings \/ ChangeApp
  \/ DiscordGuilds \/ \E g \in Guilds : DiscordChannels(g)
  \/ \E g \in GuildIds : ChooseGuild(g)
  \/ \E c \in ChannelIds : ChooseChannel(c)
  \/ \E r \in Requests : NoAnswer(r)

Spec == Init /\ [][Next]_vars

-----------------------------------------------------------------------------
(* Properties. *)

\* The user's choice of a channel lasts: neither opening the inspector again
\* nor the lists that arrive then, nor answers that do not, change the
\* button, until the user chooses a server.
ChoiceIsKept == calm /\ choice # None => saved.channel = choice

\* Each server and channel that are saved belong together, although the two
\* are shown, changed and answered for at different times.
SavedBelongTogether == [][calm' /\ saved' # saved => Valid(saved')]_vars

\* Once nothing is awaited for the server that is shown, all of its channels
\* can be chosen, whatever was asked for before and in what order it came.
ChannelsAreListed ==
  listed /\ guild \in Guilds \ lost /\ asked[guild] = 0 =>
    ChannelsOf[guild] \subseteq channels
=============================================================================
