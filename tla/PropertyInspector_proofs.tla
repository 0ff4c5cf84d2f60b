---------------------- MODULE PropertyInspector_proofs ----------------------
(***************************************************************************)
(* Proofs for PropertyInspector: types, and what becomes of the user's     *)
(* choice, for any servers and channels.                                   *)
(***************************************************************************)
EXTENDS PropertyInspector, TLAPS

GG == "getDiscordGuilds"

\* Without a page there is no list.
ClosedInv == ~opened => ~listed

\* While the user waits for answers, only the server that is shown is being
\* asked for, and that only after the servers have come.
AskedInv ==
  /\ asked[GG] \in {0, 1}
  /\ \A g \in Guilds : asked[g] > 0 => listed /\ g = guild /\ asked[GG] = 0

\* The options belong to the server that is shown, or are the saved ones.
ShownInv ==
  IF listed THEN \A c \in channels : guild \in Guilds /\ c \in ChannelsOf[guild]
  ELSE /\ guild = saved.guild
       /\ channel = saved.channel
       /\ channels \subseteq {channel}

\* The user's choice is saved, shown or about to be found again.
ChoiceInv ==
  choice # None =>
    /\ saved.channel = choice
    /\ Valid(saved)
    /\ opened => /\ guild = saved.guild
                 /\ channel \in {None, choice}
                 /\ Quiet \/ settings = saved

IInv ==
  /\ ClosedInv
  /\ calm /\ opened => AskedInv /\ ShownInv
  /\ calm => ChoiceInv

-----------------------------------------------------------------------------
LEMMA TypeInit == Init => TypeOK
<1> SUFFICES ASSUME Init PROVE TypeOK
  OBVIOUS
<1>1. saved \in [guild : GuildIds \cup {None}, channel : ChannelIds \cup {None}]
  <2>1. \A s \in StartSettings : s.guild \in GuildIds \cup {None} /\ s.channel \in ChannelIds \cup {None}
    BY DEF GuildIds, ChannelIds
  <2>2. \A s \in StartSettings : s = [guild |-> s.guild, channel |-> s.channel]
    BY StartAssumption DEF Unset
  <2>3. QED
    BY <2>1, <2>2 DEF Init
<1>2. choice \in ChannelIds \cup {None}
  BY <1>1 DEF Init
<1>3. QED
  BY <1>1, <1>2 DEF Init, TypeOK, Unset

LEMMA PlaceTypes ==
  /\ Guilds \subseteq GuildIds
  /\ \A g \in Guilds : ChannelsOf[g] \subseteq ChannelIds
  BY DEF GuildIds, ChannelIds

\* What channelInput shows when channels are appended is one of its options.
LEMMA SelectedIsListed ==
  ASSUME NEW g \in Guilds, TypeOK
  PROVE  IF channels \cup ChannelsOf[g] = {} THEN Selected(g) = None
         ELSE Selected(g) \in channels \cup ChannelsOf[g]
  BY FirstAssumption, NoneAssumption DEF TypeOK, Selected

\* Saving takes what is shown.
LEMMA SavedType ==
  ASSUME TypeOK, SaveSettings,
         guild' \in GuildIds \cup {None}, channel' \in ChannelIds \cup {None}
  PROVE  saved' \in [guild : GuildIds \cup {None}, channel : ChannelIds \cup {None}]
  BY DEF TypeOK, SaveSettings

LEMMA TypeStep == TypeOK /\ [Next]_vars => TypeOK'
<1> SUFFICES ASSUME TypeOK, [Next]_vars PROVE TypeOK'
  OBVIOUS
<1>1. CASE Connected
  BY <1>1 DEF TypeOK, Connected, Requests
<1>2. CASE Close
  BY <1>2 DEF TypeOK, Close, Unset
<1>3. CASE DidReceiveGlobalSettings
  BY <1>3 DEF TypeOK, DidReceiveGlobalSettings
<1>4. CASE ChangeApp
  <2>1. saved' \in [guild : GuildIds \cup {None}, channel : ChannelIds \cup {None}]
    BY <1>4, SavedType DEF ChangeApp, page, TypeOK
  <2>2. QED
    BY <1>4, <2>1 DEF ChangeApp, page, TypeOK
<1>5. CASE DiscordGuilds
  <2>1. guild' \in GuildIds
    BY <1>5, FirstAssumption, PlaceTypes DEF DiscordGuilds, TypeOK
  <2>2. asked' \in [Requests -> Nat]
    <3>1. asked["getDiscordGuilds"] - 1 \in Nat
      BY <1>5 DEF DiscordGuilds, TypeOK, Requests
    <3>2. [asked EXCEPT !["getDiscordGuilds"] = @ - 1] \in [Requests -> Nat]
      BY <3>1 DEF TypeOK
    <3>3. QED
      BY <1>5, <3>2 DEF DiscordGuilds, GuildChanged
  <2>3. QED
    BY <1>5, <2>1, <2>2 DEF DiscordGuilds, GuildChanged, TypeOK
<1>6. ASSUME NEW g \in Guilds, DiscordChannels(g) PROVE TypeOK'
  <2>1. IF channels' = {} THEN channel' = None ELSE channel' \in channels'
    BY <1>6, SelectedIsListed DEF DiscordChannels
  <2>2. channels' \subseteq ChannelIds
    BY <1>6, PlaceTypes DEF DiscordChannels, TypeOK
  <2>3. saved' \in [guild : GuildIds \cup {None}, channel : ChannelIds \cup {None}]
    BY <1>6, <2>1, <2>2, SavedType DEF DiscordChannels, TypeOK
  <2>4. asked' \in [Requests -> Nat]
    BY <1>6 DEF DiscordChannels, TypeOK, Requests
  <2>5. QED
    BY <1>6, <2>1, <2>2, <2>3, <2>4 DEF DiscordChannels, TypeOK
<1>7. ASSUME NEW g \in GuildIds, ChooseGuild(g) PROVE TypeOK'
  BY <1>7, PlaceTypes DEF ChooseGuild, GuildChanged, TypeOK, Requests
<1>8. ASSUME NEW c \in ChannelIds, ChooseChannel(c) PROVE TypeOK'
  <2>1. saved' \in [guild : GuildIds \cup {None}, channel : ChannelIds \cup {None}]
    BY <1>8, SavedType DEF ChooseChannel, TypeOK
  <2>2. QED
    BY <1>8, <2>1 DEF ChooseChannel, TypeOK
<1>9. ASSUME NEW r \in Requests, NoAnswer(r) PROVE TypeOK'
  BY <1>9 DEF NoAnswer, page, TypeOK
<1>10. CASE UNCHANGED vars
  BY <1>10 DEF vars, TypeOK
<1>11. QED
  BY <1>1, <1>2, <1>3, <1>4, <1>5, <1>6, <1>7, <1>8, <1>9, <1>10 DEF Next

\* Whatever Stream Deck, Discord and the user do, and in whatever order answers
\* come, the page shows and saves servers and channels that exist for it.
THEOREM InspectorTypeCorrect == Spec => []TypeOK
<1>1. QED
  BY TypeInit, TypeStep, PTL DEF Spec

-----------------------------------------------------------------------------
(* The channels of the server that is shown. *)

LEMMA ClosedStep == ClosedInv /\ [Next]_vars => ClosedInv'
  BY DEF ClosedInv, Next, vars, page, Connected, Close, DidReceiveGlobalSettings, ChangeApp,
         DiscordGuilds, DiscordChannels, ChooseGuild, ChooseChannel, NoAnswer, Shown

LEMMA ListedStep ==
  TypeOK /\ ClosedInv /\ ChannelsAreListed /\ [Next]_vars => ChannelsAreListed'
<1> SUFFICES ASSUME TypeOK, ClosedInv, ChannelsAreListed, [Next]_vars
             PROVE  ChannelsAreListed'
  OBVIOUS
<1>1. CASE Connected
  BY <1>1 DEF Connected, ClosedInv, ChannelsAreListed
<1>2. CASE Close
  BY <1>2 DEF Close, ChannelsAreListed
<1>3. CASE DidReceiveGlobalSettings
  BY <1>3 DEF DidReceiveGlobalSettings, ChannelsAreListed
<1>4. CASE ChangeApp
  BY <1>4 DEF ChangeApp, page, ChannelsAreListed
<1>5. CASE DiscordGuilds
  <2>1. guild' \in Guilds => asked'[guild'] = asked[guild'] + 1
    BY <1>5, RequestAssumption DEF DiscordGuilds, GuildChanged, TypeOK, Requests
  <2>2. guild' \in Guilds => asked[guild'] \in Nat
    BY DEF TypeOK, Requests
  <2>3. QED
    BY <2>1, <2>2 DEF ChannelsAreListed
<1>6. ASSUME NEW g \in Guilds, DiscordChannels(g) PROVE ChannelsAreListed'
  <2>1. ChannelsOf[g] \subseteq channels' /\ channels \subseteq channels'
    BY <1>6 DEF DiscordChannels
  <2>2. \A h \in Guilds : h # g => asked'[h] = asked[h] /\ (h \in lost' <=> h \in lost)
    BY <1>6 DEF DiscordChannels, TypeOK, Requests
  <2>3. guild' = guild /\ listed' = listed
    BY <1>6 DEF DiscordChannels
  <2>4. QED
    BY <2>1, <2>2, <2>3 DEF ChannelsAreListed
<1>7. ASSUME NEW g \in GuildIds, ChooseGuild(g) PROVE ChannelsAreListed'
  BY <1>7 DEF ChooseGuild, GuildChanged, ChannelsAreListed, TypeOK, Requests
<1>8. ASSUME NEW c \in ChannelIds, ChooseChannel(c) PROVE ChannelsAreListed'
  BY <1>8 DEF ChooseChannel, ChannelsAreListed
<1>9. ASSUME NEW r \in Requests, NoAnswer(r) PROVE ChannelsAreListed'
  BY <1>9 DEF NoAnswer, page, ChannelsAreListed, TypeOK, Requests
<1>10. CASE UNCHANGED vars
  BY <1>10 DEF vars, ChannelsAreListed
<1>11. QED
  BY <1>1, <1>2, <1>3, <1>4, <1>5, <1>6, <1>7, <1>8, <1>9, <1>10 DEF Next

\* However requests for several servers cross, the server that is shown gets
\* all of its channels unless its last answer fails.  It does not depend on
\* the user's patience.
THEOREM ChannelsAlwaysListed == Spec => []ChannelsAreListed
<1>1. Init => ClosedInv /\ ChannelsAreListed
  BY DEF Init, ClosedInv, ChannelsAreListed
<1>2. QED
  BY TypeInit, TypeStep, <1>1, ClosedStep, ListedStep, PTL DEF Spec

-----------------------------------------------------------------------------
(* The user's choice. *)

LEMMA InvInit == Init => IInv
<1> SUFFICES ASSUME Init PROVE IInv
  OBVIOUS
<1>1. choice # None => saved.channel = choice /\ Valid(saved)
  BY DEF Init
<1>2. QED
  BY <1>1 DEF Init, IInv, ClosedInv, ChoiceInv

LEMMA InvStep == TypeOK /\ IInv /\ [Next]_vars => IInv'
<1> SUFFICES ASSUME TypeOK, IInv, [Next]_vars PROVE IInv'
  OBVIOUS
<1>0. ClosedInv'
  BY ClosedStep DEF IInv
<1>1. CASE Connected
  <2>1. calm' => AskedInv'
    <3>1. SUFFICES ASSUME calm' PROVE AskedInv'
      OBVIOUS
    <3>2. \A r \in Requests : asked[r] = 0
      BY <1>1, <3>1 DEF Connected, Quiet
    <3>3. asked'[GG] = 1
      BY <1>1, <3>2 DEF Connected, TypeOK, Requests, GG
    <3>4. \A g \in Guilds : asked'[g] = 0
      BY <1>1, <3>2, RequestAssumption DEF Connected, TypeOK, Requests
    <3>5. QED
      BY <3>3, <3>4 DEF AskedInv
  <2>2. ShownInv'
    <3>1. ~listed'
      BY <1>1 DEF Connected, IInv, ClosedInv
    <3>2. QED
      BY <1>1, <3>1 DEF Connected, ShownInv
  <2>3. calm' => ChoiceInv'
    BY <1>1 DEF Connected, IInv, ChoiceInv, Valid
  <2>4. QED
    BY <1>0, <2>1, <2>2, <2>3 DEF IInv
<1>2. CASE Close
  BY <1>0, <1>2 DEF Close, IInv, ChoiceInv, Valid
<1>3. CASE DidReceiveGlobalSettings
  BY <1>0, <1>3 DEF DidReceiveGlobalSettings, IInv, AskedInv, ShownInv, ChoiceInv, Valid, Quiet
<1>4. CASE ChangeApp
  <2>1. UNCHANGED <<asked, page, lost, choice, calm>> /\ opened
    BY <1>4 DEF ChangeApp, Shown
  <2>2. calm => AskedInv'
    BY <2>1 DEF IInv, AskedInv, page
  <2>3. calm => ShownInv'
    BY <1>4, <2>1 DEF IInv, ShownInv, page, SaveSettings, ChangeApp
  <2>4. calm => ChoiceInv'
    <3>1. calm /\ choice # None => saved' = saved
      BY <1>4, <2>1 DEF IInv, ChoiceInv, SaveSettings, ChangeApp, page, TypeOK
    <3>2. QED
      BY <2>1, <3>1 DEF IInv, ChoiceInv, page, Valid, Quiet
  <2>5. QED
    BY <1>0, <2>1, <2>2, <2>3, <2>4 DEF IInv
<1>5. CASE DiscordGuilds
  <2>1. SUFFICES ASSUME calm PROVE AskedInv' /\ ShownInv' /\ ChoiceInv'
    BY <1>0, <1>5 DEF DiscordGuilds, IInv
  <2>2. AskedInv /\ ShownInv /\ ChoiceInv
    BY <1>5, <2>1 DEF DiscordGuilds, IInv
  <2>3. asked[GG] = 1 /\ \A g \in Guilds : asked[g] = 0
    BY <1>5, <2>2 DEF DiscordGuilds, AskedInv, TypeOK, Requests, GG
  <2>4. asked'[GG] \in {0, 1} /\ (guild' # GG => asked'[GG] = 0)
    BY <1>5, <2>3 DEF DiscordGuilds, GuildChanged, TypeOK, Requests, GG
  <2>5. AskedInv'
    <3>1. \A g \in Guilds : asked'[g] > 0 => g = guild'
      BY <1>5, <2>3, RequestAssumption DEF DiscordGuilds, GuildChanged, TypeOK, Requests
    <3>2. QED
      BY <1>5, <2>4, <3>1, RequestAssumption DEF DiscordGuilds, AskedInv, GG
  <2>6. ShownInv'
    BY <1>5 DEF DiscordGuilds, GuildChanged, ShownInv
  <2>7. ChoiceInv'
    BY <1>5, <2>2, <2>3 DEF DiscordGuilds, GuildChanged, ChoiceInv, Quiet, Valid, Requests, GG
  <2>8. QED
    BY <2>5, <2>6, <2>7
<1>6. ASSUME NEW g \in Guilds, DiscordChannels(g) PROVE IInv'
  <2>1. SUFFICES ASSUME calm PROVE AskedInv' /\ ShownInv' /\ ChoiceInv'
    BY <1>0, <1>6 DEF DiscordChannels, IInv
  <2>2. AskedInv /\ ShownInv /\ ChoiceInv
    BY <1>6, <2>1 DEF DiscordChannels, IInv
  <2>3. listed /\ g = guild /\ asked[GG] = 0
    BY <1>6, <2>2 DEF DiscordChannels, AskedInv
  <2>4. AskedInv'
    BY <1>6, <2>2, <2>3, RequestAssumption DEF DiscordChannels, AskedInv, TypeOK, Requests, GG
  <2>5. ShownInv'
    BY <1>6, <2>2, <2>3 DEF DiscordChannels, ShownInv
  <2>6. choice # None => settings = saved /\ channel' = choice
    <3>1. ~Quiet
      BY <1>6 DEF DiscordChannels, Quiet, Requests
    <3>2. QED
      BY <1>6, <2>2, <2>3, <3>1 DEF DiscordChannels, ChoiceInv, Selected, Valid
  <2>7. ChoiceInv'
    <3>1. choice # None => saved' = saved
      BY <1>6, <2>2, <2>6 DEF DiscordChannels, SaveSettings, ChoiceInv, TypeOK
    <3>2. QED
      BY <1>6, <2>2, <2>6, <3>1 DEF DiscordChannels, ChoiceInv, Valid
  <2>8. QED
    BY <2>4, <2>5, <2>7
<1>7. ASSUME NEW g \in GuildIds, ChooseGuild(g) PROVE IInv'
  <2>1. SUFFICES ASSUME calm' PROVE AskedInv' /\ ShownInv' /\ ChoiceInv'
    BY <1>0 DEF IInv
  <2>2. \A r \in Requests : asked[r] = 0
    BY <1>7, <2>1 DEF ChooseGuild, Quiet
  <2>3. asked' = [r \in Requests |-> IF r = g THEN 1 ELSE 0]
    BY <1>7, <2>2 DEF ChooseGuild, GuildChanged
  <2>4. AskedInv'
    BY <1>7, <2>3, RequestAssumption DEF ChooseGuild, AskedInv, Requests, GG
  <2>5. ShownInv'
    BY <1>7 DEF ChooseGuild, GuildChanged, ShownInv
  <2>6. ChoiceInv'
    BY <1>7 DEF ChooseGuild, ChoiceInv
  <2>7. QED
    BY <2>4, <2>5, <2>6
<1>8. ASSUME NEW c \in ChannelIds, ChooseChannel(c) PROVE IInv'
  <2>1. SUFFICES ASSUME calm' PROVE AskedInv' /\ ShownInv' /\ ChoiceInv'
    BY <1>0 DEF IInv
  <2>2. calm /\ Quiet /\ AskedInv /\ ShownInv
    BY <1>8, <2>1 DEF ChooseChannel, IInv, Shown
  <2>3. listed /\ guild \in Guilds /\ c \in ChannelsOf[guild]
    BY <1>8, <2>2 DEF ChooseChannel, ShownInv
  <2>4. saved' = [guild |-> guild, channel |-> c]
    BY <1>8, <2>3, NoneAssumption DEF ChooseChannel, SaveSettings, Shown
  <2>5. AskedInv'
    BY <1>8, <2>2 DEF ChooseChannel, AskedInv
  <2>6. ShownInv'
    BY <1>8, <2>2, <2>3 DEF ChooseChannel, ShownInv
  <2>7. ChoiceInv'
    BY <1>8, <2>2, <2>3, <2>4 DEF ChooseChannel, ChoiceInv, Valid, Quiet
  <2>8. QED
    BY <2>5, <2>6, <2>7
<1>9. ASSUME NEW r \in Requests, NoAnswer(r) PROVE IInv'
  <2>1. SUFFICES ASSUME calm PROVE (opened => AskedInv' /\ ShownInv') /\ ChoiceInv'
    BY <1>0, <1>9 DEF NoAnswer, page, IInv
  <2>2. opened => AskedInv'
    BY <1>9, <2>1 DEF NoAnswer, page, IInv, AskedInv, TypeOK, Requests, GG
  <2>3. opened => ShownInv'
    BY <1>9, <2>1 DEF NoAnswer, page, IInv, ShownInv
  <2>4. ChoiceInv'
    <3>1. ~Quiet
      BY <1>9 DEF NoAnswer, Quiet
    <3>2. QED
      BY <1>9, <2>1, <3>1 DEF NoAnswer, page, IInv, ChoiceInv, Valid
  <2>5. QED
    BY <2>2, <2>3, <2>4
<1>10. CASE UNCHANGED vars
  BY <1>10 DEF vars, IInv, ClosedInv, AskedInv, ShownInv, ChoiceInv, Valid, Quiet
<1>11. QED
  BY <1>1, <1>2, <1>3, <1>4, <1>5, <1>6, <1>7, <1>8, <1>9, <1>10 DEF Next

\* A user who never goes on while an answer is awaited keeps the channel they
\* chose, for any servers and channels, and however often they come back.
THEOREM ChoiceAlwaysKept == Spec => []ChoiceIsKept
<1>1. IInv => ChoiceIsKept
  BY DEF IInv, ChoiceInv, ChoiceIsKept
<1>2. QED
  BY TypeInit, TypeStep, InvInit, InvStep, <1>1, PTL DEF Spec

\* What that user saves is a server and a channel of it.
LEMMA SavedStep ==
  TypeOK /\ IInv /\ [Next]_vars => [calm' /\ saved' # saved => Valid(saved')]_vars
<1> SUFFICES ASSUME TypeOK, IInv, Next, calm', saved' # saved PROVE Valid(saved')
  BY DEF vars
<1>1. calm /\ opened /\ SaveSettings /\ guild' = guild
  BY DEF Next, Connected, Close, DidReceiveGlobalSettings, ChangeApp, DiscordGuilds,
         DiscordChannels, ChooseGuild, ChooseChannel, NoAnswer, Shown, page
<1>2. ShownInv /\ AskedInv
  BY <1>1 DEF IInv
<1>3. saved' = [guild |-> guild, channel |-> channel'] /\ channel' # None
  BY <1>1 DEF SaveSettings
<1>4. listed /\ channel' \in channels'
  <2>1. CASE ChangeApp
    BY <1>2, <1>3, <2>1 DEF ChangeApp, page, ShownInv, TypeOK
  <2>2. ASSUME NEW g \in Guilds, DiscordChannels(g) PROVE listed /\ channel' \in channels'
    BY <1>2, <1>3, <2>2, SelectedIsListed DEF DiscordChannels, AskedInv
  <2>3. ASSUME NEW c \in ChannelIds, ChooseChannel(c) PROVE listed /\ channel' \in channels'
    BY <1>2, <2>3 DEF ChooseChannel, ShownInv
  <2>4. QED
    BY <2>1, <2>2, <2>3 DEF Next, Connected, Close, DidReceiveGlobalSettings, DiscordGuilds,
                            ChooseGuild, NoAnswer, page
<1>5. opened' /\ listed'
  BY <1>1, <1>4, <1>3 DEF Next, Connected, Close, DidReceiveGlobalSettings, ChangeApp,
         DiscordGuilds, DiscordChannels, ChooseGuild, ChooseChannel, NoAnswer, page
<1>6. ShownInv'
  BY <1>5, InvStep DEF IInv
<1>7. QED
  BY <1>1, <1>3, <1>4, <1>5, <1>6 DEF ShownInv, Valid

THEOREM SavedPairsBelongTogether == Spec => SavedBelongTogether
<1>1. QED
  BY TypeInit, TypeStep, InvInit, InvStep, SavedStep, PTL DEF Spec, SavedBelongTogether
=============================================================================
