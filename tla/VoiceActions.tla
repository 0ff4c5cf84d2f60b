---------------------------- MODULE VoiceActions ----------------------------
(***************************************************************************)
(* The buttons: Discord's voice settings and voice channel, the copy of    *)
(* them a DiscordClient keeps (PubSubData), and the eleven actions, which  *)
(* show that copy on a key and turn a press of it into a request.          *)
(*                                                                         *)
(* Logging in and the errors of the connection are in DiscordClient and    *)
(* DiscordStreamDeckPlugin; here a client logs in, may lose its connection *)
(* and is then replaced.  Discord serves the requests of a connection in   *)
(* order and dispatches an event for each change it was asked to report.   *)
(* The reply to the fetch and its effect are one step: resolving the       *)
(* promise queues its coroutine ahead of the next message.  So, once all   *)
(* data is there, is the coroutine that reports READY; but a loss can come *)
(* first, and a thread of asio's pool reset and replace mClient at once,   *)
(* which is what the callbacks of a READY give to the actions.  What they  *)
(* do for all actions is one step.                                         *)
(***************************************************************************)
EXTENDS Naturals, Sequences

CONSTANTS
  Buttons,      \* contexts: the keys an action can be placed on
  Placeable,    \* for each key, the actions the user may place on it
  Channels,     \* voice channels
  FirstVoice,   \* bound: Discord's settings before anything changes them
  MaxClients,   \* bound: clients created, one after the other
  MaxChanges    \* bound: presses, and changes made in Discord itself

Voice == [deaf : BOOLEAN, mute : BOOLEAN, ptt : BOOLEAN]
NoChannel == "none"   \* an optional or an empty string
Topics == {"voice", "channel"}
NoTask == [at |-> "none", of |-> 0, icon |-> 0, late |-> FALSE]

(* An action: what it sets, what to, and the value shown as state 1. *)
SelfMuteToggleAction   == [sets |-> "mute", to |-> "opposite", lit |-> TRUE]
SelfMuteOffAction      == [sets |-> "mute", to |-> "off",      lit |-> TRUE]
SelfMuteOnAction       == [sets |-> "mute", to |-> "on",       lit |-> FALSE]
DeafenToggleAction     == [sets |-> "deaf", to |-> "opposite", lit |-> TRUE]
DeafenOffAction        == [sets |-> "deaf", to |-> "off",      lit |-> FALSE]
DeafenOnAction         == [sets |-> "deaf", to |-> "on",       lit |-> TRUE]
PTTToggleAction        == [sets |-> "ptt",  to |-> "opposite", lit |-> TRUE]
PTTOffAction           == [sets |-> "ptt",  to |-> "off",      lit |-> TRUE]
PTTOnAction            == [sets |-> "ptt",  to |-> "on",       lit |-> FALSE]
JoinVoiceChannelAction == [sets |-> "channel", to |-> "opposite", lit |-> TRUE]
HangupAction           == [sets |-> "channel", to |-> "off",      lit |-> TRUE]
NoAction               == [sets |-> "nothing", to |-> "off",      lit |-> FALSE]

VoiceActionClasses ==
  { SelfMuteToggleAction, SelfMuteOffAction, SelfMuteOnAction,
    DeafenToggleAction, DeafenOffAction, DeafenOnAction,
    PTTToggleAction, PTTOffAction, PTTOnAction }
ActionClasses == VoiceActionClasses \cup {JoinVoiceChannelAction, HangupAction}

ASSUME PlaceableAssumption == Placeable \in [Buttons -> SUBSET ActionClasses]
ASSUME FirstVoiceAssumption == FirstVoice \subseteq Voice
ASSUME BoundsAssumption == MaxClients \in Nat \ {0} /\ MaxChanges \in Nat

VARIABLES
  voice, channel,   \* Discord's settings and selected channel
  reporting,        \* the topics Discord dispatches events for
  requests,         \* written to the connection, not yet served by Discord
  events,           \* sent by Discord, not yet read
  client,           \* mClient, the latest client created, or the next one if there is none
  rpcState,         \* its state, "none" if it is not created yet; "LATE" is READY after
                    \* DISCONNECTED
  late,             \* a client that has lost its connection has yet to report READY
  crashed,          \* the actions were given a client that has no data at all
  resolved,         \* mInitPromises, the topics whose initial data has arrived
  cache,            \* for each client, mVoiceSettings and mCurrentVoiceChannel
  action,           \* mActions: the action placed on each key
  holds,            \* mDiscordClient of each action, a weak pointer
  subs,             \* how often a button subscribed at a client
  task,             \* what the constructor of an action has posted
  mChannelId,       \* of a JoinVoiceChannelAction
  configured,       \* the channel in the settings Stream Deck keeps for a key
  shown,            \* the state last set with SetState
  behind,           \* history: an icon that no longer is, or never was, the client's
  changes           \* history: presses and changes so far

discord == <<voice, channel, reporting, requests>>
plugin == <<client, rpcState, late, crashed, resolved, cache>>
keys == <<action, mChannelId, configured>>
icons == <<holds, subs, task, shown, behind>>
vars == <<discord, events, plugin, keys, icons, changes>>

NoData == [voice |-> <<>>, channel |-> <<>>]
DiscordData == [voice |-> <<voice>>, channel |-> <<channel>>]

Selections == Channels \cup {NoChannel}

\* What is written to a connection, and what Discord sends.
RequestTypes ==
  [cmd : {"SUBSCRIBE"}, to : Topics] \cup
  [cmd : {"GET_SELECTED_VOICE_CHANNEL", "SELECT_VOICE_CHANNEL"}, to : Selections] \cup
  [cmd : {"mute", "deaf", "ptt"}, to : {"on", "off"}]
EventTypes ==
  [about : {"voice"}, data : Voice, resolves : BOOLEAN] \cup
  [about : {"channel"}, data : Selections, resolves : BOOLEAN]

\* PubSubData: empty, or the value set last.
PubSub(Values) == {<<>>} \cup {<<x>> : x \in Values}
ClientData == [voice : PubSub(Voice), channel : PubSub(Selections)]
Tasks ==
  [at : {"none", "posted", "computed"}, of : 0 .. MaxClients, icon : 0 .. 1, late : BOOLEAN]

TypeOK ==
  /\ voice \in Voice
  /\ channel \in Selections
  /\ reporting \subseteq Topics
  /\ requests \in Seq(RequestTypes)
  /\ events \in Seq(EventTypes)
  /\ client \in 1 .. MaxClients
  /\ rpcState \in {"none", "login", "WAITING_FOR_INITIAL_DATA", "READY", "DISCONNECTED", "LATE"}
  /\ late \in BOOLEAN
  /\ crashed \in BOOLEAN
  /\ resolved \subseteq Topics
  /\ cache \in [1 .. MaxClients -> ClientData]
  /\ action \in [Buttons -> ActionClasses \cup {NoAction}]
  /\ holds \in [Buttons -> 0 .. MaxClients]
  /\ subs \in [1 .. MaxClients -> [Buttons -> Nat]]
  /\ task \in [Buttons -> Tasks]
  /\ mChannelId \in [Buttons -> Selections]
  /\ configured \in [Buttons -> Selections]
  /\ shown \in [Buttons -> 0 .. 1]
  /\ behind \in [Buttons -> BOOLEAN]
  /\ changes \in 0 .. MaxChanges

Init ==
  /\ voice \in FirstVoice
  /\ channel \in Selections
  /\ reporting = {}
  /\ requests = <<>>
  /\ events = <<>>
  /\ client = 1
  /\ rpcState = "login"
  /\ late = FALSE
  /\ crashed = FALSE
  /\ resolved = {}
  /\ cache = [c \in 1 .. MaxClients |-> NoData]
  /\ action = [b \in Buttons |-> NoAction]
  /\ holds = [b \in Buttons |-> 0]
  /\ subs = [c \in 1 .. MaxClients |-> [b \in Buttons |-> 0]]
  /\ task = [b \in Buttons |-> NoTask]
  /\ mChannelId = [b \in Buttons |-> NoChannel]
  /\ configured = [b \in Buttons |-> NoChannel]
  /\ shown = [b \in Buttons |-> 0]
  /\ behind = [b \in Buttons |-> FALSE]
  /\ changes = 0

-----------------------------------------------------------------------------
(* What a button shows. *)

\* A deafened user is muted as well.
IsOn(what, v) == IF what = "mute" THEN v.deaf \/ v.mute ELSE v[what]

\* GetDesiredState, from a client's data and the action's mChannelId.
DesiredState(a, data, id) ==
  LET on == IF a.sets # "channel" THEN IsOn(a.sets, Head(data.voice))
            ELSE IF a = HangupAction THEN data.channel # <<NoChannel>>
            ELSE data.channel = <<id>> /\ id # NoChannel
  IN  IF on = a.lit THEN 1 ELSE 0

DesiredOf(b, c) == DesiredState(action[b], cache[c], mChannelId[b])

\* The weak pointer can be locked: the plugin or a task still holds the client.
Alive(c) == c # 0 /\ (c = client \/ \E b \in Buttons : task[b].of = c)

\* A subscriber is called with what is published at client, which subs is of.
Hears(b, topic) ==
  subs[client][b] > 0 /\ (topic = "channel" <=> action[b].sets = "channel")

\* SetState on the keys of S, from the data of the client given for each: a key may
\* show that of a client since replaced.  A task that has computed a state already
\* will set that one later.
SetState(S, of) ==
  LET other(b) == mChannelId'[b] # mChannelId[b] IN
  /\ shown' = [b \in Buttons |->
       IF b \in S THEN DesiredState(action[b], cache'[of[b]], mChannelId'[b]) ELSE shown[b]]
  /\ behind' = [b \in Buttons |->
       IF b \in S THEN of[b] # client ELSE behind[b] \/ other(b)]
  /\ task' = [b \in Buttons |->
       IF task[b].at = "computed" /\ (b \in S \/ other(b))
         THEN [task[b] EXCEPT !.late = TRUE] ELSE task[b]]

FromClient == [b \in Buttons |-> client]

\* Mutant of Publish: set() stores the data and calls nobody.
PublishStored(topic, data) ==
  /\ cache' = [cache EXCEPT ![client][topic] = <<data>>]
  /\ UNCHANGED <<shown, behind, task>>

\* PubSubDataImpl::set() and the subscribers it calls.
Publish(topic, data) ==
  /\ cache' = [cache EXCEPT ![client][topic] = <<data>>]
  /\ SetState({b \in Buttons : Hears(b, topic)}, FromClient)

-----------------------------------------------------------------------------
(* Discord. *)

\* A change of the settings or of the channel, and the events it causes.
Changes(v, chan, extra) ==
  /\ voice' = v
  /\ channel' = chan
  /\ events' = events \o extra
       \o (IF v # voice /\ "voice" \in reporting
             THEN <<[about |-> "voice", data |-> v, resolves |-> TRUE]>> ELSE <<>>)
       \o (IF chan # channel /\ "channel" \in reporting
             THEN <<[about |-> "channel", data |-> chan, resolves |-> FALSE]>> ELSE <<>>)

DiscordChanges ==
  /\ changes < MaxChanges
  /\ changes' = changes + 1
  /\ \/ \E s \in DOMAIN voice : Changes([voice EXCEPT ![s] = ~@], channel, <<>>)
     \/ \E c \in Selections : c # channel /\ Changes(voice, c, <<>>)
  /\ UNCHANGED <<reporting, requests, plugin, keys, icons>>

\* Whoever unmutes while deafened is undeafened, which the toggle relies on.
SetVoice(what, value) ==
  IF what = "mute" /\ ~value THEN [voice EXCEPT !.mute = FALSE, !.deaf = FALSE]
                             ELSE [voice EXCEPT ![what] = value]

\* Discord serves r.  Subscribing to the settings is answered with an event that
\* carries them.
Serve(r) ==
  \/ /\ r.cmd = "SUBSCRIBE"
     /\ reporting' = reporting \cup {r.to}
     /\ Changes(voice, channel,
          IF r.to = "voice" THEN <<[about |-> "voice", data |-> voice, resolves |-> TRUE]>>
                            ELSE <<>>)
  \/ /\ r.cmd = "GET_SELECTED_VOICE_CHANNEL"
     /\ Changes(voice, channel, <<[about |-> "channel", data |-> channel, resolves |-> TRUE]>>)
     /\ UNCHANGED reporting
  \/ /\ r.cmd = "SELECT_VOICE_CHANNEL"
     /\ Changes(voice, r.to, <<>>)
     /\ UNCHANGED reporting
  \/ /\ r.cmd \in {"mute", "deaf", "ptt"}
     /\ Changes(SetVoice(r.cmd, r.to = "on"), channel, <<>>)
     /\ UNCHANGED reporting

DiscordServes ==
  /\ requests # <<>>
  /\ requests' = Tail(requests)
  /\ Serve(Head(requests))
  /\ UNCHANGED <<plugin, keys, icons, changes>>

-----------------------------------------------------------------------------
(* The client. *)

\* Mutant of InitialRequests: the fetch is written ahead of its subscription.
InitialRequestsFetchFirst ==
  << [cmd |-> "SUBSCRIBE", to |-> "voice"],
     [cmd |-> "GET_SELECTED_VOICE_CHANNEL", to |-> NoChannel],
     [cmd |-> "SUBSCRIBE", to |-> "channel"] >>

InitialRequests ==
  << [cmd |-> "SUBSCRIBE", to |-> "voice"],
     [cmd |-> "SUBSCRIBE", to |-> "channel"],
     [cmd |-> "GET_SELECTED_VOICE_CHANNEL", to |-> NoChannel] >>

\* The messages of a client come after what the one before it has queued.
Authenticated ==
  /\ rpcState = "login"
  /\ ~late
  /\ rpcState' = "WAITING_FOR_INITIAL_DATA"
  /\ requests' = requests \o InitialRequests
  /\ UNCHANGED <<voice, channel, reporting, events, client, late, crashed, resolved, cache,
                 keys, icons, changes>>

\* An event, or the reply to the fetch: that one resolves the channel's promise.
ReadMessage ==
  /\ events # <<>>
  /\ events' = Tail(events)
  /\ UNCHANGED <<discord, client, rpcState, late, crashed, keys, holds, subs, changes>>
  /\ Publish(Head(events).about, Head(events).data)
  /\ resolved' = resolved \cup (IF Head(events).resolves THEN {Head(events).about} ELSE {})

\* The dispatch of the settings and the fetch of the channel have resolved.
HasInitialData == resolved = Topics

Placed == {b \in Buttons : action[b] # NoAction}

\* SetDiscordClient(mClient) on every action, from the state callback of a READY and
\* again from the ready callback: they keep the client, subscribe, and show its data.
Attach ==
  /\ holds' = [b \in Buttons |-> IF b \in Placed THEN client ELSE holds[b]]
  /\ subs' = [subs EXCEPT ![client] =
                [b \in Buttons |-> IF b \in Placed THEN @[b] + 2 ELSE @[b]]]
  /\ SetState(Placed, FromClient)

BecomeReady ==
  /\ rpcState = "WAITING_FOR_INITIAL_DATA"
  /\ HasInitialData
  /\ rpcState' = "READY"
  /\ UNCHANGED <<discord, events, client, late, crashed, resolved, cache, keys, changes>>
  /\ Attach

\* The READY of a client that has lost its connection.  It may still be mClient.  If
\* there is none the actions lose theirs, and show an alert.  One that is logging in
\* has nothing to subscribe to: the first action dereferences a null pointer.
LateReady ==
  /\ late
  /\ late' = FALSE
  /\ UNCHANGED <<discord, events, client, resolved, cache, keys, changes>>
  /\ \/ /\ rpcState = "DISCONNECTED"
        /\ rpcState' = "LATE"
        /\ UNCHANGED crashed
        /\ Attach
     \/ /\ rpcState = "none"
        /\ holds' = [b \in Buttons |-> IF b \in Placed THEN 0 ELSE holds[b]]
        /\ UNCHANGED <<rpcState, crashed, subs, shown, behind, task>>
     \/ /\ rpcState = "login"
        /\ holds' = [b \in Buttons |-> IF b \in Placed THEN client ELSE holds[b]]
        /\ crashed' = (Placed # {})
        /\ UNCHANGED <<rpcState, subs, shown, behind, task>>

\* Discord exits; the client object remains until it is replaced.  If all data was there
\* its coroutine will report READY.
LoseConnection ==
  /\ client < MaxClients
  /\ rpcState \in {"login", "WAITING_FOR_INITIAL_DATA", "READY"}
  /\ ~late
  /\ rpcState' = "DISCONNECTED"
  /\ late' = (rpcState = "WAITING_FOR_INITIAL_DATA" /\ HasInitialData)
  /\ reporting' = {}
  /\ requests' = <<>>
  /\ events' = <<>>
  /\ UNCHANGED <<voice, channel, client, crashed, resolved, cache, keys, icons, changes>>

\* Mutant of ResetClient: it replaces a client that is not lost.
ResetUnasked ==
  /\ client' = client + 1
  /\ rpcState' = "none"
  /\ resolved' = {}
  /\ UNCHANGED <<discord, events, late, crashed, cache, keys, icons, changes>>

\* The task of ReconnectToDiscord.
ResetClient ==
  /\ rpcState \in {"DISCONNECTED", "LATE"}
  /\ client' = client + 1
  /\ rpcState' = "none"
  /\ resolved' = {}
  /\ UNCHANGED <<discord, events, late, crashed, cache, keys, icons, changes>>

ConnectToDiscord ==
  /\ rpcState = "none"
  /\ rpcState' = "login"
  /\ UNCHANGED <<discord, events, client, late, crashed, resolved, cache, keys, icons, changes>>

-----------------------------------------------------------------------------
(* The actions. *)

\* Mutant of Posted: the constructor does not look at the client's state.
PostedAlways == [NoTask EXCEPT !.at = "posted", !.of = client]

\* What the constructor of an action leaves to a thread of asio's pool.
Posted ==
  IF rpcState \in {"READY", "LATE"} THEN [NoTask EXCEPT !.at = "posted", !.of = client] ELSE NoTask

\* GetOrCreateAction, then WillAppear of an action without a client: an alert.
FirstWillAppear(b, a) ==
  /\ action[b] = NoAction
  /\ action' = [action EXCEPT ![b] = a]
  /\ \E id \in IF a = JoinVoiceChannelAction THEN Selections ELSE {NoChannel} :
       configured' = [configured EXCEPT ![b] = id]
  /\ task' = [task EXCEPT ![b] = Posted]
  /\ UNCHANGED <<discord, events, plugin, mChannelId, holds, subs, shown, behind,
                 changes>>

WillAppear(b) ==
  /\ action[b] # NoAction
  /\ Alive(holds[b])
  /\ UNCHANGED <<discord, events, plugin, keys, holds, subs, changes>>
  /\ SetState({b}, holds)

\* Mutant of TaskAttaches: it keeps the client but does not subscribe.
TaskAttachesDeaf(b) ==
  /\ task[b].at = "posted"
  /\ holds' = [holds EXCEPT ![b] = task[b].of]
  /\ task' = [task EXCEPT ![b] = [@ EXCEPT !.at = "computed", !.icon = DesiredOf(b, task[b].of)]]
  /\ UNCHANGED <<discord, events, plugin, keys, subs, shown, behind, changes>>

\* SetDiscordClient on the pool's thread: it keeps the client, subscribes, and
\* computes the state it will set.
TaskAttaches(b) ==
  /\ task[b].at = "posted"
  /\ holds' = [holds EXCEPT ![b] = task[b].of]
  /\ subs' = [subs EXCEPT ![task[b].of][b] = @ + 1]
  /\ task' = [task EXCEPT ![b] = [@ EXCEPT !.at = "computed", !.icon = DesiredOf(b, task[b].of)]]
  /\ UNCHANGED <<discord, events, plugin, keys, shown, behind, changes>>

\* Late if the state was set anew since, or if the client has been replaced.
TaskShows(b) ==
  /\ task[b].at = "computed"
  /\ shown' = [shown EXCEPT ![b] = task[b].icon]
  /\ behind' = [behind EXCEPT ![b] = task[b].late \/ task[b].of # client]
  /\ task' = [task EXCEPT ![b] = NoTask]
  /\ UNCHANGED <<discord, events, plugin, keys, holds, subs, changes>>

\* The user picks another channel in the property inspector of a key.
DidReceiveSettings(b, id) ==
  /\ action[b] = JoinVoiceChannelAction
  /\ configured' = [configured EXCEPT ![b] = id]
  /\ mChannelId' = [mChannelId EXCEPT ![b] = id]
  /\ UNCHANGED <<discord, events, plugin, action, holds, subs, changes>>
  /\ SetState(IF Alive(holds[b]) THEN {b} ELSE {}, holds)

\* Mutant of Request: the mute toggle looks at mute alone, not at deaf.
RequestMuteAlone(a, c, id) ==
  IF a.sets = "channel"
  THEN [cmd |-> "SELECT_VOICE_CHANNEL",
        to |-> IF a = HangupAction \/ Head(cache[c].channel) = id THEN NoChannel ELSE id]
  ELSE [cmd |-> a.sets,
        to |-> IF a.to # "opposite" THEN a.to
               ELSE IF Head(cache[c].voice)[a.sets] THEN "off" ELSE "on"]

\* What KeyUp of an action asks for, given the data of its client.
Request(a, c, id) ==
  IF a.sets = "channel"
  THEN [cmd |-> "SELECT_VOICE_CHANNEL",
        to |-> IF a = HangupAction \/ Head(cache[c].channel) = id THEN NoChannel ELSE id]
  ELSE [cmd |-> a.sets,
        to |-> IF a.to # "opposite" THEN a.to
               ELSE IF IsOn(a.sets, Head(cache[c].voice)) THEN "off" ELSE "on"]

\* A press.  If the plugin's client is not READY or the action's is gone it
\* shows an alert; a Join key without a channel does nothing.  What is written to a
\* lost connection is gone.
KeyUp(b) ==
  /\ action[b] # NoAction
  /\ action[b] = JoinVoiceChannelAction => configured[b] # NoChannel
  /\ rpcState \in {"READY", "LATE"}
  /\ Alive(holds[b])
  /\ changes < MaxChanges
  /\ changes' = changes + 1
  /\ mChannelId' = IF action[b] = JoinVoiceChannelAction
                     THEN [mChannelId EXCEPT ![b] = configured[b]] ELSE mChannelId
  /\ requests' = IF holds[b] = client /\ rpcState = "READY"
                   THEN Append(requests, Request(action[b], client, configured[b]))
                   ELSE requests
  /\ UNCHANGED <<voice, channel, reporting, events, plugin, action, configured, holds, subs>>
  /\ SetState({}, holds)

-----------------------------------------------------------------------------
Client ==
  /\ ~crashed
  /\ Authenticated \/ ReadMessage \/ BecomeReady \/ LateReady \/ ResetClient \/ ConnectToDiscord

Task(b) == ~crashed /\ (TaskAttaches(b) \/ TaskShows(b))

Key(b) ==
  /\ ~crashed
  /\ \/ \E a \in Placeable[b] : FirstWillAppear(b, a)
     \/ \E id \in Channels : DidReceiveSettings(b, id)
     \/ WillAppear(b) \/ KeyUp(b)

Next ==
  \/ DiscordChanges \/ DiscordServes \/ (~crashed /\ LoseConnection)
  \/ Client
  \/ \E b \in Buttons : Task(b) \/ Key(b)

Spec == Init /\ [][Next]_vars

\* The loop runs its handlers, the pool its tasks, and Discord answers.
Fairness ==
  WF_vars(Client) /\ WF_vars(DiscordServes) /\ \A b \in Buttons : WF_vars(Task(b))
FairSpec == Spec /\ Fairness

-----------------------------------------------------------------------------
(* Properties. *)

\* mData is read without a test wherever an action has a client to read it from: an
\* action never holds a client whose data has not arrived, but for one case.  A client
\* that lost its connection when it had all its data reports READY when mClient is its
\* successor, which is logging in; the actions that exist then are given that one, and
\* the plugin ends.
HeldDataIsLoaded ==
  \A b \in Buttons : \A c \in {holds[b], task[b].of} \ {0} :
    \/ cache[c].voice # <<>> /\ cache[c].channel # <<>>
    \/ crashed /\ rpcState = "login" /\ c = client /\ c = holds[b]

\* What is held about a topic is what is now, once the events sent are applied.
Follows(sent, topic, held, now) ==
  LET About == {i \in DOMAIN sent : sent[i].about = topic}
  IN  IF About = {} THEN held = <<now>>
      ELSE \E i \in About : sent[i].data = now /\ \A j \in About : j <= i

\* A READY client's data is Discord's once what Discord has sent is applied: no
\* change falls between the fetch, the subscriptions and the events.
CacheFollowsDiscord ==
  rpcState = "READY" =>
    /\ Follows(events, "voice", cache[client].voice, voice)
    /\ Follows(events, "channel", cache[client].channel, channel)

\* No task of its constructor is pending and its icon was set in time.
Settled(b) == action[b] # NoAction /\ task[b] = NoTask /\ ~behind[b]

\* While its client is READY a button shows what the client's data calls for.
ButtonsShowTheData ==
  \A b \in Buttons : rpcState = "READY" /\ Settled(b) => shown[b] = DesiredOf(b, client)

\* READY attaches each action twice, and the task of a constructor once: a button
\* of a READY client hears each event once or twice, never not at all.
ButtonsAreSubscribed ==
  \A b \in Buttons :
    /\ subs[client][b] <= 2
    /\ rpcState = "READY" /\ action[b] # NoAction /\ task[b].at # "posted" =>
         subs[client][b] > 0

PressAnswers(b) ==
  LET join == action[b] = JoinVoiceChannelAction
      isOn == IF join THEN NoChannel ELSE "off"
      isOff == IF join THEN configured[b] ELSE "on"
  IN  /\ KeyUp(b) /\ rpcState = "READY" /\ Settled(b) /\ holds[b] = client
      /\ action[b].to = "opposite" /\ mChannelId'[b] = mChannelId[b]
      => requests'[Len(requests')].to = IF shown[b] = 1 THEN isOn ELSE isOff

\* While its client is READY a press of a toggle asks for the opposite of what its key
\* shows, and a press of a Join key leaves the channel just if the key shows that the user is in it.
PressesAnswerIcons == [][\A b \in Buttons : PressAnswers(b)]_vars

\* Once nothing changes any more, a client is READY and every button shows what
\* Discord's own settings call for, unless a late READY has ended the plugin.
ButtonsAgreeWithDiscord ==
  <>[](\/ crashed
       \/ rpcState = "READY" /\ \A b \in Buttons :
            Settled(b) => shown[b] = DesiredState(action[b], DiscordData, mChannelId[b]))
=============================================================================
