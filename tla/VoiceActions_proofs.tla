------------------------ MODULE VoiceActions_proofs ------------------------
(* Proofs about VoiceActions, for any keys, channels and numbers of clients. *)
EXTENDS VoiceActions, SequenceTheorems, TLAPS

-----------------------------------------------------------------------------
(* The inductive invariant. *)

WAITING == "WAITING_FOR_INITIAL_DATA"

Fetch == [cmd |-> "GET_SELECTED_VOICE_CHANNEL", to |-> NoChannel]
Subscribe(topic) == [cmd |-> "SUBSCRIBE", to |-> topic]

\* How many of the initial requests Discord has served shows in what it reports.
InitialStage ==
  \/ requests = <<Subscribe("voice"), Subscribe("channel"), Fetch>> /\ reporting = {}
  \/ requests = <<Subscribe("channel"), Fetch>> /\ reporting = {"voice"}
  \/ requests = <<Fetch>> /\ reporting = Topics
  \/ requests = <<>> /\ reporting = Topics

ChannelReply(e) == e.about = "channel" /\ e.resolves
NoReply(sent) == \A i \in DOMAIN sent : ~ChannelReply(sent[i])

\* No initial request is left.
Served(written) ==
  \A i \in DOMAIN written : written[i].cmd \notin {"SUBSCRIBE", "GET_SELECTED_VOICE_CHANNEL"}

Unconnected == {"none", "login", "DISCONNECTED", "LATE"}

\* The connection: nothing is under way unless it is up, the initial requests
\* come first, and the reply to the last of them is the end of the wait.
LoginInv ==
  /\ rpcState \in Unconnected => reporting = {} /\ requests = <<>> /\ events = <<>>
  /\ rpcState \in {"none", "login"} => resolved = {}
  /\ rpcState \in {"DISCONNECTED", "LATE"} => client < MaxClients
  /\ rpcState = "LATE" \/ (late /\ rpcState = "DISCONNECTED") => resolved = Topics
  /\ late => rpcState \in {"DISCONNECTED", "none", "login"}
  /\ rpcState = WAITING => InitialStage
  /\ rpcState = WAITING /\ requests # <<>> =>
       "channel" \notin resolved /\ NoReply(events)
  /\ rpcState = "READY" =>
       reporting = Topics /\ resolved = Topics /\ Served(requests)

Loaded(c) == cache[c].voice # <<>> /\ cache[c].channel # <<>>

\* The action of b has data to read.
HoldsData(b) ==
  /\ task[b].of # 0 => Loaded(task[b].of)
  /\ holds[b] # 0 /\ ~(crashed /\ rpcState = "login" /\ holds[b] = client) => Loaded(holds[b])

\* A topic that has resolved has its data.
LoadInv ==
  /\ "voice" \in resolved => cache[client].voice # <<>>
  /\ "channel" \in resolved => cache[client].channel # <<>>
  /\ \A b \in Buttons : HoldsData(b)

\* All initial requests have been served.
Fetched == rpcState = "READY" \/ (rpcState = WAITING /\ requests = <<>>)

FollowInv ==
  /\ "voice" \in reporting => Follows(events, "voice", cache[client].voice, voice)
  /\ Fetched => Follows(events, "channel", cache[client].channel, channel)

Posting(b, c) == task[b].at = "posted" /\ task[b].of = c

\* READY has been reported to the actions, and may have been reported of client.
Attached == rpcState \in {"READY", "LATE"} \/ (rpcState = "DISCONNECTED" /\ ~late)

\* The subscriptions at a client are those made since it became READY.
SubsInv ==
  \A b \in Buttons :
    /\ \A c \in 1 .. MaxClients :
         /\ subs[c][b] <= 2
         /\ c > client => subs[c][b] = 0
         /\ Posting(b, c) => subs[c][b] = 0
    /\ ~Attached => subs[client][b] = 0
    /\ action[b] = NoAction => subs[client][b] = 0 /\ task[b] = NoTask
    /\ rpcState = "READY" /\ action[b] # NoAction /\ ~Posting(b, client) =>
         subs[client][b] > 0

\* Constructors and tasks know clients that exist and that have been READY.
TaskInv ==
  \A b \in Buttons :
    /\ task[b].of <= client /\ holds[b] <= client
    /\ task[b].at = "none" <=> task[b] = NoTask
    /\ task[b].of = 0 <=> task[b] = NoTask
    /\ task[b].of = client => Attached

\* The icon that a task is about to set is right unless it is late.
ShownInv ==
  /\ ButtonsShowTheData
  /\ \A b \in Buttons :
       /\ rpcState = "READY"
       /\ task[b].at = "computed" /\ task[b].of = client /\ ~task[b].late
       => task[b].icon = DesiredOf(b, client)

IInv ==
  TypeOK /\ LoginInv /\ LoadInv /\ FollowInv /\ SubsInv /\ TaskInv /\ ShownInv

-----------------------------------------------------------------------------
(* Queues. *)

LEMMA Joining ==
  ASSUME NEW S, NEW s \in Seq(S), NEW x \in S
  PROVE  /\ s \o <<x>> = Append(s, x)
         /\ s \o <<>> = s
         /\ Append(s, x) \in Seq(S)
OBVIOUS

\* What is appended comes last, and what was there keeps its place.
LEMMA Appending ==
  ASSUME NEW S, NEW s \in Seq(S), NEW x \in S
  PROVE  /\ DOMAIN Append(s, x) = 1 .. Len(s) + 1
         /\ DOMAIN s = 1 .. Len(s) /\ Len(s) \in Nat
         /\ \A i \in DOMAIN s : Append(s, x)[i] = s[i]
         /\ Append(s, x)[Len(s) + 1] = x
OBVIOUS

\* Receiving the first leaves the others in their order.
LEMMA Receiving ==
  ASSUME NEW S, NEW s \in Seq(S), s # <<>>
  PROVE  /\ Head(s) \in S /\ Head(s) = s[1]
         /\ Tail(s) \in Seq(S)
         /\ Len(s) \in Nat \ {0} /\ DOMAIN s = 1 .. Len(s)
         /\ DOMAIN Tail(s) = 1 .. Len(s) - 1
         /\ \A i \in 1 .. Len(s) - 1 : Tail(s)[i] = s[i + 1]
BY EmptySeq, LenProperties, HeadTailProperties

-----------------------------------------------------------------------------
(* Types. *)

\* An empty publisher and one with a value.
LEMMA PubSubType ==
  ASSUME NEW Values
  PROVE  /\ <<>> \in PubSub(Values)
         /\ \A x \in Values : <<x>> \in PubSub(Values)
         /\ \A p \in PubSub(Values) : p # <<>> => Head(p) \in Values /\ p = <<Head(p)>>
BY DEF PubSub

\* An action is a toggle of one of the settings or about the channel.
LEMMA ActionFacts ==
  ASSUME NEW a \in ActionClasses
  PROVE  /\ a.sets \in {"mute", "deaf", "ptt", "channel"}
         /\ a.to \in {"on", "off", "opposite"}
         /\ a.sets = "channel" <=> a \in {JoinVoiceChannelAction, HangupAction}
         /\ a.to = "opposite" => a.lit = TRUE /\ a # HangupAction
         /\ a # NoAction
BY DEF ActionClasses, VoiceActionClasses, SelfMuteToggleAction, SelfMuteOffAction,
  SelfMuteOnAction, DeafenToggleAction, DeafenOffAction, DeafenOnAction, PTTToggleAction,
  PTTOffAction, PTTOnAction, JoinVoiceChannelAction, HangupAction, NoAction

\* The state of a key is one of two, and depends on the data it is about only.
LEMMA DesiredType ==
  ASSUME NEW a, NEW d, NEW id
  PROVE  DesiredState(a, d, id) \in 0 .. 1
BY DEF DesiredState

LEMMA DesiredDepends ==
  ASSUME NEW a, NEW d, NEW e, NEW id,
         IF a.sets = "channel" THEN d.channel = e.channel ELSE d.voice = e.voice
  PROVE  DesiredState(a, d, id) = DesiredState(a, e, id)
<1>1. CASE a.sets = "channel"
  BY <1>1 DEF DesiredState
<1>2. CASE a.sets # "channel"
  BY <1>2 DEF DesiredState, IsOn
<1>3. QED
  BY <1>1, <1>2

\* What SetState does to one key.
LEMMA SetStateOf ==
  ASSUME NEW S, NEW of, SetState(S, of), NEW b \in Buttons
  PROVE  /\ b \in S => shown'[b] = DesiredState(action[b], cache'[of[b]], mChannelId'[b])
         /\ b \notin S => shown'[b] = shown[b]
         /\ behind'[b] = IF b \in S THEN of[b] # client
                         ELSE behind[b] \/ mChannelId'[b] # mChannelId[b]
         /\ task'[b] = IF task[b].at = "computed"
                            /\ (b \in S \/ mChannelId'[b] # mChannelId[b])
                         THEN [task[b] EXCEPT !.late = TRUE] ELSE task[b]
BY DEF SetState

LEMMA SetStateType ==
  ASSUME NEW S, NEW of, SetState(S, of), TypeOK
  PROVE  /\ shown' \in [Buttons -> 0 .. 1]
         /\ behind' \in [Buttons -> BOOLEAN]
         /\ task' \in [Buttons -> Tasks]
<1>1. shown' \in [Buttons -> 0 .. 1]
  <2>1. \A b \in Buttons :
          (IF b \in S THEN DesiredState(action[b], cache'[of[b]], mChannelId'[b])
                      ELSE shown[b]) \in 0 .. 1
    BY DesiredType DEF TypeOK
  <2>2. QED
    BY <2>1 DEF SetState
<1>2. behind' \in [Buttons -> BOOLEAN]
  <2>1. \A b \in Buttons : behind[b] \in BOOLEAN
    BY DEF TypeOK
  <2>2. QED
    BY <2>1 DEF SetState
<1>3. task' \in [Buttons -> Tasks]
  <2>1. \A b \in Buttons : task[b] \in Tasks /\ [task[b] EXCEPT !.late = TRUE] \in Tasks
    BY DEF TypeOK, Tasks
  <2>2. QED
    BY <2>1 DEF SetState
<1>4. QED
  BY <1>1, <1>2, <1>3

\* What Discord dispatches is an event, and the settings stay settings.
LEMMA EventType ==
  ASSUME NEW r \in BOOLEAN
  PROVE  /\ \A v \in Voice : [about |-> "voice", data |-> v, resolves |-> r] \in EventTypes
         /\ \A c \in Selections :
              [about |-> "channel", data |-> c, resolves |-> r] \in EventTypes
BY DEF EventTypes

LEMMA EventFacts ==
  ASSUME NEW e \in EventTypes
  PROVE  /\ e.about \in Topics /\ e.resolves \in BOOLEAN
         /\ e.about = "voice" => e.data \in Voice
         /\ e.about = "channel" => e.data \in Selections
BY DEF EventTypes, Topics

LEMMA VoiceType ==
  ASSUME NEW v \in Voice
  PROVE  /\ \A s \in DOMAIN v : [v EXCEPT ![s] = ~@] \in Voice
         /\ \A s \in {"deaf", "mute", "ptt"}, on \in BOOLEAN : [v EXCEPT ![s] = on] \in Voice
         /\ [v EXCEPT !.mute = FALSE, !.deaf = FALSE] \in Voice
BY DEF Voice

LEMMA SetVoiceType ==
  ASSUME voice \in Voice, NEW what \in {"deaf", "mute", "ptt"}, NEW on \in BOOLEAN
  PROVE  SetVoice(what, on) \in Voice
BY VoiceType DEF SetVoice

\* The events of a change join those under way.
Told(v) == IF v # voice /\ "voice" \in reporting
  THEN <<[about |-> "voice", data |-> v, resolves |-> TRUE]>> ELSE <<>>
ToldChannel(chan) == IF chan # channel /\ "channel" \in reporting
  THEN <<[about |-> "channel", data |-> chan, resolves |-> FALSE]>> ELSE <<>>

LEMMA AtMostOne ==
  ASSUME NEW s \in Seq(EventTypes), NEW x \in EventTypes, NEW extra \in {<<>>, <<x>>}
  PROVE  s \o extra \in Seq(EventTypes)
<1>1. s \o <<x>> \in Seq(EventTypes) /\ s \o <<>> \in Seq(EventTypes)
  BY Joining
<1>2. QED
  BY <1>1

LEMMA ChangesType ==
  ASSUME TypeOK, NEW v \in Voice, NEW chan \in Selections,
         NEW x \in EventTypes, NEW extra \in {<<>>, <<x>>}, Changes(v, chan, extra)
  PROVE  voice' \in Voice /\ channel' \in Selections /\ events' \in Seq(EventTypes)
<1> DEFINE V == [about |-> "voice", data |-> v, resolves |-> TRUE]
           K == [about |-> "channel", data |-> chan, resolves |-> FALSE]
<1>1. V \in EventTypes /\ K \in EventTypes
  BY EventType
<1>2. Told(v) \in {<<>>, <<V>>} /\ ToldChannel(chan) \in {<<>>, <<K>>}
  BY DEF Told, ToldChannel
<1>3. events \in Seq(EventTypes)
  BY DEF TypeOK
<1>4. events \o extra \in Seq(EventTypes)
  BY <1>3, AtMostOne
<1>5. events \o extra \o Told(v) \in Seq(EventTypes)
  BY <1>1, <1>2, <1>4, AtMostOne
<1>6. events \o extra \o Told(v) \o ToldChannel(chan) \in Seq(EventTypes)
  BY <1>1, <1>2, <1>5, AtMostOne
<1>7. QED
  BY <1>6 DEF Changes, Told, ToldChannel

\* What Discord serves is of a kind it knows.
LEMMA RequestFacts ==
  ASSUME NEW r \in RequestTypes
  PROVE  /\ r.cmd = "SUBSCRIBE" => r.to \in Topics
         /\ r.cmd = "SELECT_VOICE_CHANNEL" => r.to \in Selections
         /\ r.cmd \in {"SUBSCRIBE", "GET_SELECTED_VOICE_CHANNEL", "SELECT_VOICE_CHANNEL",
                       "mute", "deaf", "ptt"}
BY DEF RequestTypes

LEMMA ServeType ==
  ASSUME TypeOK, NEW r \in RequestTypes, Serve(r)
  PROVE  /\ voice' \in Voice /\ channel' \in Selections
         /\ events' \in Seq(EventTypes) /\ reporting' \subseteq Topics
<1> USE DEF Topics
<1> DEFINE V == [about |-> "voice", data |-> voice, resolves |-> TRUE]
           K == [about |-> "channel", data |-> channel, resolves |-> TRUE]
<1>1. voice \in Voice /\ channel \in Selections /\ reporting \subseteq Topics
  BY DEF TypeOK
<1>2. V \in EventTypes /\ K \in EventTypes
  BY <1>1, EventType
<1>3. CASE r.cmd = "SUBSCRIBE" /\ reporting' = reporting \cup {r.to}
           /\ Changes(voice, channel, IF r.to = "voice" THEN <<V>> ELSE <<>>)
  <2>1. (IF r.to = "voice" THEN <<V>> ELSE <<>>) \in {<<>>, <<V>>}
    OBVIOUS
  <2>2. voice' \in Voice /\ channel' \in Selections /\ events' \in Seq(EventTypes)
    BY <1>1, <1>2, <1>3, <2>1, ChangesType
  <2>3. QED
    BY <1>1, <1>3, <2>2, RequestFacts
<1>4. CASE Changes(voice, channel, <<K>>) /\ UNCHANGED reporting
  BY <1>1, <1>2, <1>4, ChangesType
<1>5. CASE r.cmd = "SELECT_VOICE_CHANNEL" /\ Changes(voice, r.to, <<>>) /\ UNCHANGED reporting
  BY <1>1, <1>2, <1>5, ChangesType, RequestFacts
<1>6. CASE r.cmd \in {"mute", "deaf", "ptt"}
           /\ Changes(SetVoice(r.cmd, r.to = "on"), channel, <<>>) /\ UNCHANGED reporting
  <2>1. SetVoice(r.cmd, r.to = "on") \in Voice
    BY <1>1, <1>6, SetVoiceType
  <2>2. QED
    BY <1>1, <1>2, <1>6, <2>1, ChangesType
<1>7. QED
  BY <1>3, <1>4, <1>5, <1>6 DEF Serve

\* Data of an event is published under its topic.
LEMMA CacheType ==
  ASSUME TypeOK, NEW e \in EventTypes
  PROVE  [cache EXCEPT ![client][e.about] = <<e.data>>] \in [1 .. MaxClients -> ClientData]
<1>1. client \in 1 .. MaxClients /\ cache \in [1 .. MaxClients -> ClientData]
  BY DEF TypeOK
<1>2. cache[client] \in ClientData
  BY <1>1
<1>3. [cache[client] EXCEPT ![e.about] = <<e.data>>] \in ClientData
  <2>1. CASE e.about = "voice"
    BY <1>2, <2>1, EventFacts, PubSubType DEF ClientData
  <2>2. CASE e.about = "channel"
    BY <1>2, <2>2, EventFacts, PubSubType DEF ClientData
  <2>3. QED
    BY <2>1, <2>2, EventFacts DEF Topics
<1>4. QED
  BY <1>1, <1>3

\* The request of a press.
LEMMA RequestType ==
  ASSUME NEW a \in ActionClasses, NEW c, NEW id \in Selections
  PROVE  Request(a, c, id) \in RequestTypes
<1>1. CASE a.sets = "channel"
  BY <1>1 DEF Request, RequestTypes, Selections
<1>2. CASE a.sets # "channel"
  <2>1. a.sets \in {"mute", "deaf", "ptt"}
    BY <1>2, ActionFacts
  <2>2. (IF a.to # "opposite" THEN a.to
         ELSE IF IsOn(a.sets, Head(cache[c].voice)) THEN "off" ELSE "on") \in {"on", "off"}
    BY ActionFacts
  <2>3. QED
    BY <1>2, <2>1, <2>2 DEF Request, RequestTypes
<1>3. QED
  BY <1>1, <1>2

LEMMA TaskType ==
  /\ NoTask \in Tasks
  /\ \A c \in 0 .. MaxClients : [NoTask EXCEPT !.at = "posted", !.of = c] \in Tasks
  /\ \A t \in Tasks, i \in 0 .. 1 : [t EXCEPT !.at = "computed", !.icon = i] \in Tasks
<1>1. NoTask \in Tasks
  BY BoundsAssumption DEF NoTask, Tasks
<1>2. QED
  BY <1>1 DEF Tasks

\* Frames: an action leaves alone what it does not name.
USE DEF discord, plugin, keys, icons, vars

LEMMA AttachType ==
  ASSUME TypeOK, Attach
  PROVE  /\ holds' \in [Buttons -> 0 .. MaxClients]
         /\ subs' \in [1 .. MaxClients -> [Buttons -> Nat]]
         /\ shown' \in [Buttons -> 0 .. 1] /\ behind' \in [Buttons -> BOOLEAN]
         /\ task' \in [Buttons -> Tasks]
<1>1. client \in 1 .. MaxClients /\ holds \in [Buttons -> 0 .. MaxClients]
      /\ subs \in [1 .. MaxClients -> [Buttons -> Nat]] /\ MaxClients \in Nat
  BY BoundsAssumption DEF TypeOK
<1>2. holds' \in [Buttons -> 0 .. MaxClients]
  BY <1>1 DEF Attach
<1>3. subs' \in [1 .. MaxClients -> [Buttons -> Nat]]
  <2>1. subs' = [subs EXCEPT ![client] =
                  [b \in Buttons |-> IF b \in Placed THEN @[b] + 2 ELSE @[b]]]
    BY DEF Attach
  <2>2. subs[client] \in [Buttons -> Nat]
    BY <1>1
  <2>3. [b \in Buttons |-> IF b \in Placed THEN subs[client][b] + 2 ELSE subs[client][b]]
          \in [Buttons -> Nat]
    BY <2>2
  <2>4. QED
    BY <1>1, <2>1, <2>3
<1>4. shown' \in [Buttons -> 0 .. 1] /\ behind' \in [Buttons -> BOOLEAN]
      /\ task' \in [Buttons -> Tasks]
  BY SetStateType DEF Attach
<1>5. QED
  BY <1>2, <1>3, <1>4

LEMMA TypeInit == Init => TypeOK
<1> SUFFICES ASSUME Init PROVE TypeOK
  OBVIOUS
<1>1. voice \in Voice /\ channel \in Selections
  BY FirstVoiceAssumption DEF Init
<1>2. reporting \subseteq Topics /\ resolved \subseteq Topics
  BY DEF Init
<1>3. requests \in Seq(RequestTypes) /\ events \in Seq(EventTypes)
  BY DEF Init
<1>4. client \in 1 .. MaxClients /\ changes \in 0 .. MaxChanges
  BY BoundsAssumption DEF Init
<1>5. cache \in [1 .. MaxClients -> ClientData]
  BY PubSubType DEF Init, ClientData, NoData
<1>6. task \in [Buttons -> Tasks]
  BY TaskType DEF Init
<1>7. /\ action \in [Buttons -> ActionClasses \cup {NoAction}]
      /\ holds \in [Buttons -> 0 .. MaxClients]
      /\ subs \in [1 .. MaxClients -> [Buttons -> Nat]]
      /\ mChannelId \in [Buttons -> Selections]
      /\ configured \in [Buttons -> Selections]
      /\ shown \in [Buttons -> 0 .. 1]
  BY BoundsAssumption DEF Init, Selections
<1>8. behind \in [Buttons -> BOOLEAN]
  BY DEF Init
<1>9. rpcState = "login" /\ late \in BOOLEAN /\ crashed \in BOOLEAN
  BY DEF Init
<1>10. QED
  BY <1>1, <1>2, <1>3, <1>4, <1>5, <1>6, <1>7, <1>8, <1>9 DEF TypeOK

LEMMA TypeStep ==
  ASSUME TypeOK, LoginInv, [Next]_vars
  PROVE  TypeOK'
<1>1. CASE DiscordChanges
  <2>1. changes' \in 0 .. MaxChanges
    <3>1. changes \in Nat /\ changes < MaxChanges /\ changes' = changes + 1
      BY <1>1 DEF TypeOK, DiscordChanges
    <3>2. QED
      BY <3>1, BoundsAssumption
  <2>2. voice \in Voice /\ channel \in Selections
    BY DEF TypeOK
  <2>3. \E x : x \in EventTypes
    BY <2>2, EventType
  <2>4. voice' \in Voice /\ channel' \in Selections /\ events' \in Seq(EventTypes)
    <3>1. CASE \E f \in DOMAIN voice : Changes([voice EXCEPT ![f] = ~@], channel, <<>>)
      <4>1. PICK f \in DOMAIN voice : Changes([voice EXCEPT ![f] = ~@], channel, <<>>)
        BY <3>1
      <4>2. [voice EXCEPT ![f] = ~@] \in Voice
        BY <2>2, VoiceType
      <4>3. QED
        BY <4>1, <4>2, <2>2, <2>3, ChangesType
    <3>2. CASE \E c \in Selections : c # channel /\ Changes(voice, c, <<>>)
      BY <3>2, <2>2, <2>3, ChangesType
    <3>3. QED
      BY <1>1, <3>1, <3>2 DEF DiscordChanges
  <2>5. QED
    BY <1>1, <2>1, <2>4 DEF TypeOK, DiscordChanges
<1>2. CASE DiscordServes
  <2>1. requests \in Seq(RequestTypes) /\ requests # <<>>
    BY <1>2 DEF TypeOK, DiscordServes
  <2>2. Head(requests) \in RequestTypes /\ Tail(requests) \in Seq(RequestTypes)
    BY <2>1, Receiving
  <2>3. /\ voice' \in Voice /\ channel' \in Selections
        /\ events' \in Seq(EventTypes) /\ reporting' \subseteq Topics
    BY <1>2, <2>2, ServeType DEF DiscordServes
  <2>4. QED
    BY <1>2, <2>2, <2>3 DEF TypeOK, DiscordServes
<1>3. CASE LoseConnection
  <2>1. late' \in BOOLEAN
    BY <1>3, Zenon DEF LoseConnection
  <2>2. QED
    BY <1>3, <2>1 DEF TypeOK, LoseConnection
<1>4. CASE Authenticated
  <2>1. requests \in Seq(RequestTypes) /\ InitialRequests \in Seq(RequestTypes)
    BY DEF TypeOK, InitialRequests, RequestTypes, Topics, Selections
  <2>2. requests \o InitialRequests \in Seq(RequestTypes)
    BY <2>1
  <2>3. QED
    BY <1>4, <2>2 DEF TypeOK, Authenticated
<1>5. CASE ReadMessage
  <2>1. events \in Seq(EventTypes) /\ events # <<>>
    BY <1>5 DEF TypeOK, ReadMessage
  <2>2. Head(events) \in EventTypes /\ Tail(events) \in Seq(EventTypes)
    BY <2>1, Receiving
  <2>3. cache' \in [1 .. MaxClients -> ClientData]
    BY <1>5, <2>2, CacheType DEF ReadMessage, Publish
  <2>4. resolved' \subseteq Topics
    BY <1>5, <2>2, EventFacts DEF TypeOK, ReadMessage
  <2>5. shown' \in [Buttons -> 0 .. 1] /\ behind' \in [Buttons -> BOOLEAN]
        /\ task' \in [Buttons -> Tasks]
    BY <1>5, SetStateType DEF ReadMessage, Publish
  <2>6. QED
    BY <1>5, <2>2, <2>3, <2>4, <2>5 DEF TypeOK, ReadMessage
<1>6. CASE BecomeReady
  <2>1. /\ holds' \in [Buttons -> 0 .. MaxClients]
        /\ subs' \in [1 .. MaxClients -> [Buttons -> Nat]]
        /\ shown' \in [Buttons -> 0 .. 1] /\ behind' \in [Buttons -> BOOLEAN]
        /\ task' \in [Buttons -> Tasks]
    BY <1>6, AttachType DEF BecomeReady
  <2>2. QED
    BY <1>6, <2>1 DEF TypeOK, BecomeReady
<1>16. CASE LateReady
  <2>1. late' \in BOOLEAN
    BY <1>16, Zenon DEF LateReady
  <2>2. CASE rpcState' = "LATE" /\ UNCHANGED crashed /\ Attach
    <3>1. /\ holds' \in [Buttons -> 0 .. MaxClients]
          /\ subs' \in [1 .. MaxClients -> [Buttons -> Nat]]
          /\ shown' \in [Buttons -> 0 .. 1] /\ behind' \in [Buttons -> BOOLEAN]
          /\ task' \in [Buttons -> Tasks]
      BY <2>2, AttachType
    <3>2. QED
      BY <1>16, <2>1, <2>2, <3>1 DEF TypeOK, LateReady
  <2>3. CASE \E c \in {0, client} :
               /\ holds' = [b \in Buttons |-> IF b \in Placed THEN c ELSE holds[b]]
               /\ crashed' = (Placed # {}) \/ UNCHANGED crashed
               /\ UNCHANGED <<rpcState, subs, shown, behind, task>>
    <3>1. PICK c \in {0, client} :
            /\ holds' = [b \in Buttons |-> IF b \in Placed THEN c ELSE holds[b]]
            /\ crashed' = (Placed # {}) \/ UNCHANGED crashed
            /\ UNCHANGED <<rpcState, subs, shown, behind, task>>
      BY <2>3
    <3>2. c \in 0 .. MaxClients
      BY BoundsAssumption DEF TypeOK
    <3>3. holds' \in [Buttons -> 0 .. MaxClients]
      BY <3>1, <3>2 DEF TypeOK
    <3>4. crashed' \in BOOLEAN
      BY <3>1, Zenon DEF TypeOK
    <3>5. QED
      BY <1>16, <2>1, <3>1, <3>3, <3>4 DEF TypeOK, LateReady
  <2>4. QED
    BY <1>16, <2>2, <2>3 DEF LateReady
<1>7. CASE ResetClient
  <2>1. client' \in 1 .. MaxClients
    <3>1. client \in 1 .. MaxClients /\ client < MaxClients /\ client' = client + 1
      BY <1>7 DEF TypeOK, LoginInv, ResetClient
    <3>2. QED
      BY <3>1, BoundsAssumption
  <2>2. QED
    BY <1>7, <2>1 DEF TypeOK, ResetClient
<1>17. CASE ConnectToDiscord
  BY <1>17 DEF TypeOK, ConnectToDiscord
<1>8. ASSUME NEW b \in Buttons, NEW a \in Placeable[b], FirstWillAppear(b, a)
      PROVE  TypeOK'
  <2>1. a \in ActionClasses
    BY PlaceableAssumption
  <2>2. action' \in [Buttons -> ActionClasses \cup {NoAction}]
    BY <1>8, <2>1 DEF TypeOK, FirstWillAppear
  <2>3. configured' \in [Buttons -> Selections]
    <3>1. PICK id \in IF a = JoinVoiceChannelAction THEN Selections ELSE {NoChannel} :
            configured' = [configured EXCEPT ![b] = id]
      BY <1>8 DEF FirstWillAppear
    <3>2. id \in Selections /\ configured \in [Buttons -> Selections]
      BY DEF Selections, TypeOK
    <3>3. QED
      BY <3>1, <3>2
  <2>4. Posted \in Tasks
    <3>1. client \in 0 .. MaxClients
      BY DEF TypeOK
    <3>2. QED
      BY <3>1, TaskType DEF Posted
  <2>5. task' \in [Buttons -> Tasks]
    BY <1>8, <2>4 DEF TypeOK, FirstWillAppear
  <2>6. QED
    BY <1>8, <2>2, <2>3, <2>5 DEF TypeOK, FirstWillAppear
<1>9. ASSUME NEW b \in Buttons, NEW id \in Channels, DidReceiveSettings(b, id)
      PROVE  TypeOK'
  <2>1. configured' \in [Buttons -> Selections] /\ mChannelId' \in [Buttons -> Selections]
    BY <1>9 DEF TypeOK, DidReceiveSettings, Selections
  <2>2. shown' \in [Buttons -> 0 .. 1] /\ behind' \in [Buttons -> BOOLEAN]
        /\ task' \in [Buttons -> Tasks]
    BY <1>9, SetStateType DEF DidReceiveSettings
  <2>3. QED
    BY <1>9, <2>1, <2>2 DEF TypeOK, DidReceiveSettings
<1>10. ASSUME NEW b \in Buttons, WillAppear(b)
       PROVE  TypeOK'
  <2>1. shown' \in [Buttons -> 0 .. 1] /\ behind' \in [Buttons -> BOOLEAN]
        /\ task' \in [Buttons -> Tasks]
    BY <1>10, SetStateType DEF WillAppear
  <2>2. QED
    BY <1>10, <2>1 DEF TypeOK, WillAppear
<1>11. ASSUME NEW b \in Buttons, TaskAttaches(b)
       PROVE  TypeOK'
  <2>1. task[b] \in Tasks /\ task[b].of \in 0 .. MaxClients
    BY DEF TypeOK, Tasks
  <2>2. holds' \in [Buttons -> 0 .. MaxClients]
    BY <1>11, <2>1 DEF TypeOK, TaskAttaches
  <2>3. subs' \in [1 .. MaxClients -> [Buttons -> Nat]]
    <3>1. subs \in [1 .. MaxClients -> [Buttons -> Nat]]
      BY DEF TypeOK
    <3>2. CASE task[b].of \in 1 .. MaxClients
      <4>1. subs[task[b].of] \in [Buttons -> Nat]
        BY <3>1, <3>2
      <4>2. [subs[task[b].of] EXCEPT ![b] = @ + 1] \in [Buttons -> Nat]
        BY <4>1
      <4>3. QED
        BY <1>11, <3>1, <4>2 DEF TaskAttaches
    <3>3. CASE task[b].of \notin 1 .. MaxClients
      BY <1>11, <3>1, <3>3 DEF TaskAttaches
    <3>4. QED
      BY <3>2, <3>3
  <2>4. DesiredOf(b, task[b].of) \in 0 .. 1
    BY DesiredType DEF DesiredOf
  <2>5. [task[b] EXCEPT !.at = "computed", !.icon = DesiredOf(b, task[b].of)] \in Tasks
    BY <2>1, <2>4, TaskType
  <2>6. task' \in [Buttons -> Tasks]
    BY <1>11, <2>5 DEF TypeOK, TaskAttaches
  <2>7. QED
    BY <1>11, <2>2, <2>3, <2>6 DEF TypeOK, TaskAttaches
<1>12. ASSUME NEW b \in Buttons, TaskShows(b)
       PROVE  TypeOK'
  <2>1. task[b].icon \in 0 .. 1 /\ task[b].late \in BOOLEAN
    BY DEF TypeOK, Tasks
  <2>2. shown' \in [Buttons -> 0 .. 1] /\ task' \in [Buttons -> Tasks]
    BY <1>12, <2>1, TaskType DEF TypeOK, TaskShows
  <2>3. behind' \in [Buttons -> BOOLEAN]
    BY <1>12, <2>1 DEF TypeOK, TaskShows
  <2>4. QED
    BY <1>12, <2>2, <2>3 DEF TypeOK, TaskShows
<1>13. ASSUME NEW b \in Buttons, KeyUp(b)
       PROVE  TypeOK'
  <2>1. changes' \in 0 .. MaxChanges
    <3>1. changes \in Nat /\ changes < MaxChanges /\ changes' = changes + 1
      BY <1>13 DEF TypeOK, KeyUp
    <3>2. QED
      BY <3>1, BoundsAssumption
  <2>2. action[b] \in ActionClasses /\ configured[b] \in Selections
    BY <1>13 DEF TypeOK, KeyUp
  <2>3. Request(action[b], client, configured[b]) \in RequestTypes
    BY <2>2, RequestType
  <2>4. requests' \in Seq(RequestTypes)
    BY <1>13, <2>3 DEF TypeOK, KeyUp
  <2>5. mChannelId' \in [Buttons -> Selections]
    BY <1>13, <2>2 DEF TypeOK, KeyUp
  <2>6. shown' \in [Buttons -> 0 .. 1] /\ behind' \in [Buttons -> BOOLEAN]
        /\ task' \in [Buttons -> Tasks]
    BY <1>13, SetStateType DEF KeyUp
  <2>7. QED
    BY <1>13, <2>1, <2>4, <2>5, <2>6 DEF TypeOK, KeyUp
<1>14. CASE UNCHANGED vars
  BY <1>14 DEF TypeOK
<1>15. QED
  BY <1>1, <1>2, <1>3, <1>4, <1>5, <1>6, <1>7, <1>8, <1>9, <1>10, <1>11, <1>12, <1>13, <1>14,
     <1>16, <1>17 DEF Next, Client, Task, Key

-----------------------------------------------------------------------------
(* The connection. *)

\* An event that is no reply to the fetch does not make one.
LEMMA NoReplyJoins ==
  ASSUME NEW s \in Seq(EventTypes), NEW x \in EventTypes, ~ChannelReply(x),
         NEW extra \in {<<>>, <<x>>}, NoReply(s)
  PROVE  NoReply(s \o extra)
<1>1. NoReply(Append(s, x))
  BY Appending DEF NoReply
<1>2. s \o <<>> = s /\ s \o <<x>> = Append(s, x)
  BY Joining
<1>3. QED
  BY <1>1, <1>2

LEMMA NoReplyReads ==
  ASSUME NEW s \in Seq(EventTypes), s # <<>>, NoReply(s)
  PROVE  NoReply(Tail(s)) /\ ~ChannelReply(Head(s))
BY Receiving DEF NoReply

LEMMA ChangesNoReply ==
  ASSUME events \in Seq(EventTypes), NEW v \in Voice, NEW chan \in Selections,
         NEW x \in EventTypes, NEW extra \in {<<>>, <<x>>}, ~ChannelReply(x),
         Changes(v, chan, extra), NoReply(events)
  PROVE  NoReply(events')
<1> DEFINE V == [about |-> "voice", data |-> v, resolves |-> TRUE]
           K == [about |-> "channel", data |-> chan, resolves |-> FALSE]
<1>1. V \in EventTypes /\ K \in EventTypes /\ ~ChannelReply(V) /\ ~ChannelReply(K)
  BY EventType DEF ChannelReply
<1>2. Told(v) \in {<<>>, <<V>>} /\ ToldChannel(chan) \in {<<>>, <<K>>}
  BY DEF Told, ToldChannel
<1>3. events \o extra \in Seq(EventTypes) /\ NoReply(events \o extra)
  BY AtMostOne, NoReplyJoins
<1>4. events \o extra \o Told(v) \in Seq(EventTypes) /\ NoReply(events \o extra \o Told(v))
  BY <1>1, <1>2, <1>3, AtMostOne, NoReplyJoins
<1>5. NoReply(events \o extra \o Told(v) \o ToldChannel(chan))
  BY <1>1, <1>2, <1>4, NoReplyJoins
<1>6. QED
  BY <1>5 DEF Changes, Told, ToldChannel

\* A press is no initial request.
LEMMA ServedAppends ==
  ASSUME NEW s \in Seq(RequestTypes), NEW r \in RequestTypes, Served(s),
         r.cmd \notin {"SUBSCRIBE", "GET_SELECTED_VOICE_CHANNEL"}
  PROVE  Served(Append(s, r))
BY Appending DEF Served

LEMMA ServedHead ==
  ASSUME NEW s \in Seq(RequestTypes), s # <<>>, Served(s)
  PROVE  /\ Served(Tail(s))
         /\ Head(s).cmd \notin {"SUBSCRIBE", "GET_SELECTED_VOICE_CHANNEL"}
BY Receiving DEF Served

LEMMA PressIsNoInitialRequest ==
  ASSUME NEW a \in ActionClasses, NEW c, NEW id
  PROVE  Request(a, c, id).cmd \notin {"SUBSCRIBE", "GET_SELECTED_VOICE_CHANNEL"}
BY ActionFacts DEF Request

\* Discord serves the initial requests one after the other.
LEMMA StageServed ==
  ASSUME InitialStage, requests # <<>>, requests' = Tail(requests), Serve(Head(requests))
  PROVE  /\ InitialStage'
         /\ Head(requests) = Fetch <=> requests' = <<>>
         /\ Head(requests) \in {Subscribe("voice"), Subscribe("channel"), Fetch}
         /\ Head(requests) = Subscribe("voice") => reporting = {}
<1> USE DEF Topics, Subscribe, Fetch, Serve
<1>1. CASE requests = <<Subscribe("voice"), Subscribe("channel"), Fetch>> /\ reporting = {}
  <2>1. Head(requests) = Subscribe("voice") /\ Tail(requests) = <<Subscribe("channel"), Fetch>>
    BY <1>1
  <2>2. reporting' = {"voice"}
    BY <1>1, <2>1
  <2>3. QED
    BY <1>1, <2>1, <2>2 DEF InitialStage
<1>2. CASE requests = <<Subscribe("channel"), Fetch>> /\ reporting = {"voice"}
  <2>1. Head(requests) = Subscribe("channel") /\ Tail(requests) = <<Fetch>>
    BY <1>2
  <2>2. reporting' = Topics
    BY <1>2, <2>1
  <2>3. QED
    BY <1>2, <2>1, <2>2 DEF InitialStage
<1>3. CASE requests = <<Fetch>> /\ reporting = Topics
  <2>1. Head(requests) = Fetch /\ Tail(requests) = <<>>
    BY <1>3
  <2>2. reporting' = Topics
    BY <1>3, <2>1
  <2>3. QED
    BY <1>3, <2>1, <2>2 DEF InitialStage
<1>4. QED
  BY <1>1, <1>2, <1>3 DEF InitialStage

\* Nothing is dispatched on a connection that nothing is reported on.
LEMMA ChangesSilent ==
  ASSUME NEW v, NEW chan, Changes(v, chan, <<>>), reporting = {}, events = <<>>
  PROVE  events' = <<>>
<1>1. events' = events \o <<>> \o Told(v) \o ToldChannel(chan)
  BY DEF Changes, Told, ToldChannel
<1>2. Told(v) = <<>> /\ ToldChannel(chan) = <<>>
  BY DEF Told, ToldChannel
<1>3. <<>> \o <<>> = <<>>
  OBVIOUS
<1>4. QED
  BY <1>1, <1>2, <1>3

\* The changes that Discord makes by itself.
LEMMA DiscordChangesOnce ==
  ASSUME TypeOK, DiscordChanges
  PROVE  \E v \in Voice, chan \in Selections : Changes(v, chan, <<>>)
<1>1. voice \in Voice /\ channel \in Selections
  BY DEF TypeOK
<1>2. CASE \E f \in DOMAIN voice : Changes([voice EXCEPT ![f] = ~@], channel, <<>>)
  <2>1. PICK f \in DOMAIN voice : Changes([voice EXCEPT ![f] = ~@], channel, <<>>)
    BY <1>2
  <2>2. [voice EXCEPT ![f] = ~@] \in Voice
    BY <1>1, VoiceType
  <2>3. QED
    BY <2>1, <2>2, <1>1
<1>3. CASE \E c \in Selections : c # channel /\ Changes(voice, c, <<>>)
  BY <1>1, <1>3
<1>4. QED
  BY <1>2, <1>3 DEF DiscordChanges

LEMMA LoginInit == Init => LoginInv
BY DEF Init, LoginInv, WAITING, Unconnected

LEMMA LoginStep ==
  ASSUME TypeOK, LoginInv, [Next]_vars
  PROVE  LoginInv'
<1> USE DEF WAITING, Unconnected
<1>0. /\ events \in Seq(EventTypes) /\ requests \in Seq(RequestTypes)
      /\ resolved \subseteq Topics /\ voice \in Voice /\ channel \in Selections
      /\ client \in 1 .. MaxClients
      /\ rpcState \in {"none", "login", WAITING, "READY", "DISCONNECTED", "LATE"}
  BY DEF TypeOK
<1>1. CASE DiscordChanges
  <2>1. UNCHANGED <<reporting, requests, client, rpcState, late, resolved, cache>>
    BY <1>1 DEF DiscordChanges
  <2>2. PICK v \in Voice, chan \in Selections : Changes(v, chan, <<>>)
    BY <1>1, DiscordChangesOnce
  <2>3. rpcState \in Unconnected => events' = <<>>
    BY <2>2, ChangesSilent DEF LoginInv
  <2>4. NoReply(events) => NoReply(events')
    <3>1. [about |-> "voice", data |-> voice, resolves |-> TRUE] \in EventTypes
      BY <1>0, EventType
    <3>2. QED
      BY <1>0, <2>2, <3>1, ChangesNoReply DEF ChannelReply
  <2>5. InitialStage => InitialStage'
    BY <2>1 DEF InitialStage
  <2>6. QED
    BY <2>1, <2>3, <2>4, <2>5 DEF LoginInv
<1>2. CASE DiscordServes
  <2> DEFINE r == Head(requests)
  <2>1. /\ requests # <<>> /\ requests' = Tail(requests) /\ Serve(r)
        /\ UNCHANGED <<client, rpcState, late, resolved, cache>>
    BY <1>2 DEF DiscordServes
  <2>2. rpcState \in {WAITING, "READY"}
    BY <1>0, <2>1 DEF LoginInv
  <2>3. CASE rpcState = WAITING
    <3>1. InitialStage
      BY <2>3 DEF LoginInv
    <3>2. /\ InitialStage'
          /\ r = Fetch <=> requests' = <<>>
          /\ r \in {Subscribe("voice"), Subscribe("channel"), Fetch}
      BY <2>1, <3>1, StageServed
    <3>3. requests' # <<>> => "channel" \notin resolved /\ NoReply(events')
      <4>1. SUFFICES ASSUME requests' # <<>>
                     PROVE  "channel" \notin resolved /\ NoReply(events')
        OBVIOUS
      <4>2. "channel" \notin resolved /\ NoReply(events)
        BY <2>1, <2>3 DEF LoginInv
      <4>3. r.cmd = "SUBSCRIBE"
        BY <3>2, <4>1 DEF Subscribe
      <4> DEFINE V == [about |-> "voice", data |-> voice, resolves |-> TRUE]
                 extra == IF r.to = "voice" THEN <<V>> ELSE <<>>
      <4>4. Changes(voice, channel, extra)
        BY <2>1, <4>3 DEF Serve
      <4>5. V \in EventTypes /\ ~ChannelReply(V) /\ extra \in {<<>>, <<V>>}
        BY <1>0, EventType DEF ChannelReply
      <4>6. NoReply(events')
        BY <1>0, <4>2, <4>4, <4>5, ChangesNoReply
      <4>7. QED
        BY <4>2, <4>6
    <3>4. QED
      BY <2>1, <2>3, <3>2, <3>3 DEF LoginInv
  <2>4. CASE rpcState = "READY"
    <3>1. Served(Tail(requests)) /\ r.cmd \notin {"SUBSCRIBE", "GET_SELECTED_VOICE_CHANNEL"}
      BY <1>0, <2>1, <2>4, ServedHead DEF LoginInv
    <3>2. reporting' = reporting
      BY <2>1, <3>1 DEF Serve
    <3>3. QED
      BY <2>1, <2>4, <3>1, <3>2 DEF LoginInv
  <2>5. QED
    BY <2>2, <2>3, <2>4
<1>3. CASE LoseConnection
  BY <1>3 DEF LoginInv, LoseConnection, HasInitialData
<1>4. CASE Authenticated
  <2>1. rpcState = "login" /\ rpcState' = WAITING /\ requests' = requests \o InitialRequests
        /\ ~late /\ UNCHANGED <<reporting, events, client, late, resolved>>
    BY <1>4 DEF Authenticated
  <2>2. reporting = {} /\ requests = <<>> /\ events = <<>> /\ resolved = {}
    BY <2>1 DEF LoginInv
  <2>3. <<>> \o InitialRequests = InitialRequests
    BY DEF InitialRequests
  <2>4. requests' = <<Subscribe("voice"), Subscribe("channel"), Fetch>> /\ reporting' = {}
    BY <2>1, <2>2, <2>3 DEF InitialRequests, Subscribe, Fetch
  <2>5. NoReply(events') /\ "channel" \notin resolved'
    BY <2>1, <2>2 DEF NoReply
  <2>6. InitialStage'
    BY <2>4 DEF InitialStage
  <2>7. QED
    BY <2>1, <2>5, <2>6 DEF LoginInv
<1>5. CASE ReadMessage
  <2> DEFINE e == Head(events)
  <2>1. /\ events # <<>> /\ events' = Tail(events)
        /\ resolved' = resolved \cup (IF e.resolves THEN {e.about} ELSE {})
        /\ UNCHANGED <<reporting, requests, client, rpcState, late>>
    BY <1>5 DEF ReadMessage
  <2>2. rpcState \in {WAITING, "READY"}
    BY <1>0, <2>1 DEF LoginInv
  <2>3. e \in EventTypes /\ e.about \in Topics
    BY <1>0, <2>1, Receiving, EventFacts
  <2>4. CASE rpcState = WAITING
    <3>1. InitialStage'
      BY <2>1, <2>4 DEF LoginInv, InitialStage
    <3>2. requests # <<>> => "channel" \notin resolved' /\ NoReply(events')
      <4>1. SUFFICES ASSUME requests # <<>>
                     PROVE  "channel" \notin resolved' /\ NoReply(events')
        OBVIOUS
      <4>2. "channel" \notin resolved /\ NoReply(events)
        BY <2>4, <4>1 DEF LoginInv
      <4>3. NoReply(Tail(events)) /\ ~ChannelReply(e)
        BY <1>0, <2>1, <4>2, NoReplyReads
      <4>4. QED
        BY <2>1, <4>2, <4>3 DEF ChannelReply
    <3>3. QED
      BY <2>1, <2>4, <3>1, <3>2 DEF LoginInv
  <2>5. CASE rpcState = "READY"
    BY <2>1, <2>3, <2>5 DEF LoginInv
  <2>6. QED
    BY <2>2, <2>4, <2>5
<1>6. CASE BecomeReady
  <2>1. /\ rpcState = WAITING /\ rpcState' = "READY" /\ resolved = Topics
        /\ UNCHANGED <<reporting, requests, events, client, late, resolved>>
    BY <1>6 DEF BecomeReady, HasInitialData
  <2>2. requests = <<>> /\ InitialStage
    BY <2>1 DEF LoginInv, Topics
  <2>3. reporting = Topics /\ Served(requests)
    BY <2>2 DEF InitialStage, Served
  <2>4. QED
    BY <2>1, <2>3 DEF LoginInv
<1>7. CASE ResetClient \/ ConnectToDiscord
  BY <1>7 DEF LoginInv, ResetClient, ConnectToDiscord
<1>11. CASE LateReady
  <2>1. late /\ late' = FALSE /\ UNCHANGED <<reporting, requests, events, client, resolved>>
    BY <1>11 DEF LateReady
  <2>2. \/ rpcState = "DISCONNECTED" /\ rpcState' = "LATE"
        \/ rpcState \in {"none", "login"} /\ rpcState' = rpcState
    BY <1>11 DEF LateReady
  <2>3. QED
    BY <2>1, <2>2 DEF LoginInv
<1>8. ASSUME NEW b \in Buttons, KeyUp(b)
      PROVE  LoginInv'
  <2>1. /\ rpcState \in {"READY", "LATE"} /\ action[b] # NoAction
        /\ UNCHANGED <<reporting, events, client, rpcState, late, resolved>>
    BY <1>8 DEF KeyUp
  <2>2. action[b] \in ActionClasses /\ configured[b] \in Selections
    BY <2>1 DEF TypeOK
  <2> DEFINE r == Request(action[b], client, configured[b])
  <2>3. r \in RequestTypes /\ r.cmd \notin {"SUBSCRIBE", "GET_SELECTED_VOICE_CHANNEL"}
    BY <2>2, RequestType, PressIsNoInitialRequest
  <2> HIDE DEF r
  <2>4. CASE rpcState = "LATE"
    <3>1. requests' = requests
      BY <1>8, <2>4 DEF KeyUp
    <3>2. QED
      BY <2>1, <2>4, <3>1 DEF LoginInv
  <2>5. CASE rpcState = "READY"
    <3>1. Served(requests)
      BY <2>5 DEF LoginInv
    <3>2. Served(Append(requests, r))
      BY <1>0, <2>3, <3>1, ServedAppends
    <3>3. requests' \in {requests, Append(requests, r)}
      BY <1>8 DEF KeyUp, r
    <3>4. Served(requests')
      BY <3>1, <3>2, <3>3
    <3>5. QED
      BY <2>1, <2>5, <3>4 DEF LoginInv
  <2>6. QED
    BY <2>1, <2>4, <2>5
<1>9. CASE UNCHANGED <<reporting, requests, events, client, rpcState, late, resolved>>
  BY <1>9 DEF LoginInv, InitialStage
<1>10. QED
  <2>1. ASSUME NEW b \in Buttons, \E a \in Placeable[b] : FirstWillAppear(b, a)
        PROVE  UNCHANGED <<reporting, requests, events, client, rpcState, late, resolved>>
    BY <2>1 DEF FirstWillAppear
  <2>2. ASSUME NEW b \in Buttons, \E id \in Channels : DidReceiveSettings(b, id)
        PROVE  UNCHANGED <<reporting, requests, events, client, rpcState, late, resolved>>
    BY <2>2 DEF DidReceiveSettings
  <2>3. ASSUME NEW b \in Buttons, WillAppear(b) \/ Task(b)
        PROVE  UNCHANGED <<reporting, requests, events, client, rpcState, late, resolved>>
    BY <2>3 DEF WillAppear, Task, TaskAttaches, TaskShows
  <2>4. QED
    BY <1>1, <1>2, <1>3, <1>4, <1>5, <1>6, <1>7, <1>8, <1>9, <1>11, <2>1, <2>2, <2>3
    DEF Next, Client, Key

-----------------------------------------------------------------------------
(* What a step does to the client and to one key. *)

LEMMA ClientTypes ==
  ASSUME TypeOK
  PROVE  /\ MaxClients \in Nat /\ client \in 1 .. MaxClients /\ client \in Nat \ {0}
         /\ rpcState \in {"none", "login", WAITING, "READY", "DISCONNECTED", "LATE"}
BY BoundsAssumption DEF TypeOK, WAITING

LEMMA KeyTypes ==
  ASSUME TypeOK, NEW b \in Buttons
  PROVE  /\ task[b] \in Tasks
         /\ task[b].of \in 0 .. MaxClients /\ task[b].of \in Nat
         /\ holds[b] \in 0 .. MaxClients /\ holds[b] \in Nat
         /\ \A c \in 1 .. MaxClients : subs[c][b] \in Nat
<1>1. task[b] \in Tasks /\ holds[b] \in 0 .. MaxClients
  BY DEF TypeOK
<1>2. task[b].of \in 0 .. MaxClients
  BY <1>1 DEF Tasks
<1>3. ASSUME NEW c \in 1 .. MaxClients PROVE subs[c][b] \in Nat
  <2>1. subs \in [1 .. MaxClients -> [Buttons -> Nat]]
    BY DEF TypeOK
  <2>2. QED
    BY <2>1
<1>4. QED
  BY <1>1, <1>2, <1>3, BoundsAssumption

\* A task goes on as it is, but that it may be late.
SameTask(b) ==
  /\ task'[b].at = task[b].at /\ task'[b].of = task[b].of /\ task'[b].icon = task[b].icon
  /\ task'[b] = NoTask <=> task[b] = NoTask
  /\ task[b].late => task'[b].late

LEMMA SetStateKeeps ==
  ASSUME TypeOK, NEW S, NEW of, SetState(S, of), NEW b \in Buttons
  PROVE  SameTask(b)
<1>1. task[b] \in Tasks
  BY DEF TypeOK
<1>2. CASE task'[b] = task[b]
  BY <1>2 DEF SameTask
<1>3. CASE task[b].at = "computed" /\ task'[b] = [task[b] EXCEPT !.late = TRUE]
  BY <1>1, <1>3 DEF SameTask, Tasks, NoTask
<1>4. QED
  BY <1>2, <1>3, SetStateOf

\* The client is replaced only once it has lost its connection.
LEMMA ClientMoves ==
  ASSUME [Next]_vars
  PROVE  \/ client' = client /\ rpcState' = rpcState /\ late' = late
         \/ client' = client /\ Authenticated
         \/ client' = client /\ BecomeReady
         \/ client' = client /\ LoseConnection
         \/ client' = client /\ LateReady
         \/ ResetClient
         \/ client' = client /\ ConnectToDiscord
<1>1. CASE DiscordChanges \/ DiscordServes \/ UNCHANGED vars
  BY <1>1 DEF DiscordChanges, DiscordServes
<1>2. CASE LoseConnection \/ Client
  BY <1>2 DEF Client, LoseConnection, Authenticated, ReadMessage, BecomeReady, LateReady,
    ConnectToDiscord
<1>3. ASSUME NEW b \in Buttons, Task(b) \/ Key(b)
      PROVE  UNCHANGED plugin
  BY <1>3 DEF Task, Key, FirstWillAppear, DidReceiveSettings, WillAppear, TaskAttaches,
    TaskShows, KeyUp
<1>4. QED
  BY <1>1, <1>2, <1>3 DEF Next

\* The action of a key is placed once; a key that is placed may post a task.
Appears(b) ==
  /\ action[b] = NoAction /\ action'[b] # NoAction
  /\ task'[b] = Posted
  /\ UNCHANGED <<plugin, holds, subs>>

\* Every action is given a client with data: one that is READY, on time or not.
Attaches == Attach /\ (BecomeReady \/ (LateReady /\ rpcState = "DISCONNECTED"))

\* If it is given one that cannot be attached, that is because a READY was late.
KeepsClient(b) ==
  holds'[b] = holds[b] \/ (LateReady /\ rpcState # "DISCONNECTED" /\ holds'[b] \in {0, client})

LEMMA KeyMoves ==
  ASSUME TypeOK, [Next]_vars, NEW b \in Buttons
  PROVE  \/ SameTask(b) /\ action'[b] = action[b] /\ KeepsClient(b)
            /\ \A c \in 1 .. MaxClients : subs'[c][b] = subs[c][b]
         \/ SameTask(b) /\ action'[b] = action[b] /\ Attaches
         \/ Appears(b)
         \/ TaskAttaches(b)
         \/ TaskShows(b)
<1> DEFINE Kept ==
      /\ SameTask(b) /\ action'[b] = action[b] /\ KeepsClient(b)
      /\ \A c \in 1 .. MaxClients : subs'[c][b] = subs[c][b]
<1> USE DEF KeepsClient
<1>1. UNCHANGED <<task, action, holds, subs>> => Kept
  BY DEF SameTask
<1>2. CASE DiscordChanges \/ DiscordServes \/ LoseConnection \/ Authenticated
           \/ ResetClient \/ ConnectToDiscord \/ UNCHANGED vars
  BY <1>1, <1>2 DEF DiscordChanges, DiscordServes, LoseConnection, Authenticated,
    ResetClient, ConnectToDiscord
<1>3. CASE ReadMessage
  BY <1>3, SetStateKeeps DEF ReadMessage, Publish
<1>4. CASE BecomeReady
  BY <1>4, SetStateKeeps DEF BecomeReady, Attach, Attaches
<1>13. CASE LateReady
  <2>1. CASE rpcState = "DISCONNECTED"
    BY <1>13, <2>1, SetStateKeeps DEF LateReady, Attach, Attaches
  <2>2. CASE rpcState # "DISCONNECTED"
    <3>1. /\ UNCHANGED <<task, action, subs>>
          /\ \E c \in {0, client} :
               holds' = [x \in Buttons |-> IF x \in Placed THEN c ELSE holds[x]]
      BY <1>13, <2>2 DEF LateReady
    <3>2. holds'[b] \in {holds[b], 0, client}
      BY <3>1
    <3>3. QED
      BY <1>13, <2>2, <3>1, <3>2 DEF SameTask
  <2>3. QED
    BY <2>1, <2>2
<1>5. ASSUME NEW x \in Buttons, NEW a \in Placeable[x], FirstWillAppear(x, a)
      PROVE  Kept \/ Appears(b)
  <2>1. a \in ActionClasses /\ a # NoAction
    BY PlaceableAssumption, ActionFacts
  <2>2. /\ action \in [Buttons -> ActionClasses \cup {NoAction}] /\ task \in [Buttons -> Tasks]
        /\ action' = [action EXCEPT ![x] = a] /\ task' = [task EXCEPT ![x] = Posted]
        /\ action[x] = NoAction /\ UNCHANGED <<plugin, holds, subs>>
    BY <1>5 DEF TypeOK, FirstWillAppear
  <2>3. CASE x = b
    BY <2>1, <2>2, <2>3 DEF Appears
  <2>4. CASE x # b
    BY <2>2, <2>4 DEF SameTask
  <2>5. QED
    BY <2>3, <2>4
<1>6. ASSUME NEW x \in Buttons, NEW id \in Channels, DidReceiveSettings(x, id)
      PROVE  Kept
  BY <1>6, SetStateKeeps DEF DidReceiveSettings
<1>7. ASSUME NEW x \in Buttons, WillAppear(x)
      PROVE  Kept
  BY <1>7, SetStateKeeps DEF WillAppear
<1>8. ASSUME NEW x \in Buttons, TaskAttaches(x)
      PROVE  Kept \/ TaskAttaches(b)
  <2>1. CASE x = b
    BY <1>8, <2>1
  <2>2. CASE x # b
    <3>1. /\ holds \in [Buttons -> 0 .. MaxClients] /\ task \in [Buttons -> Tasks]
          /\ subs \in [1 .. MaxClients -> [Buttons -> Nat]]
      BY DEF TypeOK
    <3>2. holds'[b] = holds[b] /\ task'[b] = task[b] /\ action'[b] = action[b]
      BY <1>8, <2>2, <3>1 DEF TaskAttaches
    <3>3. ASSUME NEW c \in 1 .. MaxClients PROVE subs'[c][b] = subs[c][b]
      BY <1>8, <2>2, <3>1 DEF TaskAttaches
    <3>4. QED
      BY <3>2, <3>3 DEF SameTask
  <2>3. QED
    BY <2>1, <2>2
<1>9. ASSUME NEW x \in Buttons, TaskShows(x)
      PROVE  Kept \/ TaskShows(b)
  <2>1. CASE x = b
    BY <1>9, <2>1
  <2>2. CASE x # b
    BY <1>9, <2>2 DEF TypeOK, TaskShows, SameTask
  <2>3. QED
    BY <2>1, <2>2
<1>10. ASSUME NEW x \in Buttons, KeyUp(x)
       PROVE  Kept
  BY <1>10, SetStateKeeps DEF KeyUp
<1> HIDE DEF Kept
<1>11. Kept \/ Appears(b) \/ TaskAttaches(b) \/ TaskShows(b)
       \/ (SameTask(b) /\ action'[b] = action[b] /\ Attaches)
  BY <1>2, <1>3, <1>4, <1>5, <1>6, <1>7, <1>8, <1>9, <1>10, <1>13 DEF Next, Client, Task, Key, Kept
<1>12. QED
  BY <1>11 DEF Kept

LEMMA ReadyEffect ==
  ASSUME TypeOK, Attach, NEW b \in Buttons
  PROVE  /\ action[b] # NoAction =>
              holds'[b] = client /\ subs'[client][b] = subs[client][b] + 2
         /\ action[b] = NoAction =>
              holds'[b] = holds[b] /\ subs'[client][b] = subs[client][b]
         /\ \A c \in 1 .. MaxClients : c # client => subs'[c][b] = subs[c][b]
<1>1. /\ client \in 1 .. MaxClients /\ holds \in [Buttons -> 0 .. MaxClients]
      /\ subs \in [1 .. MaxClients -> [Buttons -> Nat]]
  BY DEF TypeOK
<1>2. holds'[b] = IF action[b] # NoAction THEN client ELSE holds[b]
  BY <1>1 DEF Attach, Placed
<1>3. subs'[client][b] = IF action[b] # NoAction THEN subs[client][b] + 2 ELSE subs[client][b]
  BY <1>1 DEF Attach, Placed
<1>4. \A c \in 1 .. MaxClients : c # client => subs'[c][b] = subs[c][b]
  BY <1>1 DEF Attach, Placed
<1>5. QED
  BY <1>2, <1>3, <1>4

LEMMA AttachEffect ==
  ASSUME TypeOK, NEW b \in Buttons, TaskAttaches(b), task[b].of \in 1 .. MaxClients
  PROVE  /\ holds'[b] = task[b].of
         /\ task'[b] = [task[b] EXCEPT !.at = "computed", !.icon = DesiredOf(b, task[b].of)]
         /\ task'[b].at = "computed" /\ task'[b].of = task[b].of
         /\ task'[b].late = task[b].late /\ task'[b].icon = DesiredOf(b, task[b].of)
         /\ subs'[task[b].of][b] = subs[task[b].of][b] + 1
         /\ \A c \in 1 .. MaxClients : c # task[b].of => subs'[c][b] = subs[c][b]
         /\ UNCHANGED <<plugin, action>>
<1>1. /\ task[b] \in Tasks /\ task \in [Buttons -> Tasks]
      /\ holds \in [Buttons -> 0 .. MaxClients]
      /\ subs \in [1 .. MaxClients -> [Buttons -> Nat]]
  BY DEF TypeOK
<1>2. holds'[b] = task[b].of
  BY <1>1 DEF TaskAttaches
<1>3. task'[b] = [task[b] EXCEPT !.at = "computed", !.icon = DesiredOf(b, task[b].of)]
  BY <1>1 DEF TaskAttaches
<1>4. /\ task'[b].at = "computed" /\ task'[b].of = task[b].of
      /\ task'[b].late = task[b].late /\ task'[b].icon = DesiredOf(b, task[b].of)
  BY <1>1, <1>3 DEF Tasks
<1>5. subs'[task[b].of][b] = subs[task[b].of][b] + 1
  BY <1>1 DEF TaskAttaches
<1>6. \A c \in 1 .. MaxClients : c # task[b].of => subs'[c][b] = subs[c][b]
  BY <1>1 DEF TaskAttaches
<1>7. QED
  BY <1>2, <1>3, <1>4, <1>5, <1>6 DEF TaskAttaches

LEMMA ShowEffect ==
  ASSUME TypeOK, NEW b \in Buttons, TaskShows(b)
  PROVE  /\ shown'[b] = task[b].icon
         /\ behind'[b] = (task[b].late \/ task[b].of # client)
         /\ task'[b] = NoTask
         /\ UNCHANGED <<plugin, action, holds, subs>>
BY DEF TypeOK, TaskShows

-----------------------------------------------------------------------------
(* The tasks of constructors. *)

TaskInvOf(b) ==
  /\ task[b].of <= client /\ holds[b] <= client
  /\ task[b].at = "none" <=> task[b] = NoTask
  /\ task[b].of = 0 <=> task[b] = NoTask
  /\ task[b].of = client => Attached

LEMMA TaskInit == Init => TaskInv
<1> SUFFICES ASSUME Init, NEW b \in Buttons PROVE TaskInvOf(b)
  BY DEF TaskInv, TaskInvOf
<1>1. task[b] = NoTask /\ holds[b] = 0 /\ client = 1
  BY DEF Init
<1>2. NoTask.of = 0 /\ NoTask.at = "none"
  BY DEF NoTask
<1>3. QED
  BY <1>1, <1>2 DEF TaskInvOf

LEMMA TaskStep ==
  ASSUME TypeOK, TypeOK', TaskInv, [Next]_vars
  PROVE  TaskInv'
<1> SUFFICES ASSUME NEW b \in Buttons PROVE TaskInvOf(b)'
  BY DEF TaskInv, TaskInvOf
<1>1. TaskInvOf(b)
  BY DEF TaskInv, TaskInvOf
<1>2. /\ client \in Nat \ {0} /\ client' \in Nat \ {0}
      /\ holds[b] \in Nat /\ holds'[b] \in Nat
      /\ task[b] \in Tasks /\ task[b].of \in Nat
      /\ client \in 1 .. MaxClients /\ task[b].of \in 0 .. MaxClients
      /\ rpcState \in {"none", "login", WAITING, "READY", "DISCONNECTED", "LATE"}
  <2>1. client' \in Nat \ {0} /\ holds'[b] \in Nat
    BY BoundsAssumption DEF TypeOK
  <2>2. QED
    BY <2>1, ClientTypes, KeyTypes
<1>3. /\ client' >= client
      /\ client' = client => (Attached => Attached')
  <2>1. CASE client' = client /\ rpcState' = rpcState /\ late' = late
    BY <1>2, <2>1 DEF Attached
  <2>2. CASE client' = client /\ (Authenticated \/ BecomeReady \/ ConnectToDiscord)
    BY <1>2, <2>2 DEF Authenticated, BecomeReady, ConnectToDiscord, Attached
  <2>3. CASE client' = client /\ LateReady
    BY <1>2, <2>3 DEF LateReady, Attached
  <2>4. CASE client' = client /\ LoseConnection
    <3>1. Attached => rpcState # WAITING
      BY DEF Attached, WAITING
    <3>2. rpcState # WAITING => ~late'
      BY <2>4, Zenon DEF LoseConnection, WAITING
    <3>3. rpcState' = "DISCONNECTED"
      BY <2>4 DEF LoseConnection
    <3>4. QED
      BY <1>2, <2>4, <3>1, <3>2, <3>3 DEF Attached
  <2>5. CASE ResetClient
    BY <1>2, <2>5 DEF ResetClient
  <2>6. QED
    BY <2>1, <2>2, <2>3, <2>4, <2>5, ClientMoves
<1>4. CASE SameTask(b) /\ holds'[b] \in {holds[b], 0, client}
  BY <1>1, <1>2, <1>3, <1>4 DEF TaskInvOf, SameTask
<1>5. CASE SameTask(b) /\ Attaches
  BY <1>4, <1>5, ReadyEffect DEF Attaches
<1>6. CASE Appears(b)
  <2>1. /\ task'[b] = Posted /\ client' = client /\ rpcState' = rpcState /\ late' = late
        /\ holds'[b] = holds[b]
    BY <1>6 DEF Appears
  <2>2. CASE rpcState \in {"READY", "LATE"}
    <3>1. task'[b].at = "posted" /\ task'[b].of = client /\ NoTask.of = 0
      BY <2>1, <2>2 DEF Posted, NoTask
    <3>2. QED
      BY <1>1, <1>2, <2>1, <2>2, <3>1 DEF TaskInvOf, Attached
  <2>3. CASE rpcState \notin {"READY", "LATE"}
    <3>1. task'[b] = NoTask /\ NoTask.of = 0 /\ NoTask.at = "none"
      BY <2>1, <2>3 DEF Posted, NoTask
    <3>2. QED
      BY <1>1, <1>2, <2>1, <3>1 DEF TaskInvOf, Attached
  <2>4. QED
    BY <2>2, <2>3
<1>7. CASE TaskAttaches(b)
  <2>1. task[b].of \in 1 .. MaxClients
    <3>1. task[b] # NoTask
      BY <1>7 DEF TaskAttaches, NoTask
    <3>2. QED
      BY <1>1, <1>2, <3>1 DEF TaskInvOf
  <2>2. /\ holds'[b] = task[b].of /\ task'[b].of = task[b].of /\ task'[b].at = "computed"
        /\ UNCHANGED <<plugin, action>>
    BY <1>7, <2>1, AttachEffect
  <2>3. NoTask.of = 0 /\ NoTask.at = "none"
    BY DEF NoTask
  <2>4. QED
    BY <1>1, <1>2, <2>1, <2>2, <2>3 DEF TaskInvOf, Attached
<1>8. CASE TaskShows(b)
  <2>1. task'[b] = NoTask /\ UNCHANGED <<plugin, holds>> /\ NoTask.of = 0 /\ NoTask.at = "none"
    BY <1>8, ShowEffect DEF NoTask
  <2>2. QED
    BY <1>1, <1>2, <2>1 DEF TaskInvOf, Attached
<1>9. QED
  BY <1>4, <1>5, <1>6, <1>7, <1>8, KeyMoves DEF KeepsClient

-----------------------------------------------------------------------------
(* The subscriptions. *)

SubsInvOf(b) ==
  /\ \A c \in 1 .. MaxClients :
       /\ subs[c][b] <= 2
       /\ c > client => subs[c][b] = 0
       /\ Posting(b, c) => subs[c][b] = 0
  /\ ~Attached => subs[client][b] = 0
  /\ action[b] = NoAction => subs[client][b] = 0 /\ task[b] = NoTask
  /\ rpcState = "READY" /\ action[b] # NoAction /\ ~Posting(b, client) =>
       subs[client][b] > 0

LEMMA SubsInit == Init => SubsInv
<1> SUFFICES ASSUME Init, NEW b \in Buttons PROVE SubsInvOf(b)
  BY DEF SubsInv, SubsInvOf
<1>1. task[b] = NoTask /\ action[b] = NoAction /\ rpcState = "login" /\ client = 1
  BY DEF Init
<1>2. \A c \in 1 .. MaxClients : subs[c][b] = 0
  BY DEF Init
<1>3. 1 \in 1 .. MaxClients
  BY BoundsAssumption
<1>4. QED
  BY <1>1, <1>2, <1>3 DEF SubsInvOf

LEMMA SubsStep ==
  ASSUME TypeOK, TypeOK', TaskInv, SubsInv, [Next]_vars
  PROVE  SubsInv'
<1> SUFFICES ASSUME NEW b \in Buttons PROVE SubsInvOf(b)'
  BY DEF SubsInv, SubsInvOf
<1>1. SubsInvOf(b) /\ TaskInvOf(b)
  BY DEF SubsInv, SubsInvOf, TaskInv, TaskInvOf
<1>2. /\ client \in Nat \ {0} /\ client \in 1 .. MaxClients /\ client' \in 1 .. MaxClients
      /\ task[b] \in Tasks /\ task[b].of \in 0 .. MaxClients
      /\ \A c \in 1 .. MaxClients : subs[c][b] \in Nat
      /\ MaxClients \in Nat
  <2>1. client' \in 1 .. MaxClients
    BY DEF TypeOK
  <2>2. QED
    BY <2>1, ClientTypes, KeyTypes
<1>3. CASE /\ SameTask(b) /\ action'[b] = action[b]
           /\ \A c \in 1 .. MaxClients : subs'[c][b] = subs[c][b]
  <2>0. ASSUME NEW c PROVE Posting(b, c)' <=> Posting(b, c)
    BY <1>3 DEF Posting, SameTask
  <2>1. ASSUME NEW c \in 1 .. MaxClients
        PROVE  /\ subs'[c][b] <= 2
               /\ c > client' => subs'[c][b] = 0
               /\ Posting(b, c)' => subs'[c][b] = 0
    <3>1. client' = client \/ client' = client + 1
      BY ClientMoves DEF ResetClient
    <3>2. QED
      BY <1>1, <1>2, <1>3, <2>0, <3>1 DEF SubsInvOf
  <2>2. task'[b] = NoTask <=> task[b] = NoTask
    BY <1>3 DEF SameTask
  <2>3. CASE client' = client /\ rpcState' = rpcState /\ late' = late
    BY <1>1, <1>2, <1>3, <2>0, <2>1, <2>2, <2>3 DEF SubsInvOf, Attached
  <2>4. CASE client' = client /\ (Authenticated \/ ConnectToDiscord)
    BY <1>1, <1>2, <1>3, <2>0, <2>1, <2>2, <2>4
    DEF SubsInvOf, Attached, Authenticated, ConnectToDiscord
  <2>5. CASE client' = client /\ LoseConnection
    BY <1>1, <1>2, <1>3, <2>0, <2>1, <2>2, <2>5 DEF SubsInvOf, Attached, LoseConnection
  <2>6. CASE ResetClient
    <3>1. client' = client + 1 /\ rpcState' = "none"
      BY <2>6 DEF ResetClient
    <3>2. subs[client'][b] = 0
      BY <1>1, <1>2, <3>1 DEF SubsInvOf
    <3>3. QED
      BY <1>1, <1>2, <1>3, <2>1, <2>2, <3>1, <3>2 DEF SubsInvOf
  <2>7. CASE client' = client /\ Attach
    <3>1. action[b] = NoAction \/ subs[client][b] = subs[client][b] + 2
      BY <1>2, <1>3, <2>7, ReadyEffect
    <3>2. action[b] = NoAction
      BY <1>2, <3>1
    <3>3. QED
      BY <1>1, <1>2, <1>3, <2>1, <2>2, <2>7, <3>2 DEF SubsInvOf
  <2>9. CASE client' = client /\ LateReady /\ rpcState # "DISCONNECTED"
    BY <1>1, <1>2, <1>3, <2>0, <2>1, <2>2, <2>9 DEF SubsInvOf, Attached, LateReady
  <2>10. BecomeReady => Attach
    BY DEF BecomeReady
  <2>11. LateReady => Attach \/ rpcState # "DISCONNECTED"
    BY DEF LateReady
  <2>8. QED
    BY <2>3, <2>4, <2>5, <2>6, <2>7, <2>9, <2>10, <2>11, ClientMoves
<1>4. CASE SameTask(b) /\ action'[b] = action[b] /\ Attaches
  <2>1. client' = client /\ ~Attached /\ Attached' /\ Attach
    BY <1>4 DEF Attaches, BecomeReady, LateReady, Attached
  <2>2. subs[client][b] = 0 /\ task[b].of # client
    BY <1>1, <2>1 DEF SubsInvOf, TaskInvOf
  <2>3. CASE action[b] = NoAction
    <3>1. \A c \in 1 .. MaxClients : subs'[c][b] = subs[c][b]
      BY <2>1, <2>3, <1>2, ReadyEffect
    <3>2. QED
      BY <1>3, <1>4, <3>1
  <2>4. CASE action[b] # NoAction
    <3>1. subs'[client][b] = 2
      BY <1>2, <2>1, <2>2, <2>4, ReadyEffect
    <3>2. \A c \in 1 .. MaxClients : c # client => subs'[c][b] = subs[c][b]
      BY <2>1, ReadyEffect
    <3>3. ASSUME NEW c PROVE Posting(b, c)' <=> Posting(b, c)
      BY <1>4 DEF Posting, SameTask
    <3>4. ~Posting(b, client)
      BY <2>2 DEF Posting
    <3>5. ASSUME NEW c \in 1 .. MaxClients
          PROVE  /\ subs'[c][b] <= 2
                 /\ c > client' => subs'[c][b] = 0
                 /\ Posting(b, c)' => subs'[c][b] = 0
      BY <1>1, <1>2, <2>1, <3>1, <3>2, <3>3, <3>4 DEF SubsInvOf
    <3>6. QED
      BY <1>4, <2>1, <2>4, <3>1, <3>5 DEF SubsInvOf
  <2>5. QED
    BY <2>3, <2>4
<1>5. CASE Appears(b)
  <2>1. /\ action[b] = NoAction /\ action'[b] # NoAction /\ task'[b] = Posted
        /\ client' = client /\ rpcState' = rpcState /\ late' = late /\ subs' = subs
    BY <1>5 DEF Appears
  <2>2. subs[client][b] = 0
    BY <1>1, <2>1 DEF SubsInvOf
  <2>3. ASSUME NEW c PROVE Posting(b, c)' <=> (rpcState \in {"READY", "LATE"} /\ c = client)
    BY <2>1 DEF Posting, Posted, NoTask
  <2>4. QED
    BY <1>1, <1>2, <2>1, <2>2, <2>3 DEF SubsInvOf, Attached
<1>6. CASE TaskAttaches(b)
  <2>0. task[b].at = "posted" /\ task[b] # NoTask
    BY <1>6 DEF TaskAttaches, NoTask
  <2>1. task[b].of \in 1 .. MaxClients /\ task[b].of <= client
    BY <1>1, <1>2, <2>0 DEF TaskInvOf
  <2>2. /\ subs'[task[b].of][b] = subs[task[b].of][b] + 1
        /\ \A c \in 1 .. MaxClients : c # task[b].of => subs'[c][b] = subs[c][b]
        /\ task'[b].at = "computed"
        /\ client' = client /\ rpcState' = rpcState /\ late' = late /\ action' = action
    BY <1>6, <2>1, AttachEffect
  <2>3. subs[task[b].of][b] = 0
    BY <1>1, <2>0, <2>1 DEF SubsInvOf, Posting
  <2>4. ASSUME NEW c PROVE ~Posting(b, c)'
    BY <2>2 DEF Posting
  <2>5. ASSUME NEW c \in 1 .. MaxClients
        PROVE  subs'[c][b] <= 2 /\ (c > client => subs'[c][b] = 0)
    BY <1>1, <1>2, <2>1, <2>2, <2>3 DEF SubsInvOf, Attached
  <2>6. ~Attached => subs'[client][b] = 0
    BY <1>1, <1>2, <2>1, <2>2 DEF SubsInvOf, TaskInvOf
  <2>7. action[b] # NoAction
    BY <1>1, <2>0 DEF SubsInvOf
  <2>8. rpcState = "READY" => subs'[client][b] > 0
    BY <1>1, <1>2, <2>1, <2>2, <2>3, <2>7 DEF SubsInvOf, Posting
  <2>9. QED
    BY <2>2, <2>4, <2>5, <2>6, <2>7, <2>8 DEF SubsInvOf, Attached
<1>7. CASE TaskShows(b)
  <2>1. task'[b] = NoTask /\ UNCHANGED <<client, rpcState, late, action, subs>>
    BY <1>7, ShowEffect
  <2>2. ASSUME NEW c PROVE ~Posting(b, c)' /\ ~Posting(b, c)
    BY <1>7, <2>1 DEF Posting, NoTask, TaskShows
  <2>3. QED
    BY <1>1, <2>1, <2>2 DEF SubsInvOf, Attached
<1>8. QED
  BY <1>3, <1>4, <1>5, <1>6, <1>7, KeyMoves

-----------------------------------------------------------------------------
(* The data of the clients. *)

\* What is published is kept, and nothing else changes.
LEMMA PublishEffect ==
  ASSUME TypeOK, NEW e \in EventTypes,
         cache' = [cache EXCEPT ![client][e.about] = <<e.data>>]
  PROVE  /\ e.about = "voice" =>
              cache'[client].voice = <<e.data>> /\ cache'[client].channel = cache[client].channel
         /\ e.about = "channel" =>
              cache'[client].channel = <<e.data>> /\ cache'[client].voice = cache[client].voice
         /\ \A c \in 1 .. MaxClients : c # client => cache'[c] = cache[c]
<1>1. client \in 1 .. MaxClients /\ cache \in [1 .. MaxClients -> ClientData]
  BY DEF TypeOK
<1>2. cache[client] \in ClientData
  BY <1>1
<1>3. cache'[client] = [cache[client] EXCEPT ![e.about] = <<e.data>>]
  BY <1>1
<1>4. e.about = "voice" =>
        cache'[client].voice = <<e.data>> /\ cache'[client].channel = cache[client].channel
  BY <1>2, <1>3 DEF ClientData
<1>5. e.about = "channel" =>
        cache'[client].channel = <<e.data>> /\ cache'[client].voice = cache[client].voice
  BY <1>2, <1>3 DEF ClientData
<1>6. QED
  BY <1>1, <1>4, <1>5

\* An event that is read, and what it does to the data.
LEMMA ReadEffect ==
  ASSUME TypeOK, ReadMessage
  PROVE  /\ events # <<>> /\ events' = Tail(events)
         /\ events \in Seq(EventTypes)
         /\ Head(events) \in EventTypes /\ Head(events).about \in Topics
         /\ cache' = [cache EXCEPT ![client][Head(events).about] = <<Head(events).data>>]
         /\ resolved' = resolved \cup
              (IF Head(events).resolves THEN {Head(events).about} ELSE {})
<1>1. events # <<>> /\ events \in Seq(EventTypes)
  BY DEF TypeOK, ReadMessage
<1>2. Head(events) \in EventTypes
  BY <1>1, Receiving
<1>3. Head(events).about \in Topics
  BY <1>2, EventFacts
<1>4. QED
  BY <1>1, <1>2, <1>3 DEF ReadMessage, Publish

\* Only reading a message changes the data.
LEMMA CacheMoves ==
  ASSUME [Next]_vars
  PROVE  UNCHANGED cache \/ ReadMessage
BY DEF Next, Client, Task, Key, DiscordChanges, DiscordServes, LoseConnection, Authenticated,
  ResetClient, ConnectToDiscord, BecomeReady, LateReady, FirstWillAppear, DidReceiveSettings,
  WillAppear, TaskAttaches, TaskShows, KeyUp

\* Data that has arrived is never taken back.
LEMMA CacheGrows ==
  ASSUME TypeOK, [Next]_vars, NEW c \in 1 .. MaxClients
  PROVE  /\ cache[c].voice # <<>> => cache'[c].voice # <<>>
         /\ cache[c].channel # <<>> => cache'[c].channel # <<>>
         /\ Loaded(c) => Loaded(c)'
<1>1. CASE UNCHANGED cache
  BY <1>1 DEF Loaded
<1>2. CASE ReadMessage
  <2> DEFINE e == Head(events)
  <2>1. /\ e \in EventTypes /\ e.about \in Topics
        /\ cache' = [cache EXCEPT ![client][e.about] = <<e.data>>]
    BY <1>2, ReadEffect
  <2>2. <<e.data>> # <<>>
    OBVIOUS
  <2>3. CASE c = client /\ e.about = "voice"
    BY <2>1, <2>2, <2>3, PublishEffect DEF Loaded
  <2>4. CASE c = client /\ e.about = "channel"
    BY <2>1, <2>2, <2>4, PublishEffect DEF Loaded
  <2>5. CASE c # client
    BY <2>1, <2>5, PublishEffect DEF Loaded
  <2>6. QED
    BY <2>1, <2>3, <2>4, <2>5 DEF Topics
<1>3. QED
  BY <1>1, <1>2, CacheMoves

ResolvedIsLoaded ==
  /\ "voice" \in resolved => cache[client].voice # <<>>
  /\ "channel" \in resolved => cache[client].channel # <<>>

LEMMA LoadInvParts ==
  LoadInv <=> ResolvedIsLoaded /\ \A b \in Buttons : HoldsData(b)
BY DEF LoadInv, ResolvedIsLoaded

LEMMA LoadInit == Init => LoadInv
<1>1. Init => ResolvedIsLoaded
  BY DEF Init, ResolvedIsLoaded
<1>2. ASSUME Init, NEW b \in Buttons PROVE HoldsData(b)
  <2>1. holds[b] = 0 /\ task[b].of = 0
    BY <1>2 DEF Init, NoTask
  <2>2. QED
    BY <2>1 DEF HoldsData
<1>3. QED
  BY <1>1, <1>2, LoadInvParts

\* Nothing runs in a plugin that has ended.
LEMMA CrashEnds ==
  ASSUME [Next]_vars, crashed
  PROVE  UNCHANGED <<plugin, icons>>
BY DEF Next, Client, Task, Key, DiscordChanges, DiscordServes

LEMMA LoadStep ==
  ASSUME TypeOK, LoginInv, TaskInv, LoadInv, [Next]_vars
  PROVE  LoadInv'
<1>0. client \in 1 .. MaxClients
  BY DEF TypeOK
<1>1. ResolvedIsLoaded
  BY LoadInvParts
<1>2. ResolvedIsLoaded'
  <2>1. CASE client' = client /\ resolved' = resolved
    BY <1>0, <1>1, <2>1, CacheGrows DEF ResolvedIsLoaded
  <2>2. CASE ReadMessage
    <3> DEFINE e == Head(events)
    <3>1. /\ e \in EventTypes /\ e.about \in Topics
          /\ cache' = [cache EXCEPT ![client][e.about] = <<e.data>>]
          /\ resolved' = resolved \cup (IF e.resolves THEN {e.about} ELSE {})
      BY <2>2, ReadEffect
    <3>2. client' = client
      BY <2>2 DEF ReadMessage
    <3>3. /\ e.about = "voice" => cache'[client].voice = <<e.data>>
          /\ e.about = "channel" => cache'[client].channel = <<e.data>>
      BY <3>1, PublishEffect
    <3>4. <<e.data>> # <<>>
      OBVIOUS
    <3>5. /\ cache[client].voice # <<>> => cache'[client].voice # <<>>
          /\ cache[client].channel # <<>> => cache'[client].channel # <<>>
      BY <1>0, CacheGrows
    <3>6. QED
      BY <1>1, <3>1, <3>2, <3>3, <3>4, <3>5 DEF ResolvedIsLoaded
  <2>3. CASE ResetClient
    BY <2>3 DEF ResetClient, ResolvedIsLoaded
  <2>4. QED
    <3>1. (client' = client /\ resolved' = resolved) \/ ReadMessage \/ ResetClient
      BY DEF Next, Client, Task, Key, DiscordChanges, DiscordServes, LoseConnection,
        Authenticated, BecomeReady, LateReady, ConnectToDiscord, FirstWillAppear,
        DidReceiveSettings, WillAppear, TaskAttaches, TaskShows, KeyUp
    <3>2. QED
      BY <2>1, <2>2, <2>3, <3>1
<1>3. rpcState \in {"READY", "LATE"} \/ (late /\ rpcState = "DISCONNECTED") => Loaded(client)
  BY <1>1 DEF LoginInv, ResolvedIsLoaded, Loaded, Topics
<1>4. ASSUME NEW b \in Buttons PROVE HoldsData(b)'
  <2>1. HoldsData(b) /\ TaskInvOf(b)
    BY LoadInvParts DEF TaskInv, TaskInvOf
  <2>2. \A c \in 1 .. MaxClients : Loaded(c) => Loaded(c)'
    BY CacheGrows
  <2>3. task[b].of \in 0 .. MaxClients /\ holds[b] \in 0 .. MaxClients
    BY KeyTypes
  <2>4. CASE crashed
    <3>1. UNCHANGED <<plugin, icons>>
      BY <2>4, CrashEnds
    <3>2. QED
      BY <2>1, <3>1 DEF HoldsData, Loaded
  <2>5. CASE ~crashed /\ SameTask(b) /\ holds'[b] = holds[b]
    BY <2>1, <2>2, <2>3, <2>5 DEF HoldsData, SameTask
  <2>6. CASE /\ ~crashed /\ SameTask(b) /\ LateReady /\ rpcState # "DISCONNECTED"
             /\ holds'[b] \in {0, client} /\ holds'[b] # holds[b]
    <3>1. (task[b].of # 0 => Loaded(task[b].of))'
      BY <2>1, <2>2, <2>3, <2>6 DEF HoldsData, SameTask
    <3>2. CASE rpcState = "none"
      <4>1. holds'[b] \in {0, holds[b]}
        BY <2>6, <3>2 DEF LateReady
      <4>2. holds'[b] = 0
        BY <2>6, <4>1
      <4>3. QED
        BY <3>1, <4>2 DEF HoldsData
    <3>3. CASE rpcState = "login"
      <4>1. /\ rpcState' = "login" /\ client' = client
            /\ holds' = [x \in Buttons |-> IF x \in Placed THEN client ELSE holds[x]]
            /\ crashed' = (Placed # {})
        BY <3>3, <2>6 DEF LateReady
      <4>2. b \in Placed
        BY <2>6, <4>1
      <4>3. crashed' /\ holds'[b] = client
        BY <4>1, <4>2
      <4>4. QED
        BY <3>1, <4>1, <4>3 DEF HoldsData
    <3>4. QED
      BY <2>6, <3>2, <3>3 DEF LateReady
  <2>7. CASE ~crashed /\ SameTask(b) /\ Attaches
    <3>1. holds'[b] \in {holds[b], client}
      BY <2>7, ReadyEffect DEF Attaches
    <3>2. Loaded(client)
      BY <1>1, <1>3, <2>7
      DEF Attaches, BecomeReady, LateReady, HasInitialData, Topics, ResolvedIsLoaded, Loaded
    <3>3. QED
      BY <1>0, <2>1, <2>2, <2>3, <2>7, <3>1, <3>2 DEF HoldsData, SameTask
  <2>8. CASE ~crashed /\ Appears(b)
    <3>1. task'[b] = Posted /\ holds'[b] = holds[b]
      BY <2>8 DEF Appears
    <3>2. task'[b].of # 0 => rpcState \in {"READY", "LATE"} /\ task'[b].of = client
      BY <3>1 DEF Posted, NoTask
    <3>3. QED
      BY <1>0, <1>3, <2>1, <2>2, <2>3, <2>8, <3>1, <3>2 DEF HoldsData
  <2>9. CASE ~crashed /\ TaskAttaches(b)
    <3>1. task[b].of \in 1 .. MaxClients
      <4>1. task[b] # NoTask
        BY <2>9 DEF TaskAttaches, NoTask
      <4>2. QED
        BY <2>1, <2>3, <4>1 DEF TaskInvOf
    <3>2. holds'[b] = task[b].of /\ task'[b].of = task[b].of
      BY <2>9, <3>1, AttachEffect
    <3>3. QED
      BY <2>1, <2>2, <3>1, <3>2 DEF HoldsData
  <2>10. CASE ~crashed /\ TaskShows(b)
    <3>1. holds'[b] = holds[b] /\ task'[b].of = 0
      BY <2>10, ShowEffect DEF NoTask
    <3>2. QED
      BY <2>1, <2>2, <2>3, <2>10, <3>1 DEF HoldsData
  <2>11. QED
    BY <2>4, <2>5, <2>6, <2>7, <2>8, <2>9, <2>10, KeyMoves DEF KeepsClient
<1>5. QED
  BY <1>2, <1>4 DEF LoadInv, ResolvedIsLoaded

-----------------------------------------------------------------------------
(* What is held follows what Discord has sent. *)

\* The last event about a topic decides.
LEMMA FollowsSent ==
  ASSUME NEW s \in Seq(EventTypes), NEW x \in EventTypes, NEW held
  PROVE  Follows(Append(s, x), x.about, held, x.data)
<1> DEFINE t == Append(s, x)
           About == {i \in DOMAIN t : t[i].about = x.about}
<1>1. DOMAIN t = 1 .. Len(s) + 1 /\ Len(s) \in Nat /\ t[Len(s) + 1] = x
  BY Appending
<1> HIDE DEF t
<1>2. Len(s) + 1 \in About /\ \A j \in About : j <= Len(s) + 1
  BY <1>1
<1>3. About # {} /\ \E i \in About : t[i].data = x.data /\ \A j \in About : j <= i
  BY <1>1, <1>2
<1>4. QED
  BY <1>3 DEF Follows, t

\* An event about something else does not matter.
LEMMA FollowsOther ==
  ASSUME NEW s \in Seq(EventTypes), NEW x \in EventTypes, NEW topic, NEW held, NEW now,
         x.about # topic, Follows(s, topic, held, now)
  PROVE  Follows(Append(s, x), topic, held, now)
<1> DEFINE t == Append(s, x)
           About == {i \in DOMAIN s : s[i].about = topic}
           AboutNow == {i \in DOMAIN t : t[i].about = topic}
<1>1. /\ DOMAIN t = 1 .. Len(s) + 1 /\ DOMAIN s = 1 .. Len(s) /\ Len(s) \in Nat
      /\ \A i \in DOMAIN s : t[i] = s[i]
      /\ t[Len(s) + 1] = x
  BY Appending
<1> HIDE DEF t
<1>2. ASSUME NEW i PROVE i \in AboutNow <=> i \in About
  <2>1. i \in 1 .. Len(s) + 1 => i \in 1 .. Len(s) \/ i = Len(s) + 1
    BY <1>1
  <2>2. i \in 1 .. Len(s) => i \in 1 .. Len(s) + 1
    BY <1>1
  <2>3. QED
    BY <1>1, <2>1, <2>2
<1>3. AboutNow = About /\ \A i \in About : t[i] = s[i]
  BY <1>1, <1>2
<1>4. QED
  BY <1>3 DEF Follows, t

\* Reading the next event: it is what is held from now on, if it is about the topic.
LEMMA FollowsRead ==
  ASSUME NEW s \in Seq(EventTypes), s # <<>>, NEW topic, NEW held, NEW now,
         Follows(s, topic, held, now)
  PROVE  Follows(Tail(s), topic, IF Head(s).about = topic THEN <<Head(s).data>> ELSE held, now)
<1> DEFINE t == Tail(s)
           next == IF Head(s).about = topic THEN <<Head(s).data>> ELSE held
           About == {i \in DOMAIN s : s[i].about = topic}
           AboutNow == {i \in DOMAIN t : t[i].about = topic}
<1>1. /\ DOMAIN t = 1 .. Len(s) - 1 /\ DOMAIN s = 1 .. Len(s) /\ Len(s) \in Nat \ {0}
      /\ \A i \in 1 .. Len(s) - 1 : t[i] = s[i + 1]
      /\ Head(s) = s[1]
  BY Receiving
<1> HIDE DEF t
<1>2. About \subseteq Nat \ {0} /\ AboutNow \subseteq Nat \ {0}
  BY <1>1
<1>3. ASSUME NEW i \in Nat \ {0} PROVE i \in AboutNow <=> i + 1 \in About
  BY <1>1
<1>4. 1 \in About <=> Head(s).about = topic
  BY <1>1
<1>5. ASSUME NEW i \in About, i # 1
      PROVE  /\ i - 1 \in AboutNow /\ t[i - 1] = s[i]
  <2>1. i - 1 \in Nat \ {0} /\ (i - 1) + 1 = i /\ i - 1 \in 1 .. Len(s) - 1
    BY <1>1, <1>5
  <2>2. QED
    BY <1>1, <1>3, <2>1
<1>6. CASE AboutNow = {}
  <2>1. About \subseteq {1}
    BY <1>5, <1>6
  <2>2. next = <<now>>
    <3>1. CASE Head(s).about = topic
      <4>1. About = {1}
        BY <1>4, <2>1, <3>1
      <4>2. s[1].data = now
        BY <4>1 DEF Follows
      <4>3. QED
        BY <1>1, <3>1, <4>2
    <3>2. CASE Head(s).about # topic
      <4>1. About = {}
        BY <1>4, <2>1, <3>2
      <4>2. QED
        BY <3>2, <4>1 DEF Follows
    <3>3. QED
      BY <3>1, <3>2
  <2> HIDE DEF next
  <2>3. Follows(t, topic, next, now)
    BY <1>6, <2>2 DEF Follows
  <2>4. QED
    BY <2>3 DEF next, t
<1>7. CASE AboutNow # {}
  <2>1. PICK k \in AboutNow : TRUE
    BY <1>7
  <2>2. k + 1 \in About /\ k + 1 > 1
    BY <1>2, <1>3
  <2>3. PICK i \in About : s[i].data = now /\ \A j \in About : j <= i
    BY <2>2 DEF Follows
  <2>4. i # 1
    BY <1>2, <2>2, <2>3
  <2>5. i - 1 \in AboutNow /\ t[i - 1].data = now
    BY <1>5, <2>3, <2>4
  <2>6. ASSUME NEW j \in AboutNow PROVE j <= i - 1
    <3>1. j + 1 \in About /\ j \in Nat /\ i \in Nat
      BY <1>2, <1>3
    <3>2. j + 1 <= i
      BY <2>3, <3>1
    <3>3. QED
      BY <3>1, <3>2
  <2> HIDE DEF next
  <2>7. \E m \in AboutNow : t[m].data = now /\ \A j \in AboutNow : j <= m
    BY <2>5, <2>6
  <2>8. Follows(t, topic, next, now)
    BY <1>7, <2>7 DEF Follows
  <2>9. QED
    BY <2>8 DEF next, t
<1>8. QED
  BY <1>6, <1>7

\* A change that Discord reports reaches what is held.
LEMMA ChangesFollow ==
  ASSUME events \in Seq(EventTypes), NEW v \in Voice, NEW chan \in Selections,
         Changes(v, chan, <<>>), NEW held
  PROVE  /\ "voice" \in reporting /\ Follows(events, "voice", held, voice) =>
              Follows(events', "voice", held, voice')
         /\ "channel" \in reporting /\ Follows(events, "channel", held, channel) =>
              Follows(events', "channel", held, channel')
<1> DEFINE V == [about |-> "voice", data |-> v, resolves |-> TRUE]
           K == [about |-> "channel", data |-> chan, resolves |-> FALSE]
           s == events \o Told(v)
<1>1. V \in EventTypes /\ K \in EventTypes
  BY EventType
<1>2. /\ Told(v) = IF v # voice /\ "voice" \in reporting THEN <<V>> ELSE <<>>
      /\ ToldChannel(chan) = IF chan # channel /\ "channel" \in reporting THEN <<K>> ELSE <<>>
  BY DEF Told, ToldChannel
<1>3. voice' = v /\ channel' = chan
  BY DEF Changes
<1>4. events' = s \o ToldChannel(chan)
  <2>1. events \o <<>> = events
    BY Joining
  <2>2. QED
    BY <2>1 DEF Changes, Told, ToldChannel
<1>5. s \in Seq(EventTypes)
  BY <1>1, <1>2, AtMostOne
<1>6. /\ "voice" \in reporting /\ Follows(events, "voice", held, voice) =>
           Follows(s, "voice", held, v)
      /\ Follows(events, "channel", held, channel) => Follows(s, "channel", held, channel)
  <2>1. CASE Told(v) = <<>> /\ ("voice" \in reporting => v = voice)
    <3>1. s = events
      BY <2>1, Joining
    <3>2. QED
      BY <2>1, <3>1
  <2>2. CASE Told(v) = <<V>>
    <3>1. s = Append(events, V)
      BY <1>1, <2>2, Joining
    <3>2. V.about = "voice" /\ V.data = v
      OBVIOUS
    <3>3. Follows(Append(events, V), "voice", held, v)
      BY <1>1, <3>2, FollowsSent
    <3>4. Follows(events, "channel", held, channel) =>
            Follows(Append(events, V), "channel", held, channel)
      BY <1>1, <3>2, FollowsOther
    <3>5. QED
      BY <3>1, <3>3, <3>4
  <2>3. QED
    BY <1>2, <2>1, <2>2
<1> HIDE DEF s
<1>7. /\ Follows(s, "voice", held, v) => Follows(events', "voice", held, v)
      /\ "channel" \in reporting /\ Follows(s, "channel", held, channel) =>
           Follows(events', "channel", held, chan)
  <2>1. CASE ToldChannel(chan) = <<>> /\ ("channel" \in reporting => chan = channel)
    <3>1. events' = s
      BY <1>4, <1>5, <2>1, Joining
    <3>2. QED
      BY <2>1, <3>1
  <2>2. CASE ToldChannel(chan) = <<K>>
    <3>1. events' = Append(s, K)
      BY <1>1, <1>4, <1>5, <2>2, Joining
    <3>2. K.about = "channel" /\ K.data = chan
      OBVIOUS
    <3>3. Follows(Append(s, K), "channel", held, chan)
      BY <1>1, <1>5, <3>2, FollowsSent
    <3>4. Follows(s, "voice", held, v) => Follows(Append(s, K), "voice", held, v)
      BY <1>1, <1>5, <3>2, FollowsOther
    <3>5. QED
      BY <3>1, <3>3, <3>4
  <2>3. QED
    BY <1>2, <2>1, <2>2
<1>8. QED
  BY <1>3, <1>6, <1>7

FollowsVoice == Follows(events, "voice", cache[client].voice, voice)
FollowsChannel == Follows(events, "channel", cache[client].channel, channel)

\* Once the fetch is served, Discord reports both topics.
LEMMA FetchedReports ==
  ASSUME LoginInv, Fetched
  PROVE  reporting = Topics
<1>1. CASE rpcState = WAITING /\ requests = <<>>
  BY <1>1 DEF LoginInv, InitialStage
<1>2. QED
  BY <1>1 DEF Fetched, LoginInv

LEMMA FollowInit == Init => FollowInv
BY DEF Init, FollowInv, Fetched, WAITING

LEMMA FollowStep ==
  ASSUME TypeOK, LoginInv, FollowInv, [Next]_vars
  PROVE  FollowInv'
<1> USE DEF WAITING
<1>0. /\ events \in Seq(EventTypes) /\ requests \in Seq(RequestTypes)
      /\ voice \in Voice /\ channel \in Selections /\ client \in 1 .. MaxClients
      /\ rpcState \in {"none", "login", WAITING, "READY", "DISCONNECTED", "LATE"}
  BY DEF TypeOK
<1>1. /\ "voice" \in reporting => FollowsVoice
      /\ Fetched => FollowsChannel
  BY DEF FollowInv, FollowsVoice, FollowsChannel
<1>2. SUFFICES /\ "voice" \in reporting' => FollowsVoice'
               /\ Fetched' => FollowsChannel'
  BY DEF FollowInv, FollowsVoice, FollowsChannel
<1>3. ASSUME UNCHANGED <<client, cache>>, reporting' = reporting, Fetched' => Fetched,
             NEW v \in Voice, NEW chan \in Selections, Changes(v, chan, <<>>)
      PROVE  /\ "voice" \in reporting' => FollowsVoice'
             /\ Fetched' => FollowsChannel'
  <2>1. "voice" \in reporting /\ FollowsVoice => FollowsVoice'
    BY <1>0, <1>3, ChangesFollow DEF FollowsVoice
  <2>2. "channel" \in reporting /\ FollowsChannel => FollowsChannel'
    BY <1>0, <1>3, ChangesFollow DEF FollowsChannel
  <2>3. Fetched => "channel" \in reporting
    BY FetchedReports DEF Topics
  <2>4. QED
    BY <1>1, <1>3, <2>1, <2>2, <2>3
<1>4. CASE DiscordChanges
  <2>1. UNCHANGED <<reporting, requests, client, rpcState, cache>>
    BY <1>4 DEF DiscordChanges
  <2>2. PICK v \in Voice, chan \in Selections : Changes(v, chan, <<>>)
    BY <1>4, DiscordChangesOnce
  <2>3. Fetched' => Fetched
    BY <2>1 DEF Fetched
  <2>4. QED
    BY <1>3, <2>1, <2>2, <2>3
<1>5. CASE DiscordServes
  <2> DEFINE r == Head(requests)
             V == [about |-> "voice", data |-> voice, resolves |-> TRUE]
             K == [about |-> "channel", data |-> channel, resolves |-> TRUE]
  <2>1. /\ requests # <<>> /\ requests' = Tail(requests) /\ Serve(r)
        /\ UNCHANGED <<client, rpcState, cache>>
    BY <1>5 DEF DiscordServes
  <2>2. rpcState \in {WAITING, "READY"} /\ r \in RequestTypes
    BY <1>0, <2>1, Receiving DEF LoginInv, Unconnected
  <2>3. V \in EventTypes /\ V.about = "voice" /\ V.data = voice
    BY <1>0, EventType
  <2>4. K \in EventTypes /\ K.about = "channel" /\ K.data = channel
    BY <1>0, EventType
  <2>5. CASE rpcState = WAITING
    <3>1. /\ r = Fetch <=> requests' = <<>>
          /\ r \in {Subscribe("voice"), Subscribe("channel"), Fetch}
      BY <2>1, <2>5, StageServed DEF LoginInv
    <3>2. ASSUME NEW x \in EventTypes, Changes(voice, channel, <<x>>)
          PROVE  events' = Append(events, x) /\ voice' = voice /\ channel' = channel
      <4>1. events \o <<x>> = Append(events, x) /\ Append(events, x) \in Seq(EventTypes)
        BY <1>0, <3>2, Joining
      <4>2. events' = events \o <<x>> \o <<>> \o <<>> /\ voice' = voice /\ channel' = channel
        BY <3>2 DEF Changes
      <4>3. QED
        BY <4>1, <4>2
    <3>3. CASE r = Subscribe("voice")
      <4>1. Changes(voice, channel, <<V>>)
        BY <2>1, <3>3 DEF Serve, Subscribe
      <4>2. events' = Append(events, V) /\ voice' = voice
        BY <2>3, <3>2, <4>1
      <4>3. Follows(Append(events, V), "voice", cache[client].voice, voice)
        BY <1>0, <2>3, FollowsSent
      <4>4. FollowsVoice'
        BY <2>1, <4>2, <4>3 DEF FollowsVoice
      <4>5. ~Fetched'
        BY <2>1, <2>5, <3>1, <3>3 DEF Fetched, Subscribe, Fetch
      <4>6. QED
        BY <4>4, <4>5
    <3>4. CASE r = Subscribe("channel")
      <4>1. Changes(voice, channel, <<>>) /\ reporting' = reporting \cup {"channel"}
        BY <2>1, <3>4 DEF Serve, Subscribe
      <4>2. "voice" \in reporting /\ FollowsVoice => FollowsVoice'
        BY <1>0, <2>1, <4>1, ChangesFollow DEF FollowsVoice
      <4>3. ~Fetched'
        BY <2>1, <2>5, <3>1, <3>4 DEF Fetched, Subscribe, Fetch
      <4>4. QED
        BY <1>1, <4>1, <4>2, <4>3
    <3>5. CASE r = Fetch
      <4>1. Changes(voice, channel, <<K>>) /\ reporting' = reporting
        BY <2>1, <3>5 DEF Serve, Fetch
      <4>2. events' = Append(events, K) /\ voice' = voice /\ channel' = channel
        BY <2>4, <3>2, <4>1
      <4>3. Follows(Append(events, K), "channel", cache[client].channel, channel)
        BY <1>0, <2>4, FollowsSent
      <4>4. FollowsVoice => Follows(Append(events, K), "voice", cache[client].voice, voice)
        BY <1>0, <2>4, FollowsOther DEF FollowsVoice
      <4>5. FollowsChannel' /\ (FollowsVoice => FollowsVoice')
        BY <2>1, <4>2, <4>3, <4>4 DEF FollowsVoice, FollowsChannel
      <4>6. QED
        BY <1>1, <4>1, <4>5
    <3>6. QED
      BY <3>1, <3>3, <3>4, <3>5
  <2>6. CASE rpcState = "READY"
    <3>1. r.cmd \notin {"SUBSCRIBE", "GET_SELECTED_VOICE_CHANNEL"}
      BY <1>0, <2>1, <2>6, ServedHead DEF LoginInv
    <3>2. reporting' = reporting
      BY <2>1, <3>1 DEF Serve
    <3>3. Fetched
      BY <2>6 DEF Fetched
    <3>4. CASE r.cmd = "SELECT_VOICE_CHANNEL" /\ Changes(voice, r.to, <<>>)
      <4>1. r.to \in Selections
        BY <2>2, <3>4, RequestFacts
      <4>2. QED
        BY <1>0, <1>3, <2>1, <3>2, <3>3, <3>4, <4>1
    <3>5. CASE /\ r.cmd \in {"mute", "deaf", "ptt"}
               /\ Changes(SetVoice(r.cmd, r.to = "on"), channel, <<>>)
      <4>1. SetVoice(r.cmd, r.to = "on") \in Voice
        BY <1>0, <3>5, SetVoiceType
      <4>2. QED
        BY <1>0, <1>3, <2>1, <3>2, <3>3, <3>5, <4>1
    <3>6. QED
      BY <2>1, <3>1, <3>4, <3>5 DEF Serve
  <2>7. QED
    BY <2>2, <2>5, <2>6
<1>6. CASE LoseConnection
  BY <1>6 DEF LoseConnection, Fetched
<1>7. CASE Authenticated
  <2>1. reporting' = {} /\ requests = <<>> /\ rpcState' = WAITING
        /\ requests' = requests \o InitialRequests
    BY <1>7 DEF Authenticated, LoginInv, Unconnected
  <2>2. requests' # <<>>
    BY <2>1 DEF InitialRequests
  <2>3. QED
    BY <2>1, <2>2 DEF Fetched
<1>8. CASE ReadMessage
  <2> DEFINE e == Head(events)
  <2>1. /\ events # <<>> /\ events' = Tail(events)
        /\ e \in EventTypes /\ e.about \in Topics
        /\ cache' = [cache EXCEPT ![client][e.about] = <<e.data>>]
    BY <1>8, ReadEffect
  <2>2. UNCHANGED <<voice, channel, reporting, requests, client, rpcState>>
    BY <1>8 DEF ReadMessage
  <2>3. cache'[client].voice = IF e.about = "voice" THEN <<e.data>> ELSE cache[client].voice
    BY <2>1, PublishEffect DEF Topics
  <2>4. cache'[client].channel =
          IF e.about = "channel" THEN <<e.data>> ELSE cache[client].channel
    BY <2>1, PublishEffect DEF Topics
  <2> HIDE DEF e
  <2>5. FollowsVoice => FollowsVoice'
    <3>1. FollowsVoice => Follows(Tail(events), "voice",
            IF Head(events).about = "voice" THEN <<Head(events).data>>
              ELSE cache[client].voice, voice)
      BY <1>0, <2>1, FollowsRead DEF FollowsVoice
    <3>2. QED
      BY <2>1, <2>2, <2>3, <3>1 DEF FollowsVoice, e
  <2>6. FollowsChannel => FollowsChannel'
    <3>1. FollowsChannel => Follows(Tail(events), "channel",
            IF Head(events).about = "channel" THEN <<Head(events).data>>
              ELSE cache[client].channel, channel)
      BY <1>0, <2>1, FollowsRead DEF FollowsChannel
    <3>2. QED
      BY <2>1, <2>2, <2>4, <3>1 DEF FollowsChannel, e
  <2>7. Fetched' => Fetched
    BY <2>2 DEF Fetched
  <2>8. QED
    BY <1>1, <2>2, <2>5, <2>6, <2>7
<1>9. CASE BecomeReady
  <2>1. rpcState = WAITING /\ resolved = Topics
        /\ UNCHANGED <<voice, channel, reporting, events, client, cache>>
    BY <1>9 DEF BecomeReady, HasInitialData
  <2>2. Fetched
    BY <2>1 DEF LoginInv, Fetched, Topics
  <2>3. QED
    BY <1>1, <2>1, <2>2 DEF FollowsVoice, FollowsChannel
<1>10. CASE ResetClient \/ ConnectToDiscord \/ LateReady
  <2>1. reporting' = reporting /\ rpcState \in Unconnected /\ rpcState' \in Unconnected
    BY <1>10 DEF ResetClient, ConnectToDiscord, LateReady, Unconnected
  <2>2. QED
    BY <2>1 DEF LoginInv, Fetched, Unconnected
<1>11. CASE /\ UNCHANGED <<voice, channel, reporting, events, client, rpcState, cache>>
            /\ requests' = requests \/ rpcState \in {"READY", "LATE"}
  <2>1. Fetched' => Fetched
    BY <1>11 DEF Fetched
  <2>2. QED
    BY <1>1, <1>11, <2>1 DEF FollowsVoice, FollowsChannel
<1>12. QED
  <2>1. ASSUME NEW b \in Buttons, \E a \in Placeable[b] : FirstWillAppear(b, a)
        PROVE  UNCHANGED <<discord, events, client, rpcState, cache>>
    BY <2>1 DEF FirstWillAppear
  <2>2. ASSUME NEW b \in Buttons, \E id \in Channels : DidReceiveSettings(b, id)
        PROVE  UNCHANGED <<discord, events, client, rpcState, cache>>
    BY <2>2 DEF DidReceiveSettings
  <2>3. ASSUME NEW b \in Buttons, WillAppear(b) \/ Task(b)
        PROVE  UNCHANGED <<discord, events, client, rpcState, cache>>
    BY <2>3 DEF WillAppear, Task, TaskAttaches, TaskShows
  <2>4. ASSUME NEW b \in Buttons, KeyUp(b)
        PROVE  /\ UNCHANGED <<voice, channel, reporting, events, client, rpcState, cache>>
               /\ rpcState \in {"READY", "LATE"}
    BY <2>4 DEF KeyUp
  <2>5. QED
    BY <1>4, <1>5, <1>6, <1>7, <1>8, <1>9, <1>10, <1>11, <2>1, <2>2, <2>3, <2>4
    DEF Next, Client, Key

-----------------------------------------------------------------------------
(* What the keys show. *)

ShownInvOf(b) ==
  rpcState = "READY" =>
    /\ Settled(b) => shown[b] = DesiredOf(b, client)
    /\ task[b].at = "computed" /\ task[b].of = client /\ ~task[b].late =>
         task[b].icon = DesiredOf(b, client)

\* A key whose state is set shows the data, unless it is of another client.
LEMMA SetShows ==
  ASSUME TypeOK, NEW S, NEW of, SetState(S, of), UNCHANGED <<client, action>>,
         NEW b \in Buttons, b \in S
  PROVE  ShownInvOf(b)'
<1>1. /\ shown'[b] = DesiredState(action[b], cache'[of[b]], mChannelId'[b])
      /\ behind'[b] = (of[b] # client)
      /\ task'[b] = IF task[b].at = "computed"
                      THEN [task[b] EXCEPT !.late = TRUE] ELSE task[b]
  BY SetStateOf
<1>2. Settled(b)' => shown'[b] = DesiredState(action'[b], cache'[client'], mChannelId'[b])
  BY <1>1 DEF Settled
<1>3. task'[b].at = "computed" => task'[b].late
  <2>1. task[b] \in Tasks
    BY DEF TypeOK
  <2>2. QED
    BY <1>1, <2>1 DEF Tasks
<1>4. QED
  BY <1>2, <1>3 DEF ShownInvOf, DesiredOf

\* A key whose state is not set shows the data still, if that has not changed for
\* the key; if its channel has changed the icon is behind.
LEMMA NotSetShows ==
  ASSUME TypeOK, SubsInv, NEW S, NEW of, SetState(S, of),
         UNCHANGED <<client, rpcState, action>>,
         NEW b \in Buttons, b \notin S, ShownInvOf(b),
         action[b] # NoAction /\ ~Posting(b, client) =>
           \A id : DesiredState(action[b], cache'[client], id) =
                     DesiredState(action[b], cache[client], id)
  PROVE  ShownInvOf(b)'
<1>1. /\ shown'[b] = shown[b]
      /\ behind'[b] = (behind[b] \/ mChannelId'[b] # mChannelId[b])
      /\ task'[b] = IF task[b].at = "computed" /\ mChannelId'[b] # mChannelId[b]
                      THEN [task[b] EXCEPT !.late = TRUE] ELSE task[b]
  BY SetStateOf
<1>2. CASE mChannelId'[b] # mChannelId[b]
  <2>1. task'[b].at = "computed" => task'[b].late
    <3>1. task[b] \in Tasks
      BY DEF TypeOK
    <3>2. QED
      BY <1>1, <1>2, <3>1 DEF Tasks
  <2>2. ~Settled(b)'
    BY <1>1, <1>2 DEF Settled
  <2>3. QED
    BY <2>1, <2>2 DEF ShownInvOf
<1>3. CASE mChannelId'[b] = mChannelId[b]
  <2>1. task'[b] = task[b] /\ behind'[b] = (behind[b] \/ FALSE)
    BY <1>1, <1>3
  <2>2. action[b] # NoAction /\ ~Posting(b, client) => DesiredOf(b, client)' = DesiredOf(b, client)
    BY <1>3 DEF DesiredOf
  <2>3. Settled(b)' => Settled(b)
    BY <2>1 DEF Settled
  <2>4. Settled(b) => action[b] # NoAction /\ ~Posting(b, client)
    BY DEF Settled, Posting, NoTask
  <2>5. task[b].at = "computed" => action[b] # NoAction /\ ~Posting(b, client)
    BY DEF SubsInv, Posting, NoTask
  <2>6. QED
    BY <1>1, <2>1, <2>2, <2>3, <2>4, <2>5 DEF ShownInvOf
<1>4. QED
  BY <1>2, <1>3

\* A key that a step leaves alone.
LEMMA UntouchedShows ==
  ASSUME NEW b \in Buttons, ShownInvOf(b), UNCHANGED <<client, rpcState, cache>>,
         action'[b] = action[b], mChannelId'[b] = mChannelId[b], shown'[b] = shown[b],
         behind'[b] = behind[b], task'[b] = task[b]
  PROVE  ShownInvOf(b)'
BY DEF ShownInvOf, Settled, DesiredOf

LEMMA ShownInit == Init => \A b \in Buttons : ShownInvOf(b)
BY DEF Init, ShownInvOf

LEMMA ShownStep ==
  ASSUME TypeOK, TaskInv, SubsInv, [Next]_vars, NEW b \in Buttons, ShownInvOf(b)
  PROVE  ShownInvOf(b)'
<1>0. /\ action \in [Buttons -> ActionClasses \cup {NoAction}]
      /\ mChannelId \in [Buttons -> Selections] /\ shown \in [Buttons -> 0 .. 1]
      /\ behind \in [Buttons -> BOOLEAN] /\ task \in [Buttons -> Tasks]
      /\ client \in 1 .. MaxClients
  BY DEF TypeOK
<1>1. CASE rpcState' # "READY"
  BY <1>1 DEF ShownInvOf
<1>2. CASE UNCHANGED <<client, rpcState, cache, keys, icons>>
  BY <1>2, UntouchedShows
<1>3. CASE ReadMessage /\ rpcState = "READY"
  <2> DEFINE e == Head(events)
             S == {x \in Buttons : Hears(x, e.about)}
  <2>1. /\ e \in EventTypes /\ e.about \in Topics
        /\ cache' = [cache EXCEPT ![client][e.about] = <<e.data>>]
    BY <1>3, ReadEffect
  <2>2. SetState(S, FromClient) /\ UNCHANGED <<client, rpcState, action>>
    BY <1>3 DEF ReadMessage, Publish
  <2>3. CASE b \in S
    BY <2>2, <2>3, SetShows
  <2>4. CASE b \notin S
    <3>1. ASSUME action[b] # NoAction, ~Posting(b, client), NEW id
          PROVE  DesiredState(action[b], cache'[client], id) =
                   DesiredState(action[b], cache[client], id)
      <4>1. subs[client][b] > 0
        BY <1>3, <3>1 DEF SubsInv
      <4>2. ~(e.about = "channel" <=> action[b].sets = "channel")
        BY <2>4, <4>1 DEF Hears
      <4>3. IF action[b].sets = "channel" THEN cache'[client].channel = cache[client].channel
                                          ELSE cache'[client].voice = cache[client].voice
        BY <2>1, <4>2, PublishEffect DEF Topics
      <4>4. QED
        BY <4>3, DesiredDepends
    <3>2. QED
      BY <2>2, <2>4, <3>1, NotSetShows
  <2>5. QED
    BY <2>3, <2>4
<1>4. CASE BecomeReady
  <2> DEFINE S == {x \in Buttons : action[x] # NoAction}
  <2>1. SetState(S, FromClient) /\ UNCHANGED <<client, action>>
    BY <1>4 DEF BecomeReady, Attach, Placed
  <2>2. CASE b \in S
    BY <2>1, <2>2, SetShows
  <2>3. CASE b \notin S
    <3>1. action[b] = NoAction /\ action'[b] = NoAction /\ task[b] = NoTask
      BY <2>1, <2>3 DEF SubsInv
    <3>2. task'[b] = NoTask
      BY <2>1, <3>1, SetStateKeeps DEF SameTask
    <3>3. QED
      BY <3>1, <3>2 DEF ShownInvOf, Settled, NoTask
  <2>4. QED
    BY <2>2, <2>3
<1>5. ASSUME NEW x \in Buttons, NEW a \in Placeable[x], FirstWillAppear(x, a)
      PROVE  ShownInvOf(b)'
  <2>1. CASE x = b
    <3>1. task'[b] = Posted /\ UNCHANGED <<rpcState, client>>
      BY <1>0, <1>5, <2>1 DEF FirstWillAppear
    <3>2. rpcState = "READY" => task'[b].at = "posted" /\ NoTask.at = "none"
      BY <3>1 DEF Posted, NoTask
    <3>3. QED
      BY <3>1, <3>2 DEF ShownInvOf, Settled
  <2>2. CASE x # b
    <3>1. action'[b] = action[b] /\ task'[b] = task[b]
      BY <1>0, <1>5, <2>2 DEF FirstWillAppear
    <3>2. UNCHANGED <<client, rpcState, cache, mChannelId, shown, behind>>
      BY <1>5 DEF FirstWillAppear
    <3>3. QED
      BY <3>1, <3>2, UntouchedShows
  <2>3. QED
    BY <2>1, <2>2
<1>6. ASSUME NEW S, SetState(S, holds), UNCHANGED <<client, rpcState, cache, action>>
      PROVE  ShownInvOf(b)'
  <2>1. CASE b \in S
    BY <1>6, <2>1, SetShows
  <2>2. CASE b \notin S
    BY <1>6, <2>2, NotSetShows
  <2>3. QED
    BY <2>1, <2>2
<1>7. ASSUME NEW x \in Buttons, NEW id \in Channels, DidReceiveSettings(x, id)
      PROVE  ShownInvOf(b)'
  BY <1>6, <1>7 DEF DidReceiveSettings
<1>8. ASSUME NEW x \in Buttons, WillAppear(x)
      PROVE  ShownInvOf(b)'
  BY <1>6, <1>8 DEF WillAppear
<1>9. ASSUME NEW x \in Buttons, KeyUp(x)
      PROVE  ShownInvOf(b)'
  BY <1>6, <1>9 DEF KeyUp
<1>10. ASSUME NEW x \in Buttons, TaskAttaches(x)
       PROVE  ShownInvOf(b)'
  <2>1. UNCHANGED <<client, rpcState, cache, action, mChannelId, shown, behind>>
    BY <1>10 DEF TaskAttaches
  <2>2. CASE x = b
    <3>1. task[b] # NoTask
      BY <1>10, <2>2 DEF TaskAttaches, NoTask
    <3>2. task[b].of \in 1 .. MaxClients
      BY <3>1, KeyTypes DEF TaskInv
    <3>3. /\ task'[b].of = task[b].of /\ task'[b].icon = DesiredOf(b, task[b].of)
          /\ task'[b].at = "computed"
      BY <1>10, <2>2, <3>2, AttachEffect
    <3>4. ~Settled(b)'
      BY <3>3 DEF Settled, NoTask
    <3>5. DesiredOf(b, client)' = DesiredOf(b, client)
      BY <2>1 DEF DesiredOf
    <3>6. QED
      BY <2>1, <3>3, <3>4, <3>5 DEF ShownInvOf
  <2>3. CASE x # b
    <3>1. task'[b] = task[b]
      BY <1>0, <1>10, <2>3 DEF TaskAttaches
    <3>2. QED
      BY <2>1, <3>1, UntouchedShows
  <2>4. QED
    BY <2>2, <2>3
<1>11. ASSUME NEW x \in Buttons, TaskShows(x)
       PROVE  ShownInvOf(b)'
  <2>1. UNCHANGED <<client, rpcState, cache, action, mChannelId>>
    BY <1>11 DEF TaskShows
  <2>2. CASE x = b
    <3>1. /\ shown'[b] = task[b].icon /\ task'[b] = NoTask
          /\ behind'[b] = (task[b].late \/ task[b].of # client)
      BY <1>11, <2>2, ShowEffect
    <3>2. DesiredOf(b, client)' = DesiredOf(b, client) /\ task[b].at = "computed"
      BY <1>11, <2>1, <2>2 DEF DesiredOf, TaskShows
    <3>3. Settled(b)' => ~task[b].late /\ task[b].of = client
      BY <3>1 DEF Settled
    <3>4. task'[b].at # "computed"
      BY <3>1 DEF NoTask
    <3>5. QED
      BY <2>1, <3>1, <3>2, <3>3, <3>4 DEF ShownInvOf
  <2>3. CASE x # b
    <3>1. task'[b] = task[b] /\ shown'[b] = shown[b] /\ behind'[b] = behind[b]
      BY <1>0, <1>11, <2>3 DEF TaskShows
    <3>2. QED
      BY <2>1, <3>1, UntouchedShows
  <2>4. QED
    BY <2>2, <2>3
<1>12. QED
  <2>1. CASE DiscordChanges \/ DiscordServes \/ UNCHANGED vars
    BY <1>2, <2>1 DEF DiscordChanges, DiscordServes
  <2>2. CASE \/ LoseConnection \/ Authenticated \/ LateReady
             \/ ResetClient \/ ConnectToDiscord
    BY <1>1, <2>2 DEF LoseConnection, Authenticated, LateReady, ResetClient, ConnectToDiscord
  <2>3. CASE ReadMessage
    BY <1>1, <1>3, <2>3 DEF ReadMessage
  <2>4. QED
    BY <1>4, <1>5, <1>7, <1>8, <1>9, <1>10, <1>11, <2>1, <2>2, <2>3 DEF Next, Client, Task, Key

-----------------------------------------------------------------------------
(* The theorems. *)

LEMMA ShownInvParts == (\A b \in Buttons : ShownInvOf(b)) <=> ShownInv
BY DEF ShownInv, ShownInvOf, ButtonsShowTheData

LEMMA IInvInit == Init => IInv
BY TypeInit, LoginInit, LoadInit, FollowInit, SubsInit, TaskInit, ShownInit, ShownInvParts
DEF IInv

LEMMA IInvStep == IInv /\ [Next]_vars => IInv'
<1> SUFFICES ASSUME IInv, [Next]_vars PROVE IInv'
  OBVIOUS
<1>1. TypeOK /\ LoginInv /\ LoadInv /\ FollowInv /\ SubsInv /\ TaskInv /\ ShownInv
  BY DEF IInv
<1>2. TypeOK'
  BY <1>1, TypeStep
<1>3. LoginInv'
  BY <1>1, LoginStep
<1>4. LoadInv'
  BY <1>1, LoadStep
<1>5. FollowInv'
  BY <1>1, FollowStep
<1>6. SubsInv'
  BY <1>1, <1>2, SubsStep
<1>7. TaskInv'
  BY <1>1, <1>2, TaskStep
<1>8. ShownInv'
  <2>1. \A b \in Buttons : ShownInvOf(b)
    BY <1>1, ShownInvParts
  <2>2. ASSUME NEW b \in Buttons PROVE ShownInvOf(b)'
    BY <1>1, <2>1, ShownStep
  <2>3. QED
    BY <2>2 DEF ShownInv, ShownInvOf, ButtonsShowTheData
<1>9. QED
  BY <1>2, <1>3, <1>4, <1>5, <1>6, <1>7, <1>8 DEF IInv

\* The inductive invariant holds.
LEMMA IInvHolds == Spec => []IInv
BY IInvInit, IInvStep, PTL DEF Spec

\* Types, for any keys, channels and number of clients: in particular the clients
\* created stay within their number, so that none is replaced that is not lost.
THEOREM ActionsTypeCorrect == Spec => []TypeOK
<1>1. IInv => TypeOK
  BY DEF IInv
<1>2. QED
  BY <1>1, IInvHolds, PTL

\* No action reads data that has not arrived (mData is dereferenced unchecked), but for
\* the one case that HeldDataIsLoaded names: the READY of a client that has lost its
\* connection finds mClient to be the successor, which is still logging in.
THEOREM NoActionReadsMissingData == Spec => []HeldDataIsLoaded
<1>1. IInv => HeldDataIsLoaded
  BY DEF IInv, LoadInv, HoldsData, Loaded, HeldDataIsLoaded
<1>2. QED
  BY <1>1, IInvHolds, PTL

\* The data of a READY client is what Discord has, but for what is on its way:
\* subscribing ahead of the fetch loses no change.
THEOREM NoChangeIsLost == Spec => []CacheFollowsDiscord
<1>1. IInv => CacheFollowsDiscord
  BY DEF IInv, LoginInv, FollowInv, Fetched, CacheFollowsDiscord, Topics
<1>2. QED
  BY <1>1, IInvHolds, PTL

\* A READY client's buttons show its data, however tasks of constructors, events,
\* settings and replacements of the client interleave.
THEOREM IconsAreRight == Spec => []ButtonsShowTheData
<1>1. IInv => ButtonsShowTheData
  BY DEF IInv, ShownInv
<1>2. QED
  BY <1>1, IInvHolds, PTL

\* A READY client calls each button at least once for each event, at most twice.
THEOREM NoButtonIsDeaf == Spec => []ButtonsAreSubscribed
<1>1. IInv => ButtonsAreSubscribed
  <2> SUFFICES ASSUME IInv, NEW b \in Buttons
               PROVE  /\ subs[client][b] <= 2
                      /\ rpcState = "READY" /\ action[b] # NoAction
                         /\ task[b].at # "posted" => subs[client][b] > 0
    BY DEF ButtonsAreSubscribed
  <2>1. SubsInv /\ client \in 1 .. MaxClients
    BY DEF IInv, TypeOK
  <2>2. QED
    BY <2>1 DEF SubsInv, Posting
<1>2. QED
  BY <1>1, IInvHolds, PTL

\* What a press asks for answers the icon that the user sees.
LEMMA PressStep ==
  ASSUME IInv, NEW b \in Buttons
  PROVE  PressAnswers(b)
<1> SUFFICES ASSUME KeyUp(b), rpcState = "READY", Settled(b), holds[b] = client,
                    action[b].to = "opposite", mChannelId'[b] = mChannelId[b]
             PROVE  requests'[Len(requests')].to =
                      IF shown[b] = 1
                        THEN IF action[b] = JoinVoiceChannelAction THEN NoChannel ELSE "off"
                        ELSE IF action[b] = JoinVoiceChannelAction THEN configured[b] ELSE "on"
  BY DEF PressAnswers
<1> DEFINE a == action[b]
           d == cache[client]
           id == configured[b]
           r == Request(a, client, id)
<1>1. /\ TypeOK /\ client \in 1 .. MaxClients /\ client # 0 /\ requests \in Seq(RequestTypes)
      /\ d \in ClientData /\ id \in Selections /\ mChannelId \in [Buttons -> Selections]
      /\ rpcState = "READY" /\ a # NoAction /\ a \in ActionClasses
  BY DEF IInv, TypeOK, KeyUp
<1>2. shown[b] = DesiredState(a, d, mChannelId[b])
  BY <1>1 DEF IInv, ShownInv, ButtonsShowTheData, DesiredOf
<1>3. d.voice # <<>> /\ d.channel # <<>>
  BY <1>1 DEF IInv, LoadInv, LoginInv, Topics
<1>4. r \in RequestTypes
  BY <1>1, RequestType
<1>5. requests' = Append(requests, r)
  BY DEF KeyUp
<1>6. requests'[Len(requests')] = r
  <2> HIDE DEF r
  <2>1. Len(Append(requests, r)) = Len(requests) + 1
        /\ Append(requests, r)[Len(requests) + 1] = r
    BY <1>1, <1>4
  <2>2. QED
    BY <1>5, <2>1
<1>7. CASE a = JoinVoiceChannelAction
  <2>1. id # NoChannel /\ mChannelId'[b] = id
    BY <1>1, <1>7 DEF KeyUp
  <2>2. a.sets = "channel" /\ a.lit = TRUE /\ a # HangupAction
    BY <1>7 DEF JoinVoiceChannelAction, HangupAction
  <2>3. shown[b] = IF d.channel = <<id>> THEN 1 ELSE 0
    BY <1>2, <2>1, <2>2 DEF DesiredState
  <2>4. d.channel = <<Head(d.channel)>>
    <3>1. d.channel \in PubSub(Selections)
      BY <1>1 DEF ClientData
    <3>2. QED
      BY <1>3, <3>1, PubSubType
  <2>5. d.channel = <<id>> <=> Head(d.channel) = id
    BY <2>4
  <2>6. r.to = IF Head(d.channel) = id THEN NoChannel ELSE id
    BY <2>2 DEF Request
  <2>7. QED
    BY <1>6, <1>7, <2>3, <2>5, <2>6
<1>8. CASE a # JoinVoiceChannelAction
  <2>1. a.sets # "channel" /\ a.lit = TRUE
    BY <1>1, <1>8, ActionFacts
  <2>2. shown[b] = IF IsOn(a.sets, Head(d.voice)) = TRUE THEN 1 ELSE 0
    BY <1>2, <2>1 DEF DesiredState
  <2>3. IsOn(a.sets, Head(d.voice)) \in BOOLEAN
    <3>1. Head(d.voice) \in Voice
      BY <1>1, <1>3, PubSubType DEF ClientData
    <3>2. QED
      BY <1>1, <2>1, <3>1, ActionFacts DEF IsOn, Voice
  <2>4. r.to = IF IsOn(a.sets, Head(d.voice)) THEN "off" ELSE "on"
    BY <2>1 DEF Request
  <2>5. QED
    BY <1>6, <1>8, <2>2, <2>3, <2>4
<1>9. QED
  BY <1>7, <1>8

\* A toggle asks for the opposite of what its key shows; a Join key leaves its
\* channel just if it shows that the user is in it.
THEOREM PressesMeanWhatKeysShow == Spec => PressesAnswerIcons
<1>1. IInv => [\A b \in Buttons : PressAnswers(b)]_vars
  BY PressStep
<1>2. QED
  BY <1>1, IInvHolds, PTL DEF PressesAnswerIcons
=============================================================================
