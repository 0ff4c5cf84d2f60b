------------------------ MODULE GlobalSettings_proofs ------------------------
(* Proofs about GlobalSettings, for any apps and any number of changes. *)
EXTENDS GlobalSettings, SequenceTheorems, TLAPS

-----------------------------------------------------------------------------
(* Queues of messages. *)

\* A message that is sent joins those under way.
LEMMA Sending ==
  ASSUME NEW S, NEW s \in Seq(S), NEW x \in S
  PROVE  /\ Append(s, x) \in Seq(S)
         /\ Range(Append(s, x)) = Range(s) \cup {x}
<1>1. /\ Append(s, x) \in Seq(S)
      /\ Len(Append(s, x)) = Len(s) + 1
      /\ DOMAIN Append(s, x) = 1 .. Len(s) + 1
      /\ DOMAIN s = 1 .. Len(s) /\ Len(s) \in Nat
  OBVIOUS
<1>2. /\ \A i \in 1 .. Len(s) : Append(s, x)[i] = s[i]
      /\ Append(s, x)[Len(s) + 1] = x
  OBVIOUS
<1>3. \A y : y \in Range(Append(s, x)) => y \in Range(s) \cup {x}
  BY <1>1, <1>2 DEF Range
<1>4. \A y : y \in Range(s) \cup {x} => y \in Range(Append(s, x))
  BY <1>1, <1>2 DEF Range
<1>5. QED
  BY <1>1, <1>3, <1>4

\* One that is received was under way, and the others still are.
LEMMA Receiving ==
  ASSUME NEW S, NEW s \in Seq(S), s # <<>>
  PROVE  /\ Head(s) \in S /\ Head(s) \in Range(s)
         /\ Tail(s) \in Seq(S) /\ Range(Tail(s)) \subseteq Range(s)
<1>1. /\ Head(s) \in S /\ Head(s) = s[1] /\ Tail(s) \in Seq(S)
      /\ Len(s) \in Nat \ {0} /\ DOMAIN s = 1 .. Len(s)
      /\ DOMAIN Tail(s) = 1 .. Len(s) - 1
      /\ \A i \in 1 .. Len(s) - 1 : Tail(s)[i] = s[i + 1]
  BY EmptySeq, LenProperties, HeadTailProperties
<1>2. QED
  BY <1>1 DEF Range

LEMMA NoMessage == Range(<<>>) = {} /\ \A x : Range(<<x>>) = {x}
BY DEF Range

\* What reaches the plugin last, or what it has if nothing is on its way.
Latest(queue, held) == IF queue = <<>> THEN held ELSE queue[Len(queue)]

LEMMA LatestSent ==
  ASSUME NEW S, NEW s \in Seq(S), NEW x \in S, NEW held
  PROVE  Latest(Append(s, x), held) = x
BY DEF Latest

LEMMA LatestReceived ==
  ASSUME NEW S, NEW s \in Seq(S), s # <<>>, NEW held
  PROVE  Latest(Tail(s), Head(s)) = Latest(s, held)
<1>1. /\ Len(s) \in Nat \ {0} /\ Len(Tail(s)) = Len(s) - 1
      /\ Tail(s) \in Seq(S) /\ Head(s) = s[1]
      /\ \A i \in 1 .. Len(s) - 1 : Tail(s)[i] = s[i + 1]
  BY EmptySeq, LenProperties, HeadTailProperties
<1>2. CASE Tail(s) = <<>>
  <2>1. Len(s) = 1
    <3>1. Len(<<>>) = 0
      BY EmptySeq
    <3>2. Len(Tail(s)) = 0
      BY <1>2, <3>1
    <3>3. Len(s) \in Nat \ {0} /\ Len(Tail(s)) = Len(s) - 1
      BY <1>1
    <3>4. QED
      BY <3>2, <3>3
  <2>2. QED
    BY <2>1, <1>1, <1>2 DEF Latest
<1>3. CASE Tail(s) # <<>>
  <2>1. Len(s) - 1 \in 1 .. Len(s) - 1
    BY <1>1, <1>3, EmptySeq
  <2>2. QED
    BY <2>1, <1>1, <1>3 DEF Latest
<1>4. QED
  BY <1>2, <1>3

-----------------------------------------------------------------------------
(* Types. *)

\* Settings made of apps and empty strings are settings.
LEMMA CredentialsType ==
  ASSUME NEW i \in Apps \cup {None}, NEW s \in Apps \cup {None},
         NEW a \in Apps \cup {None}, NEW r \in Apps \cup {None}
  PROVE  [id |-> i, secret |-> s, access |-> a, refresh |-> r] \in Credentials
BY DEF Credentials

LEMMA WithTokensType ==
  ASSUME NEW c \in Credentials,
         NEW a \in Apps \cup {None}, NEW r \in Apps \cup {None}
  PROVE  LET d == [c EXCEPT !.access = a, !.refresh = r]
         IN  d \in Credentials /\ App(d) = App(c) /\ d.access = a /\ d.refresh = r
BY DEF Credentials, App

LEMMA NoCredentialsType == NoCredentials \in Credentials
BY CredentialsType DEF NoCredentials

\* The settings a paste leaves name what was pasted, and no token.
LEMMA PastedType ==
  ASSUME NEW c \in Credentials, NEW field \in 1 .. 2, NEW a \in Apps
  PROVE  LET app == [App(c) EXCEPT ![field] = a]
         IN  /\ Pasted(app) \in Credentials
             /\ App(Pasted(app)) = app
             /\ Pasted(app).access = None /\ Pasted(app).refresh = None
<1> DEFINE app == [App(c) EXCEPT ![field] = a]
<1>1. c.id \in Apps \cup {None} /\ c.secret \in Apps \cup {None}
  BY DEF Credentials
<1>2. app = <<app[1], app[2]>> /\ {app[1], app[2]} \subseteq Apps \cup {None}
  <2>1. CASE field = 1
    BY <2>1, <1>1 DEF App
  <2>2. CASE field = 2
    BY <2>2, <1>1 DEF App
  <2>3. QED
    BY <2>1, <2>2
<1>3. QED
  BY <1>2, CredentialsType DEF Pasted, App

\* An exchange leaves the app alone and gives it tokens of its own, or none.
LEMMA ExchangedType ==
  ASSUME NEW c \in Credentials, NEW d \in Exchanged(c)
  PROVE  /\ d \in Credentials /\ App(d) = App(c) /\ d.id = c.id
         /\ d.access = d.refresh /\ d.access \in {c.id, None}
<1>1. PICK token \in {None} \cup {a \in Apps : App(c) = <<a, a>>} :
        d = [c EXCEPT !.access = token, !.refresh = token]
  BY DEF Exchanged
<1>2. token \in Apps \cup {None} /\ token \in {c.id, None}
  BY <1>1 DEF App
<1>3. QED
  BY <1>1, <1>2 DEF Credentials, App

\* What is saved has the app of the one client and the tokens of the other.
LEMMA SavedType ==
  ASSUME NEW c \in Credentials, NEW d \in Credentials
  PROVE  /\ Saved(c, d) \in Credentials /\ App(Saved(c, d)) = App(c)
         /\ Saved(c, d).id = c.id
         /\ Saved(c, d).access = d.access /\ Saved(c, d).refresh = d.refresh
BY DEF Credentials, App, Saved

USE DEF Login, Exchanging, others

LEMMA InitType == Init => TypeOK
<1> SUFFICES ASSUME Init PROVE TypeOK
  OBVIOUS
<1>1. stored \in Credentials
  <2>1. PICK a \in Apps \cup {None} : stored = [id |-> a, secret |-> a, access |-> a, refresh |-> a]
    BY DEF Init
  <2>2. QED
    BY <2>1, CredentialsType
<1>2. /\ toPlugin \in Seq(Credentials) /\ fromPlugin \in Seq(Credentials)
      /\ toPage \in Seq(Credentials)
  BY EmptySeq DEF Init
<1>3. /\ mCredentials \in Credentials /\ credentials \in Credentials
      /\ globalSettings \in Credentials /\ dying \in Credentials
  BY NoCredentialsType DEF Init
<1>4. edits \in 0 .. MaxEdits /\ trouble \in 0 .. MaxTrouble
  BY BoundsAssumption DEF Init
<1>5. /\ up \in BOOLEAN /\ requested \in BOOLEAN
      /\ connecting \in BOOLEAN /\ strayed \in BOOLEAN
  BY DEF Init
<1>6. /\ client \in Login \cup {"none", "READY", "failed", "ended"}
      /\ page \in {"closed", "opened", "shown"}
  BY DEF Init
<1>7. ~up /\ client = "none" /\ ~requested
  BY DEF Init
<1>8. QED
  BY <1>1, <1>2, <1>3, <1>4, <1>5, <1>6, <1>7 DEF TypeOK

\* The end of the process keeps what it has left.
LEMMA EndType ==
  ASSUME TypeOK, EndPlugin, trouble' \in 0 .. MaxTrouble PROVE TypeOK'
<1>1. /\ toPlugin' \in Seq(Credentials) /\ fromPlugin' \in Seq(Credentials)
      /\ stored' \in Credentials /\ toPage' \in Seq(Credentials)
  BY EmptySeq DEF TypeOK, EndPlugin, inspector
<1>2. /\ up' \in BOOLEAN /\ requested' \in BOOLEAN /\ ~up' /\ client' = "none" /\ ~requested'
      /\ connecting' \in BOOLEAN /\ strayed' \in BOOLEAN
  BY DEF TypeOK, EndPlugin
<1>3. /\ mCredentials' \in Credentials /\ credentials' \in Credentials /\ dying' \in Credentials
      /\ client' \in Login \cup {"none", "READY", "failed", "ended"}
      /\ page' \in {"closed", "opened", "shown"}
      /\ globalSettings' \in Credentials
      /\ edits' \in 0 .. MaxEdits
  BY NoCredentialsType DEF TypeOK, EndPlugin, inspector
<1>4. QED
  BY <1>1, <1>2, <1>3 DEF TypeOK

LEMMA TroubleType ==
  ASSUME TypeOK, Troubles PROVE trouble' \in 0 .. MaxTrouble
<1>1. trouble \in 0 .. MaxTrouble
  BY DEF TypeOK
<1>2. trouble < MaxTrouble /\ trouble' = trouble + 1
  BY DEF Troubles
<1>3. QED
  BY <1>1, <1>2, BoundsAssumption

\* A client is constructed before its login has begun.
LEMMA ConnectType ==
  ASSUME TypeOK, NEW c \in Credentials, ConnectToDiscord(c), up' = up
  PROVE  /\ client' \in Login \cup {"none", "READY", "failed", "ended"}
         /\ credentials' \in Credentials
         /\ up' /\ client' \notin {"none", "starting", "failed"} => Complete(credentials')
<1>1. CASE client # "none"
  <2>1. client' = client /\ credentials' = credentials
    BY <1>1 DEF ConnectToDiscord
  <2>2. QED
    BY <2>1 DEF TypeOK
<1>2. CASE client = "none"
  BY <1>2 DEF ConnectToDiscord, TypeOK
<1>3. QED
  BY <1>1, <1>2

\* Every step keeps the types.
LEMMA TypeStep ==
  ASSUME TypeOK, [Next]_vars PROVE TypeOK'
<1> USE DEF deck, plugin, login, inspector
<1>1. CASE StartPlugin
  <2>1. client' = "none" /\ requested' = FALSE
    BY <1>1 DEF StartPlugin, TypeOK
  <2>2. QED
    BY <1>1, <2>1 DEF StartPlugin, TypeOK
<1>2. CASE CrashOrQuit
  BY <1>2, EndType, TroubleType DEF CrashOrQuit
<1>3. CASE RequestSettings
  BY <1>3, Sending DEF RequestSettings, TypeOK
<1>4. CASE StoreSettings
  <2>1. stored' \in Credentials /\ fromPlugin' \in Seq(Credentials)
    BY <1>4, Receiving DEF StoreSettings, TypeOK
  <2>2. toPage' \in Seq(Credentials)
    BY <1>4, <2>1, Sending DEF StoreSettings, TypeOK
  <2>3. QED
    BY <1>4, <2>1, <2>2 DEF StoreSettings, TypeOK
<1>5. CASE DidReceiveGlobalSettings
  <2>1. Head(toPlugin) \in Credentials /\ toPlugin' \in Seq(Credentials) /\ up' = up /\ up
    BY <1>5, Receiving DEF DidReceiveGlobalSettings, TypeOK
  <2>2. CASE Head(toPlugin) = mCredentials
    <3>1. UNCHANGED <<stored, fromPlugin, plugin, login, inspector, edits, trouble>>
      BY <1>5, <2>2 DEF DidReceiveGlobalSettings
    <3>2. up' \in BOOLEAN /\ requested' \in BOOLEAN /\ up'
      <4>1. up' = up /\ requested' = requested
        BY <1>5 DEF DidReceiveGlobalSettings
      <4>2. up \in BOOLEAN /\ requested \in BOOLEAN
        BY DEF TypeOK
      <4>3. up
        BY <2>1
      <4>4. QED
        BY <4>1, <4>2, <4>3, Zenon
    <3>3. up' => Complete(credentials') \/ client' \in {"none", "starting", "failed"}
      BY <2>1, <3>1 DEF TypeOK
    <3>4. QED
      BY <2>1, <3>1, <3>2, <3>3 DEF TypeOK
  <2>3. CASE Head(toPlugin) # mCredentials
    <3>1. mCredentials' = Head(toPlugin) /\ ConnectToDiscord(mCredentials')
      BY <1>5, <2>3 DEF DidReceiveGlobalSettings
    <3>2. /\ client' \in Login \cup {"none", "READY", "failed", "ended"}
          /\ credentials' \in Credentials
          /\ up' /\ client' \notin {"none", "starting", "failed"} => Complete(credentials')
      BY <2>1, <3>1, ConnectType
    <3>3. UNCHANGED <<stored, fromPlugin, up, requested, others, inspector, edits, trouble>>
      BY <1>5 DEF DidReceiveGlobalSettings
    <3>4. up' \in BOOLEAN /\ requested' \in BOOLEAN /\ up'
      <4>1. up' = up /\ requested' = requested
        BY <1>5 DEF DidReceiveGlobalSettings
      <4>2. up \in BOOLEAN /\ requested \in BOOLEAN
        BY DEF TypeOK
      <4>3. up
        BY <2>1
      <4>4. QED
        BY <4>1, <4>2, <4>3, Zenon
    <3>5. QED
      BY <2>1, <3>1, <3>2, <3>3, <3>4 DEF TypeOK
  <2>4. QED
    BY <2>2, <2>3
<1>6. CASE ReconnectToDiscord
  <2>1. credentials' \in Credentials /\ dying' \in Credentials
    BY <1>6, NoCredentialsType DEF ReconnectToDiscord, TypeOK
  <2>2. QED
    BY <1>6, <2>1, TroubleType DEF ReconnectToDiscord, TypeOK
<1>19. CASE Reauthenticate
  <2>1. mCredentials' \in Credentials
    BY <1>19, WithTokensType DEF Reauthenticate, TypeOK
  <2>2. QED
    BY <1>19, <2>1, TroubleType DEF Reauthenticate, TypeOK
<1>20. CASE ReconnectEnds
  <2>1. /\ client' \in Login \cup {"none", "READY", "failed", "ended"}
        /\ credentials' \in Credentials
        /\ up' /\ client' \notin {"none", "starting", "failed"} => Complete(credentials')
    BY <1>20, ConnectType DEF ReconnectEnds, TypeOK
  <2>2. QED
    BY <1>20, <2>1 DEF ReconnectEnds, TypeOK
<1>21. CASE DyingExchangeEnds
  <2>1. CASE EndPlugin
    BY <1>21, <2>1, EndType, TroubleType DEF DyingExchangeEnds
  <2>2. CASE ~EndPlugin
    <3>1. PICK from \in Exchanged(dying) :
            /\ SaveCredentials(from)
            /\ strayed' = (strayed \/ from.access \notin {credentials.id, None})
      BY <1>21, <2>2 DEF DyingExchangeEnds
    <3>2. mCredentials' \in Credentials /\ fromPlugin' \in Seq(Credentials)
      <4>1. /\ from \in Credentials /\ credentials \in Credentials
            /\ fromPlugin \in Seq(Credentials)
        BY ExchangedType DEF TypeOK
      <4>2. QED
        BY <3>1, <4>1, SavedType, Sending DEF SaveCredentials
    <3>3. strayed' \in BOOLEAN
      BY <3>1, Zenon DEF TypeOK
    <3>4. dying' = NoCredentials /\ connecting' = TRUE
          /\ UNCHANGED <<stored, toPlugin, up, requested, client, credentials,
                          inspector, entered, edits>>
      BY <1>21, <2>2 DEF DyingExchangeEnds
    <3>5. trouble' \in 0 .. MaxTrouble
      BY <1>21, TroubleType DEF DyingExchangeEnds
    <3>6. QED
      BY <3>2, <3>3, <3>4, <3>5, NoCredentialsType DEF TypeOK
  <2>3. QED
    BY <2>1, <2>2
<1>22. CASE DyingExchangeThrows
  BY <1>22, NoCredentialsType DEF DyingExchangeThrows, TypeOK
<1>7. CASE Initialize
  <2>1. CASE EndPlugin /\ UNCHANGED trouble
    BY <2>1, EndType DEF TypeOK
  <2>2. CASE ~(EndPlugin /\ UNCHANGED trouble)
    BY <1>7, <2>2 DEF Initialize, ClientStep, NothingSaved, TypeOK
  <2>3. QED
    BY <2>1, <2>2
<1>8. CASE Authenticated
  BY <1>8 DEF Authenticated, ClientStep, NothingSaved, TypeOK
<1>9. CASE AuthenticateRefused
  <2>1. credentials' \in Credentials /\ App(credentials') = App(credentials)
    BY <1>9 DEF AuthenticateRefused, TypeOK, Credentials, App
  <2>2. Complete(credentials')
    BY <1>9, <2>1 DEF AuthenticateRefused, ClientStep, TypeOK, Complete, App
  <2>3. QED
    BY <1>9, <2>1, <2>2 DEF AuthenticateRefused, ClientStep, TypeOK
<1>10. CASE Authorized
  BY <1>10 DEF Authorized, ClientStep, NothingSaved, TypeOK
<1>11. CASE ExchangeEnds
  <2>1. credentials \in Credentials /\ credentials' \in Exchanged(credentials)
    BY <1>11 DEF ExchangeEnds, TypeOK
  <2>2. credentials' \in Credentials /\ App(credentials') = App(credentials)
    BY <2>1, ExchangedType
  <2>3. Complete(credentials')
    BY <1>11, <2>2 DEF ExchangeEnds, ClientStep, TypeOK, Complete, App
  <2>4. client' \in Login \cup {"failed"}
    BY <1>11 DEF ExchangeEnds
  <2>5. mCredentials' \in Credentials /\ fromPlugin' \in Seq(Credentials)
    <3>1. fromPlugin \in Seq(Credentials)
      BY DEF TypeOK
    <3>2. QED
      BY <1>11, <2>1, <2>2, <3>1, SavedType, Sending DEF ExchangeEnds, SaveCredentials
  <2>6. QED
    BY <1>11, <2>2, <2>3, <2>4, <2>5, TroubleType DEF ExchangeEnds, ClientStep, TypeOK
<1>12. CASE ExchangeThrows
  BY <1>12 DEF ExchangeThrows, ClientStep, NothingSaved, TypeOK
<1>13. CASE OpenPage
  <2>1. <<stored>> \in Seq(Credentials)
    <3>1. stored \in Credentials
      BY DEF TypeOK
    <3>2. QED
      BY <3>1
  <2>2. QED
    BY <1>13, <2>1, NoCredentialsType DEF OpenPage, TypeOK
<1>14. CASE ClosePage
  BY <1>14, NoCredentialsType, EmptySeq DEF ClosePage, TypeOK
<1>15. CASE PageReceives
  BY <1>15, Receiving DEF PageReceives, TypeOK
<1>16. CASE SaveGlobalSettings
  <2>1. globalSettings' \in Credentials
    <3>1. PICK field \in 1 .. 2, a \in Apps :
            globalSettings' = Pasted([App(globalSettings) EXCEPT ![field] = a])
      BY <1>16 DEF SaveGlobalSettings
    <3>2. globalSettings \in Credentials
      BY DEF TypeOK
    <3>3. QED
      BY <3>1, <3>2, PastedType
  <2>2. toPlugin' \in Seq(Credentials) /\ stored' \in Credentials
    BY <1>16, <2>1, Sending DEF SaveGlobalSettings, TypeOK
  <2>3. edits' \in 0 .. MaxEdits
    <3>1. edits \in 0 .. MaxEdits
      BY DEF TypeOK
    <3>2. edits < MaxEdits /\ edits' = edits + 1
      BY <1>16 DEF SaveGlobalSettings
    <3>3. QED
      BY <3>1, <3>2, BoundsAssumption
  <2>4. QED
    BY <1>16, <2>1, <2>2, <2>3 DEF SaveGlobalSettings, TypeOK
<1>17. CASE UNCHANGED vars
  BY <1>17 DEF vars, TypeOK
<1>18. QED
  BY <1>1, <1>2, <1>3, <1>4, <1>5, <1>6, <1>7, <1>8, <1>9, <1>10, <1>11, <1>12, <1>13,
     <1>14, <1>15, <1>16, <1>17, <1>19, <1>20, <1>21, <1>22 DEF Next, Recorded, ClientLogin

-----------------------------------------------------------------------------
(* Tokens. *)

\* c has no token but those of its own app.
Own(c) == {c.access, c.refresh} \subseteq {c.id, None}

OwnTokens ==
  /\ Own(stored) /\ Own(mCredentials) /\ Own(credentials) /\ Own(dying)
  /\ \A c \in Range(toPlugin) : Own(c)
  /\ \A c \in Range(fromPlugin) : Own(c)

\* An exchange of tokens saves them with the app of mClient.
LEMMA ExchangeSaves ==
  ASSUME TypeOK, NEW from \in Credentials, SaveCredentials(from)
  PROVE  /\ mCredentials' \in Credentials /\ App(mCredentials') = App(credentials)
         /\ from.access = from.refresh /\ from.access \in {credentials.id, None} =>
              Own(mCredentials')
         /\ Range(fromPlugin') = Range(fromPlugin) \cup {mCredentials'}
<1>1. credentials \in Credentials /\ fromPlugin \in Seq(Credentials)
  BY DEF TypeOK
<1>2. mCredentials' = Saved(credentials, from) /\ fromPlugin' = Append(fromPlugin, mCredentials')
  BY DEF SaveCredentials
<1>3. /\ mCredentials' \in Credentials /\ App(mCredentials') = App(credentials)
      /\ mCredentials'.id = credentials.id
      /\ mCredentials'.access = from.access /\ mCredentials'.refresh = from.refresh
  BY <1>1, <1>2, SavedType
<1>4. QED
  BY <1>1, <1>2, <1>3, Sending DEF Own

LEMMA OwnIsProperty == strayed \/ OwnTokens => TokensBelongToApp
BY DEF OwnTokens, Own, TokensBelongToApp

LEMMA NobodyElses == Own(NoCredentials)
BY DEF Own, NoCredentials

LEMMA InitOwn == Init => OwnTokens
<1> SUFFICES ASSUME Init PROVE OwnTokens
  OBVIOUS
<1>1. Own(stored)
  BY DEF Init, Own
<1>2. QED
  BY <1>1, NobodyElses, NoMessage DEF Init, OwnTokens

\* The end of the process adds no settings to those there are.
LEMMA EndOwn ==
  ASSUME OwnTokens, EndPlugin PROVE OwnTokens'
<1>1. /\ stored' = stored /\ mCredentials' = NoCredentials
      /\ credentials' = NoCredentials /\ dying' = NoCredentials
  BY DEF EndPlugin
<1>2. toPlugin' = <<>> /\ fromPlugin' \in {fromPlugin, <<>>}
  BY DEF EndPlugin
<1>3. QED
  BY <1>1, <1>2, NobodyElses, NoMessage DEF OwnTokens

\* A token that has strayed is remembered; no other step gives anybody the token of an
\* app together with another app.
LEMMA OwnStep ==
  ASSUME TypeOK, OwnTokens, [Next]_vars, ~strayed' PROVE OwnTokens'
<1> USE DEF deck, plugin, login, inspector
<1>1. CASE StartPlugin
  BY <1>1, NobodyElses, NoMessage DEF StartPlugin, OwnTokens
<1>2. CASE CrashOrQuit
  BY <1>2, EndOwn DEF CrashOrQuit
<1>3. CASE RequestSettings
  <2>1. Range(toPlugin') = Range(toPlugin) \cup {stored}
    <3>1. toPlugin' = Append(toPlugin, stored)
      BY <1>3 DEF RequestSettings
    <3>2. toPlugin \in Seq(Credentials) /\ stored \in Credentials
      BY DEF TypeOK
    <3>3. QED
      BY <3>1, <3>2, Sending
  <2>2. QED
    BY <1>3, <2>1 DEF RequestSettings, OwnTokens
<1>4. CASE StoreSettings
  <2>1. stored' \in Range(fromPlugin) /\ Range(fromPlugin') \subseteq Range(fromPlugin)
    BY <1>4, Receiving DEF StoreSettings, TypeOK
  <2>2. QED
    BY <1>4, <2>1 DEF StoreSettings, OwnTokens
<1>5. CASE DidReceiveGlobalSettings
  <2>1. Head(toPlugin) \in Range(toPlugin) /\ Range(toPlugin') \subseteq Range(toPlugin)
    BY <1>5, Receiving DEF DidReceiveGlobalSettings, TypeOK
  <2>2. /\ mCredentials' \in {mCredentials, Head(toPlugin)}
        /\ credentials' \in {credentials, Head(toPlugin)}
    BY <1>5 DEF DidReceiveGlobalSettings, ConnectToDiscord
  <2>3. stored' = stored /\ fromPlugin' = fromPlugin /\ dying' = dying
    BY <1>5 DEF DidReceiveGlobalSettings
  <2>4. QED
    BY <2>1, <2>2, <2>3 DEF OwnTokens
<1>6. CASE ReconnectToDiscord
  BY <1>6, NobodyElses DEF ReconnectToDiscord, OwnTokens
<1>15. CASE Reauthenticate
  <2>1. Own(mCredentials')
    BY <1>15 DEF Reauthenticate, Own, TypeOK, Credentials
  <2>2. QED
    BY <1>15, <2>1 DEF Reauthenticate, OwnTokens
<1>16. CASE ReconnectEnds
  BY <1>16 DEF ReconnectEnds, ConnectToDiscord, OwnTokens
<1>17. CASE DyingExchangeEnds
  <2>1. CASE EndPlugin
    BY <2>1, EndOwn
  <2>2. CASE ~EndPlugin
    <3>1. PICK from \in Exchanged(dying) :
            /\ SaveCredentials(from)
            /\ strayed' = (strayed \/ from.access \notin {credentials.id, None})
      BY <1>17, <2>2 DEF DyingExchangeEnds
    <3>2. from \in Credentials /\ from.access = from.refresh
      BY ExchangedType DEF TypeOK
    <3>3. from.access \in {credentials.id, None}
      BY <3>1
    <3>4. Own(mCredentials') /\ Range(fromPlugin') = Range(fromPlugin) \cup {mCredentials'}
      BY <3>1, <3>2, <3>3, ExchangeSaves
    <3>5. dying' = NoCredentials /\ UNCHANGED <<stored, toPlugin, credentials>>
      BY <1>17, <2>2 DEF DyingExchangeEnds
    <3>6. QED
      BY <3>4, <3>5, NobodyElses DEF OwnTokens
  <2>3. QED
    BY <2>1, <2>2
<1>18. CASE DyingExchangeThrows
  BY <1>18, NobodyElses DEF DyingExchangeThrows, OwnTokens
<1>7. CASE Initialize
  <2>1. CASE EndPlugin
    BY <2>1, EndOwn
  <2>2. CASE ~EndPlugin
    BY <1>7, <2>2 DEF Initialize, ClientStep, NothingSaved, OwnTokens
  <2>3. QED
    BY <2>1, <2>2
<1>8. CASE Authenticated \/ Authorized \/ ExchangeThrows
  BY <1>8 DEF Authenticated, Authorized, ExchangeThrows, ClientStep, NothingSaved, OwnTokens
<1>9. CASE AuthenticateRefused
  <2>1. Own(credentials')
    BY <1>9 DEF AuthenticateRefused, OwnTokens, Own, TypeOK, Credentials
  <2>2. QED
    BY <1>9, <2>1 DEF AuthenticateRefused, ClientStep, OwnTokens
<1>10. CASE ExchangeEnds
  <2>1. credentials \in Credentials /\ credentials' \in Exchanged(credentials)
    BY <1>10 DEF ExchangeEnds, TypeOK
  <2>2. /\ credentials' \in Credentials /\ credentials'.id = credentials.id
        /\ credentials'.access = credentials'.refresh
        /\ credentials'.access \in {credentials.id, None}
    BY <2>1, ExchangedType
  <2>3. SaveCredentials(credentials')
    BY <1>10 DEF ExchangeEnds
  <2>4. Own(mCredentials') /\ Range(fromPlugin') = Range(fromPlugin) \cup {mCredentials'}
    BY <2>2, <2>3, ExchangeSaves
  <2>5. Own(credentials')
    BY <2>2 DEF Own
  <2>6. UNCHANGED <<stored, toPlugin, dying>>
    BY <1>10 DEF ExchangeEnds, ClientStep
  <2>7. QED
    BY <2>4, <2>5, <2>6 DEF OwnTokens
<1>11. CASE OpenPage \/ ClosePage \/ PageReceives
  BY <1>11 DEF OpenPage, ClosePage, PageReceives, OwnTokens
<1>12. CASE SaveGlobalSettings
  <2>1. PICK field \in 1 .. 2, a \in Apps :
          globalSettings' = Pasted([App(globalSettings) EXCEPT ![field] = a])
    BY <1>12 DEF SaveGlobalSettings
  <2>2. globalSettings' \in Credentials /\ Own(globalSettings')
    <3>1. globalSettings \in Credentials
      BY DEF TypeOK
    <3>2. QED
      BY <2>1, <3>1, PastedType DEF Own
  <2>3. /\ stored' = globalSettings'
        /\ \A c \in Range(toPlugin') : c \in Range(toPlugin) \cup {globalSettings'}
    BY <1>12, <2>2, Sending DEF SaveGlobalSettings, TypeOK
  <2>4. UNCHANGED <<fromPlugin, mCredentials, credentials, dying>>
    BY <1>12 DEF SaveGlobalSettings
  <2>5. QED
    BY <2>2, <2>3, <2>4 DEF OwnTokens
<1>13. CASE UNCHANGED vars
  BY <1>13 DEF vars, OwnTokens
<1>14. QED
  BY <1>1, <1>2, <1>3, <1>4, <1>5, <1>6, <1>7, <1>8, <1>9, <1>10, <1>11, <1>12, <1>13,
     <1>15, <1>16, <1>17, <1>18 DEF Next, Recorded, ClientLogin

LEMMA StrayedStays ==
  ASSUME [Next]_vars, strayed PROVE strayed'
<1> USE DEF deck, plugin, login, inspector
<1>1. CASE DyingExchangeEnds
  BY <1>1, Zenon DEF DyingExchangeEnds, EndPlugin
<1>2. CASE UNCHANGED strayed
  BY <1>2
<1>3. ClientLogin => DyingExchangeEnds \/ UNCHANGED strayed
  BY DEF ClientLogin, Initialize, Authenticated, AuthenticateRefused, Authorized,
    ExchangeEnds, ExchangeThrows, DyingExchangeThrows, ClientStep, NothingSaved, EndPlugin
<1>4. QED
  BY <1>1, <1>2, <1>3 DEF Next, Recorded, vars, StartPlugin, CrashOrQuit, EndPlugin,
    RequestSettings, StoreSettings, DidReceiveGlobalSettings, Reauthenticate,
    ReconnectToDiscord, ReconnectEnds, OpenPage, ClosePage, PageReceives, SaveGlobalSettings

-----------------------------------------------------------------------------
(* What the user has entered. *)

\* Unless something raced, every copy of the settings that can still be stored has
\* the app the user entered: Stream Deck's, those on their way to it or to the page,
\* the page's once it shows them, and that of a login under way.
StoreKept ==
  /\ App(stored) = entered
  /\ \A c \in Range(fromPlugin) : App(c) = entered
  /\ \A c \in Range(toPage) : App(c) = entered
  /\ page = "shown" => App(globalSettings) = entered
  /\ ~Collides

\* So has what the plugin hears last, once it has asked for the settings.
PluginKept == up /\ requested => App(Latest(toPlugin, mCredentials)) = entered

Kept == StoreKept /\ PluginKept

LEMMA InitKept == Init => Kept
<1> SUFFICES ASSUME Init PROVE Kept
  OBVIOUS
<1>1. App(stored) = entered
  BY DEF Init, App
<1>2. ~up /\ page # "shown"
  BY DEF Init
<1>3. Range(fromPlugin) = {} /\ Range(toPage) = {}
  BY NoMessage DEF Init
<1>4. QED
  BY <1>1, <1>2, <1>3 DEF Kept, StoreKept, PluginKept, Collides

\* A step that leaves the settings of the others alone.
LEMMA StoreUntouched ==
  ASSUME StoreKept, ~Collides', UNCHANGED <<stored, inspector, entered>>,
         fromPlugin' \in {fromPlugin, <<>>}
  PROVE  StoreKept'
BY NoMessage DEF StoreKept, inspector

LEMMA EndKept ==
  ASSUME Kept, ~Collides', EndPlugin PROVE Kept'
<1>1. StoreKept'
  BY StoreUntouched DEF EndPlugin, Kept
<1>2. ~up'
  BY DEF EndPlugin
<1>3. QED
  BY <1>1, <1>2 DEF Kept, PluginKept

LEMMA KeptStep ==
  ASSUME TypeOK, TypeOK', Kept, Next, ~Collides', ~Crosses PROVE Kept'
<1> USE DEF deck, plugin, login, inspector
<1>1. CASE StartPlugin
  <2>1. StoreKept'
    BY <1>1, StoreUntouched DEF StartPlugin, Kept
  <2>2. requested' = FALSE
    BY <1>1 DEF StartPlugin, TypeOK
  <2>3. QED
    BY <2>1, <2>2 DEF Kept, PluginKept
<1>2. CASE CrashOrQuit
  BY <1>2, EndKept DEF CrashOrQuit
<1>3. CASE RequestSettings
  <2>1. StoreKept'
    BY <1>3, StoreUntouched DEF RequestSettings, Kept
  <2>2. Latest(toPlugin', mCredentials') = stored
    <3>1. toPlugin' = Append(toPlugin, stored)
      BY <1>3 DEF RequestSettings
    <3>2. toPlugin \in Seq(Credentials) /\ stored \in Credentials
      BY DEF TypeOK
    <3>3. Latest(Append(toPlugin, stored), mCredentials') = stored
      BY <3>2, LatestSent
    <3>4. QED
      BY <3>1, <3>3
  <2>3. App(stored) = entered /\ entered' = entered
    BY <1>3 DEF RequestSettings, Kept, StoreKept
  <2>4. QED
    BY <2>1, <2>2, <2>3 DEF Kept, PluginKept
<1>4. CASE StoreSettings
  <2>1. stored' \in Range(fromPlugin) /\ Range(fromPlugin') \subseteq Range(fromPlugin)
    BY <1>4, Receiving DEF StoreSettings, TypeOK
  <2>2. App(stored') = entered
    BY <2>1 DEF Kept, StoreKept
  <2>3. \A c \in Range(toPage') : c \in Range(toPage) \cup {stored'}
    <3>1. toPage' \in {toPage, Append(toPage, stored')}
      BY <1>4 DEF StoreSettings
    <3>2. toPage \in Seq(Credentials) /\ stored' \in Credentials
      BY DEF TypeOK
    <3>3. Range(Append(toPage, stored')) = Range(toPage) \cup {stored'}
      BY <3>2, Sending
    <3>4. QED
      BY <3>1, <3>3
  <2>4. UNCHANGED <<toPlugin, plugin, page, globalSettings, entered>>
    BY <1>4 DEF StoreSettings
  <2>5. StoreKept'
    BY <2>1, <2>2, <2>3, <2>4 DEF Kept, StoreKept
  <2>6. QED
    BY <2>4, <2>5 DEF Kept, PluginKept
<1>5. CASE DidReceiveGlobalSettings
  <2>1. StoreKept'
    BY <1>5, StoreUntouched DEF DidReceiveGlobalSettings, Kept
  <2>2. mCredentials' = Head(toPlugin) /\ toPlugin' = Tail(toPlugin)
    BY <1>5 DEF DidReceiveGlobalSettings
  <2>3. Latest(toPlugin', mCredentials') = Latest(toPlugin, mCredentials)
    <3>1. toPlugin # <<>> /\ toPlugin \in Seq(Credentials)
      BY <1>5 DEF DidReceiveGlobalSettings, TypeOK
    <3>2. QED
      BY <2>2, <3>1, LatestReceived
  <2>4. UNCHANGED <<up, requested, entered>>
    BY <1>5 DEF DidReceiveGlobalSettings
  <2>5. QED
    BY <2>1, <2>3, <2>4 DEF Kept, PluginKept
<1>6. CASE ReconnectToDiscord \/ ReconnectEnds \/ DyingExchangeThrows
  <2>1. UNCHANGED <<deck, plugin, inspector, entered>>
    BY <1>6 DEF ReconnectToDiscord, ReconnectEnds, DyingExchangeThrows
  <2>2. StoreKept'
    BY <2>1, StoreUntouched DEF Kept
  <2>3. QED
    BY <2>1, <2>2 DEF Kept, PluginKept
<1>15. CASE Reauthenticate
  <2>1. UNCHANGED <<deck, up, requested, inspector, entered>>
    BY <1>15 DEF Reauthenticate
  <2>2. StoreKept'
    BY <2>1, StoreUntouched DEF Kept
  <2>3. App(mCredentials') = App(mCredentials)
    BY <1>15, WithTokensType DEF Reauthenticate, TypeOK
  <2>4. QED
    BY <2>1, <2>2, <2>3 DEF Kept, PluginKept, Latest
<1>7. CASE EndPlugin
  BY <1>7, EndKept
<1>8. CASE \/ Initialize /\ ~EndPlugin
           \/ Authenticated \/ AuthenticateRefused \/ Authorized \/ ExchangeThrows
  <2>1. UNCHANGED <<deck, plugin, inspector, entered>>
    BY <1>8 DEF Initialize, Authenticated, AuthenticateRefused, Authorized, ExchangeThrows,
                ClientStep, NothingSaved
  <2>2. StoreKept'
    BY <2>1, StoreUntouched DEF Kept
  <2>3. QED
    BY <2>1, <2>2 DEF Kept, PluginKept
<1>9. ASSUME NEW from \in Credentials, SaveCredentials(from), App(credentials) = entered,
             UNCHANGED <<stored, toPlugin, up, requested, inspector, entered>>
      PROVE  Kept'
  <2>1. /\ App(mCredentials') = entered
        /\ Range(fromPlugin') = Range(fromPlugin) \cup {mCredentials'}
    BY <1>9, ExchangeSaves
  <2>2. StoreKept'
    BY <1>9, <2>1 DEF Kept, StoreKept
  <2>3. PluginKept'
    BY <1>9, <2>1 DEF Kept, PluginKept, Latest
  <2>4. QED
    BY <2>2, <2>3 DEF Kept
<1>16. CASE ExchangeEnds
  <2>1. credentials' \in Credentials
    BY DEF TypeOK
  <2>2. App(credentials) = entered
    BY <1>16 DEF ExchangeEnds, ClientStep, TypeOK, Kept, StoreKept, Collides
  <2>3. SaveCredentials(credentials')
        /\ UNCHANGED <<stored, toPlugin, up, requested, inspector, entered>>
    BY <1>16 DEF ExchangeEnds, ClientStep
  <2>4. QED
    BY <1>9, <2>1, <2>2, <2>3
<1>17. CASE DyingExchangeEnds /\ ~EndPlugin
  <2>1. PICK from \in Exchanged(dying) : SaveCredentials(from)
    BY <1>17 DEF DyingExchangeEnds
  <2>2. from \in Credentials
    BY ExchangedType DEF TypeOK
  <2>3. App(credentials) = entered
    BY <1>17 DEF DyingExchangeEnds, Kept, StoreKept, Collides
  <2>4. UNCHANGED <<stored, toPlugin, up, requested, inspector, entered>>
    BY <1>17 DEF DyingExchangeEnds
  <2>5. QED
    BY <1>9, <2>1, <2>2, <2>3, <2>4
<1>10. CASE OpenPage
  <2>1. /\ page' # "shown" /\ toPage' = <<stored>>
        /\ UNCHANGED <<deck, plugin, entered>>
    BY <1>10 DEF OpenPage
  <2>2. StoreKept'
    BY <2>1, NoMessage DEF Kept, StoreKept
  <2>3. QED
    BY <2>1, <2>2 DEF Kept, PluginKept
<1>11. CASE ClosePage
  <2>1. page' # "shown" /\ toPage' = <<>> /\ UNCHANGED <<deck, plugin, entered>>
    BY <1>11 DEF ClosePage
  <2>2. StoreKept'
    BY <2>1, NoMessage DEF Kept, StoreKept
  <2>3. QED
    BY <2>1, <2>2 DEF Kept, PluginKept
<1>12. CASE PageReceives
  <2>1. globalSettings' \in Range(toPage) /\ Range(toPage') \subseteq Range(toPage)
    BY <1>12, Receiving DEF PageReceives, TypeOK
  <2>2. UNCHANGED <<deck, plugin, entered>>
    BY <1>12 DEF PageReceives
  <2>3. StoreKept'
    BY <2>1, <2>2 DEF Kept, StoreKept
  <2>4. QED
    BY <2>2, <2>3 DEF Kept, PluginKept
<1>13. CASE SaveGlobalSettings
  <2>1. PICK field \in 1 .. 2, a \in Apps :
          /\ entered' = [entered EXCEPT ![field] = a]
          /\ globalSettings' = Pasted([App(globalSettings) EXCEPT ![field] = a])
    BY <1>13 DEF SaveGlobalSettings
  <2>2. globalSettings \in Credentials /\ globalSettings' \in Credentials
    BY DEF TypeOK
  <2>3. App(globalSettings) = entered
    BY <1>13 DEF SaveGlobalSettings, Kept, StoreKept
  <2>4. App(globalSettings') = entered'
    BY <2>1, <2>2, <2>3, PastedType
  <2>5. fromPlugin' = <<>> /\ toPage' = <<>>
    <3>1. edits' # edits
      <4>1. edits \in 0 .. MaxEdits
        BY DEF TypeOK
      <4>2. edits' = edits + 1
        BY <1>13 DEF SaveGlobalSettings
      <4>3. QED
        BY <4>1, <4>2, BoundsAssumption
    <3>2. QED
      BY <1>13, <3>1 DEF SaveGlobalSettings, Crosses
  <2>6. stored' = globalSettings'
    BY <1>13 DEF SaveGlobalSettings
  <2>7. StoreKept'
    BY <2>4, <2>5, <2>6, NoMessage DEF StoreKept
  <2>8. up' => Latest(toPlugin', mCredentials') = globalSettings'
    <3>1. up' => toPlugin' = Append(toPlugin, globalSettings')
      BY <1>13 DEF SaveGlobalSettings
    <3>2. toPlugin \in Seq(Credentials)
      BY DEF TypeOK
    <3>3. Latest(Append(toPlugin, globalSettings'), mCredentials') = globalSettings'
      BY <2>2, <3>2, LatestSent
    <3>4. QED
      BY <3>1, <3>3
  <2>9. QED
    BY <2>4, <2>7, <2>8 DEF Kept, PluginKept
<1>14. QED
  BY <1>1, <1>2, <1>3, <1>4, <1>5, <1>6, <1>7, <1>8, <1>10, <1>11, <1>12, <1>13, <1>15,
     <1>16, <1>17 DEF Next, Recorded, ClientLogin

KeptUnlessRaced == raced \/ Kept

\* What raced is remembered.
LEMMA KeptUnlessRacedStep ==
  ASSUME TypeOK, TypeOK', KeptUnlessRaced, [Next]_vars PROVE KeptUnlessRaced'
<1>1. CASE UNCHANGED vars
  BY <1>1 DEF vars, deck, plugin, login, inspector, KeptUnlessRaced, Kept, StoreKept,
              PluginKept, Collides
<1>2. CASE Next
  <2>1. raced' \/ (~raced /\ ~Collides' /\ ~Crosses)
    BY <1>2 DEF Next, Recorded
  <2>2. QED
    BY <1>2, <2>1, KeptStep DEF KeptUnlessRaced
<1>3. QED
  BY <1>1, <1>2

-----------------------------------------------------------------------------
(* Theorems. *)

\* Every variable keeps its type, and a login that has begun has an id and a secret.
THEOREM SettingsTypeCorrect == Spec => []TypeOK
<1>1. Init => TypeOK
  BY InitType
<1>2. TypeOK /\ [Next]_vars => TypeOK'
  BY TypeStep
<1>3. QED
  BY <1>1, <1>2, PTL DEF Spec

\* No token is ever kept, sent or stored with another app than its own, whoever saves and
\* whatever is interrupted, until a client destroyed in the middle of an exchange has saved
\* its tokens with the app of the client that has replaced it.
THEOREM TokensStayWithApp == Spec => []TokensBelongToApp
<1>1. Init => TypeOK /\ (strayed \/ OwnTokens)
  BY InitType, InitOwn
<1>2. TypeOK /\ (strayed \/ OwnTokens) /\ [Next]_vars => (TypeOK /\ (strayed \/ OwnTokens))'
  BY TypeStep, OwnStep, StrayedStays
<1>3. strayed \/ OwnTokens => TokensBelongToApp
  BY OwnIsProperty
<1>4. QED
  BY <1>1, <1>2, <1>3, PTL DEF Spec

\* TypeOK /\ KeptUnlessRaced is inductive.
LEMMA KeptAlways == Spec => [](TypeOK /\ KeptUnlessRaced)
<1>1. Init => TypeOK /\ KeptUnlessRaced
  BY InitType, InitKept DEF KeptUnlessRaced
<1>2. TypeOK /\ KeptUnlessRaced /\ [Next]_vars => (TypeOK /\ KeptUnlessRaced)'
  BY TypeStep, KeptUnlessRacedStep
<1>3. QED
  BY <1>1, <1>2, PTL DEF Spec

\* What the user has entered stays stored, unless a login or message raced with it.
THEOREM WhatIsEnteredIsKept == Spec => []EnteredIsKept
<1>1. TypeOK /\ KeptUnlessRaced => EnteredIsKept
  BY DEF KeptUnlessRaced, Kept, StoreKept, EnteredIsKept
<1>2. QED
  BY <1>1, KeptAlways, PTL

\* With no message on its way the plugin and Stream Deck have the same app, under
\* the same condition.
THEOREM PluginHasWhatIsStored == Spec => []PluginFollowsStore
<1>1. TypeOK /\ KeptUnlessRaced => PluginFollowsStore
  BY DEF KeptUnlessRaced, Kept, StoreKept, PluginKept, Latest, PluginFollowsStore
<1>2. QED
  BY <1>1, KeptAlways, PTL
=============================================================================
