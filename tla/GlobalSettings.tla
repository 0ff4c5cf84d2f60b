--------------------------- MODULE GlobalSettings ---------------------------
(***************************************************************************)
(* The settings all buttons share: the app id and secret the user pastes   *)
(* into a property inspector, and the tokens the plugin obtains with them. *)
(* Stream Deck stores them and tells each side what the other has set; the *)
(* plugin keeps a copy, its client another, and each page a third.         *)
(*                                                                         *)
(* The plugin's process may end at any time, and does when it starts a     *)
(* client without an id or secret; Stream Deck starts it again.  Its       *)
(* threads are in DiscordStreamDeckPlugin, the login in DiscordClient:     *)
(* here mClient may be reset at any time, and a thread that has reset it   *)
(* calls ConnectToDiscord later.  A client destroyed in the middle of an   *)
(* exchange of tokens ends that first, and saves what it gets as if it     *)
(* still were mClient.  Bound: one such client at a time; and what         *)
(* onCredentialsChanged copies, it copies in one step.                     *)
(***************************************************************************)
EXTENDS Naturals, Sequences, Functions

CONSTANTS
  Apps,        \* applications registered with Discord
  None,        \* an empty string
  MaxEdits,    \* bound: changes the user makes to the id or secret
  MaxTrouble   \* bound: ends of the process, exchanges of tokens, other reconnects

ASSUME AppsAssumption == None \notin Apps
ASSUME BoundsAssumption == MaxEdits \in Nat /\ MaxTrouble \in Nat

\* The id and secret of an app, and tokens issued to it, are the app itself.
Credentials == [id : Apps \cup {None}, secret : Apps \cup {None},
                access : Apps \cup {None}, refresh : Apps \cup {None}]
NoCredentials == [id |-> None, secret |-> None, access |-> None, refresh |-> None]

VARIABLES
  stored,        \* what Stream Deck stores
  toPlugin,      \* its didReceiveGlobalSettings messages to the plugin
  fromPlugin,    \* setGlobalSettings messages of the plugin
  up,            \* the plugin's process runs
  requested,     \* mHaveRequestedGlobalSettings
  mCredentials,  \* the plugin's copy
  client,        \* where the login of mClient is
  credentials,   \* what mClient was constructed with and has obtained since
  connecting,    \* a thread that has reset mClient is yet to call ConnectToDiscord
  dying,         \* credentials of a client in its destructor with an exchange under way
  page,          \* the property inspector: whether it is open and has its settings
  globalSettings,\* the page's copy
  toPage,        \* messages to the page
  entered,       \* history: the id and secret the user last meant to have
  strayed,       \* history: such a client has saved its tokens with another one's app
  raced,         \* history: see Collides and Crosses
  edits, trouble \* history: how often the user and the environment have acted

deck == <<stored, toPlugin, fromPlugin>>
plugin == <<up, requested, mCredentials>>
login == <<client, credentials, connecting, dying, strayed>>
inspector == <<page, globalSettings, toPage>>
vars == <<deck, plugin, login, inspector, entered, raced, edits, trouble>>

Login == {"starting", "authenticating", "asking", "with code", "with refresh token"}
others == <<connecting, dying, strayed>>
App(c) == <<c.id, c.secret>>
Complete(c) == c.id # None /\ c.secret # None

\* Every variable holds a value its counterpart can hold: a login that has begun has an
\* id and a secret, and a process yet to start no client.
TypeOK ==
  /\ stored \in Credentials
  /\ toPlugin \in Seq(Credentials) /\ fromPlugin \in Seq(Credentials) /\ toPage \in Seq(Credentials)
  /\ up \in BOOLEAN /\ requested \in BOOLEAN
  /\ mCredentials \in Credentials /\ credentials \in Credentials /\ dying \in Credentials
  /\ connecting \in BOOLEAN /\ strayed \in BOOLEAN
  /\ client \in Login \cup {"none", "READY", "failed", "ended"}
  /\ up /\ client \notin {"none", "starting", "failed"} => Complete(credentials)
  /\ ~up => client = "none" /\ ~requested
  /\ page \in {"closed", "opened", "shown"}
  /\ globalSettings \in Credentials
  /\ edits \in 0 .. MaxEdits /\ trouble \in 0 .. MaxTrouble

Init ==
  /\ \E a \in Apps \cup {None} :
       /\ stored = [id |-> a, secret |-> a, access |-> a, refresh |-> a]
       /\ entered = <<a, a>>
  /\ toPlugin = <<>> /\ fromPlugin = <<>> /\ toPage = <<>>
  /\ up = FALSE /\ requested = FALSE
  /\ mCredentials = NoCredentials /\ credentials = NoCredentials
  /\ client = "none" /\ connecting = FALSE /\ dying = NoCredentials
  /\ page = "closed" /\ globalSettings = NoCredentials
  /\ strayed = FALSE /\ raced = FALSE
  /\ edits = 0 /\ trouble = 0

Troubles == trouble < MaxTrouble /\ trouble' = trouble + 1

-----------------------------------------------------------------------------
(* Stream Deck and the plugin's process. *)

\* Stream Deck has handled what reached it from the process before.
StartPlugin ==
  /\ ~up /\ fromPlugin = <<>>
  /\ up' = TRUE
  /\ UNCHANGED <<deck, requested, mCredentials, login, inspector, entered, edits, trouble>>

\* The process ends, and another will start as the constructor leaves it; messages on
\* their way from it may be lost.
EndPlugin ==
  /\ up' = FALSE /\ requested' = FALSE /\ mCredentials' = NoCredentials
  /\ client' = "none" /\ credentials' = NoCredentials
  /\ connecting' = FALSE /\ dying' = NoCredentials
  /\ toPlugin' = <<>>
  /\ fromPlugin' \in {fromPlugin, <<>>}
  /\ UNCHANGED <<stored, strayed, inspector, entered, edits>>

CrashOrQuit == up /\ Troubles /\ EndPlugin

\* DeviceDidConnect or WillAppearForAction asks, and Stream Deck answers.
RequestSettings ==
  /\ up /\ ~requested
  /\ requested' = TRUE
  /\ toPlugin' = Append(toPlugin, stored)
  /\ UNCHANGED <<stored, fromPlugin, up, mCredentials, login, inspector, entered, edits, trouble>>

\* The plugin's settings are stored, and an open page is told.
StoreSettings ==
  /\ fromPlugin # <<>>
  /\ stored' = Head(fromPlugin)
  /\ fromPlugin' = Tail(fromPlugin)
  /\ toPage' = IF page = "closed" THEN toPage ELSE Append(toPage, stored')
  /\ UNCHANGED <<toPlugin, plugin, login, page, globalSettings, entered, edits, trouble>>

-----------------------------------------------------------------------------
(* The plugin. *)

\* Given the plugin's credentials: nothing if a client exists.
ConnectToDiscord(creds) ==
  IF client # "none" THEN UNCHANGED <<client, credentials>>
  ELSE client' = "starting" /\ credentials' = creds

\* Mutant of DidReceiveGlobalSettings: an id without a secret is left alone.
DidReceiveHalf ==
  /\ up /\ toPlugin # <<>>
  /\ toPlugin' = Tail(toPlugin)
  /\ IF Head(toPlugin) = mCredentials \/ Head(toPlugin).secret = None
     THEN UNCHANGED <<mCredentials, client, credentials>>
     ELSE mCredentials' = Head(toPlugin) /\ ConnectToDiscord(mCredentials')
  /\ UNCHANGED <<stored, fromPlugin, up, requested, others, inspector, entered, edits, trouble>>

DidReceiveGlobalSettings ==
  /\ up /\ toPlugin # <<>>
  /\ toPlugin' = Tail(toPlugin)
  /\ IF Head(toPlugin) = mCredentials THEN UNCHANGED <<mCredentials, client, credentials>>
     ELSE mCredentials' = Head(toPlugin) /\ ConnectToDiscord(mCredentials')
  /\ UNCHANGED <<stored, fromPlugin, up, requested, others, inspector, entered, edits, trouble>>

\* The user clicks Reauthenticate: no tokens, and a reconnect.
Reauthenticate ==
  /\ up /\ Troubles
  /\ mCredentials' = [mCredentials EXCEPT !.access = None, !.refresh = None]
  /\ UNCHANGED <<deck, up, requested, login, inspector, entered, edits>>

Exchanging == {"with code", "with refresh token"}

\* The first half of a reconnect: the connection was lost, or the user has clicked
\* Reconnect or Reauthenticate.  The destructor waits for an exchange under way, but has
\* reported DISCONNECTED by then, for which another thread reconnects.
ReconnectToDiscord ==
  /\ up /\ Troubles
  /\ client \in Exchanging => dying = NoCredentials
  /\ dying' = IF client \in Exchanging THEN credentials ELSE dying
  /\ client' = "none" /\ credentials' = NoCredentials
  /\ connecting' = TRUE
  /\ UNCHANGED <<deck, plugin, strayed, inspector, entered, edits>>

\* The second half.
ReconnectEnds ==
  /\ up /\ connecting
  /\ connecting' = FALSE
  /\ ConnectToDiscord(mCredentials)
  /\ UNCHANGED <<deck, plugin, dying, strayed, inspector, entered, edits, trouble>>

\* Mutants of Saved: the plugin keeps the app it has and takes the tokens, or saves
\* nothing but the tokens.
SavedTokensOnly(c, from) == [mCredentials EXCEPT !.access = from.access, !.refresh = from.refresh]
SavedWithoutApp(c, from) == [from EXCEPT !.id = None, !.secret = None]

\* onCredentialsChanged copies the app of mClient along with the tokens obtained by the
\* client that calls.
Saved(c, from) == [c EXCEPT !.access = from.access, !.refresh = from.refresh]

SaveCredentials(from) ==
  /\ mCredentials' = Saved(credentials, from)
  /\ fromPlugin' = Append(fromPlugin, mCredentials')

-----------------------------------------------------------------------------
(* The client's login. *)

ClientStep == up /\ UNCHANGED <<others, inspector, entered, edits>>
NothingSaved == UNCHANGED <<deck, plugin, credentials, trouble>>

\* Mutants of Initialize: the empty strings are not tested for, or the client fails
\* as the code means it to, and stays.
InitializeUntested ==
  /\ client = "starting"
  /\ ClientStep
  /\ client' = IF credentials.access = None THEN "asking" ELSE "authenticating"
  /\ NothingSaved
InitializeFails ==
  /\ client = "starting"
  /\ ClientStep
  /\ client' = CASE ~Complete(credentials) -> "failed"
                 [] Complete(credentials) /\ credentials.access = None -> "asking"
                 [] OTHER -> "authenticating"
  /\ NothingSaved

\* Without an app or a secret the worker dereferences a null connection.
Initialize ==
  /\ client = "starting"
  /\ \/ /\ Complete(credentials)
        /\ ClientStep
        /\ client' = IF credentials.access = None THEN "asking" ELSE "authenticating"
        /\ NothingSaved
     \/ up /\ ~Complete(credentials) /\ EndPlugin /\ UNCHANGED trouble

\* Discord accepts a token of the app only, and may refuse any.
Authenticated ==
  /\ client = "authenticating"
  /\ ClientStep
  /\ credentials.access = credentials.id
  /\ client' = "READY"
  /\ NothingSaved

AuthenticateRefused ==
  /\ client = "authenticating"
  /\ ClientStep
  /\ client' = IF credentials.refresh = None THEN "failed" ELSE "with refresh token"
  /\ credentials' = [credentials EXCEPT !.access = None]
  /\ UNCHANGED <<deck, plugin, trouble>>

\* The user answers Discord's question.
Authorized ==
  /\ client = "asking"
  /\ ClientStep
  /\ client' \in {"with code", "failed"}
  /\ NothingSaved

\* coGetOAuthCredentials.  The web API gives tokens to an app that names its own secret;
\* otherwise, or if libcurl fails, both tokens come back empty and are saved so.
Exchanged(c) ==
  { [c EXCEPT !.access = token, !.refresh = token] :
      token \in {None} \cup {a \in Apps : App(c) = <<a, a>>} }

ExchangeEnds ==
  /\ client \in Exchanging
  /\ ClientStep
  /\ Troubles
  /\ credentials' \in Exchanged(credentials)
  /\ \/ credentials'.access # None /\ client' = "authenticating"
     \/ credentials'.access = None /\ client = "with code" /\ client' = "failed"
     \/ credentials'.access = None /\ client # "with code" /\ client' = "asking"
  /\ SaveCredentials(credentials')
  /\ UNCHANGED <<stored, toPlugin, up, requested>>

\* The same in a client being destroyed, whose tokens are saved with the app of mClient,
\* whatever that is now.  If there is none the worker dereferences a null pointer.  The
\* thread that has waited in the destructor calls ConnectToDiscord.
DyingExchangeEnds ==
  /\ up /\ dying # NoCredentials
  /\ Troubles
  /\ \/ /\ client # "none"
        /\ \E from \in Exchanged(dying) :
             /\ SaveCredentials(from)
             /\ strayed' = (strayed \/ from.access \notin {credentials.id, None})
        /\ dying' = NoCredentials /\ connecting' = TRUE
        /\ UNCHANGED <<stored, toPlugin, up, requested, client, credentials,
                       inspector, entered, edits>>
     \/ client = "none" /\ EndPlugin

\* With WinInet an answer that is not JSON, or has no tokens, ends the worker.
ExchangeThrows ==
  /\ client \in Exchanging
  /\ ClientStep
  /\ client' = "ended"
  /\ NothingSaved

DyingExchangeThrows ==
  /\ up /\ dying # NoCredentials
  /\ dying' = NoCredentials /\ connecting' = TRUE
  /\ UNCHANGED <<deck, plugin, client, credentials, strayed, inspector, entered, edits, trouble>>

-----------------------------------------------------------------------------
(* The page. *)

OpenPage ==
  /\ page = "closed"
  /\ edits < MaxEdits
  /\ page' = "opened"
  /\ globalSettings' = NoCredentials
  /\ toPage' = <<stored>>
  /\ UNCHANGED <<deck, plugin, login, entered, edits, trouble>>

ClosePage ==
  /\ page # "closed"
  /\ page' = "closed" /\ toPage' = <<>> /\ globalSettings' = NoCredentials
  /\ UNCHANGED <<deck, plugin, login, entered, edits, trouble>>

\* The inputs show the page's copy.  Bound: fields the user has cleared, which the
\* page would not refill, are left out.
PageReceives ==
  /\ toPage # <<>>
  /\ toPage' = Tail(toPage)
  /\ page' = "shown"
  /\ globalSettings' = Head(toPage)
  /\ UNCHANGED <<deck, plugin, login, entered, edits, trouble>>

\* saveGlobalSettings clears the tokens.
Pasted(app) == [id |-> app[1], secret |-> app[2], access |-> None, refresh |-> None]

\* The user pastes an id or a secret.
SaveGlobalSettings ==
  /\ page = "shown"
  /\ edits < MaxEdits
  /\ edits' = edits + 1
  /\ \E field \in 1 .. 2, a \in Apps :
       /\ a # App(globalSettings)[field]
       /\ entered' = [entered EXCEPT ![field] = a]
       /\ globalSettings' = Pasted([App(globalSettings) EXCEPT ![field] = a])
  /\ stored' = globalSettings'
  /\ toPlugin' = IF up THEN Append(toPlugin, globalSettings') ELSE toPlugin
  /\ UNCHANGED <<fromPlugin, plugin, login, page, toPage, trouble>>

-----------------------------------------------------------------------------
ClientLogin ==
  \/ Initialize \/ Authenticated \/ AuthenticateRefused \/ Authorized
  \/ ExchangeEnds \/ ExchangeThrows
  \/ DyingExchangeEnds \/ DyingExchangeThrows

\* A login is under way, or one of a client being destroyed ends, while mClient has
\* another app than the user has meanwhile entered: it saves the one of mClient.
Collides ==
  /\ up /\ App(credentials) # entered
  /\ \/ client \in Login /\ Complete(credentials)
     \/ client # "none" /\ dying # NoCredentials

\* The user pastes while settings are on their way to Stream Deck, or to the page,
\* where they undo what was pasted.
Crosses == edits' # edits /\ (fromPlugin # <<>> \/ toPage # <<>>)

Recorded(A) == A /\ raced' = (raced \/ Collides' \/ Crosses)

Next == Recorded(
  \/ StartPlugin \/ CrashOrQuit \/ RequestSettings \/ StoreSettings
  \/ DidReceiveGlobalSettings \/ Reauthenticate \/ ReconnectToDiscord \/ ReconnectEnds
  \/ ClientLogin
  \/ OpenPage \/ ClosePage \/ PageReceives \/ SaveGlobalSettings)

Spec == Init /\ [][Next]_vars

\* Stream Deck restarts the plugin and delivers messages; the plugin handles them, and
\* ends a reconnect.  The web API need not answer.
Fairness ==
  /\ WF_vars(Recorded(StartPlugin)) /\ WF_vars(Recorded(RequestSettings))
  /\ WF_vars(Recorded(StoreSettings)) /\ WF_vars(Recorded(DidReceiveGlobalSettings))
  /\ WF_vars(Recorded(ReconnectEnds)) /\ WF_vars(Recorded(Initialize))
FairSpec == Spec /\ Fairness

-----------------------------------------------------------------------------
(* Properties. *)

\* Whatever is interrupted, a token is only ever kept together with the app it was issued
\* to, so no app is sent another one's token: until a client that has been destroyed in
\* the middle of an exchange, and replaced by one of another app before that ended, has
\* saved its tokens with the app of its successor.
TokensBelongToApp ==
  \/ strayed
  \/ \A c \in {stored, mCredentials, credentials, dying}
              \cup Range(toPlugin) \cup Range(fromPlugin) :
       {c.access, c.refresh} \subseteq {c.id, None}

\* The plugin saves the whole settings: it never takes back what the user has
\* entered, unless a login raced with the user.
EnteredIsKept == ~raced => App(stored) = entered

\* With no message on its way the plugin has the app Stream Deck has stored, unless
\* a login raced with the user.  The tokens may differ: Reauthenticate clears the
\* plugin's only, and an answer under way when it saves brings the old ones back.
PluginFollowsStore ==
  up /\ requested /\ toPlugin = <<>> /\ fromPlugin = <<>> /\ ~raced =>
    App(mCredentials) = App(stored)

\* Pasting the id and the secret one after the other leads to a client that has
\* both, if need be through the crash the first one causes and a new process.
PastedSettingsAreUsed ==
  \A a \in Apps :
    App(stored) = <<a, a>> /\ ~(up /\ Complete(credentials)) /\ edits = MaxEdits
      ~> raced \/ (up /\ client # "none" /\ App(credentials) = <<a, a>>)
=============================================================================
