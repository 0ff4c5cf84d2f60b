--------------------------- MODULE DiscordClient ---------------------------
(***************************************************************************)
(* One DiscordClient (Sources/DiscordClient.cpp): its worker coroutine,    *)
(* the OAuth2 login, the subscriptions and first fetch that lead to READY, *)
(* commands answered through promises, commands nobody waits for, loss of  *)
(* the connection, and destruction.                                        *)
(*                                                                         *)
(* All of it runs as coroutines on one io_context.  An action is what one  *)
(* of them does from its resumption to its next co_await (or nested poll). *)
(* asio promises no order between coroutines that are ready, so any of     *)
(* them may be next.  Only ~DiscordClient runs on another thread, up to    *)
(* the end of its Close().  The connection is abstracted to                *)
(* RpcConnection::state and isOpen; its frames are the subject of module   *)
(* RpcConnection.                                                          *)
(***************************************************************************)

CONSTANTS
  Tokens,               \* values an access or refresh token can have
  NoToken,              \* the empty string
  Callers,              \* coroutines of the plugin that call coGetGuilds, coGetChannels
  Fetch,                \* the coroutine that fetches the selected voice channel
  Faults,               \* what may happen besides the plain login, of FaultNames
  StartingCredentials   \* the credentials the plugin may construct the client with

FaultNames ==
  {"config",        \* the app id or secret is empty
   "connect",       \* Discord is not running
   "write", "read", \* a write fails; the peer closes, a frame is cut short
   "payload",       \* a close between the header and the payload of a frame, or a ping
                    \* that cannot be answered
   "authorize",     \* the user refuses
   "authenticate",  \* Discord refuses a token
   "oauth",         \* the web API gives no token, or the reply does not parse
   "malformed",     \* a message whose conversion throws
   "command",       \* Discord answers a command with an error
   "destroy"}       \* the plugin destroys the client

MaybeTokens == Tokens \cup {NoToken}
Credentials == [access : MaybeTokens, refresh : MaybeTokens]
Coroutines == Callers \cup {Fetch}

ASSUME NoTokenAssumption == NoToken \notin Tokens
ASSUME FetchAssumption == Fetch \notin Callers
ASSUME FaultsAssumption == Faults \subseteq FaultNames
ASSUME StartingAssumption == StartingCredentials \subseteq Credentials

Topics == {"VOICE_SETTINGS_UPDATE", "VOICE_CHANNEL_SELECT"}
RpcStates ==
  {"UNINITIALIZED", "CONNECTING", "REQUESTING_USER_PERMISSION",
   "REQUESTING_ACCESS_TOKEN", "AUTHENTICATING_WITH_ACCESS_TOKEN",
   "WAITING_FOR_INITIAL_DATA", "READY",
   "CONNECTION_FAILED", "AUTHENTICATION_FAILED", "DISCONNECTED"}

AuthCommands == {"AUTHORIZE", "AUTHENTICATE"}
Commands == AuthCommands \cup {"SUBSCRIBE", "GET", "SET"}
Values == MaybeTokens \cup Topics \cup Coroutines

\* args is the JSON kind of the "args" member; val its token, event or nonce.
Requests ==
  [cmd : AuthCommands \cup {"SET"}, args : {"object", "array"}, val : MaybeTokens]
    \cup [cmd : {"SUBSCRIBE"}, args : {"object"}, val : Topics]
    \cup [cmd : {"GET"}, args : {"object"}, val : Coroutines]
Frames == [cmd : Commands \cup {"DISPATCH"}, val : Values,
           result : {"ok", "error", "malformed"}]
NoFrame == [cmd |-> "DISPATCH", val |-> NoToken, result |-> "malformed"]

Authorize == [cmd |-> "AUTHORIZE", args |-> "object", val |-> NoToken]
\* initialize() passes {{"access_token", t}}, which is a JSON object.
AuthenticateCached(t) == [cmd |-> "AUTHENTICATE", args |-> "object", val |-> t]
\* startAuthenticationWithNewAccessToken() passes {"access_token", t}: with
\* one pair of braces nlohmann::json makes an array of two strings of it.
AuthenticateNew(t) == [cmd |-> "AUTHENTICATE", args |-> "array", val |-> t]
Subscribe(e) == [cmd |-> "SUBSCRIBE", args |-> "object", val |-> e]
Get(c) == [cmd |-> "GET", args |-> "object", val |-> c]
\* Mutant of Set: a setting without its value.
SetNothing == [cmd |-> "SET", args |-> "null", val |-> NoToken]
Set == [cmd |-> "SET", args |-> "object", val |-> NoToken]

VARIABLES
  rpcState,   \* mState.rpcState
  running,    \* *mRunning
  lifetime,   \* "alive", "freed" after ~DiscordClient, or inside it one of Dying
  conn,       \* "null", or mConnection's RpcConnection::state
  isOpen,     \* the socket below it is open
  hooked,     \* mConnection->onDisconnect is initialize()'s lambda
  lost,       \* history: how often DISCONNECTED has been reported
  worker,     \* where the worker coroutine is suspended
  frame,      \* the message a completed read will hand to the worker
  creds,      \* mCredentials
  saved,      \* the credentials the plugin has: given to the constructor or to mCredentialsCallback
  writes,     \* requests whose writeAndForget coroutine has not finished
  discord,    \* requests Discord has received and not answered
  listening,  \* topics Discord dispatches to this connection
  promises,   \* keys of mPromises; a nonce is the coroutine that waits for it
  call,       \* where each coroutine inside commandImpl is suspended
  initDone,   \* topics whose mInitPromises entry is resolved
  hasData,    \* topics whose PubSubData holds a value
  waiter      \* the coroutine that waits for mInitPromises

vars == <<rpcState, running, lifetime, conn, isOpen, hooked, lost, worker, frame,
          creds, saved, writes, discord, listening, promises, call, initDone,
          hasData, waiter>>
link == <<conn, isOpen, hooked, lost>>
login == <<creds, saved>>
data == <<initDone, hasData, waiter>>
calls == <<promises, call>>
peer == <<discord, listening>>

\* ~DiscordClient has cleared *mRunning, and in Close() is to tell onDisconnect, close
\* the socket and clear state; then it waits for the worker.  It is "early" there if
\* Close() found the handshake not yet written, and so nothing to close.
Dying == {"stopping", "telling", "shutting", "clearing", "dying", "early"}

WorkerStates ==
  {"none", "spawned", "opening", "handshake_write", "handshake_read", "auth_write",
   "reading", "got", "oauth_code", "oauth_refresh", "done", "threw", "crashed"}

\* Every variable holds a value its C++ counterpart can hold.
TypeOK ==
  /\ rpcState \in RpcStates
  /\ running \in BOOLEAN
  /\ lifetime \in {"alive", "freed"} \cup Dying
  /\ conn \in {"null", "Disconnected", "SentHandshake", "Connected"}
  /\ isOpen \in BOOLEAN
  /\ hooked \in BOOLEAN
  /\ lost \in {"never", "once", "again"}
  /\ worker \in WorkerStates
  /\ frame \in Frames
  /\ creds \in Credentials
  /\ saved \in Credentials
  /\ writes \subseteq Requests
  /\ discord \subseteq Requests
  /\ listening \subseteq Topics
  /\ promises \subseteq Coroutines
  /\ call \in [Coroutines -> {"idle", "writing", "waiting", "answered", "refused", "failed"}]
  /\ initDone \subseteq Topics
  /\ hasData \subseteq Topics
  /\ waiter \in {"none", "waiting", "done"}

Init ==
  /\ rpcState = "UNINITIALIZED"
  /\ running = FALSE
  /\ lifetime = "alive"
  /\ conn = "null"
  /\ isOpen = FALSE
  /\ hooked = FALSE
  /\ lost = "never"
  /\ worker = "none"
  /\ frame = NoFrame
  /\ creds \in StartingCredentials
  /\ saved = creds
  /\ writes = {}
  /\ discord = {}
  /\ listening = {}
  /\ promises = {}
  /\ call = [c \in Coroutines |-> "idle"]
  /\ initDone = {}
  /\ hasData = {}
  /\ waiter = "none"

-----------------------------------------------------------------------------
(* Helpers. *)

\* Mutant of OnDisconnect: a failed login is reported as a lost connection.
OnDisconnectAlways(s) == IF s = "CONNECTING" THEN "CONNECTION_FAILED" ELSE "DISCONNECTED"

\* The state initialize()'s onDisconnect lambda moves to.
OnDisconnect(s) ==
  IF s = "CONNECTING" THEN "CONNECTION_FAILED"
  ELSE IF s \in {"CONNECTION_FAILED", "AUTHENTICATION_FAILED"} THEN s
  ELSE "DISCONNECTED"

\* onDisconnect, once it is set.
Tell ==
  /\ rpcState' = IF hooked THEN OnDisconnect(rpcState) ELSE rpcState
  /\ lost' = IF rpcState' # "DISCONNECTED" THEN lost
             ELSE IF lost = "never" THEN "once" ELSE "again"

\* The socket, and with it what the peer was to send.
Shut ==
  /\ isOpen' = FALSE
  /\ discord' = {}
  /\ listening' = {}

\* Mutant of Close: onDisconnect is not told.
CloseQuietly ==
  /\ conn' = IF conn = "null" THEN conn ELSE "Disconnected"
  /\ Shut
  /\ UNCHANGED <<rpcState, lost>>

\* RpcConnection::Close() by a coroutine.  It is one step: where it overlaps with the
\* destructor's, that one is taken apart.
Close ==
  IF conn \in {"null", "Disconnected"}
  THEN UNCHANGED <<rpcState, conn, isOpen, lost, discord, listening>>
  ELSE Tell /\ Shut /\ conn' = "Disconnected"

\* Mutant of LoopTop: while(true) in place of while(*running).
LoopTopForever == IF conn # "Disconnected" THEN "reading" ELSE "done"

\* Where the worker goes on at the top of its loop: a read of a connection
\* that is not open returns false at once, and the loop ends.
LoopTop == IF running /\ conn # "Disconnected" THEN "reading" ELSE "done"

\* The client has not been freed and the plugin has not crashed.  (A coroutine
\* still pending when the client is freed would use it after its lifetime;
\* the model ends there.)
Exists == lifetime # "freed" /\ worker # "crashed"

\* Topics with a subscriber in mSubscriptions.
Subscribed == IF waiter = "none" THEN {} ELSE Topics

\* Mutant of Erase: an answered promise stays in mPromises.
NoErase(c) == UNCHANGED promises
Erase(c) == promises' = promises \ {c}

\* Mutant of Resolve: a reply that is an error is dropped.
ResolveAnswers(c, result) ==
  call' = IF result = "ok" THEN [call EXCEPT ![c] = "answered"] ELSE call
Resolve(c, result) ==
  call' = [call EXCEPT ![c] = IF result = "ok" THEN "answered" ELSE "refused"]

\* Mutant of ResolveInit: the fetched topic's promise is not resolved.
NoResolveInit(e) == UNCHANGED initDone
ResolveInit(e) == initDone' = initDone \cup {e}

\* Mutant of InitialDataReceived: the loop over mInitPromises ends with its first turn.
FirstDataReceived == initDone # {}
InitialDataReceived == Topics \subseteq initDone

\* Mutant of SaveCredentials: mCredentialsCallback is not called.
KeepCredentials(c) == creds' = c /\ UNCHANGED saved
SaveCredentials(c) == creds' = c /\ saved' = c
-----------------------------------------------------------------------------
(* The worker: initializeInCurrentThread, initialize, the read loop. *)

InitializeInCurrentThread ==
  /\ lifetime = "alive"
  /\ worker = "none"
  /\ running' = TRUE
  /\ worker' = "spawned"
  /\ UNCHANGED <<rpcState, lifetime, link, frame, login, writes, peer, calls, data>>

\* initialize() without an app id or secret creates no connection, and the
\* read loop that follows it dereferences mConnection.
InitializeWithoutConfig ==
  /\ "config" \in Faults
  /\ worker = "spawned"
  /\ rpcState' = "AUTHENTICATION_FAILED"
  /\ worker' = IF running THEN "crashed" ELSE "done"
  /\ UNCHANGED <<running, lifetime, link, frame, login, writes, peer, calls, data>>

Initialize ==
  /\ worker = "spawned"
  /\ rpcState' = "CONNECTING"
  /\ conn' = "Disconnected"
  /\ worker' = "opening"
  /\ UNCHANGED <<running, lifetime, isOpen, hooked, lost, frame, login, writes, peer, calls,
                 data>>

\* BaseConnection::Open() blocks the thread, not the plugin's other threads.
OpenFails ==
  /\ "connect" \in Faults
  /\ worker = "opening"
  /\ rpcState' = "CONNECTION_FAILED"
  /\ worker' = "done"
  /\ UNCHANGED <<running, lifetime, link, frame, login, writes, peer, calls, data>>

OpenSocket ==
  /\ worker = "opening"
  /\ isOpen' = TRUE
  /\ worker' = "handshake_write"
  /\ UNCHANGED <<rpcState, running, lifetime, conn, hooked, lost, frame, login, writes,
                 peer, calls, data>>

HandshakeWritten ==
  /\ worker = "handshake_write"
  /\ conn' = "SentHandshake"
  /\ worker' = "handshake_read"
  /\ UNCHANGED <<rpcState, running, lifetime, isOpen, hooked, lost, frame, login,
                 writes, peer, calls, data>>

\* The Close() that follows finds state Disconnected and does nothing; a
\* partial write leaves the socket open.
HandshakeWriteFails ==
  /\ "write" \in Faults
  /\ worker = "handshake_write"
  /\ isOpen' \in BOOLEAN
  /\ rpcState' = "CONNECTION_FAILED"
  /\ worker' = "done"
  /\ UNCHANGED <<running, lifetime, conn, hooked, lost, frame, login, writes, peer, calls,
                 data>>

\* The first frame makes the connection Connected if it is READY; initialize()
\* goes on either way.  The completion may have been queued before the
\* destructor closed the connection.
HandshakeRead ==
  /\ worker = "handshake_read"
  /\ isOpen \/ ~running
  /\ conn' \in {"Connected"} \cup (IF "read" \in Faults THEN {conn} ELSE {})
  /\ hooked' = TRUE
  /\ rpcState' = IF creds.access = NoToken THEN "REQUESTING_USER_PERMISSION"
                                           ELSE "AUTHENTICATING_WITH_ACCESS_TOKEN"
  /\ worker' = "auth_write"
  /\ UNCHANGED <<running, lifetime, isOpen, lost, frame, login, writes, peer, calls, data>>

\* Without a first frame the connection was closed, or cut short inside the
\* header: then it stays SentHandshake and the read loop reads from it.
HandshakeReadFails ==
  /\ worker = "handshake_read"
  /\ \/ /\ "read" \in Faults \/ ~isOpen
        /\ conn' = "Disconnected"
        /\ isOpen' = FALSE
        /\ worker' = "done"
     \/ /\ "read" \in Faults
        /\ isOpen
        /\ worker' = LoopTop
        /\ UNCHANGED <<conn, isOpen>>
  /\ rpcState' = "CONNECTION_FAILED"
  /\ UNCHANGED <<running, lifetime, hooked, lost, frame, login, writes, peer, calls, data>>

\* The first frame is not JSON: the exception ends the worker inside AsyncOpen.
HandshakeThrows ==
  /\ "malformed" \in Faults
  /\ worker = "handshake_read"
  /\ isOpen \/ ~running
  /\ worker' = "threw"
  /\ UNCHANGED <<rpcState, running, lifetime, link, frame, login, writes, peer, calls, data>>

\* The request initialize() ends with.
FirstAuth == IF creds.access = NoToken THEN Authorize ELSE AuthenticateCached(creds.access)

AuthWritten ==
  /\ worker = "auth_write"
  /\ isOpen
  /\ discord' = discord \cup {FirstAuth}
  /\ worker' = LoopTop
  /\ UNCHANGED <<rpcState, running, lifetime, link, frame, login, writes,
                 listening, calls, data>>

AuthWriteFails ==
  /\ worker = "auth_write"
  /\ "write" \in Faults \/ ~isOpen
  /\ Close
  /\ worker' = "done"
  /\ UNCHANGED <<running, lifetime, hooked, frame, login, writes, calls, data>>

\* Discord refuses an AUTHENTICATE whose args have no access_token member.
Results(r) ==
  LET errs == CASE r.cmd = "AUTHORIZE"    -> "authorize" \in Faults
                [] r.cmd = "AUTHENTICATE" -> "authenticate" \in Faults \/ r.args = "array"
                [] OTHER                  -> "command" \in Faults
  IN  {"ok"} \cup (IF errs THEN {"error"} ELSE {})
             \cup (IF "malformed" \in Faults THEN {"malformed"} ELSE {})

\* Discord answers a request, and the read that takes the answer completes.
ReadReply(r, result) ==
  /\ worker = "reading"
  /\ isOpen
  /\ r \in discord
  /\ result \in Results(r)
  /\ frame' = [cmd |-> r.cmd, val |-> r.val, result |-> result]
  /\ discord' = discord \ {r}
  /\ worker' = "got"
  /\ UNCHANGED <<rpcState, running, lifetime, link, login, writes, listening, calls, data>>

ReadEvent(e, result) ==
  /\ worker = "reading"
  /\ isOpen
  /\ e \in listening
  /\ result \in {"ok"} \cup (IF "malformed" \in Faults THEN {"malformed"} ELSE {})
  /\ frame' = [cmd |-> "DISPATCH", val |-> e, result |-> result]
  /\ worker' = "got"
  /\ UNCHANGED <<rpcState, running, lifetime, link, login, writes, peer, calls, data>>

\* The peer or another coroutine closed the connection, or a frame was cut
\* short: AsyncRead returns false, the worker closes and ends.
ReadFails ==
  /\ worker = "reading"
  /\ "read" \in Faults \/ ~isOpen
  /\ Close
  /\ worker' = "done"
  /\ UNCHANGED <<running, lifetime, hooked, frame, login, writes, calls, data>>

\* Closed after the header of a frame was read, or because a ping could not be
\* answered: the next read dereferences the socket that Close() has reset.
ReadCrashes ==
  /\ "payload" \in Faults
  /\ worker \in {"handshake_read", "reading"}
  /\ Close
  /\ worker' = "crashed"
  /\ UNCHANGED <<running, lifetime, hooked, frame, login, writes, calls, data>>

-----------------------------------------------------------------------------
(* processDiscordRPCMessage(frame), one action per way through it. *)

Processing(cmd, result) ==
  /\ worker = "got"
  /\ frame.cmd = cmd
  /\ frame.result = result
  /\ frame' = NoFrame

\* An answer some coroutine waits for; an error is handed over like a result.
ProcessCommandReply ==
  /\ \E result \in {"ok", "error"} : Processing("GET", result)
  /\ frame.val \in promises
  /\ Resolve(frame.val, frame.result)
  /\ Erase(frame.val)
  /\ worker' = LoopTop
  /\ UNCHANGED <<rpcState, running, lifetime, link, login, writes, peer, data>>

\* The subscriber stores the data; of the two topics only the one without
\* an initial_fetch resolves its init promise here.
ProcessDispatch ==
  /\ Processing("DISPATCH", "ok")
  /\ hasData' = hasData \cup ({frame.val} \cap Subscribed)
  /\ initDone' = initDone \cup ({frame.val} \cap Subscribed \cap {"VOICE_SETTINGS_UPDATE"})
  /\ worker' = LoopTop
  /\ UNCHANGED <<rpcState, running, lifetime, link, login, writes, peer, calls, waiter>>

\* Answers to SUBSCRIBE and to the requests of callAndForget.
ProcessIgnored ==
  /\ \E cmd \in {"SUBSCRIBE", "SET"}, result \in {"ok", "error"} : Processing(cmd, result)
  /\ worker' = LoopTop
  /\ UNCHANGED <<rpcState, running, lifetime, link, login, writes, peer, calls, data>>

\* get<T>(), value() or at() throws: the exception ends the worker, and
\* neither the state nor the connection changes.
ProcessThrows ==
  /\ worker = "got"
  /\ frame.result = "malformed"
  /\ frame' = NoFrame
  /\ worker' = "threw"
  /\ UNCHANGED <<rpcState, running, lifetime, link, login, writes, peer, calls, data>>

ProcessAuthorizeRefused ==
  /\ Processing("AUTHORIZE", "error")
  /\ rpcState' = "AUTHENTICATION_FAILED"
  /\ worker' = LoopTop
  /\ UNCHANGED <<running, lifetime, link, login, writes, peer, calls, data>>

ProcessAuthorized ==
  /\ Processing("AUTHORIZE", "ok")
  /\ rpcState' = "REQUESTING_ACCESS_TOKEN"
  /\ worker' = "oauth_code"
  /\ UNCHANGED <<running, lifetime, link, login, writes, peer, calls, data>>

ProcessAuthenticateRefused ==
  /\ Processing("AUTHENTICATE", "error")
  /\ creds' = [creds EXCEPT !.access = NoToken]
  /\ IF creds.refresh = NoToken
     THEN /\ rpcState' = "AUTHENTICATION_FAILED"
          /\ worker' = LoopTop
     ELSE /\ rpcState' = "REQUESTING_ACCESS_TOKEN"
          /\ worker' = "oauth_refresh"
  /\ UNCHANGED <<running, lifetime, link, saved, writes, peer, calls, data>>

\* Logged in: subscribe to both topics, start the first fetch and the
\* coroutine that waits for the initial data.
ProcessAuthenticated ==
  /\ Processing("AUTHENTICATE", "ok")
  /\ rpcState' = "WAITING_FOR_INITIAL_DATA"
  /\ writes' = writes \cup {Subscribe(e) : e \in Topics}
  /\ promises' = promises \cup {Fetch}
  /\ call' = [call EXCEPT ![Fetch] = "writing"]
  /\ waiter' = "waiting"
  /\ worker' = LoopTop
  /\ UNCHANGED <<running, lifetime, link, login, peer, initDone, hasData>>

-----------------------------------------------------------------------------
(* getOAuthCredentials() polls the io_context until the web API has answered. *)

StateAfterOAuth(c) ==
  IF c.access # NoToken THEN "AUTHENTICATING_WITH_ACCESS_TOKEN"
  ELSE IF worker = "oauth_code" THEN "AUTHENTICATION_FAILED"
  ELSE "REQUESTING_USER_PERMISSION"

\* Mutant of RequestsAfterOAuth: no return after asking the user again.
RequestsFallThrough(c) ==
  IF c.access # NoToken THEN {AuthenticateNew(c.access)}
  ELSE IF worker = "oauth_code" THEN {}
  ELSE {Authorize, AuthenticateNew(c.access)}

RequestsAfterOAuth(c) ==
  IF c.access # NoToken THEN {AuthenticateNew(c.access)}
  ELSE IF worker = "oauth_code" THEN {}
  ELSE {Authorize}

OAuthAnswers(c) ==
  /\ worker \in {"oauth_code", "oauth_refresh"}
  /\ c.access = NoToken => "oauth" \in Faults
  /\ SaveCredentials(c)
  /\ rpcState' = StateAfterOAuth(c)
  /\ writes' = writes \cup RequestsAfterOAuth(c)
  /\ worker' = LoopTop
  /\ UNCHANGED <<running, lifetime, link, frame, peer, calls, data>>

OAuthThrows ==
  /\ "oauth" \in Faults
  /\ worker \in {"oauth_code", "oauth_refresh"}
  /\ worker' = "threw"
  /\ UNCHANGED <<rpcState, running, lifetime, link, frame, login, writes, peer, calls, data>>

-----------------------------------------------------------------------------
(* writeAndForget, commandImpl, and the coroutine that waits to be ready. *)

WriteCompletes(r) ==
  /\ Exists
  /\ r \in writes
  /\ isOpen
  /\ writes' = writes \ {r}
  /\ discord' = discord \cup {r}
  /\ listening' = listening \cup (IF r.cmd = "SUBSCRIBE" THEN {r.val} ELSE {})
  /\ UNCHANGED <<rpcState, running, lifetime, link, worker, frame, login, calls, data>>

WriteFails(r) ==
  /\ Exists
  /\ r \in writes
  /\ "write" \in Faults \/ ~isOpen
  /\ writes' = writes \ {r}
  /\ Close
  /\ UNCHANGED <<running, lifetime, hooked, worker, frame, login, calls, data>>

\* The actions of the plugin hold the client from the first READY on; a
\* coroutine that has called it keeps it alive until it is answered.
StartCall(c) ==
  /\ Exists
  /\ lifetime = "alive"
  /\ waiter = "done"
  /\ call[c] \in {"idle", "failed"}
  /\ promises' = promises \cup {c}
  /\ call' = [call EXCEPT ![c] = "writing"]
  /\ UNCHANGED <<rpcState, running, lifetime, link, worker, frame, login, writes, peer, data>>

CallWritten(c) ==
  /\ Exists
  /\ call[c] = "writing"
  /\ isOpen
  /\ discord' = discord \cup {Get(c)}
  /\ call' = [call EXCEPT ![c] = "waiting"]
  /\ UNCHANGED <<rpcState, running, lifetime, link, worker, frame, login,
                 writes, listening, promises, data>>

\* AsyncWrite(json) returns void: the coroutine goes on to wait for an answer.
CallWriteFails(c) ==
  /\ Exists
  /\ call[c] = "writing"
  /\ "write" \in Faults \/ ~isOpen
  /\ Close
  /\ call' = [call EXCEPT ![c] = "waiting"]
  /\ UNCHANGED <<running, lifetime, hooked, worker, frame, login, writes, promises, data>>

CallReturns(c) ==
  /\ Exists
  /\ call[c] = "answered"
  /\ call' = [call EXCEPT ![c] = "idle"]
  /\ UNCHANGED <<rpcState, running, lifetime, link, worker, frame, login,
                 writes, peer, promises, data>>

\* The error data does not convert; the exception ends a detached coroutine.
CallThrows(c) ==
  /\ Exists
  /\ call[c] = "refused"
  /\ call' = [call EXCEPT ![c] = "failed"]
  /\ UNCHANGED <<rpcState, running, lifetime, link, worker, frame, login,
                 writes, peer, promises, data>>

FetchReturns ==
  /\ Exists
  /\ call[Fetch] = "answered"
  /\ call' = [call EXCEPT ![Fetch] = "idle"]
  /\ hasData' = hasData \cup {"VOICE_CHANNEL_SELECT"}
  /\ ResolveInit("VOICE_CHANNEL_SELECT")
  /\ UNCHANGED <<rpcState, running, lifetime, link, worker, frame, login,
                 writes, peer, promises, waiter>>

WaiterResumes ==
  /\ Exists
  /\ waiter = "waiting"
  /\ InitialDataReceived
  /\ rpcState' = "READY"
  /\ waiter' = "done"
  /\ UNCHANGED <<running, lifetime, link, worker, frame, login, writes, peer,
                 calls, initDone, hasData>>

\* setIsMuted and its like, which KeyUpForAction lets through when READY.
CallAndForget ==
  /\ Exists
  /\ lifetime = "alive"
  /\ rpcState = "READY"
  /\ writes' = writes \cup {Set}
  /\ UNCHANGED <<rpcState, running, lifetime, link, worker, frame, login, peer, calls, data>>

-----------------------------------------------------------------------------
(* ~DiscordClient. *)

BeginDestroy ==
  /\ "destroy" \in Faults
  /\ Exists
  /\ lifetime = "alive"
  /\ \A c \in Callers : call[c] \in {"idle", "failed"}
  /\ lifetime' = "stopping"
  /\ running' = FALSE
  /\ UNCHANGED <<rpcState, link, worker, frame, login, writes, peer, calls, data>>

\* The destructor's Close() tests what it finds.  (A login that has failed is not told.)
FoundByClose ==
  IF conn \notin {"null", "Disconnected"}
  THEN IF hooked /\ rpcState # "AUTHENTICATION_FAILED" THEN "telling" ELSE "shutting"
  ELSE IF worker \in {"spawned", "opening", "handshake_write"} THEN "early" ELSE "dying"

BeginClose ==
  /\ Exists
  /\ lifetime = "stopping"
  /\ lifetime' = FoundByClose
  /\ UNCHANGED <<rpcState, running, link, worker, frame, login, writes, peer, calls, data>>

TellLoss ==
  /\ Exists
  /\ lifetime = "telling"
  /\ lifetime' = "shutting"
  /\ Tell
  /\ UNCHANGED <<running, conn, isOpen, hooked, worker, frame, login, writes, peer, calls, data>>

ShutSocket ==
  /\ Exists
  /\ lifetime = "shutting"
  /\ lifetime' = "clearing"
  /\ Shut
  /\ UNCHANGED <<rpcState, running, conn, hooked, lost, worker, frame, login, writes, calls, data>>

ClearState ==
  /\ Exists
  /\ lifetime = "clearing"
  /\ lifetime' = "dying"
  /\ conn' = "Disconnected"
  /\ UNCHANGED <<rpcState, running, isOpen, hooked, lost, worker, frame, login, writes, peer,
                 calls, data>>

\* It polls until the worker has ended, but waits for no other coroutine.
EndDestroy ==
  /\ lifetime \in {"dying", "early"}
  /\ worker \in {"none", "done", "threw"}
  /\ lifetime' = "freed"
  /\ UNCHANGED <<rpcState, running, link, worker, frame, login, writes, peer, calls, data>>

-----------------------------------------------------------------------------
Startup ==
  \/ InitializeInCurrentThread \/ InitializeWithoutConfig \/ Initialize
  \/ OpenFails \/ OpenSocket \/ HandshakeWritten \/ HandshakeWriteFails
  \/ HandshakeRead \/ HandshakeReadFails \/ HandshakeThrows \/ AuthWritten \/ AuthWriteFails

Read ==
  \/ \E r \in discord, result \in {"ok", "error", "malformed"} : ReadReply(r, result)
  \/ \E e \in Topics, result \in {"ok", "malformed"} : ReadEvent(e, result)
  \/ ReadFails \/ ReadCrashes

Process ==
  \/ ProcessCommandReply \/ ProcessDispatch \/ ProcessIgnored \/ ProcessThrows
  \/ ProcessAuthorizeRefused \/ ProcessAuthorized
  \/ ProcessAuthenticateRefused \/ ProcessAuthenticated
  \/ \E c \in Credentials : OAuthAnswers(c)
  \/ OAuthThrows

WriteEnds(r) == WriteCompletes(r) \/ WriteFails(r)

CallProceeds(c) ==
  \/ CallWritten(c) \/ CallWriteFails(c) \/ CallThrows(c)
  \/ c # Fetch /\ CallReturns(c)
  \/ c = Fetch /\ FetchReturns

Destroy == BeginClose \/ TellLoss \/ ShutSocket \/ ClearState \/ EndDestroy

Next ==
  \/ Startup \/ Read \/ Process
  \/ \E r \in writes : WriteEnds(r)
  \/ \E c \in Callers : StartCall(c)
  \/ \E c \in Coroutines : CallProceeds(c)
  \/ WaiterResumes \/ CallAndForget
  \/ BeginDestroy \/ Destroy

Spec == Init /\ [][Next]_vars

\* The worker waits for Discord to take or send a message, or for the web API.
AwaitsPeer ==
  \/ isOpen /\ worker \in {"handshake_write", "handshake_read", "auth_write", "reading"}
  \/ worker \in {"oauth_code", "oauth_refresh"}

\* The io_context runs every coroutine that is ready, and the destructor its thread.
\* As long as the client is not destroyed, Discord and the web API answer: the stream is
\* read in order, so an answer or the first event of a subscription is not overtaken for
\* ever by other frames.  Nobody has to start a call, press a key or destroy the client.
Fairness ==
  /\ WF_vars((AwaitsPeer => lifetime = "alive") /\ (Startup \/ Read \/ Process))
  /\ WF_vars(\E r \in writes : r.cmd \in AuthCommands /\ WriteEnds(r))
  /\ \A e \in Topics : WF_vars(WriteEnds(Subscribe(e)))
  /\ \A c \in Coroutines :
       /\ WF_vars(CallProceeds(c))
       /\ SF_vars(/\ lifetime = "alive"
                  /\ \E result \in {"ok", "error", "malformed"} : ReadReply(Get(c), result))
  /\ SF_vars(/\ lifetime = "alive"
             /\ "VOICE_SETTINGS_UPDATE" \notin hasData
             /\ ReadEvent("VOICE_SETTINGS_UPDATE", "ok"))
  /\ WF_vars(WaiterResumes)
  /\ WF_vars(Destroy)

FairSpec == Spec /\ Fairness

-----------------------------------------------------------------------------
(* Properties. *)

\* The worker can still hand over what Discord sends.
Reachable == isOpen /\ worker \notin {"threw", "crashed"}

\* A plugin told READY reads both PubSubData without asking whether they hold
\* a value (SetDiscordClient calls GetDesiredState, which dereferences them),
\* so READY must come after the dispatch and the fetch that fill them.  Until then a
\* reachable client has asked for what it has not got: it waits for nothing that
\* nobody is going to send, unless Discord refused the fetch.
ReadyMeansLoaded ==
  /\ rpcState = "READY" \/ waiter = "done" => hasData = Topics
  /\ waiter = "waiting" /\ Reachable =>
       /\ "VOICE_CHANNEL_SELECT" \in initDone \/ call[Fetch] # "idle"
       /\ \/ "VOICE_SETTINGS_UPDATE" \in initDone \cup listening
          \/ Subscribe("VOICE_SETTINGS_UPDATE") \in writes

\* While the client runs over an open connection the login is a strict
\* exchange: at most one AUTHORIZE or AUTHENTICATE is anywhere between
\* writeAndForget and processDiscordRPCMessage, and rpcState is the one its
\* answer is asserted against, so no answer is taken for another's.  Nor is the state
\* ever one that waits for an answer, of Discord or of the web API, with none to come.
AuthState(cmd) == IF cmd = "AUTHORIZE" THEN "REQUESTING_USER_PERMISSION"
                                       ELSE "AUTHENTICATING_WITH_ACCESS_TOKEN"
InFlight == {r \in writes \cup discord : r.cmd \in AuthCommands}
OneAuthExchange ==
  running /\ conn # "Disconnected" =>
    /\ \A r \in InFlight :
         /\ InFlight = {r}
         /\ r \notin writes \cap discord
         /\ worker = "reading"
         /\ rpcState = AuthState(r.cmd)
    /\ worker = "got" /\ frame.cmd \in AuthCommands =>
         /\ InFlight = {}
         /\ rpcState = AuthState(frame.cmd)
    /\ Reachable /\ rpcState \in {AuthState(cmd) : cmd \in AuthCommands} =>
         \/ InFlight # {}
         \/ worker = "auth_write"
         \/ worker = "got" /\ frame.cmd \in AuthCommands
    /\ Reachable /\ rpcState = "REQUESTING_ACCESS_TOKEN" =>
         worker \in {"oauth_code", "oauth_refresh"}

\* The token of an AUTHENTICATE that is under way is the one the plugin was
\* told to save (or gave), and the user is asked only without a token.
RequestsMatchCredentials ==
  \A r \in InFlight :
    /\ creds = saved
    /\ creds.access = r.val
    /\ r.cmd = "AUTHENTICATE" <=> creds.access # NoToken

\* An answer finds the promise of the coroutine that waits for it: mPromises
\* holds a nonce from before the request can be answered until it is.  And who waits
\* on a reachable client has an answer to come.
RepliesFindCallers ==
  /\ \A c \in Coroutines :
       /\ c \in promises <=> call[c] \in {"writing", "waiting"}
       /\ Get(c) \in discord => call[c] = "waiting"
       /\ call[c] = "waiting" /\ Reachable =>
            \/ Get(c) \in discord
            \/ worker = "got" /\ frame.cmd = "GET" /\ frame.val = c
  /\ worker = "got" /\ frame.cmd = "GET" =>
       frame.val \in promises /\ call[frame.val] = "waiting"

\* The reported states are those of RpcStateMachine, in its order.
Phase ==
  IF lifetime = "alive" THEN (IF running THEN "running" ELSE "created")
  ELSE IF worker = "none" THEN "unused"
  ELSE IF lifetime = "stopping" THEN "closing"
  ELSE IF lifetime = "telling" THEN "telling"
  ELSE IF lifetime \in {"shutting", "clearing"} /\ lost # "never" /\ conn # "Disconnected"
       THEN "told"
  ELSE "stopped"
Machine == INSTANCE RpcStateMachine WITH phase <- Phase
ImplementsRpcStateMachine == Machine!Spec

\* The plugin sees nothing of a client that DiscordStreamDeckPlugin does not allow one.
SeenByPlugin == Machine!SeenByPlugin

\* Where the worker is to its connection, which is made while it is "spawned".
Place ==
  IF conn = "null" THEN "opening"
  ELSE IF worker \in {"got", "oauth_code", "oauth_refresh"} THEN "reading"
  ELSE IF worker = "done" THEN "ended"
  ELSE worker

\* The client expects nothing of its connection but what RpcLink says.
Link == INSTANCE RpcLink WITH
  place <- Place,
  state <- IF conn = "null" THEN "Disconnected" ELSE conn,
  owned <- lifetime = "alive"
KeepsToRpcLink == Link!Spec

\* Once the Close() of ~DiscordClient is over, the worker it polls for reads from no open
\* connection, so that no message of Discord's is needed, unless that Close() came before
\* the handshake had been written.  Then the first frame is all the worker still reads.
DestructorNeedsNoMessage ==
  /\ lifetime = "dying" /\ worker \in {"handshake_read", "reading"} => ~isOpen
  /\ lifetime = "early" => worker # "reading"

\* README.md: "the plugin uses the token to log in to the client".
TokenReachesDiscord ==
  \A r \in writes \cup discord : r.cmd = "AUTHENTICATE" => r.args = "object"

\* The plugin destroys the client, or a coroutine was ended by an exception: a
\* message that does not convert, an OAuth request that throws, or a refused
\* fetch (the TODO at ERROR replies).
Gone == lifetime # "alive" \/ worker = "threw" \/ call[Fetch] = "failed"

\* A saved token makes the client READY, unless the plugin is told why not or
\* Discord has refused the token and another is asked for.
SavedTokenLoginEnds ==
  worker = "spawned" /\ creds.access # NoToken
    ~> \/ rpcState \in {"READY", "REQUESTING_ACCESS_TOKEN"}
       \/ rpcState \in {"CONNECTION_FAILED", "AUTHENTICATION_FAILED", "DISCONNECTED"}
       \/ Gone

\* Once logged in, the client becomes READY or reports the connection lost.
InitialDataArrivesOrLost ==
  rpcState = "WAITING_FOR_INITIAL_DATA"
    ~> rpcState \in {"READY", "DISCONNECTED"} \/ Gone

\* coGetGuilds and coGetChannels come back, with an answer or an exception,
\* unless the connection is lost or its reader ends.
CallsComplete ==
  \A c \in Callers :
    call[c] = "writing" ~> call[c] \in {"idle", "failed"} \/ ~isOpen \/ worker = "threw"

\* ~DiscordClient comes back by itself, except that it waits for the web API to answer a
\* request of the worker's, or, if it came before the handshake was written, for Discord to
\* take that and to send a first frame.
DestructorReturns ==
  lifetime \in Dying
    ~> \/ lifetime = "freed"
       \/ worker \in {"oauth_code", "oauth_refresh"}
       \/ lifetime = "early" /\ AwaitsPeer /\ worker # "reading"
=============================================================================
