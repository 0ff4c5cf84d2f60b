------------------------ MODULE DiscordClient_proofs ------------------------
(* Theorems about DiscordClient, for every value of its constants. *)
EXTENDS DiscordClient, TLAPS

(* The inductive invariants. *)

\* READY waits for the waiter, the waiter for both init promises, and each of
\* them is resolved only once its topic has a value.
LoadInv ==
  /\ initDone \subseteq hasData
  /\ waiter = "done" => Topics \subseteq initDone
  /\ rpcState = "READY" => waiter = "done"

Opening == {"opening", "handshake_write", "handshake_read"}
Starting == Opening \cup {"none", "spawned", "auth_write"}
OAuth == {"oauth_code", "oauth_refresh"}

\* The destructor, if it has begun, has not touched the connection.
Untouched == {"alive", "stopping", "telling"}

\* While one of these waits, the login has the connection to itself.
PhaseInv ==
  /\ lifetime = "alive" => (running <=> worker # "none")
  /\ lifetime # "alive" => ~running

\* RpcConnection::state against the socket, by what the worker waits for.
ConnInv ==
  /\ worker \in {"none", "spawned"} => conn = "null" /\ ~hooked
  /\ worker \in Opening => conn # "null" /\ ~hooked
  /\ worker \in {"opening", "handshake_write"} => conn = "Disconnected"
  /\ worker = "handshake_write" => isOpen
  /\ worker = "handshake_read" =>
       /\ isOpen => conn # "Disconnected"
       /\ lifetime # "clearing" /\ conn # "Disconnected" => isOpen
       /\ lifetime \in Untouched => conn # "Disconnected"
  /\ worker = "auth_write" => conn # "null"
  /\ worker = "auth_write" /\ conn = "Disconnected" => ~isOpen
  /\ worker = "auth_write" /\ lifetime \in Untouched => conn # "Disconnected"
  /\ worker \in OAuth \cup {"reading", "got"} =>
       /\ conn # "null"
       /\ isOpen => conn # "Disconnected"
       /\ lifetime # "clearing" /\ conn # "Disconnected" => isOpen
  /\ worker = "done" /\ running => conn = "Disconnected"
  /\ lifetime \in Untouched /\ waiter = "none" /\ worker \in OAuth \cup {"got"} =>
       conn # "Disconnected"

\* Before the client is logged in nothing but the login is under way.
BeforeLogin ==
  waiter = "none" =>
    /\ \A r \in writes \cup discord : r.cmd \in AuthCommands
    /\ \A c \in Coroutines : call[c] = "idle"
    /\ listening = {}
    /\ worker = "got" => frame.cmd \in AuthCommands

\* Afterwards nothing of the login is.
AfterLogin ==
  waiter # "none" =>
    /\ InFlight = {}
    /\ worker \in {"reading", "got", "done", "threw", "crashed"}
    /\ worker = "got" => frame.cmd \notin AuthCommands

\* One request of the login at a time, in one place.
ExchangeInv ==
  /\ worker \in Starting \cup OAuth => InFlight = {}
  /\ worker = "got" /\ frame.cmd \in AuthCommands => InFlight = {}
  /\ \A r \in InFlight :
       /\ InFlight = {r}
       /\ r \notin writes \cap discord
       /\ worker \in {"reading", "done"} \/ conn = "Disconnected" \/ lifetime \notin Untouched

\* The state a step of the login is about to leave: the one it asserts, or
\* DISCONNECTED if the connection was closed in the meantime.
Expected(s) ==
  \/ rpcState = s
  \/ rpcState = "DISCONNECTED" /\ (conn = "Disconnected" \/ lifetime \notin Untouched)

StateInv ==
  /\ worker \in {"none", "spawned"} => rpcState = "UNINITIALIZED"
  /\ worker \in Opening => rpcState = "CONNECTING"
  /\ worker = "auth_write" => Expected(AuthState(FirstAuth.cmd))
  /\ \A r \in InFlight : Expected(AuthState(r.cmd))
  /\ worker = "got" /\ frame.cmd \in AuthCommands => Expected(AuthState(frame.cmd))
  /\ worker \in OAuth => Expected("REQUESTING_ACCESS_TOKEN")
  /\ waiter = "waiting" => Expected("WAITING_FOR_INITIAL_DATA")
  /\ waiter = "done" => rpcState \in {"READY", "DISCONNECTED"}
  /\ hooked => rpcState \notin {"UNINITIALIZED", "CONNECTING", "CONNECTION_FAILED"}

CredentialsInv ==
  /\ worker \in Starting => creds = saved
  /\ RequestsMatchCredentials

LoginInv ==
  /\ PhaseInv /\ ConnInv /\ BeforeLogin /\ AfterLogin
  /\ ExchangeInv /\ StateInv /\ CredentialsInv

\* A loss that was reported ended the connection that initialize() has hooked, or the
\* destructor is about to; and until the destructor does, a client that is online and has
\* not reported a loss still has that connection.
LostInv ==
  /\ lost # "never" => hooked /\ (conn = "Disconnected" \/ lifetime \in {"shutting", "clearing"})
  /\ rpcState = "DISCONNECTED" => lost # "never"
  /\ lifetime \in Untouched /\ rpcState \in Machine!Online /\ lost = "never" =>
       hooked /\ conn \notin {"null", "Disconnected"}
  /\ lifetime = "telling" => hooked
  /\ lost # "never" /\ lifetime \in Untouched => rpcState \in {"DISCONNECTED", "READY"}

\* A connection that is closed once it is hooked has no socket, and nothing but the
\* handshake uses one that is not hooked.
LinkInv ==
  /\ hooked => conn # "null"
  /\ hooked /\ conn = "Disconnected" => ~isOpen
  /\ ~hooked =>
       /\ writes = {} /\ discord = {} /\ waiter = "none"
       /\ worker \notin OAuth \cup {"got", "auth_write"}

\* What the destructor's Close() has found and done, by how far the destructor is.
DestroyInv ==
  /\ lifetime \in {"telling", "shutting", "clearing", "dying"} =>
       worker \notin {"spawned", "opening", "handshake_write"}
  /\ lifetime \in {"telling", "shutting", "clearing"} => conn # "null" /\ worker # "none"
  /\ lifetime \in {"telling", "shutting"} /\ conn = "Disconnected" => ~isOpen
  /\ lifetime = "clearing" => ~isOpen
  /\ lifetime = "dying" /\ worker \in {"handshake_read", "auth_write", "reading", "got"} \cup OAuth
       => ~isOpen
  /\ lifetime = "early" => worker \notin {"none", "reading", "got"} \cup OAuth

\* Whatever a reachable client waits for is under way: an answer of the login, one of the
\* web API, and what it needs to be READY.
ComingInv ==
  /\ running /\ conn # "Disconnected" /\ Reachable =>
       /\ rpcState \in {"REQUESTING_USER_PERMISSION", "AUTHENTICATING_WITH_ACCESS_TOKEN"} =>
            \/ \E r \in writes \cup discord : r.cmd \in AuthCommands
            \/ worker = "auth_write"
            \/ worker = "got" /\ frame.cmd \in AuthCommands
       /\ rpcState = "REQUESTING_ACCESS_TOKEN" => worker \in OAuth
  /\ waiter = "waiting" /\ Reachable =>
       /\ "VOICE_CHANNEL_SELECT" \in initDone \/ call[Fetch] # "idle"
       /\ \/ "VOICE_SETTINGS_UPDATE" \in initDone \cup listening
          \/ Subscribe("VOICE_SETTINGS_UPDATE") \in writes

\* What is known of a call by where its request or its answer is.
CallInv ==
  /\ RepliesFindCallers
  /\ \A r \in writes : r.cmd # "GET"
  /\ worker = "got" /\ frame.cmd = "GET" => Get(frame.val) \notin discord

-----------------------------------------------------------------------------
\* The values the helpers give belong to the types.
LEMMA CloseType ==
  ASSUME TypeOK, Close
  PROVE  /\ rpcState' \in RpcStates
         /\ conn' \in {"null", "Disconnected", "SentHandshake", "Connected"}
         /\ isOpen' \in BOOLEAN
         /\ lost' \in {"never", "once", "again"}
         /\ discord' \subseteq Requests
         /\ listening' \subseteq Topics
  BY DEF TypeOK, Close, Tell, Shut, OnDisconnect, RpcStates

LEMMA NoFrameType == NoFrame \in Frames
  BY DEF NoFrame, Frames, Commands, AuthCommands, Values, MaybeTokens

\* TypeOK: every variable keeps the type of its C++ counterpart.
LEMMA TypeStep == TypeOK /\ [Next]_vars => TypeOK'
<1> SUFFICES ASSUME TypeOK, [Next]_vars PROVE TypeOK'
  OBVIOUS
<1> USE NoFrameType DEF RpcStates, WorkerStates, link, login, data, calls, peer
<1>1. CASE InitializeInCurrentThread
  BY <1>1 DEF TypeOK, InitializeInCurrentThread
<1>2. CASE InitializeWithoutConfig
  BY <1>2 DEF TypeOK, InitializeWithoutConfig
<1>3. CASE Initialize
  BY <1>3 DEF TypeOK, Initialize
<1>4. CASE OpenFails
  BY <1>4 DEF TypeOK, OpenFails
<1>5. CASE OpenSocket
  BY <1>5 DEF TypeOK, OpenSocket
<1>6. CASE HandshakeWritten
  BY <1>6 DEF TypeOK, HandshakeWritten
<1>7. CASE HandshakeWriteFails
  BY <1>7 DEF TypeOK, HandshakeWriteFails
<1>8. CASE HandshakeRead
  BY <1>8 DEF TypeOK, HandshakeRead
<1>9. CASE HandshakeReadFails
  BY <1>9 DEF TypeOK, HandshakeReadFails, LoopTop
<1>40. CASE HandshakeThrows
  BY <1>40 DEF TypeOK, HandshakeThrows
<1>10. CASE AuthWritten
  BY <1>10 DEF TypeOK, AuthWritten, LoopTop, FirstAuth, Authorize, AuthenticateCached, Requests, AuthCommands, Credentials
<1>11. CASE AuthWriteFails
  <2>1. Close
    BY <1>11 DEF AuthWriteFails
  <2>2. running' = running /\ hooked' = hooked
    BY <1>11 DEF AuthWriteFails
  <2>3. running' \in BOOLEAN /\ hooked' \in BOOLEAN
    BY <2>2 DEF TypeOK
  <2>4. isOpen' \in BOOLEAN
    BY <2>1, CloseType
  <2>5. /\ rpcState' \in RpcStates /\ conn' \in {"null", "Disconnected", "SentHandshake", "Connected"}
         /\ lost' \in {"never", "once", "again"} /\ discord' \subseteq Requests
         /\ listening' \subseteq Topics
    BY <2>1, CloseType
  <2>6. QED
    BY <1>11, <2>3, <2>4, <2>5 DEF TypeOK, AuthWriteFails
<1>12. CASE ReadFails
  <2>1. Close
    BY <1>12 DEF ReadFails
  <2>2. running' = running /\ hooked' = hooked
    BY <1>12 DEF ReadFails
  <2>3. running' \in BOOLEAN /\ hooked' \in BOOLEAN
    BY <2>2 DEF TypeOK
  <2>4. isOpen' \in BOOLEAN
    BY <2>1, CloseType
  <2>5. /\ rpcState' \in RpcStates /\ conn' \in {"null", "Disconnected", "SentHandshake", "Connected"}
         /\ lost' \in {"never", "once", "again"} /\ discord' \subseteq Requests
         /\ listening' \subseteq Topics
    BY <2>1, CloseType
  <2>6. QED
    BY <1>12, <2>3, <2>4, <2>5 DEF TypeOK, ReadFails
<1>13. CASE ReadCrashes
  <2>1. Close
    BY <1>13 DEF ReadCrashes
  <2>2. running' = running /\ hooked' = hooked
    BY <1>13 DEF ReadCrashes
  <2>3. running' \in BOOLEAN /\ hooked' \in BOOLEAN
    BY <2>2 DEF TypeOK
  <2>4. isOpen' \in BOOLEAN
    BY <2>1, CloseType
  <2>5. /\ rpcState' \in RpcStates /\ conn' \in {"null", "Disconnected", "SentHandshake", "Connected"}
         /\ lost' \in {"never", "once", "again"} /\ discord' \subseteq Requests
         /\ listening' \subseteq Topics
    BY <2>1, CloseType
  <2>6. QED
    BY <1>13, <2>3, <2>4, <2>5 DEF TypeOK, ReadCrashes
<1>14. CASE ProcessCommandReply
  BY <1>14 DEF TypeOK, ProcessCommandReply, Processing, Resolve, Erase, LoopTop
<1>15. CASE ProcessDispatch
  BY <1>15 DEF TypeOK, ProcessDispatch, Processing, LoopTop, Subscribed
<1>16. CASE ProcessIgnored
  BY <1>16 DEF TypeOK, ProcessIgnored, Processing, LoopTop
<1>17. CASE ProcessThrows
  BY <1>17 DEF TypeOK, ProcessThrows
<1>18. CASE ProcessAuthorizeRefused
  BY <1>18 DEF TypeOK, ProcessAuthorizeRefused, Processing, LoopTop
<1>19. CASE ProcessAuthorized
  BY <1>19 DEF TypeOK, ProcessAuthorized, Processing
<1>20. CASE ProcessAuthenticateRefused
  BY <1>20 DEF TypeOK, ProcessAuthenticateRefused, Processing, LoopTop, Credentials, MaybeTokens
<1>21. CASE ProcessAuthenticated
  BY <1>21 DEF TypeOK, ProcessAuthenticated, Processing, LoopTop, Subscribe, Requests, Coroutines
<1>22. CASE OAuthThrows
  BY <1>22 DEF TypeOK, OAuthThrows
<1>23. CASE WaiterResumes
  BY <1>23 DEF TypeOK, WaiterResumes
<1>24. CASE CallAndForget
  BY <1>24 DEF TypeOK, CallAndForget, Set, Requests, MaybeTokens
<1>25. CASE BeginDestroy
  <2>1. running' \in BOOLEAN
    BY <1>25, Zenon DEF BeginDestroy
  <2>2. isOpen' \in BOOLEAN /\ hooked' \in BOOLEAN
    BY <1>25, Zenon DEF BeginDestroy, TypeOK, link
  <2>3. lifetime' \in {"alive", "freed"} \cup Dying
    BY <1>25 DEF BeginDestroy, Dying
  <2>4. QED
    BY <1>25, <2>1, <2>2, <2>3 DEF TypeOK, BeginDestroy
<1>41. CASE BeginClose
  BY <1>41 DEF TypeOK, Dying, BeginClose, FoundByClose, Tell, Shut
<1>42. CASE TellLoss
  BY <1>42 DEF TypeOK, Dying, TellLoss, Tell, OnDisconnect
<1>43. CASE ShutSocket
  <2>1. isOpen' \in BOOLEAN
    BY <1>43, Zenon DEF ShutSocket, Shut
  <2>2. running' \in BOOLEAN /\ hooked' \in BOOLEAN
    BY <1>43, Zenon DEF ShutSocket, TypeOK
  <2>3. lifetime' \in {"alive", "freed"} \cup Dying
    BY <1>43 DEF ShutSocket, Dying
  <2>4. discord' \subseteq Requests /\ listening' \subseteq Topics
    BY <1>43 DEF ShutSocket, Shut
  <2>5. QED
    BY <1>43, <2>1, <2>2, <2>3, <2>4 DEF TypeOK, ShutSocket
<1>44. CASE ClearState
  BY <1>44 DEF TypeOK, Dying, ClearState
<1>26. CASE EndDestroy
  BY <1>26 DEF TypeOK, EndDestroy
<1>27. ASSUME NEW r \in discord, NEW result \in {"ok", "error", "malformed"}, ReadReply(r, result)
      PROVE  TypeOK' 
  BY <1>27 DEF TypeOK, ReadReply, Requests, Frames, Commands, AuthCommands, Values
<1>28. ASSUME NEW e \in Topics, NEW result \in {"ok", "malformed"}, ReadEvent(e, result)
      PROVE  TypeOK' 
  BY <1>28 DEF TypeOK, ReadEvent, Frames, Values
<1>29. ASSUME NEW c \in Credentials, OAuthAnswers(c)
      PROVE  TypeOK' 
  BY <1>29 DEF TypeOK, OAuthAnswers, SaveCredentials, StateAfterOAuth, RequestsAfterOAuth, LoopTop, AuthenticateNew, Authorize, Requests, AuthCommands, Credentials, MaybeTokens
<1>30. ASSUME NEW r \in writes, WriteCompletes(r)
      PROVE  TypeOK' 
  BY <1>30 DEF TypeOK, WriteCompletes, Requests, AuthCommands
<1>31. ASSUME NEW r \in writes, WriteFails(r)
      PROVE  TypeOK' 
  <2>1. Close
    BY <1>31 DEF WriteFails
  <2>2. running' = running /\ hooked' = hooked
    BY <1>31 DEF WriteFails
  <2>3. running' \in BOOLEAN /\ hooked' \in BOOLEAN
    BY <2>2 DEF TypeOK
  <2>4. isOpen' \in BOOLEAN
    BY <2>1, CloseType
  <2>5. /\ rpcState' \in RpcStates /\ conn' \in {"null", "Disconnected", "SentHandshake", "Connected"}
         /\ lost' \in {"never", "once", "again"} /\ discord' \subseteq Requests
         /\ listening' \subseteq Topics
    BY <2>1, CloseType
  <2>6. QED
    BY <1>31, <2>3, <2>4, <2>5 DEF TypeOK, WriteFails
<1>32. ASSUME NEW c \in Callers, StartCall(c)
      PROVE  TypeOK' 
  BY <1>32 DEF TypeOK, StartCall, Coroutines
<1>33. ASSUME NEW c \in Coroutines, CallWritten(c)
      PROVE  TypeOK' 
  BY <1>33 DEF TypeOK, CallWritten, Get, Requests
<1>34. ASSUME NEW c \in Coroutines, CallWriteFails(c)
      PROVE  TypeOK' 
  <2>1. Close
    BY <1>34 DEF CallWriteFails
  <2>2. running' = running /\ hooked' = hooked
    BY <1>34 DEF CallWriteFails
  <2>3. running' \in BOOLEAN /\ hooked' \in BOOLEAN
    BY <2>2 DEF TypeOK
  <2>4. isOpen' \in BOOLEAN
    BY <2>1, CloseType
  <2>5. /\ rpcState' \in RpcStates /\ conn' \in {"null", "Disconnected", "SentHandshake", "Connected"}
         /\ lost' \in {"never", "once", "again"} /\ discord' \subseteq Requests
         /\ listening' \subseteq Topics
    BY <2>1, CloseType
  <2>6. QED
    BY <1>34, <2>3, <2>4, <2>5 DEF TypeOK, CallWriteFails
<1>35. ASSUME NEW c \in Coroutines, CallReturns(c)
      PROVE  TypeOK' 
  BY <1>35 DEF TypeOK, CallReturns
<1>36. ASSUME NEW c \in Coroutines, CallThrows(c)
      PROVE  TypeOK' 
  BY <1>36 DEF TypeOK, CallThrows
<1>37. CASE FetchReturns
  BY <1>37 DEF TypeOK, FetchReturns, ResolveInit, Topics, Coroutines
<1>38. CASE UNCHANGED vars
  BY <1>38 DEF TypeOK, vars
<1>99. QED
  BY <1>1, <1>2, <1>3, <1>4, <1>5, <1>6, <1>7, <1>8, <1>9, <1>10, <1>11, <1>12, <1>13, <1>14, <1>15, <1>16, <1>17, <1>18, <1>19, <1>20, <1>21, <1>22, <1>23, <1>24, <1>25, <1>26, <1>27, <1>28, <1>29, <1>30, <1>31, <1>32, <1>33, <1>34, <1>35, <1>36, <1>37, <1>38, <1>40, <1>41, <1>42, <1>43, <1>44
  DEF Next, Startup, Read, Process, WriteEnds, CallProceeds, Destroy

LEMMA TypeInit == Init => TypeOK
  BY StartingAssumption, NoFrameType DEF Init, TypeOK, RpcStates, WorkerStates

\* LoadInv, then LoginInv, then CallInv is inductive given those before it.
LEMMA LoadStep == TypeOK /\ LoadInv /\ [Next]_vars => LoadInv'
<1> SUFFICES ASSUME TypeOK, LoadInv, [Next]_vars PROVE LoadInv'
  OBVIOUS
<1> USE DEF LoadInv, link, login, data, calls, peer
<1>1. CASE InitializeInCurrentThread
  BY <1>1 DEF InitializeInCurrentThread
<1>2. CASE InitializeWithoutConfig
  BY <1>2 DEF InitializeWithoutConfig
<1>3. CASE Initialize
  BY <1>3 DEF Initialize
<1>4. CASE OpenFails
  BY <1>4 DEF OpenFails
<1>5. CASE OpenSocket
  BY <1>5 DEF OpenSocket
<1>6. CASE HandshakeWritten
  BY <1>6 DEF HandshakeWritten
<1>7. CASE HandshakeWriteFails
  BY <1>7 DEF HandshakeWriteFails
<1>8. CASE HandshakeRead
  BY <1>8 DEF HandshakeRead
<1>9. CASE HandshakeReadFails
  BY <1>9 DEF HandshakeReadFails, LoopTop
<1>40. CASE HandshakeThrows
  BY <1>40 DEF HandshakeThrows
<1>10. CASE AuthWritten
  BY <1>10 DEF AuthWritten, LoopTop, FirstAuth, Authorize, AuthenticateCached
<1>11. CASE AuthWriteFails
  BY <1>11 DEF AuthWriteFails, Close, Tell, Shut, OnDisconnect
<1>12. CASE ReadFails
  BY <1>12 DEF ReadFails, Close, Tell, Shut, OnDisconnect
<1>13. CASE ReadCrashes
  BY <1>13 DEF ReadCrashes, Close, Tell, Shut, OnDisconnect
<1>14. CASE ProcessCommandReply
  BY <1>14 DEF ProcessCommandReply, Processing, Resolve, Erase, LoopTop
<1>15. CASE ProcessDispatch
  BY <1>15 DEF ProcessDispatch, Processing, LoopTop, Subscribed, Topics
<1>16. CASE ProcessIgnored
  BY <1>16 DEF ProcessIgnored, Processing, LoopTop
<1>17. CASE ProcessThrows
  BY <1>17 DEF ProcessThrows
<1>18. CASE ProcessAuthorizeRefused
  BY <1>18 DEF ProcessAuthorizeRefused, Processing, LoopTop
<1>19. CASE ProcessAuthorized
  BY <1>19 DEF ProcessAuthorized, Processing
<1>20. CASE ProcessAuthenticateRefused
  BY <1>20 DEF ProcessAuthenticateRefused, Processing, LoopTop
<1>21. CASE ProcessAuthenticated
  BY <1>21 DEF ProcessAuthenticated, Processing, LoopTop, Subscribe
<1>22. CASE OAuthThrows
  BY <1>22 DEF OAuthThrows
<1>23. CASE WaiterResumes
  BY <1>23 DEF WaiterResumes, InitialDataReceived
<1>24. CASE CallAndForget
  BY <1>24 DEF CallAndForget, Set
<1>25. CASE BeginDestroy
  BY <1>25 DEF BeginDestroy
<1>41. CASE BeginClose
  BY <1>41 DEF BeginClose, FoundByClose, Tell, Shut
<1>42. CASE TellLoss
  BY <1>42 DEF TellLoss, Tell, OnDisconnect
<1>43. CASE ShutSocket
  BY <1>43 DEF ShutSocket, Shut
<1>44. CASE ClearState
  BY <1>44 DEF ClearState
<1>26. CASE EndDestroy
  BY <1>26 DEF EndDestroy
<1>27. CASE FetchReturns
  BY <1>27 DEF FetchReturns, ResolveInit, Topics
<1>28. ASSUME NEW r \in discord, NEW result \in {"ok", "error", "malformed"}, ReadReply(r, result)
      PROVE  LoadInv'
  BY <1>28 DEF ReadReply
<1>29. ASSUME NEW e \in Topics, NEW result \in {"ok", "malformed"}, ReadEvent(e, result)
      PROVE  LoadInv'
  BY <1>29 DEF ReadEvent
<1>30. ASSUME NEW c \in Credentials, OAuthAnswers(c)
      PROVE  LoadInv'
  BY <1>30 DEF OAuthAnswers, SaveCredentials, StateAfterOAuth, RequestsAfterOAuth, LoopTop, AuthenticateNew, Authorize
<1>31. ASSUME NEW r \in writes, WriteCompletes(r)
      PROVE  LoadInv'
  BY <1>31 DEF WriteCompletes
<1>32. ASSUME NEW r \in writes, WriteFails(r)
      PROVE  LoadInv'
  BY <1>32 DEF WriteFails, Close, Tell, Shut, OnDisconnect
<1>33. ASSUME NEW c \in Callers, StartCall(c)
      PROVE  LoadInv'
  BY <1>33 DEF StartCall
<1>34. ASSUME NEW c \in Coroutines, CallWritten(c)
      PROVE  LoadInv'
  BY <1>34 DEF CallWritten, Get
<1>35. ASSUME NEW c \in Coroutines, CallWriteFails(c)
      PROVE  LoadInv'
  BY <1>35 DEF CallWriteFails, Close, Tell, Shut, OnDisconnect
<1>36. ASSUME NEW c \in Coroutines, CallReturns(c)
      PROVE  LoadInv'
  BY <1>36 DEF CallReturns
<1>37. ASSUME NEW c \in Coroutines, CallThrows(c)
      PROVE  LoadInv'
  BY <1>37 DEF CallThrows
<1>38. CASE UNCHANGED vars
  BY <1>38 DEF vars
<1>39. QED
  BY <1>1, <1>2, <1>3, <1>4, <1>5, <1>6, <1>7, <1>8, <1>9, <1>10, <1>11, <1>12, <1>13, <1>14, <1>15, <1>16, <1>17, <1>18, <1>19, <1>20, <1>21, <1>22, <1>23, <1>24, <1>25, <1>26, <1>27, <1>28, <1>29, <1>30, <1>31, <1>32, <1>33, <1>34, <1>35, <1>36, <1>37, <1>38, <1>40, <1>41, <1>42, <1>43, <1>44
  DEF Next, Startup, Read, Process, WriteEnds, CallProceeds, Destroy

LEMMA LoginStep == TypeOK /\ LoadInv /\ LoginInv /\ DestroyInv /\ [Next]_vars => LoginInv'
<1> SUFFICES ASSUME TypeOK, LoadInv, LoginInv, DestroyInv, [Next]_vars PROVE LoginInv'
  OBVIOUS
<1> USE DEF LoadInv, LoginInv, PhaseInv, ConnInv, BeforeLogin, AfterLogin, ExchangeInv, StateInv, CredentialsInv,
           RequestsMatchCredentials, InFlight, AuthState, AuthCommands, Expected, Untouched, Opening, Starting, OAuth,
           FirstAuth, Authorize, AuthenticateCached, link, login, data, calls, peer
<1>1. CASE InitializeInCurrentThread
  BY <1>1 DEF InitializeInCurrentThread
<1>2. CASE InitializeWithoutConfig
  BY <1>2 DEF InitializeWithoutConfig
<1>3. CASE Initialize
  BY <1>3 DEF Initialize
<1>4. CASE OpenFails
  BY <1>4 DEF OpenFails
<1>5. CASE OpenSocket
  BY <1>5 DEF OpenSocket
<1>6. CASE HandshakeWritten
  BY <1>6 DEF HandshakeWritten
<1>7. CASE HandshakeWriteFails
  BY <1>7 DEF HandshakeWriteFails
<1>8. CASE HandshakeRead
  BY <1>8 DEF HandshakeRead
<1>9. CASE HandshakeReadFails
  BY <1>9 DEF HandshakeReadFails, LoopTop
<1>40. CASE HandshakeThrows
  BY <1>40 DEF HandshakeThrows
<1>10. CASE AuthWritten
  BY <1>10 DEF AuthWritten, LoopTop, FirstAuth, Authorize, AuthenticateCached
<1>11. CASE AuthWriteFails
  BY <1>11 DEF AuthWriteFails, Close, Tell, Shut, OnDisconnect
<1>12. CASE ReadFails
  BY <1>12 DEF ReadFails, Close, Tell, Shut, OnDisconnect
<1>13. CASE ReadCrashes
  BY <1>13 DEF ReadCrashes, Close, Tell, Shut, OnDisconnect
<1>14. CASE ProcessCommandReply
  BY <1>14 DEF ProcessCommandReply, Processing, Resolve, Erase, LoopTop
<1>15. CASE ProcessDispatch
  BY <1>15 DEF ProcessDispatch, Processing, LoopTop, Subscribed
<1>16. CASE ProcessIgnored
  BY <1>16 DEF ProcessIgnored, Processing, LoopTop
<1>17. CASE ProcessThrows
  BY <1>17 DEF ProcessThrows
<1>18. CASE ProcessAuthorizeRefused
  BY <1>18 DEF ProcessAuthorizeRefused, Processing, LoopTop
<1>19. CASE ProcessAuthorized
  BY <1>19 DEF ProcessAuthorized, Processing
<1>20. CASE ProcessAuthenticateRefused
  BY <1>20 DEF ProcessAuthenticateRefused, Processing, LoopTop
<1>21. CASE ProcessAuthenticated
  BY <1>21 DEF ProcessAuthenticated, Processing, LoopTop, Subscribe
<1>22. CASE OAuthThrows
  BY <1>22 DEF OAuthThrows
<1>23. CASE WaiterResumes
  BY <1>23 DEF WaiterResumes, InitialDataReceived
<1>24. CASE CallAndForget
  BY <1>24 DEF CallAndForget, Set
<1>25. CASE BeginDestroy
  BY <1>25 DEF BeginDestroy
<1>41. CASE BeginClose
  BY <1>41 DEF BeginClose, FoundByClose, Tell, Shut
<1>42. CASE TellLoss
  BY <1>42 DEF TellLoss, Tell, OnDisconnect
<1>43. CASE ShutSocket
  BY <1>43 DEF ShutSocket, Shut, DestroyInv
<1>44. CASE ClearState
  BY <1>44 DEF ClearState, DestroyInv
<1>26. CASE EndDestroy
  BY <1>26 DEF EndDestroy
<1>27. CASE FetchReturns
  BY <1>27 DEF FetchReturns, ResolveInit
<1>28. ASSUME NEW r \in discord, NEW result \in {"ok", "error", "malformed"}, ReadReply(r, result)
      PROVE  LoginInv'
  BY <1>28 DEF ReadReply
<1>29. ASSUME NEW e \in Topics, NEW result \in {"ok", "malformed"}, ReadEvent(e, result)
      PROVE  LoginInv'
  BY <1>29 DEF ReadEvent
<1>30. ASSUME NEW c \in Credentials, OAuthAnswers(c)
      PROVE  LoginInv'
  BY <1>30 DEF OAuthAnswers, SaveCredentials, StateAfterOAuth, RequestsAfterOAuth, LoopTop, AuthenticateNew, Authorize
<1>31. ASSUME NEW r \in writes, WriteCompletes(r)
      PROVE  LoginInv'
  BY <1>31 DEF WriteCompletes
<1>32. ASSUME NEW r \in writes, WriteFails(r)
      PROVE  LoginInv'
  BY <1>32 DEF WriteFails, Close, Tell, Shut, OnDisconnect
<1>33. ASSUME NEW c \in Callers, StartCall(c)
      PROVE  LoginInv'
  BY <1>33 DEF StartCall
<1>34. ASSUME NEW c \in Coroutines, CallWritten(c)
      PROVE  LoginInv'
  BY <1>34 DEF CallWritten, Get
<1>35. ASSUME NEW c \in Coroutines, CallWriteFails(c)
      PROVE  LoginInv'
  BY <1>35 DEF CallWriteFails, Close, Tell, Shut, OnDisconnect
<1>36. ASSUME NEW c \in Coroutines, CallReturns(c)
      PROVE  LoginInv'
  BY <1>36 DEF CallReturns
<1>37. ASSUME NEW c \in Coroutines, CallThrows(c)
      PROVE  LoginInv'
  BY <1>37 DEF CallThrows
<1>38. CASE UNCHANGED vars
  BY <1>38 DEF vars
<1>39. QED
  BY <1>1, <1>2, <1>3, <1>4, <1>5, <1>6, <1>7, <1>8, <1>9, <1>10, <1>11, <1>12, <1>13, <1>14, <1>15, <1>16, <1>17, <1>18, <1>19, <1>20, <1>21, <1>22, <1>23, <1>24, <1>25, <1>26, <1>27, <1>28, <1>29, <1>30, <1>31, <1>32, <1>33, <1>34, <1>35, <1>36, <1>37, <1>38, <1>40, <1>41, <1>42, <1>43, <1>44
  DEF Next, Startup, Read, Process, WriteEnds, CallProceeds, Destroy

LEMMA CallStep == TypeOK /\ LoginInv /\ LinkInv /\ CallInv /\ [Next]_vars => CallInv'
<1> SUFFICES ASSUME TypeOK, LoginInv, LinkInv, CallInv, [Next]_vars PROVE CallInv'
  OBVIOUS
<1> USE DEF LoginInv, BeforeLogin, AfterLogin, LinkInv, CallInv, RepliesFindCallers, Reachable, AuthCommands, Get,
           link, login, data, calls, peer
<1>1. CASE InitializeInCurrentThread
  BY <1>1 DEF InitializeInCurrentThread
<1>2. CASE InitializeWithoutConfig
  BY <1>2 DEF InitializeWithoutConfig
<1>3. CASE Initialize
  BY <1>3 DEF Initialize
<1>4. CASE OpenFails
  BY <1>4 DEF OpenFails
<1>5. CASE OpenSocket
  BY <1>5 DEF OpenSocket
<1>6. CASE HandshakeWritten
  BY <1>6 DEF HandshakeWritten
<1>7. CASE HandshakeWriteFails
  BY <1>7 DEF HandshakeWriteFails
<1>8. CASE HandshakeRead
  BY <1>8 DEF HandshakeRead
<1>9. CASE HandshakeReadFails
  BY <1>9 DEF HandshakeReadFails, LoopTop
<1>40. CASE HandshakeThrows
  BY <1>40 DEF HandshakeThrows
<1>10. CASE AuthWritten
  BY <1>10 DEF AuthWritten, LoopTop, FirstAuth, Authorize, AuthenticateCached, Coroutines
<1>11. CASE AuthWriteFails
  BY <1>11 DEF AuthWriteFails, Close, Tell, Shut, OnDisconnect
<1>12. CASE ReadFails
  BY <1>12 DEF ReadFails, Close, Tell, Shut, OnDisconnect
<1>13. CASE ReadCrashes
  BY <1>13 DEF ReadCrashes, Close, Tell, Shut, OnDisconnect
<1>14. CASE ProcessCommandReply
  BY <1>14 DEF ProcessCommandReply, Processing, Resolve, Erase, LoopTop, TypeOK
<1>15. CASE ProcessDispatch
  BY <1>15 DEF ProcessDispatch, Processing, LoopTop, Subscribed
<1>16. CASE ProcessIgnored
  BY <1>16 DEF ProcessIgnored, Processing, LoopTop
<1>17. CASE ProcessThrows
  BY <1>17 DEF ProcessThrows
<1>18. CASE ProcessAuthorizeRefused
  BY <1>18 DEF ProcessAuthorizeRefused, Processing, LoopTop
<1>19. CASE ProcessAuthorized
  BY <1>19 DEF ProcessAuthorized, Processing
<1>20. CASE ProcessAuthenticateRefused
  BY <1>20 DEF ProcessAuthenticateRefused, Processing, LoopTop
<1>21. CASE ProcessAuthenticated
  BY <1>21 DEF ProcessAuthenticated, Processing, LoopTop, Subscribe, TypeOK, Coroutines
<1>22. CASE OAuthThrows
  BY <1>22 DEF OAuthThrows
<1>23. CASE WaiterResumes
  BY <1>23 DEF WaiterResumes, InitialDataReceived
<1>24. CASE CallAndForget
  BY <1>24 DEF CallAndForget, Set
<1>25. CASE BeginDestroy
  BY <1>25 DEF BeginDestroy
<1>41. CASE BeginClose
  BY <1>41 DEF BeginClose, FoundByClose, Tell, Shut
<1>42. CASE TellLoss
  BY <1>42 DEF TellLoss, Tell, OnDisconnect
<1>43. CASE ShutSocket
  BY <1>43 DEF ShutSocket, Shut
<1>44. CASE ClearState
  BY <1>44 DEF ClearState
<1>26. CASE EndDestroy
  BY <1>26 DEF EndDestroy
<1>27. CASE FetchReturns
  BY <1>27 DEF FetchReturns, ResolveInit
<1>28. ASSUME NEW r \in discord, NEW result \in {"ok", "error", "malformed"}, ReadReply(r, result)
      PROVE  CallInv'
  <2>1. r.cmd = "GET" => r = Get(r.val) /\ r.val \in Coroutines
    BY DEF TypeOK, Requests
  <2>2. QED
    BY <1>28, <2>1 DEF ReadReply
<1>29. ASSUME NEW e \in Topics, NEW result \in {"ok", "malformed"}, ReadEvent(e, result)
      PROVE  CallInv'
  BY <1>29 DEF ReadEvent
<1>30. ASSUME NEW c \in Credentials, OAuthAnswers(c)
      PROVE  CallInv'
  BY <1>30 DEF OAuthAnswers, SaveCredentials, StateAfterOAuth, RequestsAfterOAuth, LoopTop, AuthenticateNew, Authorize
<1>31. ASSUME NEW r \in writes, WriteCompletes(r)
      PROVE  CallInv'
  BY <1>31 DEF WriteCompletes
<1>32. ASSUME NEW r \in writes, WriteFails(r)
      PROVE  CallInv'
  BY <1>32 DEF WriteFails, Close, Tell, Shut, OnDisconnect
<1>33. ASSUME NEW c \in Callers, StartCall(c)
      PROVE  CallInv'
  BY <1>33 DEF StartCall, TypeOK, Coroutines
<1>34. ASSUME NEW c \in Coroutines, CallWritten(c)
      PROVE  CallInv'
  BY <1>34 DEF CallWritten, Get, TypeOK
<1>35. ASSUME NEW c \in Coroutines, CallWriteFails(c)
      PROVE  CallInv'
  BY <1>35 DEF CallWriteFails, Close, Tell, Shut, OnDisconnect
<1>36. ASSUME NEW c \in Coroutines, CallReturns(c)
      PROVE  CallInv'
  BY <1>36 DEF CallReturns
<1>37. ASSUME NEW c \in Coroutines, CallThrows(c)
      PROVE  CallInv'
  BY <1>37 DEF CallThrows
<1>38. CASE UNCHANGED vars
  BY <1>38 DEF vars
<1>39. QED
  BY <1>1, <1>2, <1>3, <1>4, <1>5, <1>6, <1>7, <1>8, <1>9, <1>10, <1>11, <1>12, <1>13, <1>14, <1>15, <1>16, <1>17, <1>18, <1>19, <1>20, <1>21, <1>22, <1>23, <1>24, <1>25, <1>26, <1>27, <1>28, <1>29, <1>30, <1>31, <1>32, <1>33, <1>34, <1>35, <1>36, <1>37, <1>38, <1>40, <1>41, <1>42, <1>43, <1>44
  DEF Next, Startup, Read, Process, WriteEnds, CallProceeds, Destroy

\* A coroutine's Close() is a step of the machine, or one it does not see.
LEMMA CloseReports ==
  ASSUME TypeOK, LoginInv, LostInv, DestroyInv, Close, UNCHANGED <<lifetime, running>>,
         worker # "none", worker' # "none"
  PROVE  [Machine!Next]_Machine!vars
<1> USE DEF Phase, Machine!vars
<1>1. CASE conn \in {"null", "Disconnected"}
  BY <1>1 DEF Close
<1>2. CASE conn \notin {"null", "Disconnected"} /\ ~hooked
  BY <1>2 DEF Close, Tell, LostInv
<1>3. CASE conn \notin {"null", "Disconnected"} /\ hooked /\ rpcState = "AUTHENTICATION_FAILED"
  <2>1. UNCHANGED <<rpcState, lost>> /\ conn' = "Disconnected"
    BY <1>3 DEF Close, Tell, OnDisconnect
  <2>2. UNCHANGED Phase \/ (Phase = "told" /\ Phase' = "stopped")
    BY <2>1, <1>3
  <2>3. QED
    BY <2>1, <2>2 DEF Machine!Next, Machine!EndClose
<1>4. CASE conn \notin {"null", "Disconnected"} /\ hooked /\ rpcState # "AUTHENTICATION_FAILED"
  <2>1. Machine!Report /\ conn' = "Disconnected"
    BY <1>4 DEF Close, Tell, OnDisconnect, Machine!Report, LoginInv, StateInv
  <2>2. CASE lost = "never"
    <3>1. rpcState \in Machine!Online
      BY <1>4, <2>2 DEF TypeOK, RpcStates, Machine!Online, LoginInv, StateInv, LostInv
    <3>2. UNCHANGED Phase /\ Phase \in Machine!Working
      BY <2>1, <2>2 DEF Machine!Report, Machine!Working, TypeOK, Dying, LoginInv, PhaseInv
    <3>3. QED
      BY <2>1, <2>2, <3>1, <3>2 DEF Machine!Next, Machine!LoseConnection
  <2>3. CASE lost # "never"
    <3>1. Phase = "told" /\ Phase' = "stopped"
      BY <1>4, <2>1, <2>3 DEF LostInv
    <3>2. QED
      BY <2>1, <3>1 DEF Machine!Next, Machine!LoseAgain
  <2>4. QED
    BY <2>2, <2>3
<1>5. QED
  BY <1>1, <1>2, <1>3, <1>4

\* Once closed, a connection that was online has been reported lost.
LEMMA CloseLoses ==
  ASSUME TypeOK, LoginInv, LostInv, Close, UNCHANGED <<hooked, lifetime>>
  PROVE  LostInv'
<1>1. CASE conn \in {"null", "Disconnected"}
  BY <1>1 DEF Close, LostInv
<1>2. CASE conn \notin {"null", "Disconnected"} /\ ~hooked
  BY <1>2 DEF Close, Tell, LostInv
<1>3. CASE conn \notin {"null", "Disconnected"} /\ hooked
  <2>1. conn' = "Disconnected" /\ rpcState' = OnDisconnect(rpcState)
    BY <1>3 DEF Close, Tell
  <2>2. rpcState' = "DISCONNECTED" => lost' # "never"
    BY <1>3 DEF Close, Tell
  <2>3. lost' # "never" /\ lifetime \in Untouched => rpcState' = "DISCONNECTED"
    BY <1>3 DEF Close, Tell, LostInv, Untouched
  <2>4. rpcState' \notin Machine!Online
    BY <2>1, <2>2 DEF OnDisconnect, Machine!Online
  <2>5. QED
    BY <1>3, <2>1, <2>2, <2>3, <2>4 DEF LostInv, Untouched
<1>4. QED
  BY <1>1, <1>2, <1>3

\* No step of a client reports a loss twice unless the destructor and a coroutine close
\* at once, or loses a connection silently.
LEMMA LostStep == TypeOK /\ LoadInv /\ LoginInv /\ LinkInv /\ LostInv /\ [Next]_vars => LostInv'
<1> SUFFICES ASSUME TypeOK, LoadInv, LoginInv, LinkInv, LostInv, [Next]_vars PROVE LostInv'
  OBVIOUS
<1> USE DEF LoadInv, LoginInv, PhaseInv, ConnInv, BeforeLogin, AfterLogin, ExchangeInv, StateInv,
           AuthState, AuthCommands, Expected, Untouched, Opening, Starting, OAuth, FirstAuth, Authorize,
           AuthenticateCached, Machine!Online, LostInv, LinkInv, RpcStates,
           link, login, data, calls, peer
<1>1. CASE InitializeInCurrentThread
  BY <1>1 DEF InitializeInCurrentThread
<1>2. CASE InitializeWithoutConfig
  BY <1>2 DEF InitializeWithoutConfig
<1>3. CASE Initialize
  BY <1>3 DEF Initialize
<1>4. CASE OpenFails
  BY <1>4 DEF OpenFails
<1>5. CASE OpenSocket
  BY <1>5 DEF OpenSocket
<1>6. CASE HandshakeWritten
  BY <1>6 DEF HandshakeWritten
<1>7. CASE HandshakeWriteFails
  BY <1>7 DEF HandshakeWriteFails
<1>8. CASE HandshakeRead
  BY <1>8 DEF HandshakeRead
<1>9. CASE HandshakeReadFails
  BY <1>9 DEF HandshakeReadFails, LoopTop
<1>40. CASE HandshakeThrows
  BY <1>40 DEF HandshakeThrows
<1>10. CASE AuthWritten
  BY <1>10 DEF AuthWritten, LoopTop, FirstAuth, Authorize, AuthenticateCached
<1>11. CASE AuthWriteFails
  BY <1>11, CloseLoses DEF AuthWriteFails
<1>12. CASE ReadFails
  BY <1>12, CloseLoses DEF ReadFails
<1>13. CASE ReadCrashes
  BY <1>13, CloseLoses DEF ReadCrashes
<1>14. CASE ProcessCommandReply
  BY <1>14 DEF ProcessCommandReply, Processing, Resolve, Erase, LoopTop
<1>15. CASE ProcessDispatch
  BY <1>15 DEF ProcessDispatch, Processing, LoopTop, Subscribed
<1>16. CASE ProcessIgnored
  BY <1>16 DEF ProcessIgnored, Processing, LoopTop
<1>17. CASE ProcessThrows
  BY <1>17 DEF ProcessThrows
<1>18. CASE ProcessAuthorizeRefused
  BY <1>18 DEF ProcessAuthorizeRefused, Processing, LoopTop
<1>19. CASE ProcessAuthorized
  BY <1>19 DEF ProcessAuthorized, Processing
<1>20. CASE ProcessAuthenticateRefused
  BY <1>20 DEF ProcessAuthenticateRefused, Processing, LoopTop
<1>21. CASE ProcessAuthenticated
  BY <1>21 DEF ProcessAuthenticated, Processing, LoopTop, Subscribe
<1>22. CASE OAuthThrows
  BY <1>22 DEF OAuthThrows
<1>23. CASE WaiterResumes
  BY <1>23 DEF WaiterResumes, InitialDataReceived
<1>24. CASE CallAndForget
  BY <1>24 DEF CallAndForget, Set
<1>25. CASE BeginDestroy
  BY <1>25 DEF BeginDestroy
<1>41. CASE BeginClose
  BY <1>41 DEF BeginClose, FoundByClose, Tell, Shut
<1>42. CASE TellLoss
  BY <1>42 DEF TellLoss, Tell, OnDisconnect
<1>43. CASE ShutSocket
  BY <1>43 DEF ShutSocket, Shut
<1>44. CASE ClearState
  BY <1>44 DEF ClearState
<1>26. CASE EndDestroy
  BY <1>26 DEF EndDestroy
<1>27. CASE FetchReturns
  BY <1>27 DEF FetchReturns, ResolveInit
<1>28. ASSUME NEW r \in discord, NEW result \in {"ok", "error", "malformed"}, ReadReply(r, result)
      PROVE  LostInv'
  BY <1>28 DEF ReadReply
<1>29. ASSUME NEW e \in Topics, NEW result \in {"ok", "malformed"}, ReadEvent(e, result)
      PROVE  LostInv'
  BY <1>29 DEF ReadEvent
<1>30. ASSUME NEW c \in Credentials, OAuthAnswers(c)
      PROVE  LostInv'
  BY <1>30 DEF OAuthAnswers, SaveCredentials, StateAfterOAuth, RequestsAfterOAuth, LoopTop, AuthenticateNew, Authorize
<1>31. ASSUME NEW r \in writes, WriteCompletes(r)
      PROVE  LostInv'
  BY <1>31 DEF WriteCompletes
<1>32. ASSUME NEW r \in writes, WriteFails(r)
      PROVE  LostInv'
  BY <1>32, CloseLoses DEF WriteFails
<1>33. ASSUME NEW c \in Callers, StartCall(c)
      PROVE  LostInv'
  BY <1>33 DEF StartCall
<1>34. ASSUME NEW c \in Coroutines, CallWritten(c)
      PROVE  LostInv'
  BY <1>34 DEF CallWritten, Get
<1>35. ASSUME NEW c \in Coroutines, CallWriteFails(c)
      PROVE  LostInv'
  BY <1>35, CloseLoses DEF CallWriteFails
<1>36. ASSUME NEW c \in Coroutines, CallReturns(c)
      PROVE  LostInv'
  BY <1>36 DEF CallReturns
<1>37. ASSUME NEW c \in Coroutines, CallThrows(c)
      PROVE  LostInv'
  BY <1>37 DEF CallThrows
<1>38. CASE UNCHANGED vars
  BY <1>38 DEF vars
<1>39. QED
  BY <1>1, <1>2, <1>3, <1>4, <1>5, <1>6, <1>7, <1>8, <1>9, <1>10, <1>11, <1>12, <1>13, <1>14, <1>15, <1>16, <1>17, <1>18, <1>19, <1>20, <1>21, <1>22, <1>23, <1>24, <1>25, <1>26, <1>27, <1>28, <1>29, <1>30, <1>31, <1>32, <1>33, <1>34, <1>35, <1>36, <1>37, <1>38, <1>40, <1>41, <1>42, <1>43, <1>44
  DEF Next, Startup, Read, Process, WriteEnds, CallProceeds, Destroy

\* Every step of a client is a step of the state machine, or leaves it alone.
LEMMA MachineStep ==
  TypeOK /\ LoadInv /\ LoginInv /\ LinkInv /\ DestroyInv /\ LostInv /\ [Next]_vars
    => [Machine!Next]_Machine!vars
<1> SUFFICES ASSUME TypeOK, LoadInv, LoginInv, LinkInv, DestroyInv, LostInv, [Next]_vars
             PROVE  [Machine!Next]_Machine!vars
  OBVIOUS
<1> USE DEF LoadInv, LoginInv, PhaseInv, ConnInv, BeforeLogin, AfterLogin, ExchangeInv, StateInv, CredentialsInv,
           AuthState, AuthCommands, Expected, Untouched, Opening, Starting, OAuth, FirstAuth, Authorize, AuthenticateCached,
           Machine!Next, Machine!Start, Machine!Advance, Machine!LoseConnection, Machine!LateReady,
           Machine!Stop, Machine!FinishTurn, Machine!Report, Machine!Working, LostInv, LinkInv, DestroyInv, Phase, Dying,
            Machine!vars, Machine!AssertedSteps, Machine!Online, RpcStates,
           link, login, data, calls, peer
<1>1. CASE InitializeInCurrentThread
  BY <1>1 DEF InitializeInCurrentThread
<1>2. CASE InitializeWithoutConfig
  BY <1>2 DEF InitializeWithoutConfig
<1>3. CASE Initialize
  BY <1>3 DEF Initialize
<1>4. CASE OpenFails
  BY <1>4 DEF OpenFails
<1>5. CASE OpenSocket
  BY <1>5 DEF OpenSocket
<1>6. CASE HandshakeWritten
  BY <1>6 DEF HandshakeWritten
<1>7. CASE HandshakeWriteFails
  BY <1>7 DEF HandshakeWriteFails
<1>8. CASE HandshakeRead
  BY <1>8 DEF HandshakeRead
<1>9. CASE HandshakeReadFails
  BY <1>9 DEF HandshakeReadFails, LoopTop
<1>40. CASE HandshakeThrows
  BY <1>40 DEF HandshakeThrows
<1>10. CASE AuthWritten
  BY <1>10 DEF AuthWritten, LoopTop, FirstAuth, Authorize, AuthenticateCached
<1>11. CASE AuthWriteFails
  BY <1>11, CloseReports DEF AuthWriteFails
<1>12. CASE ReadFails
  BY <1>12, CloseReports DEF ReadFails
<1>13. CASE ReadCrashes
  BY <1>13, CloseReports DEF ReadCrashes
<1>14. CASE ProcessCommandReply
  BY <1>14 DEF ProcessCommandReply, Processing, Resolve, Erase, LoopTop
<1>15. CASE ProcessDispatch
  BY <1>15 DEF ProcessDispatch, Processing, LoopTop, Subscribed
<1>16. CASE ProcessIgnored
  BY <1>16 DEF ProcessIgnored, Processing, LoopTop
<1>17. CASE ProcessThrows
  BY <1>17 DEF ProcessThrows
<1>18. CASE ProcessAuthorizeRefused
  BY <1>18 DEF ProcessAuthorizeRefused, Processing, LoopTop
<1>19. CASE ProcessAuthorized
  BY <1>19 DEF ProcessAuthorized, Processing
<1>20. CASE ProcessAuthenticateRefused
  BY <1>20 DEF ProcessAuthenticateRefused, Processing, LoopTop
<1>21. CASE ProcessAuthenticated
  BY <1>21 DEF ProcessAuthenticated, Processing, LoopTop, Subscribe
<1>22. CASE OAuthThrows
  BY <1>22 DEF OAuthThrows
<1>23. CASE WaiterResumes
  BY <1>23 DEF WaiterResumes, InitialDataReceived
<1>24. CASE CallAndForget
  BY <1>24 DEF CallAndForget, Set
<1>25. CASE BeginDestroy
  BY <1>25 DEF BeginDestroy
<1>41. CASE BeginClose
  <2>1. UNCHANGED <<rpcState, lost>> /\ lifetime = "stopping" /\ lifetime' = FoundByClose
    BY <1>41 DEF BeginClose
  <2>2. CASE worker = "none"
    BY <1>41, <2>1, <2>2 DEF BeginClose, FoundByClose
  <2>3. CASE worker # "none" /\ hooked /\ rpcState \in Machine!Online /\ lost = "never"
    <3>1. lifetime' = "telling"
      BY <2>1, <2>3 DEF FoundByClose
    <3>2. Phase = "closing" /\ Phase' = "telling"
      BY <1>41, <2>1, <2>3, <3>1 DEF BeginClose
    <3>3. QED
      BY <2>1, <2>3, <3>2 DEF Machine!BeginClose
  <2>4. CASE worker # "none" /\ ~(rpcState \in Machine!Online /\ lost = "never")
    <3>1. lifetime' # "telling"
      BY <2>1, <2>4 DEF FoundByClose, TypeOK
    <3>2. Phase = "closing"
      BY <2>1, <2>4
    <3>3. Phase' = "stopped"
      BY <1>41, <2>1, <2>4, <3>1 DEF BeginClose, FoundByClose
    <3>4. QED
      BY <2>1, <2>4, <3>2, <3>3 DEF Machine!BeginClose
  <2>5. QED
    BY <2>1, <2>2, <2>3, <2>4
<1>42. CASE TellLoss
  <2>1. hooked /\ worker # "none" /\ lifetime = "telling" /\ lifetime' = "shutting"
    BY <1>42 DEF TellLoss
  <2>2. Phase = "telling"
    BY <2>1
  <2>3. rpcState' = OnDisconnect(rpcState)
    BY <1>42, <2>1 DEF TellLoss, Tell
  <2>4. CASE rpcState = "AUTHENTICATION_FAILED"
    <3>1. UNCHANGED <<rpcState, lost>>
      BY <1>42, <2>3, <2>4 DEF TellLoss, Tell, OnDisconnect
    <3>2. lost = "never"
      BY <2>1, <2>4
    <3>3. Phase' = "stopped"
      BY <1>42, <2>1, <3>1, <3>2 DEF TellLoss
    <3>4. QED
      BY <2>2, <2>4, <3>1, <3>2, <3>3 DEF Machine!TellLoss
  <2>5. CASE rpcState # "AUTHENTICATION_FAILED"
    <3>1. Machine!Report
      BY <1>42, <2>1, <2>3, <2>5 DEF TellLoss, Tell, OnDisconnect
    <3>2. Phase' = IF conn # "Disconnected" THEN "told" ELSE "stopped"
      BY <1>42, <2>1, <3>1 DEF TellLoss
    <3>3. conn # "Disconnected" <=> lost = "never"
      BY <2>1, <2>5 DEF TypeOK
    <3>4. QED
      BY <2>2, <2>5, <3>1, <3>2, <3>3 DEF Machine!TellLoss
  <2>6. QED
    BY <2>4, <2>5
<1>43. CASE ShutSocket
  BY <1>43 DEF ShutSocket, Shut, Machine!EndClose
<1>44. CASE ClearState
  BY <1>44 DEF ClearState, Machine!EndClose
<1>26. CASE EndDestroy
  BY <1>26 DEF EndDestroy
<1>27. CASE FetchReturns
  BY <1>27 DEF FetchReturns, ResolveInit
<1>28. ASSUME NEW r \in discord, NEW result \in {"ok", "error", "malformed"}, ReadReply(r, result)
      PROVE  [Machine!Next]_Machine!vars
  BY <1>28 DEF ReadReply
<1>29. ASSUME NEW e \in Topics, NEW result \in {"ok", "malformed"}, ReadEvent(e, result)
      PROVE  [Machine!Next]_Machine!vars
  BY <1>29 DEF ReadEvent
<1>30. ASSUME NEW c \in Credentials, OAuthAnswers(c)
      PROVE  [Machine!Next]_Machine!vars
  BY <1>30 DEF OAuthAnswers, SaveCredentials, StateAfterOAuth, RequestsAfterOAuth, LoopTop, AuthenticateNew, Authorize
<1>31. ASSUME NEW r \in writes, WriteCompletes(r)
      PROVE  [Machine!Next]_Machine!vars
  BY <1>31 DEF WriteCompletes
<1>32. ASSUME NEW r \in writes, WriteFails(r)
      PROVE  [Machine!Next]_Machine!vars
  BY <1>32, CloseReports DEF WriteFails
<1>33. ASSUME NEW c \in Callers, StartCall(c)
      PROVE  [Machine!Next]_Machine!vars
  BY <1>33 DEF StartCall
<1>34. ASSUME NEW c \in Coroutines, CallWritten(c)
      PROVE  [Machine!Next]_Machine!vars
  BY <1>34 DEF CallWritten, Get
<1>35. ASSUME NEW c \in Coroutines, CallWriteFails(c)
      PROVE  [Machine!Next]_Machine!vars
  BY <1>35, CloseReports DEF CallWriteFails
<1>36. ASSUME NEW c \in Coroutines, CallReturns(c)
      PROVE  [Machine!Next]_Machine!vars
  BY <1>36 DEF CallReturns
<1>37. ASSUME NEW c \in Coroutines, CallThrows(c)
      PROVE  [Machine!Next]_Machine!vars
  BY <1>37 DEF CallThrows
<1>38. CASE UNCHANGED vars
  BY <1>38 DEF vars
<1>39. QED
  BY <1>1, <1>2, <1>3, <1>4, <1>5, <1>6, <1>7, <1>8, <1>9, <1>10, <1>11, <1>12, <1>13, <1>14, <1>15, <1>16, <1>17, <1>18, <1>19, <1>20, <1>21, <1>22, <1>23, <1>24, <1>25, <1>26, <1>27, <1>28, <1>29, <1>30, <1>31, <1>32, <1>33, <1>34, <1>35, <1>36, <1>37, <1>38, <1>40, <1>41, <1>42, <1>43, <1>44
  DEF Next, Startup, Read, Process, WriteEnds, CallProceeds, Destroy

\* States merged as the plugin merges them change only as Reports says.
LEMMA AdvanceReports ==
  ASSUME <<rpcState, rpcState'>> \in Machine!AssertedSteps,
         Machine!Coarse(rpcState) # Machine!Coarse(rpcState')
  PROVE  <<Machine!Coarse(rpcState), Machine!Coarse(rpcState')>> \in Machine!Reports
<1> DEFINE r == <<Machine!Coarse(rpcState), Machine!Coarse(rpcState')>>
<1>1. r \in {<<Machine!Coarse(s[1]), Machine!Coarse(s[2])>> : s \in Machine!AssertedSteps}
  OBVIOUS
<1>2. r[1] # r[2]
  OBVIOUS
<1>3. QED
  BY <1>1, <1>2 DEF Machine!Reports

\* Whatever step the state machine takes, the plugin sees one it allows, or none.
LEMMA SeenStepHolds ==
  ASSUME TypeOK, LoginInv, LostInv, [Machine!Next]_Machine!vars
  PROVE  [Machine!SeenStep]_Machine!seen
<1> SUFFICES ASSUME Machine!Next PROVE Machine!SeenStep \/ UNCHANGED Machine!seen
  BY DEF Machine!vars, Machine!seen, Machine!Seen
<1> USE DEF Machine!seen, Machine!Seen
<1>1. lost \in {"never", "once", "again"} /\ (rpcState = "DISCONNECTED" => lost # "never")
  BY DEF TypeOK, LostInv
<1>2. rpcState \in Machine!Online /\ lost = "never" <=> Machine!Seen \in Machine!CoarseOnline
  BY DEF Machine!CoarseOnline, Machine!Coarse, Machine!Online, TypeOK, RpcStates
<1>3. CASE Machine!Start
  BY <1>3 DEF Machine!Start, Machine!SeenStep, Machine!BeginsOrEnds
<1>4. CASE Machine!Advance
  <2>1. CASE lost = "never"
    BY <1>4, <2>1, AdvanceReports DEF Machine!Advance, Machine!SeenStep, Machine!ClientStep,
       Machine!Coarse, Machine!AssertedSteps, Machine!Online
  <2>2. CASE lost # "never"
    <3>1. rpcState # "READY"
      BY <1>4 DEF Machine!Advance, Machine!AssertedSteps
    <3>2. QED
      BY <1>4, <2>2, <3>1 DEF Machine!Advance, Machine!SeenStep, Machine!ClientLate
  <2>3. QED
    BY <2>1, <2>2
<1>5. CASE Machine!LoseConnection
  <2>1. Machine!Seen \in Machine!CoarseOnline /\ Machine!Seen' = "DISCONNECTED"
    BY <1>2, <1>5 DEF Machine!LoseConnection, Machine!Report
  <2>2. <<Machine!Seen, Machine!Seen'>> \in Machine!Reports
    BY <2>1 DEF Machine!Reports
  <2>3. QED
    BY <1>5, <2>1, <2>2 DEF Machine!LoseConnection, Machine!Report, Machine!SeenStep,
       Machine!ClientStep, Machine!Told
<1>6. CASE Machine!LateReady
  BY <1>1, <1>6 DEF Machine!LateReady, Machine!SeenStep, Machine!ClientLate
<1>7. CASE Machine!Stop
  BY <1>7 DEF Machine!Stop, Machine!SeenStep, Machine!BeginsOrEnds
<1>8. CASE Machine!BeginClose
  BY <1>2, <1>8 DEF Machine!BeginClose, Machine!SeenStep, Machine!CloseDying
<1>9. CASE Machine!TellLoss
  <2>1. lifetime = "telling"
    BY <1>9 DEF Machine!TellLoss, Phase
  <2>2. hooked /\ (lost # "never" => rpcState \in {"DISCONNECTED", "READY"})
    BY <2>1 DEF LostInv, Untouched
  <2>3. rpcState # "AUTHENTICATION_FAILED" /\ lost = "never" <=> Machine!Seen \in Machine!CoarseOnline
    BY <1>1, <1>2, <2>2 DEF TypeOK, RpcStates, Machine!Online, LoginInv, StateInv
  <2>4. rpcState = "AUTHENTICATION_FAILED" <=> Machine!Seen = "AUTHENTICATION_FAILED"
    BY <2>2 DEF Machine!Coarse, Machine!Online, TypeOK, RpcStates
  <2>5. QED
    BY <1>1, <1>9, <2>3, <2>4 DEF Machine!TellLoss, Machine!Report, Machine!SeenStep,
       Machine!TellDying, Machine!Told
<1>10. CASE Machine!LoseAgain
  BY <1>1, <1>10 DEF Machine!LoseAgain, Machine!Report, Machine!SeenStep, Machine!ClientAgain,
     Machine!Told
<1>11. CASE Machine!EndClose
  BY <1>11 DEF Machine!EndClose, Machine!SeenStep, Machine!ClearDying
<1>12. CASE Machine!FinishTurn
  BY <1>1, <1>12 DEF Machine!FinishTurn, Machine!Working, Machine!SeenStep, Machine!ClientLate
<1>13. QED
  BY <1>3, <1>4, <1>5, <1>6, <1>7, <1>8, <1>9, <1>10, <1>11, <1>12 DEF Machine!Next

\* LinkInv and DestroyInv are inductive given LoadInv and LoginInv.
LEMMA HookStep ==
  TypeOK /\ LoadInv /\ LoginInv /\ LinkInv /\ DestroyInv /\ [Next]_vars => LinkInv' /\ DestroyInv'
<1> SUFFICES ASSUME TypeOK, LoadInv, LoginInv, LinkInv, DestroyInv, [Next]_vars
             PROVE  LinkInv' /\ DestroyInv'
  OBVIOUS
<1> USE DEF PhaseInv, ConnInv, Untouched, BeforeLogin, LoginInv, Opening, OAuth, LinkInv, DestroyInv, Dying, link, login, data, calls, peer, LoadInv, TypeOK
<1>1. CASE InitializeInCurrentThread
  BY <1>1 DEF InitializeInCurrentThread
<1>2. CASE InitializeWithoutConfig
  BY <1>2 DEF InitializeWithoutConfig
<1>3. CASE Initialize
  BY <1>3 DEF Initialize
<1>4. CASE OpenFails
  BY <1>4 DEF OpenFails
<1>5. CASE OpenSocket
  BY <1>5 DEF OpenSocket
<1>6. CASE HandshakeWritten
  BY <1>6 DEF HandshakeWritten
<1>7. CASE HandshakeWriteFails
  BY <1>7 DEF HandshakeWriteFails
<1>8. CASE HandshakeRead
  BY <1>8 DEF HandshakeRead
<1>9. CASE HandshakeReadFails
  BY <1>9 DEF HandshakeReadFails, LoopTop
<1>40. CASE HandshakeThrows
  BY <1>40 DEF HandshakeThrows
<1>10. CASE AuthWritten
  BY <1>10 DEF AuthWritten, LoopTop, FirstAuth, Authorize, AuthenticateCached
<1>11. CASE AuthWriteFails
  BY <1>11 DEF AuthWriteFails, Close, Tell, Shut
<1>12. CASE ReadFails
  BY <1>12 DEF ReadFails, Close, Tell, Shut
<1>13. CASE ReadCrashes
  BY <1>13 DEF ReadCrashes, Close, Tell, Shut
<1>14. CASE ProcessCommandReply
  BY <1>14 DEF ProcessCommandReply, Processing, Resolve, Erase, LoopTop
<1>15. CASE ProcessDispatch
  BY <1>15 DEF ProcessDispatch, Processing, LoopTop, Subscribed
<1>16. CASE ProcessIgnored
  BY <1>16 DEF ProcessIgnored, Processing, LoopTop
<1>17. CASE ProcessThrows
  BY <1>17 DEF ProcessThrows
<1>18. CASE ProcessAuthorizeRefused
  BY <1>18 DEF ProcessAuthorizeRefused, Processing, LoopTop
<1>19. CASE ProcessAuthorized
  BY <1>19 DEF ProcessAuthorized, Processing
<1>20. CASE ProcessAuthenticateRefused
  BY <1>20 DEF ProcessAuthenticateRefused, Processing, LoopTop
<1>21. CASE ProcessAuthenticated
  BY <1>21 DEF ProcessAuthenticated, Processing, LoopTop, Subscribe
<1>22. CASE OAuthThrows
  BY <1>22 DEF OAuthThrows
<1>23. CASE WaiterResumes
  BY <1>23 DEF WaiterResumes, InitialDataReceived
<1>24. CASE CallAndForget
  BY <1>24 DEF CallAndForget, Set
<1>25. CASE BeginDestroy
  BY <1>25 DEF BeginDestroy
<1>41. CASE BeginClose
  BY <1>41 DEF BeginClose, FoundByClose, Tell, Shut
<1>42. CASE TellLoss
  BY <1>42 DEF TellLoss, Tell, OnDisconnect
<1>43. CASE ShutSocket
  BY <1>43 DEF ShutSocket, Shut
<1>44. CASE ClearState
  BY <1>44 DEF ClearState
<1>26. CASE EndDestroy
  BY <1>26 DEF EndDestroy
<1>27. CASE FetchReturns
  BY <1>27 DEF FetchReturns, ResolveInit
<1>28. ASSUME NEW r \in discord, NEW result \in {"ok", "error", "malformed"}, ReadReply(r, result)
      PROVE  LinkInv' /\ DestroyInv'
  BY <1>28 DEF ReadReply
<1>29. ASSUME NEW e \in Topics, NEW result \in {"ok", "malformed"}, ReadEvent(e, result)
      PROVE  LinkInv' /\ DestroyInv'
  BY <1>29 DEF ReadEvent
<1>30. ASSUME NEW c \in Credentials, OAuthAnswers(c)
      PROVE  LinkInv' /\ DestroyInv'
  BY <1>30 DEF OAuthAnswers, SaveCredentials, StateAfterOAuth, RequestsAfterOAuth, LoopTop, AuthenticateNew, Authorize
<1>31. ASSUME NEW r \in writes, WriteCompletes(r)
      PROVE  LinkInv' /\ DestroyInv'
  BY <1>31 DEF WriteCompletes
<1>32. ASSUME NEW r \in writes, WriteFails(r)
      PROVE  LinkInv' /\ DestroyInv'
  BY <1>32 DEF WriteFails, Close, Tell, Shut
<1>33. ASSUME NEW c \in Callers, StartCall(c)
      PROVE  LinkInv' /\ DestroyInv'
  BY <1>33 DEF StartCall
<1>34. ASSUME NEW c \in Coroutines, CallWritten(c)
      PROVE  LinkInv' /\ DestroyInv'
  BY <1>34 DEF CallWritten, Get
<1>35. ASSUME NEW c \in Coroutines, CallWriteFails(c)
      PROVE  LinkInv' /\ DestroyInv'
  BY <1>35 DEF CallWriteFails, Close, Tell, Shut
<1>36. ASSUME NEW c \in Coroutines, CallReturns(c)
      PROVE  LinkInv' /\ DestroyInv'
  BY <1>36 DEF CallReturns
<1>37. ASSUME NEW c \in Coroutines, CallThrows(c)
      PROVE  LinkInv' /\ DestroyInv'
  BY <1>37 DEF CallThrows
<1>38. CASE UNCHANGED vars
  BY <1>38 DEF vars
<1>39. QED
  BY <1>1, <1>2, <1>3, <1>4, <1>5, <1>6, <1>7, <1>8, <1>9, <1>10, <1>11, <1>12, <1>13, <1>14, <1>15, <1>16, <1>17, <1>18, <1>19, <1>20, <1>21, <1>22, <1>23, <1>24, <1>25, <1>26, <1>27, <1>28, <1>29, <1>30, <1>31, <1>32, <1>33, <1>34, <1>35, <1>36, <1>37, <1>38, <1>40, <1>41, <1>42, <1>43, <1>44
  DEF Next, Startup, Read, Process, WriteEnds, CallProceeds, Destroy

LEMMA FetchInCall == TypeOK => call \in [Coroutines -> {"idle", "writing", "waiting", "answered",
                                                      "refused", "failed"}] /\ Fetch \in Coroutines
  BY DEF TypeOK, Coroutines

\* Nothing that is under way gets lost while the client can still be reached.
LEMMA ComingStep ==
  TypeOK /\ LoadInv /\ LoginInv /\ CallInv /\ LinkInv /\ ComingInv /\ [Next]_vars => ComingInv'
<1> SUFFICES ASSUME TypeOK, LoadInv, LoginInv, CallInv, LinkInv, ComingInv, [Next]_vars
             PROVE  ComingInv'
  OBVIOUS
<1> USE DEF ComingInv, Reachable, StateInv, AfterLogin, AuthCommands, Subscribe, PhaseInv, ConnInv, BeforeLogin, LoginInv, Opening, OAuth, LinkInv, link, login, data, calls, peer, LoadInv, TypeOK
<1>1. CASE InitializeInCurrentThread
  BY <1>1 DEF InitializeInCurrentThread
<1>2. CASE InitializeWithoutConfig
  BY <1>2 DEF InitializeWithoutConfig
<1>3. CASE Initialize
  BY <1>3 DEF Initialize
<1>4. CASE OpenFails
  BY <1>4 DEF OpenFails
<1>5. CASE OpenSocket
  BY <1>5 DEF OpenSocket
<1>6. CASE HandshakeWritten
  BY <1>6 DEF HandshakeWritten
<1>7. CASE HandshakeWriteFails
  BY <1>7 DEF HandshakeWriteFails
<1>8. CASE HandshakeRead
  BY <1>8 DEF HandshakeRead
<1>9. CASE HandshakeReadFails
  BY <1>9 DEF HandshakeReadFails, LoopTop
<1>40. CASE HandshakeThrows
  BY <1>40 DEF HandshakeThrows
<1>10. CASE AuthWritten
  BY <1>10 DEF AuthWritten, LoopTop, FirstAuth, Authorize, AuthenticateCached
<1>11. CASE AuthWriteFails
  BY <1>11 DEF AuthWriteFails, Close, Tell, Shut
<1>12. CASE ReadFails
  BY <1>12 DEF ReadFails, Close, Tell, Shut
<1>13. CASE ReadCrashes
  BY <1>13 DEF ReadCrashes, Close, Tell, Shut
<1>14. CASE ProcessCommandReply
  BY <1>14 DEF ProcessCommandReply, Processing, Resolve, Erase, LoopTop
<1>15. CASE ProcessDispatch
  BY <1>15 DEF ProcessDispatch, Processing, LoopTop, Subscribed
<1>16. CASE ProcessIgnored
  BY <1>16 DEF ProcessIgnored, Processing, LoopTop
<1>17. CASE ProcessThrows
  BY <1>17 DEF ProcessThrows
<1>18. CASE ProcessAuthorizeRefused
  BY <1>18 DEF ProcessAuthorizeRefused, Processing, LoopTop
<1>19. CASE ProcessAuthorized
  BY <1>19 DEF ProcessAuthorized, Processing
<1>20. CASE ProcessAuthenticateRefused
  BY <1>20 DEF ProcessAuthenticateRefused, Processing, LoopTop
<1>21. CASE ProcessAuthenticated
  <2>1. call'[Fetch] = "writing"
    BY <1>21, FetchInCall DEF ProcessAuthenticated
  <2>2. Subscribe("VOICE_SETTINGS_UPDATE") \in writes'
    BY <1>21 DEF ProcessAuthenticated, Topics
  <2>3. rpcState' = "WAITING_FOR_INITIAL_DATA"
    BY <1>21 DEF ProcessAuthenticated
  <2>4. QED
    BY <2>1, <2>2, <2>3
<1>22. CASE OAuthThrows
  BY <1>22 DEF OAuthThrows
<1>23. CASE WaiterResumes
  BY <1>23 DEF WaiterResumes, InitialDataReceived
<1>24. CASE CallAndForget
  BY <1>24 DEF CallAndForget, Set
<1>25. CASE BeginDestroy
  BY <1>25 DEF BeginDestroy
<1>41. CASE BeginClose
  BY <1>41 DEF BeginClose, FoundByClose, Tell, Shut
<1>42. CASE TellLoss
  BY <1>42 DEF TellLoss, Tell, OnDisconnect
<1>43. CASE ShutSocket
  BY <1>43 DEF ShutSocket, Shut
<1>44. CASE ClearState
  BY <1>44 DEF ClearState
<1>26. CASE EndDestroy
  BY <1>26 DEF EndDestroy
<1>27. CASE FetchReturns
  BY <1>27 DEF FetchReturns, ResolveInit
<1>28. ASSUME NEW r \in discord, NEW result \in {"ok", "error", "malformed"}, ReadReply(r, result)
      PROVE  ComingInv'
  BY <1>28 DEF ReadReply
<1>29. ASSUME NEW e \in Topics, NEW result \in {"ok", "malformed"}, ReadEvent(e, result)
      PROVE  ComingInv'
  BY <1>29 DEF ReadEvent
<1>30. ASSUME NEW c \in Credentials, OAuthAnswers(c)
      PROVE  ComingInv'
  BY <1>30 DEF OAuthAnswers, SaveCredentials, StateAfterOAuth, RequestsAfterOAuth, LoopTop, AuthenticateNew, Authorize
<1>31. ASSUME NEW r \in writes, WriteCompletes(r)
      PROVE  ComingInv'
  BY <1>31 DEF WriteCompletes
<1>32. ASSUME NEW r \in writes, WriteFails(r)
      PROVE  ComingInv'
  BY <1>32 DEF WriteFails, Close, Tell, Shut
<1>33. ASSUME NEW c \in Callers, StartCall(c)
      PROVE  ComingInv'
  BY <1>33 DEF StartCall
<1>34. ASSUME NEW c \in Coroutines, CallWritten(c)
      PROVE  ComingInv'
  BY <1>34 DEF CallWritten, Get
<1>35. ASSUME NEW c \in Coroutines, CallWriteFails(c)
      PROVE  ComingInv'
  <2>1. hooked
    BY <1>35 DEF CallWriteFails
  <2>2. ~isOpen'
    BY <1>35, <2>1 DEF CallWriteFails, Close, Tell, Shut
  <2>3. ~Reachable'
    BY <2>2
  <2>4. ~Reachable' => ComingInv'
    OBVIOUS
  <2>5. QED
    BY <2>3, <2>4
<1>36. ASSUME NEW c \in Coroutines, c # Fetch, CallReturns(c)
      PROVE  ComingInv'
  <2>1. call'[Fetch] = call[Fetch]
    BY <1>36, FetchInCall DEF CallReturns
  <2>2. QED
    BY <1>36, <2>1 DEF CallReturns
<1>37. ASSUME NEW c \in Coroutines, CallThrows(c)
      PROVE  ComingInv'
  <2>1. call[Fetch] # "idle" => call'[Fetch] # "idle"
    BY <1>37, FetchInCall DEF CallThrows
  <2>2. QED
    BY <1>37, <2>1 DEF CallThrows
<1>38. CASE UNCHANGED vars
  BY <1>38 DEF vars
<1>39. QED
  BY <1>1, <1>2, <1>3, <1>4, <1>5, <1>6, <1>7, <1>8, <1>9, <1>10, <1>11, <1>12, <1>13, <1>14, <1>15, <1>16, <1>17, <1>18, <1>19, <1>20, <1>21, <1>22, <1>23, <1>24, <1>25, <1>26, <1>27, <1>28, <1>29, <1>30, <1>31, <1>32, <1>33, <1>34, <1>35, <1>36, <1>37, <1>38, <1>40, <1>41, <1>42, <1>43, <1>44
  DEF Next, Startup, Read, Process, WriteEnds, CallProceeds, Destroy

\* Every step of a client is a step of the link, or one that does not touch it.
LEMMA LinkStep ==
  TypeOK /\ LoadInv /\ LoginInv /\ LinkInv /\ DestroyInv /\ [Next]_vars => [Link!Next]_Link!vars
<1> SUFFICES ASSUME TypeOK, LoadInv, LoginInv, LinkInv, DestroyInv, [Next]_vars
             PROVE  [Link!Next]_Link!vars
  OBVIOUS
<1> USE DEF PhaseInv, ConnInv, Untouched, BeforeLogin, LoginInv, Opening, OAuth, LinkInv, DestroyInv, link, login, data, calls, peer, Place, Link!Next, Link!vars, Link!Goto
<1>1. CASE InitializeInCurrentThread
  BY <1>1 DEF InitializeInCurrentThread
<1>2. CASE InitializeWithoutConfig
  BY <1>2 DEF InitializeWithoutConfig
<1>3. CASE Initialize
  BY <1>3 DEF Initialize
<1>4. CASE OpenFails
  BY <1>4 DEF OpenFails, Link!Open
<1>5. CASE OpenSocket
  BY <1>5 DEF OpenSocket, Link!Open
<1>6. CASE HandshakeWritten
  BY <1>6 DEF HandshakeWritten, Link!SendHandshake
<1>7. CASE HandshakeWriteFails
  BY <1>7 DEF HandshakeWriteFails, Link!SendHandshake
<1>8. CASE HandshakeRead
  BY <1>8 DEF HandshakeRead, Link!Accept
<1>9. CASE HandshakeReadFails
  <2>1. Place = "handshake_read" /\ conn # "null" /\ conn' # "null"
    BY <1>9 DEF HandshakeReadFails
  <2>2. CASE conn' = "Disconnected" /\ isOpen' = FALSE /\ worker' = "done"
    <3>1. conn = "Disconnected" => isOpen = FALSE
      BY <1>9 DEF HandshakeReadFails, TypeOK
    <3>2. Place' = "ended"
      BY <2>1, <2>2
    <3>3. QED
      BY <1>9, <2>1, <2>2, <3>1, <3>2 DEF HandshakeReadFails, Link!Refuse, Link!Closing
  <2>3. CASE isOpen /\ worker' = LoopTop /\ UNCHANGED <<conn, isOpen>>
    <3>1. conn # "Disconnected"
      BY <1>9, <2>3 DEF HandshakeReadFails
    <3>2. Place' = Link!NextTurn
      BY <1>9, <2>1, <2>3, <3>1 DEF HandshakeReadFails, LoopTop, Link!NextTurn
    <3>3. QED
      BY <1>9, <2>1, <2>3, <3>2 DEF HandshakeReadFails, Link!Refuse
  <2>4. QED
    BY <1>9, <2>2, <2>3 DEF HandshakeReadFails
<1>40. CASE HandshakeThrows
  BY <1>40 DEF HandshakeThrows, Link!Refuse
<1>10. CASE AuthWritten
  BY <1>10 DEF AuthWritten, Link!FirstRequest, Link!NextTurn, LoopTop, FirstAuth, Authorize, AuthenticateCached
<1>11. CASE AuthWriteFails
  BY <1>11 DEF AuthWriteFails, Close, Link!Lose, Link!Closing, Tell, Shut
<1>12. CASE ReadFails
  BY <1>12 DEF ReadFails, Close, Link!Lose, Link!Closing, Tell, Shut
<1>13. CASE ReadCrashes
  BY <1>13 DEF ReadCrashes, Close, Link!Crash, Link!Closing, Tell, Shut
<1>14. CASE ProcessCommandReply
  BY <1>14 DEF ProcessCommandReply, Link!Turn, Link!NextTurn, Link!Lose, Link!Closing, Processing, Resolve, Erase, LoopTop
<1>15. CASE ProcessDispatch
  BY <1>15 DEF ProcessDispatch, Link!Turn, Link!NextTurn, Link!Lose, Link!Closing, Processing, LoopTop, Subscribed
<1>16. CASE ProcessIgnored
  BY <1>16 DEF ProcessIgnored, Link!Turn, Link!NextTurn, Link!Lose, Link!Closing, Processing, LoopTop
<1>17. CASE ProcessThrows
  BY <1>17 DEF ProcessThrows, Link!Turn, Link!NextTurn
<1>18. CASE ProcessAuthorizeRefused
  BY <1>18 DEF ProcessAuthorizeRefused, Link!Turn, Link!NextTurn, Link!Lose, Link!Closing, Processing, LoopTop
<1>19. CASE ProcessAuthorized
  BY <1>19 DEF ProcessAuthorized, Processing
<1>20. CASE ProcessAuthenticateRefused
  BY <1>20 DEF ProcessAuthenticateRefused, Link!Turn, Link!NextTurn, Link!Lose, Link!Closing, Processing, LoopTop
<1>21. CASE ProcessAuthenticated
  BY <1>21 DEF ProcessAuthenticated, Link!Turn, Link!NextTurn, Link!Lose, Link!Closing, Processing, LoopTop, Subscribe
<1>22. CASE OAuthThrows
  BY <1>22 DEF OAuthThrows, Link!Turn, Link!NextTurn
<1>23. CASE WaiterResumes
  BY <1>23 DEF WaiterResumes, InitialDataReceived
<1>24. CASE CallAndForget
  BY <1>24 DEF CallAndForget, Set
<1>25. CASE BeginDestroy
  BY <1>25 DEF BeginDestroy, Link!OwnerBegins
<1>41. CASE BeginClose
  BY <1>41 DEF BeginClose, FoundByClose, Tell, Shut
<1>42. CASE TellLoss
  BY <1>42 DEF TellLoss, Tell, OnDisconnect
<1>43. CASE ShutSocket
  BY <1>43 DEF ShutSocket, Shut, Link!Closes, Link!Closing, TypeOK
<1>44. CASE ClearState
  BY <1>44 DEF ClearState, Link!Closes, Link!Closing
<1>26. CASE EndDestroy
  BY <1>26 DEF EndDestroy
<1>27. CASE FetchReturns
  BY <1>27 DEF FetchReturns, ResolveInit
<1>28. ASSUME NEW r \in discord, NEW result \in {"ok", "error", "malformed"}, ReadReply(r, result)
      PROVE  [Link!Next]_Link!vars
  BY <1>28 DEF ReadReply
<1>29. ASSUME NEW e \in Topics, NEW result \in {"ok", "malformed"}, ReadEvent(e, result)
      PROVE  [Link!Next]_Link!vars
  BY <1>29 DEF ReadEvent
<1>30. ASSUME NEW c \in Credentials, OAuthAnswers(c)
      PROVE  [Link!Next]_Link!vars
  BY <1>30 DEF OAuthAnswers, Link!Turn, Link!NextTurn, Link!Lose, Link!Closing, SaveCredentials, StateAfterOAuth, RequestsAfterOAuth, LoopTop, AuthenticateNew, Authorize
<1>31. ASSUME NEW r \in writes, WriteCompletes(r)
      PROVE  [Link!Next]_Link!vars
  BY <1>31 DEF WriteCompletes
<1>32. ASSUME NEW r \in writes, WriteFails(r)
      PROVE  [Link!Next]_Link!vars
  BY <1>32 DEF WriteFails, Close, Link!Closes, Link!Closing, Tell, Shut
<1>33. ASSUME NEW c \in Callers, StartCall(c)
      PROVE  [Link!Next]_Link!vars
  BY <1>33 DEF StartCall
<1>34. ASSUME NEW c \in Coroutines, CallWritten(c)
      PROVE  [Link!Next]_Link!vars
  BY <1>34 DEF CallWritten, Get
<1>35. ASSUME NEW c \in Coroutines, CallWriteFails(c)
      PROVE  [Link!Next]_Link!vars
  BY <1>35 DEF CallWriteFails, Close, Link!Closes, Link!Closing, Tell, Shut
<1>36. ASSUME NEW c \in Coroutines, CallReturns(c)
      PROVE  [Link!Next]_Link!vars
  BY <1>36 DEF CallReturns
<1>37. ASSUME NEW c \in Coroutines, CallThrows(c)
      PROVE  [Link!Next]_Link!vars
  BY <1>37 DEF CallThrows
<1>38. CASE UNCHANGED vars
  BY <1>38 DEF vars
<1>39. QED
  BY <1>1, <1>2, <1>3, <1>4, <1>5, <1>6, <1>7, <1>8, <1>9, <1>10, <1>11, <1>12, <1>13, <1>14, <1>15, <1>16, <1>17, <1>18, <1>19, <1>20, <1>21, <1>22, <1>23, <1>24, <1>25, <1>26, <1>27, <1>28, <1>29, <1>30, <1>31, <1>32, <1>33, <1>34, <1>35, <1>36, <1>37, <1>38, <1>40, <1>41, <1>42, <1>43, <1>44
  DEF Next, Startup, Read, Process, WriteEnds, CallProceeds, Destroy

LEMMA InvariantsInit == Init => TypeOK /\ LoadInv /\ LoginInv /\ LostInv /\ CallInv /\ LinkInv /\ DestroyInv /\ ComingInv
<1> SUFFICES ASSUME Init PROVE TypeOK /\ LoadInv /\ LoginInv /\ LostInv /\ CallInv /\ LinkInv /\ DestroyInv /\ ComingInv
  OBVIOUS
<1>1. TypeOK
  BY TypeInit
<1>2. LoadInv
  BY DEF Init, LoadInv
<1>3. LoginInv
  BY DEF Init, LoginInv, PhaseInv, ConnInv, BeforeLogin, AfterLogin, ExchangeInv, StateInv,
         CredentialsInv, RequestsMatchCredentials, InFlight, Opening, OAuth
<1>4. CallInv
  BY DEF Init, CallInv, RepliesFindCallers
<1>5. LostInv
  BY DEF Init, LostInv, Machine!Online
<1>6. LinkInv
  BY DEF Init, LinkInv, OAuth
<1>7. ComingInv
  BY DEF Init, ComingInv, Reachable
<1>8. DestroyInv
  BY DEF Init, DestroyInv
<1>9. QED
  BY <1>1, <1>2, <1>3, <1>4, <1>5, <1>6, <1>7, <1>8

LEMMA Invariants == Spec => [](TypeOK /\ LoadInv /\ LoginInv /\ LostInv /\ CallInv /\ LinkInv /\ DestroyInv /\ ComingInv)
  BY InvariantsInit, TypeStep, LoadStep, LoginStep, LostStep, CallStep, HookStep, ComingStep, PTL DEF Spec

-----------------------------------------------------------------------------
(* The theorems. *)

\* Every reachable state of a client, whatever it is constructed with and
\* whatever fails, is well typed.
THEOREM TypeCorrect == Spec => []TypeOK
  BY TypeInit, TypeStep, PTL DEF Spec

\* A plugin that is told READY finds the voice settings and the voice channel
\* loaded, whatever order Discord's answers, events and the coroutines come in.
THEOREM ReadyIsLoaded == Spec => []ReadyMeansLoaded
<1>1. TypeOK /\ LoadInv /\ ComingInv => ReadyMeansLoaded
  BY DEF TypeOK, LoadInv, ComingInv, ReadyMeansLoaded
<1>2. QED
  BY <1>1, Invariants, PTL

\* While it runs, the login has at most one request under way, in the state
\* its answer is asserted against.
THEOREM LoginIsStrict == Spec => []OneAuthExchange
<1>1. TypeOK /\ LoginInv /\ ComingInv => OneAuthExchange
  BY DEF LoginInv, PhaseInv, Untouched, ConnInv, ExchangeInv, StateInv, Expected, ComingInv, InFlight, AuthState,
         AuthCommands, OAuth, OneAuthExchange
<1>2. QED
  BY <1>1, Invariants, PTL

\* A token on the wire is the token the plugin has been told to save.
THEOREM RequestsCarrySavedToken == Spec => []RequestsMatchCredentials
<1>1. LoginInv => RequestsMatchCredentials
  BY DEF LoginInv, CredentialsInv
<1>2. QED
  BY <1>1, Invariants, PTL

\* Every answer Discord has yet to give, or that is about to be processed,
\* finds the promise of its caller, and no promise outlives its answer.
THEOREM RepliesAreDelivered == Spec => []RepliesFindCallers
<1>1. CallInv => RepliesFindCallers
  BY DEF CallInv
<1>2. QED
  BY <1>1, Invariants, PTL

\* The client implements RpcStateMachine: it reports no state out of order,
\* but for the READY that the machine's LateReady names.
THEOREM ClientImplementsMachine == Spec => ImplementsRpcStateMachine
<1>1. Init => Machine!Init
  BY DEF Init, Machine!Init, Phase
<1>2. TypeOK /\ LoadInv /\ LoginInv /\ LinkInv /\ DestroyInv /\ LostInv /\ [Next]_vars
      => [Machine!Next]_Machine!vars
  BY MachineStep
<1>3. QED
  BY <1>1, <1>2, Invariants, PTL DEF Spec, ImplementsRpcStateMachine, Machine!Spec

\* What the plugin sees of a client is what DiscordStreamDeckPlugin allows one: states in
\* the order of the login, one DISCONNECTED and after it a late READY at most; a destructor
\* that reports DISCONNECTED just if the client is online when its Close() begins, and only
\* while that Close() is under way a second DISCONNECTED.
THEOREM PluginSeesItsClients == Spec => SeenByPlugin
<1>1. Init => Machine!Seen = "CONNECTING"
  BY DEF Init, Machine!Seen, Machine!Coarse
<1>2. TypeOK /\ LoadInv /\ LoginInv /\ LinkInv /\ DestroyInv /\ LostInv /\ [Next]_vars
      => [Machine!SeenStep]_Machine!seen
  BY MachineStep, SeenStepHolds
<1>3. QED
  BY <1>1, <1>2, Invariants, PTL DEF Spec, SeenByPlugin, Machine!SeenByPlugin

\* The client expects nothing of its connection but what RpcLink says of one, and
\* RpcConnection implements that: the two models meet in the same specification.
THEOREM ClientKeepsToLink == Spec => KeepsToRpcLink
<1>1. Init => Link!Init
  BY DEF Init, Link!Init, Place
<1>2. TypeOK /\ LoadInv /\ LoginInv /\ LinkInv /\ DestroyInv /\ [Next]_vars => [Link!Next]_Link!vars
  BY LinkStep
<1>3. QED
  BY <1>1, <1>2, Invariants, PTL DEF Spec, KeepsToRpcLink, Link!Spec

\* The worker a destructor polls for waits for a message of Discord's only if the Close()
\* before came too early, when the handshake had not been written, and then for no more
\* than the first frame.
THEOREM DestructorIsNotHeldUp == Spec => []DestructorNeedsNoMessage
<1>1. DestroyInv => DestructorNeedsNoMessage
  BY DEF DestroyInv, DestructorNeedsNoMessage
<1>2. QED
  BY <1>1, Invariants, PTL
=============================================================================
