---------------------- MODULE DiscordStreamDeckPlugin ----------------------
(***************************************************************************)
(* DiscordStreamDeckPlugin (Sources/DiscordStreamDeckPlugin.cpp): the one  *)
(* client it owns, replaced whenever the connection is lost, could not be  *)
(* made, or the user asks for it, and the weak pointer its actions hold.   *)
(*                                                                         *)
(* asio::post(f) without an executor runs f on asio's system thread pool.  *)
(* A step of a thread is what lies between two uses of mClient, each of    *)
(* which is atomic here: the model does not tear a shared_ptr.             *)
(*                                                                         *)
(* A client is what RpcStateMachine says of it, its states merged where    *)
(* the plugin does not tell them apart.  A freed slot is used again.  The  *)
(* two callbacks that a client calls when READY are one step.              *)
(***************************************************************************)
EXTENDS Naturals

CONSTANTS
  Clients,    \* slots for DiscordClient objects
  NoClient,   \* the null pointer
  Pool,       \* threads of asio's system pool
  Loop,       \* the thread that runs the io_context: Stream Deck's messages, the timer
  Configs,    \* app id and secret as the property inspector saves them
  Complete,   \* those with both an id and a secret
  NoConfig,   \* neither, as the plugin starts
  Events,     \* what may happen, of EventNames
  MaxWaiting  \* bound: how many reconnects may wait when new settings arrive, the user
              \* clicks or Discord goes away; destructors post without regard to it

EventNames ==
  {"settings",   \* new global settings arrive
   "click",      \* Reconnect or Reauthenticate in the property inspector
   "key",        \* a key is pressed, or the inspector asks for the state
   "appear",     \* an action is constructed
   "fail",       \* Discord cannot be reached
   "lose",       \* the connection is lost
   "refuse"}     \* the login is refused

Threads == Pool \cup {Loop}

ASSUME NoClientAssumption == NoClient \notin Clients
ASSUME LoopAssumption == Loop \notin Pool
ASSUME ConfigsAssumption == Complete \subseteq Configs /\ NoConfig \in Configs \ Complete
ASSUME EventsAssumption == Events \subseteq EventNames

\* Tasks passed to asio::post: reset and connect, reset and connect later,
\* and for each client the task that gives it to a new action.
Jobs == {"reconnect", "later"} \cup Clients

ASSUME JobsAssumption == {"reconnect", "later"} \cap Clients = {}
ASSUME MaxWaitingAssumption == MaxWaiting \in Nat \ {0}

\* onStateChanged, onReady and onCredentialsChanged of a client, in the order in which
\* ConnectToDiscord sets them; a new client has callbacks that do nothing.
Callbacks == {"hook", "ready", "creds"}
After == [hook |-> "ready", ready |-> "creds", creds |-> "start"]

VARIABLES
  config,    \* mCredentials: app id and secret
  mClient,   \* the client the plugin owns
  life,      \* of each client: "free", "made", "running" once started, "twice" if
             \* started again, "dying", "unused" if dying without having been started
  rpc,       \* the rpcState it last reported, see Coarse
  using,     \* the config it was constructed with
  hears,     \* which of its callbacks are set
  unheard,   \* history: clients that failed before their onStateChanged was set
  action,    \* mDiscordClient of the action constructed last; NoClient if expired
  posted,    \* tasks waiting for a thread of the pool
  timer,     \* mConnectLaterTimer is waiting
  pc,        \* where each thread is
  at,        \* the client a thread has locked, or destroys
  then,      \* where the thread goes on after a destructor
  crashed    \* a null pointer was dereferenced, or an assertion failed

vars == <<config, mClient, life, rpc, using, hears, unheard, action, posted, timer,
          pc, at, then, crashed>>
clients == <<life, rpc, using, hears, unheard>>
threads == <<pc, at, then>>

\* What RpcStateMachine says the plugin sees of a client, which is constant.
\* "LATE" is READY reported after DISCONNECTED.
Machine == INSTANCE RpcStateMachine WITH
  rpcState <- "UNINITIALIZED", phase <- "created", lost <- "never"
States == Machine!CoarseStates
Online == Machine!CoarseOnline
Reports == Machine!Reports
Lost == {"DISCONNECTED", "LATE"}

Pcs == {"idle", "destroy", "tell", "told", "await", "check", "exists", "create", "start",
        "later", "key", "pressed", "using"} \cup Callbacks
Alive == {"made", "running", "twice"}
Dying == {"dying", "unused"}
Destroying == {"destroy", "tell", "told", "await"}   \* where in ~DiscordClient
Locked == Destroying \cup {"using"}

\* Every variable holds a value its C++ counterpart can hold, and a thread has
\* a client exactly where it uses or destroys one.
TypeOK ==
  /\ config \in Configs
  /\ mClient \in Clients \cup {NoClient}
  /\ life \in [Clients -> {"free"} \cup Alive \cup Dying]
  /\ rpc \in [Clients -> States \cup {"LATE"}]
  /\ using \in [Clients -> Configs]
  /\ hears \in [Clients -> SUBSET Callbacks]
  /\ unheard \subseteq Clients
  /\ action \in Clients \cup {NoClient}
  /\ posted \in [Jobs -> Nat]
  /\ timer \in BOOLEAN
  /\ pc \in [Threads -> Pcs]
  /\ at \in [Threads -> Clients \cup {NoClient}]
  /\ \A t \in Threads : pc[t] \in Locked <=> at[t] # NoClient
  /\ then \in [Threads -> {"idle", "check", "later", "hook"}]
  /\ crashed \in BOOLEAN

Init ==
  /\ config = NoConfig
  /\ mClient = NoClient
  /\ life = [c \in Clients |-> "free"]
  /\ rpc = [c \in Clients |-> "CONNECTING"]
  /\ using = [c \in Clients |-> NoConfig]
  /\ hears = [c \in Clients |-> {}]
  /\ unheard = {}
  /\ action = NoClient
  /\ posted = [j \in Jobs |-> 0]
  /\ timer = FALSE
  /\ pc = [t \in Threads |-> "idle"]
  /\ at = [t \in Threads |-> NoClient]
  /\ then = [t \in Threads |-> "idle"]
  /\ crashed = FALSE

-----------------------------------------------------------------------------
(* Helpers. *)

Event(e) == e \in Events /\ posted["reconnect"] + posted["later"] < MaxWaiting
Goto(t, where) == pc' = [pc EXCEPT ![t] = where]
Post(job) == posted' = [posted EXCEPT ![job] = @ + 1]

\* One thread runs the io_context, so the clients' coroutines run between its
\* handlers; but a destructor that waits for its worker polls it as well.
Polled == pc[Loop] = "idle" \/ \E t \in Threads : pc[t] = "await"

\* Shared pointers to c that are left once thread t has dropped its own.
Shared(t, c) ==
  \/ mClient' = c
  \/ posted'[c] > 0
  \/ \E u \in Threads \ {t} : at[u] = c /\ pc[u] = "using"

\* Thread t starts ~DiscordClient, after which it goes on at where.
Destroy(t, c, where, lives) ==
  /\ Goto(t, "destroy")
  /\ at' = [at EXCEPT ![t] = c]
  /\ then' = [then EXCEPT ![t] = where]
  /\ life' = [lives EXCEPT ![c] = IF @ = "made" THEN "unused" ELSE "dying"]

\* Mutant of Drop: the client that is overwritten or let go is not deleted.
DropLeaks(t, c, where, lives) ==
  /\ Goto(t, where)
  /\ at' = [at EXCEPT ![t] = NoClient]
  /\ life' = lives
  /\ UNCHANGED then

\* Thread t drops a shared pointer to c; the last one destroys it.
Drop(t, c, where, lives) ==
  IF Shared(t, c)
  THEN /\ Goto(t, where)
       /\ at' = [at EXCEPT ![t] = NoClient]
       /\ life' = lives
       /\ UNCHANGED then
  ELSE Destroy(t, c, where, lives)

\* Mutant of Expire: the action has a plain pointer.
ExpireNever(weak) == action' = weak

\* Weak pointers to a client expire with its last shared pointer.
Expire(weak) ==
  action' = IF weak # NoClient /\ life'[weak] \in Dying THEN NoClient ELSE weak

-----------------------------------------------------------------------------
(* The plugin's callbacks, called by a client's coroutines or destructor. *)

\* Client c fails, and its onStateChanged posts the job, if that callback is set.
Fail(c, job) ==
  IF "hook" \in hears[c] THEN Post(job) /\ UNCHANGED unheard
                         ELSE unheard' = unheard \cup {c} /\ UNCHANGED posted

\* Mutant of Disconnected: wait for the user, as after AUTHENTICATION_FAILED.
DisconnectedIgnored(c) == UNCHANGED <<posted, unheard>>

\* onStateChanged of DISCONNECTED: ReconnectToDiscord.
Disconnected(c) == Fail(c, "reconnect")

\* onStateChanged and onReady: READY gives the actions mClient, which need not
\* be the client that reports.  SetDiscordClient uses its data, which a client
\* before READY has not got and one that was disconnected may not have.
WithData(states) == {c \in Clients : rpc[c] \in states}
Ready(c) ==
  \/ /\ mClient \in {NoClient, c} \cup WithData({"READY", "LATE", "DISCONNECTED"})
     /\ action' = mClient
     /\ UNCHANGED crashed
  \/ /\ mClient \notin {NoClient, c} \cup WithData({"READY", "LATE"})
     /\ crashed' = TRUE
     /\ UNCHANGED action

StateCallback(c, s) ==
  /\ IF s = "READY" /\ hears[c] \cap {"hook", "ready"} # {}
     THEN Ready(c)
     ELSE UNCHANGED <<action, crashed>>
  /\ IF s = "DISCONNECTED" THEN Disconnected(c)
     ELSE IF s = "CONNECTION_FAILED" THEN Fail(c, "later")
     ELSE UNCHANGED <<posted, unheard>>

Acts(c) ==
  /\ ~crashed
  /\ life[c] \in {"running", "twice", "dying"}
  /\ Polled

Possible(s) ==
  CASE s = "CONNECTION_FAILED" -> Event("fail")
    [] s = "DISCONNECTED" -> Event("lose")
    [] s = "AUTHENTICATION_FAILED" -> "refuse" \in Events
    [] OTHER -> TRUE

\* RpcStateMachine's Advance and LoseConnection.
ClientStep(c, s) ==
  /\ Acts(c)
  /\ using[c] \in Complete
  /\ <<rpc[c], s>> \in Reports
  /\ Possible(s)
  /\ rpc' = [rpc EXCEPT ![c] = s]
  /\ StateCallback(c, s)
  /\ UNCHANGED <<config, mClient, life, using, hears, timer, threads>>

\* RpcStateMachine's LateReady, and the READY of FinishTurn.
ClientLate(c) ==
  /\ Acts(c)
  /\ rpc[c] = "DISCONNECTED"
  /\ rpc' = [rpc EXCEPT ![c] = "LATE"]
  /\ StateCallback(c, "READY")
  /\ UNCHANGED <<config, mClient, life, using, hears, timer, threads>>

\* RpcStateMachine's LoseAgain: a coroutine closes the connection that the destructor
\* has just reported lost.
ClientAgain(t, c) ==
  /\ Acts(c)
  /\ Event("lose")
  /\ pc[t] = "told" /\ at[t] = c
  /\ Goto(t, "await")
  /\ rpc' = [rpc EXCEPT ![c] = "DISCONNECTED"]
  /\ Disconnected(c)
  /\ UNCHANGED <<config, mClient, life, using, hears, action, timer, at, then, crashed>>

\* DiscordClient's InitializeWithoutConfig: it reports the failure, then its
\* worker dereferences the connection it has not got.
ClientWithoutConfig(c) ==
  /\ Acts(c)
  /\ using[c] \notin Complete
  /\ rpc[c] = "CONNECTING"
  /\ rpc' = [rpc EXCEPT ![c] = "AUTHENTICATION_FAILED"]
  /\ crashed' = (life[c] # "dying")
  /\ UNCHANGED <<config, mClient, life, using, hears, unheard, action, posted, timer,
                 threads>>

\* onCredentialsChanged takes the id and secret from mClient, whatever that is
\* now.  The worker may be in its OAuth request when the connection is lost.
CredentialsCallback(c) ==
  /\ Acts(c)
  /\ "creds" \in hears[c]
  /\ rpc[c] \in {"LOGIN", "DISCONNECTED"}
  /\ IF mClient = NoClient
     THEN crashed' = TRUE /\ UNCHANGED config
     ELSE config' = using[mClient] /\ UNCHANGED crashed
  /\ UNCHANGED <<mClient, clients, action, posted, timer, threads>>

-----------------------------------------------------------------------------
(* Stream Deck's messages and the timer. *)

Idle == ~crashed /\ pc[Loop] = "idle"

\* The comparison includes the tokens: what looks the same here may be new.
DidReceiveGlobalSettings(k) ==
  /\ Event("settings")
  /\ Idle
  /\ k # config \/ k \in Complete
  /\ config' = k
  /\ Goto(Loop, "check")
  /\ UNCHANGED <<mClient, clients, action, posted, timer, at, then, crashed>>

\* Reconnect, and Reauthenticate, which also clears the tokens.
SendToPlugin ==
  /\ Event("click")
  /\ Idle
  /\ Post("reconnect")
  /\ UNCHANGED <<config, mClient, clients, action, timer, threads, crashed>>

\* KeyUpForAction, or getState: mClient is tested and found to be there.
BeginKeyUp ==
  /\ "key" \in Events
  /\ Idle
  /\ mClient # NoClient
  /\ Goto(Loop, "key")
  /\ UNCHANGED <<config, mClient, clients, action, posted, timer, at, then, crashed>>

\* Its state is read through the pointer again.  A key goes on to its action
\* if that is READY; an alert or an answer to the inspector ends the others.
AskState ==
  /\ ~crashed
  /\ pc[Loop] = "key"
  /\ IF mClient = NoClient
     THEN crashed' = TRUE /\ UNCHANGED pc
     ELSE /\ \/ rpc[mClient] \in {"READY", "LATE"} /\ Goto(Loop, "pressed")
             \/ Goto(Loop, "idle")
          /\ UNCHANGED crashed
  /\ UNCHANGED <<config, mClient, clients, action, posted, timer, at, then>>

\* Mutant of LockClient: the locked pointer is used without a test.
UseUntested ==
  /\ ~crashed
  /\ pc[Loop] = "pressed"
  /\ Goto(Loop, "using")
  /\ at' = [at EXCEPT ![Loop] = action]
  /\ UNCHANGED <<config, mClient, clients, action, posted, timer, then, crashed>>

\* DiscordESDAction::KeyUp locks the weak pointer, or shows an alert.
LockClient ==
  /\ ~crashed
  /\ pc[Loop] = "pressed"
  /\ Goto(Loop, IF action = NoClient THEN "idle" ELSE "using")
  /\ at' = [at EXCEPT ![Loop] = action]
  /\ UNCHANGED <<config, mClient, clients, action, posted, timer, then, crashed>>

EndKeyUp ==
  /\ ~crashed
  /\ pc[Loop] = "using"
  /\ UNCHANGED <<config, mClient, rpc, using, hears, unheard, posted, timer, crashed>>
  /\ Drop(Loop, at[Loop], "idle", life)
  /\ Expire(action)

\* A new action, of which the model follows the pointer from then on.  Bound:
\* no other waits for this client.
WillAppear ==
  /\ "appear" \in Events
  /\ Idle
  /\ action' = NoClient
  /\ IF mClient # NoClient /\ rpc[mClient] \in {"READY", "LATE"}
     THEN posted[mClient] = 0 /\ Post(mClient)
     ELSE UNCHANGED posted
  /\ UNCHANGED <<config, mClient, clients, timer, threads, crashed>>

TimerFires ==
  /\ Idle
  /\ timer
  /\ timer' = FALSE
  /\ Goto(Loop, "check")
  /\ UNCHANGED <<config, mClient, clients, action, posted, at, then, crashed>>

-----------------------------------------------------------------------------
(* Posted tasks, ConnectToDiscord and ConnectToDiscordLater. *)

Take(t, job) ==
  /\ ~crashed
  /\ pc[t] = "idle"
  /\ posted[job] > 0
  /\ posted' = [posted EXCEPT ![job] = @ - 1]

\* The task of DiscordESDAction's constructor, and the end of its pointer.
GiveClient(t, c) ==
  /\ Take(t, c)
  /\ UNCHANGED <<config, mClient, rpc, using, hears, unheard, timer, crashed>>
  /\ Drop(t, c, "idle", life)
  /\ Expire(c)

\* The tasks of ReconnectToDiscord and of CONNECTION_FAILED.
ResetClient(t, job) ==
  /\ Take(t, job)
  /\ mClient' = NoClient
  /\ UNCHANGED <<config, rpc, using, hears, unheard, timer, crashed>>
  /\ LET where == IF job = "later" THEN "later" ELSE "check"
     IN  IF mClient = NoClient
         THEN Goto(t, where) /\ UNCHANGED <<life, at, then, action>>
         ELSE Drop(t, mClient, where, life) /\ Expire(action)

\* ~DiscordClient, up to the test of Close(): the connection is open, or was lost.
CloseDying(t) ==
  /\ ~crashed
  /\ pc[t] = "destroy"
  /\ Goto(t, IF rpc[at[t]] \in Online THEN "tell" ELSE "await")
  /\ UNCHANGED <<config, mClient, clients, action, posted, timer, at, then, crashed>>

\* It reports the loss, though a coroutine may have done so since the test.
TellDying(t) ==
  /\ ~crashed
  /\ pc[t] = "tell"
  /\ Goto(t, IF rpc[at[t]] \in Online THEN "told" ELSE "await")
  /\ IF rpc[at[t]] # "AUTHENTICATION_FAILED"
     THEN rpc' = [rpc EXCEPT ![at[t]] = "DISCONNECTED"] /\ Disconnected(at[t])
     ELSE UNCHANGED <<rpc, posted, unheard>>
  /\ UNCHANGED <<config, mClient, life, using, hears, action, timer, at, then, crashed>>

\* The connection is closed: no coroutine finds it lost any more.
ClearDying(t) ==
  /\ ~crashed
  /\ pc[t] = "told"
  /\ Goto(t, "await")
  /\ UNCHANGED <<config, mClient, clients, action, posted, timer, at, then, crashed>>

\* The worker has ended (DestructorReturns in module DiscordClient).
EndDestroy(t) ==
  /\ ~crashed
  /\ pc[t] = "await"
  /\ life' = [life EXCEPT ![at[t]] = "free"]
  /\ rpc' = [rpc EXCEPT ![at[t]] = "CONNECTING"]
  /\ using' = [using EXCEPT ![at[t]] = NoConfig]
  /\ hears' = [hears EXCEPT ![at[t]] = {}]
  /\ unheard' = unheard \ {at[t]}
  /\ Goto(t, then[t])
  /\ at' = [at EXCEPT ![t] = NoClient]
  /\ then' = [then EXCEPT ![t] = "idle"]
  /\ UNCHANGED <<config, mClient, action, posted, timer, crashed>>

CheckClient(t) ==
  /\ ~crashed
  /\ pc[t] = "check"
  /\ Goto(t, IF mClient = NoClient THEN "create" ELSE "exists")
  /\ UNCHANGED <<config, mClient, clients, action, posted, timer, at, then, crashed>>

\* ConnectToDiscord returns early, after it has logged the client's state.
ClientExists(t) ==
  /\ ~crashed
  /\ pc[t] = "exists"
  /\ IF mClient = NoClient
     THEN crashed' = TRUE /\ UNCHANGED pc
     ELSE Goto(t, "idle") /\ UNCHANGED crashed
  /\ UNCHANGED <<config, mClient, clients, action, posted, timer, at, then>>

\* The assignment drops the pointer to a client another thread made meanwhile.
CreateClient(t, c) ==
  /\ ~crashed
  /\ pc[t] = "create"
  /\ life[c] = "free"
  /\ mClient' = c
  /\ using' = [using EXCEPT ![c] = config]
  /\ UNCHANGED <<config, rpc, hears, unheard, posted, timer, crashed>>
  /\ LET lives == [life EXCEPT ![c] = "made"]
     IN  IF mClient = NoClient
         THEN Goto(t, "hook") /\ life' = lives /\ UNCHANGED <<at, then, action>>
         ELSE Drop(t, mClient, "hook", lives) /\ Expire(action)

\* One of its callbacks is set, through mClient, which may be another thread's by now.
SetCallback(t, callback) ==
  /\ ~crashed
  /\ pc[t] = callback
  /\ IF mClient = NoClient
     THEN crashed' = TRUE /\ UNCHANGED <<pc, hears>>
     ELSE /\ Goto(t, After[callback])
          /\ hears' = [hears EXCEPT ![mClient] = @ \cup {callback}]
          /\ UNCHANGED crashed
  /\ UNCHANGED <<config, mClient, life, rpc, using, unheard, action, posted, timer, at, then>>

\* initializeInCurrentThread is called through mClient.  The model ends with a second
\* start of the same client: an assertion fails, or without assertions a second worker
\* replaces the connection under the first.
StartClient(t) ==
  /\ ~crashed
  /\ pc[t] = "start"
  /\ IF mClient = NoClient
     THEN crashed' = TRUE /\ UNCHANGED <<pc, life>>
     ELSE /\ Goto(t, "idle")
          /\ life' = [life EXCEPT ![mClient] = IF @ = "made" THEN "running" ELSE "twice"]
          /\ crashed' = (life[mClient] # "made")
  /\ UNCHANGED <<config, mClient, rpc, using, hears, unheard, action, posted, timer, at, then>>

ArmTimer == timer' = TRUE

ConnectLater(t) ==
  /\ ~crashed
  /\ pc[t] = "later"
  /\ ArmTimer
  /\ Goto(t, "idle")
  /\ UNCHANGED <<config, mClient, clients, action, posted, at, then, crashed>>

-----------------------------------------------------------------------------
Proceed(t) ==
  \/ CloseDying(t) \/ TellDying(t) \/ ClearDying(t) \/ EndDestroy(t)
  \/ CheckClient(t) \/ ClientExists(t) \/ StartClient(t) \/ ConnectLater(t)
  \/ \E c \in Clients : CreateClient(t, c)
  \/ \E callback \in Callbacks : SetCallback(t, callback)

KeyUp == AskState \/ LockClient \/ EndKeyUp

ClientActs(c) ==
  \/ \E s \in States : ClientStep(c, s)
  \/ \E t \in Threads : ClientAgain(t, c)
  \/ ClientLate(c) \/ ClientWithoutConfig(c) \/ CredentialsCallback(c)

Next ==
  \/ \E k \in Configs : DidReceiveGlobalSettings(k)
  \/ SendToPlugin \/ BeginKeyUp \/ KeyUp \/ WillAppear \/ TimerFires
  \/ \E t \in Pool, c \in Clients : GiveClient(t, c)
  \/ \E t \in Pool, job \in {"reconnect", "later"} : ResetClient(t, job)
  \/ \E t \in Threads : Proceed(t)
  \/ \E c \in Clients : ClientActs(c)

Spec == Init /\ [][Next]_vars

\* Every thread runs.  The pool and the io_context take what waits in order,
\* so no task and no expired timer is overtaken for ever.  Clients, Discord, the
\* user and Stream Deck need do nothing.
Fairness ==
  /\ \A t \in Threads : WF_vars(Proceed(t))
  /\ WF_vars(KeyUp)
  /\ \A c \in Clients : SF_vars(\E t \in Pool : GiveClient(t, c))
  /\ \A job \in {"reconnect", "later"} : SF_vars(\E t \in Pool : ResetClient(t, job))
  /\ SF_vars(TimerFires)

FairSpec == Spec /\ Fairness

-----------------------------------------------------------------------------
(* Properties. *)

\* A shared pointer to c exists: the plugin's, a waiting task's or KeyUp's.
Owned(c) ==
  \/ mClient = c
  \/ posted[c] > 0
  \/ \E t \in Threads : at[t] = c /\ pc[t] = "using"

\* A client in use is not destroyed: neither mClient, nor an action inside
\* KeyUp, nor a waiting task ever points to one whose destructor has begun,
\* and no weak pointer that can still be locked does.
NothingPointsToDying ==
  \A c \in Clients : Owned(c) \/ action = c => life[c] \in Alive

\* A client nobody points to is being destroyed, by exactly one thread: none
\* stays connected to Discord behind the plugin's back, whatever threads
\* replace mClient at once.
UnownedIsDying ==
  \A c \in Clients :
    /\ life[c] \in Alive => Owned(c)
    /\ life[c] \in Dying =>
         \E t \in Threads :
           /\ at[t] = c /\ pc[t] \in Destroying
           /\ \A u \in Threads \ {t} : at[u] # c

\* Thread t goes on to look for a client and make one, now or when it has
\* destroyed another, or to wait for the timer to do so.
Replaces(t) ==
  \/ pc[t] \in {"check", "create", "later"}
  \/ pc[t] \in Destroying /\ then[t] \in {"check", "later"}

\* Thread t goes on to set mClient's onStateChanged, now or after a destructor.
Hooks(t) ==
  \/ pc[t] = "hook"
  \/ pc[t] \in Destroying /\ then[t] = "hook"

\* As long as the plugin's client is one whose connection failed or was lost, a task
\* that resets it waits, whichever client's failure posted it, unless it failed before it
\* had its onStateChanged.  Only a client whose maker has still to set that has not got
\* it: another thread, whose own client it replaced, has started it.  And a plugin that
\* has settings but no client has a thread on its way to make one, or the timer, whatever
\* threads reset and replace mClient at once.
FailureIsFollowedUp ==
  /\ \A c \in Clients :
       /\ mClient = c /\ rpc[c] \in Lost \cup {"CONNECTION_FAILED"} /\ c \notin unheard
            => \E job \in {"reconnect", "later"} : posted[job] > 0
       /\ mClient = c /\ "hook" \notin hears[c] => \E t \in Threads : Hooks(t)
  /\ config # NoConfig /\ mClient = NoClient => timer \/ \E t \in Threads : Replaces(t)


\* assert(!mWorker.valid()) in initializeInCurrentThread.
WorkerStartedOnce == \A c \in Clients : life[c] # "twice"
=============================================================================
