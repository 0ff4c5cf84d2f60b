------------------- MODULE DiscordStreamDeckPlugin_proofs -------------------
(* Proofs about DiscordStreamDeckPlugin, for any number of threads in asio's
   pool and any number of clients being destroyed while others are made. *)
EXTENDS DiscordStreamDeckPlugin, TLAPS

Lives == {"free"} \cup Alive \cup Dying

\* The clients in use are those a shared pointer points to.
OwnedInv == \A c \in Clients : life[c] \in Alive <=> Owned(c)

\* The weak pointer points to one of them, or has expired.
WeakInv == action # NoClient => life[action] \in Alive

\* A client that is being destroyed is so by one thread, and no other has it.
DyingInv ==
  \A c \in Clients :
    life[c] \in Dying =>
      \E t \in Threads :
        /\ at[t] = c /\ pc[t] \in Destroying
        /\ \A u \in Threads \ {t} : at[u] # c

\* A thread inside a destructor has a client that is being destroyed.
DestroyInv == \A t \in Threads : pc[t] \in Destroying => life[at[t]] \in Dying

PointerInv == OwnedInv /\ WeakInv /\ DyingInv /\ DestroyInv

\* What a client leaves behind, and what its failure sets going.
Failed == Lost \cup {"CONNECTION_FAILED"}

\* A free slot holds nothing of the client that was in it.
FreeInv == \A c \in Clients : life[c] = "free" => rpc[c] = "CONNECTING"

\* A task that resets the client waits.
ResetWaits == \E job \in {"reconnect", "later"} : posted[job] > 0

\* The parts of FailureIsFollowedUp.
ResetInv ==
  \A c \in Clients : mClient = c /\ rpc[c] \in Failed /\ c \notin unheard => ResetWaits
HookInv ==
  \A c \in Clients : mClient = c /\ "hook" \notin hears[c] => \E t \in Threads : Hooks(t)
ReplaceInv ==
  config # NoConfig /\ mClient = NoClient => timer \/ \E t \in Threads : Replaces(t)

FollowInv == FreeInv /\ ResetInv /\ HookInv /\ ReplaceInv

\* Thread t is on its way to make a client, or to set its callback.
Busy(t) == Replaces(t) \/ Hooks(t)

IInv == TypeOK /\ PointerInv /\ FollowInv

USE DEF Lives, Alive, Dying, Destroying, Locked, Callbacks

-----------------------------------------------------------------------------
(* Types. *)

LEMMA StatesAre ==
  {"CONNECTING", "CONNECTION_FAILED", "AUTHENTICATION_FAILED", "DISCONNECTED", "READY", "LOGIN"}
     \subseteq States
<1> USE DEF States, Machine!CoarseStates, Machine!Coarse, Machine!RpcStates, Machine!Online
<1>1. /\ Machine!Coarse("CONNECTING") = "CONNECTING"
      /\ Machine!Coarse("CONNECTION_FAILED") = "CONNECTION_FAILED"
  OBVIOUS
<1>2. /\ Machine!Coarse("AUTHENTICATION_FAILED") = "AUTHENTICATION_FAILED"
      /\ Machine!Coarse("DISCONNECTED") = "DISCONNECTED"
  OBVIOUS
<1>3. /\ Machine!Coarse("READY") = "READY"
      /\ Machine!Coarse("REQUESTING_USER_PERMISSION") = "LOGIN"
  OBVIOUS
<1>4. {"CONNECTING", "CONNECTION_FAILED", "AUTHENTICATION_FAILED", "DISCONNECTED", "READY",
       "REQUESTING_USER_PERMISSION"} \subseteq Machine!RpcStates
  OBVIOUS
<1>5. \A s \in Machine!RpcStates : Machine!Coarse(s) \in States
  BY DEF States
<1>6. QED
  BY <1>1, <1>2, <1>3, <1>4, <1>5

\* A posted task is one more.
LEMMA PostType ==
  ASSUME TypeOK, NEW job \in Jobs, Post(job)
  PROVE  /\ posted' \in [Jobs -> Nat]
         /\ \A c \in Jobs \ {job} : posted'[c] = posted[c]
         /\ posted'[job] = posted[job] + 1
BY DEF TypeOK, Post

LEMMA TakeType ==
  ASSUME TypeOK, NEW t \in Threads, NEW job \in Jobs, Take(t, job)
  PROVE  /\ posted' \in [Jobs -> Nat]
         /\ \A c \in Jobs \ {job} : posted'[c] = posted[c]
         /\ posted[job] > 0 /\ pc[t] = "idle"
BY DEF TypeOK, Take

LEMMA GotoType ==
  ASSUME TypeOK, NEW t \in Threads, NEW where \in Pcs, Goto(t, where)
  PROVE  /\ pc' \in [Threads -> Pcs]
         /\ pc'[t] = where
         /\ \A u \in Threads \ {t} : pc'[u] = pc[u]
BY DEF TypeOK, Goto

\* Dropping a pointer leaves the thread without a client or in a destructor.
LEMMA DropType ==
  ASSUME TypeOK, NEW t \in Threads, NEW c \in Clients,
         NEW where \in {"idle", "check", "later", "hook"},
         NEW lives \in [Clients -> Lives], Drop(t, c, where, lives)
  PROVE  /\ life' \in [Clients -> Lives]
         /\ pc' \in [Threads -> Pcs]
         /\ at' \in [Threads -> Clients \cup {NoClient}]
         /\ \A u \in Threads : pc'[u] \in Locked <=> at'[u] # NoClient
         /\ then' \in [Threads -> {"idle", "check", "later", "hook"}]
<1> USE DEF TypeOK
<1>1. CASE Shared(t, c)
  <2>1. /\ Goto(t, where) /\ at' = [at EXCEPT ![t] = NoClient]
        /\ life' = lives /\ then' = then
    BY <1>1 DEF Drop
  <2>2. where \in Pcs \ Locked
    BY DEF Pcs
  <2>3. pc' = [pc EXCEPT ![t] = where]
    BY <2>1 DEF Goto
  <2>4. QED
    BY <2>1, <2>2, <2>3
<1>2. CASE ~Shared(t, c)
  <2>1. Destroy(t, c, where, lives)
    BY <1>2 DEF Drop
  <2>2. c # NoClient
    BY NoClientAssumption
  <2>3. "destroy" \in Pcs
    BY DEF Pcs
  <2>4. QED
    BY <2>1, <2>2, <2>3 DEF Destroy, Goto
<1>3. QED
  BY <1>1, <1>2

LEMMA ExpireType ==
  ASSUME NEW weak \in Clients \cup {NoClient}, Expire(weak)
  PROVE  action' \in Clients \cup {NoClient}
BY DEF Expire

LEMMA ClientsAreJobs ==
  /\ Clients \subseteq Jobs /\ {"reconnect", "later"} \subseteq Jobs
  /\ "reconnect" \notin Clients /\ "later" \notin Clients
  /\ Loop \in Threads /\ Pool \subseteq Threads
BY JobsAssumption DEF Jobs, Threads

\* A failure posts a task, or goes unheard.
LEMMA FailType ==
  ASSUME TypeOK, NEW c \in Clients, NEW job \in {"reconnect", "later"}, Fail(c, job)
  PROVE  /\ posted' \in [Jobs -> Nat]
         /\ \A d \in Clients : posted'[d] = posted[d]
         /\ unheard' \subseteq Clients
<1> USE ClientsAreJobs
<1>1. CASE "hook" \in hears[c]
  <2>1. Post(job) /\ unheard' = unheard
    BY <1>1 DEF Fail
  <2>2. QED
    BY <2>1, PostType DEF TypeOK
<1>2. CASE "hook" \notin hears[c]
  BY <1>2 DEF Fail, TypeOK
<1>3. QED
  BY <1>1, <1>2

\* What a report makes the plugin do.
LEMMA CallbackType ==
  ASSUME TypeOK, NEW c \in Clients, NEW s, StateCallback(c, s)
  PROVE  /\ action' \in {action, mClient}
         /\ posted' \in [Jobs -> Nat]
         /\ \A d \in Clients : posted'[d] = posted[d]
         /\ unheard' \subseteq Clients
         /\ crashed' \in BOOLEAN
<1>1. action' \in {action, mClient}
  BY DEF StateCallback, Ready
<1>2. crashed' \in BOOLEAN
  <2>1. crashed' = crashed \/ crashed' = TRUE
    BY DEF StateCallback, Ready
  <2>2. crashed \in BOOLEAN
    BY DEF TypeOK
  <2>3. QED
    BY <2>1, <2>2
<1>3. \/ Fail(c, "reconnect") \/ Fail(c, "later")
      \/ UNCHANGED <<posted, unheard>>
  BY DEF StateCallback, Disconnected
<1>4. QED
  BY <1>1, <1>2, <1>3, FailType, ClientsAreJobs DEF TypeOK

LEMMA InitType == Init => TypeOK
<1> SUFFICES ASSUME Init PROVE TypeOK
  OBVIOUS
<1>1. NoConfig \in Configs
  BY ConfigsAssumption
<1>2. posted \in [Jobs -> Nat] /\ timer \in BOOLEAN /\ crashed \in BOOLEAN
  BY DEF Init
<1>3. /\ life \in [Clients -> Lives] /\ rpc \in [Clients -> States \cup {"LATE"}]
      /\ using \in [Clients -> Configs]
      /\ hears \in [Clients -> SUBSET Callbacks] /\ unheard \subseteq Clients
  BY <1>1, StatesAre DEF Init
<1>4. /\ pc \in [Threads -> Pcs] /\ at \in [Threads -> Clients \cup {NoClient}]
      /\ then \in [Threads -> {"idle", "check", "later", "hook"}]
      /\ \A t \in Threads : pc[t] \notin Locked /\ at[t] = NoClient
  BY DEF Init, Pcs
<1>5. config \in Configs /\ mClient = NoClient /\ action = NoClient
  BY <1>1 DEF Init
<1>6. QED
  BY <1>2, <1>3, <1>4, <1>5 DEF TypeOK

\* A thread that goes from a place without a client to another keeps the types.
LEMMA GotoFreeType ==
  ASSUME TypeOK, NEW t \in Threads, NEW where \in Pcs \ Locked, Goto(t, where),
         pc[t] \notin Locked, UNCHANGED at
  PROVE  pc' \in [Threads -> Pcs] /\ \A u \in Threads : pc'[u] \in Locked <=> at'[u] # NoClient
BY GotoType DEF TypeOK

\* Every step keeps the types.
LEMMA TypeStep ==
  ASSUME TypeOK, [Next]_vars PROVE TypeOK'
<1> USE ClientsAreJobs, StatesAre DEF clients, threads
<1>1. ASSUME NEW k \in Configs, DidReceiveGlobalSettings(k) PROVE TypeOK'
  <2>1. pc' \in [Threads -> Pcs] /\ \A u \in Threads : pc'[u] \in Locked <=> at'[u] # NoClient
    BY <1>1, GotoFreeType DEF DidReceiveGlobalSettings, Idle, Pcs
  <2>2. QED
    BY <1>1, <2>1 DEF DidReceiveGlobalSettings, TypeOK
<1>2. CASE SendToPlugin
  BY <1>2, PostType DEF SendToPlugin, TypeOK
<1>3. CASE BeginKeyUp
  <2>1. pc' \in [Threads -> Pcs] /\ \A u \in Threads : pc'[u] \in Locked <=> at'[u] # NoClient
    BY <1>3, GotoFreeType DEF BeginKeyUp, Idle, Pcs
  <2>2. QED
    BY <1>3, <2>1 DEF BeginKeyUp, TypeOK
<1>4. CASE AskState
  <2>1. pc' \in [Threads -> Pcs] /\ \A u \in Threads : pc'[u] \in Locked <=> at'[u] # NoClient
    <3>1. CASE UNCHANGED pc
      BY <1>4, <3>1 DEF AskState, TypeOK
    <3>2. CASE Goto(Loop, "pressed")
      BY <1>4, <3>2, GotoFreeType DEF AskState, Pcs
    <3>3. CASE Goto(Loop, "idle")
      BY <1>4, <3>3, GotoFreeType DEF AskState, Pcs
    <3>4. QED
      BY <1>4, <3>1, <3>2, <3>3 DEF AskState
  <2>2. crashed' \in BOOLEAN
    BY <1>4 DEF AskState, TypeOK
  <2>3. QED
    BY <1>4, <2>1, <2>2 DEF AskState, TypeOK
<1>5. CASE LockClient
  <2>1. (IF action = NoClient THEN "idle" ELSE "using") \in Pcs
    BY DEF Pcs
  <2>2. /\ pc' \in [Threads -> Pcs]
        /\ pc'[Loop] = IF action = NoClient THEN "idle" ELSE "using"
        /\ \A u \in Threads \ {Loop} : pc'[u] = pc[u]
    BY <1>5, <2>1, GotoType DEF LockClient
  <2>3. /\ at' \in [Threads -> Clients \cup {NoClient}]
        /\ at'[Loop] = action /\ \A u \in Threads \ {Loop} : at'[u] = at[u]
    BY <1>5 DEF LockClient, TypeOK
  <2>4. \A u \in Threads : pc'[u] \in Locked <=> at'[u] # NoClient
    BY <2>2, <2>3 DEF TypeOK
  <2>5. QED
    BY <1>5, <2>2, <2>3, <2>4 DEF LockClient, TypeOK
<1>6. CASE EndKeyUp
  <2>1. at[Loop] \in Clients /\ life \in [Clients -> Lives]
    BY <1>6 DEF EndKeyUp, TypeOK
  <2>2. Drop(Loop, at[Loop], "idle", life)
    BY <1>6 DEF EndKeyUp
  <2>3. /\ life' \in [Clients -> Lives]
        /\ pc' \in [Threads -> Pcs]
        /\ at' \in [Threads -> Clients \cup {NoClient}]
        /\ \A u \in Threads : pc'[u] \in Locked <=> at'[u] # NoClient
        /\ then' \in [Threads -> {"idle", "check", "later", "hook"}]
    BY <2>1, <2>2, DropType
  <2>4. action' \in Clients \cup {NoClient}
    BY <1>6, ExpireType DEF EndKeyUp, TypeOK
  <2>5. UNCHANGED <<config, mClient, rpc, using, hears, unheard, posted, timer, crashed>>
    BY <1>6 DEF EndKeyUp
  <2>6. QED
    BY <2>3, <2>4, <2>5 DEF TypeOK
<1>7. CASE WillAppear
  <2>1. posted' \in [Jobs -> Nat]
    <3>1. CASE Post(mClient) /\ mClient # NoClient
      BY <3>1, PostType DEF TypeOK
    <3>2. CASE UNCHANGED posted
      BY <3>2 DEF TypeOK
    <3>3. QED
      BY <1>7, <3>1, <3>2 DEF WillAppear
  <2>2. QED
    BY <1>7, <2>1 DEF WillAppear, TypeOK
<1>8. CASE TimerFires
  <2>1. pc' \in [Threads -> Pcs] /\ \A u \in Threads : pc'[u] \in Locked <=> at'[u] # NoClient
    BY <1>8, GotoFreeType DEF TimerFires, Idle, Pcs
  <2>2. QED
    BY <1>8, <2>1 DEF TimerFires, TypeOK
<1>9. ASSUME NEW t \in Pool, NEW c \in Clients, GiveClient(t, c) PROVE TypeOK'
  <2>1. posted' \in [Jobs -> Nat]
    BY <1>9, TakeType DEF GiveClient
  <2>2. /\ life' \in [Clients -> Lives]
        /\ pc' \in [Threads -> Pcs]
        /\ at' \in [Threads -> Clients \cup {NoClient}]
        /\ \A u \in Threads : pc'[u] \in Locked <=> at'[u] # NoClient
        /\ then' \in [Threads -> {"idle", "check", "later", "hook"}]
    <3>1. Drop(t, c, "idle", life) /\ life \in [Clients -> Lives] /\ t \in Threads
      BY <1>9 DEF GiveClient, TypeOK
    <3>2. QED
      BY <3>1, DropType
  <2>3. action' \in Clients \cup {NoClient}
    BY <1>9, ExpireType DEF GiveClient
  <2>4. UNCHANGED <<config, mClient, rpc, using, hears, unheard, timer, crashed>>
    BY <1>9 DEF GiveClient
  <2>5. QED
    BY <2>1, <2>2, <2>3, <2>4 DEF TypeOK
<1>10. ASSUME NEW t \in Pool, NEW job \in {"reconnect", "later"}, ResetClient(t, job)
       PROVE  TypeOK'
  <2>1. t \in Threads /\ posted' \in [Jobs -> Nat] /\ pc[t] = "idle"
    BY <1>10, TakeType DEF ResetClient
  <2> DEFINE where == IF job = "later" THEN "later" ELSE "check"
  <2>2. where \in {"idle", "check", "later", "hook"} /\ where \in Pcs \ Locked
    BY DEF Pcs
  <2>3. /\ life' \in [Clients -> Lives]
        /\ pc' \in [Threads -> Pcs]
        /\ at' \in [Threads -> Clients \cup {NoClient}]
        /\ \A u \in Threads : pc'[u] \in Locked <=> at'[u] # NoClient
        /\ then' \in [Threads -> {"idle", "check", "later", "hook"}]
        /\ action' \in Clients \cup {NoClient}
    <3>1. CASE mClient = NoClient
      <4>1. Goto(t, where) /\ UNCHANGED <<life, at, then, action>>
        BY <1>10, <3>1 DEF ResetClient
      <4>2. pc' \in [Threads -> Pcs] /\ \A u \in Threads : pc'[u] \in Locked <=> at'[u] # NoClient
        BY <2>1, <2>2, <4>1, GotoFreeType
      <4>3. QED
        BY <4>1, <4>2 DEF TypeOK
    <3>2. CASE mClient # NoClient
      <4>1. Drop(t, mClient, where, life) /\ Expire(action)
        BY <1>10, <3>2 DEF ResetClient
      <4>2. mClient \in Clients /\ life \in [Clients -> Lives] /\ action \in Clients \cup {NoClient}
        BY <3>2 DEF TypeOK
      <4>3. QED
        BY <2>1, <2>2, <4>1, <4>2, DropType, ExpireType
    <3>3. QED
      BY <3>1, <3>2
  <2>4. mClient' = NoClient /\ UNCHANGED <<config, rpc, using, hears, unheard, timer, crashed>>
    BY <1>10 DEF ResetClient
  <2>5. QED
    BY <2>1, <2>3, <2>4 DEF TypeOK
<1>11. ASSUME NEW t \in Threads, CloseDying(t) PROVE TypeOK'
  <2> DEFINE where == IF rpc[at[t]] \in Online THEN "tell" ELSE "await"
  <2>1. where \in Pcs /\ where \in Destroying
    BY DEF Pcs
  <2>2. /\ pc' \in [Threads -> Pcs] /\ pc'[t] = where
        /\ \A u \in Threads \ {t} : pc'[u] = pc[u]
    BY <1>11, <2>1, GotoType DEF CloseDying
  <2>3. at' = at /\ pc[t] \in Destroying
    BY <1>11 DEF CloseDying
  <2> HIDE DEF where
  <2>4. \A u \in Threads : pc'[u] \in Locked <=> at'[u] # NoClient
    BY <2>1, <2>2, <2>3 DEF TypeOK
  <2>5. UNCHANGED <<config, mClient, clients, action, posted, timer, at, then, crashed>>
    BY <1>11 DEF CloseDying
  <2>6. QED
    BY <2>2, <2>4, <2>5 DEF TypeOK
<1>24. ASSUME NEW t \in Threads, TellDying(t) PROVE TypeOK'
  <2> DEFINE where == IF rpc[at[t]] \in Online THEN "told" ELSE "await"
  <2>1. where \in Pcs /\ where \in Destroying
    BY DEF Pcs
  <2>2. /\ pc' \in [Threads -> Pcs] /\ pc'[t] = where
        /\ \A u \in Threads \ {t} : pc'[u] = pc[u]
    BY <1>24, <2>1, GotoType DEF TellDying
  <2>3. at' = at /\ pc[t] \in Destroying
    BY <1>24 DEF TellDying
  <2> HIDE DEF where
  <2>4. \A u \in Threads : pc'[u] \in Locked <=> at'[u] # NoClient
    BY <2>1, <2>2, <2>3 DEF TypeOK
  <2>5. at[t] \in Clients
    BY <2>3 DEF TypeOK
  <2>6. /\ posted' \in [Jobs -> Nat] /\ rpc' \in [Clients -> States \cup {"LATE"}]
        /\ unheard' \subseteq Clients
    <3>1. CASE Fail(at[t], "reconnect") /\ rpc' = [rpc EXCEPT ![at[t]] = "DISCONNECTED"]
      BY <2>5, <3>1, FailType DEF TypeOK
    <3>2. CASE UNCHANGED <<rpc, posted, unheard>>
      BY <3>2 DEF TypeOK
    <3>3. QED
      BY <1>24, <3>1, <3>2 DEF TellDying, Disconnected
  <2>7. UNCHANGED <<config, mClient, life, using, hears, action, timer, at, then, crashed>>
    BY <1>24 DEF TellDying
  <2>8. QED
    BY <2>2, <2>4, <2>6, <2>7 DEF TypeOK
<1>25. ASSUME NEW t \in Threads, ClearDying(t) PROVE TypeOK'
  <2> DEFINE where == "await"
  <2>1. where \in Pcs /\ where \in Destroying
    BY DEF Pcs
  <2>2. /\ pc' \in [Threads -> Pcs] /\ pc'[t] = where
        /\ \A u \in Threads \ {t} : pc'[u] = pc[u]
    BY <1>25, <2>1, GotoType DEF ClearDying
  <2>3. at' = at /\ pc[t] \in Destroying
    BY <1>25 DEF ClearDying
  <2> HIDE DEF where
  <2>4. \A u \in Threads : pc'[u] \in Locked <=> at'[u] # NoClient
    BY <2>1, <2>2, <2>3 DEF TypeOK
  <2>5. UNCHANGED <<config, mClient, clients, action, posted, timer, at, then, crashed>>
    BY <1>25 DEF ClearDying
  <2>6. QED
    BY <2>2, <2>4, <2>5 DEF TypeOK
<1>26. ASSUME NEW c \in Clients, NEW t \in Threads, ClientAgain(t, c) PROVE TypeOK'
  <2> DEFINE where == "await"
  <2>1. where \in Pcs /\ where \in Destroying
    BY DEF Pcs
  <2>2. /\ pc' \in [Threads -> Pcs] /\ pc'[t] = where
        /\ \A u \in Threads \ {t} : pc'[u] = pc[u]
    BY <1>26, <2>1, GotoType DEF ClientAgain
  <2>3. at' = at /\ pc[t] \in Destroying
    BY <1>26 DEF ClientAgain
  <2> HIDE DEF where
  <2>4. \A u \in Threads : pc'[u] \in Locked <=> at'[u] # NoClient
    BY <2>1, <2>2, <2>3 DEF TypeOK
  <2>5. /\ posted' \in [Jobs -> Nat] /\ rpc' \in [Clients -> States \cup {"LATE"}]
        /\ unheard' \subseteq Clients
    BY <1>26, FailType DEF ClientAgain, Disconnected, TypeOK
  <2>6. UNCHANGED <<config, mClient, life, using, hears, action, timer, at, then, crashed>>
    BY <1>26 DEF ClientAgain
  <2>7. QED
    BY <2>2, <2>4, <2>5, <2>6 DEF TypeOK
<1>12. ASSUME NEW t \in Threads, EndDestroy(t) PROVE TypeOK'
  <2>1. NoConfig \in Configs
    BY ConfigsAssumption
  <2>2. /\ life' \in [Clients -> Lives] /\ rpc' \in [Clients -> States \cup {"LATE"}]
        /\ using' \in [Clients -> Configs] /\ hears' \in [Clients -> SUBSET Callbacks]
        /\ unheard' \subseteq Clients
    BY <1>12, <2>1 DEF EndDestroy, TypeOK
  <2>3. then[t] \in {"idle", "check", "later", "hook"} /\ then[t] \in Pcs \ Locked
    BY DEF TypeOK, Pcs
  <2>4. /\ pc' \in [Threads -> Pcs] /\ pc'[t] = then[t]
        /\ \A u \in Threads \ {t} : pc'[u] = pc[u]
    BY <1>12, <2>3, GotoType DEF EndDestroy
  <2>5. /\ at' \in [Threads -> Clients \cup {NoClient}] /\ at'[t] = NoClient
        /\ \A u \in Threads \ {t} : at'[u] = at[u]
    BY <1>12 DEF EndDestroy, TypeOK
  <2>6. \A u \in Threads : pc'[u] \in Locked <=> at'[u] # NoClient
    BY <2>3, <2>4, <2>5 DEF TypeOK
  <2>7. then' \in [Threads -> {"idle", "check", "later", "hook"}]
    BY <1>12 DEF EndDestroy, TypeOK
  <2>8. UNCHANGED <<config, mClient, action, posted, timer, crashed>>
    BY <1>12 DEF EndDestroy
  <2>9. QED
    BY <2>2, <2>4, <2>5, <2>6, <2>7, <2>8 DEF TypeOK
<1>13. ASSUME NEW t \in Threads, CheckClient(t) PROVE TypeOK'
  <2>1. (IF mClient = NoClient THEN "create" ELSE "exists") \in Pcs \ Locked
    BY DEF Pcs
  <2>2. pc' \in [Threads -> Pcs] /\ \A u \in Threads : pc'[u] \in Locked <=> at'[u] # NoClient
    BY <1>13, <2>1, GotoFreeType DEF CheckClient
  <2>3. QED
    BY <1>13, <2>2 DEF CheckClient, TypeOK
<1>14. ASSUME NEW t \in Threads, ClientExists(t) PROVE TypeOK'
  <2>1. pc' \in [Threads -> Pcs] /\ \A u \in Threads : pc'[u] \in Locked <=> at'[u] # NoClient
    <3>1. CASE UNCHANGED pc
      BY <1>14, <3>1 DEF ClientExists, TypeOK
    <3>2. CASE Goto(t, "idle")
      BY <1>14, <3>2, GotoFreeType DEF ClientExists, Pcs
    <3>3. QED
      BY <1>14, <3>1, <3>2 DEF ClientExists
  <2>2. crashed' \in BOOLEAN
    BY <1>14 DEF ClientExists, TypeOK
  <2>3. QED
    BY <1>14, <2>1, <2>2 DEF ClientExists, TypeOK
<1>15. ASSUME NEW t \in Threads, NEW c \in Clients, CreateClient(t, c) PROVE TypeOK'
  <2> DEFINE lives == [life EXCEPT ![c] = "made"]
  <2>1. lives \in [Clients -> Lives] /\ using' \in [Clients -> Configs]
    BY <1>15 DEF CreateClient, TypeOK
  <2>2. "hook" \in Pcs \ Locked
    BY DEF Pcs
  <2>3. /\ life' \in [Clients -> Lives]
        /\ pc' \in [Threads -> Pcs]
        /\ at' \in [Threads -> Clients \cup {NoClient}]
        /\ \A u \in Threads : pc'[u] \in Locked <=> at'[u] # NoClient
        /\ then' \in [Threads -> {"idle", "check", "later", "hook"}]
        /\ action' \in Clients \cup {NoClient}
    <3>1. CASE mClient = NoClient
      <4>1. Goto(t, "hook") /\ life' = lives /\ UNCHANGED <<at, then, action>>
        BY <1>15, <3>1 DEF CreateClient
      <4>2. pc' \in [Threads -> Pcs] /\ \A u \in Threads : pc'[u] \in Locked <=> at'[u] # NoClient
        BY <1>15, <2>2, <4>1, GotoFreeType DEF CreateClient
      <4>3. QED
        BY <2>1, <4>1, <4>2 DEF TypeOK
    <3>2. CASE mClient # NoClient
      <4>1. Drop(t, mClient, "hook", lives) /\ Expire(action)
        BY <1>15, <3>2 DEF CreateClient
      <4>2. mClient \in Clients /\ action \in Clients \cup {NoClient}
        BY <3>2 DEF TypeOK
      <4>3. QED
        BY <2>1, <4>1, <4>2, DropType, ExpireType
    <3>3. QED
      BY <3>1, <3>2
  <2>4. mClient' = c /\ UNCHANGED <<config, rpc, hears, unheard, posted, timer, crashed>>
    BY <1>15 DEF CreateClient
  <2>5. QED
    BY <2>1, <2>3, <2>4 DEF TypeOK
<1>16. ASSUME NEW t \in Threads, StartClient(t) PROVE TypeOK'
  <2>1. pc' \in [Threads -> Pcs] /\ \A u \in Threads : pc'[u] \in Locked <=> at'[u] # NoClient
    <3>1. CASE UNCHANGED pc
      BY <1>16, <3>1 DEF StartClient, TypeOK
    <3>2. CASE Goto(t, "idle")
      BY <1>16, <3>2, GotoFreeType DEF StartClient, Pcs
    <3>3. QED
      BY <1>16, <3>1, <3>2 DEF StartClient
  <2>2. crashed' \in BOOLEAN /\ life' \in [Clients -> Lives]
    BY <1>16 DEF StartClient, TypeOK
  <2>3. QED
    BY <1>16, <2>1, <2>2 DEF StartClient, TypeOK
<1>27. ASSUME NEW t \in Threads, NEW callback \in Callbacks, SetCallback(t, callback)
       PROVE  TypeOK'
  <2>1. After[callback] \in Pcs \ Locked
    BY DEF After, Pcs
  <2>2. pc' \in [Threads -> Pcs] /\ \A u \in Threads : pc'[u] \in Locked <=> at'[u] # NoClient
    <3>1. CASE UNCHANGED pc
      BY <1>27, <3>1 DEF SetCallback, TypeOK
    <3>2. CASE Goto(t, After[callback])
      BY <1>27, <2>1, <3>2, GotoFreeType DEF SetCallback
    <3>3. QED
      BY <1>27, <3>1, <3>2 DEF SetCallback
  <2>3. crashed' \in BOOLEAN
    BY <1>27 DEF SetCallback, TypeOK
  <2>4. hears' \in [Clients -> SUBSET Callbacks]
    BY <1>27 DEF SetCallback, TypeOK
  <2>5. UNCHANGED <<config, mClient, life, rpc, using, unheard, action, posted, timer, at, then>>
    BY <1>27 DEF SetCallback
  <2>6. QED
    BY <2>2, <2>3, <2>4, <2>5 DEF TypeOK
<1>17. ASSUME NEW t \in Threads, ConnectLater(t) PROVE TypeOK'
  <2>1. pc' \in [Threads -> Pcs] /\ \A u \in Threads : pc'[u] \in Locked <=> at'[u] # NoClient
    BY <1>17, GotoFreeType DEF ConnectLater, Pcs
  <2>2. QED
    BY <1>17, <2>1 DEF ConnectLater, ArmTimer, TypeOK
<1>18. ASSUME NEW c \in Clients, NEW s \in States, ClientStep(c, s) PROVE TypeOK'
  <2>1. /\ action' \in {action, mClient} /\ posted' \in [Jobs -> Nat] /\ crashed' \in BOOLEAN
        /\ unheard' \subseteq Clients
    BY <1>18, CallbackType DEF ClientStep
  <2>2. rpc' \in [Clients -> States \cup {"LATE"}]
    BY <1>18 DEF ClientStep, TypeOK
  <2>3. UNCHANGED <<config, mClient, life, using, hears, timer, threads>>
    BY <1>18 DEF ClientStep
  <2>4. QED
    BY <2>1, <2>2, <2>3 DEF TypeOK
<1>19. ASSUME NEW c \in Clients, ClientLate(c) PROVE TypeOK'
  <2>1. /\ action' \in {action, mClient} /\ posted' \in [Jobs -> Nat] /\ crashed' \in BOOLEAN
        /\ unheard' \subseteq Clients
    BY <1>19, CallbackType DEF ClientLate
  <2>2. rpc' \in [Clients -> States \cup {"LATE"}]
    BY <1>19 DEF ClientLate, TypeOK
  <2>3. UNCHANGED <<config, mClient, life, using, hears, timer, threads>>
    BY <1>19 DEF ClientLate
  <2>4. QED
    BY <2>1, <2>2, <2>3 DEF TypeOK
<1>20. ASSUME NEW c \in Clients, ClientWithoutConfig(c) PROVE TypeOK'
  <2>1. crashed' \in BOOLEAN
    BY <1>20 DEF ClientWithoutConfig
  <2>2. rpc' \in [Clients -> States \cup {"LATE"}]
    BY <1>20 DEF ClientWithoutConfig, TypeOK
  <2>3. UNCHANGED <<config, mClient, life, using, hears, unheard, action, posted, timer, threads>>
    BY <1>20 DEF ClientWithoutConfig
  <2>4. QED
    BY <2>1, <2>2, <2>3 DEF TypeOK
<1>21. ASSUME NEW c \in Clients, CredentialsCallback(c) PROVE TypeOK'
  <2>1. config' \in Configs
    BY <1>21 DEF CredentialsCallback, TypeOK
  <2>2. crashed' \in BOOLEAN
    BY <1>21 DEF CredentialsCallback, TypeOK
  <2>3. UNCHANGED <<mClient, clients, action, posted, timer, threads>>
    BY <1>21 DEF CredentialsCallback
  <2>4. QED
    BY <2>1, <2>2, <2>3 DEF TypeOK
<1>22. CASE UNCHANGED vars
  BY <1>22 DEF vars, TypeOK
<1>23. QED
  BY <1>1, <1>2, <1>3, <1>4, <1>5, <1>6, <1>7, <1>8, <1>9, <1>10, <1>11, <1>12, <1>13, <1>14,
     <1>15, <1>16, <1>17, <1>18, <1>19, <1>20, <1>21, <1>22, <1>24, <1>25, <1>26, <1>27
     DEF Next, KeyUp, Proceed, ClientActs

-----------------------------------------------------------------------------
(* Pointers. *)

LEMMA InitPointers == Init => PointerInv
<1> SUFFICES ASSUME Init PROVE PointerInv
  OBVIOUS
<1>1. OwnedInv
  <2> SUFFICES ASSUME NEW c \in Clients PROVE life[c] \notin Alive /\ ~Owned(c)
    BY DEF OwnedInv
  <2>1. life[c] = "free" /\ mClient # c
    BY NoClientAssumption DEF Init
  <2>2. posted[c] = 0
    BY ClientsAreJobs DEF Init
  <2>3. ~(posted[c] > 0)
    BY <2>2
  <2>4. \A t \in Threads : pc[t] # "using"
    BY DEF Init
  <2>5. QED
    BY <2>1, <2>3, <2>4 DEF Owned
<1>2. WeakInv /\ DyingInv /\ DestroyInv
  BY DEF Init, WeakInv, DyingInv, DestroyInv
<1>3. QED
  BY <1>1, <1>2 DEF PointerInv

\* A step that moves no shared pointer: at most the weak one is set to mClient, or
\* expires, and a thread may go from one place of a destructor to the next.
LEMMA PointersUnmoved ==
  ASSUME TypeOK, PointerInv, UNCHANGED <<mClient, life, at>>,
         action' \in {action, mClient, NoClient},
         \A c \in Clients : posted'[c] = posted[c],
         \A t \in Threads : pc'[t] = "using" <=> pc[t] = "using",
         \A t \in Threads : pc'[t] \in Destroying <=> pc[t] \in Destroying
  PROVE  PointerInv'
<1>1. OwnedInv'
  BY DEF PointerInv, OwnedInv, Owned
<1>2. WeakInv'
  <2>1. mClient # NoClient => life[mClient] \in Alive
    BY DEF TypeOK, PointerInv, OwnedInv, Owned
  <2>2. QED
    BY <2>1 DEF PointerInv, WeakInv
<1>3. DyingInv' /\ DestroyInv'
  BY DEF PointerInv, DyingInv, DestroyInv
<1>4. QED
  BY <1>1, <1>2, <1>3 DEF PointerInv

\* The pointers to clients other than c, and their lives, agree as before.
OthersKept(c, lives) ==
  \A d \in Clients \ {c} :
    /\ lives[d] \in Dying <=> life[d] \in Dying
    /\ lives[d] \in Alive <=>
         \/ mClient' = d
         \/ posted'[d] > 0
         \/ \E u \in Threads : at[u] = d /\ pc[u] = "using"

\* Thread t drops its shared pointer to c: a client that is shared still stays in
\* use, and one that is not goes into the destructor of this thread alone.
LEMMA DropPointers ==
  ASSUME TypeOK, PointerInv, NEW t \in Threads, NEW c \in Clients,
         NEW where \in {"idle", "check", "later", "hook"},
         NEW lives \in [Clients -> Lives], Drop(t, c, where, lives),
         posted' \in [Jobs -> Nat],
         life[c] \in Alive, lives[c] \in Alive,
         pc[t] \notin Destroying, at[t] \in {c, NoClient},
         OthersKept(c, lives),
         NEW weak \in Clients \cup {NoClient}, Expire(weak),
         weak # NoClient => lives[weak] \in Alive
  PROVE  PointerInv'
<1> USE ClientsAreJobs, NoClientAssumption
<1>1. CASE Shared(t, c)
  <2>1. /\ pc' = [pc EXCEPT ![t] = where] /\ at' = [at EXCEPT ![t] = NoClient]
        /\ life' = lives
    BY <1>1 DEF Drop, Goto
  <2>2. /\ pc'[t] = where /\ at'[t] = NoClient
        /\ \A u \in Threads \ {t} : pc'[u] = pc[u] /\ at'[u] = at[u]
    BY <2>1 DEF TypeOK
  <2>3. OwnedInv'
    <3>1. Owned(c)'
      BY <1>1, <2>2 DEF Shared, Owned
    <3>2. \A d \in Clients \ {c} : Owned(d)' <=> lives[d] \in Alive
      BY <2>2 DEF Owned, OthersKept
    <3>3. QED
      BY <2>1, <3>1, <3>2 DEF OwnedInv
  <2>4. WeakInv'
    BY <2>1 DEF Expire, WeakInv
  <2>5. DyingInv'
    <3> SUFFICES ASSUME NEW d \in Clients, life'[d] \in Dying
                 PROVE  \E u \in Threads :
                          /\ at'[u] = d /\ pc'[u] \in Destroying
                          /\ \A v \in Threads \ {u} : at'[v] # d
      BY DEF DyingInv
    <3>1. d # c /\ life[d] \in Dying
      BY <2>1 DEF OthersKept
    <3>2. PICK u \in Threads :
            at[u] = d /\ pc[u] \in Destroying /\ \A v \in Threads \ {u} : at[v] # d
      BY <3>1 DEF PointerInv, DyingInv
    <3>3. QED
      BY <2>2, <3>1, <3>2
  <2>6. DestroyInv'
    BY <2>1, <2>2 DEF PointerInv, DestroyInv, TypeOK, OthersKept
  <2>7. QED
    BY <2>3, <2>4, <2>5, <2>6 DEF PointerInv
<1>2. CASE ~Shared(t, c)
  <2>1. /\ pc' = [pc EXCEPT ![t] = "destroy"] /\ at' = [at EXCEPT ![t] = c]
        /\ life' = [lives EXCEPT ![c] = IF lives[c] = "made" THEN "unused" ELSE "dying"]
    BY <1>2 DEF Drop, Destroy, Goto
  <2>2. /\ pc'[t] = "destroy" /\ at'[t] = c
        /\ \A u \in Threads \ {t} : pc'[u] = pc[u] /\ at'[u] = at[u]
        /\ life'[c] \in Dying /\ \A d \in Clients \ {c} : life'[d] = lives[d]
    BY <2>1 DEF TypeOK
  <2>3. OwnedInv'
    <3>1. ~Owned(c)'
      BY <1>2, <2>2 DEF Shared, Owned
    <3>2. \A d \in Clients \ {c} : Owned(d)' <=> lives[d] \in Alive
      BY <2>2 DEF Owned, OthersKept
    <3>3. QED
      BY <2>2, <3>1, <3>2 DEF OwnedInv
  <2>4. WeakInv'
    BY <2>2 DEF Expire, WeakInv
  <2>5. \A u \in Threads \ {t} : at[u] # c
    <3>1. \A u \in Threads \ {t} : at[u] = c => pc[u] \in Locked
      BY DEF TypeOK
    <3>2. \A u \in Threads : at[u] = c => pc[u] \notin Destroying
      BY DEF PointerInv, DestroyInv
    <3>3. QED
      BY <1>2, <3>1, <3>2 DEF Shared
  <2>6. DyingInv'
    <3> SUFFICES ASSUME NEW d \in Clients, life'[d] \in Dying
                 PROVE  \E u \in Threads :
                          /\ at'[u] = d /\ pc'[u] \in Destroying
                          /\ \A v \in Threads \ {u} : at'[v] # d
      BY DEF DyingInv
    <3>1. CASE d = c
      BY <2>2, <2>5, <3>1
    <3>2. CASE d # c
      <4>1. life[d] \in Dying
        BY <2>2, <3>2 DEF OthersKept
      <4>2. PICK u \in Threads :
              at[u] = d /\ pc[u] \in Destroying /\ \A v \in Threads \ {u} : at[v] # d
        BY <4>1 DEF PointerInv, DyingInv
      <4>3. QED
        BY <2>2, <3>2, <4>2
    <3>3. QED
      BY <3>1, <3>2
  <2>7. DestroyInv'
    BY <2>2, <2>5 DEF PointerInv, DestroyInv, TypeOK, OthersKept
  <2>8. QED
    BY <2>3, <2>4, <2>6, <2>7 DEF PointerInv
<1>3. QED
  BY <1>1, <1>2

\* One thread goes on outside destructors and without a shared pointer of its own.
LEMMA GotoPointers ==
  ASSUME TypeOK, PointerInv, NEW t \in Threads, NEW where \in Pcs \ Locked,
         Goto(t, where), pc[t] \notin Locked,
         UNCHANGED <<mClient, life, at, posted>>, action' \in {action, mClient, NoClient}
  PROVE  PointerInv'
<1>1. pc'[t] = where /\ \A u \in Threads \ {t} : pc'[u] = pc[u]
  BY GotoType
<1>2. /\ \A u \in Threads : pc'[u] = "using" <=> pc[u] = "using"
      /\ \A u \in Threads : pc'[u] \in Destroying <=> pc[u] \in Destroying
  BY <1>1
<1>3. QED
  BY <1>2, PointersUnmoved

\* Every step keeps the pointers right.
LEMMA PointerStep ==
  ASSUME TypeOK, TypeOK', PointerInv, [Next]_vars PROVE PointerInv'
<1> USE ClientsAreJobs, NoClientAssumption DEF clients, threads
<1>1. ASSUME NEW k \in Configs, DidReceiveGlobalSettings(k) PROVE PointerInv'
  BY <1>1, GotoPointers DEF DidReceiveGlobalSettings, Idle, Pcs
<1>2. CASE SendToPlugin
  <2>1. \A c \in Clients : posted'[c] = posted[c]
    BY <1>2, PostType DEF SendToPlugin
  <2>2. QED
    BY <1>2, <2>1, PointersUnmoved DEF SendToPlugin
<1>3. CASE BeginKeyUp
  BY <1>3, GotoPointers DEF BeginKeyUp, Idle, Pcs
<1>4. CASE AskState
  <2>1. CASE UNCHANGED pc
    BY <1>4, <2>1, PointersUnmoved DEF AskState
  <2>2. CASE Goto(Loop, "pressed")
    BY <1>4, <2>2, GotoPointers DEF AskState, Pcs
  <2>3. CASE Goto(Loop, "idle")
    BY <1>4, <2>3, GotoPointers DEF AskState, Pcs
  <2>4. QED
    BY <1>4, <2>1, <2>2, <2>3 DEF AskState
<1>5. CASE LockClient
  <2>1. CASE action = NoClient
    <3>1. Goto(Loop, "idle") /\ at' = [at EXCEPT ![Loop] = NoClient] /\ pc[Loop] = "pressed"
      BY <1>5, <2>1 DEF LockClient
    <3>2. at' = at
      BY <3>1 DEF TypeOK
    <3>3. QED
      BY <1>5, <3>1, <3>2, GotoPointers DEF LockClient, Pcs
  <2>2. CASE action # NoClient
    <3>1. /\ pc[Loop] = "pressed" /\ at[Loop] = NoClient
          /\ pc'[Loop] = "using" /\ \A u \in Threads \ {Loop} : pc'[u] = pc[u]
          /\ at'[Loop] = action /\ \A u \in Threads \ {Loop} : at'[u] = at[u]
      BY <1>5, <2>2 DEF LockClient, Goto, TypeOK
    <3>2. UNCHANGED <<mClient, life, action, posted>>
      BY <1>5 DEF LockClient
    <3>3. action \in Clients /\ life[action] \in Alive
      BY <2>2 DEF TypeOK, PointerInv, WeakInv
    <3>4. OwnedInv'
      <4>1. \A c \in Clients : c = action => Owned(c)'
        BY <3>1, ClientsAreJobs DEF Owned
      <4>2. \A c \in Clients : c # action => (Owned(c)' <=> Owned(c))
        BY <3>1, <3>2 DEF Owned
      <4>3. \A c \in Clients : life[c] \in Alive <=> Owned(c)
        BY DEF PointerInv, OwnedInv
      <4>4. \A c \in Clients : life'[c] \in Alive <=> Owned(c)'
        BY <3>2, <3>3, <4>1, <4>2, <4>3
      <4>5. QED
        BY <4>4 DEF OwnedInv
    <3>5. WeakInv' /\ DestroyInv'
      BY <3>1, <3>2 DEF PointerInv, WeakInv, DestroyInv
    <3>6. DyingInv'
      <4> SUFFICES ASSUME NEW d \in Clients, life'[d] \in Dying
                   PROVE  \E u \in Threads :
                            /\ at'[u] = d /\ pc'[u] \in Destroying
                            /\ \A v \in Threads \ {u} : at'[v] # d
        BY DEF DyingInv
      <4>1. PICK u \in Threads :
              at[u] = d /\ pc[u] \in Destroying /\ \A v \in Threads \ {u} : at[v] # d
        BY <3>2 DEF PointerInv, DyingInv
      <4>2. u # Loop /\ action # d
        BY <3>1, <3>2, <3>3, <4>1
      <4>3. QED
        BY <3>1, <4>1, <4>2
    <3>7. QED
      BY <3>4, <3>5, <3>6 DEF PointerInv
  <2>3. QED
    BY <2>1, <2>2
<1>6. CASE EndKeyUp
  <2>1. at[Loop] \in Clients /\ pc[Loop] = "using"
    BY <1>6 DEF EndKeyUp, TypeOK
  <2>2. life[at[Loop]] \in Alive
    BY <2>1 DEF PointerInv, OwnedInv, Owned
  <2>3. /\ Drop(Loop, at[Loop], "idle", life) /\ Expire(action)
        /\ UNCHANGED <<mClient, posted>>
    BY <1>6 DEF EndKeyUp
  <2>4. OthersKept(at[Loop], life)
    BY <2>3 DEF PointerInv, OwnedInv, Owned, OthersKept
  <2>5. /\ life \in [Clients -> Lives] /\ posted' \in [Jobs -> Nat]
        /\ action \in Clients \cup {NoClient}
    BY DEF TypeOK
  <2>6. action # NoClient => life[action] \in Alive
    BY DEF PointerInv, WeakInv
  <2>7. QED
    BY <2>1, <2>2, <2>3, <2>4, <2>5, <2>6, DropPointers
<1>7. CASE WillAppear
  <2>1. CASE UNCHANGED posted
    BY <1>7, <2>1, PointersUnmoved DEF WillAppear
  <2>2. CASE Post(mClient) /\ mClient # NoClient
    <3>1. mClient \in Clients /\ UNCHANGED <<mClient, life, at, pc>> /\ action' = NoClient
      BY <1>7, <2>2 DEF WillAppear, TypeOK
    <3>2. /\ posted'[mClient] = posted[mClient] + 1
          /\ \A c \in Clients \ {mClient} : posted'[c] = posted[c]
      BY <2>2, <3>1, PostType
    <3>3. OwnedInv'
      <4>1. Owned(mClient) /\ Owned(mClient)'
        BY <3>1 DEF Owned
      <4>2. \A c \in Clients \ {mClient} : Owned(c)' <=> Owned(c)
        BY <3>1, <3>2 DEF Owned
      <4>3. QED
        BY <3>1, <4>1, <4>2 DEF PointerInv, OwnedInv
    <3>4. WeakInv' /\ DyingInv' /\ DestroyInv'
      BY <3>1 DEF PointerInv, WeakInv, DyingInv, DestroyInv
    <3>5. QED
      BY <3>3, <3>4 DEF PointerInv
  <2>3. QED
    BY <1>7, <2>1, <2>2 DEF WillAppear
<1>8. CASE TimerFires
  BY <1>8, GotoPointers DEF TimerFires, Idle, Pcs
<1>9. ASSUME NEW t \in Pool, NEW c \in Clients, GiveClient(t, c) PROVE PointerInv'
  <2>1. t \in Threads /\ c \in Jobs
    BY DEF Threads, Jobs
  <2>2. /\ posted' \in [Jobs -> Nat] /\ posted[c] > 0 /\ pc[t] = "idle"
        /\ \A d \in Clients \ {c} : posted'[d] = posted[d]
    BY <1>9, <2>1, TakeType DEF GiveClient
  <2>3. life[c] \in Alive
    BY <2>2 DEF PointerInv, OwnedInv, Owned
  <2>4. at[t] = NoClient
    BY <2>1, <2>2 DEF TypeOK
  <2>5. Drop(t, c, "idle", life) /\ Expire(c) /\ mClient' = mClient
    BY <1>9 DEF GiveClient
  <2>6. OthersKept(c, life)
    BY <2>2, <2>5 DEF PointerInv, OwnedInv, Owned, OthersKept
  <2>7. life \in [Clients -> Lives]
    BY DEF TypeOK
  <2>8. QED
    BY <2>1, <2>2, <2>3, <2>4, <2>5, <2>6, <2>7, DropPointers
<1>10. ASSUME NEW t \in Pool, NEW job \in {"reconnect", "later"}, ResetClient(t, job)
       PROVE  PointerInv'
  <2> DEFINE where == IF job = "later" THEN "later" ELSE "check"
  <2>1. t \in Threads /\ job \in Jobs
    BY DEF Threads, Jobs
  <2>2. /\ posted' \in [Jobs -> Nat] /\ pc[t] = "idle"
        /\ \A d \in Clients : posted'[d] = posted[d]
    BY <1>10, <2>1, TakeType DEF ResetClient
  <2>3. where \in {"idle", "check", "later", "hook"} /\ where \in Pcs \ Locked
    BY DEF Pcs
  <2>4. CASE mClient = NoClient
    <3>1. Goto(t, where) /\ UNCHANGED <<mClient, life, at, action>>
      BY <1>10, <2>4 DEF ResetClient
    <3>2. pc'[t] = where /\ \A u \in Threads \ {t} : pc'[u] = pc[u]
      BY <2>1, <2>3, <3>1, GotoType
    <3>3. /\ \A u \in Threads : pc'[u] = "using" <=> pc[u] = "using"
          /\ \A u \in Threads : pc'[u] \in Destroying <=> pc[u] \in Destroying
      BY <2>2, <2>3, <3>2
    <3>4. QED
      BY <2>2, <3>1, <3>3, PointersUnmoved
  <2>5. CASE mClient # NoClient
    <3>1. PICK c \in Clients : c = mClient
      BY <2>5 DEF TypeOK
    <3>2. life[c] \in Alive
      BY <3>1 DEF PointerInv, OwnedInv, Owned
    <3>3. PICK w \in {"idle", "check", "later", "hook"} : Drop(t, c, w, life)
      BY <1>10, <2>3, <2>5, <3>1 DEF ResetClient
    <3>4. Expire(action) /\ mClient' = NoClient
      BY <1>10, <2>5 DEF ResetClient
    <3>5. OthersKept(c, life)
      BY <2>2, <3>1, <3>4 DEF PointerInv, OwnedInv, Owned, OthersKept
    <3>6. life \in [Clients -> Lives] /\ action \in Clients \cup {NoClient}
      BY DEF TypeOK
    <3>7. action # NoClient => life[action] \in Alive
      BY DEF PointerInv, WeakInv
    <3>8. pc[t] \notin Destroying /\ at[t] = NoClient
      BY <2>1, <2>2 DEF TypeOK
    <3> HIDE DEF where
    <3>9. QED
      BY <2>1, <2>2, <3>2, <3>3, <3>4, <3>5, <3>6, <3>7, <3>8, DropPointers
  <2>6. QED
    BY <2>4, <2>5
<1>11. ASSUME NEW t \in Threads, CloseDying(t) PROVE PointerInv'
  <2> DEFINE where == IF rpc[at[t]] \in Online THEN "tell" ELSE "await"
  <2>1. where \in Pcs /\ where \in Destroying
    BY DEF Pcs
  <2>2. /\ pc[t] \in Destroying /\ pc'[t] = where
        /\ \A u \in Threads \ {t} : pc'[u] = pc[u]
    BY <1>11, <2>1, GotoType DEF CloseDying
  <2> HIDE DEF where
  <2>3. /\ \A u \in Threads : pc'[u] = "using" <=> pc[u] = "using"
        /\ \A u \in Threads : pc'[u] \in Destroying <=> pc[u] \in Destroying
    BY <2>1, <2>2
  <2>4. UNCHANGED <<mClient, life, at, action>>
    BY <1>11 DEF CloseDying
  <2>5. \A d \in Clients : posted'[d] = posted[d]
    BY <1>11 DEF CloseDying
  <2>6. QED
    BY <2>3, <2>4, <2>5, PointersUnmoved
<1>24. ASSUME NEW t \in Threads, TellDying(t) PROVE PointerInv'
  <2> DEFINE where == IF rpc[at[t]] \in Online THEN "told" ELSE "await"
  <2>1. where \in Pcs /\ where \in Destroying
    BY DEF Pcs
  <2>2. /\ pc[t] \in Destroying /\ pc'[t] = where
        /\ \A u \in Threads \ {t} : pc'[u] = pc[u]
    BY <1>24, <2>1, GotoType DEF TellDying
  <2> HIDE DEF where
  <2>3. /\ \A u \in Threads : pc'[u] = "using" <=> pc[u] = "using"
        /\ \A u \in Threads : pc'[u] \in Destroying <=> pc[u] \in Destroying
    BY <2>1, <2>2
  <2>4. UNCHANGED <<mClient, life, at, action>>
    BY <1>24 DEF TellDying
  <2>5. \A d \in Clients : posted'[d] = posted[d]
    <3>1. at[t] \in Clients
      BY <2>2 DEF TypeOK
    <3>2. CASE Fail(at[t], "reconnect")
      BY <3>1, <3>2, FailType
    <3>3. CASE UNCHANGED posted
      BY <3>3
    <3>4. QED
      BY <1>24, <3>2, <3>3 DEF TellDying, Disconnected
  <2>6. QED
    BY <2>3, <2>4, <2>5, PointersUnmoved
<1>25. ASSUME NEW t \in Threads, ClearDying(t) PROVE PointerInv'
  <2> DEFINE where == "await"
  <2>1. where \in Pcs /\ where \in Destroying
    BY DEF Pcs
  <2>2. /\ pc[t] \in Destroying /\ pc'[t] = where
        /\ \A u \in Threads \ {t} : pc'[u] = pc[u]
    BY <1>25, <2>1, GotoType DEF ClearDying
  <2> HIDE DEF where
  <2>3. /\ \A u \in Threads : pc'[u] = "using" <=> pc[u] = "using"
        /\ \A u \in Threads : pc'[u] \in Destroying <=> pc[u] \in Destroying
    BY <2>1, <2>2
  <2>4. UNCHANGED <<mClient, life, at, action>>
    BY <1>25 DEF ClearDying
  <2>5. \A d \in Clients : posted'[d] = posted[d]
    BY <1>25 DEF ClearDying
  <2>6. QED
    BY <2>3, <2>4, <2>5, PointersUnmoved
<1>26. ASSUME NEW c \in Clients, NEW t \in Threads, ClientAgain(t, c) PROVE PointerInv'
  <2> DEFINE where == "await"
  <2>1. where \in Pcs /\ where \in Destroying
    BY DEF Pcs
  <2>2. /\ pc[t] \in Destroying /\ pc'[t] = where
        /\ \A u \in Threads \ {t} : pc'[u] = pc[u]
    BY <1>26, <2>1, GotoType DEF ClientAgain
  <2> HIDE DEF where
  <2>3. /\ \A u \in Threads : pc'[u] = "using" <=> pc[u] = "using"
        /\ \A u \in Threads : pc'[u] \in Destroying <=> pc[u] \in Destroying
    BY <2>1, <2>2
  <2>4. UNCHANGED <<mClient, life, at, action>>
    BY <1>26 DEF ClientAgain
  <2>5. \A d \in Clients : posted'[d] = posted[d]
    BY <1>26, FailType DEF ClientAgain, Disconnected
  <2>6. QED
    BY <2>3, <2>4, <2>5, PointersUnmoved
<1>12. ASSUME NEW t \in Threads, EndDestroy(t) PROVE PointerInv'
  <2> DEFINE c == at[t]
  <2>1. c \in Clients /\ pc[t] = "await" /\ life[c] \in Dying
    BY <1>12 DEF EndDestroy, TypeOK, PointerInv, DestroyInv
  <2>2. /\ pc'[t] \notin Locked /\ at'[t] = NoClient
        /\ \A u \in Threads \ {t} : pc'[u] = pc[u] /\ at'[u] = at[u]
    BY <1>12 DEF EndDestroy, Goto, TypeOK
  <2>3. /\ life'[c] = "free" /\ \A d \in Clients \ {c} : life'[d] = life[d]
        /\ UNCHANGED <<mClient, action, posted>>
    BY <1>12, <2>1 DEF EndDestroy, TypeOK
  <2>4. \A u \in Threads \ {t} : at[u] # c
    <3>1. PICK v \in Threads : at[v] = c /\ \A u \in Threads \ {v} : at[u] # c
      BY <2>1 DEF PointerInv, DyingInv
    <3>2. QED
      BY <3>1
  <2>5. ~Owned(c)
    BY <2>1 DEF PointerInv, OwnedInv
  <2>6. OwnedInv'
    <3>1. \A d \in Clients : Owned(d)' <=> Owned(d)
      BY <2>1, <2>2, <2>3 DEF Owned
    <3>2. QED
      BY <2>3, <2>5, <3>1 DEF PointerInv, OwnedInv
  <2>7. WeakInv'
    BY <2>1, <2>3 DEF PointerInv, WeakInv, TypeOK
  <2>8. DyingInv'
    <3> SUFFICES ASSUME NEW d \in Clients, life'[d] \in Dying
                 PROVE  \E u \in Threads :
                          /\ at'[u] = d /\ pc'[u] \in Destroying
                          /\ \A v \in Threads \ {u} : at'[v] # d
      BY DEF DyingInv
    <3>1. d # c /\ life[d] \in Dying
      BY <2>3
    <3>2. PICK u \in Threads :
            at[u] = d /\ pc[u] \in Destroying /\ \A v \in Threads \ {u} : at[v] # d
      BY <3>1 DEF PointerInv, DyingInv
    <3>3. u # t
      BY <3>1, <3>2
    <3>4. QED
      BY <2>2, <3>2, <3>3
  <2>9. DestroyInv'
    BY <2>2, <2>3, <2>4 DEF PointerInv, DestroyInv, TypeOK
  <2>10. QED
    BY <2>6, <2>7, <2>8, <2>9 DEF PointerInv
<1>13. ASSUME NEW t \in Threads, CheckClient(t) PROVE PointerInv'
  <2>1. (IF mClient = NoClient THEN "create" ELSE "exists") \in Pcs \ Locked
    BY DEF Pcs
  <2>2. QED
    BY <1>13, <2>1, GotoPointers DEF CheckClient
<1>14. ASSUME NEW t \in Threads, ClientExists(t) PROVE PointerInv'
  <2>1. CASE UNCHANGED pc
    BY <1>14, <2>1, PointersUnmoved DEF ClientExists
  <2>2. CASE Goto(t, "idle")
    BY <1>14, <2>2, GotoPointers DEF ClientExists, Pcs
  <2>3. QED
    BY <1>14, <2>1, <2>2 DEF ClientExists
<1>15. ASSUME NEW t \in Threads, NEW c \in Clients, CreateClient(t, c) PROVE PointerInv'
  <2> DEFINE lives == [life EXCEPT ![c] = "made"]
  <2>1. /\ lives \in [Clients -> Lives] /\ lives[c] = "made" /\ life[c] = "free"
        /\ \A d \in Clients \ {c} : lives[d] = life[d]
    BY <1>15 DEF CreateClient, TypeOK
  <2>2. mClient' = c /\ pc[t] = "create" /\ at[t] = NoClient /\ UNCHANGED posted
    BY <1>15 DEF CreateClient, TypeOK
  <2>3. ~Owned(c) /\ mClient # c /\ action # c
    BY <2>1 DEF PointerInv, OwnedInv, WeakInv, Owned
  <2>4. CASE mClient = NoClient
    <3>1. Goto(t, "hook") /\ life' = lives /\ UNCHANGED <<at, action>>
      BY <1>15, <2>4 DEF CreateClient
    <3>2. pc'[t] = "hook" /\ \A u \in Threads \ {t} : pc'[u] = pc[u]
      BY <3>1, GotoType DEF Pcs
    <3>3. /\ \A u \in Threads : pc'[u] = "using" <=> pc[u] = "using"
          /\ \A u \in Threads : pc'[u] \in Destroying <=> pc[u] \in Destroying
      BY <2>2, <3>2
    <3>4. OwnedInv'
      <4>1. Owned(c)'
        BY <2>2 DEF Owned
      <4>2. \A d \in Clients \ {c} : Owned(d)' <=> Owned(d)
        BY <2>2, <2>4, <3>1, <3>3 DEF Owned
      <4>3. QED
        BY <2>1, <3>1, <4>1, <4>2 DEF PointerInv, OwnedInv
    <3>5. WeakInv'
      BY <2>1, <2>3, <3>1 DEF PointerInv, WeakInv, TypeOK
    <3>6. DyingInv'
      BY <2>1, <3>1, <3>3 DEF PointerInv, DyingInv
    <3>7. DestroyInv'
      BY <2>1, <3>1, <3>3 DEF PointerInv, DestroyInv, TypeOK
    <3>8. QED
      BY <3>4, <3>5, <3>6, <3>7 DEF PointerInv
  <2>5. CASE mClient # NoClient
    <3>1. mClient \in Clients
      BY <2>5 DEF TypeOK
    <3>2. life[mClient] \in Alive /\ lives[mClient] \in Alive
      BY <2>1, <2>3, <3>1 DEF PointerInv, OwnedInv, Owned
    <3>3. Drop(t, mClient, "hook", lives) /\ Expire(action)
      BY <1>15, <2>5 DEF CreateClient
    <3>4. OthersKept(mClient, lives)
      BY <2>1, <2>2 DEF PointerInv, OwnedInv, Owned, OthersKept
    <3>5. action \in Clients \cup {NoClient} /\ posted' \in [Jobs -> Nat]
      BY <2>2 DEF TypeOK
    <3>6. action # NoClient => lives[action] \in Alive
      BY <2>1, <2>3, <3>5 DEF PointerInv, WeakInv
    <3>7. QED
      BY <2>1, <2>2, <3>1, <3>2, <3>3, <3>4, <3>5, <3>6, DropPointers
  <2>6. QED
    BY <2>4, <2>5
<1>16. ASSUME NEW t \in Threads, StartClient(t) PROVE PointerInv'
  <2>1. CASE mClient = NoClient
    BY <1>16, <2>1, PointersUnmoved DEF StartClient
  <2>2. CASE mClient # NoClient
    <3>1. mClient \in Clients
      BY <2>2 DEF TypeOK
    <3>2. life[mClient] \in Alive
      BY <3>1 DEF PointerInv, OwnedInv, Owned
    <3>3. /\ life'[mClient] \in Alive
          /\ \A d \in Clients \ {mClient} : life'[d] = life[d]
      BY <1>16, <2>2, <3>1 DEF StartClient, TypeOK
    <3>4. Goto(t, "idle") /\ pc[t] = "start" /\ UNCHANGED <<mClient, action, posted, at>>
      BY <1>16, <2>2 DEF StartClient
    <3>5. pc'[t] = "idle" /\ \A u \in Threads \ {t} : pc'[u] = pc[u]
      BY <3>4, GotoType DEF Pcs
    <3>6. /\ \A u \in Threads : pc'[u] = "using" <=> pc[u] = "using"
          /\ \A u \in Threads : pc'[u] \in Destroying <=> pc[u] \in Destroying
      BY <3>4, <3>5
    <3>7. OwnedInv'
      <4>1. \A d \in Clients : Owned(d)' <=> Owned(d)
        BY <3>4, <3>6 DEF Owned
      <4>2. QED
        BY <3>2, <3>3, <4>1 DEF PointerInv, OwnedInv
    <3>8. WeakInv'
      BY <3>3, <3>4 DEF PointerInv, WeakInv, TypeOK
    <3>9. \A d \in Clients : life'[d] \in Dying <=> life[d] \in Dying
      BY <3>2, <3>3
    <3>10. DyingInv' /\ DestroyInv'
      <4>1. \A u \in Threads : pc[u] \in Destroying => at[u] \in Clients
        BY DEF TypeOK
      <4>2. QED
        BY <3>4, <3>6, <3>9, <4>1 DEF PointerInv, DyingInv, DestroyInv
    <3>11. QED
      BY <3>7, <3>8, <3>10 DEF PointerInv
  <2>3. QED
    BY <2>1, <2>2
<1>27. ASSUME NEW t \in Threads, NEW callback \in Callbacks, SetCallback(t, callback)
       PROVE  PointerInv'
  <2>1. CASE UNCHANGED pc
    BY <1>27, <2>1, PointersUnmoved DEF SetCallback
  <2>2. CASE Goto(t, After[callback])
    <3>1. After[callback] \in Pcs \ Locked
      BY DEF After, Pcs
    <3>2. QED
      BY <1>27, <2>2, <3>1, GotoPointers DEF SetCallback
  <2>3. QED
    BY <1>27, <2>1, <2>2 DEF SetCallback
<1>17. ASSUME NEW t \in Threads, ConnectLater(t) PROVE PointerInv'
  BY <1>17, GotoPointers DEF ConnectLater, Pcs
<1>18. ASSUME NEW c \in Clients, NEW s \in States, ClientStep(c, s) PROVE PointerInv'
  <2>1. action' \in {action, mClient} /\ \A d \in Clients : posted'[d] = posted[d]
    BY <1>18, CallbackType DEF ClientStep
  <2>2. UNCHANGED <<mClient, life, at, pc>>
    BY <1>18 DEF ClientStep
  <2>3. QED
    BY <2>1, <2>2, PointersUnmoved
<1>19. ASSUME NEW c \in Clients, ClientLate(c) PROVE PointerInv'
  <2>1. action' \in {action, mClient} /\ \A d \in Clients : posted'[d] = posted[d]
    BY <1>19, CallbackType DEF ClientLate
  <2>2. UNCHANGED <<mClient, life, at, pc>>
    BY <1>19 DEF ClientLate
  <2>3. QED
    BY <2>1, <2>2, PointersUnmoved
<1>20. ASSUME NEW c \in Clients, ClientWithoutConfig(c) PROVE PointerInv'
  BY <1>20, PointersUnmoved DEF ClientWithoutConfig
<1>21. ASSUME NEW c \in Clients, CredentialsCallback(c) PROVE PointerInv'
  BY <1>21, PointersUnmoved DEF CredentialsCallback
<1>22. CASE UNCHANGED vars
  BY <1>22, PointersUnmoved DEF vars
<1>23. QED
  BY <1>1, <1>2, <1>3, <1>4, <1>5, <1>6, <1>7, <1>8, <1>9, <1>10, <1>11, <1>12, <1>13, <1>14,
     <1>15, <1>16, <1>17, <1>18, <1>19, <1>20, <1>21, <1>22, <1>24, <1>25, <1>26, <1>27
     DEF Next, KeyUp, Proceed, ClientActs

-----------------------------------------------------------------------------
(* What follows the failure of a client. *)

LEMMA FollowMeans == FollowInv => FailureIsFollowedUp
<1> SUFFICES ASSUME FollowInv PROVE FailureIsFollowedUp
  OBVIOUS
<1>1. \A c \in Clients :
        mClient = c /\ rpc[c] \in Lost \cup {"CONNECTION_FAILED"} /\ c \notin unheard
          => \E job \in {"reconnect", "later"} : posted[job] > 0
  BY DEF FollowInv, ResetInv, ResetWaits, Failed
<1>2. \A c \in Clients : mClient = c /\ "hook" \notin hears[c] => \E t \in Threads : Hooks(t)
  BY DEF FollowInv, HookInv
<1>3. config # NoConfig /\ mClient = NoClient => timer \/ \E t \in Threads : Replaces(t)
  BY DEF FollowInv, ReplaceInv
<1>4. QED
  BY <1>1, <1>2, <1>3 DEF FailureIsFollowedUp

LEMMA InitFollow == Init => FollowInv
<1> SUFFICES ASSUME Init PROVE FollowInv
  OBVIOUS
<1>1. FreeInv /\ ResetInv /\ HookInv
  BY NoClientAssumption DEF Init, FreeInv, ResetInv, HookInv
<1>2. ReplaceInv
  BY DEF Init, ReplaceInv
<1>3. QED
  BY <1>1, <1>2 DEF FollowInv

\* Posting a task keeps those that wait.
LEMMA PostWaits ==
  ASSUME TypeOK, NEW job \in {"reconnect", "later"}, Post(job) PROVE ResetWaits'
<1>1. posted'[job] = posted[job] + 1 /\ posted[job] \in Nat
  BY PostType, ClientsAreJobs DEF TypeOK
<1>2. posted'[job] > 0
  BY <1>1
<1>3. QED
  BY <1>2 DEF ResetWaits

\* A failure posts the task that resets the client, or goes unheard.
LEMMA FailPosts ==
  ASSUME TypeOK, NEW c \in Clients, NEW job \in {"reconnect", "later"}, Fail(c, job)
  PROVE  /\ ResetWaits' \/ c \in unheard'
         /\ ResetWaits => ResetWaits'
         /\ unheard \subseteq unheard'
<1>1. CASE "hook" \in hears[c]
  <2>1. Post(job) /\ unheard' = unheard
    BY <1>1 DEF Fail
  <2>2. QED
    BY <2>1, PostWaits
<1>2. CASE "hook" \notin hears[c]
  <2>1. unheard' = unheard \cup {c} /\ posted' = posted
    BY <1>2 DEF Fail
  <2>2. QED
    BY <2>1 DEF ResetWaits
<1>3. QED
  BY <1>1, <1>2

\* A step leaves the plugin's client, its settings and the timer, and takes no
\* thread off its way to a new client.
LEMMA ReplaceKept ==
  ASSUME ReplaceInv, UNCHANGED <<config, mClient>>, timer => timer',
         \A u \in Threads : Replaces(u) => Replaces(u)'
  PROVE  ReplaceInv'
BY DEF ReplaceInv

\* A step leaves the plugin's client and its callback, and takes no thread off
\* its way to set that.
LEMMA HookKept ==
  ASSUME HookInv, UNCHANGED mClient,
         \A c \in Clients : mClient = c /\ "hook" \in hears[c] => "hook" \in hears'[c],
         \A u \in Threads : Hooks(u) => Hooks(u)'
  PROVE  HookInv'
BY DEF HookInv

\* A thread that was not on its way moves; the others stay.
LEMMA OthersBusy ==
  ASSUME NEW t \in Threads, ~Busy(t),
         \A u \in Threads \ {t} : pc'[u] = pc[u] /\ then'[u] = then[u]
  PROVE  \A u \in Threads : (Replaces(u) => Replaces(u)') /\ (Hooks(u) => Hooks(u)')
BY DEF Busy, Replaces, Hooks

\* A thread that drops a pointer goes where it says, perhaps after a destructor.
LEMMA DropFollows ==
  ASSUME TypeOK, NEW t \in Threads, NEW c \in Clients,
         NEW where \in {"idle", "check", "later", "hook"},
         NEW lives \in [Clients -> Lives], Drop(t, c, where, lives)
  PROVE  /\ \A u \in Threads \ {t} : pc'[u] = pc[u] /\ then'[u] = then[u]
         /\ where \in {"check", "later"} => Replaces(t)'
         /\ where = "hook" => Hooks(t)'
         /\ \A d \in Clients : life'[d] = "free" => lives[d] = "free"
<1> USE DEF TypeOK
<1>1. CASE Shared(t, c)
  <2>1. pc' = [pc EXCEPT ![t] = where] /\ life' = lives /\ then' = then
    BY <1>1 DEF Drop, Goto
  <2>2. QED
    BY <2>1 DEF Replaces, Hooks
<1>2. CASE ~Shared(t, c)
  <2>1. Destroy(t, c, where, lives)
    BY <1>2 DEF Drop
  <2>2. /\ pc' = [pc EXCEPT ![t] = "destroy"] /\ then' = [then EXCEPT ![t] = where]
        /\ life' = [lives EXCEPT ![c] = IF @ = "made" THEN "unused" ELSE "dying"]
    BY <2>1 DEF Destroy, Goto
  <2>3. QED
    BY <2>2 DEF Replaces, Hooks
<1>3. QED
  BY <1>1, <1>2

\* A failed client's report posts the task that resets it or goes unheard, and
\* leaves the rest.
LEMMA CallbackPosts ==
  ASSUME TypeOK, NEW c \in Clients, NEW s, StateCallback(c, s)
  PROVE  /\ s \in {"DISCONNECTED", "CONNECTION_FAILED"} => ResetWaits' \/ c \in unheard'
         /\ ResetWaits => ResetWaits'
         /\ unheard \subseteq unheard'
<1>1. CASE s = "CONNECTION_FAILED"
  <2>1. Fail(c, "later")
    BY <1>1 DEF StateCallback
  <2>2. QED
    BY <2>1, FailPosts
<1>2. CASE s = "DISCONNECTED"
  <2>1. Fail(c, "reconnect")
    BY <1>2 DEF StateCallback, Disconnected
  <2>2. QED
    BY <2>1, FailPosts
<1>3. CASE s \notin {"CONNECTION_FAILED", "DISCONNECTED"}
  <2>1. posted' = posted /\ unheard' = unheard
    BY <1>3 DEF StateCallback
  <2>2. QED
    BY <1>3, <2>1 DEF ResetWaits
<1>4. QED
  BY <1>1, <1>2, <1>3

\* A client's state changes, its failure posts a task or goes unheard, and the
\* other clients' threads stay on their way.
LEMMA StateFollows ==
  ASSUME TypeOK, FollowInv, NEW c \in Clients, life[c] # "free",
         rpc'[c] \in Failed /\ mClient = c => ResetWaits' \/ c \in unheard' \cup unheard
                                                 \/ rpc[c] \in Failed,
         \A d \in Clients \ {c} : rpc'[d] = rpc[d],
         UNCHANGED <<config, mClient, life, hears, timer>>,
         ResetWaits => ResetWaits', unheard \subseteq unheard',
         \A u \in Threads : (Replaces(u) => Replaces(u)') /\ (Hooks(u) => Hooks(u)')
  PROVE  FollowInv'
<1>1. FreeInv'
  BY DEF FollowInv, FreeInv
<1>2. ResetInv'
  <2> SUFFICES ASSUME NEW d \in Clients, mClient' = d, rpc'[d] \in Failed, d \notin unheard'
               PROVE  ResetWaits'
    BY DEF ResetInv, Failed, Lost
  <2>1. CASE d = c
    <3>1. mClient = c /\ c \notin unheard /\ (ResetWaits' \/ rpc[c] \in Failed)
      BY <2>1
    <3>2. QED
      BY <3>1 DEF FollowInv, ResetInv
  <2>2. CASE d # c
    BY <2>2 DEF FollowInv, ResetInv
  <2>3. QED
    BY <2>1, <2>2
<1>3. ReplaceInv'
  BY ReplaceKept DEF FollowInv
<1>4. HookInv'
  BY HookKept DEF FollowInv
<1>5. QED
  BY <1>1, <1>2, <1>3, <1>4 DEF FollowInv

\* A client's own report changes nothing else the invariant speaks of.
LEMMA ReportFollows ==
  ASSUME TypeOK, FollowInv, NEW c \in Clients, Acts(c), NEW s \in States \cup {"LATE"},
         rpc' = [rpc EXCEPT ![c] = s],
         UNCHANGED <<config, mClient, life, hears, timer, threads>>,
         ResetWaits => ResetWaits', unheard \subseteq unheard',
         s \in Failed => ResetWaits' \/ c \in unheard' \/ rpc[c] \in Failed
  PROVE  FollowInv'
<1>1. /\ rpc'[c] = s /\ \A d \in Clients \ {c} : rpc'[d] = rpc[d]
  BY DEF TypeOK
<1>2. \A u \in Threads : (Replaces(u) => Replaces(u)') /\ (Hooks(u) => Hooks(u)')
  BY DEF Replaces, Hooks, threads
<1>3. life[c] # "free"
  BY DEF Acts
<1>4. QED
  BY <1>1, <1>2, <1>3, StateFollows

\* A thread goes on without a client being reset, made or changed.
LEMMA MoveFollows ==
  ASSUME TypeOK, FollowInv, NEW t \in Threads, ~Busy(t),
         \A u \in Threads \ {t} : pc'[u] = pc[u] /\ then'[u] = then[u],
         UNCHANGED <<config, mClient, rpc, hears, unheard>>, timer => timer',
         \A c \in Clients : life'[c] = "free" => life[c] = "free",
         ResetWaits => ResetWaits'
  PROVE  FollowInv'
<1>1. FreeInv'
  BY DEF FollowInv, FreeInv
<1>2. ResetInv'
  BY DEF FollowInv, ResetInv
<1>3. ReplaceInv' /\ HookInv'
  BY OthersBusy, ReplaceKept, HookKept DEF FollowInv
<1>4. QED
  BY <1>1, <1>2, <1>3 DEF FollowInv

\* As MoveFollows, where no task is posted or taken either.
LEMMA StillFollows ==
  ASSUME TypeOK, FollowInv, NEW t \in Threads, ~Busy(t),
         \A u \in Threads \ {t} : pc'[u] = pc[u],
         UNCHANGED <<config, mClient, clients, posted, timer, then>>
  PROVE  FollowInv'
<1>1. ResetWaits => ResetWaits'
  BY DEF ResetWaits
<1>2. QED
  BY <1>1, MoveFollows DEF clients

\* A thread inside ~DiscordClient goes on there.
LEMMA DyingFollows ==
  ASSUME TypeOK, PointerInv, FollowInv, NEW t \in Threads,
         pc[t] \in Destroying, pc'[t] \in Destroying,
         \A u \in Threads \ {t} : pc'[u] = pc[u],
         \A d \in Clients \ {at[t]} : rpc'[d] = rpc[d],
         UNCHANGED <<config, mClient, life, hears, timer, then>>,
         ResetWaits => ResetWaits', unheard \subseteq unheard'
  PROVE  FollowInv'
<1>1. at[t] \in Clients /\ life[at[t]] \in Dying
  BY DEF TypeOK, PointerInv, DestroyInv
<1>2. mClient # at[t]
  BY <1>1 DEF PointerInv, OwnedInv, Owned
<1>3. \A u \in Threads : (Replaces(u) => Replaces(u)') /\ (Hooks(u) => Hooks(u)')
  BY DEF Replaces, Hooks
<1>4. life[at[t]] # "free"
  BY <1>1
<1>5. QED
  BY <1>1, <1>2, <1>3, <1>4, StateFollows

\* LATE is not a state of the client's own, see Coarse.
LEMMA StatesKnown == "LATE" \notin States
BY DEF States, Machine!CoarseStates, Machine!Coarse, Machine!RpcStates, Machine!Online

\* Whatever the step, a failure of the plugin's client is followed up.
LEMMA FollowStep ==
  ASSUME TypeOK, PointerInv, FollowInv, [Next]_vars PROVE FollowInv'
<1> USE ClientsAreJobs DEF clients, threads
<1>1. ASSUME NEW k \in Configs, DidReceiveGlobalSettings(k) PROVE FollowInv'
  <2>1. pc[Loop] = "idle" /\ pc'[Loop] = "check"
    BY <1>1, GotoType DEF DidReceiveGlobalSettings, Idle, Pcs
  <2>2. FreeInv' /\ ResetInv'
    BY <1>1 DEF DidReceiveGlobalSettings, FollowInv, FreeInv, ResetInv, ResetWaits
  <2>3. ReplaceInv'
    BY <2>1 DEF ReplaceInv, Replaces
  <2>4. HookInv'
    <3>1. \A u \in Threads \ {Loop} : pc'[u] = pc[u]
      BY <1>1, GotoType DEF DidReceiveGlobalSettings, Pcs
    <3>2. \A u \in Threads : Hooks(u) => Hooks(u)'
      BY <1>1, <2>1, <3>1 DEF DidReceiveGlobalSettings, Hooks
    <3>3. QED
      BY <1>1, <3>2, HookKept DEF DidReceiveGlobalSettings, FollowInv
  <2>5. QED
    BY <2>2, <2>3, <2>4 DEF FollowInv
<1>2. CASE SendToPlugin
  <2>1. pc[Loop] = "idle" /\ UNCHANGED <<config, mClient, clients, timer, threads>>
    BY <1>2 DEF SendToPlugin, Idle
  <2>2. Post("reconnect")
    BY <1>2 DEF SendToPlugin
  <2>3. ResetWaits => ResetWaits'
    BY <2>2, PostWaits
  <2>4. ~Busy(Loop)
    BY <2>1 DEF Busy, Replaces, Hooks
  <2>5. QED
    BY <2>1, <2>3, <2>4, MoveFollows
<1>3. CASE BeginKeyUp
  <2>1. /\ ~Busy(Loop) /\ \A u \in Threads \ {Loop} : pc'[u] = pc[u]
    BY <1>3, GotoType DEF BeginKeyUp, Idle, Busy, Replaces, Hooks, Pcs
  <2>2. UNCHANGED <<config, mClient, clients, posted, timer, then>>
    BY <1>3 DEF BeginKeyUp
  <2>3. QED
    BY <2>1, <2>2, StillFollows
<1>4. CASE AskState
  <2>1. ~Busy(Loop)
    BY <1>4 DEF AskState, Busy, Replaces, Hooks
  <2>2. \A u \in Threads \ {Loop} : pc'[u] = pc[u]
    BY <1>4, GotoType DEF AskState, Pcs
  <2>3. UNCHANGED <<config, mClient, clients, posted, timer, then>>
    BY <1>4 DEF AskState
  <2>4. QED
    BY <2>1, <2>2, <2>3, StillFollows
<1>5. CASE LockClient
  <2>1. ~Busy(Loop) /\ \A u \in Threads \ {Loop} : pc'[u] = pc[u]
    BY <1>5 DEF LockClient, Goto, Busy, Replaces, Hooks, TypeOK
  <2>2. UNCHANGED <<config, mClient, clients, posted, timer, then>>
    BY <1>5 DEF LockClient
  <2>3. QED
    BY <2>1, <2>2, StillFollows
<1>6. CASE EndKeyUp
  <2>1. /\ at[Loop] \in Clients /\ life \in [Clients -> Lives] /\ ~Busy(Loop)
        /\ Drop(Loop, at[Loop], "idle", life)
    BY <1>6 DEF EndKeyUp, TypeOK, Busy, Replaces, Hooks
  <2>2. /\ \A u \in Threads \ {Loop} : pc'[u] = pc[u] /\ then'[u] = then[u]
        /\ \A d \in Clients : life'[d] = "free" => life[d] = "free"
    BY <2>1, DropFollows
  <2>3. UNCHANGED <<config, mClient, rpc, hears, unheard, posted, timer>>
    BY <1>6 DEF EndKeyUp
  <2>4. ResetWaits => ResetWaits'
    BY <2>3 DEF ResetWaits
  <2>5. QED
    BY <2>1, <2>2, <2>3, <2>4, MoveFollows
<1>7. CASE WillAppear
  <2>1. /\ ~Busy(Loop) /\ UNCHANGED <<config, mClient, clients, timer, threads>>
    BY <1>7 DEF WillAppear, Idle, Busy, Replaces, Hooks
  <2>2. \A job \in {"reconnect", "later"} : posted'[job] = posted[job]
    <3>1. CASE mClient \in Clients /\ Post(mClient)
      BY <3>1, PostType
    <3>2. CASE UNCHANGED posted
      BY <3>2
    <3>3. QED
      BY <1>7, <3>1, <3>2 DEF WillAppear, TypeOK
  <2>3. ResetWaits => ResetWaits'
    BY <2>2 DEF ResetWaits
  <2>4. QED
    BY <2>1, <2>3, MoveFollows
<1>8. CASE TimerFires
  <2>1. pc'[Loop] = "check"
    BY <1>8, GotoType DEF TimerFires, Pcs
  <2>2. FreeInv' /\ ResetInv'
    BY <1>8 DEF TimerFires, FollowInv, FreeInv, ResetInv, ResetWaits
  <2>3. ReplaceInv'
    BY <2>1 DEF ReplaceInv, Replaces
  <2>4. HookInv'
    <3>1. pc[Loop] = "idle" /\ \A u \in Threads \ {Loop} : pc'[u] = pc[u]
      BY <1>8, GotoType DEF TimerFires, Idle, Pcs
    <3>2. \A u \in Threads : Hooks(u) => Hooks(u)'
      BY <1>8, <3>1 DEF TimerFires, Hooks
    <3>3. QED
      BY <1>8, <3>2, HookKept DEF TimerFires, FollowInv
  <2>5. QED
    BY <2>2, <2>3, <2>4 DEF FollowInv
<1>9. ASSUME NEW t \in Pool, NEW c \in Clients, GiveClient(t, c) PROVE FollowInv'
  <2>1. /\ t \in Threads /\ life \in [Clients -> Lives] /\ Take(t, c)
        /\ Drop(t, c, "idle", life)
    BY <1>9 DEF GiveClient, TypeOK
  <2>2. ~Busy(t)
    BY <2>1 DEF Take, Busy, Replaces, Hooks
  <2>3. /\ \A u \in Threads \ {t} : pc'[u] = pc[u] /\ then'[u] = then[u]
        /\ \A d \in Clients : life'[d] = "free" => life[d] = "free"
    BY <2>1, DropFollows
  <2>4. UNCHANGED <<config, mClient, rpc, hears, unheard, timer>>
    BY <1>9 DEF GiveClient
  <2>5. \A job \in {"reconnect", "later"} : posted'[job] = posted[job]
    BY <2>1, TakeType
  <2>6. ResetWaits => ResetWaits'
    BY <2>5 DEF ResetWaits
  <2>7. QED
    BY <2>1, <2>2, <2>3, <2>4, <2>6, MoveFollows
<1>10. ASSUME NEW t \in Pool, NEW job \in {"reconnect", "later"}, ResetClient(t, job)
       PROVE  FollowInv'
  <2> DEFINE where == IF job = "later" THEN "later" ELSE "check"
  <2>1. t \in Threads /\ where \in {"check", "later"} /\ where \in Pcs
    BY DEF Pcs
  <2>2. mClient' = NoClient /\ rpc' = rpc
    BY <1>10 DEF ResetClient
  <2>3. Replaces(t)' /\ \A d \in Clients : life'[d] = "free" => life[d] = "free"
    <3>1. CASE mClient = NoClient
      <4>1. Goto(t, where) /\ life' = life
        BY <1>10, <3>1 DEF ResetClient
      <4>2. pc'[t] = where
        BY <2>1, <4>1, GotoType
      <4>3. QED
        BY <2>1, <4>1, <4>2 DEF Replaces
    <3>2. CASE mClient # NoClient
      <4>1. mClient \in Clients /\ life \in [Clients -> Lives]
        BY <3>2 DEF TypeOK
      <4>2. Drop(t, mClient, where, life)
        BY <1>10, <3>2 DEF ResetClient
      <4> HIDE DEF where
      <4>3. where \in {"idle", "check", "later", "hook"}
        BY <2>1
      <4>4. QED
        BY <2>1, <4>1, <4>2, <4>3, DropFollows
    <3>3. QED
      BY <3>1, <3>2
  <2>4. FreeInv'
    BY <2>2, <2>3 DEF FollowInv, FreeInv
  <2>5. ResetInv'
    BY <2>2, NoClientAssumption DEF ResetInv
  <2>6. HookInv'
    BY <2>2, NoClientAssumption DEF HookInv
  <2>7. ReplaceInv'
    BY <2>1, <2>3 DEF ReplaceInv
  <2>8. QED
    BY <2>4, <2>5, <2>6, <2>7 DEF FollowInv
<1>11. ASSUME NEW t \in Threads, CloseDying(t) PROVE FollowInv'
  <2> DEFINE where == IF rpc[at[t]] \in Online THEN "tell" ELSE "await"
  <2>1. where \in Pcs /\ where \in Destroying
    BY DEF Pcs
  <2>2. pc[t] = "destroy" /\ Goto(t, where)
    BY <1>11 DEF CloseDying
  <2> HIDE DEF where
  <2>3. pc'[t] = where /\ \A u \in Threads \ {t} : pc'[u] = pc[u]
    BY <2>1, <2>2, GotoType
  <2>4. UNCHANGED <<config, mClient, life, rpc, hears, unheard, posted, timer, then>>
    BY <1>11 DEF CloseDying
  <2>5. ResetWaits => ResetWaits'
    BY <2>4 DEF ResetWaits
  <2>6. QED
    BY <2>1, <2>2, <2>3, <2>4, <2>5, DyingFollows
<1>24. ASSUME NEW t \in Threads, TellDying(t) PROVE FollowInv'
  <2> DEFINE where == IF rpc[at[t]] \in Online THEN "told" ELSE "await"
  <2>1. where \in Pcs /\ where \in Destroying
    BY DEF Pcs
  <2>2. pc[t] = "tell" /\ Goto(t, where)
    BY <1>24 DEF TellDying
  <2> HIDE DEF where
  <2>3. pc'[t] = where /\ \A u \in Threads \ {t} : pc'[u] = pc[u]
    BY <2>1, <2>2, GotoType
  <2>4. UNCHANGED <<config, mClient, life, hears, timer, then>>
    BY <1>24 DEF TellDying
  <2>5. at[t] \in Clients
    BY <2>2 DEF TypeOK
  <2>6. /\ \A d \in Clients \ {at[t]} : rpc'[d] = rpc[d]
        /\ ResetWaits => ResetWaits'
        /\ unheard \subseteq unheard'
    <3>1. CASE rpc[at[t]] # "AUTHENTICATION_FAILED"
      <4>1. rpc' = [rpc EXCEPT ![at[t]] = "DISCONNECTED"] /\ Fail(at[t], "reconnect")
        BY <1>24, <3>1 DEF TellDying, Disconnected
      <4>2. (ResetWaits => ResetWaits') /\ unheard \subseteq unheard'
        BY <2>5, <4>1, FailPosts
      <4>3. QED
        BY <4>1, <4>2 DEF TypeOK
    <3>2. CASE rpc[at[t]] = "AUTHENTICATION_FAILED"
      <4>1. UNCHANGED <<rpc, posted, unheard>>
        BY <1>24, <3>2 DEF TellDying
      <4>2. QED
        BY <4>1 DEF ResetWaits
    <3>3. QED
      BY <3>1, <3>2
  <2>7. QED
    BY <2>1, <2>2, <2>3, <2>4, <2>6, DyingFollows
<1>25. ASSUME NEW t \in Threads, ClearDying(t) PROVE FollowInv'
  <2>1. pc[t] = "told" /\ pc'[t] = "await" /\ \A u \in Threads \ {t} : pc'[u] = pc[u]
    BY <1>25, GotoType DEF ClearDying, Pcs
  <2>2. UNCHANGED <<config, mClient, life, rpc, hears, unheard, posted, timer, then>>
    BY <1>25 DEF ClearDying
  <2>3. ResetWaits => ResetWaits'
    BY <2>2 DEF ResetWaits
  <2>4. QED
    BY <2>1, <2>2, <2>3, DyingFollows
<1>26. ASSUME NEW t \in Threads, NEW c \in Clients, ClientAgain(t, c) PROVE FollowInv'
  <2>1. pc[t] = "told" /\ at[t] = c /\ pc'[t] = "await" /\ \A u \in Threads \ {t} : pc'[u] = pc[u]
    BY <1>26, GotoType DEF ClientAgain, Pcs
  <2>2. UNCHANGED <<config, mClient, life, hears, timer, then>>
    BY <1>26 DEF ClientAgain
  <2>3. rpc' = [rpc EXCEPT ![c] = "DISCONNECTED"] /\ Fail(c, "reconnect")
    BY <1>26 DEF ClientAgain, Disconnected
  <2>4. (ResetWaits => ResetWaits') /\ unheard \subseteq unheard'
    BY <2>3, FailPosts
  <2>5. \A d \in Clients \ {at[t]} : rpc'[d] = rpc[d]
    BY <2>1, <2>3 DEF TypeOK
  <2>6. QED
    BY <2>1, <2>2, <2>4, <2>5, DyingFollows
<1>27. ASSUME NEW t \in Threads, NEW callback \in Callbacks, SetCallback(t, callback)
       PROVE  FollowInv'
  <2>1. pc[t] = callback /\ UNCHANGED <<config, mClient, life, rpc, unheard, posted, timer, then>>
    BY <1>27 DEF SetCallback
  <2>2. \A u \in Threads \ {t} : pc'[u] = pc[u]
    BY <1>27 DEF SetCallback, Goto, TypeOK
  <2>3. ResetWaits => ResetWaits'
    BY <2>1 DEF ResetWaits
  <2>4. FreeInv' /\ ResetInv'
    BY <2>1, <2>3 DEF FollowInv, FreeInv, ResetInv
  <2>5. ReplaceInv'
    <3>1. \A u \in Threads : Replaces(u) => Replaces(u)'
      BY <2>1, <2>2 DEF Replaces
    <3>2. QED
      BY <2>1, <3>1, ReplaceKept DEF FollowInv
  <2>6. HookInv'
    <3>1. CASE mClient = NoClient
      BY <2>1, <3>1, NoClientAssumption DEF HookInv
    <3>2. CASE mClient # NoClient
      <4>1. mClient \in Clients
        BY <3>2 DEF TypeOK
      <4>2. hears'[mClient] = hears[mClient] \cup {callback}
        BY <1>27, <3>2, <4>1 DEF SetCallback, TypeOK
      <4>3. CASE callback = "hook"
        BY <2>1, <4>2, <4>3 DEF HookInv
      <4>4. CASE callback # "hook"
        <5>1. \A u \in Threads : Hooks(u) => Hooks(u)'
          BY <2>1, <2>2, <4>4 DEF Hooks
        <5>2. QED
          BY <2>1, <4>2, <5>1, HookKept DEF FollowInv
      <4>5. QED
        BY <4>3, <4>4
    <3>3. QED
      BY <3>1, <3>2
  <2>7. QED
    BY <2>4, <2>5, <2>6 DEF FollowInv
<1>12. ASSUME NEW t \in Threads, EndDestroy(t) PROVE FollowInv'
  <2>1. pc[t] = "await" /\ UNCHANGED <<config, mClient, posted, timer>>
    BY <1>12 DEF EndDestroy
  <2>2. at[t] \in Clients /\ life[at[t]] \in Dying
    BY <2>1 DEF TypeOK, PointerInv, DestroyInv
  <2>3. mClient # at[t]
    BY <2>2 DEF PointerInv, OwnedInv, Owned
  <2>4. /\ rpc'[at[t]] = "CONNECTING"
        /\ \A c \in Clients \ {at[t]} :
             rpc'[c] = rpc[c] /\ life'[c] = life[c] /\ hears'[c] = hears[c]
        /\ unheard' = unheard \ {at[t]}
    BY <1>12, <2>2 DEF EndDestroy, TypeOK
  <2>5. FreeInv'
    BY <2>4 DEF FollowInv, FreeInv
  <2>6. ResetInv'
    BY <2>1, <2>3, <2>4 DEF FollowInv, ResetInv, ResetWaits
  <2>7. ReplaceInv' /\ HookInv'
    <3>1. pc' = [pc EXCEPT ![t] = then[t]] /\ then' = [then EXCEPT ![t] = "idle"]
      BY <1>12 DEF EndDestroy, Goto
    <3>2. \A u \in Threads : (Replaces(u) => Replaces(u)') /\ (Hooks(u) => Hooks(u)')
      BY <2>1, <3>1 DEF Replaces, Hooks, TypeOK
    <3>3. ReplaceInv'
      BY <2>1, <3>2, ReplaceKept DEF FollowInv
    <3>4. HookInv'
      BY <2>1, <2>3, <2>4, <3>2, HookKept DEF FollowInv
    <3>5. QED
      BY <3>3, <3>4
  <2>8. QED
    BY <2>5, <2>6, <2>7 DEF FollowInv
<1>13. ASSUME NEW t \in Threads, CheckClient(t) PROVE FollowInv'
  <2>1. UNCHANGED <<config, mClient, clients, posted, timer, then>>
    BY <1>13 DEF CheckClient
  <2>2. pc' = [pc EXCEPT ![t] = IF mClient = NoClient THEN "create" ELSE "exists"]
    BY <1>13 DEF CheckClient, Goto
  <2>3. FreeInv' /\ ResetInv'
    BY <2>1 DEF FollowInv, FreeInv, ResetInv, ResetWaits
  <2>4. ReplaceInv'
    <3> SUFFICES ASSUME config' # NoConfig, mClient' = NoClient
                 PROVE  (timer \/ \E u \in Threads : Replaces(u))'
      BY DEF ReplaceInv
    <3>1. pc'[t] = "create"
      BY <2>1, <2>2 DEF TypeOK
    <3>2. QED
      BY <3>1 DEF Replaces
  <2>5. HookInv'
    <3>1. \A u \in Threads : Hooks(u) => Hooks(u)'
      BY <1>13, <2>1, <2>2 DEF CheckClient, Hooks, TypeOK
    <3>2. QED
      BY <2>1, <3>1, HookKept DEF FollowInv
  <2>6. QED
    BY <2>3, <2>4, <2>5 DEF FollowInv
<1>14. ASSUME NEW t \in Threads, ClientExists(t) PROVE FollowInv'
  <2>1. ~Busy(t)
    BY <1>14 DEF ClientExists, Busy, Replaces, Hooks
  <2>2. \A u \in Threads \ {t} : pc'[u] = pc[u]
    BY <1>14, GotoType DEF ClientExists, Pcs
  <2>3. UNCHANGED <<config, mClient, clients, posted, timer, then>>
    BY <1>14 DEF ClientExists
  <2>4. QED
    BY <2>1, <2>2, <2>3, StillFollows
<1>15. ASSUME NEW t \in Threads, NEW c \in Clients, CreateClient(t, c) PROVE FollowInv'
  <2> DEFINE lives == [life EXCEPT ![c] = "made"]
  <2>1. lives \in [Clients -> Lives] /\ \A d \in Clients : lives[d] = "free" => life[d] = "free"
    BY DEF TypeOK
  <2>2. mClient' = c /\ rpc' = rpc /\ life[c] = "free"
    BY <1>15 DEF CreateClient
  <2>3. Hooks(t)' /\ \A d \in Clients : life'[d] = "free" => life[d] = "free"
    <3>1. CASE mClient = NoClient
      <4>1. Goto(t, "hook") /\ life' = lives
        BY <1>15, <3>1 DEF CreateClient
      <4>2. pc'[t] = "hook"
        BY <4>1, GotoType DEF Pcs
      <4>3. QED
        BY <2>1, <4>1, <4>2 DEF Hooks
    <3>2. CASE mClient # NoClient
      <4>1. mClient \in Clients /\ Drop(t, mClient, "hook", lives)
        BY <1>15, <3>2 DEF CreateClient, TypeOK
      <4> HIDE DEF lives
      <4>2. Hooks(t)' /\ \A d \in Clients : life'[d] = "free" => lives[d] = "free"
        BY <2>1, <4>1, DropFollows
      <4>3. QED
        BY <2>1, <4>2
    <3>3. QED
      BY <3>1, <3>2
  <2>4. FreeInv'
    BY <2>2, <2>3 DEF FollowInv, FreeInv
  <2>5. ResetInv'
    BY <2>2 DEF FollowInv, FreeInv, ResetInv, Failed, Lost
  <2>6. ReplaceInv'
    BY <2>2, NoClientAssumption DEF ReplaceInv
  <2>7. HookInv'
    BY <2>3 DEF HookInv
  <2>8. QED
    BY <2>4, <2>5, <2>6, <2>7 DEF FollowInv
<1>16. ASSUME NEW t \in Threads, StartClient(t) PROVE FollowInv'
  <2>1. ~Busy(t)
    BY <1>16 DEF StartClient, Busy, Replaces, Hooks
  <2>2. \A u \in Threads \ {t} : pc'[u] = pc[u]
    BY <1>16, GotoType DEF StartClient, Pcs
  <2>3. UNCHANGED <<config, mClient, rpc, hears, unheard, posted, timer, then>>
    BY <1>16 DEF StartClient
  <2>4. \A d \in Clients : life'[d] = "free" => life[d] = "free"
    BY <1>16 DEF StartClient, TypeOK
  <2>5. ResetWaits => ResetWaits'
    BY <2>3 DEF ResetWaits
  <2>6. QED
    BY <2>1, <2>2, <2>3, <2>4, <2>5, MoveFollows
<1>17. ASSUME NEW t \in Threads, ConnectLater(t) PROVE FollowInv'
  <2>1. timer' /\ pc[t] = "later" /\ UNCHANGED <<mClient, life, rpc, hears, unheard, posted, then>>
    BY <1>17 DEF ConnectLater, ArmTimer
  <2>2. FreeInv' /\ ResetInv' /\ ReplaceInv'
    BY <2>1 DEF FollowInv, FreeInv, ResetInv, ResetWaits, ReplaceInv
  <2>3. \A u \in Threads \ {t} : pc'[u] = pc[u]
    BY <1>17, GotoType DEF ConnectLater, Pcs
  <2>4. \A u \in Threads : Hooks(u) => Hooks(u)'
    BY <2>1, <2>3 DEF Hooks
  <2>5. HookInv'
    BY <2>1, <2>4, HookKept DEF FollowInv
  <2>6. QED
    BY <2>2, <2>5 DEF FollowInv
<1>18. ASSUME NEW c \in Clients, NEW s \in States, ClientStep(c, s) PROVE FollowInv'
  <2>1. /\ Acts(c) /\ rpc' = [rpc EXCEPT ![c] = s] /\ StateCallback(c, s)
        /\ UNCHANGED <<config, mClient, life, hears, timer, threads>>
    BY <1>18 DEF ClientStep
  <2>2. /\ s \in {"DISCONNECTED", "CONNECTION_FAILED"} => ResetWaits' \/ c \in unheard'
        /\ ResetWaits => ResetWaits'
        /\ unheard \subseteq unheard'
    BY <2>1, CallbackPosts
  <2>3. s # "LATE"
    BY <1>18, StatesKnown
  <2>4. s \in Failed => ResetWaits' \/ c \in unheard'
    BY <2>2, <2>3 DEF Failed, Lost
  <2>5. QED
    BY <2>1, <2>2, <2>4, ReportFollows
<1>19. ASSUME NEW c \in Clients, ClientLate(c) PROVE FollowInv'
  <2>1. /\ Acts(c) /\ rpc' = [rpc EXCEPT ![c] = "LATE"] /\ StateCallback(c, "READY")
        /\ UNCHANGED <<config, mClient, life, hears, timer, threads>> /\ rpc[c] = "DISCONNECTED"
    BY <1>19 DEF ClientLate
  <2>2. (ResetWaits => ResetWaits') /\ unheard \subseteq unheard'
    BY <2>1, CallbackPosts
  <2>3. rpc[c] \in Failed
    BY <2>1 DEF Failed, Lost
  <2>4. QED
    BY <2>1, <2>2, <2>3, ReportFollows
<1>20. ASSUME NEW c \in Clients, ClientWithoutConfig(c) PROVE FollowInv'
  <2>1. /\ Acts(c) /\ rpc' = [rpc EXCEPT ![c] = "AUTHENTICATION_FAILED"]
        /\ UNCHANGED <<config, mClient, life, hears, unheard, timer, threads, posted>>
    BY <1>20 DEF ClientWithoutConfig
  <2>2. ResetWaits => ResetWaits'
    BY <2>1 DEF ResetWaits
  <2>3. "AUTHENTICATION_FAILED" \in States /\ "AUTHENTICATION_FAILED" \notin Failed
    BY StatesAre DEF Failed, Lost
  <2>4. QED
    BY <2>1, <2>2, <2>3, ReportFollows
<1>21. ASSUME NEW c \in Clients, CredentialsCallback(c) PROVE FollowInv'
  <2>1. /\ UNCHANGED <<mClient, clients, posted, timer, threads>>
        /\ mClient = NoClient => config' = config
    BY <1>21 DEF CredentialsCallback
  <2>2. FreeInv' /\ ResetInv' /\ HookInv'
    BY <2>1 DEF FollowInv, FreeInv, ResetInv, HookInv, ResetWaits, Hooks
  <2>3. ReplaceInv'
    BY <2>1 DEF FollowInv, ReplaceInv, Replaces
  <2>4. QED
    BY <2>2, <2>3 DEF FollowInv
<1>22. CASE UNCHANGED vars
  <2>1. FreeInv' /\ ResetInv' /\ HookInv'
    BY <1>22 DEF vars, FollowInv, FreeInv, ResetInv, HookInv, ResetWaits, Hooks
  <2>2. ReplaceInv'
    BY <1>22 DEF vars, FollowInv, ReplaceInv, Replaces
  <2>3. QED
    BY <2>1, <2>2 DEF FollowInv
<1>23. QED
  BY <1>1, <1>2, <1>3, <1>4, <1>5, <1>6, <1>7, <1>8, <1>9, <1>10, <1>11, <1>12, <1>13, <1>14,
     <1>15, <1>16, <1>17, <1>18, <1>19, <1>20, <1>21, <1>22, <1>24, <1>25, <1>26, <1>27
     DEF Next, KeyUp, Proceed, ClientActs

-----------------------------------------------------------------------------
(* Theorems. *)

\* IInv is inductive.
LEMMA InductiveInvariant == Spec => []IInv
<1>1. Init => IInv
  BY InitType, InitPointers, InitFollow DEF IInv
<1>2. IInv /\ [Next]_vars => IInv'
  BY TypeStep, PointerStep, FollowStep DEF IInv
<1>3. QED
  BY <1>1, <1>2, PTL DEF Spec

\* Every variable keeps to what its C++ counterpart holds, and a thread has a
\* client exactly where it uses or destroys one.
THEOREM PluginTypeCorrect == Spec => []TypeOK
<1>1. IInv => TypeOK
  BY DEF IInv
<1>2. QED
  BY <1>1, InductiveInvariant, PTL

\* However many threads of the pool reset and replace mClient at once, no
\* pointer that can be used ever points to a client in its destructor.
THEOREM NobodyPointsToDying == Spec => []NothingPointsToDying
<1>1. IInv => NothingPointsToDying
  BY NoClientAssumption DEF IInv, PointerInv, OwnedInv, WeakInv, NothingPointsToDying
<1>2. QED
  BY <1>1, InductiveInvariant, PTL

\* Nor is a client left running without an owner: the last pointer to go has
\* exactly one thread destroy it.
THEOREM NoClientIsLeftBehind == Spec => []UnownedIsDying
<1>1. IInv => UnownedIsDying
  BY DEF IInv, PointerInv, OwnedInv, DyingInv, UnownedIsDying
<1>2. QED
  BY <1>1, InductiveInvariant, PTL

\* A failure that was heard is never forgotten, however the pool's threads interleave
\* and however many reconnects wait: as long as the plugin keeps the client that had it
\* a task to reset it waits, and as long as it has none somebody is on the way to make
\* one.  The failure that goes unheard is that of a client which another thread started
\* while its maker had still to set its onStateChanged.
THEOREM FailuresAreFollowedUp == Spec => []FailureIsFollowedUp
<1>1. IInv => FailureIsFollowedUp
  BY FollowMeans DEF IInv
<1>2. QED
  BY <1>1, InductiveInvariant, PTL
=============================================================================
