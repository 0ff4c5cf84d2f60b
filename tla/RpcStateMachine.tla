-------------------------- MODULE RpcStateMachine --------------------------
(***************************************************************************)
(* What a DiscordClient promises the plugin about the RpcState it reports: *)
(* the steps setRpcState(oldState, newState) is written for, the loss of   *)
(* the connection at any time, and nothing else while it runs, but for one *)
(* step that the code does not intend (LateReady).                         *)
(* DiscordClient is shown to implement this specification, and to look to  *)
(* the plugin like what DiscordStreamDeckPlugin takes a client to be.      *)
(***************************************************************************)

VARIABLES
  rpcState,   \* mState.rpcState
  phase,      \* "created" until it is started; in ~DiscordClient "closing", "telling" once
              \* its Close() is to report the loss, "told" until that is over, "stopped";
              \* or "unused" if it began before the start
  lost        \* history: how often DISCONNECTED has been reported

vars == <<rpcState, phase, lost>>

\* DISCORD_CLIENT_RPCSTATES
RpcStates ==
  {"UNINITIALIZED", "CONNECTING", "REQUESTING_USER_PERMISSION",
   "REQUESTING_ACCESS_TOKEN", "AUTHENTICATING_WITH_ACCESS_TOKEN",
   "WAITING_FOR_INITIAL_DATA", "READY",
   "CONNECTION_FAILED", "AUTHENTICATION_FAILED", "DISCONNECTED"}

Working == {"running", "closing", "telling", "told", "stopped"}   \* there is a worker

\* The pairs some call of setRpcState(oldState, newState) names.
AssertedSteps ==
  {<<"UNINITIALIZED", "AUTHENTICATION_FAILED">>,
   <<"UNINITIALIZED", "CONNECTING">>,
   <<"CONNECTING", "CONNECTION_FAILED">>,
   <<"CONNECTING", "REQUESTING_USER_PERMISSION">>,
   <<"CONNECTING", "AUTHENTICATING_WITH_ACCESS_TOKEN">>,
   <<"REQUESTING_USER_PERMISSION", "AUTHENTICATION_FAILED">>,
   <<"REQUESTING_USER_PERMISSION", "REQUESTING_ACCESS_TOKEN">>,
   <<"REQUESTING_ACCESS_TOKEN", "AUTHENTICATION_FAILED">>,
   <<"REQUESTING_ACCESS_TOKEN", "REQUESTING_USER_PERMISSION">>,
   <<"REQUESTING_ACCESS_TOKEN", "AUTHENTICATING_WITH_ACCESS_TOKEN">>,
   <<"AUTHENTICATING_WITH_ACCESS_TOKEN", "AUTHENTICATION_FAILED">>,
   <<"AUTHENTICATING_WITH_ACCESS_TOKEN", "REQUESTING_ACCESS_TOKEN">>,
   <<"AUTHENTICATING_WITH_ACCESS_TOKEN", "WAITING_FOR_INITIAL_DATA">>,
   <<"WAITING_FOR_INITIAL_DATA", "READY">>}

\* States from which a lost connection is reported as DISCONNECTED.
Online ==
  {"REQUESTING_USER_PERMISSION", "REQUESTING_ACCESS_TOKEN",
   "AUTHENTICATING_WITH_ACCESS_TOKEN", "WAITING_FOR_INITIAL_DATA", "READY"}

Init ==
  /\ rpcState = "UNINITIALIZED"
  /\ phase = "created"
  /\ lost = "never"

Start ==
  /\ phase = "created"
  /\ phase' = "running"
  /\ UNCHANGED <<rpcState, lost>>

Advance ==
  /\ phase \in Working
  /\ <<rpcState, rpcState'>> \in AssertedSteps
  /\ UNCHANGED <<phase, lost>>

Report ==
  /\ rpcState' = "DISCONNECTED"
  /\ lost' = IF lost = "never" THEN "once" ELSE "again"

\* A coroutine finds the connection lost, and closes it.
LoseConnection ==
  /\ phase \in Working
  /\ rpcState \in Online
  /\ lost = "never"
  /\ Report
  /\ UNCHANGED phase

\* The coroutine that waits for the initial data does not look at the
\* connection: it reports READY although DISCONNECTED was reported before.
LateReady ==
  /\ phase \in Working
  /\ rpcState = "DISCONNECTED"
  /\ rpcState' = "READY"
  /\ UNCHANGED <<phase, lost>>

Stop ==
  /\ \/ phase = "created" /\ phase' = "unused"
     \/ phase = "running" /\ phase' = "closing"
  /\ UNCHANGED <<rpcState, lost>>

\* Close() begins: it goes on if the connection is there and has not been lost.
BeginClose ==
  /\ phase = "closing"
  /\ phase' = IF rpcState \in Online /\ lost = "never" THEN "telling" ELSE "stopped"
  /\ UNCHANGED <<rpcState, lost>>

\* It does not look again whether a coroutine has reported the loss meanwhile.
TellLoss ==
  /\ phase = "telling"
  /\ phase' = IF rpcState # "AUTHENTICATION_FAILED" /\ lost = "never" THEN "told" ELSE "stopped"
  /\ IF rpcState = "AUTHENTICATION_FAILED" THEN UNCHANGED <<rpcState, lost>> ELSE Report

\* Nor do the coroutines, until it is over.
LoseAgain ==
  /\ phase = "told"
  /\ phase' = "stopped"
  /\ Report

EndClose ==
  /\ phase = "told"
  /\ phase' = "stopped"
  /\ UNCHANGED <<rpcState, lost>>

\* The worker that the destructor waits for may finish its turn with the
\* step it was about to take, whatever the state has become.
FinishTurn ==
  /\ phase \in {"told", "stopped"}
  /\ rpcState = "DISCONNECTED"
  /\ \E old \in Online : <<old, rpcState'>> \in AssertedSteps
  /\ UNCHANGED <<phase, lost>>

Next ==
  \/ Start \/ Advance \/ LoseConnection \/ LateReady
  \/ Stop \/ BeginClose \/ TellLoss \/ LoseAgain \/ EndClose \/ FinishTurn

Spec == Init /\ [][Next]_vars

-----------------------------------------------------------------------------
(* What the plugin sees of it. *)

\* States are merged where the plugin does not tell them apart.
Coarse(s) ==
  IF s \in {"UNINITIALIZED", "CONNECTING"} THEN "CONNECTING"
  ELSE IF s \in Online \ {"READY"} THEN "LOGIN"
  ELSE s
CoarseStates == {Coarse(s) : s \in RpcStates}
CoarseOnline == {Coarse(s) : s \in Online}

\* What a client may report next, but for a READY that is late.
Reports ==
  {r \in {<<Coarse(s[1]), Coarse(s[2])>> : s \in AssertedSteps} : r[1] # r[2]}
    \cup CoarseOnline \X {"DISCONNECTED"}

\* After DISCONNECTED the plugin has given the client up: only READY, which
\* makes it hand its client to the actions, would still matter to it.
Seen ==
  IF lost = "never" THEN Coarse(rpcState)
  ELSE IF rpcState = "READY" THEN "LATE" ELSE "DISCONNECTED"
seen == <<Seen, lost, phase>>

\* DiscordStreamDeckPlugin's actions, by name; Told is a call of its callback.
Told == Seen' = "DISCONNECTED" /\ lost' = IF lost = "never" THEN "once" ELSE "again"

ClientStep ==
  /\ phase \in Working /\ phase' = phase
  /\ <<Seen, Seen'>> \in Reports
  /\ IF Seen' = "DISCONNECTED" THEN Told ELSE lost' = lost

ClientLate ==
  /\ phase \in Working /\ phase' = phase
  /\ Seen = "DISCONNECTED" /\ Seen' = "LATE" /\ lost' = lost

ClientAgain ==
  /\ phase = "told" /\ phase' = "stopped"
  /\ Told

\* StartClient, and Destroy.
BeginsOrEnds ==
  /\ \/ phase = "created" /\ phase' \in {"running", "unused"}
     \/ phase = "running" /\ phase' = "closing"
  /\ Seen' = Seen /\ lost' = lost

CloseDying ==
  /\ phase = "closing"
  /\ phase' = IF Seen \in CoarseOnline THEN "telling" ELSE "stopped"
  /\ Seen' = Seen /\ lost' = lost

TellDying ==
  /\ phase = "telling"
  /\ phase' = IF Seen \in CoarseOnline THEN "told" ELSE "stopped"
  /\ IF Seen = "AUTHENTICATION_FAILED" THEN Seen' = Seen /\ lost' = lost ELSE Told

ClearDying ==
  /\ phase = "told" /\ phase' = "stopped"
  /\ Seen' = Seen /\ lost' = lost

SeenStep ==
  ClientStep \/ ClientLate \/ ClientAgain \/ BeginsOrEnds
    \/ CloseDying \/ TellDying \/ ClearDying

SeenByPlugin == Seen = "CONNECTING" /\ [][SeenStep]_seen
=============================================================================
