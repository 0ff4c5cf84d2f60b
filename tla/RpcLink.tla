------------------------------ MODULE RpcLink ------------------------------
(***************************************************************************)
(* What an RpcConnection promises the client that owns it: where the       *)
(* client's worker may be, whether the connection has a socket and takes   *)
(* itself for open, and who may close it when.                             *)
(* RpcConnection implements this specification with its frames, and        *)
(* DiscordClient, which has no frames, keeps to it.                        *)
(***************************************************************************)

VARIABLES
  place,    \* of the worker, in initialize() or in the loop that follows it
  state,    \* RpcConnection::state
  isOpen,   \* there is a socket
  hooked,   \* onDisconnect is set
  owned     \* ~DiscordClient has not begun

vars == <<place, state, isOpen, hooked, owned>>

Init ==
  /\ place = "opening"
  /\ state = "Disconnected"
  /\ isOpen = FALSE
  /\ hooked = FALSE
  /\ owned = TRUE

Goto(from, to) == place = from /\ place' = to

\* A Close() under way, or done: the socket goes first, state after it; nothing once
\* Disconnected.
Closing ==
  \/ UNCHANGED <<state, isOpen>>
  \/ /\ state # "Disconnected"
     /\ isOpen' = FALSE
     /\ state' \in {state, "Disconnected"}

\* The top of the worker's loop.
NextTurn == IF owned THEN "reading" ELSE "ended"

-----------------------------------------------------------------------------
(* AsyncOpen. *)

Open ==
  \/ Goto("opening", "ended") /\ UNCHANGED <<state, isOpen, hooked, owned>>
  \/ /\ Goto("opening", "handshake_write")
     /\ isOpen' = TRUE
     /\ UNCHANGED <<state, hooked, owned>>

SendHandshake ==
  \/ /\ Goto("handshake_write", "handshake_read")
     /\ state' = "SentHandshake"
     /\ UNCHANGED <<isOpen, hooked, owned>>
  \/ /\ Goto("handshake_write", "ended")
     /\ isOpen' \in BOOLEAN
     /\ UNCHANGED <<state, hooked, owned>>

\* A frame that came before the owner closed is still accepted afterwards.
Accept ==
  /\ Goto("handshake_read", "auth_write")
  /\ isOpen \/ ~owned
  /\ state' \in {state, "Connected"}
  /\ hooked' = TRUE
  /\ UNCHANGED <<isOpen, owned>>

\* No first frame, one cut short inside its header, or one that is not JSON.
Refuse ==
  /\ \/ Goto("handshake_read", "ended") /\ Closing /\ state' = "Disconnected"
     \/ Goto("handshake_read", NextTurn) /\ UNCHANGED <<state, isOpen>>
     \/ Goto("handshake_read", "threw") /\ UNCHANGED <<state, isOpen>>
  /\ UNCHANGED <<hooked, owned>>

-----------------------------------------------------------------------------
(* The open connection. *)

\* It is written, or its failure begins to close the connection.
FirstRequest ==
  /\ \/ isOpen /\ Goto("auth_write", NextTurn) /\ UNCHANGED <<state, isOpen>>
     \/ Goto("auth_write", "reading") /\ Closing
  /\ UNCHANGED <<hooked, owned>>

\* A message has been processed, or threw.
Turn ==
  /\ \/ Goto("reading", NextTurn)
     \/ Goto("reading", "threw")
  /\ UNCHANGED <<state, isOpen, hooked, owned>>

\* The worker's write or read failed, or the peer ended the connection: the worker
\* ends once it is Disconnected.
Lose ==
  /\ place \in {"auth_write", "reading"}
  /\ place' = "ended"
  /\ Closing
  /\ state' = "Disconnected"
  /\ UNCHANGED <<hooked, owned>>

\* The worker, another coroutine whose write failed, or the owner is in Close().
Closes ==
  /\ Closing
  /\ UNCHANGED <<place, hooked, owned>>

\* The worker reads on without a socket: somebody has closed it after the header
\* of a frame or after the worker's look at state, or a ping cannot be answered.
Crash ==
  /\ place \in {"handshake_read", "reading"}
  /\ place' = "crashed"
  /\ Closing
  /\ ~isOpen'
  /\ UNCHANGED <<hooked, owned>>

\* Its Close() follows.
OwnerBegins ==
  /\ owned
  /\ owned' = FALSE
  /\ UNCHANGED <<place, state, isOpen, hooked>>

Next ==
  \/ Open \/ SendHandshake \/ Accept \/ Refuse
  \/ FirstRequest \/ Turn \/ Lose \/ Closes \/ Crash \/ OwnerBegins

Spec == Init /\ [][Next]_vars
=============================================================================
