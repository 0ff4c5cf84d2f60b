-------------------------- MODULE MCDiscordClient --------------------------
(* Instances of DiscordClient for TLC: model values for the tokens and the
   coroutines, and the sets of starting credentials the runs begin with. *)
EXTENDS DiscordClient

\* Nothing saved, a full pair, and an access token the plugin kept without a
\* refresh token.
AnyStart ==
  {[access |-> NoToken, refresh |-> NoToken]}
    \cup [access : Tokens, refresh : MaybeTokens]

AllFaults == FaultNames
NoFaults == {}
\* All but those after which the program dereferences a null pointer.
LifecycleFaults == FaultNames \ {"config", "payload"}
=============================================================================
