--------------------- MODULE MCDiscordStreamDeckPlugin ---------------------
(* DiscordStreamDeckPlugin for TLC: slots for clients and threads of the pool
   are interchangeable. *)
EXTENDS DiscordStreamDeckPlugin, TLC

PluginSymmetry == Permutations(Clients) \cup Permutations(Pool)

\* What the pointers depend on, and what a reconnect follows or competes with.
AllEvents == EventNames
PointerEvents == {"settings", "lose", "refuse", "key", "appear"}
ReconnectEvents == {"settings", "click", "lose", "fail"}
=============================================================================
