--------------------------- MODULE MCVoiceActions ---------------------------
(* VoiceActions for TLC: one key, on which any action may be placed.  What other
   keys do to it reaches it through Discord, which may change in the same way. *)
EXTENDS VoiceActions, TLC

CONSTANT b1
MCPlaceable == b1 :> ActionClasses
\* Deafened but not muted: where what is shown and the setting differ.  The rest is a
\* change away.
MCFirstVoice == {[deaf |-> TRUE, mute |-> FALSE, ptt |-> FALSE]}
=============================================================================
