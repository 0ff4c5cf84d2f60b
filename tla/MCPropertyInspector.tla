------------------------ MODULE MCPropertyInspector ------------------------
(* PropertyInspector for TLC: two servers with voice channels and one
   without; a button that is new, is set, names a channel that was deleted,
   or a server the user has left. *)
EXTENDS PropertyInspector

CONSTANTS g1, g2, g3, left, c1, c2, c3, deleted

Servers == {g1, g2, g3}
VoiceChannels == [g \in Servers |-> CASE g = g1 -> {c1, c2} [] g = g2 -> {c3} [] g = g3 -> {}]
Firsts == [g \in Servers |-> CASE g = g1 -> c1 [] g = g2 -> c3 [] g = g3 -> None]
AnyButton ==
  {Unset, [guild |-> g1, channel |-> c2],
   [guild |-> g1, channel |-> deleted], [guild |-> left, channel |-> deleted]}
=============================================================================
