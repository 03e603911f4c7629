------------------------- MODULE MCGameModeShutdown --------------------------
(* One and two games for TLC, and a signal at any moment. *)
EXTENDS GameModeShutdown

CONSTANTS g1, g2, s1

MCGames == {g1, g2}
MCOneGame == {g1}
MCSupervisors == {s1}

=============================================================================
