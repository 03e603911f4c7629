------------------------- MODULE MCGameModeContext ---------------------------
(* Small instances of the context for TLC. *)
EXTENDS GameModeContext

CONSTANTS g1, g2, g3, s1

MCOneGame == {g1}
MCTwoGames == {g1, g2}
MCThreeGames == {g1, g2, g3}
MCSupervisors == {s1}

\* The games are interchangeable: each is permitted, and all are trusted
\* or none.
Symmetry == Permutations(MCThreeGames)

=============================================================================
