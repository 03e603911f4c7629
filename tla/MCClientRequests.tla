-------------------------- MODULE MCClientRequests --------------------------
(* A launcher and a game for TLC, and the libraries a host may have. *)
EXTENDS ClientRequests

CONSTANTS launcher, game

MCProcesses == {launcher, game}

\* The game asks for itself and the launcher for the game, whose queries are
\* those of the tool.
MCProgram ==
  [c \in MCProcesses |->
     {newCall \in CallsOf(c) :
        IF c = game THEN newCall.own
        ELSE /\ ~newCall.own /\ newCall.target = game
             /\ newCall.verb # "query"}]

\* The library of this repository, an older one without the calls for other
\* processes, and none.
MCLibraries == {Symbols, Required, {}}
MCThisLibrary == {Symbols}
MCTools == {launcher}

=============================================================================
