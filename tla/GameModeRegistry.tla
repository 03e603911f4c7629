-------------------------- MODULE GameModeRegistry ---------------------------
(***************************************************************************)
(* What daemon/gamemode.h promises of the context: a set of registered     *)
(* games, and a system that is in game mode exactly while the set has a    *)
(* member.  There are no threads, no locks and no list here.               *)
(***************************************************************************)
CONSTANT Games

VARIABLES
  registered,  \* the games that are registered
  active       \* is the system in game mode?

vars == <<registered, active>>

Init == registered = {} /\ active = FALSE

\* The first game puts the system into game mode.
Register(p) ==
  /\ p \notin registered
  /\ registered' = registered \cup {p}
  /\ active' = TRUE

\* A game leaves on request or because it died; the last one out switches
\* the light off.
Unregister(p) ==
  /\ p \in registered
  /\ registered' = registered \ {p}
  /\ active' = (registered' # {})

Next == \E p \in Games : Register(p) \/ Unregister(p)

Spec == Init /\ [][Next]_vars

=============================================================================
