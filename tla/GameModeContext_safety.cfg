SPECIFICATION Spec
CONSTANTS
  g1 = g1
  g2 = g2
  g3 = g3
  s1 = s1
  Games <- MCThreeGames
  Supervisors <- MCSupervisors
  Trusted <- MCThreeGames
  Permitted <- MCThreeGames
  RequireSupervisor = FALSE
  Restarts = TRUE
  Reused = {}
SYMMETRY Symmetry
INVARIANTS
  TypeOK
  ListMatchesRefcount
  OneSwitcher
  OnWhileRegistered
  OffWhileIdle
  OptimisedAreRegistered
  RegisterAnswerHolds
  ListenersInformed
PROPERTIES
  OnlyDeadExpire
