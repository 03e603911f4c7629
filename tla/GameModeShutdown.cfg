SPECIFICATION ShutdownFairSpec
CONSTANTS
  g1 = g1
  g2 = g2
  s1 = s1
  Games <- MCOneGame
  Supervisors <- MCSupervisors
  Trusted <- MCSupervisors
  Permitted <- MCOneGame
  RequireSupervisor = FALSE
  Restarts = FALSE
  Reused <- MCOneGame
INVARIANTS
  CleanExitRestoresDefault
PROPERTIES
  SignalledExits
CHECK_DEADLOCK FALSE
