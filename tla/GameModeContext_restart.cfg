SPECIFICATION Spec
CONSTANTS
  g1 = g1
  g2 = g2
  g3 = g3
  s1 = s1
  Games <- MCOneGame
  Supervisors <- MCSupervisors
  Trusted <- MCOneGame
  Permitted <- MCOneGame
  RequireSupervisor = FALSE
  Restarts = TRUE
  Reused = {}
INVARIANTS
  DefaultWhenIdle
