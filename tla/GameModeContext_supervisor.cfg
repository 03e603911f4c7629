SPECIFICATION FairSpec
CONSTANTS
  g1 = g1
  g2 = g2
  g3 = g3
  s1 = s1
  Games <- MCOneGame
  Supervisors <- MCSupervisors
  Trusted <- MCSupervisors
  Permitted <- MCOneGame
  RequireSupervisor = TRUE
  Restarts = FALSE
  Reused = {}
PROPERTIES
  DeadClientsExpire
