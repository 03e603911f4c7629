SPECIFICATION FairSpec
CONSTANTS
  g1 = g1
  g2 = g2
  g3 = g3
  s1 = s1
  Games <- MCTwoGames
  Supervisors <- MCSupervisors
  Trusted <- MCSupervisors
  Permitted <- MCTwoGames
  RequireSupervisor = FALSE
  Restarts = FALSE
  Reused <- MCOneGame
PROPERTIES
  EnterLeaveAlternate
  DeadClientsExpire
  CallsAnswered
  ImplementsRegistry
