SPECIFICATION Spec
CONSTANTS
  ListMax = 1
  Tids = {main, t1}
  Main = main
  NoThread = none
  Configs <- MCConfigs
  Own <- MCOwn
INVARIANTS
  OwnLevelKept
  RemovedIsDefault
  LevelsAreConfigured
PROPERTY
  StaysPinned
