SPECIFICATION Spec
CONSTANTS
  Values <- MCValues
  Choices <- MCChoices
  Configs <- MCConfigs
  HasProfile = TRUE
  HasGpu = TRUE
INVARIANTS
  OriginalKept
  DefaultIsNotOurs
  CleanLeaveRestores
  InhibitionBalanced
