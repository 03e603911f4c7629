SPECIFICATION Spec
CONSTANTS
  launcher = launcher
  game = game
  Processes <- MCProcesses
  Callers <- MCProcesses
  Program <- MCProgram
  Tools <- MCTools
  Libraries <- MCLibraries
  PidfdSupport = TRUE
  Unreliable = TRUE
  MaxInbox = 2
INVARIANTS
  TypeOK
  ClaimsHold
  OnlyAskedFor
  ToggleFlips
PROPERTIES
  CallsReturn
