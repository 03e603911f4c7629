SPECIFICATION Spec
CONSTANTS
  launcher = launcher
  game = game
  Processes <- MCProcesses
  Callers <- MCProcesses
  Program <- MCProgram
  Tools <- MCTools
  Libraries <- MCThisLibrary
  PidfdSupport = FALSE
  Unreliable = FALSE
  MaxInbox = 2
INVARIANTS
  NamesTheGame
