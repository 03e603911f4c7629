SPECIFICATION Spec
CONSTANTS
  Cores <- MCCores
  Hosts <- MCHosts
  Volatile <- MCVolatile
  Clocks <- MCClocks
INVARIANTS
  TypeOK
  CoresRestored
  MissingAreRemembered
  GpuRestored
PROPERTIES
  OtherCardsUntouched
  HelperReturns
