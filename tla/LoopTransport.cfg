SPECIFICATION Spec
CONSTANTS
  None = None
  NonFinite = NonFinite
  Tolerance = 1
  Positions <- MCPositions
  Regions <- MCRegions
  MaxGeneration = 4
  MaxRequests = 3
INVARIANTS
  IntentBookkeeping
  BaselineIsLastHeard
PROPERTIES
  NoRevival
  AsksOnlyOnCrossing
  ContractSpec
