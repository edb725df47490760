CONSTANTS
  NONE = NONE
  Cap = 3
  MaxGen = 2
  MaxEpoch = 3
  Shapes <- EveryOwner
SPECIFICATION ESpec
CHECK_DEADLOCK FALSE
INVARIANTS
  ETypeOK
  PlanesAgree
  FreeListsAreSound
  RefusalIsExact
  ExclusionIsExact
  StampsAreCarried
PROPERTIES
  ImplementsKeySpace
  NothingIsBurned
  GuardsAreIsolated
VIEW WordsInUse
