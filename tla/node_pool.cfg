SPECIFICATION FairSpec
CONSTANTS
  Client = {c1, c2, c3}
  Size = 2
  MaxDeaths = 2
CHECK_DEADLOCK FALSE
INVARIANTS
  TypeOK
  CapacityConserved
  CloseEndsKnown
PROPERTIES
  ImplementsPool
  AcquirerServed
  CloseCompletes
