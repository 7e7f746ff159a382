SPECIFICATION FairSpec
CONSTANTS
  MaxId = 3
  MaxPerCycle = 2
  Faults <- AllFaults
INVARIANTS
  TypeOK
  AtMostOnce
  StatusTellsAir
  EmittedMatchesRow
PROPERTY
  ImplementsLifecycle
  QueueDrains
