SPECIFICATION FairSpec
CONSTANTS
  MaxId = 2
  MaxPerCycle = 3
  Faults <- Disconnects
PROPERTY
  QueuedIsResolved
