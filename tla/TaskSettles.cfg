SPECIFICATION FairTaskSpec
CONSTANTS
  MaxId = 2
  MaxPerCycle = 1
  Faults <- NoFaults
  MaxTask = 1
  Intervals <- OneDay
  MaxDay = 2
  Calls <- NoSend
PROPERTY
  RunningIsSettled
