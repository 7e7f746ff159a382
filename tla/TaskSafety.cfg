SPECIFICATION TaskSpec
CONSTANTS
  MaxId = 2
  MaxPerCycle = 1
  Faults <- AllFaults
  MaxTask = 1
  Intervals <- OneOrTwoDays
  MaxDay = 2
  Calls <- EveryCall
INVARIANTS
  TaskTypeOK
  SettledAgreesWithMessage
  MarkedBeforeReported
PROPERTY
  ScanRunsOnlyDueTasks
