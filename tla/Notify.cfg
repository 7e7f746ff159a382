SPECIFICATION FairSpec
CONSTANTS
  alice = alice
  bob = bob
  Numbers <- TwoNumbers
  Filters <- TwoFilters
  MaxCfg = 2
  MaxJob = 3
  Dedup = 1
  Events <- Faults
INVARIANTS
  NotifyTypeOK
  DeliveredInOrder
  OnlyLastIsUnlogged
PROPERTY
  JobsAreServed
CHECK_DEADLOCK FALSE
