SPECIFICATION Spec
CONSTANTS
  worker_ = worker_
  http = http
  Callers <- TwoCallers
  Worker = worker_
  MaxDev = 2
  MaxCmd = 2
  MaxUpset = 0
  Events <- OnlyError
INVARIANTS
  SingleReader
CHECK_DEADLOCK FALSE
