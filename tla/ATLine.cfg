SPECIFICATION FairSpec
CONSTANTS
  worker_ = worker_
  http = http
  Callers <- TwoCallers
  Worker = worker_
  MaxDev = 2
  MaxCmd = 2
  MaxUpset = 1
  Events <- Every
INVARIANTS
  ATTypeOK
  SingleReaderWhileInitSucceeds
  AnswersMatchUntilTimeout
  OkMeansAired
PROPERTIES
  ExchangesEnd
  LossIsNoticed
CHECK_DEADLOCK FALSE
