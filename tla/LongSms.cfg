CONSTANTS
  GsmSingle = 16
  GsmCap = 9
  Ucs2Cap = 4
  MaxSegments = 3
  Octets = 14
  Offers <- TwoMessages
  FirstRefs <- AtTheWrap
SPECIFICATION Spec
INVARIANTS
  TextsArriveWhole
  SegmentsFit
  OneDeviceNeverReuses
CHECK_DEADLOCK FALSE
