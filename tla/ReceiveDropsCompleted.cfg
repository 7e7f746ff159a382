SPECIFICATION Spec
CONSTANTS
  long = long
  short = short
  odd = odd
  ref1 = ref1
  NoKey = NoKey
  Sms <- LongAndShort
  KeyOf <- Key
  TotalOf <- Total
  BodyOf <- Body
  Garbled <- NoSms
  Slots <- ThreeSlots
  Leftovers <- NoSlots
  Window = 1
  TTL = 1
  MaxCount = 2
  Events <- Time
PROPERTY
  DroppedOnlyWhenPartial
