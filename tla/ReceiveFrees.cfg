SPECIFICATION FairSpec
CONSTANTS
  long = long
  short = short
  odd = odd
  ref1 = ref1
  NoKey = NoKey
  Sms <- LongAndShort
  KeyOf <- Key
  TotalOf <- Total
  BodyOf <- Body
  Garbled <- NoSms
  Slots <- TwoSlots
  Leftovers <- FirstSlot
  Window = 1
  TTL = 1
  MaxCount = 2
  Events <- DuplicatesAndTime
PROPERTY
  SlotsAreFreed
