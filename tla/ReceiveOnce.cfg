SPECIFICATION FairSpec
CONSTANTS
  long = long
  short = short
  odd = odd
  ref1 = ref1
  NoKey = NoKey
  Sms <- LongShortAndOdd
  KeyOf <- Key
  TotalOf <- Total
  BodyOf <- Body
  Garbled <- Odd
  Slots <- ThreeSlots
  Leftovers <- FirstSlot
  Window = 1
  TTL = 1
  MaxCount = 2
  Events <- QuickAndDuplicates
INVARIANTS
  SmsTypeOK
  OnlyWholeMessages
  PushedOncePerRow
  StoredOnce
PROPERTIES
  StoredBeforeRemoved
  CompleteIsStored
