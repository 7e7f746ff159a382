SPECIFICATION FairSpec
CONSTANTS
  t1 = t1
  t2 = t2
  alice = alice
  bob = bob
  p = p
  q = q
  home = home
  away = away
  NoThread = NoThread
  NoWrite = NoWrite
  NoTx = NoTx
  NoPassword = NoPassword
  Threads <- TwoThreads
  Names <- BothNames
  Passwords <- TwoPasswords
  Keys <- TwoClients
  Faults <- WriteFaults
  MaxFails = 2
  Window = 1
INVARIANTS
  AdminTypeOK
  OneAdmin
  TokensAreForAdmins
  GuessesBounded
  LockoutIsOwn
PROPERTIES
  ImplementsAtomicStore
  LockoutEnds
