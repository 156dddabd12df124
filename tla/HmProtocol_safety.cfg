SPECIFICATION Spec
CONSTANTS
  hello1 = hello1
  hello2 = hello2
  key1 = key1
  key2 = key2
  NoHello = NoHello
  NoKey = NoKey
  Hellos <- MCHellos
  Keys <- MCKeys
  Offers <- MCOffers
  MaxSessions = 2
INVARIANTS
  TypeOK
  Agreement
  RefusalIsFatal
  LegacyByOptIn
  OnePartner
CHECK_DEADLOCK FALSE
