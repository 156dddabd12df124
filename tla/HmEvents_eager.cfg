SPECIFICATION EventSpec
CONSTANTS
  hello1 = hello1
  key1 = key1
  key2 = key2
  NoHello = NoHello
  NoKey = NoKey
  Hellos <- MCHellos
  Keys <- MCKeys
  Offers <- MCOffers
  MaxSessions = 2
  AppSendsAt = {"notify"}
  MaxAppFrames = 2
INVARIANT
  HelloRidesFirst
CHECK_DEADLOCK FALSE
