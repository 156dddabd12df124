SPECIFICATION Spec
CONSTANTS
  MaxNonce = 2
  MaxSessions = 2
  MaxSealed = 3
INVARIANTS
  TypeOK
  DispatchedInOrder
PROPERTIES
  ChannelSpec
  RefusalIsFinal
CHECK_DEADLOCK FALSE
