SPECIFICATION Spec
CONSTANTS
  Senders = {mic}
  MaxNonce = 3
  MaxSessions = 3
  MaxSends = 4
INVARIANTS
  TypeOK
  NonceNeverReused
  KeyedUnlessOvertaken
PROPERTY
  ChannelSpec
CHECK_DEADLOCK FALSE
