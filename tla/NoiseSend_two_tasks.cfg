SPECIFICATION Spec
CONSTANTS
  Senders = {mic1, mic2}
  MaxNonce = 3
  MaxSessions = 2
  MaxSends = 4
INVARIANT
  NonceNeverReused
CHECK_DEADLOCK FALSE
