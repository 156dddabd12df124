SPECIFICATION FairSpec
CONSTANTS
  ConfigReconnectMs = 5000
  MaxHandles = 4
  Scenarios <- MCOneFailure
PROPERTY Recovers
CHECK_DEADLOCK FALSE
