SPECIFICATION FairSpec
CONSTANTS
  ConfigReconnectMs = 5000
  MaxHandles = 9
  Scenarios <- MCScenarios
INVARIANTS TypeOK HandlesSound
PROPERTIES RecoversUnlessFailed DisconnectIsComplete
CHECK_DEADLOCK FALSE
