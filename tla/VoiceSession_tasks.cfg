CONSTANTS
  Modes <- MCModes
  Chunk = 2
  FeedChunk = 2
  FetchChunk = 2
  MicWords = 4
  RecMax = 3
  MaxSilence = 2
SPECIFICATION FairSpec
INVARIANTS TypeOK InBuffer
PROPERTIES MuteEndsSession SessionEnds SpeechIsHeard
CHECK_DEADLOCK FALSE
