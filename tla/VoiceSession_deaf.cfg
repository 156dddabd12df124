CONSTANTS
  Modes <- MCStreaming
  Chunk = 480
  FeedChunk = 480
  FetchChunk = 480
  MicWords = 512
  RecMax = 240000
  MaxSilence = 2
SPECIFICATION FairSpec
PROPERTIES SpeechIsHeard
CHECK_DEADLOCK FALSE
