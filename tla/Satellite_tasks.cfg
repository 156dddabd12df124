SPECIFICATION FairSpec
CONSTANTS
  W = 128
  MaxAlloc = 20
  MaxBody = 64
  Scenarios <- MCScenarios
  Responses <- MCResponses
  HttpCap = 56
  MaxSamples = 4
  RingSize = 3
  IdleSlack = 1
  PlayChunk = 2
  VolStep = 70
  VolDefault = 70
INVARIANTS TypeOK WholeReplies ReadsInside NeverLouder
PROPERTIES MuteIsShown RedEnds SpeakingEnds ReplyIsHeard
