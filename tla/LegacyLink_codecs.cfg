SPECIFICATION Spec
CONSTANTS
  PreferredEncoding = "HEX"
  PreferredCipher = "AES-GCM"
  Named <- MCNamed
  Random <- MCRandom
  Envelopes <- MCEnvelopes
  Ciphertexts <- MCCiphertexts
  Frames <- MCFrames
  JsonTexts <- MCJsonTexts
  HasBinaryCb = TRUE
  WsBuffer = 109
  Sizes <- MCSizes
  MaxSessions = 2
  MaxSeals = 1
INVARIANTS TypeOK Authentic TextComesBack FrameComesBack InBounds SendsFit
CHECK_DEADLOCK FALSE
