\* Two analyses, overlapping in every way, and a window of three samples.
SPECIFICATION FairSpec
CONSTANTS
  c1 = c1  c2 = c2  c3 = c3
  Call = {c1, c2}
  Nonce <- MCNonce
  ChunkSizes <- MCChunkSizes
  MAX_BUFFER_SIZE = 3
  ChirpLength = 1
  MaxDelay = 1
  Nil = Nil
  MaxSamples = 5
  MaxFlight = 1
INVARIANTS
  TypeOK
  StaleReadingsAreBounded
  RecordsOnlyForACall
  MicrophoneIsReleased
PROPERTIES
  StreamIsLetGo
CHECK_DEADLOCK FALSE
