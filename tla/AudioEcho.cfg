\* Every reading measures the response to its own chirp (README.md:36): refuted.
SPECIFICATION Spec
CONSTANTS
  c1 = c1  c2 = c2  c3 = c3
  Call = {c1, c2}
  Nonce <- MCNonce
  ChunkSizes <- MCChunkSizes
  MAX_BUFFER_SIZE = 3
  ChirpLength = 1
  MaxDelay = 1
  Nil = Nil
  MaxSamples = 4
  MaxFlight = 1
INVARIANTS
  EveryReadingIsItsOwn
CHECK_DEADLOCK FALSE
