\* The zeros of a signal that is not available are scored.
SPECIFICATION PathSpec
CONSTANTS
  Nil = Nil
  Clients <- MCClients
  GazeHistories <- Gazes
  LipHistories <- LipTracks
  CameraHistories <- CameraTracks
  Payloads <- WirePayloads
INVARIANTS
  OnlyAvailableSignalsCount
CHECK_DEADLOCK FALSE
