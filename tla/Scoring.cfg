\* Every signal around all of its thresholds, and every reading an SDK sends.
SPECIFICATION PathSpec
CONSTANTS
  Nil = Nil
  Clients <- MCClients
  GazeHistories <- Gazes
  LipHistories <- LipTracks
  CameraHistories <- CameraTracks
  Payloads <- PathPayloads
INVARIANTS
  TypeOK
  DeductionsAreFlagged
  UnavailableIsNeutral
  MeasuredIsScored
  JudgedAlike
  SdkTelemetryIsValid
CHECK_DEADLOCK FALSE
