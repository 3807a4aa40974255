\* One session, two overlapping verify requests, three ticks, a Redis restart.
SPECIFICATION FairSpec
CONSTANTS
  i1 = i1  k1 = k1  k2 = k2  badKey = badKey  f1 = f1  f2 = f2
  v1 = v1  v2 = v2
  InitReq = {i1}
  VerifyReq = {v1, v2}
  Key <- MCKeys
  ParseableKey <- MCParseable
  Fingerprint = {f1, f2}
  Empty = Empty
  Absent = Absent
  InitBodies <- OneBodies
  Submissions <- OneSubmissions
  SessionTTL = 2
  MaxClockSkew = 1
  MaxTime = 3
  MaxRestarts = 1
INVARIANTS
  TypeOK
  AuthenticVerdict
  NoReplayAfterBurn
  FreshVerdict
  RefusedOnlyIfBurnt
PROPERTIES
  SessionOpensOnce
  ImplementsGuard
  EveryRequestEnds
