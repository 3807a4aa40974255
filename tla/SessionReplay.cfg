\* One verdict per session, as session-verify.go:382 has it: refuted.
SPECIFICATION Spec
CONSTANTS
  i1 = i1  k1 = k1  k2 = k2  badKey = badKey  f1 = f1  f2 = f2
  v1 = v1  v2 = v2
  InitReq = {i1}
  VerifyReq = {v1, v2}
  Key <- MCKeys
  ParseableKey <- MCParseable
  Fingerprint = {f1, f2}
  Empty = Empty
  Absent = Absent
  InitBodies <- OneBodies
  Submissions <- HonestSubmissions
  SessionTTL = 2
  MaxClockSkew = 1
  MaxTime = 1
  MaxRestarts = 0
INVARIANTS
  AtMostOneVerdict
