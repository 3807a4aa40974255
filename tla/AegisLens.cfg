\* Five calls of the host, in any order and overlapping in every way.
SPECIFICATION Spec
CONSTANTS
  Call = {c1, c2, c3, c4, c5}
  Nil = Nil
SYMMETRY HostCalls
INVARIANTS
  TypeOK
  OneSessionPerSubmission
  SubmittedUnderRegisteredKey
  StartReturnsAnOpenedSession
  WebgazerCanBeEnded
CHECK_DEADLOCK FALSE
