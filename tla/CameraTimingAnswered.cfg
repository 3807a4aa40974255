\* What worker-bridge.ts:4 promises: refuted.
SPECIFICATION FairSpec
CONSTANTS
  c1 = c1  c2 = c2  c3 = c3
  Call = {c1}
  Nil = Nil
  RingSize = 8
  DeltaCounts = {1, 2}
PROPERTIES
  DeltasAreAnalysed
CHECK_DEADLOCK FALSE
