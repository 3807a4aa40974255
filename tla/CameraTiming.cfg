\* Three analyses, with any number of cleanups between and beside them.
SPECIFICATION Spec
CONSTANTS
  c1 = c1  c2 = c2  c3 = c3
  Call = {c1, c2, c3}
  Nil = Nil
  RingSize = 8
  DeltaCounts = {0, 1, 2}
INVARIANTS
  TypeOK
  BufferBeforeAnalysis
PROPERTIES
  AbandonedOnlyByCleanup
CHECK_DEADLOCK FALSE
