\* Three collections of three samples, with video frame callbacks and without.
SPECIFICATION FairSpec
CONSTANTS
  MaxSamples = 3
  Gaps = {1, 2}
  h1 = h1  h2 = h2  h3 = h3  h4 = h4
  Handles = {h1, h2, h3, h4}
  Nil = Nil
  MaxStarts = 3
INVARIANTS
  TypeOK
  DeltasMatchTimings
  SamplesBounded
  FirstRunHasDistinctFrames
PROPERTIES
  CollectionEnds
CHECK_DEADLOCK FALSE
