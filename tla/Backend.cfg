\* Three requests of one address through a process that may be killed, stopped
\* and restarted.
SPECIFICATION FairSpec
CONSTANTS
  Request = {r1, r2, r3}
  Address = {a1}
  Burst <- CheckBurst
  Limit <- CheckLimit
  Nil = Nil
  MaxTicks = 1
  MaxFaults = 1
INVARIANTS
  TypeOK
  AdmittedBounded
  NoCallAfterClose
  CutOnlyByForce
PROPERTIES
  ShutdownEnds
  ServesAgain
  ImplementsBuckets
