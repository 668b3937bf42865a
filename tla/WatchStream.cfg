SPECIFICATION FairSpec
CONSTANTS
  k1 = k1
  r1 = r1
  r2 = r2
  Keys = {k1}
  Reads = {r1, r2}
  Unknown = Unknown
  MaxVersion = 1
  MaxFaults = 1
CHECK_DEADLOCK FALSE
PROPERTIES
  AnsweredUnlessMiscounted
INVARIANTS
  LayersAgree
  OneCallback
  NoAssertFails
  SyncedIsFresh
  NoLimbo
