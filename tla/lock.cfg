CONSTANTS
  g = g  h = h
  Nobody = Nobody
  Holder = {g, h}
  Reliable = {g}
  Skew <- OneAhead
  Drift = 1
  Lease <- Leases
  LastTime = 5
SPECIFICATION FairLockSpec
INVARIANTS
  MutualExclusion
PROPERTIES
  LapsedLockTaken
