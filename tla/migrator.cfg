CONSTANTS
  old = old  new = new
  None = None
  Name = {1, 2, 3}
  Byte <- SameOrder
  Process = {old, new}
  Provided <- Deployed
  Reversible = {2, 3}
  Tolerant = {2}
  Downs = 2
SPECIFICATION OrderlySpec
INVARIANTS
  TrackedIsApplied
  RunOnce
  AppliedInOrder
PROPERTIES
  UpCompletes
