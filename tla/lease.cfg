CONSTANTS
  c1 = c1  c2 = c2  c3 = c3  p1 = p1  p2 = p2
  None = None
  Row = {1}
  Claim = {c1, c2}
  Reaper = {p1, p2}
  Status = {"pending", "processing", "done", "failed", "cancelled"}
  DeadLeaseStatuses = {"processing"}
  FinalStatuses = {"done", "pending"}
  Due <- DueInOrder
  Durations = {1, 2}
  MaxAttempts = 2
  ReapLimit = 2
  Horizon = 3
SPECIFICATION FairSpec
INVARIANTS
  OneLiveHolder
  ReapedOnce
PROPERTIES
  TerminalStays
  AbandonedRecovered
\* Every claim may be over and every reaper idle at the horizon.
CHECK_DEADLOCK FALSE
