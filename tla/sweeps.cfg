CONSTANTS
  NoRow = NoRow
  Id = {1, 2, 3, 4}
  Limit = 2
  Kind = {"hard", "soft", "static", "functional", "archive", "stream", "descending"}
  MaxWrites = 2
  MaxRetries = 1
SPECIFICATION Spec
INVARIANTS
  NothingSkipped
PROPERTIES
  StoredBeforeRemoved
  YieldedOnce
  PassEnds
CHECK_DEADLOCK FALSE
