CONSTANTS
  p = p  q = q  r = r  u1 = u1  u2 = u2
  Release = Release  None = None
  Page = {p, q}
  Unit = {u1}
  MaxAsks = 1
SPECIFICATION SingleTakeovers
INVARIANT
  OwnerRuns
CHECK_DEADLOCK FALSE
