CONSTANTS
  p = p  q = q  r = r  u1 = u1  u2 = u2
  Release = Release  None = None
  Page = {p, q}
  Unit = {u1}
  MaxAsks = 1
SPECIFICATION FairSpec
INVARIANTS
  OneWriter
  OutcomesAreTrue
  ReleaseDrains
PROPERTIES
  CallSettles
  
\* Every page may be gone and every call made.
CHECK_DEADLOCK FALSE
