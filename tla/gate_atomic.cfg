CONSTANTS
  db1 = db1  db2 = db2
  w1 = w1  w2 = w2  inc = inc
  a = a  b = b  m = m
  r1 = r1  r2 = r2  k = k
  None = None
  Conn = {db1, db2}
  Flow = {r1, r2}
  Root = {r1, r2}
  Tx = {a, b, m}
  Stmt = {w1, w2}
  Gated = {w1, w2}
  MethodTx = {m}
  At <- TwoConns
SPECIFICATION DisciplinedSpec
INVARIANTS
  RolledBackLeavesNothing
PROPERTIES
  ImplementsAtomicTransactions
\* Two connections: a flow may block itself (README, Disagreements).
CHECK_DEADLOCK FALSE
