CONSTANTS
  db1 = db1  db2 = db2
  w1 = w1  w2 = w2  inc = inc
  a = a  b = b  m = m
  r1 = r1  r2 = r2  k = k
  None = None
  Conn = {db1}
  Flow = {r1, r2, k}
  Root = {r1, r2, k}
  Tx = {a, b}
  Stmt = {w1}
  Gated = {w1}
  MethodTx = {}
  At <- OneConn
SPECIFICATION Spec
INVARIANT
  WaitedWriteSurvives
