SPECIFICATION MCSpec
CONSTANTS
  A = A
  B = B
  k1 = k1
  p1 = p1
  p2 = p2
  p3 = p3
  w1 = w1
  w2 = w2
  sA = sA
  sB = sB
  c1 = c1
  c2 = c2
  dA1 = dA1
  dA2 = dA2
  dA3 = dA3
  dB1 = dB1
  q1 = q1
  None = None
  Devices = {A, B}
  Workers = {w1, w2}
  Sessions = {sA}
  Controls = {c1, c2}
  Conns = {dA1, dA2, dA3}
  Requests = {q1}
  Pools = {p1, p2, p3}
  Keys = {k1}
  MaxConnections = 2
  MaxGeneration = 2
  Word = 8
  WorkerDevice <- WorkerDeviceDef
  WorkerKey <- WorkerKeyDef
  SessionDevice <- SessionDeviceDef
  ConnSession <- ConnSessionDef
SYMMETRY PoolSymmetry
INVARIANTS
  ServedByOwner
  WorkersCounted
  SessionAccounted
PROPERTIES
  GracePerDetachment
  LiveOwnerKeepsRoute
CHECK_DEADLOCK FALSE
