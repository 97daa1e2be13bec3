SPECIFICATION MCSpec
CONSTANTS
  s1 = s1
  pA = pA
  pB = pB
  rA = rA
  rB = rB
  rA2 = rA2
  jA = jA
  jB = jB
  None = None
  Slots = {s1}
  Pools = {pA, pB}
  RouteIds = {rA, rB}
  RegisteredFirst = {rA, rB}
  Jobs = {jA, jB}
  MaxDetaches = 0
  MaxUnregisters = 0
  MaxGiveUps = 0
  ConnectionFails = FALSE
  RoutePool <- RoutePoolDef
  JobPool <- JobPoolDef
INVARIANTS
  ClaimHasHolder
CHECK_DEADLOCK FALSE
