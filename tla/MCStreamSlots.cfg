SPECIFICATION MCSpec
CONSTANTS
  s1 = s1
  pA = pA
  pB = pB
  rA = rA
  rB = rB
  rA2 = rA2
  jA = jA
  jB = jB
  None = None
  Slots = {s1}
  Pools = {pA, pB}
  RouteIds = {rA, rB, rA2}
  RegisteredFirst = {rA}
  Jobs = {jA, jB}
  MaxDetaches = 1
  MaxUnregisters = 1
  MaxGiveUps = 1
  ConnectionFails = TRUE
  RoutePool <- RoutePoolDef
  JobPool <- JobPoolDef
INVARIANTS
  TypeOK
  ExclusiveClaim
  FreeSlotOffered
  JobConservation
PROPERTIES
  DeliverySpec
  DetachedIsResolved
  GivenUpFinishes
CHECK_DEADLOCK FALSE
