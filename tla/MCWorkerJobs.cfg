SPECIFICATION MCSpec
CONSTANTS
  w1 = w1
  w2 = w2
  qC = qC
  qX = qX
  qY = qY
  d1 = d1
  d2 = d2
  None = None
  Requests = {qX, qY, qC}
  Workers = {w1, w2}
  Repeatable = {qC}
  Lanes <- LanesDef
  Lane <- LaneDef
  PendingLimit <- PendingLimitDef
  QueueCapacity <- QueueCapacityDef
  DsJobs = {d1, d2}
  DsNobody = None
  DsMaxExits = 1
INVARIANTS
  TypeOK
  SlotsConserved
  RepeatedSafely
  ControlReserve
  DsOneProcess
PROPERTIES
  DeliverySpec
  Answered
  DsJobEnds
CHECK_DEADLOCK FALSE
