SPECIFICATION MCSpec
CONSTANTS
  c1 = c1
  c2 = c2
  c3 = c3
  e1 = e1
  e2 = e2
  e3 = e3
  r1 = r1
  r2 = r2
  r3 = r3
  r4 = r4
  r5 = r5
  control = control
  execution = execution
  None = None
  HubServices = {"mcp", "actions"}
  HubMaxCommands = 3
  HubMaxLosses = 2
  HubMaxRefusals = 1
  RtCommands = {c1, c2, c3}
  RtNobody = None
  ExCalls = {e1, e2, e3}
  ExNobody = None
  ExLimit = 1
  Requests = {r1, r2, r3, r4, r5}
  Lanes = {control, execution}
  LaneOf <- MostlyExecutionOf
  Limits <- MostlyExecutionLimit
INVARIANTS
  TypeOK
  SlotAccounting
  NoStrandedWaiter
  HubRoutesAgree
  RtServingIsRecorded
  ExOneProcess
  ExLoggedOnce
PROPERTIES
  RoomIsTaken
  HubRecovers
  RtStopEnds
  ExAbandonedEnds
CHECK_DEADLOCK FALSE
