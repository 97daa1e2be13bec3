SPECIFICATION MCSpec
CONSTANTS
  DsJobs = {d1, d2}
  DsNobody = None
  DsMaxExits = 1
PROPERTIES
  DsRestartServes
CHECK_DEADLOCK FALSE
