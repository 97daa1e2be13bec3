SPECIFICATION MCSpec
CONSTANTS
  e1 = e1
  e2 = e2
  e3 = e3
  d1 = d1
  d2 = d2
  k1 = k1
  k2 = k2
  A = A
  B = B
  mcp = mcp
  actions = actions
  n1 = n1
  f1 = f1
  f2 = f2
  h1 = h1
  h2 = h2
  h3 = h3
  h4 = h4
  t1 = t1
  t2 = t2
  None = None
  Codes = {e2, e3}
  Devices = {d1, d2}
  PublicKeys = {k1, k2}
  Clients = {A, B}
  Services = {mcp, actions}
  Connections = {n1}
  MaxCrashes = 2
  CliRevokes = FALSE
  PatchFiles = {f1, f2}
  PatchMaxEdits = 2
  PatchRemovesFirst = TRUE
  HtTasks = {t1, t2}
  HtCalls = {h1, h2, h3, h4}
  HtNobody = None
  CodeClient <- CodeClientDef
  CodeServices <- CodeServicesDef
INVARIANTS
  GrantsFollowRows
  CacheIsTable
  
  PatchWholeOrUndone
PROPERTIES
  AccessSpec
  RevokedIsRefused
  CliRestartRefuses
  PatchKeepsEarlierEdits
CHECK_DEADLOCK FALSE
