SPECIFICATION Spec
CONSTANTS
  e1 = e1
  e2 = e2
  e3 = e3
  d1 = d1
  d2 = d2
  k1 = k1
  k2 = k2
  A = A
  B = B
  mcp = mcp
  actions = actions
  n1 = n1
  None = None
  Codes = {e1}
  Devices = {d1}
  PublicKeys = {k1}
  Clients = {A, B}
  Services = {mcp}
  Connections = {n1}
  MaxCrashes = 0
  CliRevokes = TRUE
  CodeClient <- CodeClientDef
  CodeServices <- CodeServicesDef
PROPERTIES
  RevokedIsRefused
CHECK_DEADLOCK FALSE
