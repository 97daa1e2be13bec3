SPECIFICATION MCSpec
CONSTANTS
  h1 = h1
  h2 = h2
  h3 = h3
  h4 = h4
  t1 = t1
  t2 = t2
  HtTasks = {t1, t2}
  HtCalls = {h1, h2, h3, h4}
  HtNobody = None
  None = None
INVARIANTS
  HtOneCurrent
CHECK_DEADLOCK FALSE
