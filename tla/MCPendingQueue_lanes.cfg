SPECIFICATION Spec
CONSTANTS
  r1 = r1
  r2 = r2
  r3 = r3
  r4 = r4
  control = control
  execution = execution
  Requests = {r1, r2, r3, r4}
  Lanes = {control, execution}
  LaneOf <- TwoLaneOf
  Limits <- TwoLimit
INVARIANTS
  NoStrandedWaiter
