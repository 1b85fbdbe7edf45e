SPECIFICATION Spec
CONSTANTS
  c1 = c1
  c2 = c2
  c3 = c3
  Calls = {c1, c2}
  MaxItems = 1
  Retention = 2
  PollTimeout = 1
  MaxTime = 2
  MaxFaults = 0
INVARIANT FallbackOnlyWithoutTask
CHECK_DEADLOCK FALSE
