SPECIFICATION FairSpec
CONSTANTS
  g1 = g1
  w1 = w1
  Null = Null
  WarmText = WarmText
  Calls = {g1, w1}
  TimedCalls = {g1}
  WarmCalls = {w1}
  FailClose = FALSE
  TmuxFails = TRUE
  MaxLog = 1
INVARIANTS SessionInv RunsBounded QueuedWasSent
PROPERTIES CallsEnd
CHECK_DEADLOCK FALSE
