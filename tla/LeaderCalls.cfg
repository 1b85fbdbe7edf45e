SPECIFICATION Spec
CONSTANTS
  c1 = c1
  c2 = c2
  c3 = c3
  Calls = {c1, c2}
  MaxItems = 1
  Retention = 0
  PollTimeout = 1
  MaxTime = 1
  MaxFaults = 1
SYMMETRY Interchangeable
INVARIANTS LeaderInv TableBounded RerunOnlyAfterLoss AnswerTruthful
PROPERTY TaskLifecycle
CHECK_DEADLOCK FALSE
