SPECIFICATION UpkeepSpec
CONSTANTS
  t1 = t1
  chat = chat
  r1 = r1
  Null = Null
  Unknown = Unknown
  Broken = Broken
  Tasks = {t1}
  Commands = {}
  Chats = {chat}
  ChatOf <- OneChat
  Images = {t1}
  Retry = "reason"
  MaxRetries = 1
  Escalates = TRUE
  Pushes = 0
  LateWatch = TRUE
  CommandsFail = TRUE
  SnapshotErrors = {"leader"}
  Silent = {"state"}
  Rests = {r1}
  MaxReplies = 1
  MaxRestarts = 0
  a1 = a1
  m1 = m1
  q1 = q1
  NoMessage = NoMessage
  MessageIds = {a1, m1, q1}
  Refused = {}
  Questions = {q1}
  Approvals = {a1}
  Named <- NoNames
  Ttl = 1
  MaxItems = 1
  MaxWorkers = 2
  MaxTaken = 3
  MaxRequests = 1
  MaxLosses = 1
  MaxExits = 1
  Threshold = 1
  MinIdle = 2
  Cooldown = 2
  Triggers = {"WAITING_INPUT", "WAITING_OR_STOPPED", "STOPPED"}
  MaxWatchCrashes = 1
  FailureStreak = 2
  GuardStreak = 2
  Retries = 2
  MaxFaults = 2
INVARIANTS UpkeepInv InboundInv ActedOnce HandledMeansDecided TakenDownForReason
PROPERTIES ThreadsEnd CooldownKept StallAnswered StackRecoversInFocus StreamReplaced
CHECK_DEADLOCK FALSE
