SPECIFICATION Spec
CONSTANTS
  t1 = t1
  a1 = a1
  chat = chat
  r1 = r1
  r2 = r2
  Null = Null
  Unknown = Unknown
  Broken = Broken
  Tasks = {t1}
  Commands = {a1}
  Chats = {chat}
  ChatOf <- OneChat
  Images = {t1}
  Retry = "reason"
  MaxRetries = 1
  Escalates = TRUE
  Pushes = 1
  LateWatch = TRUE
  CommandsFail = TRUE
  SnapshotErrors = {}
  Silent = {"rest"}
  Rests = {r1, r2}
  MaxReplies = 2
  MaxRestarts = 1
SYMMETRY RestsAlike
INVARIANTS BridgeInv CommandsBounded QuietAfterConclusion OvertakenAtMostOnce ResultsFollowChange
CHECK_DEADLOCK FALSE
