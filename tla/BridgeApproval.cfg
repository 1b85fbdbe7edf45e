SPECIFICATION Spec
CONSTANTS
  t1 = t1
  a1 = a1
  chat = chat
  r1 = r1
  r2 = r2
  Null = Null
  Unknown = Unknown
  Broken = Broken
  Tasks = {t1}
  Commands = {a1}
  Chats = {chat}
  ChatOf <- OneChat
  Images = {}
  Retry = "none"
  MaxRetries = 0
  Escalates = FALSE
  Pushes = 1
  LateWatch = FALSE
  CommandsFail = TRUE
  SnapshotErrors = {}
  Silent = {"state"}
  Rests = {r1}
  MaxReplies = 2
  MaxRestarts = 0
INVARIANTS ApprovalsKeepTasks
CHECK_DEADLOCK FALSE
