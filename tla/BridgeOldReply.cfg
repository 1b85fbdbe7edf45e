SPECIFICATION Spec
CONSTANTS
  t1 = t1
  a1 = a1
  chat = chat
  r1 = r1
  r2 = r2
  Null = Null
  Unknown = Unknown
  Broken = Broken
  Tasks = {t1}
  Commands = {}
  Chats = {chat}
  ChatOf <- OneChat
  Images = {}
  Retry = "none"
  MaxRetries = 0
  Escalates = FALSE
  Pushes = 1
  LateWatch = FALSE
  CommandsFail = FALSE
  SnapshotErrors = {}
  Silent = {"rest"}
  Rests = {r1, r2}
  MaxReplies = 1
  MaxRestarts = 0
INVARIANTS OldRepliesNotReported
CHECK_DEADLOCK FALSE
