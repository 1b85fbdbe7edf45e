SPECIFICATION Spec
CONSTANTS
  h1 = h1
  h2 = h2
  leader = leader
  collab = collab
  other = other
  s1 = s1
  s2 = s2
  home = home
  ack = ack
  None = None
  NoTag = NoTag
  Missing = Missing
  Broken = Broken
  Leader = leader
  Collab = collab
  Tables <- SomeTables
  MaxEdits = 1
  WindowSize = 2
  FreshSize = 1
  StableSize = 0
  ArchiveSize = 0
  Handlers = {h1, h2}
  Commands = {h1}
  WithCollab = {h1}
  Override = {h2}
  Captures = TRUE
  Unreliable = {collab}
INVARIANTS DispatchInv SharedByConsent AnswerHonest RetriedOnce
CHECK_DEADLOCK FALSE
