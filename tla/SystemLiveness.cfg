SPECIFICATION FairSystemSpec
CONSTANTS
  r1 = r1
  r2 = r2
  alice = alice
  bob = bob
  mallory = mallory
  n1 = n1
  w1 = w1
  w2 = w2
  Null = Null
  Requests = {r1}
  Approvers = {alice, bob}
  Allowlist = {}
  Nonces = {n1}
  Workers = {w1}
  Channels = {"link"}
  Sources = {TRUE, FALSE}
  Risks = {"L3"}
  DualApproval = TRUE
  Serialized = FALSE
  Timeout = 1
  MaxTime = 2
  MaxCrashes = 1
  PollTimeout = 2
  FallbackAction = "APPROVAL"
INVARIANT ScreenAuthority
PROPERTIES PromptAnswered EventuallySettled TerminalReleased
