SPECIFICATION SystemSpec
CONSTANTS
  r1 = r1
  r2 = r2
  alice = alice
  bob = bob
  mallory = mallory
  n1 = n1
  w1 = w1
  w2 = w2
  Null = Null
  Requests = {r1}
  Approvers = {alice, bob, mallory}
  Allowlist = {alice, bob}
  Nonces = {n1}
  Workers = {w1}
  Channels = {"callback", "trusted"}
  Sources = {TRUE, FALSE}
  Risks = {"L1", "L3"}
  DualApproval = TRUE
  Serialized = TRUE
  Timeout = 1
  MaxTime = 2
  MaxCrashes = 1
  PollTimeout = 1
  FallbackAction = "ESC"
INVARIANT EnterMeansApproved
PROPERTIES KeepsContract BlockedIsFinal
SYMMETRY Interchangeable
