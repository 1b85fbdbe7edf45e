SPECIFICATION Spec
CONSTANTS
  r1 = r1
  r2 = r2
  alice = alice
  bob = bob
  mallory = mallory
  n1 = n1
  n2 = n2
  w1 = w1
  w2 = w2
  Null = Null
  Requests = {r1}
  Approvers = {alice, bob}
  Allowlist = {}
  Nonces = {n1}
  Workers = {w1, w2}
  Channels = {"callback", "link"}
  Sources = {TRUE}
  Risks = {"L1", "L3"}
  DualApproval = TRUE
  Serialized = FALSE
  Timeout = 1
  MaxTime = 2
  MaxCrashes = 1
SYMMETRY Interchangeable
INVARIANTS IInv DualAuthority AuditTrailComplete ApprovalAttributed
PROPERTY KeepsAuthority
