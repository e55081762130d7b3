SPECIFICATION FairSpec
CONSTANTS
  Requests = {r1, r2, r3}
  Replicas = {p1, p2}
  Bodies = {b1, b2}
  None = None
  Modes = {TRUE, FALSE}
  FaultKinds = {"storage", "slow", "crash", "disconnect"}
  MaxFaults = 2
  MaxLapses = 0
CHECK_DEADLOCK FALSE
INVARIANTS
  LocalExclusive
PROPERTIES
  StoredByClaimant
  WaitersAnswered
