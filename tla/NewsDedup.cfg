SPECIFICATION Spec
CONSTANTS
  Requests = {r1, r2, r3}
  Replicas = {p1, p2}
  Channels = {c1, c2}
  None = None
  Modes = {TRUE, FALSE}
  FaultKinds = {"storage", "crash", "slow"}
  MaxFaults = 1
  MaxLapses = 1
  Windows = {}
CHECK_DEADLOCK FALSE
SYMMETRY Symmetric
INVARIANTS
  AlertOnce OneSender OneReplica
PROPERTIES
  ResultsKept
