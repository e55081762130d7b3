SPECIFICATION Spec
CONSTANTS
  Requests = {r1, r2, r3}
  Replicas = {p1, p2}
  Channels = {c1, c2}
  None = None
  Modes = {TRUE}
  FaultKinds = {}
  MaxFaults = 0
  MaxLapses = 0
  Windows = {}
CHECK_DEADLOCK FALSE
SYMMETRY Symmetric
INVARIANTS
  DeliveredOnce
