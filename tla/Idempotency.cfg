SPECIFICATION Spec
CONSTANTS
  Requests = {r1, r2, r3}
  Replicas = {p1, p2}
  Bodies = {b1, b2}
  None = None
  Modes = {TRUE, FALSE}
  FaultKinds = {"crash", "full", "disconnect"}
  MaxFaults = 1
  MaxLapses = 1
CHECK_DEADLOCK FALSE
SYMMETRY Symmetric
INVARIANTS
  Exclusive
  EffectOnce
  ReplayMatches
