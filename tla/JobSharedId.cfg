SPECIFICATION Spec
CONSTANTS
  w1 = w1
  w2 = w2
  i1 = i1
  i2 = i2
  web = web
  nobody = nobody
  Workers <- MCWorkers
  Ids <- MCIds
  IdOf <- SharedId
  Web = web
  Nobody = nobody
  MaxAttempts = 2
  FinalTries = 2
  FaultKinds = {"lock", "storage", "crash"}
  MaxFaults = 1
  MaxClaims = 3
  MaxCancels = 0
  MaxExpiries = 0
  StallPoints <- PromptLoad
  LossPoints <- Points
CHECK_DEADLOCK FALSE
INVARIANTS
  MarkedWhileSending
PROPERTIES
  CheckpointKept NoClaimTheft DeliveredSurvives
