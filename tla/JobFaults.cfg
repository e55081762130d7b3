SPECIFICATION Spec
CONSTANTS
  w1 = w1
  w2 = w2
  i1 = i1
  i2 = i2
  web = web
  nobody = nobody
  Workers <- MCWorkers
  Ids <- MCIds
  IdOf <- OwnIds
  Web = web
  Nobody = nobody
  MaxAttempts = 2
  FinalTries = 2
  FaultKinds = {"crash", "storage", "redis", "callback", "outage"}
  MaxFaults = 1
  MaxClaims = 2
  MaxCancels = 1
  MaxExpiries = 1
  StallPoints <- Prompt
  LossPoints <- Points
CHECK_DEADLOCK FALSE
INVARIANTS
  CancelDurable CompletedWasSent
PROPERTIES
  TerminalStays
