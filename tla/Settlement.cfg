SPECIFICATION SettlementSpec
CONSTANTS
  w1 = w1
  w2 = w2
  i1 = i1
  i2 = i2
  web = web
  nobody = nobody
  Workers <- MCWorkers
  Ids <- MCIds
  IdOf <- OwnIds
  Web = web
  Nobody = nobody
  MaxAttempts = 2
  FinalTries = 2
  FaultKinds = {"crash", "storage", "redis", "callback"}
  MaxFaults = 1
  MaxClaims = 4
  MaxCancels = 0
  MaxExpiries = 0
  StallPoints <- Prompt
  LossPoints <- Noticed
  Sweepers = {p}
  SignalCount = 2
  WindowCount = 2
  BatchLimit = 1
  EquitySignals = {2}
  MaxOutcomeFaults = 2
CHECK_DEADLOCK FALSE
PROPERTIES
  JobsSettle SignalsClosed
