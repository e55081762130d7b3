SPECIFICATION Spec
CONSTANTS
  w1 = w1
  w2 = w2
  i1 = i1
  i2 = i2
  web = web
  nobody = nobody
  Workers <- MCWorkers
  Ids <- MCIds
  IdOf <- OwnIds
  Web = web
  Nobody = nobody
  MaxAttempts = 2
  FinalTries = 2
  FaultKinds = {"crash", "lock"}
  MaxFaults = 2
  MaxClaims = 3
  MaxCancels = 0
  MaxExpiries = 0
  StallPoints <- Prompt
  LossPoints <- Noticed
CHECK_DEADLOCK FALSE
INVARIANTS
  TypeOK AtMostOnce
PROPERTIES
  DeliveredSurvives ImplementsContract
