SPECIFICATION ServicesSpec
CONSTANTS
  Presets = {x, y}
  OwnPresets = {x}
  PresetOps = {o1, o2, o3}
  NoOp = NoOp
  MaxPresetFaults = 1
  OrderRequests = {q1, q2}
  OrderIds = {id1}
  OrderBodies = {"good", "bad", "other"}
  SymbolOf <- BodySymbol
  GoodOrders = {"good", "other"}
  NoId = NoId
  NoBody = NoBody
  MaxOrderFaults = 2
  Sweepers = {p}
  SignalCount = 2
  WindowCount = 2
  BatchLimit = 1
  EquitySignals = {2}
  MaxOutcomeFaults = 2
  Deliveries = {d1, d2}
  CallbackWorkers = {w}
  CallbackWebs = {v}
  CallbackEvents = {"done"}
  NoDelivery = NoDelivery
  MaxTries = 2
  MaxCallbackFaults = 1
  LocalJobs = {j1, j2}
  AlertCount = 3
  TicksPerMs = 2
  LastTick = 2
  PageSize = 1
  MaxPageSize = 2
  ReportLimit = 2
  MaxWindow = 1
  MaxAged = 1
  MaxParts = 2
  WhatsAppTries = 3
  DiscordRetries = 1
  MaxSendFaults = 1
  RefreshInterval = 2
  LoadTimeout = 1
  MaxAge = 3
  MaxVersion = 2
  LastSecond = 6
  SymbolCount = 2
  NewsTimeout = 3
  QuotaRetries = 1
  QuotaDelays = {2}
  AzureTries = 2
  Thresholds = {50, 51}
  MaxOther429 = 1
  LastNow = 4
  Budgets = {1000, 12000}
  RetryLimits = {4}
  CallTimeouts = {12000}
CHECK_DEADLOCK FALSE
INVARIANTS
  ServicesTypeOK PresetsSafe OrdersSafe
  CallbackOnce NoJobLeftOpen CallbackTellsStatus ReportComplete PartOnce
  OverridesFresh BatchInTime AlertsHaveSources
  RetriesFitBudget AlertTellsTruth
PROPERTIES
  NoOlderWrite ResolvedStays AbortStops QuotaRespected
