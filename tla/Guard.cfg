INIT GuardInit
NEXT GuardNext
CONSTANTS
  Parts = {"budget", "admin", "history", "country", "warnings", "activity"}
  p1 = p1 p2 = p2 k1 = k1 k2 = k2 NoKey = NoKey NoBucket = NoBucket
  Callers = {p1, p2} Keys = {k1, k2} Costs = {1, 2}
  GlobalRate = 1 GlobalBurst = 2 SourceRate = 1 SourceBurst = 1
  Cap = 1 Grain = 2 MaxDelay = 1 MaxClock = 3 MaxDrops = 1
  Froms = {"loop", "a"} Tries = {1, 2} MaxFailures = 1 MaxGlobalFailures = 1 Window = 2 MaxQueuedChecks = 2
  MaxTracked = 1 MaxSessions = 1 Ttl = 2 MaxConns = 2 MaxConnsPerIp = 2 MaxTime = 3 MaxTokens = 2
  Offers <- FiveOffers Cut <- CutTo NetOf <- Nets
  NamesPerHash = 2 PubsPerName = 2 MaxPending = 2 MaxQueue = 2 MaxNoted = 3 MaxFaults = 1
  V4Bits = 2 V6Bits = 4 MappedHigh = 1 MaxDepth = 3 DecodeBudget = 100 Databases <- TheDatabases Tables <- TheTables
  Repeaters = {"p", "q"} Quiet = 2 QuietKept = 3 RingSize = 3 MaxLogged = 4 MaxRepeats = 2 MaxTick = 6
  Askers = {"x", "y"} Handlers = {1, 2} MaxSources = 1 Minute = 1 MaxMinute = 1 MaxRequests = 2 MaxResets = 2
SYMMETRY Symmetry
INVARIANTS BudgetInv RatesHeld PanelGuarded RecordsSound CountryExact
PROPERTY HistoryGrows
CHECK_DEADLOCK FALSE
