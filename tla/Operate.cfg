SPECIFICATION Spec
CONSTANTS
  Parts = {"bots", "updates", "lists", "tls"}
  Addrs = {a1} V4 = {a1} Exempt = {} Adds = TRUE UniformAction = "throttle" ScanAction = "ban"
  HammerAction = "log" MaxReplaced = 1 MaxRestarts = 1
  Runs = {1} Published <- TwoLists HandMade <- OperatorsFiles Keep = 1 KeepHalf = TRUE MaxStops = 1 MaxOwnEdits = 1 MaxTroubles = 1
  Files = {1, 2} MaxEdits = 3 MaxForced = 1
  LeafDays = 3 RenewDays = 2 NameLists = {"n", "m"} MaxDay = 4 MaxPairs = 4 MaxCrashes = 2
INVARIANTS BotsKnown UpdatesSound OwnPairGood
PROPERTIES ListsApplied FilesServed
CHECK_DEADLOCK FALSE
