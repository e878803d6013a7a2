INIT Init
NEXT Next
CONSTANTS
  Parts = {"publish", "pace", "content", "sources", "query", "lane", "index", "wire", "request", "postings"}
  Hashes = {"x", "y", "p", "f", "g"} Verdict <- Verdicts Threshold = 1 Soft = 1 HardLimit = 3
  MaxBatch = 3 MaxOffers = 2 Conns = {1, 2}
  Pubs = {"p", "q"} Sizes = {2} BatchMax = 2 MinInterval = 2 CostCap = 20 Ceilings = {0, 1, 2} Second = 2
  MaxNow = 3 MaxCeilings = 1 MaxOffered = 3
  FHashes = {"h", "i"} Listable = {"h"} Names = {"term", "mojibake"} InName <- In Recovered <- Rec
  Readers = {"r"} CacheMax = 1 MaxPublishes = 2
  Srcs = {"a", "b", "c"} CanBe <- Can Lan = {"c"} Six = {"c"} SixAware = {"c"}
  MaxReply = 1 Scan = 2 UdpScan = 2 UdpMax = 1 MaxEntries = 1 MaxMoves = 4
  QueryTrees <- Trees Catalogues <- ThreeCatalogues Starred = {"st"} Stop = {"the"} Holds <- InStarred
  MaxResults = 2 UdpResults = 1 RankScan = 3 UnindexedScan = 3
  TcpCallers = {1, 2} UdpCallers = {3, 4} MaxJobs = 1 MaxQueuedTcp = 1 MaxQueuedUdp = 1 MaxFound = 3
  PageSizes = {1, 2}
  u1 = u1 u2 = u2 h1 = h1 h2 = h2 i1 = i1 i2 = i2 NoHash = NoHash NoSize = NoSize NoId = NoId
  Users = {u1, u2} IndexHashes = {h1, h2} IndexSizes = {1, 2} SlabIds = {i1, i2}
  Janitors = {"sweep", "purge"} SlowCheck = FALSE
  Messages <- TheMessages MaxText = 5
  Asks <- TheAsks Word = 8 MaxFileSize = 40 PartSize = 3 Stored <- TheSizes MaxSingle = 2 MaxMulti = 4
  Tokens = {3, 5, 9} FileIds = {0, 3, 20, 31} TokensOf <- TokensIn Lookups <- TheLookups
  DigitBits = 2 WordBits = 5 MaxEdits = 4
SYMMETRY Symmetry
INVARIANTS PublishLimits PaceHeld FilterExact QueriesAnswered LaneSound FilesSound MessagesRead
PROPERTIES AnswersSound
CHECK_DEADLOCK FALSE
