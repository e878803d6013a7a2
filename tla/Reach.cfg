INIT Init
NEXT Next
CONSTANTS
  Parts = {"sockets", "id", "ipv6", "nat", "punch", "peers", "seeds", "stream", "udp", "greeting"}
  Users = {"pub", "zero", "lan"} HighOf <- HighIds V6 = {} Lan = {"lan"} ThisIp = 30 Odd = {"zero"}
  LowTop = 5 MaxProbes = 2 MaxChecks = 2 MaxMarks = 1 Downgrade = TRUE Observe = FALSE MaxAssigned = 7
  Addrs6 = {"a", "b"} MaxDials = 2 MaxChanges = 4
  Places = {"a", "b"} MaxSessions = 2 MaxSent = 3
  Peers = {p1, p2} HighPeers = {p1} V4Peers = {p1} Ext = {p1, p2} Lug = {p1, p2} Announce = {p1}
  Clash = {} Foreign = {f1} MaxRetryTasks = 2 WakesPerMin = 1 Askers = {p1} MaxLogins = 3
  Servers <- ThreeServers Running <- AllButPhantom Me = 9 MyPort = 20 SeedServers <- OneServer ClientIps = {2} ListCap = 2
  Registrants <- SecondServer Nobody = Nobody
  Conns = {1, 2, 3} Sources = {"a", "lo"} Loopback = {"lo"} MaxPerIp = 2 MaxOpen = 2 MaxPending = 2 MaxPerSource = 1
  Addrs = {"a", "b"} NetOf <- OneNet Clients = {"c", "d"} Exits <- LeavesBy SessAt <- LogsInAt NattOf <- NoNatt
  UdpServers = {"s", "t"} At <- SameAddress PingSizes = {4, 9, 19} MaxPings = 2
  LoginConns = {"c1", "c2"} LoginUsers = {"u1"} LoginAddrs = {"a1", "a2"} V6Addrs = {"a2"} DualStack <- DualStackMove
  SharedUsers = {} TakeoverFromAny = FALSE MaxClients = 1 Parallel = FALSE
  Visitors <- TheVisitors Settings <- TheSettings BoundPort = 1 Batches = {1, 3}
  MaxEdits = 1 MaxRelays = 1 MaxInbox = 1
  NoConn = NoConn NoUser = NoUser NoAddr = NoAddr NoId = NoId
  MaxPad = 1 AckRoom = 5 MaxFrame = 3 MaxInflated = 2 Chunk = 2 Threshold = 1 Answers <- TwoAnswers
  Scripts <- FiveScripts
  Seeds = {s1, s2} MaxFailures = 2 MaxReloads = 3
INVARIANTS
  SocketsCounted IdsGiven PublishedAnswered ProvenAddress WaitersListed ListSound StreamFaithful ClientsTold
PROPERTIES SeedsFollowConfig ChannelsWork
CHECK_DEADLOCK FALSE
