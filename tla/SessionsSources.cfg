SPECIFICATION MCSpec
CONSTANTS
  c1 = c1
  c2 = c2
  c3 = c3
  u1 = u1
  u2 = u2
  u3 = u3
  a1 = a1
  a2 = a2
  NoConn = NoConn
  NoUser = NoUser
  NoAddr = NoAddr
  NoId = NoId
  Conns = {c1, c2, c3}
  Users = {u1}
  Addrs = {a1}
  V6Addrs = {}
  DualStack <- NoPairs
  SharedUsers = {}
  TakeoverFromAny = FALSE
  MaxClients = 0
  Parallel = FALSE
  Scenarios = {"any"}
SYMMETRY Symmetry
INVARIANT SourcesGoWithUser
