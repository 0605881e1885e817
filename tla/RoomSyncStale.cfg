CONSTANTS
  Peers = {p1, p2, p3}
  Sids = {c1, c2}
  NoSid = NoSid
  NoPeer = NoPeer
  Window = 1
  Slack = 1
  MaxLate = 0
  MaxJoins = 3
  Keys = {tv, hold}
  HostOwned = {tv}
  OwnerScoped = {hold}
  Values = {v1}
  NoValue = NoValue
  Cost <- MCCost
  TooBig = {}
  KeysPerPeer = 1
  KeysPerRoom = 2
  CostPerPeer = 2
  CostPerRoom = 2
  CostTotal = 2
  Restarts = FALSE
  MaxEvents = 2
SPECIFICATION SyncSpec
SYMMETRY Symmetry
INVARIANT ReplayRestores
CHECK_DEADLOCK FALSE
