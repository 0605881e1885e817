CONSTANTS
  Peers = {p1, p2, p3}
  Sids = {s1}
  NoSid = NoSid
  NoPeer = NoPeer
  Window = 1
  Slack = 1
  MaxLate = 3
  MaxJoins = 3
  Keys = {tv, hold, pad}
  HostOwned = {tv}
  OwnerScoped = {hold, pad}
  Values <- MCValues
  NoValue = NoValue
  Cost <- MCCost
  TooBig <- MCTooBig
  KeysPerPeer = 1
  KeysPerRoom = 2
  CostPerPeer = 2
  CostPerRoom = 3
  CostTotal = 4
SPECIFICATION HubSpec
SYMMETRY Symmetry
INVARIANTS
  StateTypeOK
  KeyTalliesExact
  CostTalliesExact
  WithinBudgets
  NoOrphanGrip
  EmptyRoomIsForgotten
PROPERTIES
  HostKeysFollowRole
CHECK_DEADLOCK FALSE
