SPECIFICATION Spec
CONSTANTS
  Sockets = {s1, s2, s3, s4}
  Addresses = {a}
  Unbillable = u
  RoomIds = {r1, r2, r3}
  MaxSockets = 3
  MaxPerAddress = 2
  MaxRooms = 2
  MaxPeers = 2
  MaxRefusals = 1
  MaxUpgrades = 2
  MaxSoft = 1
  Window = 2
SYMMETRY Symmetry
INVARIANTS
  AdmTypeOK
  CapsHold
  BudgetsHold
  EntitledGetIn
PROPERTIES
  RefusalsCostNothing
