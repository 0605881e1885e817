CONSTANTS
  Clients = {c1, c2}
  FastDelays <- MCFastDelays
  SlowDelays <- MCSlowDelays
  MaxTroubles = 2
  MaxId = 3
  MaxClock = 2
  MaxUpsets = 1
SPECIFICATION Spec
SYMMETRY Symmetry
INVARIANTS
  TypeOK
  ComesBack
  PeersAgree
  NobodyWaitsInVain
PROPERTIES
  DelaysGrow
CHECK_DEADLOCK FALSE
