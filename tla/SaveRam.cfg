\* Three boots, the bounds of every counter small.
SPECIFICATION Spec
CONSTANTS
  c1 = c1
  c2 = c2
  ga = ga
  gb = gb
  plain = plain
  worker_core = worker_core
  main_core = main_core
  Consoles = {c1, c2}
  Primary = c1
  Games = {ga, gb, plain}
  Core <- MCCore
  Cards = {ga, gb}
  None = None
  MaxBoots = 3
  MaxPlays = 2
  MaxTimers = 1
  MaxFailures = 1
SYMMETRY MCSymmetry
INVARIANTS
  SaveTypeOK
  ForeignOnlyBetweenGames
  NoBootStuck
PROPERTIES
  CheckpointKept
  RestoredIsCurrent
CHECK_DEADLOCK FALSE
