SPECIFICATION Spec
CONSTANTS
  Games <- MCGames
  WorkerCores = {"psx"}
  Weight <- MCWeight
  Budget = 2
  MaxLive = 2
  Primary = "console0"
  Second = "console1"
  MaxBoots = 2
  MaxChanges = 4
INVARIANTS
  RackTypeOK
  WatcherRunsNothing
  NewestWins
  CardFollowsCore
  FocusedRuns
  NoOrphans
CHECK_DEADLOCK FALSE
