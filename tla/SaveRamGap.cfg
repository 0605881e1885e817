\* A card with the bytes of another game.
SPECIFICATION Spec
CONSTANTS
  c1 = c1
  c2 = c2
  ga = ga
  gb = gb
  plain = plain
  worker_core = worker_core
  main_core = main_core
  Consoles = {c1, c2}
  Primary = c1
  Games = {ga, gb, plain}
  Core <- MCCore
  Cards = {ga, gb}
  None = None
  MaxBoots = 2
  MaxPlays = 2
  MaxTimers = 2
  MaxFailures = 0
INVARIANT CardsAreTheirOwn
CHECK_DEADLOCK FALSE
