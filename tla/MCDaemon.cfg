SPECIFICATION MCSpec
CONSTANTS
  PRs = {p1, p2}
  Stale = 3
  MaxPushes = 1
  MaxBoots = 2
INVARIANTS TypeOK BlindIsLate
PROPERTIES LoopRests StopIsHeard
