SPECIFICATION MCSpec
CONSTANTS
  PRs = {p1}
  Stale = 3
  MaxPushes = 0
  MaxBoots = 1
INVARIANT BlindAfterMisses
