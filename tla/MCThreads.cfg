SPECIFICATION MCSpec
CONSTANTS
  Threads = {t1, t2}
  MaxReplies = 2
  MaxHitches = 2
  MaxTurns = 2
INVARIANTS TypeOK NeverTwiceInARow MergedIsFinal
PROPERTIES PaidOnce LastWordIsHeard
CHECK_DEADLOCK FALSE
