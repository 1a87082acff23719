SPECIFICATION MCSpec
CONSTANTS
  Threads = {t1}
  MaxReplies = 2
  MaxHitches = 0
  MaxTurns = 0
INVARIANT NoneTalkedOver
CHECK_DEADLOCK FALSE
