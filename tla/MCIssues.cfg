SPECIFICATION MCFairSpec
CONSTANTS
  Queue = needs_triage
  Fixable = robbie_fix
  MaxHitches = 2
  MaxRequeues = 1
INVARIANTS TypeOK NeverDropped OpenedIsTrue PrIsCleared
PROPERTIES QueuesDrain
