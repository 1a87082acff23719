SPECIFICATION MCFairSpec
CONSTANTS
  Reviews = {r1, r2, r3}
  Sweeps = {s1}
  Fixes = {f1}
  MaxConcurrent = 2
  Limit = 2
  Reserve = 1
  EndpointStop = 2
  EndpointReserve = 1
  Readings = {1}
  Unreadable = Unreadable
  FixArm = "account"
  MaxOutside = 2
  MaxLeaked = 1
INVARIANTS TypeOK CapacityExact RepliesFirst WithinBudget
PROPERTIES AccountLedger TickEnds
