SPECIFICATION MCSpec
CONSTANTS
  MaxHead = 2
  MaxDisturbances = 1
INVARIANTS TypeOK GreenWasGreen RedIsTold BoardIsCurrent
PROPERTIES WatchEnds BackOnTheBoard
