SPECIFICATION MCSpec
CONSTANTS
  NeedsWork = nw
  HoldLabels = {}
  DoneLabels = {}
  Shas = {1}
  Requests = {0, 1, Blank}
  Daemon = daemon
  Forced = {}
  Blank = Blank
  EmptyShas = {}
  OwnPr = FALSE
  MaxRepeats = 1
INVARIANT RunningHasItsProcess
