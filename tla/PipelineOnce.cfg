SPECIFICATION TroubleSpec
CONSTANTS
  NeedsWork = nw
  HoldLabels = {}
  DoneLabels = {}
  Shas = {1}
  Requests = {0, Blank}
  Daemon = daemon
  Forced = {once}
  Blank = Blank
  EmptyShas = {}
  OwnPr = TRUE
  MaxRepeats = 1
  MaxTrouble = 3
INVARIANT NoticesAreTrue
