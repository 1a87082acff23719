SPECIFICATION TroubleFairSpec
CONSTANTS
  NeedsWork = nw
  HoldLabels = {hold}
  DoneLabels = {done}
  Shas = {1, 2}
  Requests = {0, 1, 2, Blank}
  Daemon = daemon
  Forced = {}
  Blank = Blank
  EmptyShas = {2}
  OwnPr = FALSE
  MaxRepeats = 3
  MaxTrouble = 2
INVARIANTS TypeOK OneAnswerPerCommit ApprovedIsBuilt ApprovedIsFree
PROPERTIES StaysJudged PassesKept RequestIsJudged
