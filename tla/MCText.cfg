SPECIFICATION Spec
CONSTANTS
  Headings <- MCHeadings
  Fences <- MCFences
  Blank = ""
  NoResponse = "_No response_"
  OffLimits <- MCOffLimits
  Outside <- MCOutside
  InTests <- MCInTests
  MaxFiles = 2
  MaxLines = 2
  MaxRows = 5
  SNAP = 3
  Ignored <- MCIgnored
  Alphabet <- MCAlphabet
  MaxLength <- MCMaxLength
  TriageRules <- MCTriageRules
  OtherAnswers <- MCOtherAnswers
  DiffLines <- MCDiffLines
  InlineMins <- MCInlineMins
  ThreadIds <- MCThreadIds
  ThreadNumbers <- MCThreadNumbers
INVARIANTS AskedWhenItDecides CommentsFit EchoesLose
PROPERTIES FieldsAreClosed RefusalsStand ReadersSeeOneBuild
CHECK_DEADLOCK FALSE
