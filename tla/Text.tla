-------------------------------- MODULE Text --------------------------------
(***************************************************************************)
(* The program's pure parts together: what it reads out of a bug form, a   *)
(* fixer's patch, a diff, a model's findings, a commit's checks and the    *)
(* text of a run.  The input of one kind grows by an element at a time,    *)
(* and what must hold of an input, or of an input and the next, is stated  *)
(* of each.                                                                *)
(***************************************************************************)
EXTENDS Triage, Patch, Anchor, Checks, Contract

Kinds == {"body", "patch", "diff", "finding", "checks", "output", "threads"}

CONSTANTS
  Alphabet,      \* of each kind, the elements its inputs are made of
  MaxLength,     \* of each kind, how many of them an input has
  TriageRules,   \* what a repository may ask of a form
  OtherAnswers,  \* what a field of a form could have said instead
  DiffLines,     \* the lines of a diff that a finding is placed in
  InlineMins,    \* the least severities a repository may keep inline
  ThreadIds,     \* the threads a run is asked about
  ThreadNumbers  \* the numbers its text may carry, those of other threads too

\* anchor reads a hunk's first line with int() from digits, a finding's lines
\* as numbers or none, and severities a repository spells as RANK does.
ASSUME TextAssumption ==
  /\ DOMAIN Alphabet = Kinds
  /\ MaxLength \in [Kinds -> Nat]
  /\ \A row \in Alphabet.diff : row.kind = "hunk" => row.start \in Nat
  /\ Alphabet.finding \subseteq [severity : STRING, line : Int, start : Int]
  /\ DiffLines \in SUBSET Nat
  /\ InlineMins \subseteq Severities
  /\ ThreadIds \subseteq ThreadNumbers

VARIABLES kind, input

vars == <<kind, input>>

Init == kind \in Kinds /\ input = <<>>

Grow ==
  /\ Len(input) < MaxLength[kind]
  /\ \E x \in Alphabet[kind] : input' = Append(input, x)
  /\ UNCHANGED kind

Spec == Init /\ [][Grow]_vars

Of(k) == kind = k

Newest == input'[Len(input')]

-----------------------------------------------------------------------------
(* The properties of the modules, of the input at hand.                    *)

\* triage.fields: OnlyTheOpenField.
FieldsAreClosed == [][Of("body") => OnlyTheOpenField(input, Newest)]_vars

\* triage.verdict: AskingDecides, on the answers of a form.
AskedWhenItDecides ==
  Of("body") => \A rules \in TriageRules, sentry \in BOOLEAN :
                  AskingDecides(Fields(input), rules, sentry, OtherAnswers)

\* pr.refuse and changed_paths: a refused patch stays refused whatever is
\* added to it (RefusalStands).
RefusalsStand == [][Of("patch") => RefusalStands(input, Newest)]_vars

\* anchor.commentable and anchor: what is commented inline can be commented,
\* its range is inside the diff, and what the outcome counts as blocking is
\* seen (CommentableIsRightSide, CommentIsInTheDiff, BlockersAreSeen).
CommentsFit ==
  /\ Of("diff") => CommentableIsRightSide(input)
  /\ Of("finding") => \A i \in DOMAIN input, least \in InlineMins :
       CommentIsInTheDiff(input[i], DiffLines, least) /\ BlockersAreSeen(input[i], DiffLines, least)

\* github.ci_outcome, ci_started and failing_checks: an ignored check changes
\* no answer, and the readers of one answer agree (IgnoredIsInvisible,
\* ReadersAgree).
ReadersSeeOneBuild == [][Of("checks") => IgnoredIsInvisible(input, Newest) /\ ReadersAgree(input')]_vars

\* contract.parse_blocks, parse_fix and parse_thread_verdicts: an echoed
\* instruction never beats the answer, and no thread's decision moves
\* another's (EchoNeverWins, DecisionsStayApart).
EchoesLose ==
  /\ Of("output") => EchoNeverWins(input)
  /\ Of("threads") => DecisionsStayApart(input, ThreadIds, ThreadNumbers)
=============================================================================
