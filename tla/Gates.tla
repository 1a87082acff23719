-------------------------------- MODULE Gates --------------------------------
(***************************************************************************)
(* The review policy of gates.py: pure functions of what one tick read     *)
(* about one pull request.  The queue label and the pending request (gates *)
(* 1 and 2) are the search itself; here are the others, in their order.    *)
(***************************************************************************)
EXTENDS Naturals

CONSTANTS
  NeedsWork,   \* needs_work_label, the brake the reviewer sets itself
  HoldLabels,  \* hold_labels: brakes only people touch
  DoneLabels   \* done_labels: a person has taken the PR

BrakeLabels == {NeedsWork} \cup HoldLabels
Labels      == BrakeLabels \cup DoneLabels

\* Gate 3, ruled on before anything else is read.
LabelHold(labels) == labels \cap BrakeLabels # {}
DoneLabel(labels) == labels \cap DoneLabels # {}

\* Mutant: a failed review is never tried again.
AlreadyTried(state) == state \in {"published", "held", "failed"}

\* Gate 4's first half: this commit and request have a verdict or a hold.
AlreadyJudged(state) == state \in {"published", "held"}

\* Mutant: a new request on a judged commit buys another review.
EvaluateAgain(empty, shaJudged, openThreads, red) ==
  CASE empty -> "no files"
    [] ~ empty /\ openThreads -> "unanswered"
    [] ~ empty /\ ~ openThreads /\ red -> "ci note"
    [] OTHER -> "review"

\* Gates 4 to 6, on what was read since.  Labels were ruled on already, and
\* nothing has read them again.
Evaluate(empty, shaJudged, openThreads, red) ==
  CASE empty            -> "no files"
    [] ~ empty /\ shaJudged -> "nothing new"
    [] ~ empty /\ ~ shaJudged /\ openThreads -> "unanswered"
    [] ~ empty /\ ~ shaJudged /\ ~ openThreads /\ red -> "ci note"
    [] OTHER -> "review"

Decisions == {"no files", "nothing new", "unanswered", "ci note", "review"}

\* A hold that must come back on its own leaves no row behind.
Recorded(decision) == decision \in {"no files", "nothing new"}
\* A hold the operator hears of, once per key.
Notified(decision) == decision \in {"nothing new", "unanswered"}
=============================================================================
