------------------------------- MODULE Checks -------------------------------
(***************************************************************************)
(* What CI says of a commit (github.py): the buckets the reviewer is       *)
(* handed, gate 6's red list, whether a build exists, and what became of   *)
(* the build an approval asked for.  A check is [name, state, status];     *)
(* commit statuses have a state, running check runs only a status.  The    *)
(* same name may report more than once.                                    *)
(***************************************************************************)
EXTENDS Sequences, SequencesExt

CONSTANT Ignored   \* ignore_checks: bots that report on every push

FAILED  == {"FAILURE", "ERROR", "TIMED_OUT", "STARTUP_FAILURE", "ACTION_REQUIRED"}
PENDING == {"PENDING", "EXPECTED", "IN_PROGRESS", "QUEUED", "WAITING"}

Bucket(check) ==
  CASE check.state = "SUCCESS" -> "passing"
    [] check.state \in FAILED  -> "failing"
    [] check.state \in PENDING \/ (check.state = "" /\ check.status \in PENDING) -> "running"
    [] OTHER -> "other"

\* summarize_checks: names, once each, in every bucket they report to.
Summary(checks) ==
  [b \in {"passing", "failing", "running", "other"} |->
    {c.name : c \in {c \in ToSet(checks) : Bucket(c) = b}}]

Kept(names) == names \ Ignored

\* Mutant: any check is a build.
AnyCheck(checks) == checks # <<>>

CiStarted(checks) == \E c \in ToSet(checks) : c.name \notin Ignored

FailingChecks(checks) == Kept(Summary(checks).failing)

CiOutcome(checks) ==
  LET s == Summary(checks)
  IN  CASE Kept(s.failing) # {} -> "red"
        [] Kept(s.failing) = {} /\ (Kept(s.running) # {} \/ Kept(s.passing) = {}) -> "waiting"
        [] OTHER -> "green"

-----------------------------------------------------------------------------
(* Properties, of the checks of one commit.                                *)

\* A bot that reports on every push is invisible to every decision: it starts
\* no build, turns none red or green, and holds none up.
IgnoredIsInvisible(checks, bot) ==
  bot.name \in Ignored =>
    LET more == Append(checks, bot)
    IN  /\ CiOutcome(more) = CiOutcome(checks)
        /\ CiStarted(more) = CiStarted(checks)
        /\ FailingChecks(more) = FailingChecks(checks)

\* The gate, the board and the build agree: what gate 6 calls failing is what
\* the watch calls red, and a commit is green or red only of a build it has.
ReadersAgree(checks) ==
  /\ CiOutcome(checks) = "red" <=> FailingChecks(checks) # {}
  /\ CiOutcome(checks) # "waiting" => CiStarted(checks)
  /\ CiOutcome(checks) = "green" => \A c \in ToSet(checks) :
       c.name \in Ignored \/ Bucket(c) \in {"passing", "other"}
=============================================================================
