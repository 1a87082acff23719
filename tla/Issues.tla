------------------------------- MODULE Issues -------------------------------
(***************************************************************************)
(* One bug report under the bug queue: the daemon's triage and fix ticks   *)
(* (issues.py, fixer.py), the container a tick starts, and the pull        *)
(* request tool that container talks to (robbie_mcp/pr.py).  The daemon    *)
(* may stop between any two calls; the container and the tool go on.       *)
(*                                                                         *)
(* A call to GitHub lands and is heard, is refused, or lands unheard; the  *)
(* last two raise GhError, which leaves the report to a later pass.        *)
(***************************************************************************)
EXTENDS FiniteSets

CONSTANTS
  Queue,    \* issues.clears: of the labels the queue selects on, the one triage takes off
  Fixable   \* issues.fixable_label, which the tool knows as FIXER_LABEL

ASSUME IssuesAssumption == Queue # Fixable

VARIABLES
  \* the report on GitHub
  open,      \* it is open
  labels,    \* which of the two labels it carries
  assigned,  \* the configured people are assigned, since it was last queued
  said,      \* the decisions commented on it, since it was last queued
  linked,    \* a person's open or merged pull request closes it
  branch,    \* robbie/issue-N exists on GitHub
  pr,        \* the pull request from that branch: "none", "open" or "closed"
  \* the report itself and the configuration, which do not change
  form,      \* what the form alone settles (triage.verdict)
  staffed,   \* issues.assignee names somebody; by default it names nobody
  \* the daemon
  pc,        \* the call it is at; "down" when no daemon runs
  lane,      \* which tick of the pass it is in: "triage" or "fix"
  job,       \* the decision it is writing to the report
  answer,    \* how the last container ended, as the daemon saw it
  \* docker and the sidecar
  boxes,     \* the containers up for this report: "money", "fix"
  call,      \* the tool call of the container ("mine") and of a killed one ("late")
  \* observed, and read by nothing
  cleared    \* some money check answered one unambiguous `MONEY: no`

github == <<open, labels, assigned, said, linked, branch, pr>>
given  == <<form, staffed>>
daemon == <<pc, lane, job, answer>>
vars   == <<github, given, daemon, boxes, call, cleared>>

Jobs  == {"attempt", "assign", "linked", "opened", "gave up"}
Lanes == {"triage", "fix"}
Steps == {"down", "queue", "meta", "own", "links", "money", "asking", "gate", "fixing",
          "outcome", "say", "assignee", "label", "clear"}
Calls == {"mine", "late"}

GithubTypeOK ==
  /\ open \in BOOLEAN /\ assigned \in BOOLEAN /\ linked \in BOOLEAN /\ branch \in BOOLEAN
  /\ labels \subseteq {Queue, Fixable} /\ said \subseteq Jobs
  /\ pr \in {"none", "open", "closed"}

DaemonTypeOK ==
  /\ pc \in Steps /\ lane \in Lanes /\ job \in Jobs \cup {""}
  /\ answer \in {"", "ok", "failed"}

BoxTypeOK ==
  /\ boxes \subseteq {"money", "fix"}
  /\ call \in [Calls -> {"idle", "guard", "branch", "push", "post"}]

TypeOK ==
  /\ GithubTypeOK /\ DaemonTypeOK /\ BoxTypeOK
  /\ form \in {"attempt", "ask", "assign"} /\ staffed \in BOOLEAN /\ cleared \in BOOLEAN

Init ==
  /\ open = TRUE /\ labels = {Queue} /\ assigned = FALSE /\ said = {}
  /\ linked = FALSE /\ branch = FALSE /\ pr = "none"
  /\ form \in {"attempt", "ask", "assign"} /\ staffed \in BOOLEAN
  /\ pc = "queue" /\ lane = "triage" /\ job = "" /\ answer = ""
  /\ boxes = {} /\ call = [c \in Calls |-> "idle"]
  /\ cleared = FALSE

-----------------------------------------------------------------------------
(* The daemon's pass: triage_tick, then fix_tick, then triage again.       *)

Goto(l) == pc' = l /\ UNCHANGED <<lane, job, answer>>

\* The report is left to a later pass; the other tick is next.
Leave ==
  /\ pc' = "queue"
  /\ lane' = IF lane = "triage" THEN "fix" ELSE "triage"
  /\ job' = "" /\ answer' = ""

\* Write a decision to the report (publish.settle_issue).
Settle(j) == pc' = "say" /\ job' = j /\ UNCHANGED <<lane, answer>>

\* The label the tick's decision takes off, and the one its queue asks for.
Clears == IF lane = "triage" THEN Queue ELSE Fixable

ReadQueue ==
  /\ pc = "queue"
  /\ IF open /\ Clears \in labels THEN Goto("meta") ELSE Leave
  /\ UNCHANGED <<github, given, boxes, call, cleared>>

ReadMeta ==
  /\ pc = "meta"
  /\ CASE ~ open           -> Leave
       [] open /\ lane = "triage" -> Goto("links")
       [] OTHER            -> Goto("own")
  /\ UNCHANGED <<github, given, boxes, call, cleared>>

\* open_pr_for: whatever its state, there is one on the report's branch.
OpenPrFor == pr # "none"

\* Only the fixer asks for its own pull request first.
ReadOwn ==
  /\ pc = "own"
  /\ IF OpenPrFor THEN Settle("opened") ELSE Goto("links")
  /\ UNCHANGED <<github, given, boxes, call, cleared>>

\* fixing_prs: an open or merged pull request that closes it, ours included.
FixingPrs == linked \/ pr = "open"

\* Mutant: a form that asks is settled before the money question.
SettlesTheForm ==
  /\ pc = "links"
  /\ IF FixingPrs THEN Settle("linked")
     ELSE IF lane = "fix" THEN Goto("gate") ELSE Settle(form)
  /\ UNCHANGED <<github, given, boxes, call, cleared>>

ReadLinks ==
  /\ pc = "links"
  /\ CASE FixingPrs -> Settle("linked")
       [] ~ FixingPrs /\ lane = "fix" -> Goto("gate")
       [] ~ FixingPrs /\ lane = "triage" /\ form = "ask" -> Goto("money")
       [] OTHER -> Settle(form)
  /\ UNCHANGED <<github, given, boxes, call, cleared>>

\* The spend gate lets the container start.  Its name says the report and the
\* mode, nothing more: `docker run` fails at once while an earlier one is up.
Start(box, at) ==
  IF box \in boxes
  THEN pc' = at /\ answer' = "failed" /\ UNCHANGED <<lane, job, boxes>>
  ELSE pc' = at /\ answer' = "" /\ boxes' = boxes \cup {box} /\ UNCHANGED <<lane, job>>

StartMoney == pc = "money" /\ Start("money", "asking") /\ UNCHANGED <<github, given, call, cleared>>
StartFix == pc = "gate" /\ Start("fix", "fixing") /\ UNCHANGED <<github, given, call, cleared>>

\* The meter says no: the report waits, untouched.
MeterClosed ==
  /\ pc \in {"money", "gate"}
  /\ Leave
  /\ UNCHANGED <<github, given, boxes, call, cleared>>

\* Mutant: a money check that could not finish clears the report.
FailedCheckClears ==
  /\ pc = "asking" /\ answer = "failed"
  /\ Settle("attempt")
  /\ UNCHANGED <<github, given, boxes, call, cleared>>

\* A money check that could not finish goes to a person.
MoneyFailed ==
  /\ pc = "asking" /\ answer = "failed"
  /\ Settle("assign")
  /\ UNCHANGED <<github, given, boxes, call, cleared>>

\* Only one unambiguous `MONEY: no` clears the report (touches_money).
MoneyAnswered ==
  /\ pc = "asking" /\ answer = "" /\ "money" \in boxes
  /\ boxes' = boxes \ {"money"}
  /\ \/ Settle("assign") /\ UNCHANGED cleared
     \/ Settle("attempt") /\ cleared' = TRUE
  /\ UNCHANGED <<github, given, call>>

\* A container ends, dies, or is killed at the deadline; "ok" says the run said
\* something, never what it did.  The tool runs in another container and goes
\* on with the call it is in.  One late call at a time (MaxLate = 1).
BoxEnds(box) ==
  /\ box \in boxes
  /\ boxes' = boxes \ {box}
  /\ answer' \in (IF pc = "asking" /\ box = "money" THEN {"failed"}
                  ELSE IF pc = "fixing" /\ answer = "" /\ box = "fix" THEN {"ok", "failed"}
                  ELSE {answer})
  /\ call' = IF box = "money" THEN call
             ELSE [c \in Calls |-> IF c = "mine" THEN "idle"
                                   ELSE IF call[c] = "idle" THEN call["mine"] ELSE call[c]]
  /\ UNCHANGED <<github, given, pc, lane, job, cleared>>

FixOver ==
  /\ pc = "fixing" /\ answer # ""
  /\ Goto("outcome")
  /\ UNCHANGED <<github, given, boxes, call, cleared>>

\* Mutant: the run's word is the outcome.
TrustTheRun ==
  /\ pc = "outcome"
  /\ IF answer = "ok" THEN Settle("opened") ELSE Settle("gave up")
  /\ UNCHANGED <<github, given, boxes, call, cleared>>

\* What came of it is asked of GitHub, not of the run.
Outcome ==
  /\ pc = "outcome"
  /\ IF OpenPrFor THEN Settle("opened") ELSE Settle("gave up")
  /\ UNCHANGED <<github, given, boxes, call, cleared>>

-----------------------------------------------------------------------------
(* settle_issue: comment, assign, add a label, take the queue's label off. *)

HandsOver == job \in {"assign", "gave up"}

AfterSay ==
  CASE HandsOver /\ staffed -> "assignee"
    [] job = "attempt"      -> "label"
    [] OTHER                -> "clear"

Comment ==
  /\ said' = said \cup {job}
  /\ UNCHANGED <<open, labels, assigned, linked, branch, pr>>
PutAssignee ==
  /\ assigned' = TRUE
  /\ UNCHANGED <<open, labels, said, linked, branch, pr>>
Relabel(now) ==
  /\ labels' = now
  /\ UNCHANGED <<open, assigned, said, linked, branch, pr>>

\* Mutant: the queue's label comes off before the decision is recorded.
LabelOffFirst ==
  /\ pc = "say"
  /\ labels' = labels \ {Clears} /\ said' = said \cup {job}
  /\ Goto(AfterSay)
  /\ UNCHANGED <<open, assigned, linked, branch, pr, given, boxes, call, cleared>>

Say      == pc = "say" /\ Comment /\ Goto(AfterSay) /\ UNCHANGED <<given, boxes, call, cleared>>
Assign   == pc = "assignee" /\ PutAssignee /\ Goto("clear") /\ UNCHANGED <<given, boxes, call, cleared>>
AddLabel ==
  /\ pc = "label" /\ Relabel(labels \cup {Fixable}) /\ Goto("clear")
  /\ UNCHANGED <<given, boxes, call, cleared>>

\* Mutant: the fixer's decision takes off the label triage takes off.
ClearsDefault ==
  /\ pc = "clear" /\ Relabel(labels \ {Queue}) /\ Leave
  /\ UNCHANGED <<given, boxes, call, cleared>>

ClearLabel ==
  /\ pc = "clear" /\ Relabel(labels \ {Clears}) /\ Leave
  /\ UNCHANGED <<given, boxes, call, cleared>>

\* The call landed and the daemon did not hear of it.
Lost ==
  /\ \/ pc = "say" /\ Comment
     \/ pc = "assignee" /\ PutAssignee
     \/ pc = "label" /\ Relabel(labels \cup {Fixable})
  /\ Leave
  /\ UNCHANGED <<given, boxes, call, cleared>>

\* GitHub refuses the call the daemon is at, read or write.
Refused ==
  /\ pc \in {"queue", "meta", "own", "links", "outcome", "say", "assignee", "label", "clear"}
  /\ Leave
  /\ UNCHANGED <<github, given, boxes, call, cleared>>

\* Shutdown cancels the pass at whatever call it is in; so does a crash.
Stop ==
  /\ pc # "down"
  /\ pc' = "down" /\ lane' = "triage" /\ job' = "" /\ answer' = ""
  /\ UNCHANGED <<github, given, boxes, call, cleared>>

Boot ==
  /\ pc = "down"
  /\ Goto("queue")
  /\ UNCHANGED <<github, given, boxes, call, cleared>>

-----------------------------------------------------------------------------
(* The tool: open_pull_request, one request at a time from its container.  *)

At(c, l) == call' = [call EXCEPT ![c] = l]

CallTool ==
  /\ "fix" \in boxes /\ call["mine"] = "idle"
  /\ At("mine", "guard")
  /\ UNCHANGED <<github, given, daemon, boxes, cleared>>

\* The issue is open and asks for a fix.
GuardIssue(c) ==
  /\ call[c] = "guard"
  /\ At(c, IF open /\ Fixable \in labels THEN "branch" ELSE "idle")
  /\ UNCHANGED <<github, given, daemon, boxes, cleared>>

CheckBranch(c) ==
  /\ call[c] = "branch"
  /\ At(c, IF branch THEN "idle" ELSE "push")
  /\ UNCHANGED <<github, given, daemon, boxes, cleared>>

\* A fresh clone cannot push over a branch that appeared since.  The patch may
\* not apply, and git may die after the push landed.
Push(c) ==
  /\ call[c] = "push"
  /\ \/ ~ branch /\ branch' = TRUE /\ At(c, "post")
     \/ branch' \in {branch, TRUE} /\ At(c, "idle")
  /\ UNCHANGED <<open, labels, assigned, said, linked, pr, given, daemon, boxes, cleared>>

\* GitHub takes the pull request or not; after a refusal the branch stays.
Post(c) ==
  /\ call[c] = "post"
  /\ pr' \in {pr, "open"}
  /\ At(c, "idle")
  /\ UNCHANGED <<open, labels, assigned, said, linked, branch, given, daemon, boxes, cleared>>

-----------------------------------------------------------------------------
(* People.                                                                 *)

CloseIssue ==
  /\ open /\ open' = FALSE
  /\ UNCHANGED <<labels, assigned, said, linked, branch, pr, given, daemon, boxes, call, cleared>>

LinkPr ==
  /\ ~ linked /\ linked' = TRUE
  /\ UNCHANGED <<open, labels, assigned, said, branch, pr, given, daemon, boxes, call, cleared>>

AbandonPr ==
  /\ pr = "open" /\ pr' = "closed"
  /\ UNCHANGED <<open, labels, assigned, said, linked, branch, given, daemon, boxes, call, cleared>>

\* Somebody puts the report back in the triage queue and takes it off whoever
\* had it: what was decided before accounts for it no longer.
Requeue ==
  /\ Queue \notin labels /\ labels' = labels \cup {Queue}
  /\ assigned' = FALSE /\ said' = {}
  /\ UNCHANGED <<open, linked, branch, pr, given, daemon, boxes, call, cleared>>

People == CloseIssue \/ LinkPr \/ AbandonPr \/ Requeue

Pass ==
  \/ ReadQueue \/ ReadMeta \/ ReadOwn \/ ReadLinks
  \/ StartMoney \/ MoneyAnswered \/ MoneyFailed \/ StartFix \/ FixOver \/ Outcome
  \/ Say \/ Assign \/ AddLabel \/ ClearLabel

Tool == CallTool \/ \E c \in Calls : GuardIssue(c) \/ CheckBranch(c) \/ Push(c) \/ Post(c)

Containers == \E b \in {"money", "fix"} : BoxEnds(b)

\* What goes wrong on the daemon's side.
Hitch == MeterClosed \/ Refused \/ Lost \/ Stop

Next == Pass \/ Boot \/ Hitch \/ Tool \/ Containers \/ People

Spec == Init /\ [][Next]_vars

\* asyncio runs the pass, compose restarts the daemon, and a container the
\* daemon waits for ends by its deadline.
Fairness ==
  /\ WF_vars(Pass) /\ WF_vars(Boot)
  /\ WF_vars(pc \in {"asking", "fixing"} /\ Containers)

-----------------------------------------------------------------------------
(* Properties.                                                             *)

\* A report leaves the queues only accounted for since it last came in: its
\* fix was commented on it, or its hand-over was and whoever is configured to
\* take it has it (publish.settle_issue: "would drop a bug report silently").
\* A daemon that stops or loses an answer between two calls of a decision may
\* repeat a comment, never drop the report.  Where nobody is configured the
\* comment is all there is, and the code's account of a pull request is
\* open_pr_for's: a report put back after people closed robbie's pull request
\* unmerged leaves again as opened, with nobody assigned.
NeverDropped ==
  labels = {} => \/ said \cap {"assign", "gave up"} # {} /\ (staffed => assigned)
                 \/ said \cap {"linked", "opened"} # {}

\* The report is told of a pull request only when there is one, whatever the
\* run said of itself and however late the tool was.
OpenedIsTrue == "opened" \in said => pr # "none"

\* No pull request for a report whose form asks for a person, and none for one
\* that depends on the money question until a check answered it: not by way of
\* a retried pass, a failed check, a stale label or a tool call that came late.
PrIsCleared == pr # "none" => form = "attempt" \/ (form = "ask" /\ cleared)

\* Once the faults stop, a report in a queue leaves it.
QueuesDrain == \A l \in {Queue, Fixable} : open /\ l \in labels ~> ~ open \/ l \notin labels
=============================================================================
