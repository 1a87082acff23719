------------------------------- MODULE Board -------------------------------
(***************************************************************************)
(* The panel's board for one pull request: what ci_watch, the tick's queue *)
(* reads and the passes write into `ci_state` and `requested`, and what    *)
(* approved_and_green makes of it.  GitHub, CI and people move between any *)
(* two calls; the daemon stops anywhere and comes back.                    *)
(*                                                                         *)
(* A read and the statements up to the next await are one step: nothing    *)
(* else writes these columns, so what GitHub does after its answer comes   *)
(* after the step.                                                         *)
(***************************************************************************)
EXTENDS Naturals, FiniteSets

CONSTANT MaxHead   \* the author pushes commits 1 .. MaxHead

ASSUME BoardAssumption == MaxHead \in Nat \ {0}

Shas     == 1 .. MaxHead
Verdicts == {"none", "running", "failed", "ok", "findings"}
Live     == {"green", "waiting", "red"}
CiStates == Live \cup {"null", "stale", "gone", "done", "unlabeled", "expired"}
Flags    == {"label", "brake", "taken", "request"}

VARIABLES
  \* GitHub
  state,      \* of the PR: "OPEN", "CLOSED" or "MERGED"
  head,
  own,        \* the PR is the reviewer's own, and self_review is set
  flags,      \* the review label, a brake label, a done label, an open request
  build,      \* per commit: "none", "running", "green" or "red"
  \* the database
  verdict,    \* per commit: its pass, newest commit newest pass
  ci,         \* per commit: ci_state
  requested,  \* the queue read had the PR among the candidates
  noted,      \* commits whose red note has its notice
  \* the daemon
  pc, row,    \* the call it is at, and the commit it is at it for (0: none)
  todo,       \* approvals the watch has still to read
  asked,      \* what this tick's queue read returned
  \* observed, and read by nothing
  greens,     \* commits whose build was green at some time
  told,       \* commits whose red note is on the PR
  old,        \* approvals made more than CI_WATCH_HOURS ago
  current,    \* nothing moved on GitHub since this tick's queue read, and no read failed
  clean       \* the PR was never closed, unlabelled or taken by a person

github == <<state, head, own, flags, build, greens>>
db     == <<verdict, ci, requested, noted>>
daemon == <<pc, row, todo, asked>>
vars   == <<github, db, daemon, told, old, current, clean>>

Steps == {"down", "idle", "watch", "note", "queue", "heads", "gate", "run", "reject"}

TypeOK ==
  /\ state \in {"OPEN", "CLOSED", "MERGED"} /\ head \in Shas
  /\ own \in BOOLEAN /\ flags \subseteq Flags
  /\ build \in [Shas -> {"none", "running", "green", "red"}]
  /\ verdict \in [Shas -> Verdicts] /\ ci \in [Shas -> CiStates]
  /\ requested \in BOOLEAN /\ noted \subseteq Shas
  /\ pc \in Steps /\ row \in Shas \cup {0} /\ todo \subseteq Shas
  /\ greens \subseteq Shas /\ told \subseteq Shas /\ old \subseteq Shas
  /\ asked \in BOOLEAN /\ current \in BOOLEAN /\ clean \in BOOLEAN

Init ==
  /\ state = "OPEN" /\ head = 1
  /\ own \in BOOLEAN /\ flags = IF own THEN {"label"} ELSE {"label", "request"}
  /\ build = [s \in Shas |-> "none"] /\ greens = {}
  /\ verdict = [s \in Shas |-> "none"] /\ ci = [s \in Shas |-> "null"]
  /\ requested = FALSE /\ noted = {}
  /\ pc = "idle" /\ row = 0 /\ todo = {} /\ asked = FALSE
  /\ told = {} /\ old = {} /\ current = FALSE /\ clean = TRUE

Goto(l, s) == pc' = l /\ row' = s

-----------------------------------------------------------------------------
(* The panel (approved_and_green): the newest published pass, and only it. *)

Published(s) == verdict[s] \in {"ok", "findings"}
Newest(s)    == Published(s) /\ \A n \in Shas : Published(n) => n <= s
OnBoard(s)   == Newest(s) /\ verdict[s] = "ok" /\ ci[s] \in Live /\ requested

-----------------------------------------------------------------------------
(* ci_watch: every approval still waiting, one read each.                  *)

Waiting(s) == verdict[s] = "ok" /\ ci[s] = "waiting"

\* Mutant: an approval that is too old is not looked at, nor retired.
BeginTickForgetful ==
  /\ pc = "idle"
  /\ todo' = {s \in Shas : Waiting(s) /\ s \notin old}
  /\ Goto("watch", 0)
  /\ UNCHANGED <<github, db, asked, told, old, current>>

\* expire_ci_watch and watching_ci share a cutoff.
BeginTick ==
  /\ pc = "idle"
  /\ ci' = [s \in Shas |-> IF Waiting(s) /\ s \in old THEN "expired" ELSE ci[s]]
  /\ todo' = {s \in Shas : Waiting(s) /\ s \notin old}
  /\ Goto("watch", 0)
  /\ UNCHANGED <<github, verdict, requested, noted, asked, told, old, current>>

SetCi(s, to) == ci' = [ci EXCEPT ![s] = to]

\* Mutant: the state of the rollup is stored as GitHub words it.
RawOutcome == build[head]

\* The rollup of the head, as ci_outcome reads it.
Outcome == IF build[head] = "green" THEN "green"
           ELSE IF build[head] = "red" THEN "red" ELSE "waiting"

\* Mutant: the build that is read is taken for the build that was asked for.
WatchAnyBuild(s) ==
  /\ pc = "watch" /\ s \in todo
  /\ todo' = todo \ {s}
  /\ \/ state # "OPEN" /\ SetCi(s, "gone") /\ Goto("watch", 0)
     \/ state = "OPEN" /\ Outcome = "red" /\ UNCHANGED ci /\ Goto("note", s)
     \/ state = "OPEN" /\ Outcome # "red" /\ SetCi(s, Outcome) /\ Goto("watch", 0)
  /\ UNCHANGED <<github, verdict, requested, noted, asked, told, old, current>>

\* One row's read; a failed one leaves the row to the next tick.
WatchOne(s) ==
  /\ pc = "watch" /\ s \in todo
  /\ todo' = todo \ {s}
  /\ \/ state # "OPEN" /\ SetCi(s, "gone") /\ Goto("watch", 0)
     \/ state = "OPEN" /\ head # s /\ SetCi(s, "stale") /\ Goto("watch", 0)
     \/ state = "OPEN" /\ head = s /\ Outcome # "red" /\ SetCi(s, Outcome) /\ Goto("watch", 0)
     \/ state = "OPEN" /\ head = s /\ Outcome = "red" /\ UNCHANGED ci /\ Goto("note", s)
     \/ UNCHANGED ci /\ Goto("watch", 0)
  /\ UNCHANGED <<github, verdict, requested, noted, asked, told, old, current>>

\* Mutant: the row is settled whatever became of the note.
SettleThenNote ==
  /\ pc = "note"
  /\ SetCi(row, "red")
  /\ \/ row \notin noted /\ told' = told \cup {row} /\ noted' = noted \cup {row}
     \/ UNCHANGED <<told, noted>>
  /\ Goto("watch", 0)
  /\ UNCHANGED <<github, verdict, requested, todo, asked, old, current>>

\* once_per(report_red_build): noted already; posted and noted; refused; or
\* posted without an answer.  The last two leave the row waiting.
NoteRed ==
  /\ pc = "note"
  /\ \/ row \in noted /\ SetCi(row, "red") /\ UNCHANGED <<told, noted>>
     \/ /\ row \notin noted /\ told' = told \cup {row} /\ noted' = noted \cup {row}
        /\ SetCi(row, "red")
     \/ row \notin noted /\ told' \in {told, told \cup {row}} /\ UNCHANGED <<noted, ci>>
  /\ Goto("watch", 0)
  /\ UNCHANGED <<github, verdict, requested, todo, asked, old, current>>

WatchDone ==
  /\ pc = "watch" /\ todo = {}
  /\ Goto("queue", 0)
  /\ UNCHANGED <<github, db, todo, asked, told, old, current>>

-----------------------------------------------------------------------------
(* The queue read, the labelled read, and the gate's own read.             *)

Labelled == state = "OPEN" /\ "label" \in flags

\* candidates: the labelled PRs somebody asks our review of and, under
\* self_review, our own, which nobody can ask it of.
InQueue == Labelled /\ ("request" \in flags \/ own)

\* candidates and set_requested.
ReadQueue ==
  /\ pc = "queue"
  /\ requested' = InQueue /\ asked' = InQueue /\ current' = TRUE
  /\ Goto("heads", 0)
  /\ UNCHANGED <<github, verdict, ci, noted, todo, told, old>>

\* An unreadable queue ends the repository's tick.
QueueUnread ==
  /\ pc = "queue"
  /\ current' = FALSE /\ Goto("idle", 0)
  /\ UNCHANGED <<github, db, todo, asked, told, old>>

\* Mutant: only approvals still waiting for their build are retired.
RetireWaiting ==
  /\ pc = "heads"
  /\ ci' = [s \in Shas |->
       CASE ~ Labelled /\ verdict[s] # "none" /\ ci[s] # "done" -> "unlabeled"
         [] Labelled /\ s # head /\ ci[s] = "waiting" -> "stale"
         [] OTHER -> ci[s]]
  /\ requested' = (requested /\ ~ (Labelled /\ "brake" \in flags))
  /\ Goto("gate", 0)
  /\ UNCHANGED <<github, verdict, noted, todo, asked, told, old, current>>

\* Mutant: a brake label settles the rows.
RetireBraked ==
  /\ pc = "heads"
  /\ ci' = [s \in Shas |->
       CASE (~ Labelled \/ "brake" \in flags) /\ verdict[s] # "none" /\ ci[s] # "done" -> "unlabeled"
         [] Labelled /\ s # head /\ ci[s] \in Live -> "stale"
         [] OTHER -> ci[s]]
  /\ Goto("gate", 0)
  /\ UNCHANGED <<github, verdict, requested, noted, todo, asked, told, old, current>>

\* _retire_unlabeled: settle_unlabeled, settle_stale and unrequest, with no
\* await between them.
Retire ==
  /\ pc = "heads"
  /\ ci' = [s \in Shas |->
       CASE ~ Labelled /\ verdict[s] # "none" /\ ci[s] # "done" -> "unlabeled"
         [] Labelled /\ s # head /\ ci[s] \in Live -> "stale"
         [] OTHER -> ci[s]]
  /\ requested' = (requested /\ ~ (Labelled /\ "brake" \in flags))
  /\ Goto("gate", 0)
  /\ UNCHANGED <<github, verdict, noted, todo, asked, told, old, current>>

\* A failed read, or one that filled its page, retires nothing.
HeadsUnread ==
  /\ pc = "heads"
  /\ current' = FALSE /\ Goto("gate", 0)
  /\ UNCHANGED <<github, db, todo, asked, told, old>>

\* Nothing for the gates: not in the queue, under a brake, judged already, or
\* held by a later gate or the meter.
Skip ==
  /\ pc = "gate"
  /\ ~ asked \/ "brake" \in flags \/ "taken" \notin flags
  /\ Goto("idle", 0)
  /\ UNCHANGED <<github, db, todo, asked, told, old, current>>

\* A person has taken the PR: every row of it is done (settle_done).
Taken ==
  /\ pc = "gate" /\ asked /\ flags \cap {"brake", "taken"} = {"taken"}
  /\ ci' = [s \in Shas |-> IF verdict[s] = "none" THEN ci[s] ELSE "done"]
  /\ Goto("idle", 0)
  /\ UNCHANGED <<github, verdict, requested, noted, todo, asked, told, old, current>>

GateUnread ==
  /\ pc = "gate" /\ asked
  /\ current' = FALSE /\ Goto("idle", 0)
  /\ UNCHANGED <<github, db, todo, asked, told, old>>

\* start_review replaces the row; the container reads this commit.
Review ==
  /\ pc = "gate" /\ asked /\ flags \cap {"brake", "taken"} = {} /\ ~ Published(head)
  /\ verdict' = [verdict EXCEPT ![head] = "running"]
  /\ ci' = [ci EXCEPT ![head] = "null"]
  /\ Goto("run", head)
  /\ UNCHANGED <<github, requested, noted, todo, asked, told, old, current>>

RunFails ==
  /\ pc = "run"
  /\ verdict' = [verdict EXCEPT ![row] = "failed"]
  /\ Goto("idle", 0)
  /\ UNCHANGED <<github, ci, requested, noted, todo, asked, told, old, current>>

\* An `ok`: our brake comes off (a person's stays), and the row waits for the
\* build that was asked for.
Approve ==
  /\ pc = "run"
  /\ flags' \in {flags, flags \ {"brake"}}
  /\ verdict' = [verdict EXCEPT ![row] = "ok"] /\ SetCi(row, "waiting")
  /\ Goto("idle", 0)
  /\ UNCHANGED <<state, head, own, build, greens, requested, noted, todo, asked, told, old, current>>

\* The label or the rejection could not be read: the row stays running.
ApproveFails ==
  /\ pc = "run"
  /\ Goto("idle", 0)
  /\ UNCHANGED <<github, db, todo, asked, told, old, current>>

\* Findings: the row is published, then the review uses the request up and
\* brings the brake.
Judge ==
  /\ pc = "run"
  /\ verdict' = [verdict EXCEPT ![row] = "findings"]
  /\ Goto("reject", row)
  /\ UNCHANGED <<github, ci, requested, noted, todo, asked, told, old, current>>

Reject ==
  /\ pc = "reject"
  /\ flags' \in {flags, flags \ {"request"}, (flags \ {"request"}) \cup {"brake"}}
  /\ Goto("idle", 0)
  /\ UNCHANGED <<state, head, own, build, greens, db, todo, asked, told, old, current>>

-----------------------------------------------------------------------------
(* The process stops anywhere; its boot reaps the run it left.             *)

Stop ==
  /\ pc \notin {"idle", "down"}
  /\ Goto("down", 0) /\ todo' = {} /\ asked' = FALSE /\ current' = FALSE
  /\ UNCHANGED <<github, db, told, old>>

Boot ==
  /\ pc = "down"
  /\ verdict' = [s \in Shas |-> IF verdict[s] = "running" THEN "failed" ELSE verdict[s]]
  /\ Goto("idle", 0)
  /\ UNCHANGED <<github, ci, requested, noted, todo, asked, told, old, current>>

-----------------------------------------------------------------------------
(* CI, the clock, the author and the people with labels.                   *)

\* Only the head's build, and only until the watch has read: nothing else
\* reads builds, nor those of an earlier commit.
Build(b) ==
  /\ pc \in {"idle", "watch"}
  /\ IF build[head] = "running" THEN b # "running" ELSE b = "running"
  /\ build' = [build EXCEPT ![head] = b]
  /\ greens' = IF b = "green" THEN greens \cup {head} ELSE greens
  /\ UNCHANGED <<state, head, own, flags, db, daemon, told, old, current, clean>>

\* The watch compares ages once, as a tick begins.
Ages(s) ==
  /\ pc = "idle" /\ Waiting(s) /\ old' = old \cup {s}
  /\ UNCHANGED <<github, db, daemon, told, current, clean>>

Moved == current' = FALSE /\ UNCHANGED <<own, build, greens, db, daemon, told, old>>

Push == state = "OPEN" /\ head < MaxHead /\ head' = head + 1 /\ Moved /\ UNCHANGED <<state, flags, clean>>

\* A person flips a label or the request, closes, reopens or merges the PR.
\* GitHub takes no request for the review of the author.
Flip(f) ==
  /\ ~ (own /\ f = "request")
  /\ flags' = IF f \in flags THEN flags \ {f} ELSE flags \cup {f}
  /\ clean' = (clean /\ f \notin {"label", "taken"})
  /\ Moved /\ UNCHANGED <<state, head>>

Close ==
  /\ \/ state = "OPEN" /\ state' \in {"CLOSED", "MERGED"}
     \/ state = "CLOSED" /\ state' = "OPEN"
  /\ clean' = FALSE
  /\ Moved /\ UNCHANGED <<head, flags>>

Unread == QueueUnread \/ HeadsUnread \/ GateUnread \/ ApproveFails

Tick ==
  /\ \/ BeginTick \/ NoteRed \/ WatchDone \/ ReadQueue \/ Retire \/ Skip \/ Taken \/ Review
     \/ RunFails \/ Approve \/ Judge \/ Reject \/ Unread \/ Boot
     \/ \E s \in Shas : WatchOne(s)
  /\ UNCHANGED clean

People == Push \/ Close \/ \E f \in Flags : Flip(f)

Next == \/ Tick \/ (Stop /\ UNCHANGED clean) \/ People
        \/ (\E b \in {"running", "green", "red"} : Build(b)) \/ \E s \in Shas : Ages(s)

Spec == Init /\ [][Next]_vars

\* The loop goes round, containers have a deadline, an approval gets old, and
\* the queue can be read now and then.
Fairness ==
  /\ WF_vars(Tick) /\ SF_vars(ReadQueue /\ UNCHANGED clean)
  /\ \A s \in Shas : SF_vars(Ages(s))

-----------------------------------------------------------------------------
(* Properties.                                                             *)

\* A row says green only of a commit whose own build was green at some time:
\* never because a later commit's was, nor because nothing reported.
GreenWasGreen == \A s \in Shas : ci[s] = "green" => s \in greens

\* A row is settled red only when its note is on the PR: no refusal, lost
\* answer or restart between the two leaves the author without it.
RedIsTold == \A s \in Shas : ci[s] = "red" => s \in told

\* Between ticks, when nothing moved on GitHub since the tick read the queue
\* and none of its reads failed, a row on the board is true: the PR is open
\* and labelled, somebody asks for the review or the PR is robbie's own, nobody
\* holds or has taken it, and the approved commit is its head.
BoardIsCurrent ==
  pc = "idle" /\ current =>
    \A s \in Shas : OnBoard(s) => InQueue /\ s = head /\ flags \cap {"brake", "taken"} = {}

\* No approval waits for ever: its build is read, it is retired, or it expires.
WatchEnds == \A s \in Shas : Waiting(s) ~> ~ Waiting(s)

\* A brake is not a verdict: an approved head that was never closed, unlabelled
\* or taken, and is not too old, is on the board once no brake is.
BackOnTheBoard ==
  \A s \in Shas :
    <>[](s = head /\ verdict[s] = "ok" /\ clean /\ s \notin old /\ InQueue /\ "brake" \notin flags)
      => []<>OnBoard(s)
=============================================================================
