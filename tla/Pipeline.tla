------------------------------ MODULE Pipeline ------------------------------
(***************************************************************************)
(* The life of one pull request under the reviewer: Orchestrator._handle   *)
(* (the daemon's tick) and review_one (`robbie once`, a process of its     *)
(* own), what they read and write on GitHub, and the rows and notices they *)
(* keep.  The author, CI and the people with labels act between any two    *)
(* steps.                                                                  *)
(*                                                                         *)
(* A step runs from one await to the next.  A call that writes to GitHub   *)
(* has three outcomes: it landed and the code heard so; GitHub refused it; *)
(* or it landed and the code did not hear (Lost: a timeout of `gh`, or a   *)
(* crash right after).  The last two raise GhError.                        *)
(***************************************************************************)
EXTENDS Gates, ReviewDb

CONSTANTS
  Daemon,     \* the `poll` process
  Forced,     \* `once` processes, which may run beside it
  Blank,      \* the request a forced run records when it cannot read the timeline
  EmptyShas,  \* commits that may change no files
  OwnPr       \* the PR's author is the reviewer itself (self_review)

ASSUME PipelineAssumption ==
  /\ Shas \subseteq Nat \ {0} /\ 1 \in Shas
  /\ Blank \in Requests /\ Blank \notin Nat
  /\ 0 \in Requests /\ Requests \ {Blank} \subseteq Nat
  /\ Daemon \notin Forced
  /\ EmptyShas \subseteq Shas
  /\ OwnPr \in BOOLEAN
  /\ NeedsWork \notin DoneLabels

Procs == {Daemon} \cup Forced

VARIABLES
  \* GitHub
  head,      \* the PR's head commit; commits are numbered in the order pushed
  asked,     \* the last review request on the timeline, 0 when there is none
  pending,   \* the request is still open, which puts the PR in the queue
  labels,
  checks,    \* the head's rollup: "none", "red", or "fine" (running or green)
  vetoed,    \* our changes-requested review stands
  open,      \* a thread of ours waits for the author
  phraseAt,  \* the head when the CI phrase was last commented, 0 for never
  backdated, \* commits made before a phrase on the PR and pushed after it
  empty,     \* commits that change no files
  posts,     \* per kind and commit: how often we commented it
  \* each process
  pc,        \* the call it is at
  sha,       \* the commit it read, 0 when it has read none
  req,       \* the request it read
  word,      \* "red", the gate's decision or the run's verdict: what it acts on
  \* observed, and read by nothing
  built,     \* commits a build started on
  warned     \* commits whose CI request failed with a message to the operator

github == <<head, asked, pending, labels, checks, vetoed, open, phraseAt, backdated, empty, posts>>
local  == <<pc, sha, req, word>>
seen   == <<built, warned>>
vars   == <<github, rows, notices, seeded, local, seen>>

Steps == {"idle", "seed", "backlog", "meta", "request", "threads", "tell", "telling",
          "note", "noting", "slot", "running", "giveup", "clear", "unlabel", "retract",
          "ask", "asking", "warn", "announce", "announcing", "publish", "posting", "label"}
Words == {"", "red"} \cup Decisions \cup Verdicts

GithubTypeOK ==
  /\ head \in Shas /\ asked \in Requests \ {Blank}
  /\ labels \subseteq Labels
  /\ checks \in {"none", "fine", "red"}
  /\ pending \in BOOLEAN /\ vetoed \in BOOLEAN /\ open \in BOOLEAN
  /\ phraseAt \in Shas \cup {0}
  /\ backdated \subseteq Shas
  /\ posts \in [Posts -> Nat]
  /\ empty \subseteq EmptyShas

LocalTypeOK ==
  /\ pc \in [Procs -> Steps] /\ sha \in [Procs -> Shas \cup {0}]
  /\ req \in [Procs -> Requests] /\ word \in [Procs -> Words]

SeenTypeOK == built \subseteq Shas /\ warned \subseteq Shas

TypeOK == GithubTypeOK /\ DbTypeOK /\ LocalTypeOK /\ SeenTypeOK

\* A PR opened before the daemon ever ran, with or without a request.
Init ==
  /\ DbInit
  /\ head = 1 /\ labels = {} /\ checks = "none"
  /\ \/ asked = 0 /\ pending = FALSE
     \/ ~ OwnPr /\ 1 \in Requests /\ asked = 1 /\ pending = TRUE
  /\ vetoed = FALSE /\ open = FALSE /\ phraseAt = 0 /\ backdated = {}
  /\ posts = [x \in Posts |-> 0]
  /\ empty \in SUBSET EmptyShas
  /\ pc = [p \in Procs |-> "idle"] /\ sha = [p \in Procs |-> 0]
  /\ req = [p \in Procs |-> 0] /\ word = [p \in Procs |-> ""]
  /\ built = {} /\ warned = {}

\* The queue, or the self-queue of the reviewer's own PRs (candidates).
InQueue == OwnPr \/ pending

Key(p) == <<sha[p], req[p]>>

Goto(p, l) == pc' = [pc EXCEPT ![p] = l] /\ UNCHANGED <<sha, req, word>>

Finish(p) ==
  /\ pc' = [pc EXCEPT ![p] = "idle"]
  /\ sha' = [sha EXCEPT ![p] = 0]
  /\ req' = [req EXCEPT ![p] = 0]
  /\ word' = [word EXCEPT ![p] = ""]

Read(p, l, w) ==
  /\ pc' = [pc EXCEPT ![p] = l]
  /\ word' = [word EXCEPT ![p] = w]

db == <<rows, notices, seeded>>

-----------------------------------------------------------------------------
(* A tick reaches the PR: cold start, or the gates.                        *)

Poll ==
  /\ pc[Daemon] = "idle"
  /\ InQueue \/ ~ seeded
  /\ IF seeded THEN Goto(Daemon, "meta") /\ UNCHANGED seeded
     ELSE IF InQueue THEN Goto(Daemon, "seed") /\ UNCHANGED seeded
     ELSE seeded' = TRUE /\ UNCHANGED local
  /\ UNCHANGED <<github, rows, notices, seen>>

SeedMeta ==
  /\ pc[Daemon] = "seed"
  /\ pc' = [pc EXCEPT ![Daemon] = "backlog"]
  /\ sha' = [sha EXCEPT ![Daemon] = head]
  /\ UNCHANGED <<github, db, req, word, seen>>

\* The PR is recorded; its repository is seeded unless another PR of the
\* backlog could not be read.
SeedRow ==
  /\ pc[Daemon] = "backlog"
  /\ RecordHold(<<sha[Daemon], asked>>)
  /\ seeded' \in BOOLEAN
  /\ Finish(Daemon)
  /\ UNCHANGED <<github, notices, seen>>

ReadMeta(p) ==
  /\ pc[p] = "meta"
  /\ IF p = Daemon /\ (LabelHold(labels) \/ DoneLabel(labels))
     THEN Finish(p)
     ELSE /\ sha' = [sha EXCEPT ![p] = head]
          /\ Read(p, "request", IF checks = "red" THEN "red" ELSE "")
          /\ UNCHANGED req
  /\ UNCHANGED <<github, db, seen>>

ReadRequest(p) ==
  /\ pc[p] = "request"
  /\ IF p = Daemon /\ AlreadyJudged(state[<<sha[p], asked>>])
     THEN Finish(p)
     ELSE /\ req' = [req EXCEPT ![p] = asked]
          /\ pc' = [pc EXCEPT ![p] = IF p = Daemon THEN "threads" ELSE "slot"]
          /\ UNCHANGED <<sha, word>>
  /\ UNCHANGED <<github, db, seen>>

ReadThreads(p) ==
  /\ pc[p] = "threads"
  /\ LET d == Evaluate(sha[p] \in empty, ShaJudged(sha[p]), open, word[p] = "red")
     IN  /\ Read(p, CASE d = "review"  -> "slot"
                      [] d = "ci note" -> "note"
                      [] OTHER         -> "tell", d)
         /\ UNCHANGED <<sha, req>>
  /\ UNCHANGED <<github, db, seen>>

\* `robbie once`: no queue and no gates.
Once(p) ==
  /\ p \in Forced /\ pc[p] = "idle"
  /\ Goto(p, "meta")
  /\ UNCHANGED <<github, db, seen>>

BlankRequest(p) ==
  /\ p \in Forced /\ pc[p] = "request"
  /\ req' = [req EXCEPT ![p] = Blank]
  /\ pc' = [pc EXCEPT ![p] = "slot"]
  /\ UNCHANGED <<github, db, sha, word, seen>>

-----------------------------------------------------------------------------
(* A hold: the notice is spent, then the message goes out, then the row is *)
(* written.                                                                *)

Hold(p) == IF Recorded(word[p]) THEN RecordHold(Key(p)) ELSE UNCHANGED rows

Tell(p) ==
  /\ pc[p] = "tell"
  /\ IF Notified(word[p]) /\ Key(p) \notin dmed
     THEN dmed' = dmed \cup {Key(p)} /\ Goto(p, "telling") /\ UNCHANGED rows
     ELSE Hold(p) /\ Finish(p) /\ UNCHANGED dmed
  /\ UNCHANGED <<github, sent, dismissTold, seeded, seen>>

\* Slack may be down: `post` then logs and returns, and the row is written.
Telling(p) ==
  /\ pc[p] = "telling"
  /\ Hold(p)
  /\ Finish(p)
  /\ UNCHANGED <<github, notices, seeded, seen>>

-----------------------------------------------------------------------------
(* What reaches GitHub.                                                    *)

Comment(kind, c) == posts' = [posts EXCEPT ![<<kind, c>>] = @ + 1]

\* Anybody's build of the head starts at the phrase.
PhraseLands(p) ==
  /\ Comment("run-ci", sha[p])
  /\ phraseAt' = head
  /\ UNCHANGED <<head, asked, pending, labels, checks, vetoed, open, backdated, empty>>

\* A changes-requested review stands as a veto and uses the request up; a
\* plain comment does neither, and the reviewer's own PR gets a comment.
ReviewLands(p) ==
  LET rejects == word[p] = "needs-work" /\ ~ OwnPr
  IN  /\ Comment("review", sha[p])
      /\ vetoed' = (vetoed \/ rejects)
      /\ pending' = (pending /\ ~ rejects)
      /\ open' \in {open, TRUE}
      /\ UNCHANGED <<head, asked, labels, checks, phraseAt, backdated, empty>>

NoteLands(kind, p) ==
  /\ Comment(kind, sha[p])
  /\ UNCHANGED <<head, asked, pending, labels, checks, vetoed, open, phraseAt, backdated, empty>>

LabelsBecome(s) ==
  /\ labels' = s
  /\ UNCHANGED <<head, asked, pending, checks, vetoed, open, phraseAt, backdated, empty, posts>>

VetoFalls ==
  /\ vetoed' = FALSE
  /\ UNCHANGED <<head, asked, pending, labels, checks, open, phraseAt, backdated, empty, posts>>

\* once_per: the notice is looked up before the call and written after it.
OncePer(p, kind, at, call, otherwise) ==
  /\ pc[p] = at
  /\ IF <<kind, sha[p]>> \in sent
     THEN IF otherwise = "idle" THEN Finish(p) ELSE Goto(p, otherwise)
     ELSE Goto(p, call)

Sent(p, kind) == sent' = sent \cup {<<kind, sha[p]>>} /\ UNCHANGED <<dmed, dismissTold>>

NoteRed(p) ==
  /\ OncePer(p, "ci-red", "note", "noting", "idle")
  /\ UNCHANGED <<github, db, seen>>

PostRed(p) ==
  /\ pc[p] = "noting"
  /\ NoteLands("ci-red", p)
  /\ Sent(p, "ci-red")
  /\ Finish(p)
  /\ UNCHANGED <<rows, seeded, seen>>

-----------------------------------------------------------------------------
(* A review: the slot, the container, and what its verdict comes to.       *)

TakeSlot(p) ==
  /\ pc[p] = "slot"
  /\ StartReview(Key(p))
  /\ Goto(p, "running")
  /\ UNCHANGED <<github, notices, seeded, seen>>

TurnedAway(p) ==
  /\ pc[p] = "slot"
  /\ Finish(p)
  /\ UNCHANGED <<github, db, seen>>

RunFails(p) ==
  /\ pc[p] = "running"
  /\ FinishReview(Key(p), "failed", "")
  /\ Goto(p, "giveup")
  /\ UNCHANGED <<github, notices, seeded, seen>>

\* No verdict, or findings with no summary to post them under: held.
RunUnusable(p) ==
  /\ pc[p] = "running"
  /\ \E v \in {"", "needs-work", "comment"} : FinishReview(Key(p), "held", v)
  /\ Goto(p, "giveup")
  /\ UNCHANGED <<github, notices, seeded, seen>>

RunApproves(p) ==
  /\ pc[p] = "running"
  /\ Goto(p, "clear")
  /\ UNCHANGED <<github, db, seen>>

\* Mutant: findings are posted first and written down after.
RunFindsUnwritten(p) ==
  /\ pc[p] = "running"
  /\ \E v \in {"needs-work", "comment"} : Read(p, "publish", v)
  /\ UNCHANGED <<github, db, sha, req, seen>>

\* Judged before it is posted: a failed post must not buy another review.
RunFinds(p) ==
  /\ pc[p] = "running"
  /\ \E v \in {"needs-work", "comment"} :
       /\ FinishReview(Key(p), "published", v)
       /\ Read(p, "publish", v)
  /\ UNCHANGED <<github, notices, seeded, sha, req, seen>>

GiveUp(p) ==
  /\ pc[p] = "giveup"
  /\ Finish(p)
  /\ UNCHANGED <<github, db, seen>>

-----------------------------------------------------------------------------
(* An approval: label, veto, build, row, note.                             *)

ReadLabels(p) ==
  /\ pc[p] = "clear"
  /\ Goto(p, IF NeedsWork \in labels THEN "unlabel" ELSE "retract")
  /\ UNCHANGED <<github, db, seen>>

Unlabel(p) ==
  /\ pc[p] = "unlabel" /\ NeedsWork \in labels
  /\ LabelsBecome(labels \ {NeedsWork})
  /\ Goto(p, "retract")
  /\ UNCHANGED <<db, seen>>

Retract(p) ==
  /\ pc[p] = "retract"
  /\ VetoFalls
  /\ Goto(p, "ask")
  /\ UNCHANGED <<db, seen>>

\* Mutant: the failed retraction is swallowed.
RetractFailsSilently(p) ==
  /\ pc[p] = "retract"
  /\ Goto(p, "ask")
  /\ UNCHANGED <<github, db, seen>>

\* Best effort: refused or not heard of, the operator is told once per PR, and
\* the approval goes on.
RetractFails(p) ==
  /\ pc[p] = "retract"
  /\ UNCHANGED github \/ VetoFalls
  /\ dismissTold' = TRUE
  /\ Goto(p, "ask")
  /\ UNCHANGED <<rows, sent, dmed, seeded, seen>>

\* A phrase on the PR that is newer than the commit: since it was pushed, or
\* since it was made, which is what the committer's date says.
AlreadyAsked(c) == phraseAt >= c \/ c \in backdated

\* Mutant: whichever head is building will do.
BuildStartedAnywhere(p) == checks # "none" \/ AlreadyAsked(sha[p])

\* The head as it is now: any check of this commit, or a phrase newer than it.
BuildStarted(p) == head = sha[p] /\ (checks # "none" \/ AlreadyAsked(sha[p]))

Approve(p) ==
  /\ FinishReview(Key(p), "published", "ok")
  /\ Goto(p, "announce")

AlreadyBuilding(p) ==
  /\ pc[p] = "ask"
  /\ BuildStarted(p) \/ <<"run-ci", sha[p]>> \in sent
  /\ Approve(p)
  /\ UNCHANGED <<github, notices, seeded, seen>>

\* No build that the code can see: none there, or a read that failed.
NeedsBuild(p) ==
  /\ pc[p] = "ask"
  /\ <<"run-ci", sha[p]>> \notin sent
  /\ Goto(p, "asking")
  /\ UNCHANGED <<github, db, seen>>

AskCi(p) ==
  /\ pc[p] = "asking"
  /\ PhraseLands(p)
  /\ Sent(p, "run-ci")
  /\ Approve(p)
  /\ UNCHANGED <<seeded, seen>>

Warn(p) ==
  /\ pc[p] = "warn"
  /\ warned' = warned \cup {sha[p]}
  /\ Approve(p)
  /\ UNCHANGED <<github, notices, seeded, built>>

Announce(p) ==
  /\ OncePer(p, "approved", "announce", "announcing", "idle")
  /\ UNCHANGED <<github, db, seen>>

PostApproval(p) ==
  /\ pc[p] = "announcing"
  /\ NoteLands("approved", p)
  /\ Sent(p, "approved")
  /\ Finish(p)
  /\ UNCHANGED <<rows, seeded, seen>>

-----------------------------------------------------------------------------
(* Findings: the review, then the label that holds the next pass.          *)

\* Mutant: the notice of the review is written before the call.
PublishNoted(p) ==
  /\ pc[p] = "publish" /\ <<"review", sha[p]>> \notin sent
  /\ Sent(p, "review")
  /\ Goto(p, "posting")
  /\ UNCHANGED <<github, rows, seeded, seen>>

Publish(p) ==
  /\ OncePer(p, "review", "publish", "posting", "idle")
  /\ UNCHANGED <<github, db, seen>>

PostReview(p) ==
  /\ pc[p] = "posting"
  /\ ReviewLands(p)
  /\ Goto(p, "label")
  /\ UNCHANGED <<db, seen>>

SetLabel(p) ==
  /\ pc[p] = "label"
  /\ LabelsBecome(labels \cup {NeedsWork})
  /\ Sent(p, "review")
  /\ FinishReview(Key(p), "published", word[p])
  /\ Finish(p)
  /\ UNCHANGED <<seeded, seen>>

-----------------------------------------------------------------------------
(* What goes wrong.                                                        *)

\* Where a GhError leads: out of `_handle`, or to the handler nearest to it.
\* The label of an approval is outside every handler of `_deliver`.
Escapes == {"seed", "backlog", "meta", "request", "threads", "noting", "clear", "unlabel"}

Raise(p) ==
  \/ pc[p] \in Escapes \cup {"announcing"} /\ Finish(p)
  \/ pc[p] \in {"posting", "label"} /\ Goto(p, "giveup")
  \/ pc[p] = "asking" /\ Goto(p, "warn")

Refused(p) ==
  /\ Raise(p)
  /\ UNCHANGED <<github, db, seen>>

Lost(p) ==
  /\ \/ pc[p] = "noting" /\ NoteLands("ci-red", p)
     \/ pc[p] = "unlabel" /\ NeedsWork \in labels /\ LabelsBecome(labels \ {NeedsWork})
     \/ pc[p] = "asking" /\ PhraseLands(p)
     \/ pc[p] = "announcing" /\ NoteLands("approved", p)
     \/ pc[p] = "posting" /\ ReviewLands(p)
     \/ pc[p] = "label" /\ LabelsBecome(labels \cup {NeedsWork})
  /\ Raise(p)
  /\ UNCHANGED <<db, seen>>

\* The process is killed.  The daemon is started again, and its boot reaps the
\* rows of every process.
Crash(p) ==
  /\ Finish(p)
  /\ IF p = Daemon THEN ReapRunning ELSE UNCHANGED rows
  /\ UNCHANGED <<github, notices, seeded, seen>>

Fault(p) ==
  \/ Refused(p) \/ Lost(p) \/ Crash(p)
  \/ TurnedAway(p) \/ RunFails(p) \/ RetractFails(p)

-----------------------------------------------------------------------------
(* The people and CI.                                                      *)

Push ==
  /\ head + 1 \in Shas
  /\ head' = head + 1
  /\ checks' = "none"
  /\ open' \in {open, FALSE}     \* the push may outdate the thread
  /\ \/ UNCHANGED backdated
     \/ phraseAt # 0 /\ backdated' = backdated \cup {head + 1}
  /\ UNCHANGED <<asked, pending, labels, vetoed, phraseAt, empty, posts, built>>

Request ==
  /\ ~ OwnPr /\ ~ pending /\ asked + 1 \in Requests
  /\ asked' = asked + 1
  /\ pending' = TRUE
  /\ UNCHANGED <<head, labels, checks, vetoed, open, phraseAt, backdated, empty, posts, built>>

Withdraw ==
  /\ pending
  /\ pending' = FALSE
  /\ UNCHANGED <<head, asked, labels, checks, vetoed, open, phraseAt, backdated, empty, posts, built>>

Answer ==
  /\ open
  /\ open' = FALSE
  /\ UNCHANGED <<head, asked, pending, labels, checks, vetoed, phraseAt, backdated, empty, posts, built>>

\* Anyone takes a label off; the needs-work label goes on by our hand only.
Relabel ==
  /\ \/ \E l \in labels : labels' = labels \ {l}
     \/ \E l \in Labels \ (labels \cup {NeedsWork}) : labels' = labels \cup {l}
  /\ UNCHANGED <<head, asked, pending, checks, vetoed, open, phraseAt, backdated, empty, posts, built>>

\* Somebody else comments the phrase, for the head of the moment.
Phrase ==
  /\ phraseAt' = head
  /\ UNCHANGED <<head, asked, pending, labels, checks, vetoed, open, backdated, empty, posts, built>>

\* A build of the head starts, for our phrase or for anybody's; it may turn
\* red, and somebody may run it again.
Build ==
  /\ \/ checks = "none" /\ checks' = "fine" /\ built' = built \cup {head}
     \/ checks = "fine" /\ checks' = "red" /\ UNCHANGED built
     \/ checks = "red" /\ checks' = "fine" /\ UNCHANGED built
  /\ UNCHANGED <<head, asked, pending, labels, vetoed, open, phraseAt, backdated, empty, posts>>

World ==
  /\ Push \/ Request \/ Withdraw \/ Answer \/ Relabel \/ Phrase \/ Build
  /\ UNCHANGED <<db, local, warned>>

GateStep(p) == ReadMeta(p) \/ ReadRequest(p) \/ ReadThreads(p)
HoldStep(p) == Tell(p) \/ Telling(p) \/ NoteRed(p) \/ PostRed(p)
RunStep(p)  == TakeSlot(p) \/ RunUnusable(p) \/ RunApproves(p) \/ RunFinds(p) \/ GiveUp(p)
OkStep(p)   ==
  \/ ReadLabels(p) \/ Unlabel(p) \/ Retract(p) \/ AlreadyBuilding(p) \/ NeedsBuild(p)
  \/ AskCi(p) \/ Warn(p) \/ Announce(p) \/ PostApproval(p)
FindingsStep(p) == Publish(p) \/ PostReview(p) \/ SetLabel(p)

Advance(p) == GateStep(p) \/ HoldStep(p) \/ RunStep(p) \/ OkStep(p) \/ FindingsStep(p)

DaemonTick == Poll \/ SeedMeta \/ SeedRow

\* Nothing goes wrong.
Calm ==
  \/ DaemonTick
  \/ \E p \in Forced : Once(p) \/ BlankRequest(p)
  \/ \E p \in Procs : Advance(p)
  \/ World

Next == Calm \/ \E p \in Procs : Fault(p)

Spec == Init /\ [][Next]_vars

\* The loop comes round and every await ends.  Calls fail and processes die,
\* but not for ever.
Fairness ==
  /\ WF_vars(DaemonTick \/ Advance(Daemon))
  /\ <>[][Calm]_vars

FairSpec == Spec /\ Fairness

-----------------------------------------------------------------------------
\* One commit, one answer: however many times the daemon dies or GitHub does
\* not answer, the PR gets at most one review and one approval note of a
\* commit, and never both (_deliver records before it posts).
OneAnswerPerCommit ==
  \A c \in Shas : posts[<<"review", c>>] + posts[<<"approved", c>>] <= 1

\* An approval has its build: started, asked for since the push, or the
\* operator knows that the request failed; all that escapes is a commit made
\* before a phrase that was meant for the head of its time (_request_ci,
\* ci_already_asked).
ApprovedIsBuilt ==
  \A c \in Shas : \A r \in Requests :
    (state[<<c, r>>] = "published" /\ verdict[<<c, r>>] = "ok")
      => (c \in built \cup warned \/ AlreadyAsked(c))

\* Once the newest pass is an approval our own veto and our own brake are off
\* the PR, or the operator was told that the veto could not be retracted
\* (clear_needs_work, _retract_rejection).
ApprovedIsFree ==
  Approved => (NeedsWork \notin labels /\ (vetoed => dismissTold))

\* A notice is true: whoever wrote it, the post it stands for is on the PR
\* (once_per writes it after the call, publish_review's after the label).
NoticesAreTrue == \A x \in sent : posts[x] > 0

\* A judged commit stays judged, so nothing reviews it again (sha_was_judged).
StaysJudged == [][\A c \in Shas : ShaJudged(c) => ShaJudged(c)']_vars

\* What the PR's rows and posts amount to, commit by commit.
JudgementOf(c) ==
  IF \E r \in Requests : state[<<c, r>>] = "published"
  THEN IF \E r \in Requests : state[<<c, r>>] = "published" /\ verdict[<<c, r>>] = "ok"
       THEN "ok" ELSE "findings"
  ELSE IF ShaJudged(c) THEN "held" ELSE "no"

SaidOf(c) ==
  LET n == posts[<<"review", c>>]
      a == posts[<<"approved", c>>]
  IN  CASE n = 0 /\ a = 0 -> "nothing"
        [] n = 0 /\ a = 1 -> "approval"
        [] n = 1 /\ a = 0 -> "changes"
        [] OTHER -> "twice"

Promise == INSTANCE Passes WITH
  Commits   <- Shas,
  judgement <- [c \in Shas |-> JudgementOf(c)],
  said      <- [c \in Shas |-> SaidOf(c)]

\* The rows and the posts implement what the reviewer promises of a commit.
PassesKept == Promise!Spec

\* A request that stays in the queue, with nothing that holds it, gets the
\* PR's last commit judged, the first or a later one: reviewed, or held for
\* good, which is all that HeldComesBack leaves of it (poll_once, gates 3 to 6).
Reviewable == InQueue /\ labels = {} /\ ~ open /\ checks # "red"
RequestIsJudged == <>[]Reviewable => <>[]ShaJudged(head)

-----------------------------------------------------------------------------
(* What the code's own words promise and its steps do not keep.            *)

\* db.reap_running: a row is only 'running' while a process holds the container.
RunningHasItsProcess ==
  \A k \in Keys : state[k] = "running" =>
    \E p \in Procs : Key(p) = k /\ pc[p] # "idle"

\* orchestrator._unusable: a run without a usable answer is held rather than
\* failed, so that the PR comes back on its own.
HeldRun == pc[Daemon] = "giveup" /\ state[Key(Daemon)] = "held"
HeldComesBack == <>[]Reviewable => (HeldRun ~> pc[Daemon] = "running")
=============================================================================
