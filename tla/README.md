# robbie, specified

A TLA+ development of the code reviewer in `src/` (package `robbie`): a daemon
that polls GitHub for pull requests that ask for its review, runs a model in a
container for each, posts what it said, answers the replies, watches the builds
it asked for, and fixes small bug reports. The development specifies what the
daemon may never do to a pull request, to a bug report or to the account that
pays for it, and what must happen in the end, whatever the order of the people's
actions, the failures of GitHub and Slack, and the restarts of the process.

Paths below are relative to `src/src/robbie/` unless they start with
`robbie_mcp/` or name a file of the root.

## 1. The system

| component | state it keeps | operations | talks to |
|---|---|---|---|
| `orchestrator.py` | `_inflight`, `_sem`, `_admit_lock`, `_gate_sem`, the tick's threads | `poll_once`, `review_one`, `_gate`, `_act`, `_slot`, `_review`, `_deliver`, `_request_ci`, `_retract_rejection`, `_announce_approval`, `_seed`, `_retire_unlabeled` | everything below |
| `gates.py` | none | `label_hold`, `done_label`, `already_judged`, `evaluate`, `dedup_key` | pure |
| `db.py` | SQLite: `reviews`, `notices`, `spend`, `meters`, `requested`, `seeded` | `start_review`, `finish_review`, `record_hold`, `reap_running`, `notice_once`, `spend_since`, `settle_*`, `set_ci_state`, `set_requested`, `approved_and_green` | one statement per commit |
| `publish.py` | none | `once_per`, `publish_review`, `post_approval`, `request_ci`, `post_ci_note`, `clear_needs_work`, `dismiss_own_rejection`, `reply_to_thread`, `resolve_thread`, `settle_issue` | GitHub |
| `github.py` | none | `gh` with a timeout, the queue search, PR, timeline, threads, checks | the `gh` CLI |
| `budget.py` | the stored meters | `poll`, `check` | `db.py`, the providers |
| `runner.py` | containers | `run_review` | docker |
| `threads.py` | notices per thread and reply count | `sweep`, `_one`, `_answer` | slots, GitHub |
| `ci_watch.py` | `ci_state` of approvals | `watch`, `_one` | GitHub |
| `issues.py`, `triage.py`, `fixer.py` | labels of the issue queue, notices | triage, money question, fix | own clock, containers |
| `robbie_mcp/pr.py` | none | `open_pull_request` for the container | GitHub |
| `anchor.py`, `contract.py` | none | where a finding is commented; how a run's text is read | pure |
| `main.py` | the stop event, tasks | `_loop`, `_ticks`, `_meters`, `_issues`, boot | all |
| `slack.py`, `jane.py` | none | messages to the operator | best effort |
| `config.py` | none | the configuration, read once | |
| `dashboard.py`, `export.py`, `digest.py`, `props_bridge.py`, `outcome.py`, `branding.py`, `robbie_proxy`, `robbie_mcp/sentry.py` | none that a gate reads | reports and forwarding | |

What is hard here:

* *one event loop, many awaits*: the tick's jobs interleave at each call of
  GitHub, Slack and docker; what is read before a container of half an hour is
  acted upon after it;
* *several clocks*: reviews, issues and meters tick beside each other, and a
  signal stops them at different moments;
* *a second process*: `robbie once` shares the database and the pull request
  with the daemon, with nothing between them but SQLite; a container outlives
  the daemon that started it;
* *GitHub*: a call is refused, or it landed and the answer is lost
  (`github.gh` kills it at its timeout); the code cannot tell which;
* *crashes*: rows and notices survive, `_inflight`, permits and the process's
  place do not; the boot reaps `running` rows;
* *people*: they push, request, withdraw, label, answer, close and build at any
  time;
* *money*: the sum the gate reads lags behind what is being spent, and the
  meter ages while nobody reads it.

The hazards, each at its line and with the properties that would catch it, are
in `PROJECT.json`.

## 2. Modules

    Ledger     what the spend gate promises
      ^ refines
    Slots      permits, in-flight counter, spend gate, tick, fixes
               MCSlots, SlotsProofs

    Passes     what the reviewer promises of a commit
      ^ refines
    Pipeline   one pull request under the daemon and `robbie once`
               EXTENDS Gates (gates.py, pure), ReviewDb (rows and notices)
               MCPipeline, MCTrouble, PipelineProofs

    Board      ci_state, requested and the worklist    MCBoard, BoardProofs
    Threads    the reply sweep of a pull request       MCThreads, ThreadsProofs
    Issues     one bug report, its containers, its fix MCIssues, IssuesProofs
    Daemon     the loops and the meters' clock         MCDaemon, DaemonProofs

    Triage, Patch, Anchor, Checks, Contract    pure parts
      Scan     the loop of a parser, which Triage, Anchor and Contract
               INSTANCE, and induction over it
      Text     EXTENDS the five: their properties, of a growing input
               MCText, TextProofs

A step of a model is what the event loop runs without suspending. So `_slot`'s
permit, gate and counter are one step (`Admit`; `_admit` never suspends), the
operator's message that follows is another (`EnterSlot`, `TellingFails`), and
an approval, which awaits GitHub three times before it writes its row, is as
many. A definition under a "Mutant:" comment is a deliberately wrong variant of
one near it. No specification uses it: it is put in the other's place to see
that a property notices the mistake. Variables said to be "observed" are read
by no guard; they remember what a property needs.

The modules split the program where its parts meet in few values. The tick is in
four of them, each with what the others see of it: `Slots` knows a review as a
job with a cost, `Pipeline` as calls about one PR, `Board` by the verdict it
writes, `Daemon` as something that finished. Money questions and fixes are jobs
of `Slots` and calls of `Issues`; a sweep is a job of `Slots` and calls of
`Threads`; the meter `Slots` reads is the one `Daemon` polls and ages.

### Slots and Ledger

| TLA+ | code |
|---|---|
| `permits`, `inflight` | `_sem`, `_inflight` |
| `Admit`, `EnterSlot`, `TellingFails`, `LeaveSlot` | `_slot` 322-345 for a job that is let in, with `_admit` 368-388 and the await of `_tell_owner` before the `try` |
| `Refuse`, `TurnAway` | `_slot` 338-341 for one that is not: it holds its permit while the operator is told |
| `AccountAllows`, `EndpointAllows` | `budget._check_api`, `_check_endpoint` |
| `RunFails`, `RunEnds`, `RunApproves`, `WriteApproval`, `LoseApproval` | the ways out of `_review` and `_deliver`, and of `threads._answer` for a sweep |
| `StartFix`, `EndFix` | `fixer._fix_one`, `issues._ask_about_money` |
| `BeginTick`, `BeginReviews`, `EndTick` | `poll_once` |
| `Midnight`, `PollMeter`, `Restart` | `spend_since(midnight)`, `budget.poll`, a new process |
| `outside`, `leaked` | observed: the charges of the account that had no reserve; the counts of `_inflight` that nobody will lower |

The account is the one of `backend = "api"` (a daily limit in dollars). The
percentage meter of `backend = "oauth"` has the arithmetic of the endpoint's
(`EndpointAllows`) and is not modelled twice. A run costs at most the reserve:
the reserve is configured to cover a run, and the properties are about what
remains possible when it does. A run that fails reports no cost, so none enters
the sum.

`Ledger` is the promise: money is set aside before it is spent and settled for
no more than that, except for charges that never had a reserve, which it
counts. `Slots` implements it (`AccountLedger`) with
`held <- Cardinality(Held)`: the runs of the account that were let in, told
about or running. What leaked is no reserve of the ledger, since no run is
behind it; it only makes the gate stricter until the next process. An
approval gives its reserve back when it leaves its slot, so its cost arrives in
`Ledger` as a charge from outside.

### Pipeline, Gates, ReviewDb and Passes

| TLA+ | code |
|---|---|
| `head`, `asked`, `pending`, `labels`, `checks`, `vetoed`, `open`, `phraseAt`, `posts` | the PR on GitHub |
| `state`, `verdict`, `older`, `sent`, `dmed`, `dismissTold`, `seeded` | rows of `reviews`, `notices`, `seeded` |
| `pc`, `sha`, `req`, `word` | each process: its place, and the locals it carries over an await |
| `Poll`, `SeedMeta`, `SeedRow` | `poll_once`, `_seed` |
| `ReadMeta`, `ReadRequest`, `ReadThreads` | `_gate`, with `Gates` |
| `Tell`, `Telling`, `NoteRed`, `PostRed` | `_act`, `_dm_owner_once`, `post_ci_note` |
| `Once`, `BlankRequest` | `review_one` |
| `TakeSlot`, `TurnedAway`, `RunFails`, `RunUnusable`, `RunFinds`, `RunApproves`, `GiveUp` | `_review`, `_deliver` |
| `ReadLabels` ... `PostApproval` | the approval: `clear_needs_work`, `_retract_rejection`, `_request_ci`, `finish_review`, `_announce_approval` |
| `Publish`, `PostReview`, `SetLabel` | the findings: `once_per(publish_review)` and the label |
| `Refused`, `Lost`, `RetractFails` | a `GhError`: the call did nothing, or it landed and nobody heard |
| `Crash` | the process is killed; the daemon's next boot runs `reap_running` |
| `Push`, `Request`, `Withdraw`, `Answer`, `Relabel`, `Build` | the people and CI, external |
| `AlreadyAsked`, `backdated`, `Phrase` | `ci_already_asked` with the committer's date; commits made before a phrase and pushed after it; a phrase somebody else posts |
| `empty` | which of `EmptyShas` carry no new code, chosen at the start |
| `built`, `warned` | observed: heads whose build began or was asked for, and operator's warnings |

Commits are numbered in the order they are pushed, requests in the order they
are made; 0 is "no direct request" and `Blank` what a forced run records when
the timeline cannot be read. A PR is one row family: rows of other PRs are
never read by its gates, and what they share (capacity, seeding of the
repository) is `Slots` and the choice in `SeedRow`. Abstracted: bodies and
comments (only whether they are there), costs (in `Slots`), `ci_state` and
`requested` (in `Board`), `--no-publish` and `--dry-run` (in `Daemon`), ignored
checks (in `Checks`), and the read that precedes a dismissal inside `Retract`.

`Passes` is the promise: a commit is judged at most once and stays judged, and
the PR hears of it at most once, after the judgement and in its terms.

### Board

| TLA+ | code |
|---|---|
| `state`, `head`, `flags`, `build` | the PR on GitHub, and the checks of each commit |
| `verdict`, `ci`, `requested`, `noted` | `reviews.verdict`, `ci_state`, `requested`, the red note's notice |
| `BeginTick`, `WatchOne`, `NoteRed`, `WatchDone` | `expire_ci_watch`, `ci_watch.watch`, `_one`, `_settle` |
| `own`, `InQueue` | a PR of robbie's own under `self_review`, and `candidates`: the queue with the authored |
| `ReadQueue`, `QueueUnread` | the search and `set_requested` |
| `Retire`, `HeadsUnread` | `_retire_unlabeled` with `settle_unlabeled`, `settle_stale`, `unrequest` |
| `Skip`, `Taken`, `GateUnread`, `Review`, `RunFails`, `Approve`, `ApproveFails`, `Judge`, `Reject` | `_gate` and the pass, as the columns see them |
| `OnBoard` | `approved_and_green` |
| `Stop`, `Boot`, `Ages` | a stop anywhere, `reap_running`, an approval older than the watch |
| `greens`, `told`, `old`, `current`, `clean` | observed |

A read and the statements up to the next await are one step. Nothing else
writes these columns, so what GitHub does after its answer comes after the step.
A commit has one pass here, the newest of the PR; which pass a commit gets is
`Pipeline`'s question.

### Threads

| TLA+ | code |
|---|---|
| `talk`, `resolved`, `outdated`, `state` | the threads and the PR on GitHub; a person's reply is its number, ours is `Us` |
| `notices`, `merged`, `swept` | `thread_state` and `merged_key` notices, `reviewed_prs` |
| `seen`, `collapsed` | what this sweep read of the threads it has still to act on |
| `Sweep`, `SweepMerged`, `Meta`, `MetaGone`, `MetaNotOpen` | `sweep`, `_one`, `_answer` up to the slot |
| `Run`, `RunEnds`, `RunFails` | the container, and what `_settled` makes of its verdicts |
| `LeaveAlone`, `Resolve`, `Reply`, `ActFails` | what is done to a thread, and its failures |
| `Stop`, `Boot`; `Write`, `Toggle`, `MoveCode`, `Close`, `Retire` | the process; the people |
| `heard`, `judged` | observed: replies some finished run was shown, conversations whose verdict was carried out |

Replies are not edited or deleted. A deletion and a new reply give a count the
notice already has, and the thread is then left alone: a limit of the code
(section 6), not of the model's checks.

### Issues

| TLA+ | code |
|---|---|
| `open`, `labels`, `assigned`, `said`, `linked`, `branch`, `pr` | the report and its fix on GitHub |
| `pc`, `lane`, `job`, `answer` | the daemon's place: which tick, which call, which decision it is writing |
| `boxes` | containers that are up, named after the report |
| `call` | the tool call of the container (`"mine"`) and of one whose daemon is gone (`"late"`) |
| `ReadQueue`, `ReadMeta`, `ReadOwn`, `ReadLinks`, `SettlesTheForm` | `triage_tick`, `fix_tick`, `_triage_one`, `_fix_one`, `open_pr_for` |
| `StartMoney`, `MeterClosed`, `MoneyFailed`, `MoneyAnswered` | `_ask_about_money` |
| `StartFix`, `FixOver`, `Outcome` | `_fix_one` |
| `Comment`, `PutAssignee`, `AddLabel`, `ClearLabel` | `settle_issue`, call by call |
| `staffed`, `AfterSay` | whether `assignee` names anybody (by default nobody), and the call that follows the comment |
| `CallTool`, `GuardIssue`, `CheckBranch`, `Push`, `Post` | `open_pull_request` of `robbie_mcp/pr.py` |
| `BoxEnds`, `Lost`, `Refused`, `Stop`, `Boot` | a container ends, a call is lost or refused, the daemon stops and comes back |
| `CloseIssue`, `LinkPr`, `AbandonPr`, `Requeue` | the people |
| `cleared` | observed: some money check answered one unambiguous `MONEY: no` |

A container goes on when its daemon is gone, and the tool with the call it is in
when the container is gone: such a call is `"late"`. One late call at a time is
kept (`MaxLate = 1` in the comments): a second would need the tool to hang through
the life of another container. `said` and `assigned` are what was done since the
report last came into a queue: `Requeue` forgets both. A form whose verdict
raises (a `block_if` on a field left out, section 6) ends the whole pass of its
repository and is not a value of `form`.

### Daemon

| TLA+ | code |
|---|---|
| `used`, `live`, `file`, `renewed` | the account's window and its token, at the provider and in the file |
| `reading`, `age` | the stored meter, and the polls due since it was read |
| `loop`, `quiet`, `stop`, `jobs`, `running`, `reviewed` | `_run` and `_ticks` |
| `Due`, `ReadFile`, `Answered`, `Refused`, `Unauthorized` | `_meters`, `budget.poll`, `_fetch_plan` |
| `Allows` | `budget.check` with `_stored` |
| `Boot`, `BootDone`, `BeginTick`, `Start`, `TurnAway`, `Review`, `RunFails`, `EndTick`, `BadTick`, `Rested`, `Ends`, `Leave` | the loop |
| `Signal`, `Kill`, `Spend`, `RenewToken`, `WriteFile`, `Push` | the outside |
| `misses`, `lapses` | observed: polls that failed; polls that were refused, had no live token or were not made |

Time is the number of polls due: `Stale` of them make a reading too old. The
host's CLI renews the token at most once between two polls.

### The pure parts

| module | code | checked against |
|---|---|---|
| `Triage` | `triage.fields`, `_answer`, `Rules`, `verdict` | what a form line may change; when a model's answer can matter |
| `Patch` | `changed_paths`, `changed_lines`, `refuse` of `robbie_mcp/pr.py` | what a longer patch may become |
| `Anchor` | `commentable`, `_rank`, `anchor`, `severity_count` | the lines of the diff, the reader's view of a blocker |
| `Checks` | `summarize_checks`, `ci_started`, `failing_checks`, `ci_outcome` | each other, and ignored checks |
| `Contract` | `_block`, `parse_blocks`, `parse_fix`, `parse_thread_verdicts`, `ThreadVerdict` | the last block that is not an echo |

A text is a sequence of lines, a line its meaning as far as the code tells
lines apart: a heading, a fence, a marker with or without a line of its own, a
path inside or outside what a patch may touch. A thread's marker carries any of
`ThreadNumbers`; `ThreadIds` are those a run was asked about. The rows `---` and
`+++` of a patch carry no path, as for `changed_paths`, which reads the
`diff --git` rows only: what is said of a patch's paths is said of those.

`Triage`, `Anchor` and `Contract` read a text as the code does, line by line
with something kept from each to the next: `ReadLine` (the answers so far, the
open field, the open fence), `ReadRow` (the lines that can be commented, the
next line of the new file), `ReadMark` (the block it is inside, those it has
found). The loop itself is `Scan`, which each of them instantiates with its own
step, so that what holds of reading any text is proved once.

`Text` puts them together: an input of one kind (`kind`) grows by an element at
a time (`Grow`), and the modules' properties are stated of the input and of the
input and its next element. Nothing bounds what an element may be but
`TextAssumption`, which says of a hunk's start and a finding's lines that they
are the numbers `anchor.py` reads, and of a repository's `inline_min` that it is
one of `RANK`'s names.

## 3. Runs

Passing:

| run | instance | shows |
|---|---|---|
| `MCSlots` | 3 reviews, 1 sweep, 1 fix, 2 slots, limit for two reserves, both meters, 1 failed notice | `TypeOK`, `CapacityExact`, `RepliesFirst`, `WithinBudget`, `AccountLedger`, and under fairness `TickEnds` |
| `MCPipeline` (`MCTrouble`) | 2 commits, the second empty or not, 2 requests, a hold and a done label, the daemon alone, any two troubles | `TypeOK`, `OneAnswerPerCommit`, `ApprovedIsBuilt`, `ApprovedIsFree`, `StaysJudged`, `PassesKept`, and under fairness `RequestIsJudged` |
| `PipelineOnce` (`MCTrouble`) | the reviewer's own PR, 1 commit, `robbie once` beside the daemon, any three troubles | `NoticesAreTrue` |
| `MCIssues` | one report, somebody configured to take it or nobody, 2 hitches, 1 requeue, fair | `TypeOK`, `NeverDropped`, `OpenedIsTrue`, `PrIsCleared`, `QueuesDrain` |
| `MCBoard` | a requested PR or robbie's own, 2 commits, 1 disturbance, fair | `TypeOK`, `GreenWasGreen`, `RedIsTold`, `BoardIsCurrent`, `WatchEnds`, `BackOnTheBoard` |
| `MCThreads` | 2 threads, 2 replies, 2 hitches, 2 turns, fair | `TypeOK`, `NeverTwiceInARow`, `MergedIsFinal`, `PaidOnce`, `LastWordIsHeard` |
| `MCDaemon` | 2 PRs, 1 push, 2 boots, readings good for 3 polls, fair | `TypeOK`, `BlindIsLate`, `LoopRests`, `StopIsHeard` |
| `MCText` | every input of each kind up to 2, 3 or 5 elements, under 54 sets of triage rules | `AskedWhenItDecides`, `CommentsFit`, `EchoesLose`, `FieldsAreClosed`, `RefusalsStand`, `ReadersSeeOneBuild` |

Each of the other runs checks one sentence of the code's own comments or of its
documentation, and TLC finds the behaviour in which the code does otherwise;
`findings` in `PROJECT.json` quotes the sentences.

| run | what happens |
|---|---|
| `PipelineOrphan` | GitHub refuses the label call of an approval; the row stays `running` with no process, the review is bought again |
| `ThreadsCrossing` | a reply written while the container runs ends up above the reviewer's answer, and no run ever sees it |
| `PipelineHeld` | a run without a usable answer is held; nothing fails, the PR stays reviewable, and it never comes back on its own |
| `MeterBlind` | after the signal nobody polls while the tick in flight goes on: the gate goes blind without one failed poll |

Bounds, and why they are enough:

* Three reviews for two slots make one wait for a permit that the others hold
  over the gate, the message and the run. `MaxOutside = 2` and `MaxLeaked = 1`
  cut off the observations of `Slots`: two charges without a reserve around a
  held one, and one count lost for the rest of the process. `Limit = 2` with
  `Reserve = 1` lets two runs in, and stops the next at every sum.
* `Shas = {1, 2}` gives a commit that was judged and one that was not, with new
  code or without, and a push between any two steps; the second of two requests is what lets a
  changes-requested review be followed by a pass that approves.
* `MaxRepeats` bounds how often a CI note or phrase may land on one commit when
  its answer is lost; reviews and approval notes, which the properties count, are
  not bounded. In `MCPipeline` two troubles repeat a post at most twice and
  `MaxRepeats = 3` cuts off nothing, so fairness assumes no more than it says.
* `MaxTrouble` bounds faults, forced runs, withdrawals, relabellings and other
  people's CI phrases together; pushes, requests, answers and builds are free. Two are a lost
  answer and the crash after it, or a failure and a label moved; three let a
  forced run meet both. The proofs of section 5 have no such bound.
* `MaxHitches` bounds refusals, lost answers and stops, so that what must
  happen once they cease can be checked; two put one inside a decision and one
  inside its repetition. `MaxRequeues = 1` brings a settled report back.
* `MaxDisturbances = 1` of `MCBoard` bounds what people do besides pushing and
  lifting a brake, reruns of builds, and stops.
* `MaxTurns = 2` closes and reopens a thread or a PR; two replies in two
  threads are a conversation that continues and one that does not.
* `Stale = 3` is a poll that is answered, one that fails and one under way.
  One push is needed for a tick that follows a tick; two boots for a kill.
* `MaxLength` of `MCText`: five elements are a heading in a fence between two
  others, two files with their rows, a block with its echo; three checks are one
  per bucket; a finding is judged by itself. The triage rules include some that
  contradict each other, as nothing in `config.py` stops a repository from
  writing them. The proofs have no such bound.

Deadlock is checked wherever the system goes on for ever. In `MCText` inputs
reach their length, and in `MCThreads` and `ThreadsCrossing` people run out of
replies, and a PR that is settled or merged is not swept again.

## 4. Fairness

* `Slots`: weak fairness of the tick and of each job. A container ends by its
  timeout, every `gh` call by its own, the event loop runs what is ready and
  asyncio's semaphore is first come, first served. Nothing is assumed of fixes,
  midnight, meters or restarts; a tick that a restart cuts short counts as
  ended. The bounds of `MCSlots` never block the last way out of a job (a run of
  cost 0, an approval that is lost, a message that is told), so they do not make
  fairness assume more.
* `Pipeline`: weak fairness of the daemon's own steps, and `<>[][Calm]_vars`:
  calls fail and processes die, but not for ever (in `MCPipeline` the bound on
  trouble says so instead). Nothing is assumed of people:
  `RequestIsJudged` says that *if* the PR eventually stays reviewable (in the
  queue, unlabelled, no open thread, not red), its commit is judged. A run may
  give no usable answer as often as it likes: that is a hold, and a judgement
  to the gates.
* `Issues`: weak fairness of the pass, of the boot (compose has
  `restart: unless-stopped`) and of the end of a container the daemon waits for
  (`runner.run_review` kills it at its deadline). A container nobody waits for
  need not end.
* `Board`: weak fairness of the tick; strong fairness of a queue read that
  succeeds, because reads may fail as often as they like but not always, and of
  an approval's getting old, which is the clock.
* `Threads`: weak fairness of the boot and of acting on a verdict; strong
  fairness of the sweep, the read of the PR, the run and its end, each of which
  a failure may cut short for a while.
* `Daemon`: weak fairness of the poll under way and of the loop's next step.
  `LoopRests` holds because pushes end, in the model by `MaxPushes`, and every
  tick does. `StopIsHeard` follows from the end of the tick in flight, for which
  compose leaves 35 minutes (`stop_grace_period`).

## 5. Proofs

Checked by TLAPS for every value of the constants, under the modules' named
`ASSUME`s only (finite job sets, numbers that are numbers, two labels that
differ, no heading that is a fence) unless a theorem says otherwise. All
that the passing runs check is proved without their bounds, except liveness.

`SlotsProofs`. `CapacityIsExact` is inductive with `TypeOK`; `RepliesFirst`
joins them in `IInv`. A job holds its permit from the gate to the end of its run
or of the message that refuses it (`Holders`), and its place in `_inflight` from
the gate on (`InSlot`); a notice that fails gives back the first and not the
second, so the theorem has `leaked` in it. The finite-set facts about adding and removing a job from
`InSlot` and `Held` are lemmas of their own. `SlotsImplementLedger` maps each
action to a step of `Ledger` or a stutter (an admission to `Hold` if its arm is
the account's, a refusal to nothing, the end of a run to `Settle` when its reserve was held, an
approval's write and a fix to `ChargeOutside`). `BudgetIsKept` follows from the
ledger's own invariant.

`PipelineProofs`. `PipelineIsTyped`, for any number of forced processes, carries
`LocalInv` along, which says at which steps a process has read a commit and a
word: the record operators need it. `NoticesStayTrue` (with `NInv`) holds for
any number of processes as well, because each notice is written in the step that
follows its post. `ApprovalsAreBuilt` too: its invariant `BInv` adds to the types
that no process has read and no phrase was meant for a head still to come
(`Ahead`), that the notice of a phrase is of one that went out at that head or a
later one (`Noted`), and that a head with checks has its build. A commit older
than a phrase on the PR is the one exception the code makes, and the theorem
names it (`AlreadyAsked`). `Noted` is what
the shortcut of `_request_ci` relies on when it finds the notice and skips the
call.

`OneAnswer`, `JudgedForGood` and `DaemonKeepsPasses` assume `Forced = {}`, and
are false beside a forced process: `once` asks no gate, erases the row it
replaces, and posts a second time what a failed label call left without a
notice. None of their properties is inductive: nothing in "one answer per
commit" says that a daemon on its way to post has not posted. The strengthening
is

    IInv == TypeInv /\ Place /\ Backlog /\ \A c \in Shas : Told(c)

`Place` says what the daemon may rely on at each call: from the slot to the row
the commit it carries is not judged and its own row is there, `running`; from
the row to the post the commit is judged with the verdict it is about to say,
and the PR has not heard of it yet. `Backlog` says that before the repository is
seeded nothing was reviewed. `Told(c)` says that what the PR heard of a commit is
what the commit's rows say. The refinement of `Passes` has one lemma per kind of
step, in which `JudgementOf` and `SaidOf` change for the daemon's own commit
only.

`ApprovalsAreFree`, with `Forced = {}` too: once the newest pass is an approval,
the veto and our label are off, or the operator was told. `FInv` rests on `IInv`
and says when the label is off, when the veto is, and that from the slot to the
row the daemon's own row is the newest (`LastRow`), so that an older rejection
cannot be the PR's last word again.

`BoardProofs`. `GreenWasGreen` needs that a build which is green has been seen
to be (`Greens`), `RedIsTold` that a notice stands for a note (`Reds`).
`BoardIsCurrent` is the hard one: `Retired` and `Current` say what each step of
a tick may rely on while nothing moves on GitHub, from the queue read over the
retirements to the pass.

`ThreadsProofs`. A thread still to act on has not been answered since the read
(`Unanswered`), a conversation whose verdict was carried out is closed, has its
notice or has words after it (`Accounted`), and a thread about to be run on is
none of these (`Fresh`). `Bounded` gives the type of the counts: nobody but
people makes a thread longer by more than one word of ours after each of theirs.

`IssuesProofs`. `Written` says what each call of `settle_issue` may rely on of
the calls before it, also when they were lost or the report was put back into
its queue between two of them (`Recorded`); `OnTheWay` says that whatever
leads to a pull request (a job, a label, a container, a tool call, late ones
included) was allowed by the form or by a money check.

`DaemonProofs`. `Counted`, `InHand` and `AtWork` tie the age of a reading to the
polls that lapsed: a token the CLI renewed between the read of the file and the
request is read again, and that poll does not count.

`Scan` and `TextProofs`. What a parser computes of *every* text needs induction
over how much of the text it has read, and the library's induction theorems take
an operator as a parameter. `Scan!Upward` states induction up to a number for a
set instead, from `NatLessThanWellFounded`; `ScanKeeps` and `ScanOneMore` say
what a loop keeps if its step does, for a constant operator `Read` that
`Triage`, `Anchor` and `Contract` give their own step by INSTANCE.

* `FieldsStayClosed`: the step leaves every answer but the open field's; what the
  loop makes of one line more is one step more (`ScanOneMore`).
* `QuestionsDecide`: the questions asked are all that is unmet, nothing is
  missing and nothing blocks; so with other replies the report is attempted
  exactly if each reply is taken by every rule about its field. It holds for
  rules that contradict each other as well.
* `RefusalsAreFinal`: paths of headers, rows and changed lines only grow with a patch, and a
  patch's first broken rule is the least number of a set (`Refuse`), so a patch
  that keeps a broken rule keeps being refused, perhaps for an earlier reason.
* `CommentsStayInTheDiff`: by induction over the rows, the lines the loop has
  collected are the numbers of the rows it has read (`CommentableIsTheNewFile`).
  The line nearest to a finding exists because a set of naturals that is not
  empty has a least element.
* `ReadersSeeTheSameBuild`: an ignored check changes no reader's answer
  (`BotsAreInvisible`), and the readers agree (`ReadersOfABuildAgree`).
* `EchoesStayQuoted`: reading a text with a block behind it either finds that
  block last, if the loop stood outside of any, or ends inside or at the end of
  the block that was left open, which then holds a marker and is no verdict. For
  threads, blocks found only accumulate, and the one added is of one thread; the
  block left open may be of a thread the run was not asked about.

Model-checked only: liveness (`TickEnds`, `RequestIsJudged`, `QueuesDrain`,
`WatchEnds`, `BackOnTheBoard`, `LastWordIsHeard`, `LoopRests`, `StopIsHeard`).
Fairness and ENABLED are out of the prover's reach.

## 6. Known limits of the program

Found while modelling; the models do what the code does, and the properties are
stated so that they hold of it or, for the four findings, so that they do not.

* An approval frees its reserve before its cost is written (`orchestrator.py:497`
  against `:95`): for the length of three calls a waiting review reads a sum with
  neither. `WithinBudget` counts it.
* The cost of a fix on an endpoint lands in the account's sum (`fixer.py:99`,
  `db.py:514`). `MCSlots` bills fixes to the account, where the sum is right.
* `_slot` raises `_inflight` before it awaits `_tell_owner` and lowers it in a
  `try` behind it (`orchestrator.py:337`, `:342`). A notice that cannot be written
  leaves a count behind for the life of the process: the gate reserves for a run
  that does not exist, and `_inflight` is more than "containers spending right
  now" (`:92`). `CapacityExact` counts what leaked.
* An approval's cost, a fix's and whatever else has no reserve enters the ledger
  as a charge from outside, each bounded by one run's cost. `WithinBudget` bounds
  the overrun by their number; it does not say there is none.
* `ci_already_asked` compares a phrase with the committer's date, not with the
  push (`github.py:514`, against "before the last push" in its docstring): a
  commit made before a phrase and pushed after it counts as asked for and gets
  no build. `ApprovedIsBuilt` names the exception.
* The notice that a retraction failed is kept per PR (`orchestrator.py:645`): a
  second failure tells nobody, and `ApprovedIsFree` takes the first for both.
* The CI phrase is posted on the PR, not on the commit: a push during the review
  makes it build a head nobody approved (`orchestrator.py:713`).
* A hold's message may be lost and its row still says held
  (`orchestrator.py:397`, `:288`).
* A changes-requested review uses the request up, so fixing and taking the label
  off brings no pass by itself (`publish.py:343`, `gates.py:17`).
* A run without a usable answer is held for ever (`orchestrator.py:484`,
  `HeldComesBack`), though `:870` has it come back on its own.
* A forced run replaces the row of a judged commit before it runs; if it fails,
  the commit is unjudged and its cost gone (`db.py:180`).
* A fix whose container is still at work after a restart may be given up on the
  next pass, before its pull request appears (`main.py:295`).
* Where nobody is configured as `assignee`, a report handed over leaves the queue
  with a comment and nobody assigned (`publish.py:410`).
* `open_pr_for` takes closed pull requests (`fixer.py:147`, `--state all`), where
  `github.py:197` calls one closed unmerged abandoned work: a report put back
  after its pull request was closed is settled as opened. `OpenedIsTrue` counts
  a pull request that was ever there.
* An answer that allowed an attempt stands when the form is edited later: a stale
  `fixable_label` is enough for a fix. `PrIsCleared` asks for some such answer,
  not for the latest.
* `block_if` on a field the form may leave out (`""` among its answers) raises
  `KeyError` (`triage.py:129`), which ends the repository's pass at that report
  (`main.py:312`); `Triage!Quoted` has it.
* A heading of a later field pasted outside a fence opens that field, and the
  real heading below it is text (`triage.py:52`). `FieldsAreClosed` is about the
  fields above.
* A comment's two ends may be in different hunks (`anchor.py:120`), which GitHub
  refuses. `CommentsFit` says only that both are in the diff. A finding's line
  that is no finite number raises where `anchor.py` converts it; the models take
  numbers.
* An exception in a poll ends the meters' clock for good (`main.py:288`): no
  handler is around it. `BlindIsLate` counts polls that were not made.
* A failed run is retried without a rest when another PR of its tick was
  reviewed (`main.py:387`).
* A reply that is deleted and written anew has the same count
  (`threads.py:214`).
* A marker glued behind `<<<END>>>` opens no block, and what follows it is lost
  (`contract.py:61`); `"Must fix"` is ranked as a blocker but shown with the badge of a note
  (`anchor.py:74`).

## 7. Not modelled

* `retract` and `status`, the one-shot commands of `main.py`: an operator runs
  them by hand against a database the daemon reads the same way.
* `dashboard.py`, `export.py`, `digest.py`, and the export's clock: reports over
  the database; they write nothing the program's gates read. The digest's own
  notice is spent before it is posted, as a hold's is.
* `props_bridge.py`, `outcome.py`, `branding.py`: a best-effort notification, a
  record and a signature.
* `robbie_proxy`: a stateless forwarder with an allow list. `robbie_mcp/sentry.py`:
  read-only queries.
* `config.py`'s validation: the models take a configuration that passed it.
* The prompts and the rendering of reviews: wording. The findings' JSON: data.
* The schema's migration, docker's command line, credentials, transcripts,
  images and scripts: I/O and deployment, seen by the program as calls that
  succeed or do not and containers that end or do not.
