------------------------------- MODULE Daemon -------------------------------
(***************************************************************************)
(* The daemon's loops (main.py): the review ticks, which go straight round *)
(* after a review and rest after anything else, and beside them the clock  *)
(* that asks the account's provider for its meter (budget.poll) and leaves *)
(* the number for the spend gate.  A signal stops it after its tick; a     *)
(* kill stops it anywhere.                                                 *)
(*                                                                         *)
(* A token of the account is 0 or 1: the host's CLI renews it no more than *)
(* once between two polls, first at the provider and then in the file.     *)
(***************************************************************************)
EXTENDS Naturals

CONSTANTS
  PRs,
  Stale   \* how many polls fit into USAGE_STALE_S

ASSUME DaemonAssumption == Stale \in Nat \ {0}

VARIABLES
  \* the account and its provider
  used,     \* whether the window has room for another run: "room" or "full"
  live,     \* the token the provider takes
  file,     \* the token in the credentials file
  renewed,  \* the CLI has touched the token since the last poll was due
  \* GitHub
  fresh,    \* PRs of the queue whose head nobody judged or is at
  \* the stored meter
  reading,  \* what the last good poll read, "none" before the first
  age,      \* the polls that were due since
  \* the daemon
  loop,     \* "down", "boot", "next", "tick" or "rest"
  quiet,    \* --dry-run or --no-publish
  stop,     \* the signal has come
  jobs,     \* PRs of this tick that wait for a slot
  running,  \* PRs with a container
  reviewed, \* the tick has finished a review
  \* the poll's thread
  poll,     \* "off", "file", "ask" or "again"
  token,    \* the token it has in hand
  \* observed, and read by nothing
  misses,   \* polls that failed since the last good one
  lapses    \* of those due: the provider refused, the file had no live token, or nobody asked

account == <<used, live, file, renewed>>
ticks   == <<loop, quiet, stop, jobs, running, reviewed>>
meter   == <<reading, age, poll, token, misses, lapses>>
vars    == <<account, fresh, ticks, meter>>

TypeOK ==
  /\ used \in {"room", "full"} /\ live \in 0 .. 1 /\ file \in 0 .. 1 /\ renewed \in BOOLEAN
  /\ fresh \subseteq PRs
  /\ reading \in {"none", "room", "full"} /\ age \in 0 .. Stale
  /\ loop \in {"down", "boot", "next", "tick", "rest"} /\ quiet \in BOOLEAN /\ stop \in BOOLEAN
  /\ jobs \subseteq PRs /\ running \subseteq PRs \ jobs /\ reviewed \in BOOLEAN
  /\ poll \in {"off", "file", "ask", "again"} /\ token \in 0 .. 1
  /\ misses \in 0 .. Stale /\ lapses \in 0 .. Stale

Init ==
  /\ used = "room" /\ live = 0 /\ file = 0 /\ renewed = FALSE
  /\ fresh = PRs
  /\ reading = "none" /\ age = 0
  /\ loop = "down" /\ quiet = FALSE /\ stop = FALSE
  /\ jobs = {} /\ running = {} /\ reviewed = FALSE
  /\ poll = "off" /\ token = 0 /\ misses = 0 /\ lapses = 0

OneMore(n) == IF n < Stale THEN n + 1 ELSE n

-----------------------------------------------------------------------------
(* budget.poll, one call at a time, in a thread of its own.                *)

ReadFile ==
  /\ poll = "file"
  /\ token' = file /\ poll' = "ask"
  /\ UNCHANGED <<account, fresh, ticks, reading, age, misses, lapses>>

Answered ==
  /\ poll \in {"ask", "again"} /\ token = live
  /\ reading' = used /\ age' = 0 /\ misses' = 0 /\ lapses' = 0
  /\ poll' = "off"
  /\ UNCHANGED <<account, fresh, ticks, token>>

\* meter_failed: the number and its age survive.
Failed(why) ==
  /\ poll' = "off" /\ misses' = OneMore(misses)
  /\ lapses' = IF why THEN OneMore(lapses) ELSE lapses
  /\ UNCHANGED <<account, fresh, ticks, reading, age, token>>

\* Anything but a 401.
Refused == poll \in {"ask", "again"} /\ Failed(TRUE)

\* Mutant: a 401 is a failed poll.
UnauthorizedFails ==
  /\ poll = "ask" /\ token # live
  /\ Failed(file # live)

\* _fetch_plan re-reads the file once, and asks again if the CLI has been there.
Unauthorized ==
  /\ poll \in {"ask", "again"} /\ token # live
  /\ IF poll = "ask" /\ file # token
     THEN token' = file /\ poll' = "again"
          /\ UNCHANGED <<account, fresh, ticks, reading, age, misses, lapses>>
     ELSE Failed(file # live)

\* A poll falls due: _meters starts it while nobody has stopped the daemon.
Due ==
  /\ poll = "off" /\ loop # "boot"
  /\ age' = OneMore(age) /\ renewed' = FALSE
  /\ IF loop = "down" \/ stop
     THEN lapses' = OneMore(lapses) /\ UNCHANGED poll
     ELSE poll' = "file" /\ UNCHANGED lapses
  /\ UNCHANGED <<used, live, file, fresh, ticks, reading, token, misses>>

Poll == ReadFile \/ Answered \/ Refused \/ Unauthorized

-----------------------------------------------------------------------------
(* The spend gate, and the ticks behind it.                                *)

\* _stored: a reading at its age limit is none.
Blind  == reading = "none" \/ age >= Stale
Allows == Blind \/ reading = "room"

\* The process takes a reading before anything asks the gate.
Boot ==
  /\ loop = "down"
  /\ loop' = "boot" /\ quiet' \in BOOLEAN /\ stop' = FALSE /\ poll' = "file"
  /\ UNCHANGED <<account, fresh, jobs, running, reviewed, reading, age, token, misses, lapses>>

BootDone ==
  /\ loop = "boot" /\ poll = "off"
  /\ loop' = "next"
  /\ UNCHANGED <<account, fresh, quiet, stop, jobs, running, reviewed, meter>>

\* Mutant: the signal is only looked at beside the next tick.
BeginTickAnyway ==
  /\ loop = "next"
  /\ loop' = "tick" /\ jobs' \in SUBSET fresh /\ reviewed' = FALSE
  /\ UNCHANGED <<account, fresh, quiet, stop, running, meter>>

\* What the reads and the gates before the spend gate leave of the queue.
BeginTick ==
  /\ loop = "next" /\ ~ stop
  /\ loop' = "tick" /\ jobs' \in SUBSET fresh /\ reviewed' = FALSE
  /\ UNCHANGED <<account, fresh, quiet, stop, running, meter>>

\* Mutant: the job that got its slot waits for another.
StartTwice(p) ==
  /\ p \in jobs /\ Allows
  /\ running' = running \cup {p} /\ fresh' = fresh \ {p}
  /\ UNCHANGED <<account, loop, quiet, stop, jobs, reviewed, meter>>

Start(p) ==
  /\ p \in jobs /\ Allows
  /\ jobs' = jobs \ {p} /\ running' = running \cup {p} /\ fresh' = fresh \ {p}
  /\ UNCHANGED <<account, loop, quiet, stop, reviewed, meter>>

TurnAway(p) ==
  /\ p \in jobs /\ ~ Allows
  /\ jobs' = jobs \ {p}
  /\ UNCHANGED <<account, fresh, loop, quiet, stop, running, reviewed, meter>>

\* A quiet pass records nothing a gate reads as judged.
Review(p) ==
  /\ p \in running
  /\ running' = running \ {p} /\ reviewed' = TRUE
  /\ fresh' = IF quiet THEN fresh \cup {p} ELSE fresh
  /\ UNCHANGED <<account, loop, quiet, stop, jobs, meter>>

RunFails(p) ==
  /\ p \in running
  /\ running' = running \ {p} /\ fresh' = fresh \cup {p}
  /\ UNCHANGED <<account, loop, quiet, stop, jobs, reviewed, meter>>

\* Mutant: a quiet pass goes round as any other.
EndTickLoudly ==
  /\ loop = "tick" /\ jobs = {} /\ running = {}
  /\ loop' = IF reviewed THEN "next" ELSE "rest"
  /\ UNCHANGED <<account, fresh, quiet, stop, jobs, running, reviewed, meter>>

EndTick ==
  /\ loop = "tick" /\ jobs = {} /\ running = {}
  /\ loop' = IF reviewed /\ ~ quiet THEN "next" ELSE "rest"
  /\ UNCHANGED <<account, fresh, quiet, stop, jobs, running, reviewed, meter>>

\* An exception ends the tick and not the daemon, whatever it had reviewed.
BadTick ==
  /\ loop = "tick"
  /\ loop' = "rest" /\ jobs' = {} /\ running' = {} /\ fresh' = fresh \cup running
  /\ UNCHANGED <<account, quiet, stop, reviewed, meter>>

\* The interval is over, or the signal ends it.
Rested ==
  /\ loop = "rest"
  /\ loop' = "next"
  /\ UNCHANGED <<account, fresh, quiet, stop, jobs, running, reviewed, meter>>

\* The process ends; a poll of it that was under way is not written.
Ends ==
  /\ loop' = "down" /\ stop' = FALSE
  /\ jobs' = {} /\ running' = {} /\ fresh' = fresh \cup running
  /\ poll' = "off" /\ lapses' = IF poll = "off" THEN lapses ELSE OneMore(lapses)
  /\ UNCHANGED <<account, quiet, reviewed, reading, age, token, misses>>

Leave == loop = "next" /\ stop /\ Ends
Kill  == loop # "down" /\ Ends

Signal ==
  /\ loop \in {"next", "tick", "rest"} /\ ~ stop
  /\ stop' = TRUE
  /\ UNCHANGED <<account, fresh, loop, quiet, jobs, running, reviewed, meter>>

Round ==
  \/ BootDone \/ BeginTick \/ EndTick \/ Rested \/ Leave
  \/ \E p \in PRs : Start(p) \/ TurnAway(p) \/ Review(p) \/ RunFails(p)

-----------------------------------------------------------------------------
(* The account's people and its CLI, and the authors.                      *)

Spend ==
  /\ used' \in {"room", "full"} \ {used}
  /\ UNCHANGED <<live, file, renewed, fresh, ticks, meter>>

RenewToken ==
  /\ ~ renewed /\ file = live
  /\ live' = 1 - live /\ renewed' = TRUE
  /\ UNCHANGED <<used, file, fresh, ticks, meter>>

WriteFile ==
  /\ file # live
  /\ file' = live /\ renewed' = TRUE
  /\ UNCHANGED <<used, live, fresh, ticks, meter>>

Push(p) ==
  /\ p \notin fresh
  /\ fresh' = fresh \cup {p}
  /\ UNCHANGED <<account, ticks, meter>>

Next ==
  \/ Poll \/ Due \/ Round \/ BadTick \/ Boot \/ Kill \/ Signal
  \/ Spend \/ RenewToken \/ WriteFile \/ \E p \in PRs : Push(p)

Spec == Init /\ [][Next]_vars

\* A call has a timeout, a container a deadline, and the loop runs what is ready.
Fairness == WF_vars(Poll) /\ WF_vars(Round)

-----------------------------------------------------------------------------
(* Properties.                                                             *)

\* The gate runs unguarded on a reading that got too old only when all polls
\* due since, but the one that may be under way, were refused, found no live
\* token in the file or were not made: a token renewed between the read of the
\* file and the request is not a failed poll (budget._fetch_plan, poll).
BlindIsLate == reading # "none" /\ age >= Stale => lapses >= Stale - 1

\* With pushes that come to an end the loop rests again and again, in every
\* mode and however its runs end: no round buys the next for ever (main._ticks).
LoopRests == []<>(loop \in {"rest", "down"})

\* A signal ends the process, whatever is in the queue (main._loop).
StopIsHeard == stop ~> loop = "down"

\* README: the gate only goes blind after that many consecutive polls have
\* failed, not after one.
BlindAfterMisses == loop = "tick" /\ reading # "none" /\ age >= Stale => misses >= Stale - 1
=============================================================================
