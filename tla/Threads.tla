------------------------------ MODULE Threads ------------------------------
(***************************************************************************)
(* The reply sweep of one pull request (threads.py): what a tick reads of  *)
(* the reviewer's threads, the container it pays for, and what it does to  *)
(* each thread with the verdicts.  People write, close threads and move    *)
(* the code meanwhile; the daemon stops anywhere and comes back.           *)
(*                                                                         *)
(* Nothing of a sweep is kept but its notices: a thread is answered by the *)
(* words on GitHub, and a thread left alone by a notice that names it and  *)
(* the number of replies it had.                                           *)
(***************************************************************************)
EXTENDS Naturals, Sequences

CONSTANTS
  Threads,     \* the threads the reviewer opened on this pull request
  MaxReplies   \* people write replies 1 .. MaxReplies

ASSUME ThreadsAssumption == MaxReplies \in Nat

Us      == 0
Replies == 1 .. MaxReplies

VARIABLES
  \* GitHub
  state,     \* of the PR: "OPEN", "CLOSED" or "MERGED"
  talk,      \* per thread: its replies in order, a person's by its number, ours as Us
  resolved,  \* threads that are closed
  outdated,  \* threads whose line has moved
  written,   \* how many replies people have written
  \* the database
  notices,   \* <<thread, number of replies>>: judged and left alone
  merged,    \* the notice that the PR is merged and need not be read again
  swept,     \* reviewed_prs lists the PR
  \* the daemon
  pc,
  seen,      \* per thread of this sweep's read still to act on: its number of replies
  collapsed, \* threads that were outdated in that read
  \* observed, and read by nothing
  heard,     \* replies some finished run was shown
  judged     \* <<thread, number of replies>> a verdict was carried out for

github == <<state, talk, resolved, outdated, written>>
db     == <<notices, merged, swept>>
daemon == <<pc, seen, collapsed>>
vars   == <<github, db, daemon, heard, judged>>

Lengths == 0 .. (2 * MaxReplies + 1)
Judged  == Threads \X Lengths

TypeOK ==
  /\ state \in {"OPEN", "CLOSED", "MERGED"}
  /\ talk \in [Threads -> Seq(Replies \cup {Us})] /\ written \in 0 .. MaxReplies
  /\ resolved \subseteq Threads /\ outdated \subseteq Threads
  /\ notices \subseteq Judged /\ merged \in BOOLEAN /\ swept \in BOOLEAN
  /\ pc \in {"down", "idle", "meta", "slot", "run", "act"}
  /\ seen \in [Threads -> Lengths] /\ collapsed \subseteq Threads
  /\ heard \subseteq Replies /\ judged \subseteq Judged

Init ==
  /\ state = "OPEN" /\ talk = [t \in Threads |-> <<>>]
  /\ resolved = {} /\ outdated = {} /\ written = 0
  /\ notices = {} /\ merged = FALSE /\ swept = TRUE
  /\ pc = "idle" /\ seen = [t \in Threads |-> 0] /\ collapsed = {}
  /\ heard = {} /\ judged = {}

-----------------------------------------------------------------------------
(* The read.                                                               *)

\* Thread.mine_is_last: the comment that opened the thread is ours.
MineIsLast(t) == Len(talk[t]) = 0 \/ talk[t][Len(talk[t])] = Us

\* Mutant: a thread waits for us whoever spoke last.
OpenThread(t) == t \notin resolved /\ Len(talk[t]) > 0

\* Thread.answered: outdated threads count.
Answered(t) == t \notin resolved /\ ~ MineIsLast(t)

\* Mutant: the notice names the thread and not the reply.
ThreadKey(t, n) == <<t, 1>>

\* thread_state.
ThreadState(t, n) == <<t, n>>

Pending(t) == Answered(t) /\ ThreadState(t, Len(talk[t])) \notin notices

Forget  == seen' = [t \in Threads |-> 0] /\ collapsed' = {}
GoIdle  == pc' = "idle" /\ Forget
Sweeps  == pc = "idle" /\ swept /\ ~ merged

\* my_threads, paged to its end: the PR's state and the threads to judge.
Sweep ==
  /\ Sweeps /\ state # "MERGED"
  /\ seen' = [t \in Threads |-> IF Pending(t) THEN Len(talk[t]) ELSE 0]
  /\ collapsed' = outdated
  /\ pc' = IF \E t \in Threads : Pending(t) THEN "meta" ELSE "idle"
  /\ UNCHANGED <<github, db, heard, judged>>

\* The read that learns the merge retires the PR.
SweepMerged ==
  /\ Sweeps /\ state = "MERGED"
  /\ merged' = TRUE
  /\ UNCHANGED <<github, notices, swept, daemon, heard, judged>>

\* Mutant: any PR that is not open is retired.
MetaNotOpen ==
  /\ pc = "meta" /\ state # "OPEN"
  /\ merged' = TRUE
  /\ GoIdle
  /\ UNCHANGED <<github, notices, swept, heard, judged>>

\* pr_meta after the read: the PR may have closed in between, and a closed one
\* may reopen.
MetaGone ==
  /\ pc = "meta" /\ state # "OPEN"
  /\ merged' = (merged \/ state = "MERGED")
  /\ GoIdle
  /\ UNCHANGED <<github, notices, swept, heard, judged>>

Meta ==
  /\ pc = "meta" /\ state = "OPEN"
  /\ pc' = "slot"
  /\ UNCHANGED <<github, db, seen, collapsed, heard, judged>>

\* A read GitHub refuses, a rate limit that pauses the sweep for this tick, or
\* a spend gate that says no: nothing is written, and the next tick reads again.
Unread ==
  /\ pc \in {"meta", "slot"}
  /\ GoIdle
  /\ UNCHANGED <<github, db, heard, judged>>

Run ==
  /\ pc = "slot"
  /\ pc' = "run"
  /\ UNCHANGED <<github, db, seen, collapsed, heard, judged>>

\* The owner is told; the replies stay pending.
RunFails ==
  /\ pc = "run"
  /\ GoIdle
  /\ UNCHANGED <<github, db, heard, judged>>

Offered == {o \in Threads \X Lengths : o[2] \in 1 .. seen[o[1]]}

\* Mutant: what we said ourselves counts among the replies.
EveryWord == {talk[o[1]][o[2]] : o \in Offered}

\* The container was shown the replies of the read, and only those
\* (thread_preamble).
Shown == {talk[o[1]][o[2]] : o \in Offered} \ {Us}

RunEnds ==
  /\ pc = "run"
  /\ heard' = heard \cup Shown
  /\ pc' = "act"
  /\ UNCHANGED <<github, db, seen, collapsed, judged>>

-----------------------------------------------------------------------------
(* The verdicts, one offered thread after another.                         *)

Over(t) ==
  /\ seen' = [seen EXCEPT ![t] = 0]
  /\ pc' = IF \A u \in Threads : seen'[u] = 0 THEN "idle" ELSE "act"
  /\ collapsed' = IF pc' = "idle" THEN {} ELSE collapsed
  /\ judged' = judged \cup {<<t, seen[t]>>}
  /\ UNCHANGED <<state, outdated, written, merged, swept, heard>>

Settled(t) == notices' = notices \cup {ThreadState(t, seen[t])}

Acts(t) == pc = "act" /\ seen[t] > 0

\* `leave`, a verdict nobody gave, and `reply` on a collapsed thread.
LeaveAlone(t) ==
  /\ Acts(t)
  /\ Settled(t)
  /\ Over(t)
  /\ UNCHANGED <<talk, resolved>>

\* resolve_thread and reply_to_thread, heard of.
Resolve(t) ==
  /\ Acts(t)
  /\ resolved' = resolved \cup {t}
  /\ Over(t)
  /\ UNCHANGED <<talk, notices>>

Reply(t) ==
  /\ Acts(t) /\ t \notin collapsed
  /\ talk' = [talk EXCEPT ![t] = Append(@, Us)]
  /\ Over(t)
  /\ UNCHANGED <<resolved, notices>>

\* Mutant: a thread GitHub would not take stays as it is.
FailsUnrecorded(t) ==
  /\ Acts(t)
  /\ UNCHANGED <<talk, resolved, notices>>
  /\ Over(t)

\* GitHub refuses the call, or its answer is lost after it landed.
ActFails(t) ==
  /\ Acts(t)
  /\ \/ UNCHANGED <<talk, resolved>>
     \/ resolved' = resolved \cup {t} /\ UNCHANGED talk
     \/ t \notin collapsed /\ talk' = [talk EXCEPT ![t] = Append(@, Us)] /\ UNCHANGED resolved
  /\ Settled(t)
  /\ Over(t)

-----------------------------------------------------------------------------
(* The process, and people.                                                *)

Stop ==
  /\ pc # "down"
  /\ pc' = "down" /\ Forget
  /\ UNCHANGED <<github, db, heard, judged>>

Boot ==
  /\ pc = "down" /\ pc' = "idle"
  /\ UNCHANGED <<github, db, seen, collapsed, heard, judged>>

Write(t) ==
  /\ written < MaxReplies
  /\ written' = written + 1
  /\ talk' = [talk EXCEPT ![t] = Append(@, written')]
  /\ UNCHANGED <<state, resolved, outdated, db, daemon, heard, judged>>

\* A person closes a thread, or opens one again: then it is asked anew.
Toggle(t) ==
  /\ IF t \in resolved
     THEN resolved' = resolved \ {t} /\ judged' = {j \in judged : j[1] # t}
     ELSE resolved' = resolved \cup {t} /\ UNCHANGED judged
  /\ UNCHANGED <<state, talk, outdated, written, db, daemon, heard>>

MoveCode(t) ==
  /\ t \notin outdated /\ outdated' = outdated \cup {t}
  /\ UNCHANGED <<state, talk, resolved, written, db, daemon, heard, judged>>

Close ==
  /\ \/ state = "OPEN" /\ state' \in {"CLOSED", "MERGED"}
     \/ state = "CLOSED" /\ state' = "OPEN"
  /\ UNCHANGED <<talk, resolved, outdated, written, db, daemon, heard, judged>>

\* The rows of the PR are done, or out of the window of SWEEP_DAYS.
Retire ==
  /\ swept /\ swept' = FALSE
  /\ UNCHANGED <<github, notices, merged, daemon, heard, judged>>

Act(t) == LeaveAlone(t) \/ Resolve(t) \/ Reply(t) \/ ActFails(t)

Tick == Sweep \/ SweepMerged \/ MetaGone \/ Meta \/ Run \/ RunEnds \/ \E t \in Threads : Act(t)
Hitch == Unread \/ RunFails \/ Stop
People == Close \/ Retire \/ \E t \in Threads : Write(t) \/ Toggle(t) \/ MoveCode(t)

Next == Tick \/ Boot \/ Hitch \/ People

Spec == Init /\ [][Next]_vars

\* The loop comes round and the daemon is restarted; calls and runs succeed
\* now and then.
Fairness ==
  /\ WF_vars(Boot) /\ WF_vars(\E t \in Threads : Act(t))
  /\ SF_vars(Sweep) /\ SF_vars(Meta) /\ SF_vars(Run) /\ SF_vars(RunEnds)

-----------------------------------------------------------------------------
(* Properties.                                                             *)

\* The reviewer never speaks twice in a row, whatever was lost, refused or cut
\* off between its read and its words.
NeverTwiceInARow ==
  \A t \in Threads : \A i \in 1 .. Len(talk[t]) :
    talk[t][i] = Us => i > 1 /\ talk[t][i - 1] # Us

\* A container is paid once for the same words: none starts on a thread as it
\* stood when a verdict on it was carried out or refused, unless a person has
\* opened the thread again.
PaidOnce ==
  [][pc = "slot" /\ pc' = "run" => \A t \in Threads : <<t, seen[t]>> \notin judged]_vars

\* Only a merge retires a PR from the sweep: one that closed may reopen.
MergedIsFinal == merged => state = "MERGED"

\* A reply that stays the last word of an open thread is put to a run, however
\* many before it were judged and left alone.
LastWordIsHeard ==
  \A t \in Threads : \A m \in Replies :
    <>[](/\ state = "OPEN" /\ swept /\ t \notin resolved
         /\ Len(talk[t]) > 0 /\ talk[t][Len(talk[t])] = m)
      => <>(m \in heard)

\* threads.py says of the key that a thread judged once is not judged again but
\* a new reply brings it back: no reply is answered over before a run saw it.
NoneTalkedOver ==
  \A t \in Threads : \A i \in 1 .. Len(talk[t]) : \A j \in 1 .. i :
    talk[t][i] = Us /\ talk[t][j] # Us => talk[t][j] \in heard
=============================================================================
