--------------------------- MODULE ThreadsProofs ---------------------------
(***************************************************************************)
(* Proofs about Threads, for any threads and any number of replies, and    *)
(* with people, refusals and stops as often as they like: the reviewer     *)
(* never talks to itself, never pays twice for the same words, and retires *)
(* a pull request only for its merge.                                      *)
(***************************************************************************)
EXTENDS Threads, TLAPS

\* How long a conversation can be: nobody but people makes it longer than one
\* word of ours after each of theirs.
Bounded ==
  \A t \in Threads :
    /\ Len(talk[t]) <= 2 * written
    /\ ~ MineIsLast(t) => Len(talk[t]) <= 2 * written - 1

\* A thread still to act on has not been answered since the read, and had the
\* words that were read.
Unanswered ==
  \A t \in Threads : seen[t] > 0 => ~ MineIsLast(t) /\ seen[t] <= Len(talk[t])

\* A thread a verdict was carried out on is closed, has its notice, or has
\* words after it.
Accounted ==
  \A t \in Threads, n \in Lengths :
    <<t, n>> \in judged /\ n >= Len(talk[t]) => t \in resolved \/ <<t, n>> \in notices

\* What is about to be paid for has had no verdict.
Fresh ==
  /\ \A t \in Threads : <<t, 0>> \notin judged
  /\ pc \in {"meta", "slot"} => \A t \in Threads : seen[t] > 0 => <<t, seen[t]>> \notin judged
  /\ pc \in {"idle", "down"} => \A t \in Threads : seen[t] = 0

TInv ==
  /\ TypeOK /\ Bounded /\ Unanswered /\ NeverTwiceInARow
  /\ Accounted /\ Fresh /\ MergedIsFinal

\* The initial states satisfy the invariant.
LEMMA InitTInv == Init => TInv
<1> SUFFICES ASSUME Init PROVE TInv
  OBVIOUS
<1>1. TypeOK
  <2>1. talk \in [Threads -> Seq(Replies \cup {Us})]
    BY DEF Init
  <2>2. written \in 0 .. MaxReplies /\ seen \in [Threads -> Lengths]
    BY ThreadsAssumption DEF Init, Lengths
  <2>3. QED
    BY <2>1, <2>2 DEF Init, TypeOK
<1>2. Bounded /\ Unanswered /\ NeverTwiceInARow
  BY DEF Init, Bounded, Unanswered, NeverTwiceInARow, MineIsLast
<1>3. Accounted /\ Fresh /\ MergedIsFinal
  BY DEF Init, Accounted, Fresh, MergedIsFinal
<1>4. QED
  BY <1>1, <1>2, <1>3 DEF TInv

\* Every step keeps the types.
LEMMA TypesKept == ASSUME TInv, Next PROVE TypeOK'
<1>1. ASSUME Sweep PROVE TypeOK'
  <2>1. ASSUME NEW t \in Threads PROVE Len(talk[t]) \in Lengths
    <3>1. Len(talk[t]) \in Nat /\ Len(talk[t]) <= 2 * written /\ written \in 0 .. MaxReplies
      BY DEF TInv, TypeOK, Bounded
    <3>2. QED
      BY <3>1, ThreadsAssumption DEF Lengths
  <2>2. seen' \in [Threads -> Lengths]
    BY <1>1, <2>1, ThreadsAssumption DEF Sweep, Lengths
  <2>3. QED
    BY <1>1, <2>2 DEF TInv, TypeOK, Sweep, github, db
<1>2. ASSUME SweepMerged PROVE TypeOK'
  BY <1>2, ThreadsAssumption DEF TInv, TypeOK, Lengths, Judged, Replies, Us, SweepMerged, Sweeps, github, db, daemon
<1>3. ASSUME MetaGone PROVE TypeOK'
  BY <1>3, ThreadsAssumption DEF TInv, TypeOK, Lengths, Judged, Replies, Us, MetaGone, GoIdle, Forget, github, db, daemon
<1>4. ASSUME Meta PROVE TypeOK'
  BY <1>4, ThreadsAssumption DEF TInv, TypeOK, Lengths, Judged, Replies, Us, Meta, github, db, daemon
<1>5. ASSUME Run PROVE TypeOK'
  BY <1>5, ThreadsAssumption DEF TInv, TypeOK, Lengths, Judged, Replies, Us, Run, github, db, daemon
<1>6. ASSUME RunEnds PROVE TypeOK'
  <2>1. ASSUME NEW o \in Offered PROVE talk[o[1]][o[2]] \in Replies \cup {Us}
    <3>1. o[1] \in Threads /\ o[2] \in 1 .. Len(talk[o[1]])
      BY ThreadsAssumption DEF TInv, TypeOK, Unanswered, Offered, Lengths
    <3>2. QED
      BY <3>1 DEF TInv, TypeOK
  <2>2. Shown \subseteq Replies
    BY <2>1 DEF Shown
  <2>3. QED
    BY <1>6, <2>2 DEF TInv, TypeOK, RunEnds, github, db
<1>7. ASSUME NEW t \in Threads, LeaveAlone(t) PROVE TypeOK'
  BY <1>7, ThreadsAssumption DEF TInv, TypeOK, Lengths, Judged, Replies, Us, LeaveAlone, Acts, Settled, Over, ThreadState, github, db, daemon
<1>8. ASSUME NEW t \in Threads, Resolve(t) PROVE TypeOK'
  BY <1>8, ThreadsAssumption DEF TInv, TypeOK, Lengths, Judged, Replies, Us, Resolve, Acts, Over, github, db, daemon
<1>9. ASSUME NEW t \in Threads, Reply(t) PROVE TypeOK'
  BY <1>9, ThreadsAssumption DEF TInv, TypeOK, Lengths, Judged, Replies, Us, Reply, Acts, Over, github, db, daemon
<1>10. ASSUME NEW t \in Threads, ActFails(t) PROVE TypeOK'
  <2>1. talk' = talk \/ talk' = [talk EXCEPT ![t] = Append(@, Us)]
    BY <1>10 DEF ActFails
  <2>2. talk' \in [Threads -> Seq(Replies \cup {Us})]
    <3>1. talk \in [Threads -> Seq(Replies \cup {Us})]
      BY DEF TInv, TypeOK
    <3>2. Append(talk[t], Us) \in Seq(Replies \cup {Us})
      BY <3>1
    <3>3. QED
      BY <2>1, <3>1, <3>2
  <2>3. seen[t] \in Lengths /\ 0 \in Lengths
    BY ThreadsAssumption DEF TInv, TypeOK, Lengths
  <2>4. notices' \subseteq Judged /\ judged' \subseteq Judged /\ seen' \in [Threads -> Lengths]
    BY <1>10, <2>3 DEF TInv, TypeOK, ActFails, Settled, Over, ThreadState, Judged
  <2>5. resolved' \subseteq Threads /\ collapsed' \subseteq Threads /\ pc' \in {"idle", "act"}
    BY <1>10 DEF TInv, TypeOK, ActFails, Over
  <2>6. QED
    BY <1>10, <2>2, <2>4, <2>5 DEF TInv, TypeOK, ActFails, Over
<1>11. ASSUME Boot PROVE TypeOK'
  BY <1>11, ThreadsAssumption DEF TInv, TypeOK, Lengths, Judged, Replies, Us, Boot, github, db, daemon
<1>12. ASSUME Unread PROVE TypeOK'
  BY <1>12, ThreadsAssumption DEF TInv, TypeOK, Lengths, Judged, Replies, Us, Unread, GoIdle, Forget, github, db, daemon
<1>13. ASSUME RunFails PROVE TypeOK'
  BY <1>13, ThreadsAssumption DEF TInv, TypeOK, Lengths, Judged, Replies, Us, RunFails, GoIdle, Forget, github, db, daemon
<1>14. ASSUME Stop PROVE TypeOK'
  BY <1>14, ThreadsAssumption DEF TInv, TypeOK, Lengths, Judged, Replies, Us, Stop, Forget, github, db, daemon
<1>15. ASSUME Close PROVE TypeOK'
  BY <1>15, ThreadsAssumption DEF TInv, TypeOK, Lengths, Judged, Replies, Us, Close, github, db, daemon
<1>16. ASSUME Retire PROVE TypeOK'
  BY <1>16, ThreadsAssumption DEF TInv, TypeOK, Lengths, Judged, Replies, Us, Retire, github, db, daemon
<1>17. ASSUME NEW u \in Threads, Write(u) PROVE TypeOK'
  BY <1>17, ThreadsAssumption DEF TInv, TypeOK, Lengths, Judged, Replies, Us, Write, github, db, daemon
<1>18. ASSUME NEW u \in Threads, Toggle(u) PROVE TypeOK'
  BY <1>18, ThreadsAssumption DEF TInv, TypeOK, Lengths, Judged, Replies, Us, Toggle, github, db, daemon
<1>19. ASSUME NEW u \in Threads, MoveCode(u) PROVE TypeOK'
  BY <1>19, ThreadsAssumption DEF TInv, TypeOK, Lengths, Judged, Replies, Us, MoveCode, github, db, daemon
<1>20. QED
  BY <1>1, <1>2, <1>3, <1>4, <1>5, <1>6, <1>7, <1>8, <1>9, <1>10, <1>11, <1>12, <1>13, <1>14, <1>15, <1>16, <1>17, <1>18, <1>19 DEF Next, Tick, Hitch, People, Act

\* Every step keeps conversations as short as that.
LEMMA BoundedKept == ASSUME TInv, Next PROVE Bounded'
<1>1. ASSUME Sweep PROVE Bounded'
  BY <1>1, ThreadsAssumption DEF TInv, Bounded, Unanswered, MineIsLast, TypeOK, Lengths, Judged, Replies, Us, Sweep, Sweeps, Pending, Answered, ThreadState, github, db, daemon
<1>2. ASSUME SweepMerged PROVE Bounded'
  BY <1>2, ThreadsAssumption DEF TInv, Bounded, Unanswered, MineIsLast, TypeOK, Lengths, Judged, Replies, Us, SweepMerged, Sweeps, github, db, daemon
<1>3. ASSUME MetaGone PROVE Bounded'
  BY <1>3, ThreadsAssumption DEF TInv, Bounded, Unanswered, MineIsLast, TypeOK, Lengths, Judged, Replies, Us, MetaGone, GoIdle, Forget, github, db, daemon
<1>4. ASSUME Meta PROVE Bounded'
  BY <1>4, ThreadsAssumption DEF TInv, Bounded, Unanswered, MineIsLast, TypeOK, Lengths, Judged, Replies, Us, Meta, github, db, daemon
<1>5. ASSUME Run PROVE Bounded'
  BY <1>5, ThreadsAssumption DEF TInv, Bounded, Unanswered, MineIsLast, TypeOK, Lengths, Judged, Replies, Us, Run, github, db, daemon
<1>6. ASSUME RunEnds PROVE Bounded'
  BY <1>6, ThreadsAssumption DEF TInv, Bounded, Unanswered, MineIsLast, TypeOK, Lengths, Judged, Replies, Us, RunEnds, Shown, Offered, github, db, daemon
<1>7. ASSUME NEW t \in Threads, LeaveAlone(t) PROVE Bounded'
  BY <1>7, ThreadsAssumption DEF TInv, Bounded, Unanswered, MineIsLast, TypeOK, Lengths, Judged, Replies, Us, LeaveAlone, Acts, Settled, Over, ThreadState, github, db, daemon
<1>8. ASSUME NEW t \in Threads, Resolve(t) PROVE Bounded'
  BY <1>8, ThreadsAssumption DEF TInv, Bounded, Unanswered, MineIsLast, TypeOK, Lengths, Judged, Replies, Us, Resolve, Acts, Over, github, db, daemon
<1>9. ASSUME NEW t \in Threads, Reply(t) PROVE Bounded'
  BY <1>9, ThreadsAssumption DEF TInv, Bounded, Unanswered, MineIsLast, TypeOK, Lengths, Judged, Replies, Us, Reply, Acts, Over, github, db, daemon
<1>10. ASSUME NEW t \in Threads, ActFails(t) PROVE Bounded'
  BY <1>10, ThreadsAssumption DEF TInv, Bounded, Unanswered, MineIsLast, TypeOK, Lengths, Judged, Replies, Us, ActFails, Acts, Settled, Over, ThreadState, github, db, daemon
<1>11. ASSUME Boot PROVE Bounded'
  BY <1>11, ThreadsAssumption DEF TInv, Bounded, Unanswered, MineIsLast, TypeOK, Lengths, Judged, Replies, Us, Boot, github, db, daemon
<1>12. ASSUME Unread PROVE Bounded'
  BY <1>12, ThreadsAssumption DEF TInv, Bounded, Unanswered, MineIsLast, TypeOK, Lengths, Judged, Replies, Us, Unread, GoIdle, Forget, github, db, daemon
<1>13. ASSUME RunFails PROVE Bounded'
  BY <1>13, ThreadsAssumption DEF TInv, Bounded, Unanswered, MineIsLast, TypeOK, Lengths, Judged, Replies, Us, RunFails, GoIdle, Forget, github, db, daemon
<1>14. ASSUME Stop PROVE Bounded'
  BY <1>14, ThreadsAssumption DEF TInv, Bounded, Unanswered, MineIsLast, TypeOK, Lengths, Judged, Replies, Us, Stop, Forget, github, db, daemon
<1>15. ASSUME Close PROVE Bounded'
  BY <1>15, ThreadsAssumption DEF TInv, Bounded, Unanswered, MineIsLast, TypeOK, Lengths, Judged, Replies, Us, Close, github, db, daemon
<1>16. ASSUME Retire PROVE Bounded'
  BY <1>16, ThreadsAssumption DEF TInv, Bounded, Unanswered, MineIsLast, TypeOK, Lengths, Judged, Replies, Us, Retire, github, db, daemon
<1>17. ASSUME NEW u \in Threads, Write(u) PROVE Bounded'
  BY <1>17, ThreadsAssumption DEF TInv, Bounded, Unanswered, MineIsLast, TypeOK, Lengths, Judged, Replies, Us, Write, github, db, daemon
<1>18. ASSUME NEW u \in Threads, Toggle(u) PROVE Bounded'
  BY <1>18, ThreadsAssumption DEF TInv, Bounded, Unanswered, MineIsLast, TypeOK, Lengths, Judged, Replies, Us, Toggle, github, db, daemon
<1>19. ASSUME NEW u \in Threads, MoveCode(u) PROVE Bounded'
  BY <1>19, ThreadsAssumption DEF TInv, Bounded, Unanswered, MineIsLast, TypeOK, Lengths, Judged, Replies, Us, MoveCode, github, db, daemon
<1>20. QED
  BY <1>1, <1>2, <1>3, <1>4, <1>5, <1>6, <1>7, <1>8, <1>9, <1>10, <1>11, <1>12, <1>13, <1>14, <1>15, <1>16, <1>17, <1>18, <1>19 DEF Next, Tick, Hitch, People, Act

\* Every step leaves a thread to act on unanswered.
LEMMA UnansweredKept == ASSUME TInv, Next PROVE Unanswered'
<1>1. ASSUME Sweep PROVE Unanswered'
  BY <1>1 DEF TInv, Unanswered, MineIsLast, TypeOK, Lengths, Judged, Replies, Us, Sweep, Sweeps, Pending, Answered, ThreadState, github, db, daemon
<1>2. ASSUME SweepMerged PROVE Unanswered'
  BY <1>2 DEF TInv, Unanswered, MineIsLast, TypeOK, Lengths, Judged, Replies, Us, SweepMerged, Sweeps, github, db, daemon
<1>3. ASSUME MetaGone PROVE Unanswered'
  BY <1>3 DEF TInv, Unanswered, MineIsLast, TypeOK, Lengths, Judged, Replies, Us, MetaGone, GoIdle, Forget, github, db, daemon
<1>4. ASSUME Meta PROVE Unanswered'
  BY <1>4 DEF TInv, Unanswered, MineIsLast, TypeOK, Lengths, Judged, Replies, Us, Meta, github, db, daemon
<1>5. ASSUME Run PROVE Unanswered'
  BY <1>5 DEF TInv, Unanswered, MineIsLast, TypeOK, Lengths, Judged, Replies, Us, Run, github, db, daemon
<1>6. ASSUME RunEnds PROVE Unanswered'
  BY <1>6 DEF TInv, Unanswered, MineIsLast, TypeOK, Lengths, Judged, Replies, Us, RunEnds, Shown, Offered, github, db, daemon
<1>7. ASSUME NEW t \in Threads, LeaveAlone(t) PROVE Unanswered'
  BY <1>7 DEF TInv, Unanswered, MineIsLast, TypeOK, Lengths, Judged, Replies, Us, LeaveAlone, Acts, Settled, Over, ThreadState, github, db, daemon
<1>8. ASSUME NEW t \in Threads, Resolve(t) PROVE Unanswered'
  BY <1>8 DEF TInv, Unanswered, MineIsLast, TypeOK, Lengths, Judged, Replies, Us, Resolve, Acts, Over, github, db, daemon
<1>9. ASSUME NEW t \in Threads, Reply(t) PROVE Unanswered'
  BY <1>9 DEF TInv, Unanswered, MineIsLast, TypeOK, Lengths, Judged, Replies, Us, Reply, Acts, Over, github, db, daemon
<1>10. ASSUME NEW t \in Threads, ActFails(t) PROVE Unanswered'
  BY <1>10 DEF TInv, Unanswered, MineIsLast, TypeOK, Lengths, Judged, Replies, Us, ActFails, Acts, Settled, Over, ThreadState, github, db, daemon
<1>11. ASSUME Boot PROVE Unanswered'
  BY <1>11 DEF TInv, Unanswered, MineIsLast, TypeOK, Lengths, Judged, Replies, Us, Boot, github, db, daemon
<1>12. ASSUME Unread PROVE Unanswered'
  BY <1>12 DEF TInv, Unanswered, MineIsLast, TypeOK, Lengths, Judged, Replies, Us, Unread, GoIdle, Forget, github, db, daemon
<1>13. ASSUME RunFails PROVE Unanswered'
  BY <1>13 DEF TInv, Unanswered, MineIsLast, TypeOK, Lengths, Judged, Replies, Us, RunFails, GoIdle, Forget, github, db, daemon
<1>14. ASSUME Stop PROVE Unanswered'
  BY <1>14 DEF TInv, Unanswered, MineIsLast, TypeOK, Lengths, Judged, Replies, Us, Stop, Forget, github, db, daemon
<1>15. ASSUME Close PROVE Unanswered'
  BY <1>15 DEF TInv, Unanswered, MineIsLast, TypeOK, Lengths, Judged, Replies, Us, Close, github, db, daemon
<1>16. ASSUME Retire PROVE Unanswered'
  BY <1>16 DEF TInv, Unanswered, MineIsLast, TypeOK, Lengths, Judged, Replies, Us, Retire, github, db, daemon
<1>17. ASSUME NEW u \in Threads, Write(u) PROVE Unanswered'
  BY <1>17 DEF TInv, Unanswered, MineIsLast, TypeOK, Lengths, Judged, Replies, Us, Write, github, db, daemon
<1>18. ASSUME NEW u \in Threads, Toggle(u) PROVE Unanswered'
  BY <1>18 DEF TInv, Unanswered, MineIsLast, TypeOK, Lengths, Judged, Replies, Us, Toggle, github, db, daemon
<1>19. ASSUME NEW u \in Threads, MoveCode(u) PROVE Unanswered'
  BY <1>19 DEF TInv, Unanswered, MineIsLast, TypeOK, Lengths, Judged, Replies, Us, MoveCode, github, db, daemon
<1>20. QED
  BY <1>1, <1>2, <1>3, <1>4, <1>5, <1>6, <1>7, <1>8, <1>9, <1>10, <1>11, <1>12, <1>13, <1>14, <1>15, <1>16, <1>17, <1>18, <1>19 DEF Next, Tick, Hitch, People, Act

\* Every word of ours follows one of a person.
LEMMA ReplyAfterReply == ASSUME TInv, Next PROVE NeverTwiceInARow'
<1>1. ASSUME Sweep PROVE NeverTwiceInARow'
  BY <1>1 DEF TInv, NeverTwiceInARow, Unanswered, MineIsLast, TypeOK, Lengths, Judged, Replies, Us, Sweep, Sweeps, Pending, Answered, ThreadState, github, db, daemon
<1>2. ASSUME SweepMerged PROVE NeverTwiceInARow'
  BY <1>2 DEF TInv, NeverTwiceInARow, Unanswered, MineIsLast, TypeOK, Lengths, Judged, Replies, Us, SweepMerged, Sweeps, github, db, daemon
<1>3. ASSUME MetaGone PROVE NeverTwiceInARow'
  BY <1>3 DEF TInv, NeverTwiceInARow, Unanswered, MineIsLast, TypeOK, Lengths, Judged, Replies, Us, MetaGone, GoIdle, Forget, github, db, daemon
<1>4. ASSUME Meta PROVE NeverTwiceInARow'
  BY <1>4 DEF TInv, NeverTwiceInARow, Unanswered, MineIsLast, TypeOK, Lengths, Judged, Replies, Us, Meta, github, db, daemon
<1>5. ASSUME Run PROVE NeverTwiceInARow'
  BY <1>5 DEF TInv, NeverTwiceInARow, Unanswered, MineIsLast, TypeOK, Lengths, Judged, Replies, Us, Run, github, db, daemon
<1>6. ASSUME RunEnds PROVE NeverTwiceInARow'
  BY <1>6 DEF TInv, NeverTwiceInARow, Unanswered, MineIsLast, TypeOK, Lengths, Judged, Replies, Us, RunEnds, Shown, Offered, github, db, daemon
<1>7. ASSUME NEW t \in Threads, LeaveAlone(t) PROVE NeverTwiceInARow'
  BY <1>7 DEF TInv, NeverTwiceInARow, Unanswered, MineIsLast, TypeOK, Lengths, Judged, Replies, Us, LeaveAlone, Acts, Settled, Over, ThreadState, github, db, daemon
<1>8. ASSUME NEW t \in Threads, Resolve(t) PROVE NeverTwiceInARow'
  BY <1>8 DEF TInv, NeverTwiceInARow, Unanswered, MineIsLast, TypeOK, Lengths, Judged, Replies, Us, Resolve, Acts, Over, github, db, daemon
<1>9. ASSUME NEW t \in Threads, Reply(t) PROVE NeverTwiceInARow'
  BY <1>9 DEF TInv, NeverTwiceInARow, Unanswered, MineIsLast, TypeOK, Lengths, Judged, Replies, Us, Reply, Acts, Over, github, db, daemon
<1>10. ASSUME NEW t \in Threads, ActFails(t) PROVE NeverTwiceInARow'
  <2>1. CASE UNCHANGED talk
    BY <2>1 DEF TInv, NeverTwiceInARow
  <2>2. CASE talk' = [talk EXCEPT ![t] = Append(@, Us)]
    BY <1>10, <2>2 DEF TInv, NeverTwiceInARow, Unanswered, MineIsLast, ActFails, Acts, TypeOK, Lengths, Replies, Us
  <2>3. QED
    BY <1>10, <2>1, <2>2 DEF ActFails
<1>11. ASSUME Boot PROVE NeverTwiceInARow'
  BY <1>11 DEF TInv, NeverTwiceInARow, Unanswered, MineIsLast, TypeOK, Lengths, Judged, Replies, Us, Boot, github, db, daemon
<1>12. ASSUME Unread PROVE NeverTwiceInARow'
  BY <1>12 DEF TInv, NeverTwiceInARow, Unanswered, MineIsLast, TypeOK, Lengths, Judged, Replies, Us, Unread, GoIdle, Forget, github, db, daemon
<1>13. ASSUME RunFails PROVE NeverTwiceInARow'
  BY <1>13 DEF TInv, NeverTwiceInARow, Unanswered, MineIsLast, TypeOK, Lengths, Judged, Replies, Us, RunFails, GoIdle, Forget, github, db, daemon
<1>14. ASSUME Stop PROVE NeverTwiceInARow'
  BY <1>14 DEF TInv, NeverTwiceInARow, Unanswered, MineIsLast, TypeOK, Lengths, Judged, Replies, Us, Stop, Forget, github, db, daemon
<1>15. ASSUME Close PROVE NeverTwiceInARow'
  BY <1>15 DEF TInv, NeverTwiceInARow, Unanswered, MineIsLast, TypeOK, Lengths, Judged, Replies, Us, Close, github, db, daemon
<1>16. ASSUME Retire PROVE NeverTwiceInARow'
  BY <1>16 DEF TInv, NeverTwiceInARow, Unanswered, MineIsLast, TypeOK, Lengths, Judged, Replies, Us, Retire, github, db, daemon
<1>17. ASSUME NEW u \in Threads, Write(u) PROVE NeverTwiceInARow'
  BY <1>17 DEF TInv, NeverTwiceInARow, Unanswered, MineIsLast, TypeOK, Lengths, Judged, Replies, Us, Write, github, db, daemon
<1>18. ASSUME NEW u \in Threads, Toggle(u) PROVE NeverTwiceInARow'
  BY <1>18 DEF TInv, NeverTwiceInARow, Unanswered, MineIsLast, TypeOK, Lengths, Judged, Replies, Us, Toggle, github, db, daemon
<1>19. ASSUME NEW u \in Threads, MoveCode(u) PROVE NeverTwiceInARow'
  BY <1>19 DEF TInv, NeverTwiceInARow, Unanswered, MineIsLast, TypeOK, Lengths, Judged, Replies, Us, MoveCode, github, db, daemon
<1>20. QED
  BY <1>1, <1>2, <1>3, <1>4, <1>5, <1>6, <1>7, <1>8, <1>9, <1>10, <1>11, <1>12, <1>13, <1>14, <1>15, <1>16, <1>17, <1>18, <1>19 DEF Next, Tick, Hitch, People, Act

\* Every verdict carried out leaves its trace.
LEMMA AccountedKept == ASSUME TInv, Next PROVE Accounted'
<1>1. ASSUME Sweep PROVE Accounted'
  BY <1>1 DEF TInv, Accounted, Unanswered, TypeOK, Lengths, Judged, Replies, Us, Sweep, Sweeps, Pending, Answered, ThreadState, github, db, daemon
<1>2. ASSUME SweepMerged PROVE Accounted'
  BY <1>2 DEF TInv, Accounted, Unanswered, TypeOK, Lengths, Judged, Replies, Us, SweepMerged, Sweeps, github, db, daemon
<1>3. ASSUME MetaGone PROVE Accounted'
  BY <1>3 DEF TInv, Accounted, Unanswered, TypeOK, Lengths, Judged, Replies, Us, MetaGone, GoIdle, Forget, github, db, daemon
<1>4. ASSUME Meta PROVE Accounted'
  BY <1>4 DEF TInv, Accounted, Unanswered, TypeOK, Lengths, Judged, Replies, Us, Meta, github, db, daemon
<1>5. ASSUME Run PROVE Accounted'
  BY <1>5 DEF TInv, Accounted, Unanswered, TypeOK, Lengths, Judged, Replies, Us, Run, github, db, daemon
<1>6. ASSUME RunEnds PROVE Accounted'
  BY <1>6 DEF TInv, Accounted, Unanswered, TypeOK, Lengths, Judged, Replies, Us, RunEnds, Shown, Offered, github, db, daemon
<1>7. ASSUME NEW t \in Threads, LeaveAlone(t) PROVE Accounted'
  BY <1>7 DEF TInv, Accounted, Unanswered, TypeOK, Lengths, Judged, Replies, Us, LeaveAlone, Acts, Settled, Over, ThreadState, github, db, daemon
<1>8. ASSUME NEW t \in Threads, Resolve(t) PROVE Accounted'
  BY <1>8 DEF TInv, Accounted, Unanswered, TypeOK, Lengths, Judged, Replies, Us, Resolve, Acts, Over, github, db, daemon
<1>9. ASSUME NEW t \in Threads, Reply(t) PROVE Accounted'
  BY <1>9 DEF TInv, Accounted, Unanswered, TypeOK, Lengths, Judged, Replies, Us, Reply, Acts, Over, github, db, daemon
<1>10. ASSUME NEW t \in Threads, ActFails(t) PROVE Accounted'
  BY <1>10 DEF TInv, Accounted, Unanswered, TypeOK, Lengths, Judged, Replies, Us, ActFails, Acts, Settled, Over, ThreadState, github, db, daemon
<1>11. ASSUME Boot PROVE Accounted'
  BY <1>11 DEF TInv, Accounted, Unanswered, TypeOK, Lengths, Judged, Replies, Us, Boot, github, db, daemon
<1>12. ASSUME Unread PROVE Accounted'
  BY <1>12 DEF TInv, Accounted, Unanswered, TypeOK, Lengths, Judged, Replies, Us, Unread, GoIdle, Forget, github, db, daemon
<1>13. ASSUME RunFails PROVE Accounted'
  BY <1>13 DEF TInv, Accounted, Unanswered, TypeOK, Lengths, Judged, Replies, Us, RunFails, GoIdle, Forget, github, db, daemon
<1>14. ASSUME Stop PROVE Accounted'
  BY <1>14 DEF TInv, Accounted, Unanswered, TypeOK, Lengths, Judged, Replies, Us, Stop, Forget, github, db, daemon
<1>15. ASSUME Close PROVE Accounted'
  BY <1>15 DEF TInv, Accounted, Unanswered, TypeOK, Lengths, Judged, Replies, Us, Close, github, db, daemon
<1>16. ASSUME Retire PROVE Accounted'
  BY <1>16 DEF TInv, Accounted, Unanswered, TypeOK, Lengths, Judged, Replies, Us, Retire, github, db, daemon
<1>17. ASSUME NEW u \in Threads, Write(u) PROVE Accounted'
  BY <1>17 DEF TInv, Accounted, Unanswered, TypeOK, Lengths, Judged, Replies, Us, Write, github, db, daemon
<1>18. ASSUME NEW u \in Threads, Toggle(u) PROVE Accounted'
  BY <1>18 DEF TInv, Accounted, Unanswered, TypeOK, Lengths, Judged, Replies, Us, Toggle, github, db, daemon
<1>19. ASSUME NEW u \in Threads, MoveCode(u) PROVE Accounted'
  BY <1>19 DEF TInv, Accounted, Unanswered, TypeOK, Lengths, Judged, Replies, Us, MoveCode, github, db, daemon
<1>20. QED
  BY <1>1, <1>2, <1>3, <1>4, <1>5, <1>6, <1>7, <1>8, <1>9, <1>10, <1>11, <1>12, <1>13, <1>14, <1>15, <1>16, <1>17, <1>18, <1>19 DEF Next, Tick, Hitch, People, Act

\* Every step keeps what is about to be paid for fresh.
LEMMA FreshKept == ASSUME TInv, Next PROVE Fresh'
<1>1. ASSUME Sweep PROVE Fresh'
  BY <1>1 DEF TInv, Fresh, Accounted, TypeOK, Lengths, Judged, Replies, Us, Sweep, Sweeps, Pending, Answered, ThreadState, github, db, daemon
<1>2. ASSUME SweepMerged PROVE Fresh'
  BY <1>2 DEF TInv, Fresh, Accounted, TypeOK, Lengths, Judged, Replies, Us, SweepMerged, Sweeps, github, db, daemon
<1>3. ASSUME MetaGone PROVE Fresh'
  BY <1>3 DEF TInv, Fresh, Accounted, TypeOK, Lengths, Judged, Replies, Us, MetaGone, GoIdle, Forget, github, db, daemon
<1>4. ASSUME Meta PROVE Fresh'
  BY <1>4 DEF TInv, Fresh, Accounted, TypeOK, Lengths, Judged, Replies, Us, Meta, github, db, daemon
<1>5. ASSUME Run PROVE Fresh'
  BY <1>5 DEF TInv, Fresh, Accounted, TypeOK, Lengths, Judged, Replies, Us, Run, github, db, daemon
<1>6. ASSUME RunEnds PROVE Fresh'
  BY <1>6 DEF TInv, Fresh, Accounted, TypeOK, Lengths, Judged, Replies, Us, RunEnds, Shown, Offered, github, db, daemon
<1>7. ASSUME NEW t \in Threads, LeaveAlone(t) PROVE Fresh'
  BY <1>7 DEF TInv, Fresh, Accounted, TypeOK, Lengths, Judged, Replies, Us, LeaveAlone, Acts, Settled, Over, ThreadState, github, db, daemon
<1>8. ASSUME NEW t \in Threads, Resolve(t) PROVE Fresh'
  BY <1>8 DEF TInv, Fresh, Accounted, TypeOK, Lengths, Judged, Replies, Us, Resolve, Acts, Over, github, db, daemon
<1>9. ASSUME NEW t \in Threads, Reply(t) PROVE Fresh'
  BY <1>9 DEF TInv, Fresh, Accounted, TypeOK, Lengths, Judged, Replies, Us, Reply, Acts, Over, github, db, daemon
<1>10. ASSUME NEW t \in Threads, ActFails(t) PROVE Fresh'
  BY <1>10 DEF TInv, Fresh, Accounted, TypeOK, Lengths, Judged, Replies, Us, ActFails, Acts, Settled, Over, ThreadState, github, db, daemon
<1>11. ASSUME Boot PROVE Fresh'
  BY <1>11 DEF TInv, Fresh, Accounted, TypeOK, Lengths, Judged, Replies, Us, Boot, github, db, daemon
<1>12. ASSUME Unread PROVE Fresh'
  BY <1>12 DEF TInv, Fresh, Accounted, TypeOK, Lengths, Judged, Replies, Us, Unread, GoIdle, Forget, github, db, daemon
<1>13. ASSUME RunFails PROVE Fresh'
  BY <1>13 DEF TInv, Fresh, Accounted, TypeOK, Lengths, Judged, Replies, Us, RunFails, GoIdle, Forget, github, db, daemon
<1>14. ASSUME Stop PROVE Fresh'
  BY <1>14 DEF TInv, Fresh, Accounted, TypeOK, Lengths, Judged, Replies, Us, Stop, Forget, github, db, daemon
<1>15. ASSUME Close PROVE Fresh'
  BY <1>15 DEF TInv, Fresh, Accounted, TypeOK, Lengths, Judged, Replies, Us, Close, github, db, daemon
<1>16. ASSUME Retire PROVE Fresh'
  BY <1>16 DEF TInv, Fresh, Accounted, TypeOK, Lengths, Judged, Replies, Us, Retire, github, db, daemon
<1>17. ASSUME NEW u \in Threads, Write(u) PROVE Fresh'
  BY <1>17 DEF TInv, Fresh, Accounted, TypeOK, Lengths, Judged, Replies, Us, Write, github, db, daemon
<1>18. ASSUME NEW u \in Threads, Toggle(u) PROVE Fresh'
  BY <1>18 DEF TInv, Fresh, Accounted, TypeOK, Lengths, Judged, Replies, Us, Toggle, github, db, daemon
<1>19. ASSUME NEW u \in Threads, MoveCode(u) PROVE Fresh'
  BY <1>19 DEF TInv, Fresh, Accounted, TypeOK, Lengths, Judged, Replies, Us, MoveCode, github, db, daemon
<1>20. QED
  BY <1>1, <1>2, <1>3, <1>4, <1>5, <1>6, <1>7, <1>8, <1>9, <1>10, <1>11, <1>12, <1>13, <1>14, <1>15, <1>16, <1>17, <1>18, <1>19 DEF Next, Tick, Hitch, People, Act

\* Only a merge retires.
LEMMA MergedKept == ASSUME TInv, Next PROVE MergedIsFinal'
<1>1. ASSUME Sweep PROVE MergedIsFinal'
  BY <1>1 DEF TInv, MergedIsFinal, Sweep, Sweeps, Pending, Answered, ThreadState, github, db, daemon
<1>2. ASSUME SweepMerged PROVE MergedIsFinal'
  BY <1>2 DEF TInv, MergedIsFinal, SweepMerged, Sweeps, github, db, daemon
<1>3. ASSUME MetaGone PROVE MergedIsFinal'
  BY <1>3 DEF TInv, MergedIsFinal, MetaGone, GoIdle, Forget, github, db, daemon
<1>4. ASSUME Meta PROVE MergedIsFinal'
  BY <1>4 DEF TInv, MergedIsFinal, Meta, github, db, daemon
<1>5. ASSUME Run PROVE MergedIsFinal'
  BY <1>5 DEF TInv, MergedIsFinal, Run, github, db, daemon
<1>6. ASSUME RunEnds PROVE MergedIsFinal'
  BY <1>6 DEF TInv, MergedIsFinal, RunEnds, Shown, Offered, github, db, daemon
<1>7. ASSUME NEW t \in Threads, LeaveAlone(t) PROVE MergedIsFinal'
  BY <1>7 DEF TInv, MergedIsFinal, LeaveAlone, Acts, Settled, Over, ThreadState, github, db, daemon
<1>8. ASSUME NEW t \in Threads, Resolve(t) PROVE MergedIsFinal'
  BY <1>8 DEF TInv, MergedIsFinal, Resolve, Acts, Over, github, db, daemon
<1>9. ASSUME NEW t \in Threads, Reply(t) PROVE MergedIsFinal'
  BY <1>9 DEF TInv, MergedIsFinal, Reply, Acts, Over, github, db, daemon
<1>10. ASSUME NEW t \in Threads, ActFails(t) PROVE MergedIsFinal'
  BY <1>10 DEF TInv, MergedIsFinal, ActFails, Acts, Settled, Over, ThreadState, github, db, daemon
<1>11. ASSUME Boot PROVE MergedIsFinal'
  BY <1>11 DEF TInv, MergedIsFinal, Boot, github, db, daemon
<1>12. ASSUME Unread PROVE MergedIsFinal'
  BY <1>12 DEF TInv, MergedIsFinal, Unread, GoIdle, Forget, github, db, daemon
<1>13. ASSUME RunFails PROVE MergedIsFinal'
  BY <1>13 DEF TInv, MergedIsFinal, RunFails, GoIdle, Forget, github, db, daemon
<1>14. ASSUME Stop PROVE MergedIsFinal'
  BY <1>14 DEF TInv, MergedIsFinal, Stop, Forget, github, db, daemon
<1>15. ASSUME Close PROVE MergedIsFinal'
  BY <1>15 DEF TInv, MergedIsFinal, Close, github, db, daemon
<1>16. ASSUME Retire PROVE MergedIsFinal'
  BY <1>16 DEF TInv, MergedIsFinal, Retire, github, db, daemon
<1>17. ASSUME NEW u \in Threads, Write(u) PROVE MergedIsFinal'
  BY <1>17 DEF TInv, MergedIsFinal, Write, github, db, daemon
<1>18. ASSUME NEW u \in Threads, Toggle(u) PROVE MergedIsFinal'
  BY <1>18 DEF TInv, MergedIsFinal, Toggle, github, db, daemon
<1>19. ASSUME NEW u \in Threads, MoveCode(u) PROVE MergedIsFinal'
  BY <1>19 DEF TInv, MergedIsFinal, MoveCode, github, db, daemon
<1>20. QED
  BY <1>1, <1>2, <1>3, <1>4, <1>5, <1>6, <1>7, <1>8, <1>9, <1>10, <1>11, <1>12, <1>13, <1>14, <1>15, <1>16, <1>17, <1>18, <1>19 DEF Next, Tick, Hitch, People, Act

\* A stutter keeps the invariant.
LEMMA StutterKeeps == ASSUME TInv, UNCHANGED vars PROVE TInv'
<1>1. TypeOK' /\ Bounded' /\ Unanswered' /\ NeverTwiceInARow'
  BY DEF vars, github, db, daemon, TInv, TypeOK, Bounded, Unanswered, MineIsLast, NeverTwiceInARow
<1>2. Accounted' /\ Fresh' /\ MergedIsFinal'
  BY DEF vars, github, db, daemon, TInv, Accounted, Fresh, MergedIsFinal
<1>3. QED
  BY <1>1, <1>2 DEF TInv

\* The states of Threads satisfy the invariant.
THEOREM ThreadsInvariant == Spec => []TInv
<1>1. Init => TInv
  BY InitTInv
<1>2. TInv /\ [Next]_vars => TInv'
  BY TypesKept, BoundedKept, UnansweredKept, ReplyAfterReply, AccountedKept, FreshKept, MergedKept, StutterKeeps
     DEF TInv
<1>3. QED
  BY <1>1, <1>2, PTL DEF Spec

\* Type correctness, with the bound on how long a conversation can get.
THEOREM ThreadsAreTyped == Spec => []TypeOK
<1>1. TInv => TypeOK
  BY DEF TInv
<1>2. QED
  BY <1>1, ThreadsInvariant, PTL

\* The sweep never posts under its own words.
THEOREM NeverTalksToItself == Spec => []NeverTwiceInARow
<1>1. TInv => NeverTwiceInARow
  BY DEF TInv
<1>2. QED
  BY <1>1, ThreadsInvariant, PTL

\* The sweep gives up a pull request only for its merge.
THEOREM OnlyMergesRetire == Spec => []MergedIsFinal
<1>1. TInv => MergedIsFinal
  BY DEF TInv
<1>2. QED
  BY <1>1, ThreadsInvariant, PTL

\* No container starts on words a verdict was carried out on.
THEOREM WordsArePaidOnce == Spec => PaidOnce
<1>1. TInv /\ [Next]_vars =>
        [pc = "slot" /\ pc' = "run" => \A t \in Threads : <<t, seen[t]>> \notin judged]_vars
  BY DEF TInv, TypeOK, Fresh, Lengths
<1>2. QED
  BY <1>1, ThreadsInvariant, PTL DEF Spec, PaidOnce
=============================================================================
