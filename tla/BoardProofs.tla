---------------------------- MODULE BoardProofs ----------------------------
(***************************************************************************)
(* Proofs about Board, for any number of commits, and with the daemon      *)
(* stopped and people at work as often as they like: what the board says   *)
(* of a build was so, a red row was told, and after a tick that read       *)
(* everything the board shows what GitHub does.                            *)
(***************************************************************************)
EXTENDS Board, TLAPS

\* A build that is green has been noted as such.
Greens == GreenWasGreen /\ \A s \in Shas : build[s] = "green" => s \in greens

\* A notice of a red build stands for a note on the PR.
Reds == RedIsTold /\ noted \subseteq told

\* The only row that can be live is the head's, and only under the label.
Retired == \A s \in Shas : verdict[s] # "none" /\ ci[s] \in Live => s = head /\ Labelled

Free == flags \cap {"brake", "taken"} = {}

\* What each step of a tick may rely on while nothing moves on GitHub.
Current ==
  current =>
    /\ pc = "heads" => (asked <=> InQueue) /\ (requested <=> InQueue)
    /\ pc # "down"
    /\ pc \in {"gate", "run", "reject"} => Retired
    /\ pc = "gate" => /\ asked <=> InQueue
                      /\ requested => InQueue /\ "brake" \notin flags
    /\ pc = "run" => row = head /\ InQueue /\ Free /\ verdict[row] = "running"
    /\ pc = "reject" => row = head /\ verdict[row] = "findings"

\* The commit a step is at it for.
AtRow == pc \in {"note", "run", "reject"} => row \in Shas

BInv == TypeOK /\ AtRow /\ Greens /\ Reds /\ Current /\ BoardIsCurrent

\* The initial states satisfy the invariant.
LEMMA InitBInv == Init => BInv
<1> SUFFICES ASSUME Init PROVE BInv
  OBVIOUS
<1>1. TypeOK
  <2>1. head \in Shas /\ flags \subseteq Flags
    BY BoardAssumption DEF Init, Shas, Flags
  <2>2. QED
    BY <2>1 DEF Init, TypeOK, Verdicts, CiStates, Live, Steps
<1>2. AtRow /\ Greens /\ Reds /\ Current /\ BoardIsCurrent
  BY DEF Init, AtRow, Greens, GreenWasGreen, Reds, RedIsTold, Current, BoardIsCurrent
<1>3. QED
  BY <1>1, <1>2 DEF BInv

\* Every step keeps the types.
LEMMA TypesKept == ASSUME BInv, Next PROVE TypeOK' /\ AtRow'
<1>1. ASSUME BeginTick, UNCHANGED clean PROVE TypeOK' /\ AtRow'
  BY <1>1 DEF BInv, AtRow, TypeOK, Shas, Verdicts, CiStates, Live, Flags, Steps, BeginTick, Waiting, Goto, github, db, daemon
<1>2. ASSUME NoteRed, UNCHANGED clean PROVE TypeOK' /\ AtRow'
  BY <1>2 DEF BInv, AtRow, TypeOK, Shas, Verdicts, CiStates, Live, Flags, Steps, NoteRed, SetCi, Goto, github, db, daemon
<1>3. ASSUME WatchDone, UNCHANGED clean PROVE TypeOK' /\ AtRow'
  BY <1>3 DEF BInv, AtRow, TypeOK, Shas, Verdicts, CiStates, Live, Flags, Steps, WatchDone, Goto, github, db, daemon
<1>4. ASSUME ReadQueue, UNCHANGED clean PROVE TypeOK' /\ AtRow'
  <2>1. InQueue \in BOOLEAN
    BY DEF InQueue
  <2>2. QED
    BY <1>4, <2>1 DEF BInv, AtRow, TypeOK, Steps, ReadQueue, Goto, github
<1>5. ASSUME Retire, UNCHANGED clean PROVE TypeOK' /\ AtRow'
  BY <1>5 DEF BInv, AtRow, TypeOK, Shas, Verdicts, CiStates, Live, Flags, Steps, Retire, Goto, github, db, daemon
<1>6. ASSUME Skip, UNCHANGED clean PROVE TypeOK' /\ AtRow'
  BY <1>6 DEF BInv, AtRow, TypeOK, Shas, Verdicts, CiStates, Live, Flags, Steps, Skip, Goto, github, db, daemon
<1>7. ASSUME Taken, UNCHANGED clean PROVE TypeOK' /\ AtRow'
  BY <1>7 DEF BInv, AtRow, TypeOK, Shas, Verdicts, CiStates, Live, Flags, Steps, Taken, Goto, github, db, daemon
<1>8. ASSUME Review, UNCHANGED clean PROVE TypeOK' /\ AtRow'
  BY <1>8 DEF BInv, AtRow, TypeOK, Shas, Verdicts, CiStates, Live, Flags, Steps, Review, Goto, github, db, daemon
<1>9. ASSUME RunFails, UNCHANGED clean PROVE TypeOK' /\ AtRow'
  BY <1>9 DEF BInv, AtRow, TypeOK, Shas, Verdicts, CiStates, Live, Flags, Steps, RunFails, Goto, github, db, daemon
<1>10. ASSUME Approve, UNCHANGED clean PROVE TypeOK' /\ AtRow'
  BY <1>10 DEF BInv, AtRow, TypeOK, Shas, Verdicts, CiStates, Live, Flags, Steps, Approve, SetCi, Goto, github, db, daemon
<1>11. ASSUME Judge, UNCHANGED clean PROVE TypeOK' /\ AtRow'
  BY <1>11 DEF BInv, AtRow, TypeOK, Shas, Verdicts, CiStates, Live, Flags, Steps, Judge, Goto, github, db, daemon
<1>12. ASSUME Reject, UNCHANGED clean PROVE TypeOK' /\ AtRow'
  BY <1>12 DEF BInv, AtRow, TypeOK, Shas, Verdicts, CiStates, Live, Flags, Steps, Reject, Goto, github, db, daemon
<1>13. ASSUME QueueUnread, UNCHANGED clean PROVE TypeOK' /\ AtRow'
  BY <1>13 DEF BInv, AtRow, TypeOK, Shas, Verdicts, CiStates, Live, Flags, Steps, QueueUnread, Goto, github, db, daemon
<1>14. ASSUME HeadsUnread, UNCHANGED clean PROVE TypeOK' /\ AtRow'
  BY <1>14 DEF BInv, AtRow, TypeOK, Shas, Verdicts, CiStates, Live, Flags, Steps, HeadsUnread, Goto, github, db, daemon
<1>15. ASSUME GateUnread, UNCHANGED clean PROVE TypeOK' /\ AtRow'
  BY <1>15 DEF BInv, AtRow, TypeOK, Shas, Verdicts, CiStates, Live, Flags, Steps, GateUnread, Goto, github, db, daemon
<1>16. ASSUME ApproveFails, UNCHANGED clean PROVE TypeOK' /\ AtRow'
  BY <1>16 DEF BInv, AtRow, TypeOK, Shas, Verdicts, CiStates, Live, Flags, Steps, ApproveFails, Goto, github, db, daemon
<1>17. ASSUME Boot, UNCHANGED clean PROVE TypeOK' /\ AtRow'
  BY <1>17 DEF BInv, AtRow, TypeOK, Shas, Verdicts, CiStates, Live, Flags, Steps, Boot, Goto, github, db, daemon
<1>18. ASSUME NEW s \in Shas, WatchOne(s), UNCHANGED clean PROVE TypeOK' /\ AtRow'
  BY <1>18 DEF BInv, AtRow, TypeOK, Shas, Verdicts, CiStates, Live, Flags, Steps, WatchOne, SetCi, Outcome, Goto, github, db, daemon
<1>19. ASSUME Stop, UNCHANGED clean PROVE TypeOK' /\ AtRow'
  BY <1>19 DEF BInv, AtRow, TypeOK, Shas, Verdicts, CiStates, Live, Flags, Steps, Stop, Goto, github, db, daemon
<1>20. ASSUME Push PROVE TypeOK' /\ AtRow'
  <2>1. head' \in Shas
    BY <1>20, BoardAssumption DEF BInv, TypeOK, Shas, Push
  <2>2. QED
    BY <1>20, <2>1 DEF BInv, AtRow, TypeOK, Push, Moved, db, daemon
<1>21. ASSUME Close PROVE TypeOK' /\ AtRow'
  BY <1>21 DEF BInv, AtRow, TypeOK, Shas, Verdicts, CiStates, Live, Flags, Steps, Close, Moved, github, db, daemon
<1>22. ASSUME NEW f \in Flags, Flip(f) PROVE TypeOK' /\ AtRow'
  BY <1>22 DEF BInv, AtRow, TypeOK, Shas, Verdicts, CiStates, Live, Flags, Steps, Flip, Moved, github, db, daemon
<1>23. ASSUME NEW b \in {"running", "green", "red"}, Build(b) PROVE TypeOK' /\ AtRow'
  BY <1>23 DEF BInv, AtRow, TypeOK, Shas, Verdicts, CiStates, Live, Flags, Steps, Build, github, db, daemon
<1>24. ASSUME NEW s \in Shas, Ages(s) PROVE TypeOK' /\ AtRow'
  BY <1>24 DEF BInv, AtRow, TypeOK, Shas, Verdicts, CiStates, Live, Flags, Steps, Ages, Waiting, github, db, daemon
<1>25. QED
  BY <1>1, <1>2, <1>3, <1>4, <1>5, <1>6, <1>7, <1>8, <1>9, <1>10, <1>11, <1>12, <1>13, <1>14, <1>15, <1>16, <1>17, <1>18, <1>19, <1>20, <1>21, <1>22, <1>23, <1>24 DEF Next, Tick, Unread, People

\* Every step keeps what green says: only the head's own build settles a row green.
LEMMA GreensKept == ASSUME BInv, Next PROVE Greens'
<1>1. ASSUME BeginTick, UNCHANGED clean PROVE Greens'
  BY <1>1 DEF BInv, Greens, GreenWasGreen, TypeOK, Shas, Verdicts, CiStates, Live, Flags, Steps, BeginTick, Waiting, Goto, github, db, daemon
<1>2. ASSUME NoteRed, UNCHANGED clean PROVE Greens'
  BY <1>2 DEF BInv, Greens, GreenWasGreen, TypeOK, Shas, Verdicts, CiStates, Live, Flags, Steps, NoteRed, SetCi, Goto, github, db, daemon
<1>3. ASSUME WatchDone, UNCHANGED clean PROVE Greens'
  BY <1>3 DEF BInv, Greens, GreenWasGreen, TypeOK, Shas, Verdicts, CiStates, Live, Flags, Steps, WatchDone, Goto, github, db, daemon
<1>4. ASSUME ReadQueue, UNCHANGED clean PROVE Greens'
  BY <1>4 DEF BInv, Greens, GreenWasGreen, TypeOK, Shas, Verdicts, CiStates, Live, Flags, Steps, ReadQueue, Goto, github, db, daemon
<1>5. ASSUME Retire, UNCHANGED clean PROVE Greens'
  BY <1>5 DEF BInv, Greens, GreenWasGreen, TypeOK, Shas, Verdicts, CiStates, Live, Flags, Steps, Retire, Goto, github, db, daemon
<1>6. ASSUME Skip, UNCHANGED clean PROVE Greens'
  BY <1>6 DEF BInv, Greens, GreenWasGreen, TypeOK, Shas, Verdicts, CiStates, Live, Flags, Steps, Skip, Goto, github, db, daemon
<1>7. ASSUME Taken, UNCHANGED clean PROVE Greens'
  BY <1>7 DEF BInv, Greens, GreenWasGreen, TypeOK, Shas, Verdicts, CiStates, Live, Flags, Steps, Taken, Goto, github, db, daemon
<1>8. ASSUME Review, UNCHANGED clean PROVE Greens'
  BY <1>8 DEF BInv, Greens, GreenWasGreen, TypeOK, Shas, Verdicts, CiStates, Live, Flags, Steps, Review, Goto, github, db, daemon
<1>9. ASSUME RunFails, UNCHANGED clean PROVE Greens'
  BY <1>9 DEF BInv, Greens, GreenWasGreen, TypeOK, Shas, Verdicts, CiStates, Live, Flags, Steps, RunFails, Goto, github, db, daemon
<1>10. ASSUME Approve, UNCHANGED clean PROVE Greens'
  BY <1>10 DEF BInv, Greens, GreenWasGreen, TypeOK, Shas, Verdicts, CiStates, Live, Flags, Steps, Approve, SetCi, Goto, github, db, daemon
<1>11. ASSUME Judge, UNCHANGED clean PROVE Greens'
  BY <1>11 DEF BInv, Greens, GreenWasGreen, TypeOK, Shas, Verdicts, CiStates, Live, Flags, Steps, Judge, Goto, github, db, daemon
<1>12. ASSUME Reject, UNCHANGED clean PROVE Greens'
  BY <1>12 DEF BInv, Greens, GreenWasGreen, TypeOK, Shas, Verdicts, CiStates, Live, Flags, Steps, Reject, Goto, github, db, daemon
<1>13. ASSUME QueueUnread, UNCHANGED clean PROVE Greens'
  BY <1>13 DEF BInv, Greens, GreenWasGreen, TypeOK, Shas, Verdicts, CiStates, Live, Flags, Steps, QueueUnread, Goto, github, db, daemon
<1>14. ASSUME HeadsUnread, UNCHANGED clean PROVE Greens'
  BY <1>14 DEF BInv, Greens, GreenWasGreen, TypeOK, Shas, Verdicts, CiStates, Live, Flags, Steps, HeadsUnread, Goto, github, db, daemon
<1>15. ASSUME GateUnread, UNCHANGED clean PROVE Greens'
  BY <1>15 DEF BInv, Greens, GreenWasGreen, TypeOK, Shas, Verdicts, CiStates, Live, Flags, Steps, GateUnread, Goto, github, db, daemon
<1>16. ASSUME ApproveFails, UNCHANGED clean PROVE Greens'
  BY <1>16 DEF BInv, Greens, GreenWasGreen, TypeOK, Shas, Verdicts, CiStates, Live, Flags, Steps, ApproveFails, Goto, github, db, daemon
<1>17. ASSUME Boot, UNCHANGED clean PROVE Greens'
  BY <1>17 DEF BInv, Greens, GreenWasGreen, TypeOK, Shas, Verdicts, CiStates, Live, Flags, Steps, Boot, Goto, github, db, daemon
<1>18. ASSUME NEW s \in Shas, WatchOne(s), UNCHANGED clean PROVE Greens'
  BY <1>18 DEF BInv, Greens, GreenWasGreen, TypeOK, Shas, Verdicts, CiStates, Live, Flags, Steps, WatchOne, SetCi, Outcome, Goto, github, db, daemon
<1>19. ASSUME Stop, UNCHANGED clean PROVE Greens'
  BY <1>19 DEF BInv, Greens, GreenWasGreen, TypeOK, Shas, Verdicts, CiStates, Live, Flags, Steps, Stop, Goto, github, db, daemon
<1>20. ASSUME Push PROVE Greens'
  BY <1>20 DEF BInv, Greens, GreenWasGreen, TypeOK, Shas, Verdicts, CiStates, Live, Flags, Steps, Push, Moved, github, db, daemon
<1>21. ASSUME Close PROVE Greens'
  BY <1>21 DEF BInv, Greens, GreenWasGreen, TypeOK, Shas, Verdicts, CiStates, Live, Flags, Steps, Close, Moved, github, db, daemon
<1>22. ASSUME NEW f \in Flags, Flip(f) PROVE Greens'
  BY <1>22 DEF BInv, Greens, GreenWasGreen, TypeOK, Shas, Verdicts, CiStates, Live, Flags, Steps, Flip, Moved, github, db, daemon
<1>23. ASSUME NEW b \in {"running", "green", "red"}, Build(b) PROVE Greens'
  BY <1>23 DEF BInv, Greens, GreenWasGreen, TypeOK, Shas, Verdicts, CiStates, Live, Flags, Steps, Build, github, db, daemon
<1>24. ASSUME NEW s \in Shas, Ages(s) PROVE Greens'
  BY <1>24 DEF BInv, Greens, GreenWasGreen, TypeOK, Shas, Verdicts, CiStates, Live, Flags, Steps, Ages, Waiting, github, db, daemon
<1>25. QED
  BY <1>1, <1>2, <1>3, <1>4, <1>5, <1>6, <1>7, <1>8, <1>9, <1>10, <1>11, <1>12, <1>13, <1>14, <1>15, <1>16, <1>17, <1>18, <1>19, <1>20, <1>21, <1>22, <1>23, <1>24 DEF Next, Tick, Unread, People

\* Every step keeps what red says: the note comes first.
LEMMA RedsKept == ASSUME BInv, Next PROVE Reds'
<1>1. ASSUME BeginTick, UNCHANGED clean PROVE Reds'
  BY <1>1 DEF BInv, AtRow, Reds, RedIsTold, TypeOK, Shas, Verdicts, CiStates, Live, Flags, Steps, BeginTick, Waiting, Goto, github, db, daemon
<1>2. ASSUME NoteRed, UNCHANGED clean PROVE Reds'
  BY <1>2 DEF BInv, AtRow, Reds, RedIsTold, TypeOK, Shas, Verdicts, CiStates, Live, Flags, Steps, NoteRed, SetCi, Goto, github, db, daemon
<1>3. ASSUME WatchDone, UNCHANGED clean PROVE Reds'
  BY <1>3 DEF BInv, AtRow, Reds, RedIsTold, TypeOK, Shas, Verdicts, CiStates, Live, Flags, Steps, WatchDone, Goto, github, db, daemon
<1>4. ASSUME ReadQueue, UNCHANGED clean PROVE Reds'
  BY <1>4 DEF BInv, AtRow, Reds, RedIsTold, TypeOK, Shas, Verdicts, CiStates, Live, Flags, Steps, ReadQueue, Goto, github, db, daemon
<1>5. ASSUME Retire, UNCHANGED clean PROVE Reds'
  BY <1>5 DEF BInv, AtRow, Reds, RedIsTold, TypeOK, Shas, Verdicts, CiStates, Live, Flags, Steps, Retire, Goto, github, db, daemon
<1>6. ASSUME Skip, UNCHANGED clean PROVE Reds'
  BY <1>6 DEF BInv, AtRow, Reds, RedIsTold, TypeOK, Shas, Verdicts, CiStates, Live, Flags, Steps, Skip, Goto, github, db, daemon
<1>7. ASSUME Taken, UNCHANGED clean PROVE Reds'
  BY <1>7 DEF BInv, AtRow, Reds, RedIsTold, TypeOK, Shas, Verdicts, CiStates, Live, Flags, Steps, Taken, Goto, github, db, daemon
<1>8. ASSUME Review, UNCHANGED clean PROVE Reds'
  BY <1>8 DEF BInv, AtRow, Reds, RedIsTold, TypeOK, Shas, Verdicts, CiStates, Live, Flags, Steps, Review, Goto, github, db, daemon
<1>9. ASSUME RunFails, UNCHANGED clean PROVE Reds'
  BY <1>9 DEF BInv, AtRow, Reds, RedIsTold, TypeOK, Shas, Verdicts, CiStates, Live, Flags, Steps, RunFails, Goto, github, db, daemon
<1>10. ASSUME Approve, UNCHANGED clean PROVE Reds'
  BY <1>10 DEF BInv, AtRow, Reds, RedIsTold, TypeOK, Shas, Verdicts, CiStates, Live, Flags, Steps, Approve, SetCi, Goto, github, db, daemon
<1>11. ASSUME Judge, UNCHANGED clean PROVE Reds'
  BY <1>11 DEF BInv, AtRow, Reds, RedIsTold, TypeOK, Shas, Verdicts, CiStates, Live, Flags, Steps, Judge, Goto, github, db, daemon
<1>12. ASSUME Reject, UNCHANGED clean PROVE Reds'
  BY <1>12 DEF BInv, AtRow, Reds, RedIsTold, TypeOK, Shas, Verdicts, CiStates, Live, Flags, Steps, Reject, Goto, github, db, daemon
<1>13. ASSUME QueueUnread, UNCHANGED clean PROVE Reds'
  BY <1>13 DEF BInv, AtRow, Reds, RedIsTold, TypeOK, Shas, Verdicts, CiStates, Live, Flags, Steps, QueueUnread, Goto, github, db, daemon
<1>14. ASSUME HeadsUnread, UNCHANGED clean PROVE Reds'
  BY <1>14 DEF BInv, AtRow, Reds, RedIsTold, TypeOK, Shas, Verdicts, CiStates, Live, Flags, Steps, HeadsUnread, Goto, github, db, daemon
<1>15. ASSUME GateUnread, UNCHANGED clean PROVE Reds'
  BY <1>15 DEF BInv, AtRow, Reds, RedIsTold, TypeOK, Shas, Verdicts, CiStates, Live, Flags, Steps, GateUnread, Goto, github, db, daemon
<1>16. ASSUME ApproveFails, UNCHANGED clean PROVE Reds'
  BY <1>16 DEF BInv, AtRow, Reds, RedIsTold, TypeOK, Shas, Verdicts, CiStates, Live, Flags, Steps, ApproveFails, Goto, github, db, daemon
<1>17. ASSUME Boot, UNCHANGED clean PROVE Reds'
  BY <1>17 DEF BInv, AtRow, Reds, RedIsTold, TypeOK, Shas, Verdicts, CiStates, Live, Flags, Steps, Boot, Goto, github, db, daemon
<1>18. ASSUME NEW s \in Shas, WatchOne(s), UNCHANGED clean PROVE Reds'
  BY <1>18 DEF BInv, AtRow, Reds, RedIsTold, TypeOK, Shas, Verdicts, CiStates, Live, Flags, Steps, WatchOne, SetCi, Outcome, Goto, github, db, daemon
<1>19. ASSUME Stop, UNCHANGED clean PROVE Reds'
  BY <1>19 DEF BInv, AtRow, Reds, RedIsTold, TypeOK, Shas, Verdicts, CiStates, Live, Flags, Steps, Stop, Goto, github, db, daemon
<1>20. ASSUME Push PROVE Reds'
  BY <1>20 DEF BInv, AtRow, Reds, RedIsTold, TypeOK, Shas, Verdicts, CiStates, Live, Flags, Steps, Push, Moved, github, db, daemon
<1>21. ASSUME Close PROVE Reds'
  BY <1>21 DEF BInv, AtRow, Reds, RedIsTold, TypeOK, Shas, Verdicts, CiStates, Live, Flags, Steps, Close, Moved, github, db, daemon
<1>22. ASSUME NEW f \in Flags, Flip(f) PROVE Reds'
  BY <1>22 DEF BInv, AtRow, Reds, RedIsTold, TypeOK, Shas, Verdicts, CiStates, Live, Flags, Steps, Flip, Moved, github, db, daemon
<1>23. ASSUME NEW b \in {"running", "green", "red"}, Build(b) PROVE Reds'
  BY <1>23 DEF BInv, AtRow, Reds, RedIsTold, TypeOK, Shas, Verdicts, CiStates, Live, Flags, Steps, Build, github, db, daemon
<1>24. ASSUME NEW s \in Shas, Ages(s) PROVE Reds'
  BY <1>24 DEF BInv, AtRow, Reds, RedIsTold, TypeOK, Shas, Verdicts, CiStates, Live, Flags, Steps, Ages, Waiting, github, db, daemon
<1>25. QED
  BY <1>1, <1>2, <1>3, <1>4, <1>5, <1>6, <1>7, <1>8, <1>9, <1>10, <1>11, <1>12, <1>13, <1>14, <1>15, <1>16, <1>17, <1>18, <1>19, <1>20, <1>21, <1>22, <1>23, <1>24 DEF Next, Tick, Unread, People

\* Every step leaves the next one what it relies on.
LEMMA CurrentKept == ASSUME BInv, Next PROVE Current'
<1>1. ASSUME BeginTick, UNCHANGED clean PROVE Current'
  BY <1>1 DEF BInv, AtRow, Current, Retired, Free, InQueue, Labelled, TypeOK, Shas, Verdicts, CiStates, Live, Flags, Steps, BeginTick, Waiting, Goto, github, db, daemon
<1>2. ASSUME NoteRed, UNCHANGED clean PROVE Current'
  BY <1>2 DEF BInv, AtRow, Current, Retired, Free, InQueue, Labelled, TypeOK, Shas, Verdicts, CiStates, Live, Flags, Steps, NoteRed, SetCi, Goto, github, db, daemon
<1>3. ASSUME WatchDone, UNCHANGED clean PROVE Current'
  BY <1>3 DEF BInv, AtRow, Current, Retired, Free, InQueue, Labelled, TypeOK, Shas, Verdicts, CiStates, Live, Flags, Steps, WatchDone, Goto, github, db, daemon
<1>4. ASSUME ReadQueue, UNCHANGED clean PROVE Current'
  BY <1>4 DEF BInv, AtRow, Current, Retired, Free, InQueue, Labelled, TypeOK, Shas, Verdicts, CiStates, Live, Flags, Steps, ReadQueue, Goto, github, db, daemon
<1>5. ASSUME Retire, UNCHANGED clean PROVE Current'
  BY <1>5 DEF BInv, AtRow, Current, Retired, Free, InQueue, Labelled, TypeOK, Shas, Verdicts, CiStates, Live, Flags, Steps, Retire, Goto, github, db, daemon
<1>6. ASSUME Skip, UNCHANGED clean PROVE Current'
  BY <1>6 DEF BInv, AtRow, Current, Retired, Free, InQueue, Labelled, TypeOK, Shas, Verdicts, CiStates, Live, Flags, Steps, Skip, Goto, github, db, daemon
<1>7. ASSUME Taken, UNCHANGED clean PROVE Current'
  BY <1>7 DEF BInv, AtRow, Current, Retired, Free, InQueue, Labelled, TypeOK, Shas, Verdicts, CiStates, Live, Flags, Steps, Taken, Goto, github, db, daemon
<1>8. ASSUME Review, UNCHANGED clean PROVE Current'
  BY <1>8 DEF BInv, AtRow, Current, Retired, Free, InQueue, Labelled, TypeOK, Shas, Verdicts, CiStates, Live, Flags, Steps, Review, Goto, github, db, daemon
<1>9. ASSUME RunFails, UNCHANGED clean PROVE Current'
  BY <1>9 DEF BInv, AtRow, Current, Retired, Free, InQueue, Labelled, TypeOK, Shas, Verdicts, CiStates, Live, Flags, Steps, RunFails, Goto, github, db, daemon
<1>10. ASSUME Approve, UNCHANGED clean PROVE Current'
  BY <1>10 DEF BInv, AtRow, Current, Retired, Free, InQueue, Labelled, TypeOK, Shas, Verdicts, CiStates, Live, Flags, Steps, Approve, SetCi, Goto, github, db, daemon
<1>11. ASSUME Judge, UNCHANGED clean PROVE Current'
  BY <1>11 DEF BInv, AtRow, Current, Retired, Free, InQueue, Labelled, TypeOK, Shas, Verdicts, CiStates, Live, Flags, Steps, Judge, Goto, github, db, daemon
<1>12. ASSUME Reject, UNCHANGED clean PROVE Current'
  BY <1>12 DEF BInv, AtRow, Current, Retired, Free, InQueue, Labelled, TypeOK, Shas, Verdicts, CiStates, Live, Flags, Steps, Reject, Goto, github, db, daemon
<1>13. ASSUME QueueUnread, UNCHANGED clean PROVE Current'
  BY <1>13 DEF BInv, AtRow, Current, Retired, Free, InQueue, Labelled, TypeOK, Shas, Verdicts, CiStates, Live, Flags, Steps, QueueUnread, Goto, github, db, daemon
<1>14. ASSUME HeadsUnread, UNCHANGED clean PROVE Current'
  BY <1>14 DEF BInv, AtRow, Current, Retired, Free, InQueue, Labelled, TypeOK, Shas, Verdicts, CiStates, Live, Flags, Steps, HeadsUnread, Goto, github, db, daemon
<1>15. ASSUME GateUnread, UNCHANGED clean PROVE Current'
  BY <1>15 DEF BInv, AtRow, Current, Retired, Free, InQueue, Labelled, TypeOK, Shas, Verdicts, CiStates, Live, Flags, Steps, GateUnread, Goto, github, db, daemon
<1>16. ASSUME ApproveFails, UNCHANGED clean PROVE Current'
  BY <1>16 DEF BInv, AtRow, Current, Retired, Free, InQueue, Labelled, TypeOK, Shas, Verdicts, CiStates, Live, Flags, Steps, ApproveFails, Goto, github, db, daemon
<1>17. ASSUME Boot, UNCHANGED clean PROVE Current'
  BY <1>17 DEF BInv, AtRow, Current, Retired, Free, InQueue, Labelled, TypeOK, Shas, Verdicts, CiStates, Live, Flags, Steps, Boot, Goto, github, db, daemon
<1>18. ASSUME NEW s \in Shas, WatchOne(s), UNCHANGED clean PROVE Current'
  BY <1>18 DEF BInv, AtRow, Current, Retired, Free, InQueue, Labelled, TypeOK, Shas, Verdicts, CiStates, Live, Flags, Steps, WatchOne, SetCi, Outcome, Goto, github, db, daemon
<1>19. ASSUME Stop, UNCHANGED clean PROVE Current'
  BY <1>19 DEF BInv, AtRow, Current, Retired, Free, InQueue, Labelled, TypeOK, Shas, Verdicts, CiStates, Live, Flags, Steps, Stop, Goto, github, db, daemon
<1>20. ASSUME Push PROVE Current'
  BY <1>20 DEF BInv, AtRow, Current, Retired, Free, InQueue, Labelled, TypeOK, Shas, Verdicts, CiStates, Live, Flags, Steps, Push, Moved, github, db, daemon
<1>21. ASSUME Close PROVE Current'
  BY <1>21 DEF BInv, AtRow, Current, Retired, Free, InQueue, Labelled, TypeOK, Shas, Verdicts, CiStates, Live, Flags, Steps, Close, Moved, github, db, daemon
<1>22. ASSUME NEW f \in Flags, Flip(f) PROVE Current'
  BY <1>22 DEF BInv, AtRow, Current, Retired, Free, InQueue, Labelled, TypeOK, Shas, Verdicts, CiStates, Live, Flags, Steps, Flip, Moved, github, db, daemon
<1>23. ASSUME NEW b \in {"running", "green", "red"}, Build(b) PROVE Current'
  BY <1>23 DEF BInv, AtRow, Current, Retired, Free, InQueue, Labelled, TypeOK, Shas, Verdicts, CiStates, Live, Flags, Steps, Build, github, db, daemon
<1>24. ASSUME NEW s \in Shas, Ages(s) PROVE Current'
  BY <1>24 DEF BInv, AtRow, Current, Retired, Free, InQueue, Labelled, TypeOK, Shas, Verdicts, CiStates, Live, Flags, Steps, Ages, Waiting, github, db, daemon
<1>25. QED
  BY <1>1, <1>2, <1>3, <1>4, <1>5, <1>6, <1>7, <1>8, <1>9, <1>10, <1>11, <1>12, <1>13, <1>14, <1>15, <1>16, <1>17, <1>18, <1>19, <1>20, <1>21, <1>22, <1>23, <1>24 DEF Next, Tick, Unread, People

\* Every way a tick ends leaves the board true.
LEMMA BoardKept == ASSUME BInv, Next PROVE BoardIsCurrent'
<1>1. ASSUME BeginTick, UNCHANGED clean PROVE BoardIsCurrent'
  BY <1>1 DEF BInv, AtRow, Current, Retired, Free, InQueue, Labelled, TypeOK, Shas, Verdicts, CiStates, Live, Flags, Steps, BoardIsCurrent, OnBoard, Newest, Published, BeginTick, Waiting, Goto, github, db, daemon
<1>2. ASSUME NoteRed, UNCHANGED clean PROVE BoardIsCurrent'
  BY <1>2 DEF BInv, AtRow, Current, Retired, Free, InQueue, Labelled, TypeOK, Shas, Verdicts, CiStates, Live, Flags, Steps, BoardIsCurrent, OnBoard, Newest, Published, NoteRed, SetCi, Goto, github, db, daemon
<1>3. ASSUME WatchDone, UNCHANGED clean PROVE BoardIsCurrent'
  BY <1>3 DEF BInv, AtRow, Current, Retired, Free, InQueue, Labelled, TypeOK, Shas, Verdicts, CiStates, Live, Flags, Steps, BoardIsCurrent, OnBoard, Newest, Published, WatchDone, Goto, github, db, daemon
<1>4. ASSUME ReadQueue, UNCHANGED clean PROVE BoardIsCurrent'
  BY <1>4 DEF BInv, AtRow, Current, Retired, Free, InQueue, Labelled, TypeOK, Shas, Verdicts, CiStates, Live, Flags, Steps, BoardIsCurrent, OnBoard, Newest, Published, ReadQueue, Goto, github, db, daemon
<1>5. ASSUME Retire, UNCHANGED clean PROVE BoardIsCurrent'
  BY <1>5 DEF BInv, AtRow, Current, Retired, Free, InQueue, Labelled, TypeOK, Shas, Verdicts, CiStates, Live, Flags, Steps, BoardIsCurrent, OnBoard, Newest, Published, Retire, Goto, github, db, daemon
<1>6. ASSUME Skip, UNCHANGED clean PROVE BoardIsCurrent'
  BY <1>6 DEF BInv, AtRow, Current, Retired, Free, InQueue, Labelled, TypeOK, Shas, Verdicts, CiStates, Live, Flags, Steps, BoardIsCurrent, OnBoard, Newest, Published, Skip, Goto, github, db, daemon
<1>7. ASSUME Taken, UNCHANGED clean PROVE BoardIsCurrent'
  BY <1>7 DEF BInv, AtRow, Current, Retired, Free, InQueue, Labelled, TypeOK, Shas, Verdicts, CiStates, Live, Flags, Steps, BoardIsCurrent, OnBoard, Newest, Published, Taken, Goto, github, db, daemon
<1>8. ASSUME Review, UNCHANGED clean PROVE BoardIsCurrent'
  BY <1>8 DEF BInv, AtRow, Current, Retired, Free, InQueue, Labelled, TypeOK, Shas, Verdicts, CiStates, Live, Flags, Steps, BoardIsCurrent, OnBoard, Newest, Published, Review, Goto, github, db, daemon
<1>9. ASSUME RunFails, UNCHANGED clean PROVE BoardIsCurrent'
  BY <1>9 DEF BInv, AtRow, Current, Retired, Free, InQueue, Labelled, TypeOK, Shas, Verdicts, CiStates, Live, Flags, Steps, BoardIsCurrent, OnBoard, Newest, Published, RunFails, Goto, github, db, daemon
<1>10. ASSUME Approve, UNCHANGED clean PROVE BoardIsCurrent'
  BY <1>10 DEF BInv, AtRow, Current, Retired, Free, InQueue, Labelled, TypeOK, Shas, Verdicts, CiStates, Live, Flags, Steps, BoardIsCurrent, OnBoard, Newest, Published, Approve, SetCi, Goto, github, db, daemon
<1>11. ASSUME Judge, UNCHANGED clean PROVE BoardIsCurrent'
  BY <1>11 DEF BInv, AtRow, Current, Retired, Free, InQueue, Labelled, TypeOK, Shas, Verdicts, CiStates, Live, Flags, Steps, BoardIsCurrent, OnBoard, Newest, Published, Judge, Goto, github, db, daemon
<1>12. ASSUME Reject, UNCHANGED clean PROVE BoardIsCurrent'
  BY <1>12 DEF BInv, AtRow, Current, Retired, Free, InQueue, Labelled, TypeOK, Shas, Verdicts, CiStates, Live, Flags, Steps, BoardIsCurrent, OnBoard, Newest, Published, Reject, Goto, github, db, daemon
<1>13. ASSUME QueueUnread, UNCHANGED clean PROVE BoardIsCurrent'
  BY <1>13 DEF BInv, AtRow, Current, Retired, Free, InQueue, Labelled, TypeOK, Shas, Verdicts, CiStates, Live, Flags, Steps, BoardIsCurrent, OnBoard, Newest, Published, QueueUnread, Goto, github, db, daemon
<1>14. ASSUME HeadsUnread, UNCHANGED clean PROVE BoardIsCurrent'
  BY <1>14 DEF BInv, AtRow, Current, Retired, Free, InQueue, Labelled, TypeOK, Shas, Verdicts, CiStates, Live, Flags, Steps, BoardIsCurrent, OnBoard, Newest, Published, HeadsUnread, Goto, github, db, daemon
<1>15. ASSUME GateUnread, UNCHANGED clean PROVE BoardIsCurrent'
  BY <1>15 DEF BInv, AtRow, Current, Retired, Free, InQueue, Labelled, TypeOK, Shas, Verdicts, CiStates, Live, Flags, Steps, BoardIsCurrent, OnBoard, Newest, Published, GateUnread, Goto, github, db, daemon
<1>16. ASSUME ApproveFails, UNCHANGED clean PROVE BoardIsCurrent'
  BY <1>16 DEF BInv, AtRow, Current, Retired, Free, InQueue, Labelled, TypeOK, Shas, Verdicts, CiStates, Live, Flags, Steps, BoardIsCurrent, OnBoard, Newest, Published, ApproveFails, Goto, github, db, daemon
<1>17. ASSUME Boot, UNCHANGED clean PROVE BoardIsCurrent'
  BY <1>17 DEF BInv, AtRow, Current, Retired, Free, InQueue, Labelled, TypeOK, Shas, Verdicts, CiStates, Live, Flags, Steps, BoardIsCurrent, OnBoard, Newest, Published, Boot, Goto, github, db, daemon
<1>18. ASSUME NEW s \in Shas, WatchOne(s), UNCHANGED clean PROVE BoardIsCurrent'
  BY <1>18 DEF BInv, AtRow, Current, Retired, Free, InQueue, Labelled, TypeOK, Shas, Verdicts, CiStates, Live, Flags, Steps, BoardIsCurrent, OnBoard, Newest, Published, WatchOne, SetCi, Outcome, Goto, github, db, daemon
<1>19. ASSUME Stop, UNCHANGED clean PROVE BoardIsCurrent'
  BY <1>19 DEF BInv, AtRow, Current, Retired, Free, InQueue, Labelled, TypeOK, Shas, Verdicts, CiStates, Live, Flags, Steps, BoardIsCurrent, OnBoard, Newest, Published, Stop, Goto, github, db, daemon
<1>20. ASSUME Push PROVE BoardIsCurrent'
  BY <1>20 DEF BInv, AtRow, Current, Retired, Free, InQueue, Labelled, TypeOK, Shas, Verdicts, CiStates, Live, Flags, Steps, BoardIsCurrent, OnBoard, Newest, Published, Push, Moved, github, db, daemon
<1>21. ASSUME Close PROVE BoardIsCurrent'
  BY <1>21 DEF BInv, AtRow, Current, Retired, Free, InQueue, Labelled, TypeOK, Shas, Verdicts, CiStates, Live, Flags, Steps, BoardIsCurrent, OnBoard, Newest, Published, Close, Moved, github, db, daemon
<1>22. ASSUME NEW f \in Flags, Flip(f) PROVE BoardIsCurrent'
  BY <1>22 DEF BInv, AtRow, Current, Retired, Free, InQueue, Labelled, TypeOK, Shas, Verdicts, CiStates, Live, Flags, Steps, BoardIsCurrent, OnBoard, Newest, Published, Flip, Moved, github, db, daemon
<1>23. ASSUME NEW b \in {"running", "green", "red"}, Build(b) PROVE BoardIsCurrent'
  BY <1>23 DEF BInv, AtRow, Current, Retired, Free, InQueue, Labelled, TypeOK, Shas, Verdicts, CiStates, Live, Flags, Steps, BoardIsCurrent, OnBoard, Newest, Published, Build, github, db, daemon
<1>24. ASSUME NEW s \in Shas, Ages(s) PROVE BoardIsCurrent'
  BY <1>24 DEF BInv, AtRow, Current, Retired, Free, InQueue, Labelled, TypeOK, Shas, Verdicts, CiStates, Live, Flags, Steps, BoardIsCurrent, OnBoard, Newest, Published, Ages, Waiting, github, db, daemon
<1>25. QED
  BY <1>1, <1>2, <1>3, <1>4, <1>5, <1>6, <1>7, <1>8, <1>9, <1>10, <1>11, <1>12, <1>13, <1>14, <1>15, <1>16, <1>17, <1>18, <1>19, <1>20, <1>21, <1>22, <1>23, <1>24 DEF Next, Tick, Unread, People

\* A stutter keeps the invariant.
LEMMA StutterKeeps == ASSUME BInv, UNCHANGED vars PROVE BInv'
<1>1. TypeOK' /\ AtRow' /\ Greens' /\ Reds'
  BY DEF vars, github, db, daemon, BInv, TypeOK, AtRow, Greens, GreenWasGreen, Reds, RedIsTold
<1>2. Current' /\ BoardIsCurrent'
  BY DEF vars, github, db, daemon, BInv, Current, Retired, Free, InQueue, Labelled, BoardIsCurrent, OnBoard, Newest,
     Published
<1>3. QED
  BY <1>1, <1>2 DEF BInv

\* Board's states satisfy the invariant.
THEOREM BoardInvariant == Spec => []BInv
<1>1. Init => BInv
  BY InitBInv
<1>2. BInv /\ [Next]_vars => BInv'
  BY TypesKept, GreensKept, RedsKept, CurrentKept, BoardKept, StutterKeeps DEF BInv
<1>3. QED
  BY <1>1, <1>2, PTL DEF Spec

\* Type correctness of the board, its database and the watch.
THEOREM BoardIsTyped == Spec => []TypeOK
<1>1. BInv => TypeOK
  BY DEF BInv
<1>2. QED
  BY <1>1, BoardInvariant, PTL

\* ci_watch settles a row green only for a commit whose own build was.
THEOREM GreenIsOfItsCommit == Spec => []GreenWasGreen
<1>1. BInv => GreenWasGreen
  BY DEF BInv, Greens
<1>2. QED
  BY <1>1, BoardInvariant, PTL

\* ci_watch settles a row red only after the author was told.
THEOREM RedIsNeverSilent == Spec => []RedIsTold
<1>1. BInv => RedIsTold
  BY DEF BInv, Reds
<1>2. QED
  BY <1>1, BoardInvariant, PTL

\* After a tick that read everything, the board is what GitHub shows.
THEOREM BoardStaysCurrent == Spec => []BoardIsCurrent
<1>1. BInv => BoardIsCurrent
  BY DEF BInv
<1>2. QED
  BY <1>1, BoardInvariant, PTL
=============================================================================
