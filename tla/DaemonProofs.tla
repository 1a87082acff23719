---------------------------- MODULE DaemonProofs ----------------------------
(***************************************************************************)
(* Proofs about Daemon, for any queue and any number of polls in a stale   *)
(* window, with signals, kills, refusals, renewed tokens and pushes as     *)
(* often as they like: the gate goes blind for a reason.                   *)
(***************************************************************************)
EXTENDS Daemon, TLAPS

\* Each poll that was due since the last good one has lapsed, but the one under way.
Counted ==
  /\ age <= lapses + 1
  /\ poll = "off" => age <= lapses

\* What a poll's thread knows of the token: the file it read has been written
\* at most once since, and what it read again is the token the provider takes.
InHand ==
  /\ poll = "ask" /\ file # token => renewed /\ file = live
  /\ poll = "again" => renewed /\ file = live /\ token = live

\* Containers run in a tick.
AtWork == jobs # {} \/ running # {} => loop = "tick"

DInv == TypeOK /\ Counted /\ InHand /\ AtWork

\* A capped count stays within its cap.
LEMMA OneMoreIsCapped == ASSUME NEW n \in 0 .. Stale PROVE OneMore(n) \in 0 .. Stale
  BY DaemonAssumption DEF OneMore

\* The initial states satisfy the invariant.
LEMMA InitDInv == Init => DInv
<1> SUFFICES ASSUME Init PROVE DInv
  OBVIOUS
<1>1. 0 \in 0 .. Stale /\ 0 \in 0 .. 1
  BY DaemonAssumption
<1>2. TypeOK
  BY <1>1 DEF Init, TypeOK
<1>3. QED
  BY <1>2 DEF Init, DInv, Counted, InHand, AtWork

\* Every step keeps the types.
LEMMA TypesKept == ASSUME DInv, Next PROVE TypeOK' /\ AtWork'
<1>1. ASSUME ReadFile PROVE TypeOK' /\ AtWork'
  BY <1>1, DaemonAssumption DEF DInv, TypeOK, AtWork, ReadFile, account, ticks, meter
<1>2. ASSUME Answered PROVE TypeOK' /\ AtWork'
  BY <1>2, DaemonAssumption DEF DInv, TypeOK, AtWork, Answered, account, ticks, meter
<1>3. ASSUME Refused PROVE TypeOK' /\ AtWork'
  BY <1>3, DaemonAssumption DEF DInv, TypeOK, AtWork, Refused, Failed, OneMore, account, ticks, meter
<1>4. ASSUME Unauthorized PROVE TypeOK' /\ AtWork'
  BY <1>4, DaemonAssumption DEF DInv, TypeOK, AtWork, Unauthorized, Failed, OneMore, account, ticks, meter
<1>5. ASSUME Due PROVE TypeOK' /\ AtWork'
  <2>1. age' \in 0 .. Stale /\ lapses' \in 0 .. Stale
    BY <1>5, OneMoreIsCapped DEF DInv, TypeOK, Due
  <2>2. QED
    BY <1>5, <2>1 DEF DInv, TypeOK, AtWork, Due, ticks
<1>6. ASSUME BootDone PROVE TypeOK' /\ AtWork'
  BY <1>6, DaemonAssumption DEF DInv, TypeOK, AtWork, BootDone, account, ticks, meter
<1>7. ASSUME BeginTick PROVE TypeOK' /\ AtWork'
  BY <1>7, DaemonAssumption DEF DInv, TypeOK, AtWork, BeginTick, account, ticks, meter
<1>8. ASSUME EndTick PROVE TypeOK' /\ AtWork'
  BY <1>8, DaemonAssumption DEF DInv, TypeOK, AtWork, EndTick, account, ticks, meter
<1>9. ASSUME Rested PROVE TypeOK' /\ AtWork'
  BY <1>9, DaemonAssumption DEF DInv, TypeOK, AtWork, Rested, account, ticks, meter
<1>10. ASSUME Leave PROVE TypeOK' /\ AtWork'
  <2>1. lapses' \in 0 .. Stale
    BY <1>10, OneMoreIsCapped DEF DInv, TypeOK, Leave, Ends
  <2>2. QED
    BY <1>10, <2>1 DEF DInv, TypeOK, AtWork, Leave, Ends, account
<1>11. ASSUME NEW p \in PRs, Start(p) PROVE TypeOK' /\ AtWork'
  BY <1>11, DaemonAssumption DEF DInv, TypeOK, AtWork, Start, account, ticks, meter
<1>12. ASSUME NEW p \in PRs, TurnAway(p) PROVE TypeOK' /\ AtWork'
  BY <1>12, DaemonAssumption DEF DInv, TypeOK, AtWork, TurnAway, account, ticks, meter
<1>13. ASSUME NEW p \in PRs, Review(p) PROVE TypeOK' /\ AtWork'
  BY <1>13, DaemonAssumption DEF DInv, TypeOK, AtWork, Review, account, ticks, meter
<1>14. ASSUME NEW p \in PRs, RunFails(p) PROVE TypeOK' /\ AtWork'
  BY <1>14, DaemonAssumption DEF DInv, TypeOK, AtWork, RunFails, account, ticks, meter
<1>15. ASSUME BadTick PROVE TypeOK' /\ AtWork'
  BY <1>15, DaemonAssumption DEF DInv, TypeOK, AtWork, BadTick, account, ticks, meter
<1>16. ASSUME Boot PROVE TypeOK' /\ AtWork'
  BY <1>16, DaemonAssumption DEF DInv, TypeOK, AtWork, Boot, account, ticks, meter
<1>17. ASSUME Kill PROVE TypeOK' /\ AtWork'
  <2>1. lapses' \in 0 .. Stale
    BY <1>17, OneMoreIsCapped DEF DInv, TypeOK, Kill, Ends
  <2>2. QED
    BY <1>17, <2>1 DEF DInv, TypeOK, AtWork, Kill, Ends, account
<1>18. ASSUME Signal PROVE TypeOK' /\ AtWork'
  BY <1>18, DaemonAssumption DEF DInv, TypeOK, AtWork, Signal, account, ticks, meter
<1>19. ASSUME Spend PROVE TypeOK' /\ AtWork'
  BY <1>19, DaemonAssumption DEF DInv, TypeOK, AtWork, Spend, account, ticks, meter
<1>20. ASSUME RenewToken PROVE TypeOK' /\ AtWork'
  BY <1>20, DaemonAssumption DEF DInv, TypeOK, AtWork, RenewToken, account, ticks, meter
<1>21. ASSUME WriteFile PROVE TypeOK' /\ AtWork'
  BY <1>21, DaemonAssumption DEF DInv, TypeOK, AtWork, WriteFile, account, ticks, meter
<1>22. ASSUME NEW p \in PRs, Push(p) PROVE TypeOK' /\ AtWork'
  BY <1>22, DaemonAssumption DEF DInv, TypeOK, AtWork, Push, account, ticks, meter
<1>23. QED
  BY <1>1, <1>2, <1>3, <1>4, <1>5, <1>6, <1>7, <1>8, <1>9, <1>10, <1>11, <1>12, <1>13, <1>14, <1>15, <1>16, <1>17, <1>18, <1>19, <1>20, <1>21, <1>22 DEF Next, Poll, Round

\* Every poll that was due is accounted for.
LEMMA CountedKept == ASSUME DInv, Next PROVE Counted'
<1>1. ASSUME ReadFile PROVE Counted'
  BY <1>1, DaemonAssumption DEF DInv, TypeOK, Counted, InHand, ReadFile, account, ticks, meter
<1>2. ASSUME Answered PROVE Counted'
  BY <1>2, DaemonAssumption DEF DInv, TypeOK, Counted, InHand, Answered, account, ticks, meter
<1>3. ASSUME Refused PROVE Counted'
  BY <1>3, DaemonAssumption DEF DInv, TypeOK, Counted, InHand, Refused, Failed, OneMore, account, ticks, meter
<1>4. ASSUME Unauthorized PROVE Counted'
  BY <1>4, DaemonAssumption DEF DInv, TypeOK, Counted, InHand, Unauthorized, Failed, OneMore, account, ticks, meter
<1>5. ASSUME Due PROVE Counted'
  BY <1>5, DaemonAssumption DEF DInv, TypeOK, Counted, InHand, Due, OneMore, account, ticks, meter
<1>6. ASSUME BootDone PROVE Counted'
  BY <1>6, DaemonAssumption DEF DInv, TypeOK, Counted, InHand, BootDone, account, ticks, meter
<1>7. ASSUME BeginTick PROVE Counted'
  BY <1>7, DaemonAssumption DEF DInv, TypeOK, Counted, InHand, BeginTick, account, ticks, meter
<1>8. ASSUME EndTick PROVE Counted'
  BY <1>8, DaemonAssumption DEF DInv, TypeOK, Counted, InHand, EndTick, account, ticks, meter
<1>9. ASSUME Rested PROVE Counted'
  BY <1>9, DaemonAssumption DEF DInv, TypeOK, Counted, InHand, Rested, account, ticks, meter
<1>10. ASSUME Leave PROVE Counted'
  BY <1>10, DaemonAssumption DEF DInv, TypeOK, Counted, InHand, Leave, Ends, OneMore, account, ticks, meter
<1>11. ASSUME NEW p \in PRs, Start(p) PROVE Counted'
  BY <1>11, DaemonAssumption DEF DInv, TypeOK, Counted, InHand, Start, account, ticks, meter
<1>12. ASSUME NEW p \in PRs, TurnAway(p) PROVE Counted'
  BY <1>12, DaemonAssumption DEF DInv, TypeOK, Counted, InHand, TurnAway, account, ticks, meter
<1>13. ASSUME NEW p \in PRs, Review(p) PROVE Counted'
  BY <1>13, DaemonAssumption DEF DInv, TypeOK, Counted, InHand, Review, account, ticks, meter
<1>14. ASSUME NEW p \in PRs, RunFails(p) PROVE Counted'
  BY <1>14, DaemonAssumption DEF DInv, TypeOK, Counted, InHand, RunFails, account, ticks, meter
<1>15. ASSUME BadTick PROVE Counted'
  BY <1>15, DaemonAssumption DEF DInv, TypeOK, Counted, InHand, BadTick, account, ticks, meter
<1>16. ASSUME Boot PROVE Counted'
  BY <1>16, DaemonAssumption DEF DInv, TypeOK, Counted, InHand, Boot, account, ticks, meter
<1>17. ASSUME Kill PROVE Counted'
  BY <1>17, DaemonAssumption DEF DInv, TypeOK, Counted, InHand, Kill, Ends, OneMore, account, ticks, meter
<1>18. ASSUME Signal PROVE Counted'
  BY <1>18, DaemonAssumption DEF DInv, TypeOK, Counted, InHand, Signal, account, ticks, meter
<1>19. ASSUME Spend PROVE Counted'
  BY <1>19, DaemonAssumption DEF DInv, TypeOK, Counted, InHand, Spend, account, ticks, meter
<1>20. ASSUME RenewToken PROVE Counted'
  BY <1>20, DaemonAssumption DEF DInv, TypeOK, Counted, InHand, RenewToken, account, ticks, meter
<1>21. ASSUME WriteFile PROVE Counted'
  BY <1>21, DaemonAssumption DEF DInv, TypeOK, Counted, InHand, WriteFile, account, ticks, meter
<1>22. ASSUME NEW p \in PRs, Push(p) PROVE Counted'
  BY <1>22, DaemonAssumption DEF DInv, TypeOK, Counted, InHand, Push, account, ticks, meter
<1>23. QED
  BY <1>1, <1>2, <1>3, <1>4, <1>5, <1>6, <1>7, <1>8, <1>9, <1>10, <1>11, <1>12, <1>13, <1>14, <1>15, <1>16, <1>17, <1>18, <1>19, <1>20, <1>21, <1>22 DEF Next, Poll, Round

\* The token in hand stays what it was read as.
LEMMA InHandKept == ASSUME DInv, Next PROVE InHand'
<1>1. ASSUME ReadFile PROVE InHand'
  BY <1>1, DaemonAssumption DEF DInv, TypeOK, InHand, ReadFile, account, ticks, meter
<1>2. ASSUME Answered PROVE InHand'
  BY <1>2, DaemonAssumption DEF DInv, TypeOK, InHand, Answered, account, ticks, meter
<1>3. ASSUME Refused PROVE InHand'
  BY <1>3, DaemonAssumption DEF DInv, TypeOK, InHand, Refused, Failed, OneMore, account, ticks, meter
<1>4. ASSUME Unauthorized PROVE InHand'
  BY <1>4, DaemonAssumption DEF DInv, TypeOK, InHand, Unauthorized, Failed, OneMore, account, ticks, meter
<1>5. ASSUME Due PROVE InHand'
  BY <1>5, DaemonAssumption DEF DInv, TypeOK, InHand, Due, OneMore, account, ticks, meter
<1>6. ASSUME BootDone PROVE InHand'
  BY <1>6, DaemonAssumption DEF DInv, TypeOK, InHand, BootDone, account, ticks, meter
<1>7. ASSUME BeginTick PROVE InHand'
  BY <1>7, DaemonAssumption DEF DInv, TypeOK, InHand, BeginTick, account, ticks, meter
<1>8. ASSUME EndTick PROVE InHand'
  BY <1>8, DaemonAssumption DEF DInv, TypeOK, InHand, EndTick, account, ticks, meter
<1>9. ASSUME Rested PROVE InHand'
  BY <1>9, DaemonAssumption DEF DInv, TypeOK, InHand, Rested, account, ticks, meter
<1>10. ASSUME Leave PROVE InHand'
  BY <1>10, DaemonAssumption DEF DInv, TypeOK, InHand, Leave, Ends, OneMore, account, ticks, meter
<1>11. ASSUME NEW p \in PRs, Start(p) PROVE InHand'
  BY <1>11, DaemonAssumption DEF DInv, TypeOK, InHand, Start, account, ticks, meter
<1>12. ASSUME NEW p \in PRs, TurnAway(p) PROVE InHand'
  BY <1>12, DaemonAssumption DEF DInv, TypeOK, InHand, TurnAway, account, ticks, meter
<1>13. ASSUME NEW p \in PRs, Review(p) PROVE InHand'
  BY <1>13, DaemonAssumption DEF DInv, TypeOK, InHand, Review, account, ticks, meter
<1>14. ASSUME NEW p \in PRs, RunFails(p) PROVE InHand'
  BY <1>14, DaemonAssumption DEF DInv, TypeOK, InHand, RunFails, account, ticks, meter
<1>15. ASSUME BadTick PROVE InHand'
  BY <1>15, DaemonAssumption DEF DInv, TypeOK, InHand, BadTick, account, ticks, meter
<1>16. ASSUME Boot PROVE InHand'
  BY <1>16, DaemonAssumption DEF DInv, TypeOK, InHand, Boot, account, ticks, meter
<1>17. ASSUME Kill PROVE InHand'
  BY <1>17, DaemonAssumption DEF DInv, TypeOK, InHand, Kill, Ends, OneMore, account, ticks, meter
<1>18. ASSUME Signal PROVE InHand'
  BY <1>18, DaemonAssumption DEF DInv, TypeOK, InHand, Signal, account, ticks, meter
<1>19. ASSUME Spend PROVE InHand'
  BY <1>19, DaemonAssumption DEF DInv, TypeOK, InHand, Spend, account, ticks, meter
<1>20. ASSUME RenewToken PROVE InHand'
  BY <1>20, DaemonAssumption DEF DInv, TypeOK, InHand, RenewToken, account, ticks, meter
<1>21. ASSUME WriteFile PROVE InHand'
  BY <1>21, DaemonAssumption DEF DInv, TypeOK, InHand, WriteFile, account, ticks, meter
<1>22. ASSUME NEW p \in PRs, Push(p) PROVE InHand'
  BY <1>22, DaemonAssumption DEF DInv, TypeOK, InHand, Push, account, ticks, meter
<1>23. QED
  BY <1>1, <1>2, <1>3, <1>4, <1>5, <1>6, <1>7, <1>8, <1>9, <1>10, <1>11, <1>12, <1>13, <1>14, <1>15, <1>16, <1>17, <1>18, <1>19, <1>20, <1>21, <1>22 DEF Next, Poll, Round

\* A stutter keeps the invariant.
LEMMA StutterKeeps == ASSUME DInv, UNCHANGED vars PROVE DInv'
  BY DEF vars, account, ticks, meter, DInv, TypeOK, Counted, InHand, AtWork

\* The states of Daemon satisfy the invariant.
THEOREM DaemonInvariant == Spec => []DInv
<1>1. Init => DInv
  BY InitDInv
<1>2. DInv /\ [Next]_vars => DInv'
  BY TypesKept, CountedKept, InHandKept, StutterKeeps DEF DInv
<1>3. QED
  BY <1>1, <1>2, PTL DEF Spec

\* Type correctness of the daemon, its ticks and its meter.
THEOREM DaemonIsTyped == Spec => []TypeOK
<1>1. DInv => TypeOK
  BY DEF DInv
<1>2. QED
  BY <1>1, DaemonInvariant, PTL

\* The gate goes blind only after as many polls were refused, found no token or
\* were never made; a token renewed under a poll is none of these.
THEOREM BlindForAReason == Spec => []BlindIsLate
<1>1. DInv => BlindIsLate
  BY DaemonAssumption DEF DInv, TypeOK, Counted, BlindIsLate
<1>2. QED
  BY <1>1, DaemonInvariant, PTL
=============================================================================
