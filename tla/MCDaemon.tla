------------------------------ MODULE MCDaemon ------------------------------
(* Daemon with a bounded number of pushes and of starts of the process.     *)
EXTENDS Daemon

CONSTANTS MaxPushes, MaxBoots

VARIABLES pushes, boots

MCInit == Init /\ pushes = 0 /\ boots = 0

Calm == Poll \/ Due \/ Round \/ BadTick \/ Kill \/ Signal \/ Spend \/ RenewToken \/ WriteFile
Pushes == \E p \in PRs : Push(p)

MCNext ==
  \/ Calm /\ UNCHANGED <<pushes, boots>>
  \/ pushes < MaxPushes /\ Pushes /\ pushes' = pushes + 1 /\ UNCHANGED boots
  \/ boots < MaxBoots /\ Boot /\ boots' = boots + 1 /\ UNCHANGED pushes

MCSpec == MCInit /\ [][MCNext]_<<vars, pushes, boots>> /\ Fairness
=============================================================================
