----------------------------- MODULE MCTrouble -----------------------------
(* Pipeline with little trouble, for instances in which any amount would be *)
(* too many states: faults, runs of `robbie once`, requests withdrawn, and   *)
(* labels moved and CI phrases posted by people are counted together.        *)
EXTENDS MCPipeline

CONSTANT MaxTrouble   \* how many of these a behaviour may have

VARIABLE trouble

Forcing  == \E p \in Forced : Once(p)
Meddling == (Withdraw \/ Relabel \/ Phrase) /\ UNCHANGED <<db, local, warned>>

TroubleNext ==
  /\ \/ Calm /\ ~ Forcing /\ ~ Meddling /\ UNCHANGED trouble
     \/ /\ Forcing \/ Meddling \/ \E p \in Procs : Fault(p)
        /\ trouble < MaxTrouble
        /\ trouble' = trouble + 1
  /\ Bounded
TroubleInit == Init /\ trouble = 0
TroubleSpec == TroubleInit /\ [][TroubleNext]_<<vars, trouble>>

\* Trouble that is counted ends: what is left of Fairness is the loop.
TroubleFairSpec == TroubleSpec /\ WF_vars(DaemonTick \/ Advance(Daemon))
=============================================================================
