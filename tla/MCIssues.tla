------------------------------ MODULE MCIssues ------------------------------
(* Issues with a bounded number of hitches, so that what must happen once   *)
(* they stop can be checked, and a bounded number of requeues.              *)
EXTENDS Issues, Naturals

CONSTANTS MaxHitches, MaxRequeues

VARIABLES hitches, requeues

MCInit == Init /\ hitches = 0 /\ requeues = 0

MCNext ==
  \/ /\ Pass \/ Boot \/ Tool \/ Containers \/ CloseIssue \/ LinkPr \/ AbandonPr
     /\ UNCHANGED <<hitches, requeues>>
  \/ hitches < MaxHitches /\ Hitch /\ hitches' = hitches + 1 /\ UNCHANGED requeues
  \/ requeues < MaxRequeues /\ Requeue /\ requeues' = requeues + 1 /\ UNCHANGED hitches

MCSpec == MCInit /\ [][MCNext]_<<vars, hitches, requeues>>
MCFairSpec == MCSpec /\ Fairness
=============================================================================
