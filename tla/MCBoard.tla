------------------------------ MODULE MCBoard ------------------------------
(* Board with a bounded number of disturbances: what people do besides      *)
(* pushing and taking a brake off, builds that run again, and stops of the  *)
(* daemon.                                                                  *)
EXTENDS Board

CONSTANT MaxDisturbances

VARIABLE disturbances

MCInit == Init /\ disturbances = 0

Builds == \E b \in {"running", "green", "red"} : Build(b)
Reruns == build[head] \in {"green", "red"} /\ Builds
Lifted == "brake" \in flags /\ Flip("brake")
Course == Tick \/ Push \/ (Builds /\ ~ Reruns) \/ Lifted \/ \E s \in Shas : Ages(s)
Disturbance == Reruns \/ Close \/ (\E f \in Flags : Flip(f)) \/ (Stop /\ UNCHANGED clean)

MCNext ==
  \/ Course /\ UNCHANGED disturbances
  \/ disturbances < MaxDisturbances /\ Disturbance /\ disturbances' = disturbances + 1

MCSpec == MCInit /\ [][MCNext]_<<vars, disturbances>> /\ Fairness
=============================================================================
