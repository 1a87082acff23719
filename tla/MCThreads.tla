----------------------------- MODULE MCThreads -----------------------------
(* Threads with a bounded number of hitches, and of what people do besides  *)
(* writing and moving the code.                                             *)
EXTENDS Threads

CONSTANTS MaxHitches, MaxTurns

VARIABLES hitches, turns

MCInit == Init /\ hitches = 0 /\ turns = 0

Words == \E t \in Threads : Write(t) \/ MoveCode(t)
Turn  == Close \/ Retire \/ \E t \in Threads : Toggle(t)

MCNext ==
  \/ (Tick \/ Boot \/ Words) /\ UNCHANGED <<hitches, turns>>
  \/ hitches < MaxHitches /\ Hitch /\ hitches' = hitches + 1 /\ UNCHANGED turns
  \/ turns < MaxTurns /\ Turn /\ turns' = turns + 1 /\ UNCHANGED hitches

MCSpec == MCInit /\ [][MCNext]_<<vars, hitches, turns>> /\ Fairness
=============================================================================
