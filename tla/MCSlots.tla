------------------------------- MODULE MCSlots -------------------------------
(* Slots on small sets, with the observations cut off at a bound.           *)
EXTENDS Slots

CONSTANTS
  MaxOutside,  \* bound of the observation outside
  MaxLeaked    \* bound of the observation leaked

MCNext == Next /\ outside' <= MaxOutside /\ leaked' <= MaxLeaked
MCSpec == Init /\ [][MCNext]_vars
MCFairSpec == MCSpec /\ Fairness
=============================================================================
