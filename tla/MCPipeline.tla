----------------------------- MODULE MCPipeline -----------------------------
(* Pipeline with the comments that a lost answer repeats cut off at a bound. *)
EXTENDS Pipeline

CONSTANT MaxRepeats   \* how often a CI note or the CI phrase lands on one commit

Bounded == \A c \in Shas, kind \in {"ci-red", "run-ci"} : posts'[<<kind, c>>] <= MaxRepeats

MCSpec == Init /\ [][Next /\ Bounded]_vars
MCFairSpec == MCSpec /\ Fairness
=============================================================================
