------------------------------- MODULE Passes -------------------------------
(***************************************************************************)
(* What the reviewer promises about the commits of a pull request, with no *)
(* processes, rows or notices in sight: a commit is judged at most once    *)
(* and stays judged, and the PR hears of it at most once, only after it    *)
(* was judged, and in the terms of the verdict it got.                     *)
(***************************************************************************)
CONSTANT Commits

VARIABLES
  judgement,  \* per commit: "no", "held", "ok" or "findings"
  said        \* per commit: "nothing", "approval" or "changes"

vars == <<judgement, said>>

TypeOK ==
  /\ judgement \in [Commits -> {"no", "held", "ok", "findings"}]
  /\ said \in [Commits -> {"nothing", "approval", "changes"}]

Init ==
  /\ judgement = [c \in Commits |-> "no"]
  /\ said = [c \in Commits |-> "nothing"]

\* A pass ends: held for good, approved, or with findings.
Judge(c) ==
  /\ judgement[c] = "no"
  /\ \E j \in {"held", "ok", "findings"} : judgement' = [judgement EXCEPT ![c] = j]
  /\ UNCHANGED said

Say(c, j, word) ==
  /\ judgement[c] = j /\ said[c] = "nothing"
  /\ said' = [said EXCEPT ![c] = word]
  /\ UNCHANGED judgement

Next == \E c \in Commits : Judge(c) \/ Say(c, "ok", "approval") \/ Say(c, "findings", "changes")

Spec == Init /\ [][Next]_vars
=============================================================================
