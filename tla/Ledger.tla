------------------------------- MODULE Ledger -------------------------------
(***************************************************************************)
(* What the spend gate promises about the account's money, with no         *)
(* containers, semaphores or models in sight: money is set aside before it *)
(* is spent, and a run settles by giving its reserve back for a charge no  *)
(* larger.  Charges nobody set money aside for are counted in `outside`,   *)
(* which is all that the promise leaves open.                              *)
(***************************************************************************)
EXTENDS Naturals

CONSTANTS
  Limit,     \* budget.daily_usd
  Reserve    \* budget.reserve_usd, held back per run in flight

VARIABLES
  spent,     \* what today's rows say the account was billed
  held,      \* reserves set aside now
  outside    \* charges of today that were settled with no reserve behind them

vars == <<spent, held, outside>>

TypeOK == spent \in Nat /\ held \in Nat /\ outside \in Nat

Init == spent = 0 /\ held = 0 /\ outside = 0

Hold ==
  /\ spent + (held + 1) * Reserve <= Limit
  /\ held' = held + 1
  /\ UNCHANGED <<spent, outside>>

Settle(cost) ==
  /\ held > 0
  /\ held' = held - 1
  /\ spent' = spent + cost
  /\ UNCHANGED outside

ChargeOutside(cost) ==
  /\ spent' = spent + cost
  /\ outside' = outside + 1
  /\ UNCHANGED held

NewDay == spent' = 0 /\ outside' = 0 /\ UNCHANGED held

\* The process died: its reserves die with it, what it recorded does not.
Forget == held' = 0 /\ UNCHANGED <<spent, outside>>

Next ==
  \/ Hold
  \/ \E cost \in 0 .. Reserve : Settle(cost) \/ ChargeOutside(cost)
  \/ NewDay
  \/ Forget

Spec == Init /\ [][Next]_vars

\* What is spent and what is promised stay inside the day's budget, but for
\* one reserve per charge that was made with none behind it
\* (budget._check_api, orchestrator._slot).
WithinBudget ==
  /\ held * Reserve <= Limit
  /\ spent + held * Reserve <= Limit + outside * Reserve
=============================================================================
