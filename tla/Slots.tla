-------------------------------- MODULE Slots --------------------------------
(***************************************************************************)
(* Capacity to run a container: `Orchestrator._slot`, the spend gate it    *)
(* asks (`budget.check`), the ticks that queue work for it, and the two    *)
(* kinds of container that do not go through it (fixes and money           *)
(* questions, `fixer._fix_one` and `issues._ask_about_money`).             *)
(*                                                                         *)
(* The daemon is one asyncio event loop, so what happens between two       *)
(* suspension points is one action here.  `_admit` reads SQLite and never  *)
(* suspends: taking a permit, asking the gate and raising `_inflight` is   *)
(* the single step Admit.  Two things do suspend.  `_tell_owner` writes a  *)
(* notice and a message with the permit taken, before the `try` that gives *)
(* `_inflight` back: the states "telling" and "refused".  And an approval  *)
(* awaits GitHub between leaving its slot and writing its cost             *)
(* (`_deliver`): the state "approving".                                    *)
(***************************************************************************)
EXTENDS Integers, FiniteSets

CONSTANTS
  Reviews,         \* PRs of the queue, one review each per tick
  Sweeps,          \* PRs whose replies the tick answers first
  Fixes,           \* containers of the issue queue
  MaxConcurrent,   \* max_concurrent_reviews
  Limit,           \* budget.daily_usd
  Reserve,         \* budget.reserve_usd
  EndpointStop,    \* budget.endpoint_stop_pct
  EndpointReserve, \* budget.endpoint_reserve_pct
  Readings,        \* percentages the endpoint's meter may show
  Unreadable,      \* a stored reading too old, or none: the gate runs unguarded
  FixArm           \* which account fix and money containers are billed to

ASSUME SlotsAssumption ==
  /\ IsFiniteSet(Reviews) /\ IsFiniteSet(Sweeps) /\ IsFiniteSet(Fixes)
  /\ Reviews \cap Sweeps = {} /\ Reviews \cap Fixes = {} /\ Sweeps \cap Fixes = {}
  /\ MaxConcurrent \in Nat \ {0}
  /\ Limit \in Nat /\ Reserve \in Nat
  /\ EndpointStop \in Nat /\ EndpointReserve \in Nat
  /\ Readings \subseteq Nat /\ Unreadable \notin Nat
  /\ FixArm \in {"account", "endpoint"}

Slotted == Reviews \cup Sweeps      \* what takes a slot
Jobs    == Slotted \cup Fixes
Arms    == {"account", "endpoint"}

\* A run may cost anything up to the reserve: the reserve is calibrated to
\* cover a run (README, "Spend"), and WithinBudget is about what remains
\* possible when it does.
Costs == 0 .. Reserve

VARIABLES
  phase,     \* where the tick is: "idle", "sweep", "review"
  pc,        \* per job: where it is, one of Steps
  arm,       \* per job: the arm that runs it
  due,       \* per job: the cost an approval has not written down yet
  yesterday, \* reviews whose row was created before the last midnight
  permits,   \* free permits of Orchestrator._sem
  inflight,  \* Orchestrator._inflight
  spent,     \* db.spend_since(midnight) over the account's own runs
  reading,   \* the endpoint's stored meter
  \* observed, and read by nothing
  leaked,    \* admissions that never gave their count back
  outside    \* account charges written with no reserve behind them

jobVars == <<pc, arm, due, yesterday>>
observed == <<leaked, outside>>
vars == <<phase, jobVars, permits, inflight, spent, reading, observed>>

Steps == {"idle", "queued", "telling", "refused", "running", "approving", "done"}

InSlot  == {j \in Slotted : pc[j] \in {"telling", "running"}}              \* admitted
Holders == {j \in Slotted : pc[j] \in {"telling", "refused", "running"}}   \* of a permit
Held    == {j \in InSlot : arm[j] = "account"}
Unwritten(j) == pc[j] \notin {"idle", "done"}

TypeOK ==
  /\ phase \in {"idle", "sweep", "review"}
  /\ pc \in [Jobs -> Steps]
  /\ arm \in [Jobs -> Arms]
  /\ due \in [Jobs -> Costs]
  /\ yesterday \subseteq Reviews
  /\ permits \in Nat
  /\ inflight \in Nat
  /\ spent \in Nat
  /\ reading \in Readings \cup {Unreadable}
  /\ leaked \in Nat /\ outside \in Nat

Init ==
  /\ phase = "idle"
  /\ pc = [j \in Jobs |-> "idle"]
  /\ arm = [j \in Jobs |-> "account"]
  /\ due = [j \in Jobs |-> 0]
  /\ yesterday = {}
  /\ permits = MaxConcurrent
  /\ inflight = 0
  /\ spent = 0
  /\ reading = Unreadable
  /\ leaked = 0 /\ outside = 0

-----------------------------------------------------------------------------
(* The gate: what is spent, plus a reserve per run in flight and one for   *)
(* the run that asks.                                                      *)

\* Mutant: the run that asks is not counted.
AccountAllowsOneMore(running) == spent + running * Reserve <= Limit

AccountAllows(running) == spent + (running + 1) * Reserve <= Limit

EndpointAllows(running) ==
  \/ reading = Unreadable
  \/ /\ reading # Unreadable
     /\ reading + (running + 1) * EndpointReserve <= EndpointStop

Allows(a, running) ==
  IF a = "account" THEN AccountAllows(running) ELSE EndpointAllows(running)

Other(a) == IF a = "account" THEN "endpoint" ELSE "account"

\* The arm the key hashes to, or the other one when the first has no room; a
\* sweep has no key and goes on the account.
Fallbacks(j) == IF j \in Reviews THEN {arm[j], Other(arm[j])} ELSE {arm[j]}

\* Mutant: the gate does not hear of the runs in flight.
AdmittedAsIfAlone(j) == {a \in Fallbacks(j) : Allows(a, 0)}

Admitted(j) == {a \in Fallbacks(j) : Allows(a, inflight)}

ChosenArm(j) == IF arm[j] \in Admitted(j) THEN arm[j] ELSE Other(arm[j])

-----------------------------------------------------------------------------
(* The tick: replies first, then reviews; it ends when all of them have.   *)

BeginTick ==
  /\ phase = "idle"
  /\ phase' = "sweep"
  /\ \E S \in SUBSET Sweeps :
       /\ S # {} => AccountAllows(inflight)
       /\ pc' = [j \in Jobs |-> IF j \in S THEN "queued" ELSE pc[j]]
       /\ arm' = [j \in Jobs |-> IF j \in S THEN "account" ELSE arm[j]]
  /\ UNCHANGED <<due, yesterday, permits, inflight, spent, reading, observed>>

\* Mutant: reviews begin beside the reply sweep.
BeginReviewsAtOnce ==
  /\ phase = "sweep"
  /\ phase' = "review"
  /\ \E Q \in SUBSET Reviews : \E first \in [Reviews -> Arms] :
       /\ pc' = [j \in Jobs |-> IF j \in Q THEN "queued" ELSE pc[j]]
       /\ arm' = [j \in Jobs |-> IF j \in Reviews THEN first[j] ELSE arm[j]]
  /\ UNCHANGED <<due, yesterday, permits, inflight, spent, reading, observed>>

BeginReviews ==
  /\ phase = "sweep"
  /\ \A j \in Sweeps : ~ Unwritten(j)
  /\ phase' = "review"
  /\ \E Q \in SUBSET Reviews : \E first \in [Reviews -> Arms] :
       /\ pc' = [j \in Jobs |-> IF j \in Q THEN "queued" ELSE pc[j]]
       /\ arm' = [j \in Jobs |-> IF j \in Reviews THEN first[j] ELSE arm[j]]
  /\ UNCHANGED <<due, yesterday, permits, inflight, spent, reading, observed>>

EndTick ==
  /\ phase = "review"
  /\ \A j \in Reviews : ~ Unwritten(j)
  /\ phase' = "idle"
  /\ pc' = [j \in Jobs |-> IF j \in Slotted THEN "idle" ELSE pc[j]]
  /\ yesterday' = {}
  /\ UNCHANGED <<arm, due, permits, inflight, spent, reading, observed>>

-----------------------------------------------------------------------------
(* One container behind a slot.                                            *)

\* Nothing measures the run, which the operator is told while it waits: the
\* daily sum is always readable, the endpoint's meter is not.
Unguarded(a) == a = "endpoint" /\ reading = Unreadable

Admit(j) ==
  /\ pc[j] = "queued"
  /\ permits > 0
  /\ Admitted(j) # {}
  /\ permits' = permits - 1
  /\ inflight' = inflight + 1
  /\ arm' = [arm EXCEPT ![j] = ChosenArm(j)]
  /\ pc' = [pc EXCEPT ![j] = IF Unguarded(ChosenArm(j)) THEN "telling" ELSE "running"]
  /\ UNCHANGED <<phase, due, yesterday, spent, reading, observed>>

EnterSlot(j) ==
  /\ pc[j] = "telling"
  /\ pc' = [pc EXCEPT ![j] = "running"]
  /\ UNCHANGED <<phase, arm, due, yesterday, permits, inflight, spent, reading, observed>>

\* The notice could not be written: the exception passes the semaphore, which
\* takes its permit back, but not yet the `try` that lowers `_inflight`.
TellingFails(j) ==
  /\ pc[j] = "telling"
  /\ pc' = [pc EXCEPT ![j] = "done"]
  /\ permits' = permits + 1
  /\ leaked' = leaked + 1
  /\ UNCHANGED <<phase, arm, due, yesterday, inflight, spent, reading, outside>>

\* Mutant: who finds the gate closed waits for it to open.
RefuseWaits(j) ==
  /\ pc[j] = "queued"
  /\ permits > 0
  /\ Admitted(j) = {}
  /\ UNCHANGED vars

\* The gate closed while the job waited: it says so with the permit in hand.
Refuse(j) ==
  /\ pc[j] = "queued"
  /\ permits > 0
  /\ Admitted(j) = {}
  /\ permits' = permits - 1
  /\ pc' = [pc EXCEPT ![j] = "refused"]
  /\ UNCHANGED <<phase, arm, due, yesterday, inflight, spent, reading, observed>>

\* Told or not, the permit goes back and nothing is recorded, so the next tick
\* asks again.
TurnAway(j) ==
  /\ pc[j] = "refused"
  /\ pc' = [pc EXCEPT ![j] = "done"]
  /\ permits' = permits + 1
  /\ UNCHANGED <<phase, arm, due, yesterday, inflight, spent, reading, observed>>

\* Mutant: the permit goes back and the counter does not.
LeaveSlotUncounted(j) ==
  /\ pc[j] = "running"
  /\ permits' = permits + 1
  /\ UNCHANGED inflight

LeaveSlot(j) ==
  /\ pc[j] = "running"
  /\ permits' = permits + 1
  /\ inflight' = inflight - 1

\* What an account run costs; an endpoint run is not on the account's bill.
OnAccount(j, cost) == IF arm[j] = "account" THEN cost ELSE 0

\* A review's cost belongs to the day its row was created, a sweep's to the
\* day it is written.
Today(j, cost) == IF j \in yesterday THEN 0 ELSE OnAccount(j, cost)

\* Timed out, exited non-zero or unparsable: the run carries no cost.
RunFails(j) ==
  /\ LeaveSlot(j)
  /\ pc' = [pc EXCEPT ![j] = "done"]
  /\ UNCHANGED <<phase, arm, due, yesterday, spent, reading, observed>>

\* A sweep, or a review that asks for changes, comments or is held: its cost
\* is written before anything is awaited.
RunEnds(j, cost) ==
  /\ LeaveSlot(j)
  /\ pc' = [pc EXCEPT ![j] = "done"]
  /\ spent' = spent + Today(j, cost)
  /\ UNCHANGED <<phase, arm, due, yesterday, reading, observed>>

\* An approval clears the label, retracts its rejection and asks for CI first.
RunApproves(j, cost) ==
  /\ j \in Reviews
  /\ LeaveSlot(j)
  /\ pc' = [pc EXCEPT ![j] = "approving"]
  /\ due' = [due EXCEPT ![j] = cost]
  /\ UNCHANGED <<phase, arm, yesterday, spent, reading, observed>>

\* Mutant: an approval leaves its slot a second time.
WriteApprovalLeaves(j) ==
  /\ pc[j] = "approving"
  /\ pc' = [pc EXCEPT ![j] = "done"]
  /\ due' = [due EXCEPT ![j] = 0]
  /\ spent' = spent + Today(j, due[j])
  /\ outside' = outside + 1
  /\ permits' = permits + 1 /\ inflight' = inflight - 1
  /\ UNCHANGED <<phase, arm, yesterday, reading, leaked>>

WriteApproval(j) ==
  /\ pc[j] = "approving"
  /\ pc' = [pc EXCEPT ![j] = "done"]
  /\ due' = [due EXCEPT ![j] = 0]
  /\ spent' = spent + Today(j, due[j])
  /\ outside' = outside + 1
  /\ UNCHANGED <<phase, arm, yesterday, permits, inflight, reading, leaked>>

\* GitHub refused one of those calls: `_handle` makes it a skip, and the cost
\* is never written.
LoseApproval(j) ==
  /\ pc[j] = "approving"
  /\ pc' = [pc EXCEPT ![j] = "done"]
  /\ due' = [due EXCEPT ![j] = 0]
  /\ UNCHANGED <<phase, arm, yesterday, permits, inflight, spent, reading, observed>>

-----------------------------------------------------------------------------
(* One container of the issue queue: gated as if one review were running,  *)
(* whatever is running, and counted by nobody while it does.               *)

StartFix(f) ==
  /\ pc[f] = "idle"
  /\ \A g \in Fixes : pc[g] = "idle"
  /\ Allows(FixArm, 1)
  /\ pc' = [pc EXCEPT ![f] = "running"]
  /\ arm' = [arm EXCEPT ![f] = FixArm]
  /\ UNCHANGED <<phase, due, yesterday, permits, inflight, spent, reading, observed>>

\* `record_spend` takes whatever cost the run reports, on either arm; a run
\* that failed reports none.
EndFix(f, cost) ==
  /\ pc[f] = "running"
  /\ pc' = [pc EXCEPT ![f] = "idle"]
  /\ \E reported \in {0, cost} : spent' = spent + reported
  /\ outside' = outside + 1
  /\ UNCHANGED <<phase, arm, due, yesterday, permits, inflight, reading, leaked>>

-----------------------------------------------------------------------------
(* The world around them.                                                  *)

PollMeter ==
  /\ reading' \in Readings \cup {Unreadable}
  /\ UNCHANGED <<phase, jobVars, permits, inflight, spent, observed>>

Midnight ==
  /\ spent' = 0 /\ outside' = 0
  /\ yesterday' = {j \in Reviews : pc[j] \in {"running", "approving"}}
  /\ UNCHANGED <<phase, pc, arm, due, permits, inflight, reading, leaked>>

\* The process dies and a new one starts with full capacity.
Restart ==
  /\ phase' = "idle"
  /\ pc' = [j \in Jobs |-> "idle"]
  /\ due' = [j \in Jobs |-> 0]
  /\ yesterday' = {}
  /\ permits' = MaxConcurrent
  /\ inflight' = 0 /\ leaked' = 0
  /\ UNCHANGED <<arm, spent, reading, outside>>

SlotStep(j) ==
  \/ Admit(j) \/ EnterSlot(j) \/ TellingFails(j)
  \/ Refuse(j) \/ TurnAway(j)
  \/ RunFails(j)
  \/ \E cost \in Costs : RunEnds(j, cost) \/ RunApproves(j, cost)
  \/ WriteApproval(j)
  \/ LoseApproval(j)

FixStep(f) == StartFix(f) \/ \E cost \in Costs : EndFix(f, cost)

Tick == BeginTick \/ BeginReviews \/ EndTick

Next ==
  \/ Tick
  \/ \E j \in Slotted : SlotStep(j)
  \/ \E f \in Fixes : FixStep(f)
  \/ PollMeter
  \/ Midnight
  \/ Restart

Spec == Init /\ [][Next]_vars

\* The event loop runs whatever is ready, a container ends by its timeout, and
\* every await of GitHub by its own; the loop comes round for the next tick.
Fairness == WF_vars(Tick) /\ \A j \in Slotted : WF_vars(SlotStep(j))

FairSpec == Spec /\ Fairness

-----------------------------------------------------------------------------
\* Every permit is free or in the hands of a job that has not ended, and the
\* count of runs in flight is those admitted plus what was leaked: neither a
\* refusal nor a failed run costs capacity, and the one way to lose a count is
\* the message of an admission whose notice failed (orchestrator._slot's
\* finally, and what it awaits before its try).
CapacityExact ==
  /\ permits + Cardinality(Holders) = MaxConcurrent
  /\ inflight = Cardinality(InSlot) + leaked

\* Replies are answered before anything is reviewed, and between ticks nothing
\* runs: no review's gate reads threads this tick is about to close
\* (poll_once).
RepliesFirst ==
  /\ phase = "idle" => \A j \in Slotted : pc[j] = "idle"
  /\ phase = "sweep" => \A j \in Reviews : pc[j] = "idle"
  /\ phase = "review" => \A j \in Sweeps : ~ Unwritten(j)

\* The ledger the account is promised, refined by the slots.
Account == INSTANCE Ledger WITH held <- Cardinality(Held)
WithinBudget == Account!WithinBudget
AccountLedger == Account!Spec

\* A tick that began ends, though more jobs wait than there are permits and
\* those who hold one are refused, fail or leak (poll_once's TaskGroup waits
\* for every job).
TickEnds == (phase = "sweep") ~> (phase = "idle")
=============================================================================
