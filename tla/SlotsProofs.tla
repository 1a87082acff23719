----------------------------- MODULE SlotsProofs -----------------------------
(***************************************************************************)
(* For any number of jobs, any capacity and any budget: the counters match *)
(* the containers, the slots implement the ledger, and the day's budget is *)
(* exceeded by no more than one reserve per charge made outside a reserve. *)
(***************************************************************************)
EXTENDS Slots, FiniteSetTheorems, TLAPS

IInv == TypeOK /\ CapacityExact /\ RepliesFirst

-----------------------------------------------------------------------------
(* Sets of containers.                                                     *)

LEMMA SlotSets ==
  /\ IsFiniteSet(InSlot) /\ IsFiniteSet(Holders) /\ IsFiniteSet(Held)
  /\ Cardinality(InSlot) \in Nat /\ Cardinality(Holders) \in Nat /\ Cardinality(Held) \in Nat
  /\ Cardinality(Held) <= Cardinality(InSlot)
<1>1. IsFiniteSet(Slotted)
  BY SlotsAssumption, FS_Union DEF Slotted
<1>2. InSlot \subseteq Slotted /\ Holders \subseteq Slotted /\ Held \subseteq InSlot
  BY DEF InSlot, Holders, Held
<1>3. IsFiniteSet(InSlot) /\ IsFiniteSet(Holders)
  BY <1>1, <1>2, FS_Subset
<1>4. QED
  BY <1>2, <1>3, FS_Subset, FS_CardinalityType

Count(b) == IF b THEN 1 ELSE 0

\* A set that changes by one element at most changes its size by that element.
LEMMA OneElement ==
  ASSUME NEW S, NEW T, NEW j, IsFiniteSet(S), S \ {j} = T \ {j}
  PROVE  /\ Cardinality(T) = Cardinality(S) + Count(j \in T) - Count(j \in S)
         /\ Cardinality(S) \in Nat /\ Cardinality(T) \in Nat
         /\ j \in S => Cardinality(S) > 0
<1>1. Cardinality(S) \in Nat
  BY FS_CardinalityType
<1>2. CASE j \in S /\ j \in T
  <2>1. S = T
    BY <1>2
  <2>2. Cardinality(S \ {j}) = Cardinality(S) - 1 /\ Cardinality(S \ {j}) \in Nat
    BY <1>2, FS_RemoveElement, FS_CardinalityType
  <2>3. QED
    BY <1>1, <1>2, <2>1, <2>2 DEF Count
<1>3. CASE j \in S /\ j \notin T
  <2>1. T = S \ {j}
    BY <1>3
  <2>2. Cardinality(S \ {j}) = Cardinality(S) - 1 /\ Cardinality(S \ {j}) \in Nat
    BY <1>3, FS_RemoveElement, FS_CardinalityType
  <2>3. QED
    BY <1>1, <1>3, <2>1, <2>2 DEF Count
<1>4. CASE j \notin S /\ j \in T
  <2>1. T = S \cup {j}
    BY <1>4
  <2>2. Cardinality(S \cup {j}) = Cardinality(S) + 1
    BY <1>4, FS_AddElement
  <2>3. QED
    BY <1>1, <1>4, <2>1, <2>2 DEF Count
<1>5. CASE j \notin S /\ j \notin T
  <2>1. S = T
    BY <1>5
  <2>2. QED
    BY <1>1, <1>5, <2>1 DEF Count
<1>6. QED
  BY <1>2, <1>3, <1>4, <1>5

Admits(l) == l \in {"telling", "running"}
Holds(l)  == l \in {"telling", "refused", "running"}

\* One job moves on, on arm `a`: who is admitted, who holds a permit and who
\* has a reserve on the account change by that job alone.
LEMMA OneMoves ==
  ASSUME TypeOK,
         NEW j \in Slotted, NEW next \in Steps, NEW a \in Arms,
         pc' = [pc EXCEPT ![j] = next],
         arm' = [arm EXCEPT ![j] = a]
  PROVE  /\ Cardinality(InSlot)' = Cardinality(InSlot) + Count(Admits(next)) - Count(Admits(pc[j]))
         /\ Cardinality(Holders)' = Cardinality(Holders) + Count(Holds(next)) - Count(Holds(pc[j]))
         /\ Cardinality(Held)' = Cardinality(Held)
              + Count(Admits(next) /\ a = "account") - Count(Admits(pc[j]) /\ arm[j] = "account")
         /\ Admits(pc[j]) => Cardinality(InSlot) > 0
         /\ Admits(pc[j]) /\ arm[j] = "account" => Cardinality(Held) > 0
<1>1. j \in Jobs
  BY DEF Jobs
<1>2. /\ pc'[j] = next /\ arm'[j] = a
      /\ \A k \in Slotted : k # j => pc'[k] = pc[k] /\ arm'[k] = arm[k]
  BY <1>1 DEF TypeOK, Jobs
<1>3. /\ InSlot' \ {j} = InSlot \ {j} /\ Holders' \ {j} = Holders \ {j} /\ Held' \ {j} = Held \ {j}
  BY <1>2 DEF InSlot, Holders, Held
<1>4. /\ (j \in InSlot) = Admits(pc[j]) /\ (j \in InSlot') = Admits(next)
      /\ (j \in Holders) = Holds(pc[j]) /\ (j \in Holders') = Holds(next)
  BY <1>2 DEF InSlot, Holders, Admits, Holds
<1>5. /\ (j \in Held) = (Admits(pc[j]) /\ arm[j] = "account")
      /\ (j \in Held') = (Admits(next) /\ a = "account")
  BY <1>2 DEF InSlot, Held, Admits
<1>6. /\ Cardinality(InSlot') = Cardinality(InSlot) + Count(j \in InSlot') - Count(j \in InSlot)
      /\ j \in InSlot => Cardinality(InSlot) > 0
  BY <1>3, SlotSets, OneElement
<1>7. Cardinality(Holders') = Cardinality(Holders) + Count(j \in Holders') - Count(j \in Holders)
  BY <1>3, SlotSets, OneElement
<1>8. /\ Cardinality(Held') = Cardinality(Held) + Count(j \in Held') - Count(j \in Held)
      /\ j \in Held => Cardinality(Held) > 0
  BY <1>3, SlotSets, OneElement
<1>9. QED
  BY <1>4, <1>5, <1>6, <1>7, <1>8

\* A job whose hold on the slots does not change leaves every set alone.
LEMMA SameSlots ==
  ASSUME \A j \in Slotted : Admits(pc'[j]) = Admits(pc[j]) /\ Holds(pc'[j]) = Holds(pc[j]),
         \A j \in Slotted : Admits(pc[j]) => arm'[j] = arm[j]
  PROVE  /\ Cardinality(InSlot)' = Cardinality(InSlot)
         /\ Cardinality(Holders)' = Cardinality(Holders)
         /\ Cardinality(Held)' = Cardinality(Held)
<1>1. InSlot' = InSlot /\ Holders' = Holders
  BY DEF InSlot, Holders, Admits, Holds
<1>2. Held' = Held
  BY <1>1 DEF Held, InSlot, Admits
<1>3. QED
  BY <1>1, <1>2

-----------------------------------------------------------------------------
(* What each kind of step does to the capacity and to the ledger.          *)

\* A slot is given out: a reserve is held when the account pays for it.
LEMMA AdmitStep ==
  ASSUME IInv, NEW j \in Slotted, Admit(j)
  PROVE  /\ TypeOK' /\ CapacityExact'
         /\ Account!Hold \/ UNCHANGED Account!vars
<1> DEFINE a == ChosenArm(j)
           next == IF Unguarded(a) THEN "telling" ELSE "running"
<1>1. j \in Jobs /\ arm[j] \in Arms
  BY DEF Jobs, IInv, TypeOK
<1>2. a \in Admitted(j) /\ a \in Arms
  BY <1>1 DEF Admit, ChosenArm, Admitted, Fallbacks, Other, Arms
<1>3. Allows(a, inflight)
  BY <1>2 DEF Admitted
<1>4. next \in Steps /\ Admits(next) /\ Holds(next)
  BY DEF Steps, Admits, Holds
<1>5. /\ pc[j] = "queued" /\ permits > 0 /\ permits' = permits - 1 /\ inflight' = inflight + 1
      /\ pc' = [pc EXCEPT ![j] = next] /\ arm' = [arm EXCEPT ![j] = a]
      /\ UNCHANGED <<phase, due, yesterday, spent, reading, leaked, outside>>
  BY DEF Admit, observed
<1> HIDE DEF a, next
<1>6. ~ Admits(pc[j]) /\ ~ Holds(pc[j])
  BY <1>5 DEF Admits, Holds
<1>7. /\ Cardinality(InSlot)' = Cardinality(InSlot) + 1
      /\ Cardinality(Holders)' = Cardinality(Holders) + 1
      /\ Cardinality(Held)' = Cardinality(Held) + Count(a = "account")
  <2>1. /\ Cardinality(InSlot)' = Cardinality(InSlot) + Count(Admits(next)) - Count(Admits(pc[j]))
        /\ Cardinality(Holders)' = Cardinality(Holders) + Count(Holds(next)) - Count(Holds(pc[j]))
        /\ Cardinality(Held)' = Cardinality(Held)
             + Count(Admits(next) /\ a = "account") - Count(Admits(pc[j]) /\ arm[j] = "account")
    BY <1>2, <1>4, <1>5, OneMoves DEF IInv
  <2>2. QED
    BY <1>4, <1>6, <2>1, SlotSets DEF Count
<1>8. TypeOK'
  BY <1>1, <1>2, <1>4, <1>5, SlotsAssumption DEF IInv, TypeOK
<1>9. CapacityExact'
  BY <1>5, <1>7, SlotSets, SlotsAssumption DEF IInv, TypeOK, CapacityExact
<1>10. CASE a = "account"
  <2>1. spent + (inflight + 1) * Reserve <= Limit
    BY <1>3, <1>10 DEF Allows, AccountAllows
  <2>2. Cardinality(Held) \in Nat /\ inflight \in Nat /\ Cardinality(Held) <= inflight
    BY SlotSets DEF IInv, CapacityExact, TypeOK
  <2>3. (Cardinality(Held) + 1) * Reserve <= (inflight + 1) * Reserve
    BY <2>2, SlotsAssumption
  <2>4. /\ (Cardinality(Held) + 1) * Reserve \in Nat
        /\ (inflight + 1) * Reserve \in Nat
    BY <2>2, SlotsAssumption
  <2>5. spent + (Cardinality(Held) + 1) * Reserve <= Limit
    BY <2>1, <2>3, <2>4, SlotsAssumption DEF IInv, TypeOK
  <2>6. Cardinality(Held)' = Cardinality(Held) + 1
    BY <1>7, <1>10 DEF Count
  <2>7. Account!Hold
    BY <1>5, <2>5, <2>6 DEF Account!Hold
  <2>8. QED
    BY <1>8, <1>9, <2>7
<1>11. CASE a # "account"
  <2>1. Cardinality(Held)' = Cardinality(Held)
    BY <1>7, <1>11, SlotSets DEF Count
  <2>2. UNCHANGED Account!vars
    BY <1>5, <2>1 DEF Account!vars
  <2>3. QED
    BY <1>8, <1>9, <2>2
<1>12. QED
  BY <1>10, <1>11

\* A slot is given back, with whatever part of the cost was written at once
\* and with the count of it kept back by a message that raised.
LEMMA LeaveStep ==
  ASSUME IInv, NEW j \in Slotted, NEW next \in {"approving", "done"}, NEW cost \in Costs,
         Admits(pc[j]), pc' = [pc EXCEPT ![j] = next], arm' = arm,
         permits' = permits + 1,
         \/ inflight' = inflight - 1 /\ leaked' = leaked
         \/ inflight' = inflight /\ leaked' = leaked + 1,
         spent' = spent + OnAccount(j, cost), UNCHANGED outside,
         TypeOK'
  PROVE  /\ CapacityExact'
         /\ (\E c \in Costs : Account!Settle(c)) \/ UNCHANGED Account!vars
<1>1. /\ next \in Steps /\ arm[j] \in Arms /\ arm' = [arm EXCEPT ![j] = arm[j]]
      /\ ~ Admits(next) /\ ~ Holds(next) /\ Holds(pc[j])
  BY DEF Steps, Admits, Holds, IInv, TypeOK, Jobs
<1>2. /\ Cardinality(InSlot)' = Cardinality(InSlot) + Count(Admits(next)) - Count(Admits(pc[j]))
      /\ Cardinality(Holders)' = Cardinality(Holders) + Count(Holds(next)) - Count(Holds(pc[j]))
      /\ Cardinality(Held)' = Cardinality(Held)
           + Count(Admits(next) /\ arm[j] = "account") - Count(Admits(pc[j]) /\ arm[j] = "account")
      /\ arm[j] = "account" => Cardinality(Held) > 0
  BY <1>1, OneMoves DEF IInv
<1>3. /\ Cardinality(InSlot)' = Cardinality(InSlot) - 1
      /\ Cardinality(Holders)' = Cardinality(Holders) - 1
      /\ Cardinality(Held)' = Cardinality(Held) - Count(arm[j] = "account")
  BY <1>1, <1>2, SlotSets DEF Count
<1>4. CapacityExact'
  BY <1>3, SlotSets, SlotsAssumption DEF IInv, TypeOK, CapacityExact
<1>5. CASE arm[j] = "account"
  <2>1. Account!Settle(cost)
    BY <1>2, <1>3, <1>5 DEF Account!Settle, OnAccount, Count
  <2>2. QED
    BY <1>4, <2>1
<1>6. CASE arm[j] # "account"
  <2>1. Cardinality(Held)' = Cardinality(Held) /\ spent' = spent
    BY <1>3, <1>6, SlotSets DEF OnAccount, IInv, TypeOK, Count
  <2>2. QED
    BY <1>4, <2>1 DEF Account!vars
<1>7. QED
  BY <1>5, <1>6

\* A step that leaves every slot as it is keeps the capacity.
LEMMA CapacityKept ==
  ASSUME IInv, TypeOK', UNCHANGED <<permits, inflight, leaked>>,
         \A j \in Slotted : Admits(pc'[j]) = Admits(pc[j]) /\ Holds(pc'[j]) = Holds(pc[j]),
         \A j \in Slotted : Admits(pc[j]) => arm'[j] = arm[j]
  PROVE  CapacityExact' /\ Cardinality(Held)' = Cardinality(Held)
BY SameSlots DEF IInv, CapacityExact

\* A refusal takes a permit and gives it back, and no count.
LEMMA RefusalStep ==
  ASSUME IInv, NEW j \in Slotted, Refuse(j) \/ TurnAway(j)
  PROVE  TypeOK' /\ CapacityExact' /\ Cardinality(Held)' = Cardinality(Held)
<1> DEFINE next == IF pc[j] = "queued" THEN "refused" ELSE "done"
<1>1. /\ next \in Steps /\ pc' = [pc EXCEPT ![j] = next]
      /\ arm[j] \in Arms /\ arm' = [arm EXCEPT ![j] = arm[j]]
      /\ ~ Admits(next) /\ ~ Admits(pc[j])
  BY DEF Refuse, TurnAway, Steps, Admits, IInv, TypeOK, Jobs
<1>2. /\ permits' \in Nat
      /\ permits' = permits + Count(Holds(pc[j])) - Count(Holds(next))
  BY DEF Refuse, TurnAway, Holds, Count, IInv, TypeOK
<1>3. UNCHANGED <<phase, due, yesterday, inflight, spent, reading, leaked, outside>>
  BY DEF Refuse, TurnAway, observed
<1> HIDE DEF next
<1>4. /\ Cardinality(InSlot)' = Cardinality(InSlot) + Count(Admits(next)) - Count(Admits(pc[j]))
      /\ Cardinality(Holders)' = Cardinality(Holders) + Count(Holds(next)) - Count(Holds(pc[j]))
      /\ Cardinality(Held)' = Cardinality(Held)
           + Count(Admits(next) /\ arm[j] = "account") - Count(Admits(pc[j]) /\ arm[j] = "account")
  BY <1>1, OneMoves DEF IInv
<1>5. Cardinality(InSlot)' = Cardinality(InSlot) /\ Cardinality(Held)' = Cardinality(Held)
  BY <1>1, <1>4, SlotSets DEF Count
<1>6. CapacityExact'
  BY <1>2, <1>3, <1>4, <1>5, SlotSets, SlotsAssumption DEF IInv, TypeOK, CapacityExact, Count
<1>7. TypeOK'
  BY <1>1, <1>2, <1>3 DEF IInv, TypeOK
<1>8. QED
  BY <1>5, <1>6, <1>7

LedgerStep == [Account!Next]_(Account!vars)

-----------------------------------------------------------------------------
(* One step of each part of the system.                                    *)

\* A job behind a slot is counted, and its cost is a number.
LEMMA AdmittedIsCounted ==
  ASSUME IInv, NEW j \in Slotted, Admits(pc[j]), NEW cost \in Costs
  PROVE  inflight - 1 \in Nat /\ OnAccount(j, cost) \in Nat /\ Today(j, cost) \in Nat
<1>1. InSlot # {}
  BY DEF InSlot, Admits
<1>2. Cardinality(InSlot) # 0 /\ Cardinality(InSlot) \in Nat
  BY <1>1, SlotSets, FS_EmptySet
<1>3. inflight - 1 \in Nat
  BY <1>2 DEF IInv, TypeOK, CapacityExact
<1>4. QED
  BY <1>3, SlotsAssumption DEF OnAccount, Today, Costs

\* What the end of a run or of an admission leaves.
LEMMA EndStep ==
  ASSUME IInv, NEW j \in Slotted, NEW next \in {"approving", "done"}, NEW cost \in Costs,
         Admits(pc[j]), pc' = [pc EXCEPT ![j] = next],
         permits' = permits + 1,
         \/ inflight' = inflight - 1 /\ leaked' = leaked
         \/ inflight' = inflight /\ leaked' = leaked + 1,
         spent' = spent + OnAccount(j, cost), due' \in [Jobs -> Costs],
         UNCHANGED <<phase, arm, yesterday, reading, outside>>
  PROVE  TypeOK' /\ CapacityExact' /\ LedgerStep
<1>1. j \in Jobs /\ next \in Steps
  BY DEF Jobs, Steps
<1>2. inflight - 1 \in Nat /\ OnAccount(j, cost) \in Nat
  BY AdmittedIsCounted
<1>3. TypeOK'
  <2>1. inflight' \in Nat /\ leaked' \in Nat
    BY <1>2 DEF IInv, TypeOK
  <2>2. permits' \in Nat /\ spent' \in Nat
    BY <1>2 DEF IInv, TypeOK
  <2>3. pc' \in [Jobs -> Steps]
    BY <1>1 DEF IInv, TypeOK
  <2>4. QED
    BY <2>1, <2>2, <2>3 DEF IInv, TypeOK
<1>4. CapacityExact' /\ ((\E c \in Costs : Account!Settle(c)) \/ UNCHANGED Account!vars)
  BY <1>3, LeaveStep
<1>5. QED
  BY <1>3, <1>4 DEF LedgerStep, Account!Next, Costs

LEMMA SlotStepPreserves ==
  ASSUME IInv, NEW j \in Slotted, SlotStep(j)
  PROVE  TypeOK' /\ CapacityExact' /\ LedgerStep
<1>1. j \in Jobs /\ 0 \in Costs /\ due \in [Jobs -> Costs] /\ spent \in Nat
  BY SlotsAssumption DEF Jobs, Costs, IInv, TypeOK
<1>2. OnAccount(j, 0) = 0
  BY DEF OnAccount
<1>3. CASE Admit(j)
  BY <1>3, AdmitStep DEF LedgerStep, Account!Next
<1>4. CASE Refuse(j) \/ TurnAway(j)
  <2>1. TypeOK' /\ CapacityExact' /\ Cardinality(Held)' = Cardinality(Held)
    BY <1>4, RefusalStep
  <2>2. UNCHANGED <<spent, outside>>
    BY <1>4 DEF Refuse, TurnAway, observed
  <2>3. QED
    BY <2>1, <2>2 DEF LedgerStep, Account!vars
<1>5. CASE EnterSlot(j)
  <2>1. TypeOK'
    BY <1>1, <1>5 DEF EnterSlot, observed, IInv, TypeOK, Steps
  <2>2. CapacityExact' /\ Cardinality(Held)' = Cardinality(Held)
    <3>1. \A k \in Slotted : Admits(pc'[k]) = Admits(pc[k]) /\ Holds(pc'[k]) = Holds(pc[k])
      BY <1>1, <1>5 DEF EnterSlot, IInv, TypeOK, Jobs, Admits, Holds
    <3>2. QED
      BY <1>5, <2>1, <3>1, CapacityKept DEF EnterSlot, observed
  <2>3. QED
    BY <1>5, <2>1, <2>2 DEF EnterSlot, observed, LedgerStep, Account!vars
<1>6. CASE TellingFails(j)
  <2>1. Admits(pc[j]) /\ due' = due /\ spent' = spent + OnAccount(j, 0)
    BY <1>1, <1>2, <1>6 DEF TellingFails, Admits
  <2>2. /\ pc' = [pc EXCEPT ![j] = "done"] /\ permits' = permits + 1
        /\ inflight' = inflight /\ leaked' = leaked + 1
        /\ UNCHANGED <<phase, arm, yesterday, reading, outside>>
    BY <1>6 DEF TellingFails
  <2>3. QED
    BY <1>1, <2>1, <2>2, EndStep
<1>7. ASSUME RunFails(j)
      PROVE  TypeOK' /\ CapacityExact' /\ LedgerStep
  <2>1. Admits(pc[j]) /\ due' = due /\ spent' = spent + OnAccount(j, 0)
    BY <1>1, <1>2, <1>7 DEF RunFails, LeaveSlot, Admits
  <2>2. /\ pc' = [pc EXCEPT ![j] = "done"] /\ permits' = permits + 1
        /\ inflight' = inflight - 1 /\ leaked' = leaked
        /\ UNCHANGED <<phase, arm, yesterday, reading, outside>>
    BY <1>7 DEF RunFails, LeaveSlot, observed
  <2>3. QED
    BY <1>1, <2>1, <2>2, EndStep
<1>8. ASSUME NEW cost \in Costs, RunEnds(j, cost)
      PROVE  TypeOK' /\ CapacityExact' /\ LedgerStep
  <2> DEFINE written == IF j \in yesterday THEN 0 ELSE cost
  <2>1. /\ Admits(pc[j]) /\ due' = due
        /\ written \in Costs /\ spent' = spent + OnAccount(j, written)
    BY <1>1, <1>2, <1>8 DEF RunEnds, LeaveSlot, Admits, Today, OnAccount
  <2>2. /\ pc' = [pc EXCEPT ![j] = "done"] /\ permits' = permits + 1
        /\ inflight' = inflight - 1 /\ leaked' = leaked
        /\ UNCHANGED <<phase, arm, yesterday, reading, outside>>
    BY <1>8 DEF RunEnds, LeaveSlot, observed
  <2> HIDE DEF written
  <2>3. QED
    BY <1>1, <2>1, <2>2, EndStep
<1>9. ASSUME NEW cost \in Costs, RunApproves(j, cost)
      PROVE  TypeOK' /\ CapacityExact' /\ LedgerStep
  <2>1. Admits(pc[j]) /\ due' \in [Jobs -> Costs] /\ spent' = spent + OnAccount(j, 0)
    BY <1>1, <1>2, <1>9 DEF RunApproves, LeaveSlot, Admits
  <2>2. /\ pc' = [pc EXCEPT ![j] = "approving"] /\ permits' = permits + 1
        /\ inflight' = inflight - 1 /\ leaked' = leaked
        /\ UNCHANGED <<phase, arm, yesterday, reading, outside>>
    BY <1>9 DEF RunApproves, LeaveSlot, observed
  <2>3. QED
    BY <1>1, <2>1, <2>2, EndStep
<1>10. CASE WriteApproval(j)
  <2>1. due[j] \in Costs /\ Today(j, due[j]) \in 0 .. Reserve
    BY <1>1, SlotsAssumption DEF IInv, TypeOK, Today, OnAccount, Costs
  <2>2. TypeOK'
    BY <1>1, <1>10, <2>1, SlotsAssumption DEF WriteApproval, IInv, TypeOK, Steps
  <2>3. CapacityExact' /\ Cardinality(Held)' = Cardinality(Held)
    <3>1. \A k \in Slotted : Admits(pc'[k]) = Admits(pc[k]) /\ Holds(pc'[k]) = Holds(pc[k])
      BY <1>1, <1>10 DEF WriteApproval, IInv, TypeOK, Jobs, Admits, Holds
    <3>2. QED
      BY <1>10, <2>2, <3>1, CapacityKept DEF WriteApproval
  <2>4. Account!ChargeOutside(Today(j, due[j]))
    BY <1>10, <2>3 DEF WriteApproval, Account!ChargeOutside
  <2>5. QED
    BY <2>1, <2>2, <2>3, <2>4 DEF LedgerStep, Account!Next
<1>11. CASE LoseApproval(j)
  <2>1. TypeOK'
    BY <1>1, <1>11 DEF LoseApproval, observed, IInv, TypeOK, Steps
  <2>2. CapacityExact' /\ Cardinality(Held)' = Cardinality(Held)
    <3>1. \A k \in Slotted : Admits(pc'[k]) = Admits(pc[k]) /\ Holds(pc'[k]) = Holds(pc[k])
      BY <1>1, <1>11 DEF LoseApproval, IInv, TypeOK, Jobs, Admits, Holds
    <3>2. QED
      BY <1>11, <2>1, <3>1, CapacityKept DEF LoseApproval, observed
  <2>3. QED
    BY <1>11, <2>1, <2>2 DEF LoseApproval, observed, LedgerStep, Account!vars
<1>12. QED
  BY <1>3, <1>4, <1>5, <1>6, <1>7, <1>8, <1>9, <1>10, <1>11 DEF SlotStep

LEMMA FixStepPreserves ==
  ASSUME IInv, NEW f \in Fixes, FixStep(f)
  PROVE  TypeOK' /\ CapacityExact' /\ LedgerStep
<1>1. f \in Jobs /\ f \notin Slotted
  BY SlotsAssumption DEF Jobs, Slotted
<1>2. CASE StartFix(f)
  <2>1. TypeOK'
    BY <1>1, <1>2, SlotsAssumption DEF StartFix, observed, IInv, TypeOK, Arms, Steps
  <2>2. CapacityExact' /\ Cardinality(Held)' = Cardinality(Held)
    <3>1. /\ \A k \in Slotted : Admits(pc'[k]) = Admits(pc[k]) /\ Holds(pc'[k]) = Holds(pc[k])
          /\ \A k \in Slotted : Admits(pc[k]) => arm'[k] = arm[k]
      BY <1>1, <1>2 DEF StartFix, IInv, TypeOK, Jobs
    <3>2. QED
      BY <1>2, <2>1, <3>1, CapacityKept DEF StartFix, observed
  <2>3. QED
    BY <1>2, <2>1, <2>2 DEF StartFix, observed, LedgerStep, Account!vars
<1>3. ASSUME NEW cost \in Costs, EndFix(f, cost)
      PROVE  TypeOK' /\ CapacityExact' /\ LedgerStep
  <2>1. PICK reported \in {0, cost} : spent' = spent + reported
    BY <1>3 DEF EndFix
  <2>2. TypeOK'
    BY <1>1, <1>3, <2>1, SlotsAssumption DEF EndFix, IInv, TypeOK, OnAccount, Costs, Steps
  <2>3. CapacityExact' /\ Cardinality(Held)' = Cardinality(Held)
    <3>1. \A k \in Slotted : Admits(pc'[k]) = Admits(pc[k]) /\ Holds(pc'[k]) = Holds(pc[k])
      BY <1>1, <1>3 DEF EndFix, IInv, TypeOK, Jobs
    <3>2. QED
      BY <1>3, <2>2, <3>1, CapacityKept DEF EndFix
  <2>4. reported \in 0 .. Reserve
    BY SlotsAssumption DEF Costs
  <2>5. Account!ChargeOutside(reported)
    BY <1>3, <2>1, <2>3 DEF EndFix, Account!ChargeOutside
  <2>6. QED
    BY <2>2, <2>3, <2>4, <2>5 DEF LedgerStep, Account!Next
<1>4. QED
  BY <1>2, <1>3 DEF FixStep

LEMMA TickPreserves ==
  ASSUME IInv, Tick
  PROVE  TypeOK' /\ CapacityExact' /\ LedgerStep
<1>1. Sweeps \subseteq Slotted /\ Reviews \subseteq Slotted /\ Slotted \subseteq Jobs
  BY DEF Slotted, Jobs
<1>2. CASE BeginTick
  <2>1. PICK S \in SUBSET Sweeps :
          /\ pc' = [j \in Jobs |-> IF j \in S THEN "queued" ELSE pc[j]]
          /\ arm' = [j \in Jobs |-> IF j \in S THEN "account" ELSE arm[j]]
    BY <1>2 DEF BeginTick
  <2>2. \A j \in Slotted : pc[j] = "idle"
    BY <1>2 DEF BeginTick, IInv, RepliesFirst
  <2>3. TypeOK'
    BY <1>2, <2>1 DEF BeginTick, observed, IInv, TypeOK, Arms, Steps
  <2>4. CapacityExact' /\ Cardinality(Held)' = Cardinality(Held)
    <3>1. \A j \in Slotted : ~ Admits(pc'[j]) /\ ~ Admits(pc[j]) /\ ~ Holds(pc'[j]) /\ ~ Holds(pc[j])
      BY <1>1, <2>1, <2>2 DEF Admits, Holds
    <3>2. \A j \in Slotted : Admits(pc'[j]) = Admits(pc[j]) /\ Holds(pc'[j]) = Holds(pc[j])
      BY <3>1 DEF Admits, Holds
    <3>3. \A j \in Slotted : Admits(pc[j]) => arm'[j] = arm[j]
      BY <3>1
    <3>4. UNCHANGED <<permits, inflight, leaked>>
      BY <1>2 DEF BeginTick, observed
    <3>5. QED
      BY <2>3, <3>2, <3>3, <3>4, CapacityKept
  <2>5. QED
    BY <1>2, <2>3, <2>4 DEF BeginTick, observed, LedgerStep, Account!vars
<1>3. CASE BeginReviews
  <2>1. PICK Q \in SUBSET Reviews, first \in [Reviews -> Arms] :
          /\ pc' = [j \in Jobs |-> IF j \in Q THEN "queued" ELSE pc[j]]
          /\ arm' = [j \in Jobs |-> IF j \in Reviews THEN first[j] ELSE arm[j]]
    BY <1>3 DEF BeginReviews
  <2>2. /\ \A j \in Reviews : pc[j] = "idle"
        /\ \A j \in Sweeps : pc[j] \in {"idle", "done"}
    BY <1>3 DEF BeginReviews, IInv, RepliesFirst, Unwritten
  <2>3. TypeOK'
    BY <1>3, <2>1 DEF BeginReviews, observed, IInv, TypeOK, Steps
  <2>4. CapacityExact' /\ Cardinality(Held)' = Cardinality(Held)
    <3>1. \A j \in Slotted : ~ Admits(pc'[j]) /\ ~ Admits(pc[j]) /\ ~ Holds(pc'[j]) /\ ~ Holds(pc[j])
      BY <1>1, <2>1, <2>2 DEF Slotted, Admits, Holds
    <3>2. \A j \in Slotted : Admits(pc'[j]) = Admits(pc[j]) /\ Holds(pc'[j]) = Holds(pc[j])
      BY <3>1 DEF Admits, Holds
    <3>3. \A j \in Slotted : Admits(pc[j]) => arm'[j] = arm[j]
      BY <3>1
    <3>4. UNCHANGED <<permits, inflight, leaked>>
      BY <1>3 DEF BeginReviews, observed
    <3>5. QED
      BY <2>3, <3>2, <3>3, <3>4, CapacityKept
  <2>5. QED
    BY <1>3, <2>3, <2>4 DEF BeginReviews, observed, LedgerStep, Account!vars
<1>4. CASE EndTick
  <2>1. TypeOK'
    BY <1>4 DEF EndTick, observed, IInv, TypeOK, Steps
  <2>2. CapacityExact' /\ Cardinality(Held)' = Cardinality(Held)
    <3>1. \A j \in Slotted : ~ Admits(pc'[j]) /\ ~ Admits(pc[j]) /\ ~ Holds(pc'[j]) /\ ~ Holds(pc[j])
      BY <1>1, <1>4 DEF EndTick, IInv, RepliesFirst, Unwritten, Slotted, Admits, Holds
    <3>2. \A j \in Slotted : Admits(pc'[j]) = Admits(pc[j]) /\ Holds(pc'[j]) = Holds(pc[j])
      BY <3>1 DEF Admits, Holds
    <3>3. \A j \in Slotted : Admits(pc[j]) => arm'[j] = arm[j]
      BY <3>1
    <3>4. UNCHANGED <<permits, inflight, leaked>>
      BY <1>4 DEF EndTick, observed
    <3>5. QED
      BY <2>1, <3>2, <3>3, <3>4, CapacityKept
  <2>3. QED
    BY <1>4, <2>1, <2>2 DEF EndTick, observed, LedgerStep, Account!vars
<1>5. QED
  BY <1>2, <1>3, <1>4 DEF Tick

LEMMA WorldPreserves ==
  ASSUME IInv, PollMeter \/ Midnight \/ Restart
  PROVE  TypeOK' /\ CapacityExact' /\ LedgerStep
<1>1. CASE PollMeter
  <2>1. TypeOK'
    BY <1>1 DEF PollMeter, jobVars, observed, IInv, TypeOK
  <2>2. CapacityExact' /\ Cardinality(Held)' = Cardinality(Held)
    BY <1>1, <2>1, CapacityKept DEF PollMeter, jobVars, observed
  <2>3. QED
    BY <1>1, <2>1, <2>2 DEF PollMeter, observed, LedgerStep, Account!vars
<1>2. CASE Midnight
  <2>1. TypeOK'
    BY <1>2 DEF Midnight, IInv, TypeOK
  <2>2. CapacityExact' /\ Cardinality(Held)' = Cardinality(Held)
    BY <1>2, <2>1, CapacityKept DEF Midnight
  <2>3. Account!NewDay
    BY <1>2, <2>2 DEF Midnight, Account!NewDay
  <2>4. QED
    BY <2>1, <2>2, <2>3 DEF LedgerStep, Account!Next
<1>3. CASE Restart
  <2>1. TypeOK'
    BY <1>3, SlotsAssumption DEF Restart, IInv, TypeOK, Costs, Steps
  <2>2. InSlot' = {} /\ Holders' = {} /\ Held' = {}
    BY <1>3 DEF Restart, InSlot, Holders, Held, Slotted, Jobs
  <2>3. Cardinality(InSlot)' = 0 /\ Cardinality(Holders)' = 0 /\ Cardinality(Held)' = 0
    BY <2>2, FS_EmptySet
  <2>4. CapacityExact'
    BY <1>3, <2>3, SlotsAssumption DEF Restart, CapacityExact
  <2>5. Account!Forget
    BY <1>3, <2>3 DEF Restart, Account!Forget
  <2>6. QED
    BY <2>1, <2>4, <2>5 DEF LedgerStep, Account!Next
<1>4. QED
  BY <1>1, <1>2, <1>3

\* The order of the tick: only the job that steps changes where it is, and it
\* was queued or running, which only its own phase allows.
LEMMA OrderPreserved ==
  ASSUME IInv, Next
  PROVE  RepliesFirst'
<1>1. ASSUME NEW j \in Slotted, SlotStep(j)
      PROVE  RepliesFirst'
  <2>1. /\ pc[j] \notin {"idle", "done"}
        /\ \E next \in Steps \ {"idle"} : pc' = [pc EXCEPT ![j] = next]
        /\ phase' = phase
    BY <1>1 DEF SlotStep, Admit, EnterSlot, TellingFails, Refuse, TurnAway, RunFails, RunEnds,
                RunApproves, LeaveSlot, WriteApproval, LoseApproval, Steps
  <2>2. Sweeps \cap Reviews = {} /\ Slotted = Sweeps \cup Reviews /\ j \in Jobs
    BY SlotsAssumption DEF Slotted, Jobs
  <2>3. \A k \in Slotted : k # j => pc'[k] = pc[k]
    BY <2>1 DEF IInv, TypeOK, Jobs
  <2>4. QED
    BY <2>1, <2>2, <2>3 DEF IInv, RepliesFirst, Unwritten
<1>2. ASSUME NEW f \in Fixes, FixStep(f)
      PROVE  RepliesFirst'
  <2>1. /\ \E next \in {"idle", "running"} : pc' = [pc EXCEPT ![f] = next]
        /\ phase' = phase
    BY <1>2 DEF FixStep, StartFix, EndFix
  <2>2. \A k \in Slotted : pc'[k] = pc[k]
    BY <2>1, SlotsAssumption DEF IInv, TypeOK, Slotted, Jobs
  <2>3. QED
    BY <2>1, <2>2 DEF IInv, RepliesFirst, Unwritten, Slotted
<1>3. CASE BeginTick
  BY <1>3, SlotsAssumption DEF BeginTick, IInv, RepliesFirst, Slotted, Jobs
<1>4. CASE BeginReviews
  BY <1>4, SlotsAssumption DEF BeginReviews, IInv, RepliesFirst, Unwritten, Slotted, Jobs
<1>5. CASE EndTick
  BY <1>5 DEF EndTick, RepliesFirst, Slotted, Jobs
<1>6. CASE PollMeter
  BY <1>6 DEF PollMeter, jobVars, observed, IInv, RepliesFirst, Unwritten
<1>7. CASE Midnight
  BY <1>7 DEF Midnight, IInv, RepliesFirst, Unwritten
<1>8. CASE Restart
  BY <1>8 DEF Restart, RepliesFirst, Slotted, Jobs
<1>9. QED
  BY <1>1, <1>2, <1>3, <1>4, <1>5, <1>6, <1>7, <1>8 DEF Next, Tick

-----------------------------------------------------------------------------
LEMMA InitHolds == Init => IInv /\ Account!Init /\ WithinBudget
<1> SUFFICES ASSUME Init PROVE IInv /\ Account!Init /\ WithinBudget
  OBVIOUS
<1>1. InSlot = {} /\ Holders = {} /\ Held = {}
  BY DEF Init, InSlot, Holders, Held, Slotted, Jobs
<1>2. Cardinality(InSlot) = 0 /\ Cardinality(Holders) = 0 /\ Cardinality(Held) = 0
  BY <1>1, FS_EmptySet
<1>3. TypeOK
  BY SlotsAssumption DEF Init, TypeOK, Arms, Costs, Steps
<1>4. CapacityExact /\ RepliesFirst
  BY <1>2, SlotsAssumption DEF Init, CapacityExact, RepliesFirst, Slotted, Jobs
<1>5. Account!Init /\ WithinBudget
  BY <1>2, SlotsAssumption DEF Init, Account!Init, WithinBudget, Account!WithinBudget
<1>6. QED
  BY <1>3, <1>4, <1>5 DEF IInv

LEMMA StepHolds == IInv /\ [Next]_vars => IInv' /\ LedgerStep
<1> SUFFICES ASSUME IInv, [Next]_vars PROVE IInv' /\ LedgerStep
  OBVIOUS
<1>1. CASE Next
  BY <1>1, SlotStepPreserves, FixStepPreserves, TickPreserves, WorldPreserves, OrderPreserved
     DEF Next, IInv
<1>2. CASE UNCHANGED vars
  <2>1. InSlot' = InSlot /\ Holders' = Holders /\ Held' = Held
    BY <1>2 DEF vars, jobVars, InSlot, Holders, Held
  <2>2. IInv'
    BY <1>2, <2>1 DEF vars, jobVars, observed, IInv, TypeOK, CapacityExact, RepliesFirst, Unwritten
  <2>3. QED
    BY <1>2, <2>1, <2>2 DEF vars, observed, LedgerStep, Account!vars
<1>3. QED
  BY <1>1, <1>2

\* A step of the ledger keeps the promise: a hold fits beside what is spent, a
\* settlement charges no more than it gives back, and any other charge is
\* counted outside.
LEMMA LedgerStepKeepsBudget ==
  ASSUME NEW h \in Nat, NEW hNext \in Nat, h = Cardinality(Held), hNext = Cardinality(Held)',
         spent \in Nat, outside \in Nat, WithinBudget, LedgerStep
  PROVE  WithinBudget'
<1>1. /\ h * Reserve <= Limit
      /\ spent + h * Reserve <= Limit + outside * Reserve
  BY DEF WithinBudget, Account!WithinBudget
<1>2. SUFFICES /\ hNext * Reserve <= Limit
               /\ spent' + hNext * Reserve <= Limit + outside' * Reserve
  BY DEF WithinBudget, Account!WithinBudget
<1>3. /\ Reserve \in Nat /\ Limit \in Nat
      /\ h * Reserve \in Nat /\ hNext * Reserve \in Nat /\ outside * Reserve \in Nat
  BY SlotsAssumption
<1>4. CASE Account!Hold
  BY <1>1, <1>3, <1>4 DEF Account!Hold
<1>5. ASSUME NEW cost \in 0 .. Reserve, Account!Settle(cost)
      PROVE  /\ hNext * Reserve <= Limit
             /\ spent' + hNext * Reserve <= Limit + outside' * Reserve
  <2>1. h = hNext + 1 /\ spent' = spent + cost /\ outside' = outside
    BY <1>5 DEF Account!Settle
  <2>2. h * Reserve = hNext * Reserve + Reserve
    BY <2>1, <1>3
  <2>3. QED
    BY <1>1, <1>3, <2>1, <2>2
<1>6. ASSUME NEW cost \in 0 .. Reserve, Account!ChargeOutside(cost)
      PROVE  /\ hNext * Reserve <= Limit
             /\ spent' + hNext * Reserve <= Limit + outside' * Reserve
  <2>1. hNext = h /\ spent' = spent + cost /\ outside' = outside + 1
    BY <1>6 DEF Account!ChargeOutside
  <2>2. outside' * Reserve = outside * Reserve + Reserve
    BY <2>1, <1>3
  <2>3. QED
    BY <1>1, <1>3, <2>1, <2>2
<1>7. CASE Account!NewDay
  <2>1. hNext = h /\ spent' = 0 /\ outside' * Reserve = 0
    BY <1>3, <1>7 DEF Account!NewDay
  <2>2. QED
    BY <1>1, <1>3, <2>1
<1>8. CASE Account!Forget
  <2>1. hNext * Reserve = 0 /\ spent' = spent /\ outside' = outside
    BY <1>3, <1>8 DEF Account!Forget
  <2>2. QED
    BY <1>1, <1>3, <2>1
<1>9. CASE UNCHANGED Account!vars
  BY <1>1, <1>9 DEF Account!vars
<1>10. QED
  BY <1>4, <1>5, <1>6, <1>7, <1>8, <1>9 DEF LedgerStep, Account!Next

\* The counters of `_slot` always agree with the containers that hold a slot,
\* so at most max_concurrent_reviews of them ever run (orchestrator._slot).
THEOREM CapacityIsExact == Spec => [](TypeOK /\ CapacityExact)
<1>1. IInv => TypeOK /\ CapacityExact
  BY DEF IInv
<1>2. QED
  BY <1>1, InitHolds, StepHolds, PTL DEF Spec

\* Type correctness of the slots.
THEOREM SlotsAreTyped == Spec => []TypeOK
<1>1. IInv => TypeOK
  BY DEF IInv
<1>2. QED
  BY <1>1, InitHolds, StepHolds, PTL DEF Spec

\* Every step of the slots is a step of the ledger, or none
\* (orchestrator._slot, budget._check_api).
THEOREM SlotsImplementLedger == Spec => AccountLedger
<1>1. Init => Account!Init
  BY InitHolds
<1>2. IInv /\ [Next]_vars => [Account!Next]_(Account!vars)
  BY StepHolds DEF LedgerStep
<1>3. IInv /\ [Next]_vars => IInv'
  BY StepHolds
<1>4. Init => IInv
  BY InitHolds
<1>5. QED
  BY <1>1, <1>2, <1>3, <1>4, PTL DEF Spec, AccountLedger, Account!Spec
\* The day's account: what is spent and what is held back never pass the limit
\* by more than one reserve per charge made outside a reserve
\* (budget._check_api).
THEOREM BudgetIsKept == Spec => []WithinBudget
<1> DEFINE Inv == IInv /\ WithinBudget
<1>1. Init => Inv
  BY InitHolds
<1>2. Inv /\ [Next]_vars => Inv'
  <2> SUFFICES ASSUME Inv, [Next]_vars PROVE Inv'
    OBVIOUS
  <2>1. IInv' /\ LedgerStep
    BY StepHolds
  <2>2. Cardinality(Held) \in Nat
    BY SlotSets
  <2>3. Cardinality(Held)' \in Nat
    <3>1. IsFiniteSet(Held')
      <4>1. IsFiniteSet(Slotted) /\ Held' \subseteq Slotted
        BY SlotsAssumption, FS_Union DEF Slotted, Held, InSlot
      <4>2. QED
        BY <4>1, FS_Subset
    <3>2. QED
      BY <3>1, FS_CardinalityType
  <2>4. WithinBudget'
    BY <2>1, <2>2, <2>3, LedgerStepKeepsBudget DEF IInv, TypeOK
  <2>5. QED
    BY <2>1, <2>4
<1>3. Inv => WithinBudget
  OBVIOUS
<1>4. QED
  BY <1>1, <1>2, <1>3, PTL DEF Spec

\* No review is admitted while replies are still being answered, and nothing
\* that holds a slot outlives its tick (poll_once's two task groups).
THEOREM RepliesComeFirst == Spec => []RepliesFirst
<1>1. IInv => RepliesFirst
  BY DEF IInv
<1>2. QED
  BY <1>1, InitHolds, StepHolds, PTL DEF Spec
=============================================================================
