---------------------------- MODULE IssuesProofs ----------------------------
(***************************************************************************)
(* Proofs about Issues, for every queue label and every fixable label: a   *)
(* report leaves its queues accounted for, is told of a pull request only  *)
(* when there is one, and gets one only when it was cleared for one.       *)
(***************************************************************************)
EXTENDS Issues, TLAPS

\* Somebody put the report back in triage while the fixer settles it: it stays
\* in that queue whatever the fixer does.
Requeued == lane = "fix" /\ Queue \in labels
Recorded == job \in said \/ Requeued

\* Which job a step of settle_issue writes, and what it wrote before.
Written ==
  /\ job # "" => pc \in {"say", "assignee", "label", "clear"}
  /\ pc \in {"say", "assignee", "label", "clear"} => job # ""
  /\ pc = "assignee" => HandsOver /\ Recorded
  /\ pc = "label" => job = "attempt"
  /\ pc = "clear" /\ HandsOver /\ staffed => assigned \/ Requeued
  /\ pc = "clear" /\ job = "attempt" => Fixable \in labels
  /\ pc = "clear" /\ job # "attempt" => Recorded
  /\ job = "attempt" => lane = "triage"
  /\ pc \in {"money", "asking"} => lane = "triage"
  /\ pc = "gate" => lane = "fix"
  /\ lane = "triage" => pc \in {"down", "queue"} \/ Queue \in labels

\* What may lead to a pull request: the form, or a check that answered.
Allowed == form = "attempt" \/ (form = "ask" /\ cleared)

\* Everything on the way to a pull request needs it.
OnTheWay ==
  \/ Fixable \in labels \/ job = "attempt" \/ "fix" \in boxes \/ pr # "none"
  \/ lane = "fix" /\ pc \in {"meta", "own", "links", "gate", "fixing"}
  \/ \E c \in Calls : call[c] # "idle"

\* The form is only asked about when it left the question open.
Asked == pc \in {"money", "asking"} => form = "ask"

IInv ==
  /\ TypeOK /\ Written /\ NeverDropped
  /\ OpenedIsTrue /\ (job = "opened" => pr # "none")
  /\ (OnTheWay => Allowed) /\ Asked

\* The initial states satisfy the invariant.
LEMMA InitIInv == Init => IInv
  BY IssuesAssumption DEF Init, IInv, TypeOK, GithubTypeOK, DaemonTypeOK, BoxTypeOK, Written, Recorded, Requeued, NeverDropped, OpenedIsTrue,
     OnTheWay, Allowed, Asked, HandsOver, Jobs, Lanes, Steps, Calls

LEMMA ReadQueueKeeps == ASSUME IInv, ReadQueue PROVE IInv'
<1>1. TypeOK'
  <2>1. GithubTypeOK'
    BY DEF IInv, TypeOK, GithubTypeOK, DaemonTypeOK, BoxTypeOK, Jobs, Lanes, Steps, Calls, ReadQueue, Clears, Goto, Leave, github, given, daemon
  <2>2. DaemonTypeOK'
    BY DEF IInv, TypeOK, GithubTypeOK, DaemonTypeOK, BoxTypeOK, Jobs, Lanes, Steps, Calls, ReadQueue, Clears, Goto, Leave, github, given, daemon
  <2>3. BoxTypeOK'
    BY DEF IInv, TypeOK, GithubTypeOK, DaemonTypeOK, BoxTypeOK, Jobs, Lanes, Steps, Calls, ReadQueue, Clears, Goto, Leave, github, given, daemon
  <2>4. form' \in {"attempt", "ask", "assign"} /\ staffed' \in BOOLEAN /\ cleared' \in BOOLEAN
    BY DEF IInv, TypeOK, GithubTypeOK, DaemonTypeOK, BoxTypeOK, Jobs, Lanes, Steps, Calls, ReadQueue, Clears, Goto, Leave, github, given, daemon
  <2>5. QED
    BY <2>1, <2>2, <2>3, <2>4 DEF TypeOK
<1>2. Written'
  BY DEF IInv, TypeOK, GithubTypeOK, DaemonTypeOK, BoxTypeOK, Jobs, Lanes, Steps, Calls, Written, Recorded, Requeued, HandsOver, ReadQueue, Clears, Goto, Leave, github, given, daemon
<1>3. NeverDropped'
  BY IssuesAssumption DEF IInv, TypeOK, GithubTypeOK, DaemonTypeOK, BoxTypeOK, Jobs, Lanes, Steps, Calls, NeverDropped, Written, Recorded, Requeued, HandsOver, ReadQueue, Clears, Goto, Leave, github, given, daemon
<1>4. OpenedIsTrue' /\ (job' = "opened" => pr' # "none")
  BY DEF IInv, TypeOK, GithubTypeOK, DaemonTypeOK, BoxTypeOK, Jobs, Lanes, Steps, Calls, OpenedIsTrue, ReadQueue, Clears, Goto, Leave, github, given, daemon
<1>5. Asked'
  BY DEF IInv, TypeOK, GithubTypeOK, DaemonTypeOK, BoxTypeOK, Jobs, Lanes, Steps, Calls, Asked, ReadQueue, Clears, Goto, Leave, github, given, daemon
<1>6. OnTheWay' => Allowed'
  BY IssuesAssumption DEF IInv, TypeOK, GithubTypeOK, DaemonTypeOK, BoxTypeOK, Jobs, Lanes, Steps, Calls, Asked, Written, OnTheWay, Allowed, ReadQueue, Clears, Goto, Leave, github, given, daemon
<1>7. QED
  BY <1>1, <1>2, <1>3, <1>4, <1>5, <1>6 DEF IInv

LEMMA ReadMetaKeeps == ASSUME IInv, ReadMeta PROVE IInv'
<1>1. TypeOK'
  <2>1. GithubTypeOK'
    BY DEF IInv, TypeOK, GithubTypeOK, DaemonTypeOK, BoxTypeOK, Jobs, Lanes, Steps, Calls, ReadMeta, Goto, Leave, github, given, daemon
  <2>2. DaemonTypeOK'
    BY DEF IInv, TypeOK, GithubTypeOK, DaemonTypeOK, BoxTypeOK, Jobs, Lanes, Steps, Calls, ReadMeta, Goto, Leave, github, given, daemon
  <2>3. BoxTypeOK'
    BY DEF IInv, TypeOK, GithubTypeOK, DaemonTypeOK, BoxTypeOK, Jobs, Lanes, Steps, Calls, ReadMeta, Goto, Leave, github, given, daemon
  <2>4. form' \in {"attempt", "ask", "assign"} /\ staffed' \in BOOLEAN /\ cleared' \in BOOLEAN
    BY DEF IInv, TypeOK, GithubTypeOK, DaemonTypeOK, BoxTypeOK, Jobs, Lanes, Steps, Calls, ReadMeta, Goto, Leave, github, given, daemon
  <2>5. QED
    BY <2>1, <2>2, <2>3, <2>4 DEF TypeOK
<1>2. Written'
  BY DEF IInv, TypeOK, GithubTypeOK, DaemonTypeOK, BoxTypeOK, Jobs, Lanes, Steps, Calls, Written, Recorded, Requeued, HandsOver, ReadMeta, Goto, Leave, github, given, daemon
<1>3. NeverDropped'
  BY IssuesAssumption DEF IInv, TypeOK, GithubTypeOK, DaemonTypeOK, BoxTypeOK, Jobs, Lanes, Steps, Calls, NeverDropped, Written, Recorded, Requeued, HandsOver, ReadMeta, Goto, Leave, github, given, daemon
<1>4. OpenedIsTrue' /\ (job' = "opened" => pr' # "none")
  BY DEF IInv, TypeOK, GithubTypeOK, DaemonTypeOK, BoxTypeOK, Jobs, Lanes, Steps, Calls, OpenedIsTrue, ReadMeta, Goto, Leave, github, given, daemon
<1>5. Asked'
  BY DEF IInv, TypeOK, GithubTypeOK, DaemonTypeOK, BoxTypeOK, Jobs, Lanes, Steps, Calls, Asked, ReadMeta, Goto, Leave, github, given, daemon
<1>6. OnTheWay' => Allowed'
  BY IssuesAssumption DEF IInv, TypeOK, GithubTypeOK, DaemonTypeOK, BoxTypeOK, Jobs, Lanes, Steps, Calls, Asked, Written, OnTheWay, Allowed, ReadMeta, Goto, Leave, github, given, daemon
<1>7. QED
  BY <1>1, <1>2, <1>3, <1>4, <1>5, <1>6 DEF IInv

LEMMA ReadOwnKeeps == ASSUME IInv, ReadOwn PROVE IInv'
<1>1. TypeOK'
  <2>1. GithubTypeOK'
    BY DEF IInv, TypeOK, GithubTypeOK, DaemonTypeOK, BoxTypeOK, Jobs, Lanes, Steps, Calls, ReadOwn, Goto, Settle, OpenPrFor, github, given, daemon
  <2>2. DaemonTypeOK'
    BY DEF IInv, TypeOK, GithubTypeOK, DaemonTypeOK, BoxTypeOK, Jobs, Lanes, Steps, Calls, ReadOwn, Goto, Settle, OpenPrFor, github, given, daemon
  <2>3. BoxTypeOK'
    BY DEF IInv, TypeOK, GithubTypeOK, DaemonTypeOK, BoxTypeOK, Jobs, Lanes, Steps, Calls, ReadOwn, Goto, Settle, OpenPrFor, github, given, daemon
  <2>4. form' \in {"attempt", "ask", "assign"} /\ staffed' \in BOOLEAN /\ cleared' \in BOOLEAN
    BY DEF IInv, TypeOK, GithubTypeOK, DaemonTypeOK, BoxTypeOK, Jobs, Lanes, Steps, Calls, ReadOwn, Goto, Settle, OpenPrFor, github, given, daemon
  <2>5. QED
    BY <2>1, <2>2, <2>3, <2>4 DEF TypeOK
<1>2. Written'
  BY DEF IInv, TypeOK, GithubTypeOK, DaemonTypeOK, BoxTypeOK, Jobs, Lanes, Steps, Calls, Written, Recorded, Requeued, HandsOver, ReadOwn, Goto, Settle, OpenPrFor, github, given, daemon
<1>3. NeverDropped'
  BY IssuesAssumption DEF IInv, TypeOK, GithubTypeOK, DaemonTypeOK, BoxTypeOK, Jobs, Lanes, Steps, Calls, NeverDropped, Written, Recorded, Requeued, HandsOver, ReadOwn, Goto, Settle, OpenPrFor, github, given, daemon
<1>4. OpenedIsTrue' /\ (job' = "opened" => pr' # "none")
  BY DEF IInv, TypeOK, GithubTypeOK, DaemonTypeOK, BoxTypeOK, Jobs, Lanes, Steps, Calls, OpenedIsTrue, ReadOwn, Goto, Settle, OpenPrFor, github, given, daemon
<1>5. Asked'
  BY DEF IInv, TypeOK, GithubTypeOK, DaemonTypeOK, BoxTypeOK, Jobs, Lanes, Steps, Calls, Asked, ReadOwn, Goto, Settle, OpenPrFor, github, given, daemon
<1>6. OnTheWay' => Allowed'
  BY IssuesAssumption DEF IInv, TypeOK, GithubTypeOK, DaemonTypeOK, BoxTypeOK, Jobs, Lanes, Steps, Calls, Asked, Written, OnTheWay, Allowed, ReadOwn, Goto, Settle, OpenPrFor, github, given, daemon
<1>7. QED
  BY <1>1, <1>2, <1>3, <1>4, <1>5, <1>6 DEF IInv

LEMMA ReadLinksKeeps == ASSUME IInv, ReadLinks PROVE IInv'
<1>1. TypeOK'
  <2>1. GithubTypeOK'
    BY DEF IInv, TypeOK, GithubTypeOK, DaemonTypeOK, BoxTypeOK, Jobs, Lanes, Steps, Calls, ReadLinks, Goto, Settle, FixingPrs, github, given, daemon
  <2>2. DaemonTypeOK'
    BY DEF IInv, TypeOK, GithubTypeOK, DaemonTypeOK, BoxTypeOK, Jobs, Lanes, Steps, Calls, ReadLinks, Goto, Settle, FixingPrs, github, given, daemon
  <2>3. BoxTypeOK'
    BY DEF IInv, TypeOK, GithubTypeOK, DaemonTypeOK, BoxTypeOK, Jobs, Lanes, Steps, Calls, ReadLinks, Goto, Settle, FixingPrs, github, given, daemon
  <2>4. form' \in {"attempt", "ask", "assign"} /\ staffed' \in BOOLEAN /\ cleared' \in BOOLEAN
    BY DEF IInv, TypeOK, GithubTypeOK, DaemonTypeOK, BoxTypeOK, Jobs, Lanes, Steps, Calls, ReadLinks, Goto, Settle, FixingPrs, github, given, daemon
  <2>5. QED
    BY <2>1, <2>2, <2>3, <2>4 DEF TypeOK
<1>2. Written'
  BY DEF IInv, TypeOK, GithubTypeOK, DaemonTypeOK, BoxTypeOK, Jobs, Lanes, Steps, Calls, Written, Recorded, Requeued, HandsOver, ReadLinks, Goto, Settle, FixingPrs, github, given, daemon
<1>3. NeverDropped'
  BY IssuesAssumption DEF IInv, TypeOK, GithubTypeOK, DaemonTypeOK, BoxTypeOK, Jobs, Lanes, Steps, Calls, NeverDropped, Written, Recorded, Requeued, HandsOver, ReadLinks, Goto, Settle, FixingPrs, github, given, daemon
<1>4. OpenedIsTrue' /\ (job' = "opened" => pr' # "none")
  BY DEF IInv, TypeOK, GithubTypeOK, DaemonTypeOK, BoxTypeOK, Jobs, Lanes, Steps, Calls, OpenedIsTrue, ReadLinks, Goto, Settle, FixingPrs, github, given, daemon
<1>5. Asked'
  BY DEF IInv, TypeOK, GithubTypeOK, DaemonTypeOK, BoxTypeOK, Jobs, Lanes, Steps, Calls, Asked, ReadLinks, Goto, Settle, FixingPrs, github, given, daemon
<1>6. OnTheWay' => Allowed'
  BY IssuesAssumption DEF IInv, TypeOK, GithubTypeOK, DaemonTypeOK, BoxTypeOK, Jobs, Lanes, Steps, Calls, Asked, Written, OnTheWay, Allowed, ReadLinks, Goto, Settle, FixingPrs, github, given, daemon
<1>7. QED
  BY <1>1, <1>2, <1>3, <1>4, <1>5, <1>6 DEF IInv

LEMMA StartMoneyKeeps == ASSUME IInv, StartMoney PROVE IInv'
<1>1. TypeOK'
  <2>1. GithubTypeOK'
    BY DEF IInv, TypeOK, GithubTypeOK, DaemonTypeOK, BoxTypeOK, Jobs, Lanes, Steps, Calls, StartMoney, Start, github, given, daemon
  <2>2. DaemonTypeOK'
    BY DEF IInv, TypeOK, GithubTypeOK, DaemonTypeOK, BoxTypeOK, Jobs, Lanes, Steps, Calls, StartMoney, Start, github, given, daemon
  <2>3. BoxTypeOK'
    BY DEF IInv, TypeOK, GithubTypeOK, DaemonTypeOK, BoxTypeOK, Jobs, Lanes, Steps, Calls, StartMoney, Start, github, given, daemon
  <2>4. form' \in {"attempt", "ask", "assign"} /\ staffed' \in BOOLEAN /\ cleared' \in BOOLEAN
    BY DEF IInv, TypeOK, GithubTypeOK, DaemonTypeOK, BoxTypeOK, Jobs, Lanes, Steps, Calls, StartMoney, Start, github, given, daemon
  <2>5. QED
    BY <2>1, <2>2, <2>3, <2>4 DEF TypeOK
<1>2. Written'
  BY DEF IInv, TypeOK, GithubTypeOK, DaemonTypeOK, BoxTypeOK, Jobs, Lanes, Steps, Calls, Written, Recorded, Requeued, HandsOver, StartMoney, Start, github, given, daemon
<1>3. NeverDropped'
  BY IssuesAssumption DEF IInv, TypeOK, GithubTypeOK, DaemonTypeOK, BoxTypeOK, Jobs, Lanes, Steps, Calls, NeverDropped, Written, Recorded, Requeued, HandsOver, StartMoney, Start, github, given, daemon
<1>4. OpenedIsTrue' /\ (job' = "opened" => pr' # "none")
  BY DEF IInv, TypeOK, GithubTypeOK, DaemonTypeOK, BoxTypeOK, Jobs, Lanes, Steps, Calls, OpenedIsTrue, StartMoney, Start, github, given, daemon
<1>5. Asked'
  BY DEF IInv, TypeOK, GithubTypeOK, DaemonTypeOK, BoxTypeOK, Jobs, Lanes, Steps, Calls, Asked, StartMoney, Start, github, given, daemon
<1>6. OnTheWay' => Allowed'
  <2>1. "fix" \in boxes' => "fix" \in boxes
    <3>1. boxes' = boxes \/ boxes' = boxes \cup {"money"}
      BY DEF StartMoney, Start
    <3>2. QED
      BY <3>1
  <2>2. UNCHANGED <<labels, job, pr, call, form, cleared>> /\ lane' = "triage" /\ pc' = "asking"
    BY DEF IInv, Written, StartMoney, Start, github, given
  <2>3. QED
    BY <2>1, <2>2 DEF IInv, OnTheWay, Allowed
<1>7. QED
  BY <1>1, <1>2, <1>3, <1>4, <1>5, <1>6 DEF IInv

LEMMA StartFixKeeps == ASSUME IInv, StartFix PROVE IInv'
<1>1. TypeOK'
  <2>1. GithubTypeOK'
    BY DEF IInv, TypeOK, GithubTypeOK, DaemonTypeOK, BoxTypeOK, Jobs, Lanes, Steps, Calls, StartFix, Start, github, given, daemon
  <2>2. DaemonTypeOK'
    BY DEF IInv, TypeOK, GithubTypeOK, DaemonTypeOK, BoxTypeOK, Jobs, Lanes, Steps, Calls, StartFix, Start, github, given, daemon
  <2>3. BoxTypeOK'
    BY DEF IInv, TypeOK, GithubTypeOK, DaemonTypeOK, BoxTypeOK, Jobs, Lanes, Steps, Calls, StartFix, Start, github, given, daemon
  <2>4. form' \in {"attempt", "ask", "assign"} /\ staffed' \in BOOLEAN /\ cleared' \in BOOLEAN
    BY DEF IInv, TypeOK, GithubTypeOK, DaemonTypeOK, BoxTypeOK, Jobs, Lanes, Steps, Calls, StartFix, Start, github, given, daemon
  <2>5. QED
    BY <2>1, <2>2, <2>3, <2>4 DEF TypeOK
<1>2. Written'
  BY DEF IInv, TypeOK, GithubTypeOK, DaemonTypeOK, BoxTypeOK, Jobs, Lanes, Steps, Calls, Written, Recorded, Requeued, HandsOver, StartFix, Start, github, given, daemon
<1>3. NeverDropped'
  BY IssuesAssumption DEF IInv, TypeOK, GithubTypeOK, DaemonTypeOK, BoxTypeOK, Jobs, Lanes, Steps, Calls, NeverDropped, Written, Recorded, Requeued, HandsOver, StartFix, Start, github, given, daemon
<1>4. OpenedIsTrue' /\ (job' = "opened" => pr' # "none")
  BY DEF IInv, TypeOK, GithubTypeOK, DaemonTypeOK, BoxTypeOK, Jobs, Lanes, Steps, Calls, OpenedIsTrue, StartFix, Start, github, given, daemon
<1>5. Asked'
  BY DEF IInv, TypeOK, GithubTypeOK, DaemonTypeOK, BoxTypeOK, Jobs, Lanes, Steps, Calls, Asked, StartFix, Start, github, given, daemon
<1>6. OnTheWay' => Allowed'
  <2>1. UNCHANGED <<labels, job, pr, call, form, cleared, lane>> /\ pc = "gate" /\ pc' = "fixing"
    BY DEF StartFix, Start, github, given
  <2>2. CASE lane = "fix"
    BY <2>1, <2>2 DEF IInv, OnTheWay, Allowed
  <2>3. lane = "fix"
    BY <2>1 DEF IInv, TypeOK, DaemonTypeOK, Lanes, Written
  <2>4. QED
    BY <2>2, <2>3
<1>7. QED
  BY <1>1, <1>2, <1>3, <1>4, <1>5, <1>6 DEF IInv

LEMMA MoneyAnsweredKeeps == ASSUME IInv, MoneyAnswered PROVE IInv'
<1>1. TypeOK'
  <2>1. GithubTypeOK'
    BY DEF IInv, TypeOK, GithubTypeOK, DaemonTypeOK, BoxTypeOK, Jobs, Lanes, Steps, Calls, MoneyAnswered, Settle, github, given, daemon
  <2>2. DaemonTypeOK'
    BY DEF IInv, TypeOK, GithubTypeOK, DaemonTypeOK, BoxTypeOK, Jobs, Lanes, Steps, Calls, MoneyAnswered, Settle, github, given, daemon
  <2>3. BoxTypeOK'
    BY DEF IInv, TypeOK, GithubTypeOK, DaemonTypeOK, BoxTypeOK, Jobs, Lanes, Steps, Calls, MoneyAnswered, Settle, github, given, daemon
  <2>4. form' \in {"attempt", "ask", "assign"} /\ staffed' \in BOOLEAN /\ cleared' \in BOOLEAN
    BY DEF IInv, TypeOK, GithubTypeOK, DaemonTypeOK, BoxTypeOK, Jobs, Lanes, Steps, Calls, MoneyAnswered, Settle, github, given, daemon
  <2>5. QED
    BY <2>1, <2>2, <2>3, <2>4 DEF TypeOK
<1>2. Written'
  BY DEF IInv, TypeOK, GithubTypeOK, DaemonTypeOK, BoxTypeOK, Jobs, Lanes, Steps, Calls, Written, Recorded, Requeued, HandsOver, MoneyAnswered, Settle, github, given, daemon
<1>3. NeverDropped'
  BY IssuesAssumption DEF IInv, TypeOK, GithubTypeOK, DaemonTypeOK, BoxTypeOK, Jobs, Lanes, Steps, Calls, NeverDropped, Written, Recorded, Requeued, HandsOver, MoneyAnswered, Settle, github, given, daemon
<1>4. OpenedIsTrue' /\ (job' = "opened" => pr' # "none")
  BY DEF IInv, TypeOK, GithubTypeOK, DaemonTypeOK, BoxTypeOK, Jobs, Lanes, Steps, Calls, OpenedIsTrue, MoneyAnswered, Settle, github, given, daemon
<1>5. Asked'
  BY DEF IInv, TypeOK, GithubTypeOK, DaemonTypeOK, BoxTypeOK, Jobs, Lanes, Steps, Calls, Asked, MoneyAnswered, Settle, github, given, daemon
<1>6. OnTheWay' => Allowed'
  <2>1. UNCHANGED <<labels, pr, call, form, lane>> /\ boxes' \subseteq boxes /\ pc' = "say"
    BY DEF MoneyAnswered, Settle, github, given
  <2>2. form = "ask" /\ cleared \in BOOLEAN
    BY DEF MoneyAnswered, IInv, TypeOK, Asked
  <2>3. job' = "attempt" => cleared'
    BY DEF MoneyAnswered, Settle
  <2>4. cleared => cleared'
    BY <2>2 DEF MoneyAnswered, Settle
  <2>5. QED
    BY <2>1, <2>2, <2>3, <2>4 DEF IInv, OnTheWay, Allowed
<1>7. QED
  BY <1>1, <1>2, <1>3, <1>4, <1>5, <1>6 DEF IInv

LEMMA MoneyFailedKeeps == ASSUME IInv, MoneyFailed PROVE IInv'
<1>1. TypeOK'
  <2>1. GithubTypeOK'
    BY DEF IInv, TypeOK, GithubTypeOK, DaemonTypeOK, BoxTypeOK, Jobs, Lanes, Steps, Calls, MoneyFailed, Settle, github, given, daemon
  <2>2. DaemonTypeOK'
    BY DEF IInv, TypeOK, GithubTypeOK, DaemonTypeOK, BoxTypeOK, Jobs, Lanes, Steps, Calls, MoneyFailed, Settle, github, given, daemon
  <2>3. BoxTypeOK'
    BY DEF IInv, TypeOK, GithubTypeOK, DaemonTypeOK, BoxTypeOK, Jobs, Lanes, Steps, Calls, MoneyFailed, Settle, github, given, daemon
  <2>4. form' \in {"attempt", "ask", "assign"} /\ staffed' \in BOOLEAN /\ cleared' \in BOOLEAN
    BY DEF IInv, TypeOK, GithubTypeOK, DaemonTypeOK, BoxTypeOK, Jobs, Lanes, Steps, Calls, MoneyFailed, Settle, github, given, daemon
  <2>5. QED
    BY <2>1, <2>2, <2>3, <2>4 DEF TypeOK
<1>2. Written'
  BY DEF IInv, TypeOK, GithubTypeOK, DaemonTypeOK, BoxTypeOK, Jobs, Lanes, Steps, Calls, Written, Recorded, Requeued, HandsOver, MoneyFailed, Settle, github, given, daemon
<1>3. NeverDropped'
  BY IssuesAssumption DEF IInv, TypeOK, GithubTypeOK, DaemonTypeOK, BoxTypeOK, Jobs, Lanes, Steps, Calls, NeverDropped, Written, Recorded, Requeued, HandsOver, MoneyFailed, Settle, github, given, daemon
<1>4. OpenedIsTrue' /\ (job' = "opened" => pr' # "none")
  BY DEF IInv, TypeOK, GithubTypeOK, DaemonTypeOK, BoxTypeOK, Jobs, Lanes, Steps, Calls, OpenedIsTrue, MoneyFailed, Settle, github, given, daemon
<1>5. Asked'
  BY DEF IInv, TypeOK, GithubTypeOK, DaemonTypeOK, BoxTypeOK, Jobs, Lanes, Steps, Calls, Asked, MoneyFailed, Settle, github, given, daemon
<1>6. OnTheWay' => Allowed'
  BY IssuesAssumption DEF IInv, TypeOK, GithubTypeOK, DaemonTypeOK, BoxTypeOK, Jobs, Lanes, Steps, Calls, Asked, Written, OnTheWay, Allowed, MoneyFailed, Settle, github, given, daemon
<1>7. QED
  BY <1>1, <1>2, <1>3, <1>4, <1>5, <1>6 DEF IInv

LEMMA FixOverKeeps == ASSUME IInv, FixOver PROVE IInv'
<1>1. TypeOK'
  <2>1. GithubTypeOK'
    BY DEF IInv, TypeOK, GithubTypeOK, DaemonTypeOK, BoxTypeOK, Jobs, Lanes, Steps, Calls, FixOver, Goto, github, given, daemon
  <2>2. DaemonTypeOK'
    BY DEF IInv, TypeOK, GithubTypeOK, DaemonTypeOK, BoxTypeOK, Jobs, Lanes, Steps, Calls, FixOver, Goto, github, given, daemon
  <2>3. BoxTypeOK'
    BY DEF IInv, TypeOK, GithubTypeOK, DaemonTypeOK, BoxTypeOK, Jobs, Lanes, Steps, Calls, FixOver, Goto, github, given, daemon
  <2>4. form' \in {"attempt", "ask", "assign"} /\ staffed' \in BOOLEAN /\ cleared' \in BOOLEAN
    BY DEF IInv, TypeOK, GithubTypeOK, DaemonTypeOK, BoxTypeOK, Jobs, Lanes, Steps, Calls, FixOver, Goto, github, given, daemon
  <2>5. QED
    BY <2>1, <2>2, <2>3, <2>4 DEF TypeOK
<1>2. Written'
  BY DEF IInv, TypeOK, GithubTypeOK, DaemonTypeOK, BoxTypeOK, Jobs, Lanes, Steps, Calls, Written, Recorded, Requeued, HandsOver, FixOver, Goto, github, given, daemon
<1>3. NeverDropped'
  BY IssuesAssumption DEF IInv, TypeOK, GithubTypeOK, DaemonTypeOK, BoxTypeOK, Jobs, Lanes, Steps, Calls, NeverDropped, Written, Recorded, Requeued, HandsOver, FixOver, Goto, github, given, daemon
<1>4. OpenedIsTrue' /\ (job' = "opened" => pr' # "none")
  BY DEF IInv, TypeOK, GithubTypeOK, DaemonTypeOK, BoxTypeOK, Jobs, Lanes, Steps, Calls, OpenedIsTrue, FixOver, Goto, github, given, daemon
<1>5. Asked'
  BY DEF IInv, TypeOK, GithubTypeOK, DaemonTypeOK, BoxTypeOK, Jobs, Lanes, Steps, Calls, Asked, FixOver, Goto, github, given, daemon
<1>6. OnTheWay' => Allowed'
  BY IssuesAssumption DEF IInv, TypeOK, GithubTypeOK, DaemonTypeOK, BoxTypeOK, Jobs, Lanes, Steps, Calls, Asked, Written, OnTheWay, Allowed, FixOver, Goto, github, given, daemon
<1>7. QED
  BY <1>1, <1>2, <1>3, <1>4, <1>5, <1>6 DEF IInv

LEMMA OutcomeKeeps == ASSUME IInv, Outcome PROVE IInv'
<1>1. TypeOK'
  <2>1. GithubTypeOK'
    BY DEF IInv, TypeOK, GithubTypeOK, DaemonTypeOK, BoxTypeOK, Jobs, Lanes, Steps, Calls, Outcome, Settle, OpenPrFor, github, given, daemon
  <2>2. DaemonTypeOK'
    BY DEF IInv, TypeOK, GithubTypeOK, DaemonTypeOK, BoxTypeOK, Jobs, Lanes, Steps, Calls, Outcome, Settle, OpenPrFor, github, given, daemon
  <2>3. BoxTypeOK'
    BY DEF IInv, TypeOK, GithubTypeOK, DaemonTypeOK, BoxTypeOK, Jobs, Lanes, Steps, Calls, Outcome, Settle, OpenPrFor, github, given, daemon
  <2>4. form' \in {"attempt", "ask", "assign"} /\ staffed' \in BOOLEAN /\ cleared' \in BOOLEAN
    BY DEF IInv, TypeOK, GithubTypeOK, DaemonTypeOK, BoxTypeOK, Jobs, Lanes, Steps, Calls, Outcome, Settle, OpenPrFor, github, given, daemon
  <2>5. QED
    BY <2>1, <2>2, <2>3, <2>4 DEF TypeOK
<1>2. Written'
  BY DEF IInv, TypeOK, GithubTypeOK, DaemonTypeOK, BoxTypeOK, Jobs, Lanes, Steps, Calls, Written, Recorded, Requeued, HandsOver, Outcome, Settle, OpenPrFor, github, given, daemon
<1>3. NeverDropped'
  BY IssuesAssumption DEF IInv, TypeOK, GithubTypeOK, DaemonTypeOK, BoxTypeOK, Jobs, Lanes, Steps, Calls, NeverDropped, Written, Recorded, Requeued, HandsOver, Outcome, Settle, OpenPrFor, github, given, daemon
<1>4. OpenedIsTrue' /\ (job' = "opened" => pr' # "none")
  BY DEF IInv, TypeOK, GithubTypeOK, DaemonTypeOK, BoxTypeOK, Jobs, Lanes, Steps, Calls, OpenedIsTrue, Outcome, Settle, OpenPrFor, github, given, daemon
<1>5. Asked'
  BY DEF IInv, TypeOK, GithubTypeOK, DaemonTypeOK, BoxTypeOK, Jobs, Lanes, Steps, Calls, Asked, Outcome, Settle, OpenPrFor, github, given, daemon
<1>6. OnTheWay' => Allowed'
  BY IssuesAssumption DEF IInv, TypeOK, GithubTypeOK, DaemonTypeOK, BoxTypeOK, Jobs, Lanes, Steps, Calls, Asked, Written, OnTheWay, Allowed, Outcome, Settle, OpenPrFor, github, given, daemon
<1>7. QED
  BY <1>1, <1>2, <1>3, <1>4, <1>5, <1>6 DEF IInv

LEMMA SayKeeps == ASSUME IInv, Say PROVE IInv'
<1>1. TypeOK'
  <2>1. GithubTypeOK'
    BY DEF IInv, TypeOK, GithubTypeOK, DaemonTypeOK, BoxTypeOK, Jobs, Lanes, Steps, Calls, Written, Recorded, Requeued, HandsOver, Say, Goto, Comment, AfterSay, github, given, daemon
  <2>2. DaemonTypeOK'
    BY DEF IInv, TypeOK, GithubTypeOK, DaemonTypeOK, BoxTypeOK, Jobs, Lanes, Steps, Calls, Say, Goto, Comment, AfterSay, github, given, daemon
  <2>3. BoxTypeOK'
    BY DEF IInv, TypeOK, GithubTypeOK, DaemonTypeOK, BoxTypeOK, Jobs, Lanes, Steps, Calls, Say, Goto, Comment, AfterSay, github, given, daemon
  <2>4. form' \in {"attempt", "ask", "assign"} /\ staffed' \in BOOLEAN /\ cleared' \in BOOLEAN
    BY DEF IInv, TypeOK, GithubTypeOK, DaemonTypeOK, BoxTypeOK, Jobs, Lanes, Steps, Calls, Say, Goto, Comment, AfterSay, github, given, daemon
  <2>5. QED
    BY <2>1, <2>2, <2>3, <2>4 DEF TypeOK
<1>2. Written'
  BY DEF IInv, TypeOK, GithubTypeOK, DaemonTypeOK, BoxTypeOK, Jobs, Lanes, Steps, Calls, Written, Recorded, Requeued, HandsOver, Say, Goto, Comment, AfterSay, github, given, daemon
<1>3. NeverDropped'
  BY IssuesAssumption DEF IInv, TypeOK, GithubTypeOK, DaemonTypeOK, BoxTypeOK, Jobs, Lanes, Steps, Calls, NeverDropped, Written, Recorded, Requeued, HandsOver, Say, Goto, Comment, AfterSay, github, given, daemon
<1>4. OpenedIsTrue' /\ (job' = "opened" => pr' # "none")
  BY DEF IInv, TypeOK, GithubTypeOK, DaemonTypeOK, BoxTypeOK, Jobs, Lanes, Steps, Calls, OpenedIsTrue, Say, Goto, Comment, AfterSay, github, given, daemon
<1>5. Asked'
  BY DEF IInv, TypeOK, GithubTypeOK, DaemonTypeOK, BoxTypeOK, Jobs, Lanes, Steps, Calls, Asked, Say, Goto, Comment, AfterSay, github, given, daemon
<1>6. OnTheWay' => Allowed'
  BY IssuesAssumption DEF IInv, TypeOK, GithubTypeOK, DaemonTypeOK, BoxTypeOK, Jobs, Lanes, Steps, Calls, Asked, Written, OnTheWay, Allowed, Say, Goto, Comment, AfterSay, github, given, daemon
<1>7. QED
  BY <1>1, <1>2, <1>3, <1>4, <1>5, <1>6 DEF IInv

LEMMA AssignKeeps == ASSUME IInv, Assign PROVE IInv'
<1>1. TypeOK'
  <2>1. GithubTypeOK'
    BY DEF IInv, TypeOK, GithubTypeOK, DaemonTypeOK, BoxTypeOK, Jobs, Lanes, Steps, Calls, Assign, Goto, PutAssignee, github, given, daemon
  <2>2. DaemonTypeOK'
    BY DEF IInv, TypeOK, GithubTypeOK, DaemonTypeOK, BoxTypeOK, Jobs, Lanes, Steps, Calls, Assign, Goto, PutAssignee, github, given, daemon
  <2>3. BoxTypeOK'
    BY DEF IInv, TypeOK, GithubTypeOK, DaemonTypeOK, BoxTypeOK, Jobs, Lanes, Steps, Calls, Assign, Goto, PutAssignee, github, given, daemon
  <2>4. form' \in {"attempt", "ask", "assign"} /\ staffed' \in BOOLEAN /\ cleared' \in BOOLEAN
    BY DEF IInv, TypeOK, GithubTypeOK, DaemonTypeOK, BoxTypeOK, Jobs, Lanes, Steps, Calls, Assign, Goto, PutAssignee, github, given, daemon
  <2>5. QED
    BY <2>1, <2>2, <2>3, <2>4 DEF TypeOK
<1>2. Written'
  BY DEF IInv, TypeOK, GithubTypeOK, DaemonTypeOK, BoxTypeOK, Jobs, Lanes, Steps, Calls, Written, Recorded, Requeued, HandsOver, Assign, Goto, PutAssignee, github, given, daemon
<1>3. NeverDropped'
  BY IssuesAssumption DEF IInv, TypeOK, GithubTypeOK, DaemonTypeOK, BoxTypeOK, Jobs, Lanes, Steps, Calls, NeverDropped, Written, Recorded, Requeued, HandsOver, Assign, Goto, PutAssignee, github, given, daemon
<1>4. OpenedIsTrue' /\ (job' = "opened" => pr' # "none")
  BY DEF IInv, TypeOK, GithubTypeOK, DaemonTypeOK, BoxTypeOK, Jobs, Lanes, Steps, Calls, OpenedIsTrue, Assign, Goto, PutAssignee, github, given, daemon
<1>5. Asked'
  BY DEF IInv, TypeOK, GithubTypeOK, DaemonTypeOK, BoxTypeOK, Jobs, Lanes, Steps, Calls, Asked, Assign, Goto, PutAssignee, github, given, daemon
<1>6. OnTheWay' => Allowed'
  BY IssuesAssumption DEF IInv, TypeOK, GithubTypeOK, DaemonTypeOK, BoxTypeOK, Jobs, Lanes, Steps, Calls, Asked, Written, OnTheWay, Allowed, Assign, Goto, PutAssignee, github, given, daemon
<1>7. QED
  BY <1>1, <1>2, <1>3, <1>4, <1>5, <1>6 DEF IInv

LEMMA AddLabelKeeps == ASSUME IInv, AddLabel PROVE IInv'
<1>1. TypeOK'
  <2>1. GithubTypeOK'
    BY DEF IInv, TypeOK, GithubTypeOK, DaemonTypeOK, BoxTypeOK, Jobs, Lanes, Steps, Calls, AddLabel, Goto, Relabel, github, given, daemon
  <2>2. DaemonTypeOK'
    BY DEF IInv, TypeOK, GithubTypeOK, DaemonTypeOK, BoxTypeOK, Jobs, Lanes, Steps, Calls, AddLabel, Goto, Relabel, github, given, daemon
  <2>3. BoxTypeOK'
    BY DEF IInv, TypeOK, GithubTypeOK, DaemonTypeOK, BoxTypeOK, Jobs, Lanes, Steps, Calls, AddLabel, Goto, Relabel, github, given, daemon
  <2>4. form' \in {"attempt", "ask", "assign"} /\ staffed' \in BOOLEAN /\ cleared' \in BOOLEAN
    BY DEF IInv, TypeOK, GithubTypeOK, DaemonTypeOK, BoxTypeOK, Jobs, Lanes, Steps, Calls, AddLabel, Goto, Relabel, github, given, daemon
  <2>5. QED
    BY <2>1, <2>2, <2>3, <2>4 DEF TypeOK
<1>2. Written'
  BY DEF IInv, TypeOK, GithubTypeOK, DaemonTypeOK, BoxTypeOK, Jobs, Lanes, Steps, Calls, Written, Recorded, Requeued, HandsOver, AddLabel, Goto, Relabel, github, given, daemon
<1>3. NeverDropped'
  BY IssuesAssumption DEF IInv, TypeOK, GithubTypeOK, DaemonTypeOK, BoxTypeOK, Jobs, Lanes, Steps, Calls, NeverDropped, Written, Recorded, Requeued, HandsOver, AddLabel, Goto, Relabel, github, given, daemon
<1>4. OpenedIsTrue' /\ (job' = "opened" => pr' # "none")
  BY DEF IInv, TypeOK, GithubTypeOK, DaemonTypeOK, BoxTypeOK, Jobs, Lanes, Steps, Calls, OpenedIsTrue, AddLabel, Goto, Relabel, github, given, daemon
<1>5. Asked'
  BY DEF IInv, TypeOK, GithubTypeOK, DaemonTypeOK, BoxTypeOK, Jobs, Lanes, Steps, Calls, Asked, AddLabel, Goto, Relabel, github, given, daemon
<1>6. OnTheWay' => Allowed'
  BY IssuesAssumption DEF IInv, TypeOK, GithubTypeOK, DaemonTypeOK, BoxTypeOK, Jobs, Lanes, Steps, Calls, Asked, Written, OnTheWay, Allowed, AddLabel, Goto, Relabel, github, given, daemon
<1>7. QED
  BY <1>1, <1>2, <1>3, <1>4, <1>5, <1>6 DEF IInv

LEMMA ClearLabelKeeps == ASSUME IInv, ClearLabel PROVE IInv'
<1>1. TypeOK'
  <2>1. GithubTypeOK'
    BY DEF IInv, TypeOK, GithubTypeOK, DaemonTypeOK, BoxTypeOK, Jobs, Lanes, Steps, Calls, ClearLabel, Relabel, Leave, Clears, github, given, daemon
  <2>2. DaemonTypeOK'
    BY DEF IInv, TypeOK, GithubTypeOK, DaemonTypeOK, BoxTypeOK, Jobs, Lanes, Steps, Calls, ClearLabel, Relabel, Leave, Clears, github, given, daemon
  <2>3. BoxTypeOK'
    BY DEF IInv, TypeOK, GithubTypeOK, DaemonTypeOK, BoxTypeOK, Jobs, Lanes, Steps, Calls, ClearLabel, Relabel, Leave, Clears, github, given, daemon
  <2>4. form' \in {"attempt", "ask", "assign"} /\ staffed' \in BOOLEAN /\ cleared' \in BOOLEAN
    BY DEF IInv, TypeOK, GithubTypeOK, DaemonTypeOK, BoxTypeOK, Jobs, Lanes, Steps, Calls, ClearLabel, Relabel, Leave, Clears, github, given, daemon
  <2>5. QED
    BY <2>1, <2>2, <2>3, <2>4 DEF TypeOK
<1>2. Written'
  BY DEF IInv, TypeOK, GithubTypeOK, DaemonTypeOK, BoxTypeOK, Jobs, Lanes, Steps, Calls, Written, Recorded, Requeued, HandsOver, ClearLabel, Relabel, Leave, Clears, github, given, daemon
<1>3. NeverDropped'
  BY IssuesAssumption DEF IInv, TypeOK, GithubTypeOK, DaemonTypeOK, BoxTypeOK, Jobs, Lanes, Steps, Calls, NeverDropped, Written, Recorded, Requeued, HandsOver, ClearLabel, Relabel, Leave, Clears, github, given, daemon
<1>4. OpenedIsTrue' /\ (job' = "opened" => pr' # "none")
  BY DEF IInv, TypeOK, GithubTypeOK, DaemonTypeOK, BoxTypeOK, Jobs, Lanes, Steps, Calls, OpenedIsTrue, ClearLabel, Relabel, Leave, Clears, github, given, daemon
<1>5. Asked'
  BY DEF IInv, TypeOK, GithubTypeOK, DaemonTypeOK, BoxTypeOK, Jobs, Lanes, Steps, Calls, Asked, ClearLabel, Relabel, Leave, Clears, github, given, daemon
<1>6. OnTheWay' => Allowed'
  BY IssuesAssumption DEF IInv, TypeOK, GithubTypeOK, DaemonTypeOK, BoxTypeOK, Jobs, Lanes, Steps, Calls, Asked, Written, OnTheWay, Allowed, ClearLabel, Relabel, Leave, Clears, github, given, daemon
<1>7. QED
  BY <1>1, <1>2, <1>3, <1>4, <1>5, <1>6 DEF IInv

LEMMA BootKeeps == ASSUME IInv, Boot PROVE IInv'
<1>1. TypeOK'
  <2>1. GithubTypeOK'
    BY DEF IInv, TypeOK, GithubTypeOK, DaemonTypeOK, BoxTypeOK, Jobs, Lanes, Steps, Calls, Boot, Goto, github, given, daemon
  <2>2. DaemonTypeOK'
    BY DEF IInv, TypeOK, GithubTypeOK, DaemonTypeOK, BoxTypeOK, Jobs, Lanes, Steps, Calls, Boot, Goto, github, given, daemon
  <2>3. BoxTypeOK'
    BY DEF IInv, TypeOK, GithubTypeOK, DaemonTypeOK, BoxTypeOK, Jobs, Lanes, Steps, Calls, Boot, Goto, github, given, daemon
  <2>4. form' \in {"attempt", "ask", "assign"} /\ staffed' \in BOOLEAN /\ cleared' \in BOOLEAN
    BY DEF IInv, TypeOK, GithubTypeOK, DaemonTypeOK, BoxTypeOK, Jobs, Lanes, Steps, Calls, Boot, Goto, github, given, daemon
  <2>5. QED
    BY <2>1, <2>2, <2>3, <2>4 DEF TypeOK
<1>2. Written'
  BY DEF IInv, TypeOK, GithubTypeOK, DaemonTypeOK, BoxTypeOK, Jobs, Lanes, Steps, Calls, Written, Recorded, Requeued, HandsOver, Boot, Goto, github, given, daemon
<1>3. NeverDropped'
  BY IssuesAssumption DEF IInv, TypeOK, GithubTypeOK, DaemonTypeOK, BoxTypeOK, Jobs, Lanes, Steps, Calls, NeverDropped, Written, Recorded, Requeued, HandsOver, Boot, Goto, github, given, daemon
<1>4. OpenedIsTrue' /\ (job' = "opened" => pr' # "none")
  BY DEF IInv, TypeOK, GithubTypeOK, DaemonTypeOK, BoxTypeOK, Jobs, Lanes, Steps, Calls, OpenedIsTrue, Boot, Goto, github, given, daemon
<1>5. Asked'
  BY DEF IInv, TypeOK, GithubTypeOK, DaemonTypeOK, BoxTypeOK, Jobs, Lanes, Steps, Calls, Asked, Boot, Goto, github, given, daemon
<1>6. OnTheWay' => Allowed'
  BY IssuesAssumption DEF IInv, TypeOK, GithubTypeOK, DaemonTypeOK, BoxTypeOK, Jobs, Lanes, Steps, Calls, Asked, Written, OnTheWay, Allowed, Boot, Goto, github, given, daemon
<1>7. QED
  BY <1>1, <1>2, <1>3, <1>4, <1>5, <1>6 DEF IInv

LEMMA MeterClosedKeeps == ASSUME IInv, MeterClosed PROVE IInv'
<1>1. TypeOK'
  <2>1. GithubTypeOK'
    BY DEF IInv, TypeOK, GithubTypeOK, DaemonTypeOK, BoxTypeOK, Jobs, Lanes, Steps, Calls, MeterClosed, Leave, github, given, daemon
  <2>2. DaemonTypeOK'
    BY DEF IInv, TypeOK, GithubTypeOK, DaemonTypeOK, BoxTypeOK, Jobs, Lanes, Steps, Calls, MeterClosed, Leave, github, given, daemon
  <2>3. BoxTypeOK'
    BY DEF IInv, TypeOK, GithubTypeOK, DaemonTypeOK, BoxTypeOK, Jobs, Lanes, Steps, Calls, MeterClosed, Leave, github, given, daemon
  <2>4. form' \in {"attempt", "ask", "assign"} /\ staffed' \in BOOLEAN /\ cleared' \in BOOLEAN
    BY DEF IInv, TypeOK, GithubTypeOK, DaemonTypeOK, BoxTypeOK, Jobs, Lanes, Steps, Calls, MeterClosed, Leave, github, given, daemon
  <2>5. QED
    BY <2>1, <2>2, <2>3, <2>4 DEF TypeOK
<1>2. Written'
  BY DEF IInv, TypeOK, GithubTypeOK, DaemonTypeOK, BoxTypeOK, Jobs, Lanes, Steps, Calls, Written, Recorded, Requeued, HandsOver, MeterClosed, Leave, github, given, daemon
<1>3. NeverDropped'
  BY IssuesAssumption DEF IInv, TypeOK, GithubTypeOK, DaemonTypeOK, BoxTypeOK, Jobs, Lanes, Steps, Calls, NeverDropped, Written, Recorded, Requeued, HandsOver, MeterClosed, Leave, github, given, daemon
<1>4. OpenedIsTrue' /\ (job' = "opened" => pr' # "none")
  BY DEF IInv, TypeOK, GithubTypeOK, DaemonTypeOK, BoxTypeOK, Jobs, Lanes, Steps, Calls, OpenedIsTrue, MeterClosed, Leave, github, given, daemon
<1>5. Asked'
  BY DEF IInv, TypeOK, GithubTypeOK, DaemonTypeOK, BoxTypeOK, Jobs, Lanes, Steps, Calls, Asked, MeterClosed, Leave, github, given, daemon
<1>6. OnTheWay' => Allowed'
  BY IssuesAssumption DEF IInv, TypeOK, GithubTypeOK, DaemonTypeOK, BoxTypeOK, Jobs, Lanes, Steps, Calls, Asked, Written, OnTheWay, Allowed, MeterClosed, Leave, github, given, daemon
<1>7. QED
  BY <1>1, <1>2, <1>3, <1>4, <1>5, <1>6 DEF IInv

LEMMA RefusedKeeps == ASSUME IInv, Refused PROVE IInv'
<1>1. TypeOK'
  <2>1. GithubTypeOK'
    BY DEF IInv, TypeOK, GithubTypeOK, DaemonTypeOK, BoxTypeOK, Jobs, Lanes, Steps, Calls, Refused, Leave, github, given, daemon
  <2>2. DaemonTypeOK'
    BY DEF IInv, TypeOK, GithubTypeOK, DaemonTypeOK, BoxTypeOK, Jobs, Lanes, Steps, Calls, Refused, Leave, github, given, daemon
  <2>3. BoxTypeOK'
    BY DEF IInv, TypeOK, GithubTypeOK, DaemonTypeOK, BoxTypeOK, Jobs, Lanes, Steps, Calls, Refused, Leave, github, given, daemon
  <2>4. form' \in {"attempt", "ask", "assign"} /\ staffed' \in BOOLEAN /\ cleared' \in BOOLEAN
    BY DEF IInv, TypeOK, GithubTypeOK, DaemonTypeOK, BoxTypeOK, Jobs, Lanes, Steps, Calls, Refused, Leave, github, given, daemon
  <2>5. QED
    BY <2>1, <2>2, <2>3, <2>4 DEF TypeOK
<1>2. Written'
  BY DEF IInv, TypeOK, GithubTypeOK, DaemonTypeOK, BoxTypeOK, Jobs, Lanes, Steps, Calls, Written, Recorded, Requeued, HandsOver, Refused, Leave, github, given, daemon
<1>3. NeverDropped'
  BY IssuesAssumption DEF IInv, TypeOK, GithubTypeOK, DaemonTypeOK, BoxTypeOK, Jobs, Lanes, Steps, Calls, NeverDropped, Written, Recorded, Requeued, HandsOver, Refused, Leave, github, given, daemon
<1>4. OpenedIsTrue' /\ (job' = "opened" => pr' # "none")
  BY DEF IInv, TypeOK, GithubTypeOK, DaemonTypeOK, BoxTypeOK, Jobs, Lanes, Steps, Calls, OpenedIsTrue, Refused, Leave, github, given, daemon
<1>5. Asked'
  BY DEF IInv, TypeOK, GithubTypeOK, DaemonTypeOK, BoxTypeOK, Jobs, Lanes, Steps, Calls, Asked, Refused, Leave, github, given, daemon
<1>6. OnTheWay' => Allowed'
  BY IssuesAssumption DEF IInv, TypeOK, GithubTypeOK, DaemonTypeOK, BoxTypeOK, Jobs, Lanes, Steps, Calls, Asked, Written, OnTheWay, Allowed, Refused, Leave, github, given, daemon
<1>7. QED
  BY <1>1, <1>2, <1>3, <1>4, <1>5, <1>6 DEF IInv

LEMMA LostKeeps == ASSUME IInv, Lost PROVE IInv'
<1>1. TypeOK'
  <2>1. GithubTypeOK'
    BY DEF IInv, TypeOK, GithubTypeOK, DaemonTypeOK, BoxTypeOK, Jobs, Lanes, Steps, Calls, Written, Recorded, Requeued, HandsOver, Lost, Leave, Comment, PutAssignee, Relabel, github, given, daemon
  <2>2. DaemonTypeOK'
    BY DEF IInv, TypeOK, GithubTypeOK, DaemonTypeOK, BoxTypeOK, Jobs, Lanes, Steps, Calls, Lost, Leave, Comment, PutAssignee, Relabel, github, given, daemon
  <2>3. BoxTypeOK'
    BY DEF IInv, TypeOK, GithubTypeOK, DaemonTypeOK, BoxTypeOK, Jobs, Lanes, Steps, Calls, Lost, Leave, Comment, PutAssignee, Relabel, github, given, daemon
  <2>4. form' \in {"attempt", "ask", "assign"} /\ staffed' \in BOOLEAN /\ cleared' \in BOOLEAN
    BY DEF IInv, TypeOK, GithubTypeOK, DaemonTypeOK, BoxTypeOK, Jobs, Lanes, Steps, Calls, Lost, Leave, Comment, PutAssignee, Relabel, github, given, daemon
  <2>5. QED
    BY <2>1, <2>2, <2>3, <2>4 DEF TypeOK
<1>2. Written'
  BY DEF IInv, TypeOK, GithubTypeOK, DaemonTypeOK, BoxTypeOK, Jobs, Lanes, Steps, Calls, Written, Recorded, Requeued, HandsOver, Lost, Leave, Comment, PutAssignee, Relabel, github, given, daemon
<1>3. NeverDropped'
  BY IssuesAssumption DEF IInv, TypeOK, GithubTypeOK, DaemonTypeOK, BoxTypeOK, Jobs, Lanes, Steps, Calls, NeverDropped, Written, Recorded, Requeued, HandsOver, Lost, Leave, Comment, PutAssignee, Relabel, github, given, daemon
<1>4. OpenedIsTrue' /\ (job' = "opened" => pr' # "none")
  BY DEF IInv, TypeOK, GithubTypeOK, DaemonTypeOK, BoxTypeOK, Jobs, Lanes, Steps, Calls, OpenedIsTrue, Lost, Leave, Comment, PutAssignee, Relabel, github, given, daemon
<1>5. Asked'
  BY DEF IInv, TypeOK, GithubTypeOK, DaemonTypeOK, BoxTypeOK, Jobs, Lanes, Steps, Calls, Asked, Lost, Leave, Comment, PutAssignee, Relabel, github, given, daemon
<1>6. OnTheWay' => Allowed'
  BY IssuesAssumption DEF IInv, TypeOK, GithubTypeOK, DaemonTypeOK, BoxTypeOK, Jobs, Lanes, Steps, Calls, Asked, Written, OnTheWay, Allowed, Lost, Leave, Comment, PutAssignee, Relabel, github, given, daemon
<1>7. QED
  BY <1>1, <1>2, <1>3, <1>4, <1>5, <1>6 DEF IInv

LEMMA StopKeeps == ASSUME IInv, Stop PROVE IInv'
<1>1. TypeOK'
  <2>1. GithubTypeOK'
    BY DEF IInv, TypeOK, GithubTypeOK, DaemonTypeOK, BoxTypeOK, Jobs, Lanes, Steps, Calls, Stop, github, given, daemon
  <2>2. DaemonTypeOK'
    BY DEF IInv, TypeOK, GithubTypeOK, DaemonTypeOK, BoxTypeOK, Jobs, Lanes, Steps, Calls, Stop, github, given, daemon
  <2>3. BoxTypeOK'
    BY DEF IInv, TypeOK, GithubTypeOK, DaemonTypeOK, BoxTypeOK, Jobs, Lanes, Steps, Calls, Stop, github, given, daemon
  <2>4. form' \in {"attempt", "ask", "assign"} /\ staffed' \in BOOLEAN /\ cleared' \in BOOLEAN
    BY DEF IInv, TypeOK, GithubTypeOK, DaemonTypeOK, BoxTypeOK, Jobs, Lanes, Steps, Calls, Stop, github, given, daemon
  <2>5. QED
    BY <2>1, <2>2, <2>3, <2>4 DEF TypeOK
<1>2. Written'
  BY DEF IInv, TypeOK, GithubTypeOK, DaemonTypeOK, BoxTypeOK, Jobs, Lanes, Steps, Calls, Written, Recorded, Requeued, HandsOver, Stop, github, given, daemon
<1>3. NeverDropped'
  BY IssuesAssumption DEF IInv, TypeOK, GithubTypeOK, DaemonTypeOK, BoxTypeOK, Jobs, Lanes, Steps, Calls, NeverDropped, Written, Recorded, Requeued, HandsOver, Stop, github, given, daemon
<1>4. OpenedIsTrue' /\ (job' = "opened" => pr' # "none")
  BY DEF IInv, TypeOK, GithubTypeOK, DaemonTypeOK, BoxTypeOK, Jobs, Lanes, Steps, Calls, OpenedIsTrue, Stop, github, given, daemon
<1>5. Asked'
  BY DEF IInv, TypeOK, GithubTypeOK, DaemonTypeOK, BoxTypeOK, Jobs, Lanes, Steps, Calls, Asked, Stop, github, given, daemon
<1>6. OnTheWay' => Allowed'
  BY IssuesAssumption DEF IInv, TypeOK, GithubTypeOK, DaemonTypeOK, BoxTypeOK, Jobs, Lanes, Steps, Calls, Asked, Written, OnTheWay, Allowed, Stop, github, given, daemon
<1>7. QED
  BY <1>1, <1>2, <1>3, <1>4, <1>5, <1>6 DEF IInv

LEMMA CallToolKeeps == ASSUME IInv, CallTool PROVE IInv'
<1>1. TypeOK'
  <2>1. GithubTypeOK'
    BY DEF IInv, TypeOK, GithubTypeOK, DaemonTypeOK, BoxTypeOK, Jobs, Lanes, Steps, Calls, CallTool, At, github, given, daemon
  <2>2. DaemonTypeOK'
    BY DEF IInv, TypeOK, GithubTypeOK, DaemonTypeOK, BoxTypeOK, Jobs, Lanes, Steps, Calls, CallTool, At, github, given, daemon
  <2>3. BoxTypeOK'
    BY DEF IInv, TypeOK, GithubTypeOK, DaemonTypeOK, BoxTypeOK, Jobs, Lanes, Steps, Calls, CallTool, At, github, given, daemon
  <2>4. form' \in {"attempt", "ask", "assign"} /\ staffed' \in BOOLEAN /\ cleared' \in BOOLEAN
    BY DEF IInv, TypeOK, GithubTypeOK, DaemonTypeOK, BoxTypeOK, Jobs, Lanes, Steps, Calls, CallTool, At, github, given, daemon
  <2>5. QED
    BY <2>1, <2>2, <2>3, <2>4 DEF TypeOK
<1>2. Written'
  BY DEF IInv, TypeOK, GithubTypeOK, DaemonTypeOK, BoxTypeOK, Jobs, Lanes, Steps, Calls, Written, Recorded, Requeued, HandsOver, CallTool, At, github, given, daemon
<1>3. NeverDropped'
  BY IssuesAssumption DEF IInv, TypeOK, GithubTypeOK, DaemonTypeOK, BoxTypeOK, Jobs, Lanes, Steps, Calls, NeverDropped, Written, Recorded, Requeued, HandsOver, CallTool, At, github, given, daemon
<1>4. OpenedIsTrue' /\ (job' = "opened" => pr' # "none")
  BY DEF IInv, TypeOK, GithubTypeOK, DaemonTypeOK, BoxTypeOK, Jobs, Lanes, Steps, Calls, OpenedIsTrue, CallTool, At, github, given, daemon
<1>5. Asked'
  BY DEF IInv, TypeOK, GithubTypeOK, DaemonTypeOK, BoxTypeOK, Jobs, Lanes, Steps, Calls, Asked, CallTool, At, github, given, daemon
<1>6. OnTheWay' => Allowed'
  BY IssuesAssumption DEF IInv, TypeOK, GithubTypeOK, DaemonTypeOK, BoxTypeOK, Jobs, Lanes, Steps, Calls, Asked, Written, OnTheWay, Allowed, CallTool, At, github, given, daemon
<1>7. QED
  BY <1>1, <1>2, <1>3, <1>4, <1>5, <1>6 DEF IInv

LEMMA GuardIssueKeeps == ASSUME NEW c \in Calls, IInv, GuardIssue(c) PROVE IInv'
<1>1. TypeOK'
  <2>1. GithubTypeOK'
    BY DEF IInv, TypeOK, GithubTypeOK, DaemonTypeOK, BoxTypeOK, Jobs, Lanes, Steps, Calls, GuardIssue, At, github, given, daemon
  <2>2. DaemonTypeOK'
    BY DEF IInv, TypeOK, GithubTypeOK, DaemonTypeOK, BoxTypeOK, Jobs, Lanes, Steps, Calls, GuardIssue, At, github, given, daemon
  <2>3. BoxTypeOK'
    BY DEF IInv, TypeOK, GithubTypeOK, DaemonTypeOK, BoxTypeOK, Jobs, Lanes, Steps, Calls, GuardIssue, At, github, given, daemon
  <2>4. form' \in {"attempt", "ask", "assign"} /\ staffed' \in BOOLEAN /\ cleared' \in BOOLEAN
    BY DEF IInv, TypeOK, GithubTypeOK, DaemonTypeOK, BoxTypeOK, Jobs, Lanes, Steps, Calls, GuardIssue, At, github, given, daemon
  <2>5. QED
    BY <2>1, <2>2, <2>3, <2>4 DEF TypeOK
<1>2. Written'
  BY DEF IInv, TypeOK, GithubTypeOK, DaemonTypeOK, BoxTypeOK, Jobs, Lanes, Steps, Calls, Written, Recorded, Requeued, HandsOver, GuardIssue, At, github, given, daemon
<1>3. NeverDropped'
  BY IssuesAssumption DEF IInv, TypeOK, GithubTypeOK, DaemonTypeOK, BoxTypeOK, Jobs, Lanes, Steps, Calls, NeverDropped, Written, Recorded, Requeued, HandsOver, GuardIssue, At, github, given, daemon
<1>4. OpenedIsTrue' /\ (job' = "opened" => pr' # "none")
  BY DEF IInv, TypeOK, GithubTypeOK, DaemonTypeOK, BoxTypeOK, Jobs, Lanes, Steps, Calls, OpenedIsTrue, GuardIssue, At, github, given, daemon
<1>5. Asked'
  BY DEF IInv, TypeOK, GithubTypeOK, DaemonTypeOK, BoxTypeOK, Jobs, Lanes, Steps, Calls, Asked, GuardIssue, At, github, given, daemon
<1>6. OnTheWay' => Allowed'
  BY IssuesAssumption DEF IInv, TypeOK, GithubTypeOK, DaemonTypeOK, BoxTypeOK, Jobs, Lanes, Steps, Calls, Asked, Written, OnTheWay, Allowed, GuardIssue, At, github, given, daemon
<1>7. QED
  BY <1>1, <1>2, <1>3, <1>4, <1>5, <1>6 DEF IInv

LEMMA CheckBranchKeeps == ASSUME NEW c \in Calls, IInv, CheckBranch(c) PROVE IInv'
<1>1. TypeOK'
  <2>1. GithubTypeOK'
    BY DEF IInv, TypeOK, GithubTypeOK, DaemonTypeOK, BoxTypeOK, Jobs, Lanes, Steps, Calls, CheckBranch, At, github, given, daemon
  <2>2. DaemonTypeOK'
    BY DEF IInv, TypeOK, GithubTypeOK, DaemonTypeOK, BoxTypeOK, Jobs, Lanes, Steps, Calls, CheckBranch, At, github, given, daemon
  <2>3. BoxTypeOK'
    BY DEF IInv, TypeOK, GithubTypeOK, DaemonTypeOK, BoxTypeOK, Jobs, Lanes, Steps, Calls, CheckBranch, At, github, given, daemon
  <2>4. form' \in {"attempt", "ask", "assign"} /\ staffed' \in BOOLEAN /\ cleared' \in BOOLEAN
    BY DEF IInv, TypeOK, GithubTypeOK, DaemonTypeOK, BoxTypeOK, Jobs, Lanes, Steps, Calls, CheckBranch, At, github, given, daemon
  <2>5. QED
    BY <2>1, <2>2, <2>3, <2>4 DEF TypeOK
<1>2. Written'
  BY DEF IInv, TypeOK, GithubTypeOK, DaemonTypeOK, BoxTypeOK, Jobs, Lanes, Steps, Calls, Written, Recorded, Requeued, HandsOver, CheckBranch, At, github, given, daemon
<1>3. NeverDropped'
  BY IssuesAssumption DEF IInv, TypeOK, GithubTypeOK, DaemonTypeOK, BoxTypeOK, Jobs, Lanes, Steps, Calls, NeverDropped, Written, Recorded, Requeued, HandsOver, CheckBranch, At, github, given, daemon
<1>4. OpenedIsTrue' /\ (job' = "opened" => pr' # "none")
  BY DEF IInv, TypeOK, GithubTypeOK, DaemonTypeOK, BoxTypeOK, Jobs, Lanes, Steps, Calls, OpenedIsTrue, CheckBranch, At, github, given, daemon
<1>5. Asked'
  BY DEF IInv, TypeOK, GithubTypeOK, DaemonTypeOK, BoxTypeOK, Jobs, Lanes, Steps, Calls, Asked, CheckBranch, At, github, given, daemon
<1>6. OnTheWay' => Allowed'
  BY IssuesAssumption DEF IInv, TypeOK, GithubTypeOK, DaemonTypeOK, BoxTypeOK, Jobs, Lanes, Steps, Calls, Asked, Written, OnTheWay, Allowed, CheckBranch, At, github, given, daemon
<1>7. QED
  BY <1>1, <1>2, <1>3, <1>4, <1>5, <1>6 DEF IInv

LEMMA PushKeeps == ASSUME NEW c \in Calls, IInv, Push(c) PROVE IInv'
<1>1. TypeOK'
  <2>1. GithubTypeOK'
    BY DEF IInv, TypeOK, GithubTypeOK, DaemonTypeOK, BoxTypeOK, Jobs, Lanes, Steps, Calls, Push, At, github, given, daemon
  <2>2. DaemonTypeOK'
    BY DEF IInv, TypeOK, GithubTypeOK, DaemonTypeOK, BoxTypeOK, Jobs, Lanes, Steps, Calls, Push, At, github, given, daemon
  <2>3. BoxTypeOK'
    BY DEF IInv, TypeOK, GithubTypeOK, DaemonTypeOK, BoxTypeOK, Jobs, Lanes, Steps, Calls, Push, At, github, given, daemon
  <2>4. form' \in {"attempt", "ask", "assign"} /\ staffed' \in BOOLEAN /\ cleared' \in BOOLEAN
    BY DEF IInv, TypeOK, GithubTypeOK, DaemonTypeOK, BoxTypeOK, Jobs, Lanes, Steps, Calls, Push, At, github, given, daemon
  <2>5. QED
    BY <2>1, <2>2, <2>3, <2>4 DEF TypeOK
<1>2. Written'
  BY DEF IInv, TypeOK, GithubTypeOK, DaemonTypeOK, BoxTypeOK, Jobs, Lanes, Steps, Calls, Written, Recorded, Requeued, HandsOver, Push, At, github, given, daemon
<1>3. NeverDropped'
  BY IssuesAssumption DEF IInv, TypeOK, GithubTypeOK, DaemonTypeOK, BoxTypeOK, Jobs, Lanes, Steps, Calls, NeverDropped, Written, Recorded, Requeued, HandsOver, Push, At, github, given, daemon
<1>4. OpenedIsTrue' /\ (job' = "opened" => pr' # "none")
  BY DEF IInv, TypeOK, GithubTypeOK, DaemonTypeOK, BoxTypeOK, Jobs, Lanes, Steps, Calls, OpenedIsTrue, Push, At, github, given, daemon
<1>5. Asked'
  BY DEF IInv, TypeOK, GithubTypeOK, DaemonTypeOK, BoxTypeOK, Jobs, Lanes, Steps, Calls, Asked, Push, At, github, given, daemon
<1>6. OnTheWay' => Allowed'
  BY IssuesAssumption DEF IInv, TypeOK, GithubTypeOK, DaemonTypeOK, BoxTypeOK, Jobs, Lanes, Steps, Calls, Asked, Written, OnTheWay, Allowed, Push, At, github, given, daemon
<1>7. QED
  BY <1>1, <1>2, <1>3, <1>4, <1>5, <1>6 DEF IInv

LEMMA PostKeeps == ASSUME NEW c \in Calls, IInv, Post(c) PROVE IInv'
<1>1. TypeOK'
  <2>1. GithubTypeOK'
    BY DEF IInv, TypeOK, GithubTypeOK, DaemonTypeOK, BoxTypeOK, Jobs, Lanes, Steps, Calls, Post, At, github, given, daemon
  <2>2. DaemonTypeOK'
    BY DEF IInv, TypeOK, GithubTypeOK, DaemonTypeOK, BoxTypeOK, Jobs, Lanes, Steps, Calls, Post, At, github, given, daemon
  <2>3. BoxTypeOK'
    BY DEF IInv, TypeOK, GithubTypeOK, DaemonTypeOK, BoxTypeOK, Jobs, Lanes, Steps, Calls, Post, At, github, given, daemon
  <2>4. form' \in {"attempt", "ask", "assign"} /\ staffed' \in BOOLEAN /\ cleared' \in BOOLEAN
    BY DEF IInv, TypeOK, GithubTypeOK, DaemonTypeOK, BoxTypeOK, Jobs, Lanes, Steps, Calls, Post, At, github, given, daemon
  <2>5. QED
    BY <2>1, <2>2, <2>3, <2>4 DEF TypeOK
<1>2. Written'
  BY DEF IInv, TypeOK, GithubTypeOK, DaemonTypeOK, BoxTypeOK, Jobs, Lanes, Steps, Calls, Written, Recorded, Requeued, HandsOver, Post, At, github, given, daemon
<1>3. NeverDropped'
  BY IssuesAssumption DEF IInv, TypeOK, GithubTypeOK, DaemonTypeOK, BoxTypeOK, Jobs, Lanes, Steps, Calls, NeverDropped, Written, Recorded, Requeued, HandsOver, Post, At, github, given, daemon
<1>4. OpenedIsTrue' /\ (job' = "opened" => pr' # "none")
  BY DEF IInv, TypeOK, GithubTypeOK, DaemonTypeOK, BoxTypeOK, Jobs, Lanes, Steps, Calls, OpenedIsTrue, Post, At, github, given, daemon
<1>5. Asked'
  BY DEF IInv, TypeOK, GithubTypeOK, DaemonTypeOK, BoxTypeOK, Jobs, Lanes, Steps, Calls, Asked, Post, At, github, given, daemon
<1>6. OnTheWay' => Allowed'
  BY IssuesAssumption DEF IInv, TypeOK, GithubTypeOK, DaemonTypeOK, BoxTypeOK, Jobs, Lanes, Steps, Calls, Asked, Written, OnTheWay, Allowed, Post, At, github, given, daemon
<1>7. QED
  BY <1>1, <1>2, <1>3, <1>4, <1>5, <1>6 DEF IInv

LEMMA BoxEndsKeeps == ASSUME NEW box \in {"money", "fix"}, IInv, BoxEnds(box) PROVE IInv'
<1>1. TypeOK'
  <2>1. GithubTypeOK'
    BY DEF IInv, TypeOK, GithubTypeOK, DaemonTypeOK, BoxTypeOK, Jobs, Lanes, Steps, Calls, BoxEnds, github, given, daemon
  <2>2. DaemonTypeOK'
    BY DEF IInv, TypeOK, GithubTypeOK, DaemonTypeOK, BoxTypeOK, Jobs, Lanes, Steps, Calls, BoxEnds, github, given, daemon
  <2>3. BoxTypeOK'
    BY DEF IInv, TypeOK, GithubTypeOK, DaemonTypeOK, BoxTypeOK, Jobs, Lanes, Steps, Calls, BoxEnds, github, given, daemon
  <2>4. form' \in {"attempt", "ask", "assign"} /\ staffed' \in BOOLEAN /\ cleared' \in BOOLEAN
    BY DEF IInv, TypeOK, GithubTypeOK, DaemonTypeOK, BoxTypeOK, Jobs, Lanes, Steps, Calls, BoxEnds, github, given, daemon
  <2>5. QED
    BY <2>1, <2>2, <2>3, <2>4 DEF TypeOK
<1>2. Written'
  BY DEF IInv, TypeOK, GithubTypeOK, DaemonTypeOK, BoxTypeOK, Jobs, Lanes, Steps, Calls, Written, Recorded, Requeued, HandsOver, BoxEnds, github, given, daemon
<1>3. NeverDropped'
  BY IssuesAssumption DEF IInv, TypeOK, GithubTypeOK, DaemonTypeOK, BoxTypeOK, Jobs, Lanes, Steps, Calls, NeverDropped, Written, Recorded, Requeued, HandsOver, BoxEnds, github, given, daemon
<1>4. OpenedIsTrue' /\ (job' = "opened" => pr' # "none")
  BY DEF IInv, TypeOK, GithubTypeOK, DaemonTypeOK, BoxTypeOK, Jobs, Lanes, Steps, Calls, OpenedIsTrue, BoxEnds, github, given, daemon
<1>5. Asked'
  BY DEF IInv, TypeOK, GithubTypeOK, DaemonTypeOK, BoxTypeOK, Jobs, Lanes, Steps, Calls, Asked, BoxEnds, github, given, daemon
<1>6. OnTheWay' => Allowed'
  BY IssuesAssumption DEF IInv, TypeOK, GithubTypeOK, DaemonTypeOK, BoxTypeOK, Jobs, Lanes, Steps, Calls, Asked, Written, OnTheWay, Allowed, BoxEnds, github, given, daemon
<1>7. QED
  BY <1>1, <1>2, <1>3, <1>4, <1>5, <1>6 DEF IInv

LEMMA CloseIssueKeeps == ASSUME IInv, CloseIssue PROVE IInv'
<1>1. TypeOK'
  <2>1. GithubTypeOK'
    BY DEF IInv, TypeOK, GithubTypeOK, DaemonTypeOK, BoxTypeOK, Jobs, Lanes, Steps, Calls, CloseIssue, github, given, daemon
  <2>2. DaemonTypeOK'
    BY DEF IInv, TypeOK, GithubTypeOK, DaemonTypeOK, BoxTypeOK, Jobs, Lanes, Steps, Calls, CloseIssue, github, given, daemon
  <2>3. BoxTypeOK'
    BY DEF IInv, TypeOK, GithubTypeOK, DaemonTypeOK, BoxTypeOK, Jobs, Lanes, Steps, Calls, CloseIssue, github, given, daemon
  <2>4. form' \in {"attempt", "ask", "assign"} /\ staffed' \in BOOLEAN /\ cleared' \in BOOLEAN
    BY DEF IInv, TypeOK, GithubTypeOK, DaemonTypeOK, BoxTypeOK, Jobs, Lanes, Steps, Calls, CloseIssue, github, given, daemon
  <2>5. QED
    BY <2>1, <2>2, <2>3, <2>4 DEF TypeOK
<1>2. Written'
  BY DEF IInv, TypeOK, GithubTypeOK, DaemonTypeOK, BoxTypeOK, Jobs, Lanes, Steps, Calls, Written, Recorded, Requeued, HandsOver, CloseIssue, github, given, daemon
<1>3. NeverDropped'
  BY IssuesAssumption DEF IInv, TypeOK, GithubTypeOK, DaemonTypeOK, BoxTypeOK, Jobs, Lanes, Steps, Calls, NeverDropped, Written, Recorded, Requeued, HandsOver, CloseIssue, github, given, daemon
<1>4. OpenedIsTrue' /\ (job' = "opened" => pr' # "none")
  BY DEF IInv, TypeOK, GithubTypeOK, DaemonTypeOK, BoxTypeOK, Jobs, Lanes, Steps, Calls, OpenedIsTrue, CloseIssue, github, given, daemon
<1>5. Asked'
  BY DEF IInv, TypeOK, GithubTypeOK, DaemonTypeOK, BoxTypeOK, Jobs, Lanes, Steps, Calls, Asked, CloseIssue, github, given, daemon
<1>6. OnTheWay' => Allowed'
  BY IssuesAssumption DEF IInv, TypeOK, GithubTypeOK, DaemonTypeOK, BoxTypeOK, Jobs, Lanes, Steps, Calls, Asked, Written, OnTheWay, Allowed, CloseIssue, github, given, daemon
<1>7. QED
  BY <1>1, <1>2, <1>3, <1>4, <1>5, <1>6 DEF IInv

LEMMA LinkPrKeeps == ASSUME IInv, LinkPr PROVE IInv'
<1>1. TypeOK'
  <2>1. GithubTypeOK'
    BY DEF IInv, TypeOK, GithubTypeOK, DaemonTypeOK, BoxTypeOK, Jobs, Lanes, Steps, Calls, LinkPr, github, given, daemon
  <2>2. DaemonTypeOK'
    BY DEF IInv, TypeOK, GithubTypeOK, DaemonTypeOK, BoxTypeOK, Jobs, Lanes, Steps, Calls, LinkPr, github, given, daemon
  <2>3. BoxTypeOK'
    BY DEF IInv, TypeOK, GithubTypeOK, DaemonTypeOK, BoxTypeOK, Jobs, Lanes, Steps, Calls, LinkPr, github, given, daemon
  <2>4. form' \in {"attempt", "ask", "assign"} /\ staffed' \in BOOLEAN /\ cleared' \in BOOLEAN
    BY DEF IInv, TypeOK, GithubTypeOK, DaemonTypeOK, BoxTypeOK, Jobs, Lanes, Steps, Calls, LinkPr, github, given, daemon
  <2>5. QED
    BY <2>1, <2>2, <2>3, <2>4 DEF TypeOK
<1>2. Written'
  BY DEF IInv, TypeOK, GithubTypeOK, DaemonTypeOK, BoxTypeOK, Jobs, Lanes, Steps, Calls, Written, Recorded, Requeued, HandsOver, LinkPr, github, given, daemon
<1>3. NeverDropped'
  BY IssuesAssumption DEF IInv, TypeOK, GithubTypeOK, DaemonTypeOK, BoxTypeOK, Jobs, Lanes, Steps, Calls, NeverDropped, Written, Recorded, Requeued, HandsOver, LinkPr, github, given, daemon
<1>4. OpenedIsTrue' /\ (job' = "opened" => pr' # "none")
  BY DEF IInv, TypeOK, GithubTypeOK, DaemonTypeOK, BoxTypeOK, Jobs, Lanes, Steps, Calls, OpenedIsTrue, LinkPr, github, given, daemon
<1>5. Asked'
  BY DEF IInv, TypeOK, GithubTypeOK, DaemonTypeOK, BoxTypeOK, Jobs, Lanes, Steps, Calls, Asked, LinkPr, github, given, daemon
<1>6. OnTheWay' => Allowed'
  BY IssuesAssumption DEF IInv, TypeOK, GithubTypeOK, DaemonTypeOK, BoxTypeOK, Jobs, Lanes, Steps, Calls, Asked, Written, OnTheWay, Allowed, LinkPr, github, given, daemon
<1>7. QED
  BY <1>1, <1>2, <1>3, <1>4, <1>5, <1>6 DEF IInv

LEMMA AbandonPrKeeps == ASSUME IInv, AbandonPr PROVE IInv'
<1>1. TypeOK'
  <2>1. GithubTypeOK'
    BY DEF IInv, TypeOK, GithubTypeOK, DaemonTypeOK, BoxTypeOK, Jobs, Lanes, Steps, Calls, AbandonPr, github, given, daemon
  <2>2. DaemonTypeOK'
    BY DEF IInv, TypeOK, GithubTypeOK, DaemonTypeOK, BoxTypeOK, Jobs, Lanes, Steps, Calls, AbandonPr, github, given, daemon
  <2>3. BoxTypeOK'
    BY DEF IInv, TypeOK, GithubTypeOK, DaemonTypeOK, BoxTypeOK, Jobs, Lanes, Steps, Calls, AbandonPr, github, given, daemon
  <2>4. form' \in {"attempt", "ask", "assign"} /\ staffed' \in BOOLEAN /\ cleared' \in BOOLEAN
    BY DEF IInv, TypeOK, GithubTypeOK, DaemonTypeOK, BoxTypeOK, Jobs, Lanes, Steps, Calls, AbandonPr, github, given, daemon
  <2>5. QED
    BY <2>1, <2>2, <2>3, <2>4 DEF TypeOK
<1>2. Written'
  BY DEF IInv, TypeOK, GithubTypeOK, DaemonTypeOK, BoxTypeOK, Jobs, Lanes, Steps, Calls, Written, Recorded, Requeued, HandsOver, AbandonPr, github, given, daemon
<1>3. NeverDropped'
  BY IssuesAssumption DEF IInv, TypeOK, GithubTypeOK, DaemonTypeOK, BoxTypeOK, Jobs, Lanes, Steps, Calls, NeverDropped, Written, Recorded, Requeued, HandsOver, AbandonPr, github, given, daemon
<1>4. OpenedIsTrue' /\ (job' = "opened" => pr' # "none")
  BY DEF IInv, TypeOK, GithubTypeOK, DaemonTypeOK, BoxTypeOK, Jobs, Lanes, Steps, Calls, OpenedIsTrue, AbandonPr, github, given, daemon
<1>5. Asked'
  BY DEF IInv, TypeOK, GithubTypeOK, DaemonTypeOK, BoxTypeOK, Jobs, Lanes, Steps, Calls, Asked, AbandonPr, github, given, daemon
<1>6. OnTheWay' => Allowed'
  BY IssuesAssumption DEF IInv, TypeOK, GithubTypeOK, DaemonTypeOK, BoxTypeOK, Jobs, Lanes, Steps, Calls, Asked, Written, OnTheWay, Allowed, AbandonPr, github, given, daemon
<1>7. QED
  BY <1>1, <1>2, <1>3, <1>4, <1>5, <1>6 DEF IInv

LEMMA RequeueKeeps == ASSUME IInv, Requeue PROVE IInv'
<1>1. TypeOK'
  <2>1. GithubTypeOK'
    BY DEF IInv, TypeOK, GithubTypeOK, DaemonTypeOK, BoxTypeOK, Jobs, Lanes, Steps, Calls, Requeue, github, given, daemon
  <2>2. DaemonTypeOK'
    BY DEF IInv, TypeOK, GithubTypeOK, DaemonTypeOK, BoxTypeOK, Jobs, Lanes, Steps, Calls, Requeue, github, given, daemon
  <2>3. BoxTypeOK'
    BY DEF IInv, TypeOK, GithubTypeOK, DaemonTypeOK, BoxTypeOK, Jobs, Lanes, Steps, Calls, Requeue, github, given, daemon
  <2>4. form' \in {"attempt", "ask", "assign"} /\ staffed' \in BOOLEAN /\ cleared' \in BOOLEAN
    BY DEF IInv, TypeOK, GithubTypeOK, DaemonTypeOK, BoxTypeOK, Jobs, Lanes, Steps, Calls, Requeue, github, given, daemon
  <2>5. QED
    BY <2>1, <2>2, <2>3, <2>4 DEF TypeOK
<1>2. Written'
  BY DEF IInv, TypeOK, GithubTypeOK, DaemonTypeOK, BoxTypeOK, Jobs, Lanes, Steps, Calls, Written, Recorded, Requeued, HandsOver, Requeue, github, given, daemon
<1>3. NeverDropped'
  BY IssuesAssumption DEF IInv, TypeOK, GithubTypeOK, DaemonTypeOK, BoxTypeOK, Jobs, Lanes, Steps, Calls, NeverDropped, Written, Recorded, Requeued, HandsOver, Requeue, github, given, daemon
<1>4. OpenedIsTrue' /\ (job' = "opened" => pr' # "none")
  BY DEF IInv, TypeOK, GithubTypeOK, DaemonTypeOK, BoxTypeOK, Jobs, Lanes, Steps, Calls, OpenedIsTrue, Requeue, github, given, daemon
<1>5. Asked'
  BY DEF IInv, TypeOK, GithubTypeOK, DaemonTypeOK, BoxTypeOK, Jobs, Lanes, Steps, Calls, Asked, Requeue, github, given, daemon
<1>6. OnTheWay' => Allowed'
  BY IssuesAssumption DEF IInv, TypeOK, GithubTypeOK, DaemonTypeOK, BoxTypeOK, Jobs, Lanes, Steps, Calls, Asked, Written, OnTheWay, Allowed, Requeue, github, given, daemon
<1>7. QED
  BY <1>1, <1>2, <1>3, <1>4, <1>5, <1>6 DEF IInv

\* Every step keeps the invariant.
LEMMA StepIInv == ASSUME IInv, [Next]_vars PROVE IInv'
<1>1. CASE Pass
  BY <1>1, ReadQueueKeeps, ReadMetaKeeps, ReadOwnKeeps, ReadLinksKeeps, StartMoneyKeeps,
     MoneyAnsweredKeeps, MoneyFailedKeeps, StartFixKeeps, FixOverKeeps, OutcomeKeeps, SayKeeps,
     AssignKeeps, AddLabelKeeps, ClearLabelKeeps DEF Pass
<1>2. CASE Hitch
  BY <1>2, MeterClosedKeeps, RefusedKeeps, LostKeeps, StopKeeps DEF Hitch
<1>3. CASE Tool
  BY <1>3, CallToolKeeps, GuardIssueKeeps, CheckBranchKeeps, PushKeeps, PostKeeps DEF Tool
<1>4. CASE Containers
  BY <1>4, BoxEndsKeeps DEF Containers
<1>5. CASE People
  BY <1>5, CloseIssueKeeps, LinkPrKeeps, AbandonPrKeeps, RequeueKeeps DEF People
<1>6. CASE UNCHANGED vars
  <2>1. TypeOK'
    BY <1>6 DEF vars, github, given, daemon, IInv, TypeOK, GithubTypeOK, DaemonTypeOK, BoxTypeOK
  <2>2. Written' /\ NeverDropped'
    BY <1>6 DEF vars, github, given, daemon, IInv, Written, Recorded, Requeued, HandsOver, NeverDropped
  <2>3. OpenedIsTrue' /\ (job' = "opened" => pr' # "none") /\ Asked'
    BY <1>6 DEF vars, github, given, daemon, IInv, OpenedIsTrue, Asked
  <2>4. OnTheWay' => Allowed'
    BY <1>6 DEF vars, github, given, daemon, IInv, OnTheWay, Allowed
  <2>5. QED
    BY <2>1, <2>2, <2>3, <2>4 DEF IInv
<1>7. QED
  BY <1>1, <1>2, <1>3, <1>4, <1>5, <1>6, BootKeeps DEF Next

LEMMA Inductive == Spec => []IInv
<1>1. IInv /\ [Next]_vars => IInv'
  BY StepIInv
<1>2. QED
  BY InitIInv, <1>1, PTL DEF Spec

\* Type correctness of the report, the daemon and the containers.
THEOREM IssuesAreTyped == Spec => []TypeOK
<1>1. IInv => TypeOK
  BY DEF IInv
<1>2. QED
  BY Inductive, <1>1, PTL

\* A report leaves its queues accounted for, wherever the daemon stops and
\* whatever GitHub refuses (publish.settle_issue, the queue label last).
THEOREM ReportsAreKept == Spec => []NeverDropped
<1>1. IInv => NeverDropped
  BY DEF IInv
<1>2. QED
  BY Inductive, <1>1, PTL

\* A report is told of a pull request only when GitHub has one (fixer._fix_one).
THEOREM OpenedIsNeverSaidInVain == Spec => []OpenedIsTrue
<1>1. IInv => OpenedIsTrue
  BY DEF IInv
<1>2. QED
  BY Inductive, <1>1, PTL

\* No pull request without a form or an answer that allows one, by no order of
\* passes, containers and late tool calls (issues._triage_one, pr._guard_issue).
THEOREM PullRequestsAreCleared == Spec => []PrIsCleared
<1>1. IInv => PrIsCleared
  BY DEF IInv, OnTheWay, Allowed, PrIsCleared
<1>2. QED
  BY Inductive, <1>1, PTL
=============================================================================
