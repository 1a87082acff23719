--------------------------- MODULE PipelineProofs ---------------------------
(***************************************************************************)
(* For any commits, requests, labels and processes the pipeline is typed;  *)
(* and when no forced run is beside the daemon, for any number of crashes, *)
(* refusals and lost answers, a judged commit stays judged, the PR hears   *)
(* of a commit once, in the terms of its verdict (the rows and posts       *)
(* implement Passes), and an approval leaves nothing of an earlier         *)
(* rejection.  With any number of forced runs, notices are true and every  *)
(* approved commit has its build.                                          *)
(***************************************************************************)
EXTENDS Pipeline, TLAPS

-----------------------------------------------------------------------------
(* Types.                                                                  *)

\* A process past its first read has a commit, and one that publishes has the
\* verdict of its run.
HasRead(p)  == pc[p] \notin {"idle", "seed", "meta"} => sha[p] \in Shas
HasWord(p)  == pc[p] \in {"publish", "posting", "label"} => word[p] \in {"needs-work", "comment"}
LocalInv    == LocalTypeOK /\ \A p \in Procs : HasRead(p) /\ HasWord(p)
TypeInv     == TypeOK /\ LocalInv

LEMMA Kept ==
  ASSUME TypeInv
  PROVE  /\ UNCHANGED github => GithubTypeOK'
         /\ UNCHANGED <<rows, notices, seeded>> => DbTypeOK'
         /\ UNCHANGED local => LocalInv'
         /\ UNCHANGED seen => SeenTypeOK'
<1>1. UNCHANGED github => GithubTypeOK'
  BY DEF TypeInv, TypeOK, GithubTypeOK, github
<1>2. UNCHANGED <<rows, notices, seeded>> => DbTypeOK'
  BY DEF TypeInv, TypeOK, DbTypeOK, rows, notices
<1>3. UNCHANGED local => LocalInv'
  BY DEF TypeInv, LocalInv, LocalTypeOK, HasRead, HasWord, local
<1>4. UNCHANGED seen => SeenTypeOK'
  BY DEF TypeInv, TypeOK, SeenTypeOK, seen
<1>5. QED
  BY <1>1, <1>2, <1>3, <1>4

\* One process moves to a call, with what it has read and what it acts on.
LEMMA Moves ==
  ASSUME TypeInv, NEW p \in Procs,
         NEW l \in Steps, NEW c \in Shas \cup {0}, NEW r \in Requests, NEW w \in Words,
         pc' = [pc EXCEPT ![p] = l], sha' = [sha EXCEPT ![p] = c],
         req' = [req EXCEPT ![p] = r], word' = [word EXCEPT ![p] = w],
         l \notin {"idle", "seed", "meta"} => c \in Shas,
         l \in {"publish", "posting", "label"} => w \in {"needs-work", "comment"}
  PROVE  LocalInv'
<1>1. LocalTypeOK'
  BY DEF TypeInv, LocalInv, LocalTypeOK
<1>2. ASSUME NEW q \in Procs PROVE HasRead(q)' /\ HasWord(q)'
  BY <1>2 DEF TypeInv, LocalInv, LocalTypeOK, HasRead, HasWord
<1>3. QED
  BY <1>1, <1>2 DEF LocalInv

LEMMA FinishTyped ==
  ASSUME TypeInv, NEW p \in Procs, Finish(p)
  PROVE  LocalInv'
<1>1. "idle" \in Steps /\ 0 \in Requests /\ "" \in Words
  BY PipelineAssumption DEF Steps, Words
<1>2. QED
  BY <1>1, Moves DEF Finish

LEMMA GotoTyped ==
  ASSUME TypeInv, NEW p \in Procs, NEW l \in Steps, Goto(p, l),
         l \notin {"idle", "seed", "meta"} => sha[p] \in Shas,
         l \in {"publish", "posting", "label"} => word[p] \in {"needs-work", "comment"}
  PROVE  LocalInv'
<1>1. /\ sha[p] \in Shas \cup {0} /\ req[p] \in Requests /\ word[p] \in Words
      /\ sha' = [sha EXCEPT ![p] = sha[p]] /\ req' = [req EXCEPT ![p] = req[p]]
      /\ word' = [word EXCEPT ![p] = word[p]]
  BY DEF TypeInv, LocalInv, LocalTypeOK, Goto
<1>2. pc' = [pc EXCEPT ![p] = l]
  BY DEF Goto
<1>3. QED
  BY <1>1, <1>2, Moves

LEMMA OlderTyped ==
  ASSUME TypeInv, NEW k \in Keys, NEW s, Replace(k, s)
  PROVE  older' \subseteq Keys \X Keys
<1> SUFFICES ASSUME NEW x \in older' PROVE x \in Keys \X Keys
  OBVIOUS
<1>1. x \in older \/ x \in {<<l, k>> : l \in {m \in Keys : m # k /\ state[m] # "none"}}
  BY DEF Replace
<1>2. CASE x \in older
  BY <1>2 DEF TypeInv, TypeOK, DbTypeOK
<1>3. CASE x \in {<<l, k>> : l \in {m \in Keys : m # k /\ state[m] # "none"}}
  <2>1. PICK l \in Keys : x = <<l, k>>
    BY <1>3
  <2>2. QED
    BY <2>1
<1>4. QED
  BY <1>1, <1>2, <1>3

\* Rows are written under keys, with a state and a verdict.
LEMMA RowsTyped ==
  ASSUME TypeInv, NEW k \in Keys, NEW s \in States, NEW v \in Verdicts \cup {""},
         Replace(k, s) \/ FinishReview(k, s, v) \/ ReapRunning,
         UNCHANGED <<notices, seeded>>
  PROVE  DbTypeOK'
<1>1. UNCHANGED <<sent, dmed, dismissTold, seeded>>
  BY DEF notices
<1>2. CASE Replace(k, s)
  <2>1. older' \subseteq Keys \X Keys
    BY <1>2, OlderTyped
  <2>2. state' \in [Keys -> States] /\ verdict' \in [Keys -> Verdicts \cup {""}]
    BY <1>2 DEF TypeInv, TypeOK, DbTypeOK, Replace
  <2>3. QED
    BY <1>1, <2>1, <2>2 DEF TypeInv, TypeOK, DbTypeOK
<1>3. CASE FinishReview(k, s, v)
  BY <1>1, <1>3 DEF TypeInv, TypeOK, DbTypeOK, FinishReview, States
<1>4. CASE ReapRunning
  BY <1>1, <1>4 DEF TypeInv, TypeOK, DbTypeOK, ReapRunning, States
<1>5. QED
  BY <1>2, <1>3, <1>4

\* What the calls to GitHub leave behind is typed.
LEMMA LandsTyped ==
  ASSUME TypeInv, NEW p \in Procs, sha[p] \in Shas, NEW kind \in Kinds,
         \/ PhraseLands(p)
         \/ ReviewLands(p)
         \/ NoteLands(kind, p)
         \/ VetoFalls
         \/ LabelsBecome(labels \ {NeedsWork})
         \/ LabelsBecome(labels \cup {NeedsWork})
  PROVE  GithubTypeOK'
<1>1. \A k \in Kinds, c \in Shas : <<k, c>> \in Posts
  BY DEF Posts
<1>2. NeedsWork \in Labels
  BY DEF Labels, BrakeLabels
<1>3. ASSUME NEW k \in Kinds, Comment(k, sha[p])
      PROVE  posts' \in [Posts -> Nat]
  BY <1>1, <1>3 DEF TypeInv, TypeOK, GithubTypeOK, Comment
<1>4. CASE PhraseLands(p)
  BY <1>3, <1>4 DEF PhraseLands, Kinds, TypeInv, TypeOK, GithubTypeOK
<1>5. CASE ReviewLands(p)
  <2>1. posts' \in [Posts -> Nat]
    BY <1>3, <1>5 DEF ReviewLands, Kinds
  <2>2. vetoed' \in BOOLEAN /\ pending' \in BOOLEAN /\ open' \in BOOLEAN
    BY <1>5 DEF ReviewLands, TypeInv, TypeOK, GithubTypeOK
  <2>3. QED
    BY <1>5, <2>1, <2>2 DEF ReviewLands, TypeInv, TypeOK, GithubTypeOK
<1>6. CASE NoteLands(kind, p)
  BY <1>3, <1>6 DEF NoteLands, TypeInv, TypeOK, GithubTypeOK
<1>7. CASE VetoFalls
  BY <1>7 DEF VetoFalls, TypeInv, TypeOK, GithubTypeOK
<1>8. CASE LabelsBecome(labels \ {NeedsWork}) \/ LabelsBecome(labels \cup {NeedsWork})
  BY <1>2, <1>8 DEF LabelsBecome, TypeInv, TypeOK, GithubTypeOK
<1>9. QED
  BY <1>4, <1>5, <1>6, <1>7, <1>8

\* A notice is a post's kind and commit.
LEMMA SentTyped ==
  ASSUME TypeInv, NEW p \in Procs, sha[p] \in Shas, NEW kind \in Kinds, Sent(p, kind)
  PROVE  sent' \subseteq Posts /\ dmed' \subseteq Keys /\ dismissTold' \in BOOLEAN
<1>1. <<kind, sha[p]>> \in Posts
  BY DEF Posts
<1>2. sent \subseteq Posts /\ dmed \subseteq Keys /\ dismissTold \in BOOLEAN
  BY DEF TypeInv, TypeOK, DbTypeOK
<1>3. sent' = sent \cup {<<kind, sha[p]>>} /\ dmed' = dmed /\ dismissTold' = dismissTold
  BY DEF Sent
<1>4. QED
  BY <1>1, <1>2, <1>3

LEMMA TickTyped ==
  ASSUME TypeInv, DaemonTick
  PROVE  TypeInv'
<1>1. Daemon \in Procs /\ head \in Shas /\ asked \in Requests
  BY DEF Procs, TypeInv, TypeOK, GithubTypeOK
<1>2. CASE Poll
  <2>1. GithubTypeOK' /\ SeenTypeOK'
    BY <1>2, Kept DEF Poll
  <2>2. LocalInv'
    <3>1. CASE Goto(Daemon, "meta") \/ Goto(Daemon, "seed")
      BY <1>1, <3>1, GotoTyped DEF Steps
    <3>2. CASE UNCHANGED local
      BY <3>2, Kept
    <3>3. Goto(Daemon, "meta") \/ Goto(Daemon, "seed") \/ UNCHANGED local
      BY <1>2 DEF Poll
    <3>4. QED
      BY <3>1, <3>2, <3>3
  <2>3. DbTypeOK'
    <3>1. seeded' \in BOOLEAN
      BY <1>2 DEF Poll, TypeInv, TypeOK, DbTypeOK
    <3>2. QED
      BY <1>2, <3>1 DEF Poll, TypeInv, TypeOK, DbTypeOK, rows, notices
  <2>4. QED
    BY <2>1, <2>2, <2>3 DEF TypeInv, TypeOK, LocalInv
<1>3. CASE SeedMeta
  <2>1. GithubTypeOK' /\ SeenTypeOK' /\ DbTypeOK'
    BY <1>3, Kept DEF SeedMeta, db
  <2>2. LocalInv'
    <3>1. /\ req[Daemon] \in Requests /\ word[Daemon] \in Words
          /\ req' = [req EXCEPT ![Daemon] = req[Daemon]]
          /\ word' = [word EXCEPT ![Daemon] = word[Daemon]]
      BY <1>1, <1>3 DEF SeedMeta, TypeInv, LocalInv, LocalTypeOK
    <3>2. pc' = [pc EXCEPT ![Daemon] = "backlog"] /\ sha' = [sha EXCEPT ![Daemon] = head]
      BY <1>3 DEF SeedMeta
    <3>3. QED
      BY <1>1, <3>1, <3>2, Moves DEF Steps
  <2>3. QED
    BY <2>1, <2>2 DEF TypeInv, TypeOK, LocalInv
<1>4. CASE SeedRow
  <2>1. GithubTypeOK' /\ SeenTypeOK' /\ LocalInv'
    BY <1>1, <1>4, Kept, FinishTyped DEF SeedRow
  <2>2. DbTypeOK'
    <3>1. <<sha[Daemon], asked>> \in Keys
      BY <1>1, <1>4 DEF SeedRow, TypeInv, LocalInv, HasRead, Keys
    <3>2. older' \subseteq Keys \X Keys
      BY <1>4, <3>1, OlderTyped DEF SeedRow, RecordHold
    <3>3. QED
      BY <1>4, <3>1, <3>2
         DEF SeedRow, RecordHold, Replace, TypeInv, TypeOK, DbTypeOK, notices, States
  <2>3. QED
    BY <2>1, <2>2 DEF TypeInv, TypeOK, LocalInv
<1>5. QED
  BY <1>2, <1>3, <1>4 DEF DaemonTick

\* A process at any call but its first ones has a commit and a key.
LEMMA HasKey ==
  ASSUME TypeInv, NEW p \in Procs, pc[p] \notin {"idle", "seed", "meta"}
  PROVE  sha[p] \in Shas /\ Key(p) \in Keys /\ req[p] \in Requests /\ word[p] \in Words
BY DEF TypeInv, LocalInv, LocalTypeOK, HasRead, Key, Keys

LEMMA GateTyped ==
  ASSUME TypeInv, NEW p \in Procs, GateStep(p)
  PROVE  TypeInv'
<1>1. /\ head \in Shas /\ asked \in Requests
      /\ req[p] \in Requests /\ word[p] \in Words /\ sha[p] \in Shas \cup {0}
  BY DEF TypeInv, TypeOK, GithubTypeOK, LocalTypeOK
<1>2. GithubTypeOK' /\ DbTypeOK' /\ SeenTypeOK'
  BY Kept DEF GateStep, ReadMeta, ReadRequest, ReadThreads, db
<1>3. ASSUME ReadMeta(p) PROVE LocalInv'
  <2>1. CASE Finish(p)
    BY <2>1, FinishTyped
  <2>2. CASE /\ sha' = [sha EXCEPT ![p] = head]
             /\ Read(p, "request", IF checks = "red" THEN "red" ELSE "")
             /\ UNCHANGED req
    <3>1. req' = [req EXCEPT ![p] = req[p]]
      BY <2>2 DEF TypeInv, TypeOK, LocalTypeOK
    <3>2. (IF checks = "red" THEN "red" ELSE "") \in Words /\ "request" \in Steps
      BY DEF Words, Steps
    <3>3. QED
      BY <1>1, <2>2, <3>1, <3>2, Moves DEF Read
  <2>3. QED
    BY <1>3, <2>1, <2>2 DEF ReadMeta
<1>4. ASSUME ReadRequest(p) PROVE LocalInv'
  <2>1. CASE Finish(p)
    BY <2>1, FinishTyped
  <2>2. CASE /\ req' = [req EXCEPT ![p] = asked]
             /\ pc' = [pc EXCEPT ![p] = IF p = Daemon THEN "threads" ELSE "slot"]
             /\ UNCHANGED <<sha, word>>
    <3>1. sha' = [sha EXCEPT ![p] = sha[p]] /\ word' = [word EXCEPT ![p] = word[p]]
      BY <2>2 DEF TypeInv, TypeOK, LocalTypeOK
    <3>2. sha[p] \in Shas
      BY <1>4, HasKey DEF ReadRequest
    <3>3. (IF p = Daemon THEN "threads" ELSE "slot") \in Steps \ {"publish", "posting", "label"}
      BY DEF Steps
    <3>4. QED
      BY <1>1, <2>2, <3>1, <3>2, <3>3, Moves
  <2>3. QED
    BY <1>4, <2>1, <2>2 DEF ReadRequest
<1>5. ASSUME ReadThreads(p) PROVE LocalInv'
  <2> DEFINE d == Evaluate(sha[p] \in empty, ShaJudged(sha[p]), open, word[p] = "red")
             l == CASE d = "review" -> "slot" [] d = "ci note" -> "note" [] OTHER -> "tell"
  <2>1. pc' = [pc EXCEPT ![p] = l] /\ word' = [word EXCEPT ![p] = d] /\ UNCHANGED <<sha, req>>
    BY <1>5 DEF ReadThreads, Read
  <2>2. d \in Decisions
    BY DEF Evaluate, Decisions
  <2>3. d \in Words
    BY <2>2 DEF Words
  <2>4. l \in {"slot", "note", "tell"}
    OBVIOUS
  <2>5. l \in Steps /\ l \notin {"publish", "posting", "label"}
    BY <2>4 DEF Steps
  <2>6. sha[p] \in Shas
    BY <1>5, HasKey DEF ReadThreads
  <2>7. sha' = [sha EXCEPT ![p] = sha[p]] /\ req' = [req EXCEPT ![p] = req[p]]
    BY <2>1 DEF TypeInv, TypeOK, LocalTypeOK
  <2> HIDE DEF d, l
  <2>8. QED
    BY <1>1, <2>1, <2>3, <2>5, <2>6, <2>7, Moves
<1>6. LocalInv'
  BY <1>3, <1>4, <1>5 DEF GateStep
<1>7. QED
  BY <1>2, <1>6 DEF TypeInv, TypeOK, LocalInv

\* A hold writes its row, or none.
LEMMA HoldTyped ==
  ASSUME TypeInv, NEW p \in Procs, Key(p) \in Keys, Hold(p), UNCHANGED <<sent, dismissTold, seeded>>,
         dmed' \subseteq Keys
  PROVE  DbTypeOK'
<1>1. CASE UNCHANGED rows
  BY <1>1 DEF TypeInv, TypeOK, DbTypeOK, rows
<1>2. CASE Replace(Key(p), "held")
  <2>1. older' \subseteq Keys \X Keys
    BY <1>2, OlderTyped
  <2>2. state' \in [Keys -> States] /\ verdict' \in [Keys -> Verdicts \cup {""}]
    BY <1>2 DEF TypeInv, TypeOK, DbTypeOK, Replace, States
  <2>3. QED
    BY <2>1, <2>2 DEF TypeInv, TypeOK, DbTypeOK
<1>3. QED
  BY <1>1, <1>2 DEF Hold, RecordHold

LEMMA HoldStepTyped ==
  ASSUME TypeInv, NEW p \in Procs, HoldStep(p)
  PROVE  TypeInv'
<1>1. pc[p] \in {"tell", "telling", "note", "noting"}
  BY DEF HoldStep, Tell, Telling, NoteRed, OncePer, PostRed
<1>2. /\ sha[p] \in Shas /\ Key(p) \in Keys
      /\ dmed \subseteq Keys /\ dmed \cup {Key(p)} \subseteq Keys
  BY <1>1, HasKey DEF TypeInv, TypeOK, DbTypeOK, SeenTypeOK
<1>3. CASE Tell(p)
  <2>1. GithubTypeOK' /\ SeenTypeOK'
    BY <1>3, Kept DEF Tell
  <2>2. CASE Notified(word[p]) /\ Key(p) \notin dmed
    <3>1. Goto(p, "telling") /\ dmed' = dmed \cup {Key(p)} /\ UNCHANGED <<rows, sent, dismissTold, seeded>>
      BY <1>3, <2>2 DEF Tell
    <3>2. LocalInv'
      BY <1>2, <3>1, GotoTyped DEF Steps
    <3>3. DbTypeOK'
      BY <1>2, <3>1 DEF TypeInv, TypeOK, DbTypeOK, rows
    <3>4. QED
      BY <2>1, <3>2, <3>3 DEF TypeInv, TypeOK, LocalInv
  <2>3. CASE ~ (Notified(word[p]) /\ Key(p) \notin dmed)
    <3>1. Hold(p) /\ Finish(p) /\ UNCHANGED <<dmed, sent, dismissTold, seeded>>
      BY <1>3, <2>3 DEF Tell
    <3>2. LocalInv' /\ DbTypeOK'
      BY <1>2, <3>1, FinishTyped, HoldTyped
    <3>3. QED
      BY <2>1, <3>2 DEF TypeInv, TypeOK, LocalInv
  <2>4. QED
    BY <2>2, <2>3
<1>4. CASE Telling(p)
  <2>1. Hold(p) /\ Finish(p) /\ UNCHANGED <<dmed, sent, dismissTold, seeded, github, built, warned>>
    BY <1>4 DEF Telling, notices, seen
  <2>2. LocalInv' /\ DbTypeOK' /\ GithubTypeOK'
    BY <1>2, <2>1, FinishTyped, HoldTyped, Kept
  <2>3. SeenTypeOK'
    BY <1>2, <2>1 DEF TypeInv, TypeOK, SeenTypeOK
  <2>4. QED
    BY <2>2, <2>3 DEF TypeInv, TypeOK, LocalInv
<1>5. CASE NoteRed(p)
  <2>1. GithubTypeOK' /\ SeenTypeOK' /\ DbTypeOK'
    BY <1>5, Kept DEF NoteRed, db
  <2>2. Finish(p) \/ Goto(p, "noting")
    BY <1>5 DEF NoteRed, OncePer
  <2>3. LocalInv'
    BY <1>2, <2>2, FinishTyped, GotoTyped DEF Steps
  <2>4. QED
    BY <2>1, <2>3 DEF TypeInv, TypeOK, LocalInv
<1>6. CASE PostRed(p)
  <2>1. /\ NoteLands("ci-red", p) /\ Sent(p, "ci-red") /\ Finish(p) /\ UNCHANGED <<rows, seeded, seen>>
    BY <1>6 DEF PostRed
  <2>2. GithubTypeOK' /\ SeenTypeOK' /\ LocalInv'
    BY <1>2, <2>1, LandsTyped, FinishTyped, Kept DEF Kinds
  <2>3. sent' \subseteq Posts /\ dmed' \subseteq Keys /\ dismissTold' \in BOOLEAN
    BY <1>2, <2>1, SentTyped DEF Kinds
  <2>4. DbTypeOK'
    BY <2>1, <2>3 DEF TypeInv, TypeOK, DbTypeOK, rows
  <2>5. QED
    BY <2>2, <2>4 DEF TypeInv, TypeOK, LocalInv
<1>7. QED
  BY <1>3, <1>4, <1>5, <1>6 DEF HoldStep

\* A run ends or is turned away: at most its own row changes.
LEMMA RunTyped ==
  ASSUME TypeInv, NEW p \in Procs, RunStep(p) \/ TurnedAway(p) \/ RunFails(p)
  PROVE  TypeInv'
<1>1. pc[p] \in {"slot", "running", "giveup"}
  BY DEF RunStep, TakeSlot, RunUnusable, RunApproves, RunFinds, GiveUp, TurnedAway, RunFails
<1>2. sha[p] \in Shas /\ Key(p) \in Keys /\ req[p] \in Requests
  BY <1>1, HasKey
<1>3. GithubTypeOK' /\ SeenTypeOK'
  BY Kept DEF RunStep, TakeSlot, RunUnusable, RunApproves, RunFinds, GiveUp, TurnedAway, RunFails
<1>4. ASSUME TakeSlot(p) PROVE DbTypeOK' /\ LocalInv'
  <2>1. "running" \in States /\ "running" \in Steps
    BY DEF States, Steps
  <2>2. Replace(Key(p), "running") /\ Goto(p, "running") /\ UNCHANGED <<notices, seeded>>
    BY <1>4 DEF TakeSlot, StartReview
  <2>3. QED
    BY <1>2, <2>1, <2>2, RowsTyped, GotoTyped
<1>5. ASSUME RunFails(p) PROVE DbTypeOK' /\ LocalInv'
  <2>1. "failed" \in States /\ "giveup" \in Steps
    BY DEF States, Steps
  <2>2. FinishReview(Key(p), "failed", "") /\ Goto(p, "giveup") /\ UNCHANGED <<notices, seeded>>
    BY <1>5 DEF RunFails
  <2>3. QED
    BY <1>2, <2>1, <2>2, RowsTyped, GotoTyped
<1>6. ASSUME RunUnusable(p) PROVE DbTypeOK' /\ LocalInv'
  <2>1. "held" \in States /\ "giveup" \in Steps
    BY DEF States, Steps
  <2>2. PICK v \in {"", "needs-work", "comment"} : FinishReview(Key(p), "held", v)
    BY <1>6 DEF RunUnusable
  <2>3. v \in Verdicts \cup {""}
    BY DEF Verdicts
  <2>4. Goto(p, "giveup") /\ UNCHANGED <<notices, seeded>>
    BY <1>6 DEF RunUnusable
  <2>5. QED
    BY <1>2, <2>1, <2>2, <2>3, <2>4, RowsTyped, GotoTyped
<1>7. ASSUME RunFinds(p) PROVE DbTypeOK' /\ LocalInv'
  <2>1. "published" \in States /\ "publish" \in Steps
    BY DEF States, Steps
  <2>2. PICK v \in {"needs-work", "comment"} :
          FinishReview(Key(p), "published", v) /\ Read(p, "publish", v)
    BY <1>7 DEF RunFinds
  <2>3. v \in Verdicts \cup {""} /\ v \in Words
    BY DEF Verdicts, Words
  <2>4. /\ UNCHANGED <<notices, seeded>>
        /\ sha' = [sha EXCEPT ![p] = sha[p]] /\ req' = [req EXCEPT ![p] = req[p]]
    BY <1>7 DEF RunFinds, TypeInv, TypeOK, LocalTypeOK
  <2>5. DbTypeOK'
    BY <1>2, <2>1, <2>2, <2>3, <2>4, RowsTyped
  <2>6. LocalInv'
    BY <1>2, <2>1, <2>2, <2>3, <2>4, Moves DEF Read
  <2>7. QED
    BY <2>5, <2>6
<1>8. ASSUME RunApproves(p) \/ GiveUp(p) \/ TurnedAway(p) PROVE DbTypeOK' /\ LocalInv'
  <2>1. UNCHANGED db /\ (Goto(p, "clear") \/ Finish(p))
    BY <1>8 DEF RunApproves, GiveUp, TurnedAway
  <2>2. QED
    BY <1>2, <2>1, Kept, GotoTyped, FinishTyped DEF Steps, db
<1>9. QED
  BY <1>3, <1>4, <1>5, <1>6, <1>7, <1>8 DEF RunStep, TypeInv, TypeOK, LocalInv

LEMMA OkTyped ==
  ASSUME TypeInv, NEW p \in Procs, OkStep(p) \/ RetractFails(p)
  PROVE  TypeInv'
<1>1. pc[p] \in {"clear", "unlabel", "retract", "ask", "asking", "warn", "announce", "announcing"}
  BY DEF OkStep, RetractFails, ReadLabels, Unlabel, Retract, AlreadyBuilding, NeedsBuild, AskCi,
         Warn, Announce, OncePer, PostApproval
<1>2. sha[p] \in Shas /\ Key(p) \in Keys
  BY <1>1, HasKey
<1>3. {"unlabel", "retract", "ask", "asking", "announce", "announcing"} \subseteq Steps
  BY DEF Steps
<1>4. ASSUME Approve(p), UNCHANGED <<notices, seeded>> PROVE DbTypeOK' /\ LocalInv'
  <2>1. "published" \in States /\ "ok" \in Verdicts \cup {""}
    BY DEF States, Verdicts
  <2>2. QED
    BY <1>2, <1>3, <1>4, <2>1, RowsTyped, GotoTyped DEF Approve
<1>5. CASE ReadLabels(p) \/ NeedsBuild(p) \/ Announce(p)
  <2>1. UNCHANGED <<github, db, seen>>
    BY <1>5 DEF ReadLabels, NeedsBuild, Announce
  <2>2. \/ Finish(p)
        \/ \E l \in {"unlabel", "retract", "asking", "announcing"} : Goto(p, l)
    BY <1>5 DEF ReadLabels, NeedsBuild, Announce, OncePer
  <2>3. LocalInv'
    BY <1>2, <1>3, <2>2, FinishTyped, GotoTyped
  <2>4. QED
    BY <2>1, <2>3, Kept DEF db, TypeInv, TypeOK, LocalInv
<1>6. CASE Unlabel(p) \/ Retract(p)
  <2>1. /\ LabelsBecome(labels \ {NeedsWork}) \/ VetoFalls
        /\ UNCHANGED <<db, seen>>
        /\ Goto(p, "retract") \/ Goto(p, "ask")
    BY <1>6 DEF Unlabel, Retract
  <2>2. GithubTypeOK'
    BY <1>2, <2>1, LandsTyped DEF Kinds
  <2>3. LocalInv'
    BY <1>2, <1>3, <2>1, GotoTyped
  <2>4. QED
    BY <2>1, <2>2, <2>3, Kept DEF db, TypeInv, TypeOK, LocalInv
<1>7. CASE RetractFails(p)
  <2>1. LocalInv'
    BY <1>2, <1>3, <1>7, GotoTyped DEF RetractFails
  <2>2. GithubTypeOK' /\ SeenTypeOK'
    <3>1. CASE UNCHANGED github
      BY <1>7, <3>1, Kept DEF RetractFails
    <3>2. CASE VetoFalls
      BY <1>2, <1>7, <3>2, Kept, LandsTyped DEF RetractFails, Kinds
    <3>3. QED
      BY <1>7, <3>1, <3>2 DEF RetractFails
  <2>3. DbTypeOK'
    BY <1>7 DEF RetractFails, TypeInv, TypeOK, DbTypeOK, rows
  <2>4. QED
    BY <2>1, <2>2, <2>3 DEF TypeInv, TypeOK, LocalInv
<1>8. CASE AlreadyBuilding(p)
  <2>1. Approve(p) /\ UNCHANGED <<github, notices, seeded, seen>>
    BY <1>8 DEF AlreadyBuilding
  <2>2. QED
    BY <1>4, <2>1, Kept DEF TypeInv, TypeOK, LocalInv
<1>9. CASE Warn(p)
  <2>1. Approve(p) /\ UNCHANGED <<github, notices, seeded>>
    BY <1>9 DEF Warn
  <2>2. SeenTypeOK'
    BY <1>2, <1>9 DEF Warn, TypeInv, TypeOK, SeenTypeOK
  <2>3. QED
    BY <1>4, <2>1, <2>2, Kept DEF TypeInv, TypeOK, LocalInv
<1>10. CASE AskCi(p)
  <2>1. /\ PhraseLands(p) /\ Sent(p, "run-ci") /\ Approve(p) /\ UNCHANGED <<seeded, seen>>
    BY <1>10 DEF AskCi
  <2>2. GithubTypeOK' /\ SeenTypeOK'
    BY <1>2, <2>1, LandsTyped, Kept DEF Kinds
  <2>3. LocalInv'
    BY <1>2, <1>3, <2>1, GotoTyped DEF Approve
  <2>4. sent' \subseteq Posts /\ dmed' \subseteq Keys /\ dismissTold' \in BOOLEAN
    BY <1>2, <2>1, SentTyped DEF Kinds
  <2>5. DbTypeOK'
    BY <1>2, <2>1, <2>4
       DEF Approve, FinishReview, TypeInv, TypeOK, DbTypeOK, States, Verdicts
  <2>6. QED
    BY <2>2, <2>3, <2>5 DEF TypeInv, TypeOK, LocalInv
<1>11. CASE PostApproval(p)
  <2>1. /\ NoteLands("approved", p) /\ Sent(p, "approved") /\ Finish(p)
        /\ UNCHANGED <<rows, seeded, seen>>
    BY <1>11 DEF PostApproval
  <2>2. GithubTypeOK' /\ SeenTypeOK' /\ LocalInv'
    BY <1>2, <2>1, LandsTyped, FinishTyped, Kept DEF Kinds
  <2>3. sent' \subseteq Posts /\ dmed' \subseteq Keys /\ dismissTold' \in BOOLEAN
    BY <1>2, <2>1, SentTyped DEF Kinds
  <2>4. DbTypeOK'
    BY <2>1, <2>3 DEF TypeInv, TypeOK, DbTypeOK, rows
  <2>5. QED
    BY <2>2, <2>4 DEF TypeInv, TypeOK, LocalInv
<1>12. QED
  BY <1>5, <1>6, <1>7, <1>8, <1>9, <1>10, <1>11 DEF OkStep

LEMMA FindingsTyped ==
  ASSUME TypeInv, NEW p \in Procs, FindingsStep(p)
  PROVE  TypeInv'
<1>1. pc[p] \in {"publish", "posting", "label"}
  BY DEF FindingsStep, Publish, OncePer, PostReview, SetLabel
<1>2. /\ sha[p] \in Shas /\ Key(p) \in Keys /\ word[p] \in {"needs-work", "comment"}
      /\ {"posting", "label"} \subseteq Steps
  BY <1>1, HasKey DEF TypeInv, LocalInv, HasWord, Steps
<1>3. CASE Publish(p)
  <2>1. UNCHANGED <<github, db, seen>> /\ (Finish(p) \/ Goto(p, "posting"))
    BY <1>3 DEF Publish, OncePer
  <2>2. QED
    BY <1>2, <2>1, Kept, FinishTyped, GotoTyped DEF db, TypeInv, TypeOK, LocalInv
<1>4. CASE PostReview(p)
  <2>1. ReviewLands(p) /\ UNCHANGED <<db, seen>> /\ Goto(p, "label")
    BY <1>4 DEF PostReview
  <2>2. GithubTypeOK'
    BY <1>2, <2>1, LandsTyped DEF Kinds
  <2>3. QED
    BY <1>2, <2>1, <2>2, Kept, GotoTyped DEF db, TypeInv, TypeOK, LocalInv
<1>5. CASE SetLabel(p)
  <2>1. /\ LabelsBecome(labels \cup {NeedsWork}) /\ Sent(p, "review") /\ Finish(p)
        /\ FinishReview(Key(p), "published", word[p]) /\ UNCHANGED <<seeded, seen>>
    BY <1>5 DEF SetLabel
  <2>2. GithubTypeOK' /\ SeenTypeOK' /\ LocalInv'
    BY <1>2, <2>1, LandsTyped, FinishTyped, Kept DEF Kinds
  <2>3. sent' \subseteq Posts /\ dmed' \subseteq Keys /\ dismissTold' \in BOOLEAN
    BY <1>2, <2>1, SentTyped DEF Kinds
  <2>4. DbTypeOK'
    BY <1>2, <2>1, <2>3
       DEF FinishReview, TypeInv, TypeOK, DbTypeOK, States, Verdicts
  <2>5. QED
    BY <2>2, <2>4 DEF TypeInv, TypeOK, LocalInv
<1>6. QED
  BY <1>3, <1>4, <1>5 DEF FindingsStep

\* A call fails, with its effect or without it, or the process dies.
LEMMA FaultTyped ==
  ASSUME TypeInv, NEW p \in Procs, Refused(p) \/ Lost(p) \/ Crash(p)
  PROVE  TypeInv'
<1>1. ASSUME Raise(p) PROVE LocalInv'
  <2>1. CASE Finish(p)
    BY <2>1, FinishTyped
  <2>2. CASE pc[p] \in {"posting", "label", "asking"} /\ (Goto(p, "giveup") \/ Goto(p, "warn"))
    <3>1. sha[p] \in Shas
      BY <2>2, HasKey
    <3>2. QED
      BY <2>2, <3>1, GotoTyped DEF Steps
  <2>3. QED
    BY <1>1, <2>1, <2>2 DEF Raise
<1>2. CASE Refused(p)
  BY <1>1, <1>2, Kept DEF Refused, db, TypeInv, TypeOK, LocalInv
<1>3. CASE Lost(p)
  <2>1. Raise(p) /\ UNCHANGED <<db, seen>>
    BY <1>3 DEF Lost
  <2>2. sha[p] \in Shas
    <3>1. pc[p] \notin {"idle", "seed", "meta"}
      BY <1>3 DEF Lost
    <3>2. QED
      BY <3>1, HasKey
  <2>3. \/ NoteLands("ci-red", p) \/ NoteLands("approved", p)
        \/ PhraseLands(p) \/ ReviewLands(p)
        \/ LabelsBecome(labels \ {NeedsWork}) \/ LabelsBecome(labels \cup {NeedsWork})
    BY <1>3 DEF Lost
  <2>4. GithubTypeOK'
    BY <2>2, <2>3, LandsTyped DEF Kinds
  <2>5. QED
    BY <1>1, <2>1, <2>4, Kept DEF db, TypeInv, TypeOK, LocalInv
<1>4. CASE Crash(p)
  <2>1. LocalInv' /\ GithubTypeOK' /\ SeenTypeOK'
    BY <1>4, FinishTyped, Kept DEF Crash
  <2>2. DbTypeOK'
    BY <1>4 DEF Crash, ReapRunning, rows, notices, TypeInv, TypeOK, DbTypeOK, States
  <2>3. QED
    BY <2>1, <2>2 DEF TypeInv, TypeOK, LocalInv
<1>5. QED
  BY <1>2, <1>3, <1>4

LEMMA OnceTyped ==
  ASSUME TypeInv, NEW p \in Forced, Once(p) \/ BlankRequest(p)
  PROVE  TypeInv'
<1>1. p \in Procs /\ Blank \in Requests /\ {"meta", "slot"} \subseteq Steps
  BY PipelineAssumption DEF Procs, Steps
<1>2. GithubTypeOK' /\ DbTypeOK' /\ SeenTypeOK'
  BY Kept DEF Once, BlankRequest, db
<1>3. CASE Once(p)
  <2>1. LocalInv'
    BY <1>1, <1>3, GotoTyped DEF Once
  <2>2. QED
    BY <1>2, <2>1 DEF TypeInv, TypeOK, LocalInv
<1>4. CASE BlankRequest(p)
  <2>1. sha[p] \in Shas /\ word[p] \in Words
    BY <1>1, <1>4, HasKey DEF BlankRequest
  <2>2. sha' = [sha EXCEPT ![p] = sha[p]] /\ word' = [word EXCEPT ![p] = word[p]]
    BY <1>4 DEF BlankRequest, TypeInv, TypeOK, LocalTypeOK
  <2>3. LocalInv'
    BY <1>1, <1>4, <2>1, <2>2, Moves DEF BlankRequest
  <2>4. QED
    BY <1>2, <2>3 DEF TypeInv, TypeOK, LocalInv
<1>5. QED
  BY <1>3, <1>4

LEMMA WorldTyped ==
  ASSUME TypeInv, World
  PROVE  TypeInv'
<1>1. DbTypeOK' /\ LocalInv'
  BY Kept DEF World, db
<1>2. UNCHANGED warned
  BY DEF World
<1>3. GithubTypeOK /\ SeenTypeOK
  BY DEF TypeInv, TypeOK
<1>4. ASSUME Push PROVE GithubTypeOK' /\ SeenTypeOK'
  BY <1>2, <1>3, <1>4 DEF Push, GithubTypeOK, SeenTypeOK
<1>5. ASSUME Request PROVE GithubTypeOK' /\ SeenTypeOK'
  <2>1. asked' \in Requests \ {Blank}
    <3>1. asked \in Nat
      BY <1>3, PipelineAssumption DEF GithubTypeOK
    <3>2. asked + 1 # Blank
      BY <3>1, PipelineAssumption
    <3>3. QED
      BY <1>5, <3>2 DEF Request
  <2>2. QED
    BY <1>2, <1>3, <1>5, <2>1 DEF Request, GithubTypeOK, SeenTypeOK
<1>6. ASSUME Withdraw PROVE GithubTypeOK' /\ SeenTypeOK'
  BY <1>2, <1>3, <1>6 DEF Withdraw, GithubTypeOK, SeenTypeOK
<1>7. ASSUME Answer PROVE GithubTypeOK' /\ SeenTypeOK'
  BY <1>2, <1>3, <1>7 DEF Answer, GithubTypeOK, SeenTypeOK
<1>8. ASSUME Relabel PROVE GithubTypeOK' /\ SeenTypeOK'
  BY <1>2, <1>3, <1>8 DEF Relabel, GithubTypeOK, SeenTypeOK
<1>9. ASSUME Build PROVE GithubTypeOK' /\ SeenTypeOK'
  BY <1>2, <1>3, <1>9 DEF Build, GithubTypeOK, SeenTypeOK
<1>10. ASSUME Phrase PROVE GithubTypeOK' /\ SeenTypeOK'
  BY <1>2, <1>3, <1>10 DEF Phrase, GithubTypeOK, SeenTypeOK
<1>11. QED
  <2>1. Push \/ Request \/ Withdraw \/ Answer \/ Relabel \/ Phrase \/ Build
    BY DEF World
  <2>2. GithubTypeOK' /\ SeenTypeOK'
    BY <1>4, <1>5, <1>6, <1>7, <1>8, <1>9, <1>10, <2>1
  <2>3. QED
    BY <1>1, <2>2 DEF TypeInv, TypeOK, LocalInv

LEMMA InitTyped == Init => TypeInv
<1> SUFFICES ASSUME Init PROVE TypeInv
  OBVIOUS
<1>1. Blank \in Requests /\ 0 \in Requests \ {Blank} /\ (1 \in Requests => 1 \in Requests \ {Blank}) /\ 1 \in Shas
  BY PipelineAssumption
<1>2. GithubTypeOK
  BY <1>1 DEF Init, GithubTypeOK
<1>3. DbTypeOK
  BY DEF Init, DbInit, DbTypeOK, States
<1>4. LocalInv
  <2>1. LocalTypeOK
    BY <1>1 DEF Init, LocalTypeOK, Steps, Words
  <2>2. \A p \in Procs : HasRead(p) /\ HasWord(p)
    BY DEF Init, HasRead, HasWord
  <2>3. QED
    BY <2>1, <2>2 DEF LocalInv
<1>5. SeenTypeOK
  BY DEF Init, SeenTypeOK
<1>6. QED
  BY <1>2, <1>3, <1>4, <1>5 DEF TypeInv, TypeOK, LocalInv

LEMMA NextTyped == TypeInv /\ [Next]_vars => TypeInv'
<1> SUFFICES ASSUME TypeInv, [Next]_vars PROVE TypeInv'
  OBVIOUS
<1>1. CASE UNCHANGED vars
  BY <1>1, Kept DEF vars, TypeInv, TypeOK, LocalInv
<1>2. CASE DaemonTick
  BY <1>2, TickTyped
<1>3. CASE \E p \in Forced : Once(p) \/ BlankRequest(p)
  BY <1>3, OnceTyped
<1>4. CASE \E p \in Procs : Advance(p) \/ Fault(p)
  <2>1. PICK p \in Procs : Advance(p) \/ Fault(p)
    BY <1>4
  <2>2. \/ GateStep(p) \/ HoldStep(p) \/ FindingsStep(p)
        \/ RunStep(p) \/ TurnedAway(p) \/ RunFails(p)
        \/ OkStep(p) \/ RetractFails(p)
        \/ Refused(p) \/ Lost(p) \/ Crash(p)
    BY <2>1 DEF Advance, Fault
  <2>3. QED
    BY <2>2, GateTyped, HoldStepTyped, FindingsTyped, RunTyped, OkTyped, FaultTyped
<1>5. CASE World
  BY <1>5, WorldTyped
<1>6. QED
  BY <1>1, <1>2, <1>3, <1>4, <1>5 DEF Next, Calm

\* Whatever the commits, requests, labels and processes, and whatever fails:
\* rows are written under keys of this PR with a state and a verdict, no call
\* is reached without the commit it needs, and nothing is published without a
\* verdict to publish.
THEOREM PipelineIsTyped == Spec => [](TypeOK /\ LocalInv)
<1>1. Init => TypeInv
  BY InitTyped
<1>2. TypeInv /\ [Next]_vars => TypeInv'
  BY NextTyped
<1>3. TypeInv => TypeOK /\ LocalInv
  BY DEF TypeInv
<1>4. QED
  BY <1>1, <1>2, <1>3, PTL DEF Spec

-----------------------------------------------------------------------------
(* The daemon alone: no forced run beside it.                              *)

\* What the daemon may rely on at call l about the commit c and the request r
\* it read and the word w it acts on.  From the gates to the slot the key is
\* not judged; from the slot to the row the commit is not, and the row is
\* there to be updated; from the row to the post the commit is judged, and
\* the PR has not heard of it.
At(l, c, r, w) ==
  /\ l \in {"threads", "tell", "telling", "slot"} => ~ Judged(<<c, r>>)
  /\ l \in {"slot", "running", "clear", "unlabel", "retract", "ask", "asking", "warn"}
       => ~ ShaJudged(c)
  /\ l \in {"running", "clear", "unlabel", "retract", "ask", "asking", "warn"}
       => state[<<c, r>>] = "running"
  /\ l \in {"publish", "posting", "label"}
       => state[<<c, r>>] = "published" /\ verdict[<<c, r>>] = w /\ JudgementOf(c) = "findings"
  /\ l \in {"announce", "announcing"} => JudgementOf(c) = "ok"
  /\ l \in {"publish", "posting", "announce", "announcing"} => SaidOf(c) = "nothing"
  /\ l = "label" => SaidOf(c) = "changes"
  /\ l \in {"seed", "backlog"} => ~ seeded
  /\ l \notin {"idle", "seed", "backlog"} => seeded

Place   == At(pc[Daemon], sha[Daemon], req[Daemon], word[Daemon])

\* What the PR heard of a commit is what the commit's rows say.
Told(c) ==
  \/ SaidOf(c) = "nothing"
  \/ SaidOf(c) = "approval" /\ JudgementOf(c) = "ok"
  \/ SaidOf(c) = "changes" /\ JudgementOf(c) = "findings"

\* Before the backlog is recorded nothing was reviewed.
Backlog == seeded \/ \A k \in Keys : state[k] \in {"none", "held"}

IInv == TypeInv /\ Place /\ Backlog /\ \A c \in Shas : Told(c)

\* Judgement is there exactly when the commit was judged.
LEMMA JudgedIsKnown ==
  ASSUME TypeInv, NEW c \in Shas
  PROVE  /\ JudgementOf(c) \in {"no", "held", "ok", "findings"}
         /\ ShaJudged(c) <=> JudgementOf(c) # "no"
         /\ ~ ShaJudged(c) => \A r \in Requests : state[<<c, r>>] # "published" /\ state[<<c, r>>] # "held"
BY DEF JudgementOf, ShaJudged, Judged

\* Rows that stay judged or unjudged as they were leave every judgement alone.
LEMMA RowsStay ==
  ASSUME \A c \in Shas, r \in Requests :
           /\ state'[<<c, r>>] = "published" <=> state[<<c, r>>] = "published"
           /\ state'[<<c, r>>] = "held" <=> state[<<c, r>>] = "held"
           /\ state[<<c, r>>] = "published" =>
                (verdict'[<<c, r>>] = "ok" <=> verdict[<<c, r>>] = "ok")
  PROVE  \A c \in Shas :
           /\ JudgementOf(c)' = JudgementOf(c)
           /\ ShaJudged(c)' <=> ShaJudged(c)
           /\ \A r \in Requests : Judged(<<c, r>>)' <=> Judged(<<c, r>>)
<1> SUFFICES ASSUME NEW c \in Shas
             PROVE  /\ JudgementOf(c)' = JudgementOf(c)
                    /\ ShaJudged(c)' <=> ShaJudged(c)
                    /\ \A r \in Requests : Judged(<<c, r>>)' <=> Judged(<<c, r>>)
  OBVIOUS
<1>1. \A r \in Requests : Judged(<<c, r>>)' <=> Judged(<<c, r>>)
  BY DEF Judged
<1>2. ShaJudged(c)' <=> ShaJudged(c)
  BY <1>1 DEF ShaJudged
<1>3. (\E r \in Requests : state'[<<c, r>>] = "published")
        <=> (\E r \in Requests : state[<<c, r>>] = "published")
  OBVIOUS
<1>4. (\E r \in Requests : state'[<<c, r>>] = "published" /\ verdict'[<<c, r>>] = "ok")
        <=> (\E r \in Requests : state[<<c, r>>] = "published" /\ verdict[<<c, r>>] = "ok")
  OBVIOUS
<1>5. JudgementOf(c)' = JudgementOf(c)
  BY <1>2, <1>3, <1>4 DEF JudgementOf
<1>6. QED
  BY <1>1, <1>2, <1>5

\* A row that is held, and was not published, judges its commit unless some
\* other row had.
LEMMA HeldJudges ==
  ASSUME TypeInv, NEW c \in Shas, NEW r \in Requests,
         state[<<c, r>>] # "published",
         state' = [state EXCEPT ![<<c, r>>] = "held"],
         \A k \in Keys : k # <<c, r>> => verdict'[k] = verdict[k]
  PROVE  /\ JudgementOf(c)' = IF JudgementOf(c) = "no" THEN "held" ELSE JudgementOf(c)
         /\ \A d \in Shas : d # c => JudgementOf(d)' = JudgementOf(d)
<1>1. /\ state \in [Keys -> States] /\ <<c, r>> \in Keys
      /\ \A d \in Shas, q \in Requests : <<d, q>> \in Keys
  BY DEF TypeInv, TypeOK, DbTypeOK, Keys
<1>2. \A q \in Requests : <<c, q>> # <<c, r>> =>
        state'[<<c, q>>] = state[<<c, q>>] /\ verdict'[<<c, q>>] = verdict[<<c, q>>]
  BY <1>1
<1>3. state'[<<c, r>>] = "held"
  BY <1>1
<1>4. (\E q \in Requests : state'[<<c, q>>] = "published")
        <=> (\E q \in Requests : state[<<c, q>>] = "published")
  BY <1>2, <1>3
<1>5. (\E q \in Requests : state'[<<c, q>>] = "published" /\ verdict'[<<c, q>>] = "ok")
        <=> (\E q \in Requests : state[<<c, q>>] = "published" /\ verdict[<<c, q>>] = "ok")
  BY <1>2, <1>3
<1>6. ShaJudged(c)'
  BY <1>3 DEF ShaJudged, Judged
<1>7. JudgementOf(c)' = IF JudgementOf(c) = "no" THEN "held" ELSE JudgementOf(c)
  BY <1>4, <1>5, <1>6 DEF JudgementOf
<1>8. ASSUME NEW d \in Shas, d # c PROVE JudgementOf(d)' = JudgementOf(d)
  <2>1. \A q \in Requests :
          state'[<<d, q>>] = state[<<d, q>>] /\ verdict'[<<d, q>>] = verdict[<<d, q>>]
    BY <1>1, <1>8
  <2>2. ShaJudged(d)' <=> ShaJudged(d)
    BY <2>1 DEF ShaJudged, Judged
  <2>3. QED
    BY <2>1, <2>2 DEF JudgementOf
<1>9. QED
  BY <1>7, <1>8

\* The first row of a commit to be published gives the commit its judgement.
LEMMA PublishedJudges ==
  ASSUME TypeInv, NEW c \in Shas, NEW r \in Requests, NEW v,
         ~ ShaJudged(c),
         state' = [state EXCEPT ![<<c, r>>] = "published"],
         verdict'[<<c, r>>] = v,
         \A k \in Keys : k # <<c, r>> => verdict'[k] = verdict[k]
  PROVE  /\ JudgementOf(c)' = IF v = "ok" THEN "ok" ELSE "findings"
         /\ \A d \in Shas : d # c => JudgementOf(d)' = JudgementOf(d)
<1>1. /\ state \in [Keys -> States] /\ <<c, r>> \in Keys
      /\ \A d \in Shas, q \in Requests : <<d, q>> \in Keys
  BY DEF TypeInv, TypeOK, DbTypeOK, Keys
<1>2. \A q \in Requests : <<c, q>> # <<c, r>> =>
        state'[<<c, q>>] = state[<<c, q>>] /\ state[<<c, q>>] # "published"
  BY <1>1 DEF ShaJudged, Judged
<1>3. state'[<<c, r>>] = "published"
  BY <1>1
<1>4. (\E q \in Requests : state'[<<c, q>>] = "published" /\ verdict'[<<c, q>>] = "ok") <=> v = "ok"
  BY <1>2, <1>3
<1>5. JudgementOf(c)' = IF v = "ok" THEN "ok" ELSE "findings"
  BY <1>3, <1>4 DEF JudgementOf
<1>6. ASSUME NEW d \in Shas, d # c PROVE JudgementOf(d)' = JudgementOf(d)
  <2>1. \A q \in Requests :
          state'[<<d, q>>] = state[<<d, q>>] /\ verdict'[<<d, q>>] = verdict[<<d, q>>]
    BY <1>1, <1>6
  <2>2. ShaJudged(d)' <=> ShaJudged(d)
    BY <2>1 DEF ShaJudged, Judged
  <2>3. QED
    BY <2>1, <2>2 DEF JudgementOf
<1>7. QED
  BY <1>5, <1>6

-----------------------------------------------------------------------------
(* A step of the daemon leaves every commit's judgement and posts alone,   *)
(* judges one commit, or tells the PR of one judgement.                    *)

Same == \A c \in Shas : JudgementOf(c)' = JudgementOf(c) /\ SaidOf(c)' = SaidOf(c)

Judges(c) ==
  /\ JudgementOf(c) = "no" /\ JudgementOf(c)' \in {"held", "ok", "findings"}
  /\ \A d \in Shas : d # c => JudgementOf(d)' = JudgementOf(d)
  /\ \A d \in Shas : SaidOf(d)' = SaidOf(d)

Says(c) ==
  /\ SaidOf(c) = "nothing"
  /\ \/ JudgementOf(c) = "ok" /\ SaidOf(c)' = "approval"
     \/ JudgementOf(c) = "findings" /\ SaidOf(c)' = "changes"
  /\ \A d \in Shas : d # c => SaidOf(d)' = SaidOf(d)
  /\ \A d \in Shas : JudgementOf(d)' = JudgementOf(d)

PassStep == Same \/ \E c \in Shas : Judges(c) \/ Says(c)

\* What the PR heard stays in agreement with what the rows say.
LEMMA ToldStays ==
  ASSUME IInv, PassStep
  PROVE  \A c \in Shas : Told(c)'
<1> SUFFICES ASSUME NEW c \in Shas PROVE Told(c)'
  OBVIOUS
<1>1. Told(c)
  BY DEF IInv
<1>2. CASE Same
  BY <1>1, <1>2 DEF Same, Told
<1>3. CASE \E d \in Shas : Judges(d)
  BY <1>1, <1>3 DEF Judges, Told
<1>4. CASE \E d \in Shas : Says(d)
  BY <1>1, <1>4 DEF Says, Told
<1>5. QED
  BY <1>2, <1>3, <1>4 DEF PassStep

\* Only two kinds of comment tell the PR of a judgement.
LEMMA SaidStays ==
  ASSUME \/ UNCHANGED posts
         \/ NoteLands("ci-red", Daemon) \/ PhraseLands(Daemon),
         TypeInv
  PROVE  \A c \in Shas : SaidOf(c)' = SaidOf(c)
<1> SUFFICES ASSUME NEW c \in Shas PROVE SaidOf(c)' = SaidOf(c)
  OBVIOUS
<1>1. posts'[<<"review", c>>] = posts[<<"review", c>>] /\ posts'[<<"approved", c>>] = posts[<<"approved", c>>]
  BY DEF NoteLands, PhraseLands, Comment, TypeInv, TypeOK, GithubTypeOK, Posts, Kinds
<1>2. QED
  BY <1>1 DEF SaidOf

LEMMA SaidNow ==
  ASSUME TypeInv, NEW c \in Shas, SaidOf(c) = "nothing"
  PROVE  /\ Comment("review", c) =>
              /\ SaidOf(c)' = "changes"
              /\ \A d \in Shas : d # c => SaidOf(d)' = SaidOf(d)
         /\ Comment("approved", c) =>
              /\ SaidOf(c)' = "approval"
              /\ \A d \in Shas : d # c => SaidOf(d)' = SaidOf(d)
<1>1. posts \in [Posts -> Nat] /\ \A d \in Shas : <<"review", d>> \in Posts /\ <<"approved", d>> \in Posts
  BY DEF TypeInv, TypeOK, GithubTypeOK, Posts, Kinds
<1>2. posts[<<"review", c>>] = 0 /\ posts[<<"approved", c>>] = 0
  BY DEF SaidOf
<1>3. Comment("review", c) => posts'[<<"review", c>>] = 1 /\ posts'[<<"approved", c>>] = 0
  BY <1>1, <1>2 DEF Comment
<1>4. Comment("approved", c) => posts'[<<"review", c>>] = 0 /\ posts'[<<"approved", c>>] = 1
  BY <1>1, <1>2 DEF Comment
<1>5. ASSUME NEW d \in Shas, d # c, Comment("review", c) \/ Comment("approved", c)
      PROVE  SaidOf(d)' = SaidOf(d)
  <2>1. posts'[<<"review", d>>] = posts[<<"review", d>>] /\ posts'[<<"approved", d>>] = posts[<<"approved", d>>]
    BY <1>1, <1>5 DEF Comment
  <2>2. QED
    BY <2>1 DEF SaidOf
<1>6. QED
  BY <1>3, <1>4, <1>5 DEF SaidOf

\* With the rows, what was said and the seeding as they were, the invariant
\* holds wherever the daemon may be.
LEMMA Quiet ==
  ASSUME IInv, TypeInv', UNCHANGED <<state, verdict, seeded>>,
         \A c \in Shas : SaidOf(c)' = SaidOf(c),
         At(pc'[Daemon], sha'[Daemon], req'[Daemon], word'[Daemon])
  PROVE  IInv' /\ PassStep
<1>1. \A c \in Shas :
        /\ JudgementOf(c)' = JudgementOf(c)
        /\ ShaJudged(c)' <=> ShaJudged(c)
        /\ \A r \in Requests : Judged(<<c, r>>)' <=> Judged(<<c, r>>)
  BY RowsStay
<1>2. PassStep
  BY <1>1 DEF Same, PassStep
<1>3. Backlog'
  BY DEF IInv, Backlog
<1>4. Place'
  <2>1. /\ pc'[Daemon] \notin {"idle", "seed", "meta"} => sha'[Daemon] \in Shas
        /\ req'[Daemon] \in Requests
    BY DEF TypeInv, LocalInv, LocalTypeOK, HasRead, Procs
  <2>2. QED
    BY <1>1, <2>1 DEF Place, At
<1>5. QED
  BY <1>2, <1>3, <1>4, ToldStays DEF IInv

\* Where a move takes the daemon.
LEMMA Went ==
  ASSUME TypeInv
  PROVE  /\ \A l : Goto(Daemon, l) =>
              /\ pc'[Daemon] = l /\ sha'[Daemon] = sha[Daemon]
              /\ req'[Daemon] = req[Daemon] /\ word'[Daemon] = word[Daemon]
         /\ Finish(Daemon) => pc'[Daemon] = "idle"
         /\ \A c, r, w : At("idle", c, r, w)
<1>1. /\ Daemon \in Procs
      /\ pc \in [Procs -> Steps] /\ sha \in [Procs -> Shas \cup {0}]
      /\ req \in [Procs -> Requests] /\ word \in [Procs -> Words]
  BY DEF Procs, TypeInv, TypeOK, LocalTypeOK
<1>2. ASSUME NEW l, Goto(Daemon, l)
      PROVE  /\ pc'[Daemon] = l /\ sha'[Daemon] = sha[Daemon]
             /\ req'[Daemon] = req[Daemon] /\ word'[Daemon] = word[Daemon]
  BY <1>1, <1>2 DEF Goto
<1>3. Finish(Daemon) => pc'[Daemon] = "idle"
  BY <1>1 DEF Finish
<1>4. \A c, r, w : At("idle", c, r, w)
  BY DEF At
<1>5. QED
  BY <1>2, <1>3, <1>4

LEMMA WorldPass ==
  ASSUME IInv, TypeInv', World \/ UNCHANGED vars
  PROVE  IInv' /\ PassStep
<1>1. \A c \in Shas : SaidOf(c)' = SaidOf(c)
  <2>1. UNCHANGED posts
    BY DEF World, Push, Request, Withdraw, Answer, Relabel, Phrase, Build, vars, github
  <2>2. QED
    BY <2>1, SaidStays DEF IInv
<1>2. UNCHANGED <<state, verdict, seeded, pc, sha, req, word>>
  BY DEF World, db, rows, local, vars
<1>3. At(pc'[Daemon], sha'[Daemon], req'[Daemon], word'[Daemon])
  BY <1>2 DEF IInv, Place
<1>4. QED
  BY <1>1, <1>2, <1>3, Quiet

LEMMA GatePass ==
  ASSUME IInv, TypeInv', GateStep(Daemon)
  PROVE  IInv' /\ PassStep
<1>1. UNCHANGED <<state, verdict, seeded, posts>>
  BY DEF GateStep, ReadMeta, ReadRequest, ReadThreads, github, db, rows
<1>2. TypeInv /\ Place /\ Daemon \in Procs
      /\ pc \in [Procs -> Steps] /\ sha \in [Procs -> Shas \cup {0}]
      /\ req \in [Procs -> Requests] /\ word \in [Procs -> Words]
  BY DEF IInv, TypeInv, TypeOK, LocalTypeOK, Procs
<1>3. ASSUME ReadMeta(Daemon) PROVE At(pc'[Daemon], sha'[Daemon], req'[Daemon], word'[Daemon])
  <2>1. seeded
    BY <1>2, <1>3 DEF ReadMeta, Place, At
  <2>2. pc'[Daemon] \in {"idle", "request"}
    BY <1>2, <1>3 DEF ReadMeta, Finish, Read
  <2>3. QED
    BY <2>1, <2>2 DEF At
<1>4. ASSUME ReadRequest(Daemon) PROVE At(pc'[Daemon], sha'[Daemon], req'[Daemon], word'[Daemon])
  <2>1. seeded
    BY <1>2, <1>4 DEF ReadRequest, Place, At
  <2>2. CASE pc'[Daemon] = "idle"
    BY <2>2 DEF At
  <2>3. CASE pc'[Daemon] # "idle"
    <3>1. /\ pc'[Daemon] = "threads" /\ sha'[Daemon] = sha[Daemon] /\ req'[Daemon] = asked
          /\ ~ AlreadyJudged(state[<<sha[Daemon], asked>>])
      BY <1>2, <1>4, <2>3 DEF ReadRequest, Finish
    <3>2. ~ Judged(<<sha[Daemon], asked>>)
      BY <3>1 DEF AlreadyJudged, Judged
    <3>3. QED
      BY <2>1, <3>1, <3>2 DEF At
  <2>4. QED
    BY <2>2, <2>3
<1>5. ASSUME ReadThreads(Daemon) PROVE At(pc'[Daemon], sha'[Daemon], req'[Daemon], word'[Daemon])
  <2> DEFINE d == Evaluate(sha[Daemon] \in empty, ShaJudged(sha[Daemon]), open, word[Daemon] = "red")
             l == CASE d = "review" -> "slot" [] d = "ci note" -> "note" [] OTHER -> "tell"
  <2>1. seeded /\ ~ Judged(<<sha[Daemon], req[Daemon]>>)
    BY <1>2, <1>5 DEF ReadThreads, Place, At
  <2>2. pc'[Daemon] = l /\ sha'[Daemon] = sha[Daemon] /\ req'[Daemon] = req[Daemon]
    BY <1>2, <1>5 DEF ReadThreads, Read
  <2>3. d = "review" => ~ ShaJudged(sha[Daemon])
    BY DEF Evaluate
  <2>4. l \in {"slot", "note", "tell"} /\ (l = "slot" => d = "review")
    OBVIOUS
  <2> HIDE DEF l, d
  <2>5. QED
    BY <2>1, <2>2, <2>3, <2>4 DEF At
<1>6. At(pc'[Daemon], sha'[Daemon], req'[Daemon], word'[Daemon])
  BY <1>3, <1>4, <1>5 DEF GateStep
<1>7. QED
  BY <1>1, <1>2, <1>6, Quiet, SaidStays

\* The row of a hold judges its commit, if no other row had.
LEMMA HeldPass ==
  ASSUME IInv, TypeInv', NEW c \in Shas, NEW r \in Requests, UNCHANGED posts,
         state[<<c, r>>] # "published",
         state' = [state EXCEPT ![<<c, r>>] = "held"],
         \A k \in Keys : k # <<c, r>> => verdict'[k] = verdict[k],
         pc'[Daemon] \in {"idle", "giveup"}, pc'[Daemon] = "giveup" => seeded',
         seeded => seeded'
  PROVE  IInv' /\ PassStep
<1>1. TypeInv /\ <<c, r>> \in Keys /\ JudgementOf(c) \in {"no", "held", "ok", "findings"}
  BY JudgedIsKnown DEF IInv, Keys
<1>2. /\ JudgementOf(c)' = IF JudgementOf(c) = "no" THEN "held" ELSE JudgementOf(c)
      /\ \A d \in Shas : d # c => JudgementOf(d)' = JudgementOf(d)
  BY <1>1, HeldJudges
<1>3. \A d \in Shas : SaidOf(d)' = SaidOf(d)
  BY <1>1, SaidStays
<1>4. PassStep
  BY <1>2, <1>3 DEF PassStep, Same, Judges
<1>5. Place'
  BY DEF Place, At
<1>6. Backlog'
  <2>1. state \in [Keys -> States]
    BY <1>1 DEF TypeInv, TypeOK, DbTypeOK
  <2>2. seeded \/ \A k \in Keys : state[k] \in {"none", "held"}
    BY DEF IInv, Backlog
  <2>3. QED
    BY <2>1, <2>2 DEF Backlog
<1>7. QED
  BY <1>4, <1>5, <1>6, ToldStays DEF IInv

LEMMA TickPass ==
  ASSUME IInv, TypeInv', DaemonTick
  PROVE  IInv' /\ PassStep
<1>1. TypeInv /\ Daemon \in Procs /\ pc \in [Procs -> Steps] /\ sha \in [Procs -> Shas \cup {0}]
  BY DEF IInv, TypeInv, TypeOK, LocalTypeOK, Procs
<1>2. UNCHANGED posts
  BY DEF DaemonTick, Poll, SeedMeta, SeedRow, github
<1>3. \A c \in Shas : SaidOf(c)' = SaidOf(c)
  BY <1>1, <1>2, SaidStays
<1>4. CASE Poll
  <2>1. UNCHANGED <<state, verdict>>
    BY <1>4 DEF Poll, rows
  <2>2. \/ seeded /\ Goto(Daemon, "meta") /\ UNCHANGED seeded
        \/ ~ seeded /\ Goto(Daemon, "seed") /\ UNCHANGED seeded
        \/ seeded' = TRUE /\ UNCHANGED local /\ pc[Daemon] = "idle"
    BY <1>4 DEF Poll
  <2>3. CASE UNCHANGED seeded
    <3>1. (pc'[Daemon] = "meta" /\ seeded) \/ (pc'[Daemon] = "seed" /\ ~ seeded) \/ pc'[Daemon] = "idle"
      BY <1>1, <2>2, Went DEF local
    <3>2. At(pc'[Daemon], sha'[Daemon], req'[Daemon], word'[Daemon])
      BY <3>1 DEF At
    <3>3. QED
      BY <1>3, <2>1, <2>3, <3>2, Quiet
  <2>4. CASE seeded' = TRUE /\ UNCHANGED local /\ pc[Daemon] = "idle"
    <3>1. PassStep
      BY <1>3, <2>1, RowsStay DEF PassStep, Same
    <3>2. Place' /\ Backlog'
      BY <2>4 DEF Place, At, Backlog, local
    <3>3. QED
      BY <3>1, <3>2, ToldStays DEF IInv
  <2>5. QED
    BY <2>2, <2>3, <2>4
<1>5. CASE SeedMeta
  <2>1. UNCHANGED <<state, verdict, seeded>> /\ pc[Daemon] = "seed" /\ pc'[Daemon] = "backlog"
    BY <1>1, <1>5 DEF SeedMeta, db, rows
  <2>2. ~ seeded
    BY <2>1 DEF IInv, Place, At
  <2>3. At(pc'[Daemon], sha'[Daemon], req'[Daemon], word'[Daemon])
    BY <2>1, <2>2 DEF At
  <2>4. QED
    BY <1>3, <2>1, <2>3, Quiet
<1>6. CASE SeedRow
  <2>1. /\ pc[Daemon] = "backlog" /\ RecordHold(<<sha[Daemon], asked>>)
        /\ Finish(Daemon)
    BY <1>6 DEF SeedRow
  <2>2. ~ seeded /\ sha[Daemon] \in Shas /\ asked \in Requests /\ <<sha[Daemon], asked>> \in Keys
    BY <1>1, <2>1, HasKey DEF IInv, Place, At, TypeInv, TypeOK, GithubTypeOK, Keys
  <2>3. state[<<sha[Daemon], asked>>] # "published"
    BY <2>2 DEF IInv, Backlog
  <2>4. /\ state' = [state EXCEPT ![<<sha[Daemon], asked>>] = "held"]
        /\ \A k \in Keys : k # <<sha[Daemon], asked>> => verdict'[k] = verdict[k]
    BY <1>1, <2>1 DEF RecordHold, Replace, TypeInv, TypeOK, DbTypeOK
  <2>5. pc'[Daemon] = "idle"
    BY <1>1, <2>1, Went
  <2>6. QED
    BY <1>2, <2>2, <2>3, <2>4, <2>5, HeldPass
<1>7. QED
  BY <1>4, <1>5, <1>6 DEF DaemonTick

LEMMA HoldPass ==
  ASSUME IInv, TypeInv', HoldStep(Daemon)
  PROVE  IInv' /\ PassStep
<1>1. TypeInv /\ Daemon \in Procs
  BY DEF IInv, Procs
<1>2. pc[Daemon] \in {"tell", "telling", "note", "noting"}
  BY DEF HoldStep, Tell, Telling, NoteRed, OncePer, PostRed
<1>3. seeded /\ sha[Daemon] \in Shas /\ req[Daemon] \in Requests
  BY <1>1, <1>2, HasKey DEF IInv, Place, At
<1>4. ASSUME pc[Daemon] \in {"tell", "telling"}, Hold(Daemon), Finish(Daemon), UNCHANGED <<posts, seeded>>
      PROVE  IInv' /\ PassStep
  <2>1. pc'[Daemon] = "idle"
    BY <1>1, <1>4, Went
  <2>2. CASE UNCHANGED rows
    <3>1. At(pc'[Daemon], sha'[Daemon], req'[Daemon], word'[Daemon])
      BY <2>1, Went, <1>1
    <3>2. QED
      BY <1>1, <1>4, <2>2, <3>1, Quiet, SaidStays DEF rows
  <2>3. CASE RecordHold(Key(Daemon))
    <3>1. /\ state' = [state EXCEPT ![<<sha[Daemon], req[Daemon]>>] = "held"]
          /\ \A k \in Keys : k # <<sha[Daemon], req[Daemon]>> => verdict'[k] = verdict[k]
      BY <1>1, <2>3 DEF RecordHold, Replace, Key, TypeInv, TypeOK, DbTypeOK
    <3>2. state[<<sha[Daemon], req[Daemon]>>] # "published"
      BY <1>4 DEF IInv, Place, At, Judged
    <3>3. QED
      BY <1>3, <1>4, <2>1, <3>1, <3>2, HeldPass
  <2>4. QED
    BY <1>4, <2>2, <2>3 DEF Hold
<1>5. CASE Tell(Daemon)
  <2>1. CASE Notified(word[Daemon]) /\ Key(Daemon) \notin dmed
    <3>1. Goto(Daemon, "telling") /\ UNCHANGED <<state, verdict, seeded, posts>> /\ pc[Daemon] = "tell"
      BY <1>5, <2>1 DEF Tell, rows, github
    <3>2. At(pc'[Daemon], sha'[Daemon], req'[Daemon], word'[Daemon])
      <4>1. ~ Judged(<<sha[Daemon], req[Daemon]>>)
        BY <3>1 DEF IInv, Place, At
      <4>2. pc'[Daemon] = "telling" /\ sha'[Daemon] = sha[Daemon] /\ req'[Daemon] = req[Daemon]
        BY <1>1, <3>1, Went
      <4>3. QED
        BY <1>3, <4>1, <4>2 DEF At
    <3>3. QED
      BY <1>1, <3>1, <3>2, Quiet, SaidStays
  <2>2. CASE ~ (Notified(word[Daemon]) /\ Key(Daemon) \notin dmed)
    <3>1. pc[Daemon] = "tell" /\ Hold(Daemon) /\ Finish(Daemon) /\ UNCHANGED <<posts, seeded>>
      BY <1>5, <2>2 DEF Tell, github
    <3>2. QED
      BY <1>4, <3>1
  <2>3. QED
    BY <2>1, <2>2
<1>6. CASE Telling(Daemon)
  <2>1. pc[Daemon] = "telling" /\ Hold(Daemon) /\ Finish(Daemon) /\ UNCHANGED <<posts, seeded>>
    BY <1>6 DEF Telling, github
  <2>2. QED
    BY <1>4, <2>1
<1>7. CASE NoteRed(Daemon)
  <2>1. UNCHANGED <<state, verdict, seeded, posts>> /\ (Finish(Daemon) \/ Goto(Daemon, "noting"))
    BY <1>7 DEF NoteRed, OncePer, db, rows, github
  <2>2. pc'[Daemon] \in {"idle", "noting"}
    BY <1>1, <2>1, Went
  <2>3. At(pc'[Daemon], sha'[Daemon], req'[Daemon], word'[Daemon])
    BY <1>3, <2>2 DEF At
  <2>4. QED
    BY <1>1, <2>1, <2>3, Quiet, SaidStays
<1>8. CASE PostRed(Daemon)
  <2>1. UNCHANGED <<state, verdict, seeded>> /\ Finish(Daemon) /\ NoteLands("ci-red", Daemon)
    BY <1>8 DEF PostRed, rows
  <2>2. At(pc'[Daemon], sha'[Daemon], req'[Daemon], word'[Daemon])
    BY <1>1, <2>1, Went
  <2>3. QED
    BY <1>1, <2>1, <2>2, Quiet, SaidStays
<1>9. QED
  BY <1>5, <1>6, <1>7, <1>8 DEF HoldStep

\* The row of a verdict judges its commit, before the PR hears of it.
LEMMA VerdictPass ==
  ASSUME IInv, TypeInv', NEW c \in Shas, NEW r \in Requests, NEW v \in Verdicts,
         \A d \in Shas : SaidOf(d)' = SaidOf(d), seeded, UNCHANGED seeded,
         ~ ShaJudged(c), state[<<c, r>>] = "running",
         FinishReview(<<c, r>>, "published", v),
         sha'[Daemon] = c, req'[Daemon] = r,
         pc'[Daemon] = IF v = "ok" THEN "announce" ELSE "publish",
         v # "ok" => word'[Daemon] = v
  PROVE  IInv' /\ PassStep
<1>1. /\ TypeInv /\ <<c, r>> \in Keys
      /\ state \in [Keys -> States] /\ verdict \in [Keys -> Verdicts \cup {""}]
      /\ v # ""
  BY DEF IInv, TypeInv, TypeOK, DbTypeOK, Keys, Verdicts
<1>2. /\ state' = [state EXCEPT ![<<c, r>>] = "published"]
      /\ state'[<<c, r>>] = "published" /\ verdict'[<<c, r>>] = v
      /\ \A k \in Keys : k # <<c, r>> => verdict'[k] = verdict[k]
  BY <1>1 DEF FinishReview
<1>3. /\ JudgementOf(c)' = IF v = "ok" THEN "ok" ELSE "findings"
      /\ \A d \in Shas : d # c => JudgementOf(d)' = JudgementOf(d)
  BY <1>1, <1>2, PublishedJudges
<1>4. JudgementOf(c) = "no"
  BY <1>1, JudgedIsKnown
<1>5. PassStep
  BY <1>3, <1>4 DEF PassStep, Judges
<1>6. SaidOf(c)' = "nothing"
  BY <1>4 DEF IInv, Told
<1>7. Place'
  BY <1>2, <1>3, <1>6 DEF Place, At
<1>8. QED
  BY <1>5, <1>7, ToldStays DEF IInv, Backlog

LEMMA RunPass ==
  ASSUME IInv, TypeInv', RunStep(Daemon) \/ TurnedAway(Daemon) \/ RunFails(Daemon)
  PROVE  IInv' /\ PassStep
<1> DEFINE c == sha[Daemon]
           r == req[Daemon]
<1>1. /\ TypeInv /\ Daemon \in Procs
      /\ state \in [Keys -> States] /\ verdict \in [Keys -> Verdicts \cup {""}]
  BY DEF IInv, Procs, TypeInv, TypeOK, DbTypeOK
<1>2. pc[Daemon] \in {"slot", "running", "giveup"} /\ UNCHANGED <<posts, seeded>>
  BY DEF RunStep, TakeSlot, RunUnusable, RunApproves, RunFinds, GiveUp, TurnedAway, RunFails, db, github
<1>3. seeded /\ c \in Shas /\ r \in Requests /\ <<c, r>> \in Keys /\ Key(Daemon) = <<c, r>>
  BY <1>1, <1>2, HasKey DEF IInv, Place, At, Key, Keys
<1>4. \A d \in Shas : SaidOf(d)' = SaidOf(d)
  BY <1>1, <1>2, SaidStays
<1>5. pc[Daemon] \in {"slot", "running"} => ~ ShaJudged(c)
  BY DEF IInv, Place, At
<1>6. pc[Daemon] = "running" => state[<<c, r>>] = "running"
  BY DEF IInv, Place, At
<1>7. \A d \in Shas, q \in Requests : <<d, q>> \in Keys
  BY DEF Keys
<1> HIDE DEF c, r
<1>8. CASE TakeSlot(Daemon)
  <2>1. /\ pc[Daemon] = "slot" /\ Goto(Daemon, "running")
        /\ state' = [state EXCEPT ![<<c, r>>] = "running"]
        /\ verdict' = [verdict EXCEPT ![<<c, r>>] = ""]
    BY <1>3, <1>8 DEF TakeSlot, StartReview, Replace
  <2>2. state[<<c, r>>] # "published" /\ state[<<c, r>>] # "held"
    BY <1>3, <1>5, <2>1 DEF ShaJudged, Judged
  <2>3. \A d \in Shas :
          /\ JudgementOf(d)' = JudgementOf(d)
          /\ ShaJudged(d)' <=> ShaJudged(d)
    <3>1. \A d \in Shas, q \in Requests :
           /\ state'[<<d, q>>] = "published" <=> state[<<d, q>>] = "published"
           /\ state'[<<d, q>>] = "held" <=> state[<<d, q>>] = "held"
           /\ state[<<d, q>>] = "published" => verdict'[<<d, q>>] = verdict[<<d, q>>]
      BY <1>1, <1>7, <2>1, <2>2
    <3>2. QED
      BY <3>1, RowsStay
  <2>4. Place'
    <3>1. pc'[Daemon] = "running" /\ sha'[Daemon] = c /\ req'[Daemon] = r
      BY <1>1, <2>1, Went DEF c, r
    <3>2. state'[<<c, r>>] = "running"
      BY <1>1, <1>3, <2>1
    <3>3. QED
      BY <1>2, <1>3, <1>5, <2>1, <2>3, <3>1, <3>2 DEF Place, At
  <2>5. QED
    BY <1>2, <1>3, <1>4, <2>3, <2>4, ToldStays DEF PassStep, Same, IInv, Backlog
<1>9. CASE RunFails(Daemon)
  <2>1. /\ pc[Daemon] = "running" /\ Goto(Daemon, "giveup")
        /\ state' = [state EXCEPT ![<<c, r>>] = "failed"]
        /\ verdict' = verdict
    BY <1>1, <1>3, <1>6, <1>9 DEF RunFails, FinishReview
  <2>2. \A d \in Shas : JudgementOf(d)' = JudgementOf(d)
    <3>1. \A d \in Shas, q \in Requests :
           /\ state'[<<d, q>>] = "published" <=> state[<<d, q>>] = "published"
           /\ state'[<<d, q>>] = "held" <=> state[<<d, q>>] = "held"
           /\ verdict'[<<d, q>>] = verdict[<<d, q>>]
      BY <1>1, <1>6, <1>7, <2>1
    <3>2. QED
      BY <3>1, RowsStay
  <2>3. Place'
    <3>1. pc'[Daemon] = "giveup"
      BY <1>1, <2>1, Went
    <3>2. QED
      BY <1>2, <1>3, <3>1 DEF Place, At
  <2>4. QED
    BY <1>2, <1>3, <1>4, <2>2, <2>3, ToldStays DEF PassStep, Same, IInv, Backlog
<1>10. CASE RunUnusable(Daemon)
  <2>1. /\ pc[Daemon] = "running" /\ Goto(Daemon, "giveup")
        /\ state' = [state EXCEPT ![<<c, r>>] = "held"]
        /\ \A k \in Keys : k # <<c, r>> => verdict'[k] = verdict[k]
    BY <1>1, <1>3, <1>6, <1>10 DEF RunUnusable, FinishReview
  <2>2. pc'[Daemon] = "giveup" /\ state[<<c, r>>] # "published"
    BY <1>1, <1>6, <2>1, Went
  <2>3. QED
    BY <1>2, <1>3, <2>1, <2>2, HeldPass
<1>11. CASE RunFinds(Daemon)
  <2>1. PICK v \in {"needs-work", "comment"} :
          FinishReview(<<c, r>>, "published", v) /\ Read(Daemon, "publish", v)
    BY <1>3, <1>11 DEF RunFinds
  <2>2. pc'[Daemon] = "publish" /\ word'[Daemon] = v /\ sha'[Daemon] = c /\ req'[Daemon] = r
    BY <1>1, <1>11, <2>1 DEF RunFinds, Read, c, r, TypeInv, TypeOK, LocalTypeOK
  <2>3. v \in Verdicts /\ v # "ok" /\ pc[Daemon] = "running"
    BY <1>11 DEF Verdicts, RunFinds
  <2>4. QED
    BY <1>2, <1>3, <1>4, <1>5, <1>6, <2>1, <2>2, <2>3, VerdictPass
<1>12. CASE RunApproves(Daemon) \/ GiveUp(Daemon) \/ TurnedAway(Daemon)
  <2>1. /\ UNCHANGED <<state, verdict, seeded>>
        /\ \/ pc[Daemon] = "running" /\ Goto(Daemon, "clear")
           \/ Finish(Daemon)
    BY <1>12 DEF RunApproves, GiveUp, TurnedAway, db, rows
  <2>2. At(pc'[Daemon], sha'[Daemon], req'[Daemon], word'[Daemon])
    <3>1. CASE Finish(Daemon)
      BY <1>1, <3>1, Went
    <3>2. CASE pc[Daemon] = "running" /\ Goto(Daemon, "clear")
      <4>1. pc'[Daemon] = "clear" /\ sha'[Daemon] = c /\ req'[Daemon] = r
        BY <1>1, <3>2, Went DEF c, r
      <4>2. QED
        BY <1>3, <1>5, <1>6, <3>2, <4>1 DEF At
    <3>3. QED
      BY <2>1, <3>1, <3>2
  <2>3. QED
    BY <1>4, <2>1, <2>2, Quiet
<1>13. QED
  BY <1>8, <1>9, <1>10, <1>11, <1>12 DEF RunStep

LEMMA OkPass ==
  ASSUME IInv, TypeInv', OkStep(Daemon) \/ RetractFails(Daemon)
  PROVE  IInv' /\ PassStep
<1>1. TypeInv /\ Daemon \in Procs
  BY DEF IInv, Procs
<1>2. pc[Daemon] \in {"clear", "unlabel", "retract", "ask", "asking", "warn", "announce", "announcing"}
  BY DEF OkStep, RetractFails, ReadLabels, Unlabel, Retract, AlreadyBuilding, NeedsBuild, AskCi,
         Warn, Announce, OncePer, PostApproval
<1>p. PICK c \in Shas, r \in Requests : c = sha[Daemon] /\ r = req[Daemon]
  BY <1>1, <1>2, HasKey
<1>3. seeded /\ Key(Daemon) = <<c, r>>
  BY <1>2, <1>p DEF IInv, Place, At, Key
<1>4. pc[Daemon] \in {"clear", "unlabel", "retract", "ask", "asking", "warn"} =>
        ~ ShaJudged(c) /\ state[<<c, r>>] = "running"
  BY <1>p DEF IInv, Place, At
<1>5. pc[Daemon] \in {"announce", "announcing"} => JudgementOf(c) = "ok" /\ SaidOf(c) = "nothing"
  BY <1>p DEF IInv, Place, At
<1>6. CASE ReadLabels(Daemon) \/ Unlabel(Daemon) \/ Retract(Daemon) \/ NeedsBuild(Daemon) \/ RetractFails(Daemon)
  <2>1. /\ UNCHANGED <<state, verdict, seeded, posts>>
        /\ pc[Daemon] \in {"clear", "unlabel", "retract", "ask"}
        /\ \E l \in {"unlabel", "retract", "ask", "asking"} : Goto(Daemon, l)
    BY <1>6 DEF ReadLabels, Unlabel, Retract, NeedsBuild, RetractFails, LabelsBecome, VetoFalls,
                db, rows, github
  <2>2. pc'[Daemon] \in {"unlabel", "retract", "ask", "asking"} /\ sha'[Daemon] = c /\ req'[Daemon] = r
    BY <1>1, <1>p, <2>1, Went
  <2>3. At(pc'[Daemon], sha'[Daemon], req'[Daemon], word'[Daemon])
    BY <1>3, <1>4, <2>1, <2>2 DEF At
  <2>4. QED
    BY <1>1, <2>1, <2>3, Quiet, SaidStays
<1>7. CASE AlreadyBuilding(Daemon) \/ AskCi(Daemon) \/ Warn(Daemon)
  <2>1. /\ pc[Daemon] \in {"ask", "asking", "warn"} /\ UNCHANGED seeded
        /\ FinishReview(<<c, r>>, "published", "ok") /\ Goto(Daemon, "announce")
        /\ UNCHANGED posts \/ PhraseLands(Daemon)
    BY <1>3, <1>7 DEF AlreadyBuilding, AskCi, Warn, Approve, github
  <2>2. pc'[Daemon] = "announce" /\ sha'[Daemon] = c /\ req'[Daemon] = r
    BY <1>1, <1>p, <2>1, Went
  <2>3. \A d \in Shas : SaidOf(d)' = SaidOf(d)
    BY <1>1, <2>1, SaidStays
  <2>4. "ok" \in Verdicts
    BY DEF Verdicts
  <2>5. QED
    BY <1>3, <1>4, <2>1, <2>2, <2>3, <2>4, VerdictPass
<1>8. CASE Announce(Daemon)
  <2>1. /\ UNCHANGED <<state, verdict, seeded, posts>> /\ pc[Daemon] = "announce"
        /\ Finish(Daemon) \/ Goto(Daemon, "announcing")
    BY <1>8 DEF Announce, OncePer, db, rows, github
  <2>2. pc'[Daemon] = "idle" \/ (pc'[Daemon] = "announcing" /\ sha'[Daemon] = c)
    BY <1>1, <1>p, <2>1, Went
  <2>3. At(pc'[Daemon], sha'[Daemon], req'[Daemon], word'[Daemon])
    BY <1>3, <1>5, <2>1, <2>2 DEF At
  <2>4. QED
    BY <1>1, <2>1, <2>3, Quiet, SaidStays
<1>9. CASE PostApproval(Daemon)
  <2>1. /\ UNCHANGED <<rows, seeded>> /\ Finish(Daemon)
        /\ Comment("approved", c) /\ pc[Daemon] = "announcing"
    BY <1>9, <1>p DEF PostApproval, NoteLands
  <2>2. \A d \in Shas : JudgementOf(d)' = JudgementOf(d)
    BY <2>1, RowsStay DEF rows
  <2>3. Says(c)
    BY <1>1, <1>3, <1>5, <2>1, <2>2, SaidNow DEF Says
  <2>4. Place' /\ Backlog'
    <3>1. pc'[Daemon] = "idle"
      BY <1>1, <2>1, Went
    <3>2. QED
      BY <1>3, <2>1, <3>1 DEF Place, At, Backlog
  <2>5. QED
    BY <1>3, <2>3, <2>4, ToldStays DEF PassStep, IInv
<1>10. QED
  BY <1>6, <1>7, <1>8, <1>9 DEF OkStep

\* The review lands, whether the daemon hears of it or not.
LEMMA ReviewPass ==
  ASSUME IInv, TypeInv', pc[Daemon] = "posting", ReviewLands(Daemon),
         UNCHANGED <<state, verdict, seeded>>,
         Goto(Daemon, "label") \/ Goto(Daemon, "giveup")
  PROVE  IInv' /\ PassStep
<1>p. PICK c \in Shas, r \in Requests : c = sha[Daemon] /\ r = req[Daemon]
  BY HasKey DEF IInv, Procs
<1>1. TypeInv /\ seeded
  BY DEF IInv, Place, At
<1>2. /\ state[<<c, r>>] = "published" /\ verdict[<<c, r>>] = word[Daemon]
      /\ JudgementOf(c) = "findings" /\ SaidOf(c) = "nothing"
  BY <1>p DEF IInv, Place, At
<1>3. \A d \in Shas : JudgementOf(d)' = JudgementOf(d)
  BY RowsStay
<1>4. Comment("review", c)
  BY <1>p DEF ReviewLands
<1>5. /\ SaidOf(c)' = "changes" /\ \A d \in Shas : d # c => SaidOf(d)' = SaidOf(d)
  BY <1>1, <1>2, <1>4, SaidNow
<1>6. Says(c)
  BY <1>2, <1>3, <1>5 DEF Says
<1>7. Place' /\ Backlog'
  <2>1. /\ pc'[Daemon] \in {"label", "giveup"} /\ sha'[Daemon] = c /\ req'[Daemon] = r
        /\ word'[Daemon] = word[Daemon]
    BY <1>1, <1>p, Went
  <2>2. Backlog'
    BY <1>1 DEF Backlog
  <2>3. CASE pc'[Daemon] = "giveup"
    BY <1>1, <2>2, <2>3 DEF Place, At
  <2>4. CASE pc'[Daemon] = "label"
    <3>1. state'[<<c, r>>] = "published" /\ verdict'[<<c, r>>] = word'[Daemon] /\ JudgementOf(c)' = "findings"
      BY <1>1, <1>2, <1>3, <2>1
    <3>2. QED
      BY <1>1, <1>5, <2>1, <2>2, <2>4, <3>1 DEF Place, At
  <2>5. QED
    BY <2>1, <2>3, <2>4
<1>8. QED
  BY <1>1, <1>6, <1>7, ToldStays DEF PassStep, IInv

LEMMA FindingsPass ==
  ASSUME IInv, TypeInv', FindingsStep(Daemon)
  PROVE  IInv' /\ PassStep
<1>1. TypeInv /\ Daemon \in Procs
  BY DEF IInv, Procs
<1>2. pc[Daemon] \in {"publish", "posting", "label"}
  BY DEF FindingsStep, Publish, OncePer, PostReview, SetLabel
<1>p. PICK c \in Shas, r \in Requests : c = sha[Daemon] /\ r = req[Daemon]
  BY <1>1, <1>2, HasKey
<1>3. /\ seeded /\ <<c, r>> \in Keys /\ Key(Daemon) = <<c, r>>
      /\ word[Daemon] # ""
  BY <1>1, <1>2, <1>p, HasKey DEF IInv, Place, At, Key, Keys, TypeInv, LocalInv, HasWord
<1>4. /\ state[<<c, r>>] = "published" /\ verdict[<<c, r>>] = word[Daemon]
      /\ JudgementOf(c) = "findings"
  BY <1>2, <1>p DEF IInv, Place, At
<1>5. CASE Publish(Daemon)
  <2>1. /\ UNCHANGED <<state, verdict, seeded, posts>> /\ pc[Daemon] = "publish"
        /\ Finish(Daemon) \/ Goto(Daemon, "posting")
    BY <1>5 DEF Publish, OncePer, db, rows, github
  <2>2. SaidOf(c) = "nothing"
    BY <1>p, <2>1 DEF IInv, Place, At
  <2>3. \/ pc'[Daemon] = "idle"
        \/ /\ pc'[Daemon] = "posting" /\ sha'[Daemon] = c /\ req'[Daemon] = r
           /\ word'[Daemon] = word[Daemon]
    BY <1>1, <1>p, <2>1, Went
  <2>4. At(pc'[Daemon], sha'[Daemon], req'[Daemon], word'[Daemon])
    BY <1>3, <1>4, <2>2, <2>3 DEF At
  <2>5. QED
    BY <1>1, <2>1, <2>4, Quiet, SaidStays
<1>6. CASE PostReview(Daemon)
  BY <1>6, ReviewPass DEF PostReview, db, rows
<1>7. CASE SetLabel(Daemon)
  <2>1. /\ UNCHANGED posts /\ UNCHANGED seeded /\ Finish(Daemon)
        /\ FinishReview(<<c, r>>, "published", word[Daemon])
    BY <1>3, <1>7 DEF SetLabel, LabelsBecome
  <2>2. state' = state /\ verdict' = verdict
    BY <1>1, <1>3, <1>4, <2>1 DEF FinishReview, TypeInv, TypeOK, DbTypeOK
  <2>3. At(pc'[Daemon], sha'[Daemon], req'[Daemon], word'[Daemon])
    BY <1>1, <2>1, Went
  <2>4. QED
    BY <1>1, <2>1, <2>2, <2>3, Quiet, SaidStays
<1>8. QED
  BY <1>5, <1>6, <1>7 DEF FindingsStep

LEMMA FaultPass ==
  ASSUME IInv, TypeInv', Refused(Daemon) \/ Lost(Daemon) \/ Crash(Daemon)
  PROVE  IInv' /\ PassStep
<1>1. TypeInv /\ Daemon \in Procs
  BY DEF IInv, Procs
<1>2. ASSUME Raise(Daemon)
      PROVE  At(pc'[Daemon], sha'[Daemon], req'[Daemon], word'[Daemon])
  <2>1. CASE Finish(Daemon)
    BY <1>1, <2>1, Went
  <2>2. CASE pc[Daemon] \in {"posting", "label"} /\ Goto(Daemon, "giveup")
    <3>1. seeded /\ pc'[Daemon] = "giveup"
      BY <1>1, <2>2, Went DEF IInv, Place, At
    <3>2. QED
      BY <3>1 DEF At
  <2>3. CASE pc[Daemon] = "asking" /\ Goto(Daemon, "warn")
    <3>1. /\ pc'[Daemon] = "warn" /\ sha'[Daemon] = sha[Daemon] /\ req'[Daemon] = req[Daemon]
      BY <1>1, <2>3, Went
    <3>2. /\ seeded /\ ~ ShaJudged(sha[Daemon])
          /\ state[<<sha[Daemon], req[Daemon]>>] = "running"
      BY <2>3 DEF IInv, Place, At
    <3>3. QED
      BY <3>1, <3>2 DEF At
  <2>4. QED
    BY <1>2, <2>1, <2>2, <2>3 DEF Raise
<1>3. CASE Refused(Daemon)
  <2>1. Raise(Daemon) /\ UNCHANGED <<state, verdict, seeded, posts>>
    BY <1>3 DEF Refused, db, rows, github
  <2>2. QED
    BY <1>1, <1>2, <2>1, Quiet, SaidStays
<1>4. CASE Lost(Daemon)
  <2>1. Raise(Daemon) /\ UNCHANGED <<state, verdict, seeded, rows>>
    BY <1>4 DEF Lost, db, rows
  <2>2. CASE pc[Daemon] \in {"noting", "unlabel", "asking", "label"}
    <3>1. NoteLands("ci-red", Daemon) \/ PhraseLands(Daemon) \/ UNCHANGED posts
      BY <1>4, <2>2 DEF Lost, LabelsBecome
    <3>2. QED
      BY <1>1, <1>2, <2>1, <3>1, Quiet, SaidStays
  <2>3. CASE pc[Daemon] = "posting"
    <3>1. ReviewLands(Daemon)
      BY <1>4, <2>3 DEF Lost
    <3>2. Goto(Daemon, "giveup")
      BY <2>1, <2>3 DEF Raise, Escapes
    <3>3. QED
      BY <2>1, <2>3, <3>1, <3>2, ReviewPass
  <2>4. CASE pc[Daemon] = "announcing"
    <3>1. PICK c \in Shas : c = sha[Daemon]
      BY <1>1, <2>4, HasKey
    <3>2. JudgementOf(c) = "ok" /\ SaidOf(c) = "nothing" /\ seeded
      BY <2>4, <3>1 DEF IInv, Place, At
    <3>3. Comment("approved", c)
      BY <1>4, <2>4, <3>1 DEF Lost, NoteLands
    <3>4. \A d \in Shas : JudgementOf(d)' = JudgementOf(d)
      BY <2>1, RowsStay
    <3>5. Says(c)
      BY <1>1, <3>2, <3>3, <3>4, SaidNow DEF Says
    <3>6. Place' /\ Backlog'
      <4>1. Finish(Daemon)
        BY <2>1, <2>4 DEF Raise, Escapes
      <4>2. pc'[Daemon] = "idle"
        BY <1>1, <4>1, Went
      <4>3. QED
        BY <2>1, <3>2, <4>2 DEF Place, At, Backlog
    <3>7. QED
      BY <3>5, <3>6, ToldStays DEF PassStep, IInv
  <2>5. QED
    BY <1>4, <2>2, <2>3, <2>4 DEF Lost
<1>5. CASE Crash(Daemon)
  <2>1. /\ pc'[Daemon] = "idle" /\ UNCHANGED <<posts, verdict, seeded>>
        /\ state' = [k \in Keys |-> IF state[k] = "running" THEN "failed" ELSE state[k]]
    BY <1>1, <1>5, Went DEF Crash, ReapRunning, github, notices
  <2>2. state \in [Keys -> States] /\ \A d \in Shas, q \in Requests : <<d, q>> \in Keys
    BY <1>1 DEF TypeInv, TypeOK, DbTypeOK, Keys
  <2>3. \A d \in Shas, q \in Requests :
          /\ state'[<<d, q>>] = "published" <=> state[<<d, q>>] = "published"
          /\ state'[<<d, q>>] = "held" <=> state[<<d, q>>] = "held"
    BY <2>1, <2>2
  <2>4. PassStep
    BY <1>1, <2>1, <2>3, RowsStay, SaidStays DEF PassStep, Same
  <2>5. Place' /\ Backlog'
    BY <2>1, <2>2 DEF Place, At, IInv, Backlog
  <2>6. QED
    BY <2>4, <2>5, ToldStays DEF IInv
<1>6. QED
  BY <1>3, <1>4, <1>5

LEMMA InitPass == Init => IInv /\ Promise!Init
<1> SUFFICES ASSUME Init PROVE IInv /\ Promise!Init
  OBVIOUS
<1>1. TypeInv
  BY InitTyped
<1>2. ASSUME NEW c \in Shas PROVE JudgementOf(c) = "no" /\ SaidOf(c) = "nothing"
  <2>1. \A r \in Requests : state[<<c, r>>] # "published" /\ state[<<c, r>>] # "held"
    BY DEF Init, DbInit, Keys
  <2>2. posts[<<"review", c>>] = 0 /\ posts[<<"approved", c>>] = 0
    BY DEF Init, Posts, Kinds
  <2>3. QED
    <3>1. ~ ShaJudged(c)
      BY <2>1 DEF ShaJudged, Judged
    <3>2. JudgementOf(c) = "no"
      BY <2>1, <3>1 DEF JudgementOf
    <3>3. SaidOf(c) = "nothing"
      BY <2>2 DEF SaidOf
    <3>4. QED
      BY <3>2, <3>3
<1>3. pc[Daemon] = "idle"
  BY DEF Init, Procs
<1>4. Place /\ Backlog
  BY <1>3 DEF Place, At, Backlog, Init, DbInit
<1>5. Promise!Init
  BY <1>2 DEF Promise!Init
<1>6. QED
  BY <1>1, <1>2, <1>4, <1>5 DEF IInv, Told

LEMMA NextPass ==
  ASSUME Forced = {}, IInv, [Next]_vars
  PROVE  IInv' /\ PassStep
<1>1. TypeInv'
  BY NextTyped DEF IInv
<1>2. Procs = {Daemon}
  BY DEF Procs
<1>3. CASE World \/ UNCHANGED vars
  BY <1>1, <1>3, WorldPass
<1>4. CASE DaemonTick
  BY <1>1, <1>4, TickPass
<1>5. CASE Advance(Daemon) \/ Fault(Daemon)
  <2>1. \/ GateStep(Daemon) \/ HoldStep(Daemon) \/ FindingsStep(Daemon)
        \/ RunStep(Daemon) \/ TurnedAway(Daemon) \/ RunFails(Daemon)
        \/ OkStep(Daemon) \/ RetractFails(Daemon)
        \/ Refused(Daemon) \/ Lost(Daemon) \/ Crash(Daemon)
    BY <1>5 DEF Advance, Fault
  <2>2. QED
    BY <1>1, <2>1, GatePass, HoldPass, FindingsPass, RunPass, OkPass, FaultPass
<1>6. QED
  BY <1>2, <1>3, <1>4, <1>5 DEF Next, Calm

\* A step of the rows and posts is a step of the promise, or none.
LEMMA PassImplements ==
  ASSUME IInv, PassStep
  PROVE  [Promise!Next]_(Promise!vars)
<1> DEFINE j == [c \in Shas |-> JudgementOf(c)]
           s == [c \in Shas |-> SaidOf(c)]
<1>1. CASE Same
  <2>1. j' = j /\ s' = s
    BY <1>1 DEF Same
  <2>2. QED
    BY <2>1 DEF Promise!vars
<1>2. CASE \E c \in Shas : Judges(c)
  <2>1. PICK c \in Shas : Judges(c)
    BY <1>2
  <2>2. s' = s /\ j[c] = "no"
    BY <2>1 DEF Judges
  <2>3. \E h \in {"held", "ok", "findings"} : j' = [j EXCEPT ![c] = h]
    <3>1. j' = [j EXCEPT ![c] = JudgementOf(c)']
      BY <2>1 DEF Judges
    <3>2. QED
      BY <2>1, <3>1 DEF Judges
  <2>4. Promise!Judge(c)
    BY <2>2, <2>3 DEF Promise!Judge
  <2>5. QED
    BY <2>4 DEF Promise!Next
<1>3. CASE \E c \in Shas : Says(c)
  <2>1. PICK c \in Shas : Says(c)
    BY <1>3
  <2>2. j' = j /\ s[c] = "nothing"
    BY <2>1 DEF Says
  <2>3. s' = [s EXCEPT ![c] = SaidOf(c)']
    BY <2>1 DEF Says
  <2>4. Promise!Say(c, "ok", "approval") \/ Promise!Say(c, "findings", "changes")
    BY <2>1, <2>2, <2>3 DEF Says, Promise!Say
  <2>5. QED
    BY <2>4 DEF Promise!Next
<1>4. QED
  BY <1>1, <1>2, <1>3 DEF PassStep

-----------------------------------------------------------------------------
(* The theorems.  The daemon's rows and posts are safe against any number  *)
(* of crashes, refusals and lost answers, as long as it is alone.          *)

LEMMA Inductive == ASSUME Forced = {} PROVE Spec => []IInv
<1>1. Init => IInv
  BY InitPass
<1>2. IInv /\ [Next]_vars => IInv'
  BY NextPass
<1>3. QED
  BY <1>1, <1>2, PTL DEF Spec

\* Whatever fails, the daemon posts at most one review or one approval note of
\* a commit: a commit is judged in the database before the PR hears of it, and
\* a judged commit never reaches the slot again.
THEOREM OneAnswer == ASSUME Forced = {} PROVE Spec => []OneAnswerPerCommit
<1>1. IInv => OneAnswerPerCommit
  <2> SUFFICES ASSUME IInv, NEW c \in Shas
               PROVE  posts[<<"review", c>>] + posts[<<"approved", c>>] <= 1
    BY DEF OneAnswerPerCommit
  <2>1. Told(c)
    BY DEF IInv
  <2>2. QED
    BY <2>1 DEF Told, SaidOf
<1>2. QED
  BY <1>1, Inductive, PTL

\* A commit that was judged stays judged: no crash, failed run or later hold
\* takes the judgement back.
THEOREM JudgedForGood == ASSUME Forced = {} PROVE Spec => StaysJudged
<1>1. IInv /\ IInv' /\ [Next]_vars => [\A c \in Shas : ShaJudged(c) => ShaJudged(c)']_vars
  <2> SUFFICES ASSUME IInv, IInv', [Next]_vars, NEW c \in Shas, ShaJudged(c) PROVE ShaJudged(c)'
    OBVIOUS
  <2>1. JudgementOf(c) # "no" /\ (JudgementOf(c)' # "no" => ShaJudged(c)')
    BY DEF JudgementOf, ShaJudged, Judged
  <2>2. PassStep
    BY NextPass
  <2>3. JudgementOf(c)' # "no"
    BY <2>1, <2>2 DEF PassStep, Same, Judges, Says
  <2>4. QED
    BY <2>1, <2>3
<1>2. QED
  BY <1>1, Inductive, PTL DEF Spec, StaysJudged

\* The daemon's rows and posts implement the promise of Passes: judged once,
\* heard of once, after the judgement and in its terms.
THEOREM DaemonKeepsPasses == ASSUME Forced = {} PROVE Spec => PassesKept
<1>1. Init => Promise!Init
  BY InitPass
<1>2. IInv /\ [Next]_vars => [Promise!Next]_(Promise!vars)
  BY NextPass, PassImplements
<1>3. QED
  BY <1>1, <1>2, Inductive, PTL DEF Spec, PassesKept, Promise!Spec

-----------------------------------------------------------------------------
(* Notices, with any number of forced runs beside the daemon.              *)

\* A process on its way to write the notice of a review has posted it.
Owed == \A p \in Procs : pc[p] = "label" => posts[<<"review", sha[p]>>] > 0

NInv == TypeInv /\ NoticesAreTrue /\ Owed

\* A process moves itself only, and reaches the label by its post.
LEMMA MovesItself ==
  ASSUME TypeInv, NEW p \in Procs,
         Advance(p) \/ Fault(p) \/ (p \in Forced /\ (Once(p) \/ BlankRequest(p)))
  PROVE  /\ \A q \in Procs : q # p => pc'[q] = pc[q] /\ sha'[q] = sha[q]
         /\ pc'[p] = "label" => PostReview(p)
<1>1. pc \in [Procs -> Steps] /\ sha \in [Procs -> Shas \cup {0}]
  BY DEF TypeInv, TypeOK, LocalTypeOK
<1> DEFINE Goal == /\ \A q \in Procs : q # p => pc'[q] = pc[q] /\ sha'[q] = sha[q]
                   /\ pc'[p] = "label" => PostReview(p)
<1>2. Finish(p) => Goal
  BY <1>1 DEF Finish
<1>3. ASSUME NEW l, l # "label", Goto(p, l) PROVE Goal
  BY <1>1, <1>3 DEF Goto
<1>4. GateStep(p) => Goal
  <2>1. ReadMeta(p) => Goal
    BY <1>1, <1>2 DEF ReadMeta, Read
  <2>2. ReadRequest(p) => Goal
    BY <1>1, <1>2 DEF ReadRequest
  <2>3. ReadThreads(p) => Goal
    BY <1>1 DEF ReadThreads, Read
  <2>4. QED
    BY <2>1, <2>2, <2>3 DEF GateStep
<1>5. HoldStep(p) => Goal
  BY <1>2, <1>3 DEF HoldStep, Tell, Telling, NoteRed, OncePer, PostRed
<1>6. RunStep(p) \/ TurnedAway(p) \/ RunFails(p) => Goal
  <2>1. RunFinds(p) => Goal
    BY <1>1 DEF RunFinds, Read
  <2>2. QED
    BY <1>2, <1>3, <2>1 DEF RunStep, TakeSlot, RunUnusable, RunApproves, GiveUp, TurnedAway, RunFails
<1>7. OkStep(p) \/ RetractFails(p) => Goal
  BY <1>2, <1>3 DEF OkStep, RetractFails, ReadLabels, Unlabel, Retract, AlreadyBuilding, NeedsBuild,
                    AskCi, Warn, Approve, Announce, OncePer, PostApproval
<1>8. FindingsStep(p) => Goal
  <2>1. PostReview(p) => Goal
    BY <1>1 DEF PostReview, Goto
  <2>2. QED
    BY <1>2, <1>3, <2>1 DEF FindingsStep, Publish, OncePer, SetLabel
<1>9. Refused(p) \/ Lost(p) \/ Crash(p) => Goal
  BY <1>2, <1>3 DEF Refused, Lost, Crash, Raise
<1>10. Once(p) \/ BlankRequest(p) => Goal
  BY <1>1, <1>3 DEF Once, BlankRequest
<1>11. QED
  BY <1>4, <1>5, <1>6, <1>7, <1>8, <1>9, <1>10 DEF Advance, Fault

\* A comment adds to its own count.
LEMMA PostsGrow ==
  ASSUME TypeInv, NEW p \in Procs, sha[p] \in Shas, NEW kind \in Kinds, Comment(kind, sha[p])
  PROVE  posts'[<<kind, sha[p]>>] > 0 /\ \A x \in Posts : posts[x] > 0 => posts'[x] > 0
<1>1. posts \in [Posts -> Nat] /\ <<kind, sha[p]>> \in Posts
  BY DEF TypeInv, TypeOK, GithubTypeOK, Posts
<1>2. QED
  BY <1>1 DEF Comment

\* What a process writes down is on the PR.
LEMMA NoticeWritten ==
  ASSUME NInv, NEW p \in Procs, Advance(p) \/ Fault(p)
  PROVE  /\ \A x \in Posts : posts[x] > 0 => posts'[x] > 0
         /\ \A x \in sent' : x \in sent \/ posts'[x] > 0
         /\ PostReview(p) => posts'[<<"review", sha[p]>>] > 0
<1>1. TypeInv
  BY DEF NInv
<1> DEFINE Goal == /\ \A x \in Posts : posts[x] > 0 => posts'[x] > 0
                   /\ \A x \in sent' : x \in sent \/ posts'[x] > 0
                   /\ PostReview(p) => posts'[<<"review", sha[p]>>] > 0
<1>2. ASSUME UNCHANGED <<posts, sent>>, ~ PostReview(p) PROVE Goal
  BY <1>2
<1>3. ASSUME NEW kind \in Kinds, Comment(kind, sha[p]), pc[p] \notin {"idle", "seed", "meta"},
             sent' \subseteq sent \cup {<<kind, sha[p]>>}, kind = "review" \/ ~ PostReview(p)
      PROVE  Goal
  <2>1. sha[p] \in Shas
    BY <1>1, <1>3, HasKey
  <2>2. posts'[<<kind, sha[p]>>] > 0 /\ \A x \in Posts : posts[x] > 0 => posts'[x] > 0
    BY <1>1, <1>3, <2>1, PostsGrow
  <2>3. QED
    BY <1>3, <2>2
<1>4. PostReview(p) => pc[p] = "posting"
  BY DEF PostReview
<1>5. "ci-red" \in Kinds /\ "run-ci" \in Kinds /\ "approved" \in Kinds /\ "review" \in Kinds
  BY DEF Kinds
<1>6. GateStep(p) => Goal
  BY <1>2, <1>4 DEF GateStep, ReadMeta, ReadRequest, ReadThreads, github, db, notices
<1>7. HoldStep(p) => Goal
  <2>1. Tell(p) \/ Telling(p) \/ NoteRed(p) => Goal
    BY <1>2, <1>4 DEF Tell, Telling, NoteRed, OncePer, github, db, notices
  <2>2. PostRed(p) => Goal
    BY <1>3, <1>4, <1>5 DEF PostRed, NoteLands, Sent
  <2>3. QED
    BY <2>1, <2>2 DEF HoldStep
<1>8. RunStep(p) \/ TurnedAway(p) \/ RunFails(p) => Goal
  BY <1>2, <1>4 DEF RunStep, TakeSlot, RunUnusable, RunApproves, RunFinds, GiveUp, TurnedAway,
                    RunFails, github, db, notices
<1>9. OkStep(p) \/ RetractFails(p) => Goal
  <2>1. AskCi(p) => Goal
    BY <1>3, <1>4, <1>5 DEF AskCi, PhraseLands, Sent
  <2>2. PostApproval(p) => Goal
    BY <1>3, <1>4, <1>5 DEF PostApproval, NoteLands, Sent
  <2>3. QED
    BY <1>2, <1>4, <2>1, <2>2
       DEF OkStep, RetractFails, ReadLabels, Unlabel, Retract, AlreadyBuilding, NeedsBuild, Warn,
           Announce, OncePer, LabelsBecome, VetoFalls, github, db, notices
<1>10. FindingsStep(p) => Goal
  <2>1. PostReview(p) => Goal
    BY <1>3, <1>4, <1>5 DEF PostReview, ReviewLands, db, notices
  <2>2. SetLabel(p) => Goal
    <3>1. ASSUME SetLabel(p)
          PROVE  /\ UNCHANGED posts /\ sent' = sent \cup {<<"review", sha[p]>>}
                 /\ posts[<<"review", sha[p]>>] > 0 /\ pc[p] = "label"
      BY <3>1 DEF SetLabel, LabelsBecome, Sent, NInv, Owed
    <3>2. QED
      BY <1>4, <3>1
  <2>3. QED
    BY <1>2, <1>4, <2>1, <2>2 DEF FindingsStep, Publish, OncePer, github, db, notices
<1>11. Refused(p) \/ Lost(p) \/ Crash(p) => Goal
  <2>0. pc \in [Procs -> Steps]
    BY <1>1 DEF TypeInv, TypeOK, LocalTypeOK
  <2>1. ASSUME Lost(p) PROVE Goal
    <3>1. UNCHANGED sent
      BY <2>1 DEF Lost, db, notices
    <3>2. CASE pc[p] \in {"unlabel", "label"}
      BY <1>2, <1>4, <2>1, <3>1, <3>2 DEF Lost, LabelsBecome
    <3>3. CASE pc[p] \in {"noting", "asking", "announcing", "posting"}
      <4>1. PICK kind \in Kinds : Comment(kind, sha[p]) /\ (kind = "review" \/ pc[p] # "posting")
        BY <1>5, <2>1, <3>3 DEF Lost, NoteLands, PhraseLands, ReviewLands
      <4>2. QED
        BY <1>3, <1>4, <3>1, <3>3, <4>1
    <3>4. QED
      BY <2>1, <3>2, <3>3 DEF Lost
  <2>2. Refused(p) => Goal
    <3>1. Refused(p) => UNCHANGED <<posts, sent>> /\ Raise(p)
      BY DEF Refused, github, db, notices
    <3>2. Raise(p) => ~ PostReview(p)
      BY <2>0 DEF Raise, Finish, Goto, PostReview
    <3>3. QED
      BY <1>2, <3>1, <3>2
  <2>3. Crash(p) => Goal
    <3>1. Crash(p) => UNCHANGED <<posts, sent>> /\ Finish(p)
      BY DEF Crash, github, notices
    <3>2. Finish(p) => ~ PostReview(p)
      BY <2>0 DEF Finish, Goto, PostReview
    <3>3. QED
      BY <1>2, <3>1, <3>2
  <2>4. QED
    BY <2>1, <2>2, <2>3
<1>12. QED
  BY <1>6, <1>7, <1>8, <1>9, <1>10, <1>11 DEF Advance, Fault

LEMMA TickNotices ==
  ASSUME NInv, DaemonTick
  PROVE  /\ UNCHANGED <<posts, sent>>
         /\ \A q \in Procs : pc'[q] = "label" => pc[q] = "label" /\ sha'[q] = sha[q]
<1>1. pc \in [Procs -> Steps] /\ sha \in [Procs -> Shas \cup {0}]
  BY DEF NInv, TypeInv, TypeOK, LocalTypeOK
<1>2. CASE Poll
  BY <1>1, <1>2 DEF Poll, Goto, github, notices, local
<1>3. CASE SeedMeta
  BY <1>1, <1>3 DEF SeedMeta, github, db, notices
<1>4. CASE SeedRow
  BY <1>1, <1>4 DEF SeedRow, Finish, github, notices
<1>5. QED
  BY <1>2, <1>3, <1>4 DEF DaemonTick

LEMMA NoticesInductive == NInv /\ [Next]_vars => NInv'
<1> SUFFICES ASSUME NInv, [Next]_vars PROVE NInv'
  OBVIOUS
<1>1. TypeInv /\ TypeInv'
  BY NextTyped DEF NInv
<1>2. sent \subseteq Posts /\ sent' \subseteq Posts
  BY <1>1 DEF TypeInv, TypeOK, DbTypeOK
<1>3. ASSUME UNCHANGED <<posts, sent>>,
             \A q \in Procs : pc'[q] = "label" => pc[q] = "label" /\ sha'[q] = sha[q]
      PROVE  NInv'
  BY <1>1, <1>3 DEF NInv, NoticesAreTrue, Owed
<1>4. CASE DaemonTick
  BY <1>3, <1>4, TickNotices
<1>5. CASE World \/ UNCHANGED vars
  <2>1. UNCHANGED <<posts, sent, pc, sha>>
    BY <1>5 DEF World, Push, Request, Withdraw, Answer, Relabel, Phrase, Build, vars, github, local, db, notices
  <2>2. QED
    BY <1>3, <2>1
<1>6. ASSUME NEW p \in Forced, Once(p) \/ BlankRequest(p) PROVE NInv'
  <2>1. p \in Procs
    BY DEF Procs
  <2>2. UNCHANGED <<posts, sent>> /\ pc[p] \in {"idle", "request"}
    BY <1>6 DEF Once, BlankRequest, github, db, notices
  <2>3. /\ \A q \in Procs : q # p => pc'[q] = pc[q] /\ sha'[q] = sha[q]
        /\ pc'[p] = "label" => PostReview(p)
    BY <1>1, <1>6, <2>1, MovesItself
  <2>4. ~ PostReview(p)
    BY <2>2 DEF PostReview
  <2>5. QED
    BY <1>3, <2>2, <2>3, <2>4
<1>7. ASSUME NEW p \in Procs, Advance(p) \/ Fault(p) PROVE NInv'
  <2>1. /\ \A q \in Procs : q # p => pc'[q] = pc[q] /\ sha'[q] = sha[q]
        /\ pc'[p] = "label" => PostReview(p)
    BY <1>1, <1>7, MovesItself
  <2>2. /\ \A x \in Posts : posts[x] > 0 => posts'[x] > 0
        /\ \A x \in sent' : x \in sent \/ posts'[x] > 0
        /\ PostReview(p) => posts'[<<"review", sha[p]>>] > 0
    BY <1>7, NoticeWritten
  <2>3. NoticesAreTrue'
    BY <1>2, <2>2 DEF NInv, NoticesAreTrue
  <2>4. Owed'
    <3>1. ASSUME NEW q \in Procs, pc'[q] = "label", q # p
          PROVE  posts'[<<"review", sha'[q]>>] > 0
      <4>1. pc[q] = "label" /\ sha'[q] = sha[q]
        BY <2>1, <3>1
      <4>2. <<"review", sha[q]>> \in Posts
        BY <1>1, <4>1, HasKey DEF Posts, Kinds
      <4>3. QED
        BY <2>2, <4>1, <4>2 DEF NInv, Owed
    <3>2. ASSUME pc'[p] = "label" PROVE posts'[<<"review", sha'[p]>>] > 0
      <4>1. PostReview(p)
        BY <2>1, <3>2
      <4>2. sha' = sha
        BY <4>1 DEF PostReview, Goto
      <4>3. QED
        BY <2>2, <4>1, <4>2
    <3>3. QED
      BY <3>1, <3>2 DEF Owed
  <2>5. QED
    BY <1>1, <2>3, <2>4 DEF NInv
<1>8. QED
  BY <1>4, <1>5, <1>6, <1>7 DEF Next, Calm

\* With any number of forced runs beside the daemon, and whatever fails, a
\* notice is true: a process that was killed or heard no answer between its
\* call and its notice leaves none, and so never silences a post that is owed.
THEOREM NoticesStayTrue == Spec => []NoticesAreTrue
<1>1. Init => NInv
  BY InitTyped DEF Init, DbInit, NInv, NoticesAreTrue, Owed
<1>2. NInv /\ [Next]_vars => NInv'
  BY NoticesInductive
<1>3. NInv => NoticesAreTrue
  BY DEF NInv
<1>4. QED
  BY <1>1, <1>2, <1>3, PTL DEF Spec

-----------------------------------------------------------------------------
(* An approval has its build, with any number of forced runs.              *)

\* The build of commit c is there, or asked for, or the operator knows, or a
\* phrase for an older head reads as asking for it.
Known(c) == c \in built \cup warned \/ AlreadyAsked(c)

\* The same after the step, for a commit read before it.
KnownNext(c) == c \in built' \cup warned' \/ phraseAt' >= c \/ c \in backdated'

OkRow(k) == state[k] = "published" /\ verdict[k] = "ok"

\* No process has read, and no phrase was meant for, a head still to come.
Ahead == phraseAt <= head /\ \A p \in Procs : sha[p] <= head

\* The notice of a phrase is of one that went out at that head or a later one.
Noted == \A c \in Shas : <<"run-ci", c>> \in sent => phraseAt >= c

BInv ==
  /\ TypeInv /\ Ahead /\ Noted
  /\ checks # "none" => head \in built
  /\ \A k \in Keys : OkRow(k) => Known(k[1])

LEMMA BuiltNumbers ==
  ASSUME TypeInv
  PROVE  /\ head \in Nat \ {0} /\ phraseAt \in Nat /\ Shas \subseteq Nat
         /\ \A p \in Procs : sha[p] \in Nat
<1>1. Shas \subseteq Nat /\ Shas \subseteq Nat \ {0}
  BY PipelineAssumption
<1>2. head \in Shas /\ phraseAt \in Shas \cup {0} /\ sha \in [Procs -> Shas \cup {0}]
  BY DEF TypeInv, TypeOK, GithubTypeOK, LocalTypeOK
<1>3. \A c \in Shas \cup {0} : c \in Nat
  BY <1>1
<1>4. \A p \in Procs : sha[p] \in Shas \cup {0}
  BY <1>2
<1>5. head # 0
  BY <1>1, <1>2
<1>6. QED
  BY <1>1, <1>2, <1>3, <1>4, <1>5

\* What a process carries is what it had, nothing, or the head it just read.
LEMMA CarriesTheHead ==
  ASSUME TypeInv, NEW p \in Procs,
         Advance(p) \/ Fault(p) \/ (p \in Forced /\ (Once(p) \/ BlankRequest(p)))
  PROVE  \A q \in Procs : sha'[q] \in {sha[q], 0, head}
<1>1. sha \in [Procs -> Shas \cup {0}]
  BY DEF TypeInv, TypeOK, LocalTypeOK
<1> DEFINE Goal == \A q \in Procs : sha'[q] \in {sha[q], 0, head}
<1>2. Finish(p) => Goal
  BY <1>1 DEF Finish
<1>3. UNCHANGED sha => Goal
  OBVIOUS
<1>4. GateStep(p) => Goal
  BY <1>1, <1>2, <1>3 DEF GateStep, ReadMeta, ReadRequest, ReadThreads
<1>5. HoldStep(p) => Goal
  BY <1>2, <1>3 DEF HoldStep, Tell, Telling, NoteRed, OncePer, PostRed, Goto
<1>6. RunStep(p) \/ TurnedAway(p) \/ RunFails(p) => Goal
  BY <1>2, <1>3 DEF RunStep, TakeSlot, RunUnusable, RunApproves, RunFinds, GiveUp, TurnedAway,
                    RunFails, Goto
<1>7. OkStep(p) \/ RetractFails(p) => Goal
  BY <1>2, <1>3 DEF OkStep, RetractFails, ReadLabels, Unlabel, Retract, AlreadyBuilding, NeedsBuild,
                    AskCi, Warn, Approve, Announce, OncePer, PostApproval, Goto
<1>8. FindingsStep(p) => Goal
  BY <1>2, <1>3 DEF FindingsStep, Publish, OncePer, PostReview, SetLabel, Goto
<1>9. Refused(p) \/ Lost(p) \/ Crash(p) => Goal
  BY <1>2, <1>3 DEF Refused, Lost, Crash, Raise, Goto
<1>10. Once(p) \/ BlankRequest(p) => Goal
  BY <1>3 DEF Once, BlankRequest, Goto
<1>11. QED
  BY <1>4, <1>5, <1>6, <1>7, <1>8, <1>9, <1>10 DEF Advance, Fault

\* A process builds nothing itself: it asks for the head of the moment, and
\* only what it asked for, and heard so, is noted.
LEMMA AsksForTheHead ==
  ASSUME NEW p \in Procs, Advance(p) \/ Fault(p)
  PROVE  /\ UNCHANGED <<head, checks, built, backdated>> /\ warned \subseteq warned'
         /\ phraseAt' \in {phraseAt, head}
         /\ \A c : <<"run-ci", c>> \in sent' =>
              <<"run-ci", c>> \in sent \/ (c = sha[p] /\ phraseAt' = head)
<1> DEFINE Goal == /\ UNCHANGED <<head, checks, built, backdated>> /\ warned \subseteq warned'
                   /\ phraseAt' \in {phraseAt, head}
                   /\ \A c : <<"run-ci", c>> \in sent' =>
                        <<"run-ci", c>> \in sent \/ (c = sha[p] /\ phraseAt' = head)
<1>1. ASSUME UNCHANGED <<head, checks, built, phraseAt, backdated>>, warned \subseteq warned',
             sent' = sent \/ \E kind \in {"ci-red", "approved", "review"} : Sent(p, kind)
      PROVE  Goal
  BY <1>1 DEF Sent
<1>2. GateStep(p) => Goal
  BY <1>1 DEF GateStep, ReadMeta, ReadRequest, ReadThreads, github, db, notices, seen
<1>3. HoldStep(p) => Goal
  BY <1>1 DEF HoldStep, Tell, Telling, NoteRed, PostRed, NoteLands, github, db, notices, seen
<1>4. RunStep(p) \/ TurnedAway(p) \/ RunFails(p) => Goal
  BY <1>1 DEF RunStep, TakeSlot, RunUnusable, RunApproves, RunFinds, GiveUp, TurnedAway, RunFails,
              github, db, notices, seen
<1>5. OkStep(p) \/ RetractFails(p) => Goal
  <2>1. AskCi(p) => Goal
    BY DEF AskCi, PhraseLands, Sent, seen
  <2>2. PostApproval(p) => Goal
    BY <1>1 DEF PostApproval, NoteLands, seen
  <2>3. QED
    BY <1>1, <2>1, <2>2
       DEF OkStep, RetractFails, ReadLabels, Unlabel, Retract, AlreadyBuilding, NeedsBuild, Warn,
           Announce, LabelsBecome, VetoFalls, github, db, notices, seen
<1>6. FindingsStep(p) => Goal
  BY <1>1 DEF FindingsStep, Publish, PostReview, ReviewLands, SetLabel, LabelsBecome, github, db,
              notices, seen
<1>7. Refused(p) \/ Lost(p) \/ Crash(p) => Goal
  <2>1. Lost(p) => Goal
    BY DEF Lost, NoteLands, LabelsBecome, PhraseLands, ReviewLands, db, notices, seen
  <2>2. QED
    BY <1>1, <2>1 DEF Refused, Crash, github, db, notices, seen
<1>8. QED
  BY <1>2, <1>3, <1>4, <1>5, <1>6, <1>7 DEF Advance, Fault

\* Of all the ways to write a row only an approval's makes it ok.
LEMMA RowsNotOk ==
  ASSUME TypeInv, NEW k \in Keys, NEW s, NEW v,
         \/ UNCHANGED rows
         \/ StartReview(k) \/ RecordHold(k) \/ ReapRunning
         \/ FinishReview(k, s, v) /\ (s \in {"failed", "held"} \/ v \in {"needs-work", "comment"})
  PROVE  \A l \in Keys : OkRow(l)' => OkRow(l)
<1>1. state \in [Keys -> States] /\ verdict \in [Keys -> Verdicts \cup {""}]
  BY DEF TypeInv, TypeOK, DbTypeOK
<1>2. CASE UNCHANGED rows
  BY <1>2 DEF rows, OkRow
<1>3. CASE StartReview(k) \/ RecordHold(k)
  BY <1>1, <1>3 DEF StartReview, RecordHold, Replace, OkRow
<1>4. CASE ReapRunning
  BY <1>1, <1>4 DEF ReapRunning, OkRow
<1>5. CASE FinishReview(k, s, v) /\ (s \in {"failed", "held"} \/ v \in {"needs-work", "comment"})
  BY <1>1, <1>5 DEF FinishReview, OkRow
<1>6. QED
  BY <1>2, <1>3, <1>4, <1>5

\* An approval is written only where the build is known.
LEMMA ApprovesWhatIsBuilt ==
  ASSUME BInv, NEW p \in Procs, Advance(p) \/ Fault(p)
  PROVE  \A k \in Keys : OkRow(k)' => OkRow(k) \/ (k = Key(p) /\ KnownNext(sha[p]))
<1>1. TypeInv
  BY DEF BInv
<1> DEFINE Goal == \A k \in Keys : OkRow(k)' => OkRow(k) \/ (k = Key(p) /\ KnownNext(sha[p]))
<1>2. UNCHANGED rows => Goal
  BY DEF rows, OkRow
<1>3. ASSUME pc[p] \notin {"idle", "seed", "meta"} PROVE sha[p] \in Shas /\ Key(p) \in Keys
  BY <1>1, <1>3, HasKey
<1>4. GateStep(p) => Goal
  BY <1>2 DEF GateStep, ReadMeta, ReadRequest, ReadThreads, db
<1>5. HoldStep(p) => Goal
  <2>1. Tell(p) \/ Telling(p) => Goal
    BY <1>1, <1>2, <1>3, RowsNotOk DEF Tell, Telling, Hold
  <2>2. QED
    BY <1>2, <2>1 DEF HoldStep, NoteRed, PostRed, db
<1>6. RunStep(p) \/ TurnedAway(p) \/ RunFails(p) => Goal
  <2>1. TakeSlot(p) => Goal
    BY <1>1, <1>3, RowsNotOk DEF TakeSlot
  <2>2. RunUnusable(p) \/ RunFails(p) => Goal
    BY <1>1, <1>3, RowsNotOk DEF RunUnusable, RunFails
  <2>3. RunFinds(p) => Goal
    BY <1>1, <1>3, RowsNotOk DEF RunFinds
  <2>4. QED
    BY <1>2, <2>1, <2>2, <2>3 DEF RunStep, RunApproves, GiveUp, TurnedAway, db
<1>7. OkStep(p) \/ RetractFails(p) => Goal
  <2>1. ASSUME Approve(p), pc[p] \in {"ask", "asking", "warn"}, KnownNext(sha[p]) PROVE Goal
    <3>1. Key(p) \in Keys
      BY <1>3, <2>1
    <3>2. state \in [Keys -> States] /\ verdict \in [Keys -> Verdicts \cup {""}]
      BY <1>1 DEF TypeInv, TypeOK, DbTypeOK
    <3>3. \A k \in Keys : k # Key(p) => state'[k] = state[k] /\ verdict'[k] = verdict[k]
      BY <2>1, <3>1, <3>2 DEF Approve, FinishReview
    <3>4. QED
      BY <2>1, <3>3 DEF OkRow
  <2>2. ASSUME AlreadyBuilding(p) PROVE KnownNext(sha[p])
    <3>1. UNCHANGED <<built, warned, phraseAt, backdated>> /\ sha' = sha /\ sha[p] \in Shas
      BY <1>3, <2>2 DEF AlreadyBuilding, Approve, Goto, github, seen
    <3>2. Known(sha[p])
      BY <2>2, <3>1 DEF AlreadyBuilding, BuildStarted, BInv, Noted, Known, AlreadyAsked
    <3>3. QED
      BY <3>1, <3>2 DEF Known, KnownNext, AlreadyAsked
  <2>3. ASSUME AskCi(p) PROVE KnownNext(sha[p])
    <3>1. phraseAt' = head /\ sha' = sha
      BY <2>3 DEF AskCi, PhraseLands, Approve, Goto
    <3>2. QED
      BY <1>1, <3>1, BuiltNumbers DEF KnownNext, BInv, Ahead
  <2>4. Warn(p) => KnownNext(sha[p])
    BY <1>3 DEF Warn, Approve, KnownNext
  <2>5. AlreadyBuilding(p) \/ AskCi(p) \/ Warn(p) => Goal
    BY <2>1, <2>2, <2>3, <2>4 DEF AlreadyBuilding, AskCi, Warn
  <2>6. QED
    BY <1>2, <2>5 DEF OkStep, RetractFails, ReadLabels, Unlabel, Retract, NeedsBuild, Announce,
                      PostApproval, db
<1>8. FindingsStep(p) => Goal
  <2>1. ASSUME SetLabel(p) PROVE Goal
    <3>1. word[p] \in {"needs-work", "comment"} /\ Key(p) \in Keys
      BY <1>1, <1>3, <2>1 DEF SetLabel, TypeInv, LocalInv, HasWord
    <3>2. QED
      BY <1>1, <2>1, <3>1, RowsNotOk DEF SetLabel
  <2>2. QED
    BY <1>2, <2>1 DEF FindingsStep, Publish, PostReview, db
<1>9. Refused(p) \/ Lost(p) \/ Crash(p) => Goal
  <2>1. PICK k \in Keys : TRUE
    <3>1. <<1, Blank>> \in Keys
      BY PipelineAssumption DEF Keys
    <3>2. QED
      BY <3>1
  <2>2. ReapRunning => Goal
    BY <1>1, <2>1, RowsNotOk
  <2>3. QED
    BY <1>2, <2>2 DEF Refused, Lost, Crash, db
<1>10. QED
  BY <1>4, <1>5, <1>6, <1>7, <1>8, <1>9 DEF Advance, Fault

\* The daemon's other steps, a forced run's first ones, and the world's.
LEMMA OthersApproveNothing ==
  ASSUME TypeInv, DaemonTick \/ (\E p \in Forced : Once(p) \/ BlankRequest(p)) \/ World
  PROVE  \A k \in Keys : OkRow(k)' => OkRow(k)
<1>1. UNCHANGED rows => \A k \in Keys : OkRow(k)' => OkRow(k)
  BY DEF rows, OkRow
<1>2. CASE SeedRow
  <2>1. <<sha[Daemon], asked>> \in Keys
    BY <1>2 DEF SeedRow, TypeInv, TypeOK, GithubTypeOK, LocalInv, HasRead, Procs, Keys
  <2>2. QED
    BY <1>2, <2>1, RowsNotOk DEF SeedRow
<1>3. QED
  BY <1>1, <1>2 DEF DaemonTick, Poll, SeedMeta, Once, BlankRequest, World, db

LEMMA BuiltInductive == BInv /\ [Next]_vars => BInv'
<1> SUFFICES ASSUME BInv, [Next]_vars PROVE BInv'
  OBVIOUS
<1>1. TypeInv /\ TypeInv'
  BY NextTyped DEF BInv
<1>2. /\ head \in Nat /\ phraseAt \in Nat /\ Shas \subseteq Nat /\ \A q \in Procs : sha[q] \in Nat
      /\ head' \in Nat /\ phraseAt' \in Nat
  <2>1. head' \in Shas \cup {0} /\ phraseAt' \in Shas \cup {0}
    BY <1>1 DEF TypeInv, TypeOK, GithubTypeOK
  <2>2. head \in Nat /\ phraseAt \in Nat /\ Shas \subseteq Nat /\ \A q \in Procs : sha[q] \in Nat
    BY <1>1, BuiltNumbers
  <2>3. \A c \in Shas \cup {0} : c \in Nat
    BY <2>2
  <2>4. QED
    BY <2>1, <2>2, <2>3
<1>3. \A k \in Keys : k[1] \in Shas
  BY DEF Keys
<1>4. ASSUME head' >= head, built \subseteq built', warned \subseteq warned',
             phraseAt' \in {phraseAt, head}, backdated \subseteq backdated',
             checks' # "none" => head' \in built',
             \A q \in Procs : sha'[q] \in {sha[q], 0, head},
             \A c \in Shas : <<"run-ci", c>> \in sent' =>
               <<"run-ci", c>> \in sent \/ (c <= head /\ phraseAt' = head),
             \A k \in Keys : OkRow(k)' => OkRow(k) \/ KnownNext(k[1])
      PROVE  BInv'
  <2>1. phraseAt' >= phraseAt
    BY <1>2, <1>4 DEF BInv, Ahead
  <2>2. Ahead'
    BY <1>2, <1>4 DEF BInv, Ahead
  <2>3. Noted'
    BY <1>2, <1>4, <2>1 DEF BInv, Noted
  <2>4. \A k \in Keys : Known(k[1]) => KnownNext(k[1])
    <3>1. SUFFICES ASSUME NEW c \in Shas, Known(c) PROVE KnownNext(c)
      BY <1>3
    <3>2. c \in Nat
      BY <1>2
    <3>3. CASE c \in built \cup warned
      BY <1>4, <3>3 DEF KnownNext
    <3>4. CASE phraseAt >= c
      BY <1>2, <2>1, <3>2, <3>4 DEF KnownNext
    <3>5. CASE c \in backdated
      BY <1>4, <3>5 DEF KnownNext
    <3>6. QED
      BY <3>1, <3>3, <3>4, <3>5 DEF Known, AlreadyAsked
  <2>5. \A k \in Keys : OkRow(k)' => KnownNext(k[1])
    BY <1>4, <2>4 DEF BInv
  <2>6. (\A k \in Keys : OkRow(k) => Known(k[1]))'
    BY <2>5 DEF Known, KnownNext, AlreadyAsked
  <2>7. QED
    BY <1>1, <1>4, <2>2, <2>3, <2>6 DEF BInv
<1>5. ASSUME UNCHANGED <<github, seen, sent>>, \A q \in Procs : sha'[q] \in {sha[q], 0, head},
             \A k \in Keys : OkRow(k)' => OkRow(k)
      PROVE  BInv'
  BY <1>2, <1>4, <1>5 DEF BInv, github, seen
<1>6. CASE UNCHANGED vars
  BY <1>5, <1>6 DEF vars, local, notices, rows, OkRow
<1>7. CASE DaemonTick
  <2>1. \A k \in Keys : OkRow(k)' => OkRow(k)
    BY <1>1, <1>7, OthersApproveNothing
  <2>2. UNCHANGED <<github, seen, sent>>
    BY <1>7 DEF DaemonTick, Poll, SeedMeta, SeedRow, notices, db
  <2>3. \A q \in Procs : sha'[q] \in {sha[q], 0, head}
    BY <1>1, <1>7 DEF DaemonTick, Poll, SeedMeta, SeedRow, Goto, Finish, local, TypeInv, TypeOK, LocalTypeOK
  <2>4. QED
    BY <1>5, <2>1, <2>2, <2>3
<1>8. ASSUME NEW p \in Forced, Once(p) \/ BlankRequest(p) PROVE BInv'
  <2>1. \A k \in Keys : OkRow(k)' => OkRow(k)
    BY <1>1, <1>8, OthersApproveNothing
  <2>2. \A q \in Procs : sha'[q] \in {sha[q], 0, head}
    BY <1>1, <1>8, CarriesTheHead DEF Procs
  <2>3. UNCHANGED <<github, seen, sent>>
    BY <1>8 DEF Once, BlankRequest, db, notices
  <2>4. QED
    BY <1>5, <2>1, <2>2, <2>3
<1>9. CASE World
  <2>1. \A k \in Keys : OkRow(k)' => OkRow(k)
    BY <1>1, <1>9, OthersApproveNothing
  <2>2. /\ UNCHANGED <<sha, sent, warned>> /\ phraseAt' \in {phraseAt, head}
        /\ backdated \subseteq backdated'
    BY <1>9 DEF World, Push, Request, Withdraw, Answer, Relabel, Phrase, Build, db, notices, local
  <2>3. head' >= head /\ built \subseteq built' /\ (checks' # "none" => head' \in built')
    <3>1. CASE Push
      BY <1>2, <3>1 DEF Push
    <3>2. CASE Build
      BY <1>2, <3>2 DEF Build, BInv
    <3>3. CASE Request \/ Withdraw \/ Answer \/ Relabel \/ Phrase
      BY <1>2, <3>3 DEF Request, Withdraw, Answer, Relabel, Phrase, BInv
    <3>4. QED
      BY <1>9, <3>1, <3>2, <3>3 DEF World
  <2>4. QED
    BY <1>2, <1>4, <2>1, <2>2, <2>3
<1>10. ASSUME NEW p \in Procs, Advance(p) \/ Fault(p) PROVE BInv'
  <2>1. \A q \in Procs : sha'[q] \in {sha[q], 0, head}
    BY <1>1, <1>10, CarriesTheHead
  <2>2. /\ UNCHANGED <<head, checks, built, backdated>> /\ warned \subseteq warned'
        /\ phraseAt' \in {phraseAt, head}
        /\ \A c : <<"run-ci", c>> \in sent' =>
             <<"run-ci", c>> \in sent \/ (c = sha[p] /\ phraseAt' = head)
    BY <1>10, AsksForTheHead
  <2>3. \A k \in Keys : OkRow(k)' => OkRow(k) \/ KnownNext(k[1])
    <3>1. \A k \in Keys : OkRow(k)' => OkRow(k) \/ (k = Key(p) /\ KnownNext(sha[p]))
      BY <1>10, ApprovesWhatIsBuilt
    <3>2. QED
      BY <3>1 DEF Key
  <2>4. \A c \in Shas : <<"run-ci", c>> \in sent' =>
          <<"run-ci", c>> \in sent \/ (c <= head /\ phraseAt' = head)
    BY <1>2, <2>2 DEF BInv, Ahead
  <2>5. QED
    BY <1>2, <1>4, <2>1, <2>2, <2>3, <2>4 DEF BInv
<1>11. QED
  BY <1>6, <1>7, <1>8, <1>9, <1>10 DEF Next, Calm

\* With any number of forced runs, pushes during the review, lost answers and
\* crashes, an approved commit has its build: started, asked for since it was
\* pushed, or the operator was told that the request failed; the one way past
\* it is a commit made before somebody's phrase and pushed after it.
THEOREM ApprovalsAreBuilt == Spec => []ApprovedIsBuilt
<1>1. Init => BInv
  <2>1. ASSUME Init PROVE TypeInv
    BY <2>1, InitTyped
  <2>2. ASSUME Init PROVE Ahead /\ Noted
    <3>1. head = 1 /\ phraseAt = 0 /\ sent = {}
      BY <2>2 DEF Init, DbInit
    <3>2. \A p \in Procs : sha[p] = 0
      BY <2>2 DEF Init
    <3>3. QED
      BY <3>1, <3>2 DEF Ahead, Noted
  <2>3. ASSUME Init, NEW k \in Keys PROVE ~ OkRow(k)
    BY <2>3 DEF Init, DbInit, OkRow
  <2>4. ASSUME Init PROVE checks = "none"
    BY <2>4 DEF Init
  <2>5. QED
    BY <2>1, <2>2, <2>3, <2>4 DEF BInv
<1>2. BInv /\ [Next]_vars => BInv'
  BY BuiltInductive
<1>3. BInv => ApprovedIsBuilt
  BY DEF BInv, ApprovedIsBuilt, OkRow, Known, Keys
<1>4. QED
  BY <1>1, <1>2, <1>3, PTL DEF Spec

-----------------------------------------------------------------------------
(***************************************************************************)
(* Approvals.  When no forced run is beside the daemon, an approval leaves *)
(* nothing of an earlier rejection on the pull request: for any commits,   *)
(* requests and labels, whatever people do to the labels meanwhile, and    *)
(* wherever calls fail and the daemon dies.                                *)
(***************************************************************************)

Asks    == {"ask", "asking", "warn"}
Cleared == {"retract"} \cup Asks
Own     == {"running", "clear", "unlabel", "publish", "posting", "label"} \cup Cleared

\* No row is newer than k's.
LastRow(k) == \A l \in Keys : l # k /\ state[l] # "none" => <<l, k>> \in older

\* The brake is off from the moment the code has seen to it, and so is the
\* veto; and from the slot on the daemon's row is the last one, so that the
\* verdict it writes there is the PR's.
FInv ==
  /\ ApprovedIsFree
  /\ pc[Daemon] \in Cleared => NeedsWork \notin labels
  /\ pc[Daemon] \in Asks => (vetoed => dismissTold)
  /\ pc[Daemon] \in Own => LastRow(Key(Daemon))

-----------------------------------------------------------------------------
(* Which rows speak for the PR.                                            *)

\* With findings in the last row, no row approves the PR.
LEMMA LastWord ==
  ASSUME NEW k \in Keys, LastRow(k), state[k] = "published", verdict[k] # "ok"
  PROVE  ~ Approved
<1> SUFFICES ASSUME Approved PROVE FALSE
  OBVIOUS
<1>1. PICK j \in Keys : Newest(j) /\ verdict[j] = "ok"
  BY DEF Approved
<1>2. j # k /\ state[j] # "none"
  BY <1>1 DEF Newest
<1>3. <<j, k>> \in older
  BY <1>2 DEF LastRow
<1>4. QED
  BY <1>1, <1>3 DEF Newest

\* What changes no published row, nor their order, approves nothing.
LEMMA NotApproving ==
  ASSUME \A k \in Keys : state'[k] = "published" => state[k] = "published" /\ verdict'[k] = verdict[k],
         \A k, l \in Keys : state'[k] = "published" /\ state[l] = "published" /\ <<k, l>> \in older
           => state'[l] = "published" /\ <<k, l>> \in older'
  PROVE  Approved' => Approved
<1> SUFFICES ASSUME Approved' PROVE Approved
  OBVIOUS
<1>1. PICK j \in Keys : Newest(j)' /\ verdict'[j] = "ok"
  BY DEF Approved
<1>2. state[j] = "published" /\ verdict[j] = "ok"
  BY <1>1 DEF Newest
<1>3. ASSUME NEW l \in Keys, state[l] = "published" PROVE <<j, l>> \notin older
  BY <1>1, <1>3 DEF Newest
<1>4. QED
  BY <1>2, <1>3 DEF Newest, Approved

\* A new row takes the place of one that was not published.
LEMMA ReplaceApproves ==
  ASSUME TypeInv, NEW k \in Keys, NEW s, s # "published", state[k] # "published", Replace(k, s)
  PROVE  Approved' => Approved
<1>1. state \in [Keys -> States] /\ verdict \in [Keys -> Verdicts \cup {""}]
  BY DEF TypeInv, TypeOK, DbTypeOK
<1>2. \A j \in Keys : state'[j] = "published" =>
        j # k /\ state[j] = "published" /\ verdict'[j] = verdict[j]
  BY <1>1 DEF Replace
<1>3. \A j, l \in Keys : j # k /\ l # k /\ <<j, l>> \in older => <<j, l>> \in older'
  BY DEF Replace
<1>4. \A l \in Keys : state[l] = "published" => l # k /\ state'[l] = "published"
  BY <1>1 DEF Replace
<1>5. QED
  BY <1>2, <1>3, <1>4, NotApproving

\* An update of a row that is not published, to something that is not.
LEMMA FinishApproves ==
  ASSUME TypeInv, NEW k \in Keys, NEW s, NEW v, s # "published", state[k] # "published",
         FinishReview(k, s, v)
  PROVE  Approved' => Approved
<1>1. state \in [Keys -> States] /\ verdict \in [Keys -> Verdicts \cup {""}]
  BY DEF TypeInv, TypeOK, DbTypeOK
<1>2. \A j \in Keys : state'[j] = "published" => state[j] = "published" /\ verdict'[j] = verdict[j]
  BY <1>1 DEF FinishReview
<1>3. \A l \in Keys : state[l] = "published" => state'[l] = "published"
  BY <1>1 DEF FinishReview
<1>4. QED
  BY <1>2, <1>3, NotApproving DEF FinishReview

\* A boot writes running rows only.
LEMMA ReapApproves ==
  ASSUME ReapRunning
  PROVE  Approved' => Approved
BY NotApproving DEF ReapRunning

-----------------------------------------------------------------------------
(* The steps.                                                              *)

\* A step that approves nothing, brings neither brake nor veto, and gets to a
\* later call only with what that call relies on.
LEMMA Still ==
  ASSUME FInv, Approved' => Approved,
         NeedsWork \in labels' => NeedsWork \in labels,
         vetoed' => vetoed, dismissTold => dismissTold',
         pc'[Daemon] \in Cleared => pc[Daemon] \in Cleared \/ NeedsWork \notin labels',
         pc'[Daemon] \in Asks => pc[Daemon] \in Asks \/ (vetoed' => dismissTold'),
         pc'[Daemon] \in Own => LastRow(Key(Daemon))'
  PROVE  FInv'
BY DEF FInv, ApprovedIsFree

LEMMA RowsAsTheyWere ==
  ASSUME UNCHANGED rows
  PROVE  /\ Approved' => Approved
         /\ LastRow(Key(Daemon)) /\ Key(Daemon)' = Key(Daemon) => LastRow(Key(Daemon))'
BY DEF rows, Approved, Newest, LastRow

LEMMA WorldFree ==
  ASSUME FInv, World \/ UNCHANGED vars
  PROVE  FInv'
<1>1. UNCHANGED <<rows, notices, local>>
  BY DEF World, db, vars
<1>2. vetoed' = vetoed /\ (NeedsWork \in labels' => NeedsWork \in labels)
  BY DEF World, Push, Request, Withdraw, Answer, Relabel, Phrase, Build, vars, github
<1>3. UNCHANGED dismissTold /\ UNCHANGED pc /\ Key(Daemon)' = Key(Daemon)
  BY <1>1 DEF notices, local, Key
<1>4. pc[Daemon] \in Own => LastRow(Key(Daemon))'
  BY <1>1, <1>3, RowsAsTheyWere DEF FInv
<1>5. QED
  BY <1>1, <1>2, <1>3, <1>4, RowsAsTheyWere, Still

LEMMA TickFree ==
  ASSUME IInv, FInv, DaemonTick
  PROVE  FInv'
<1>1. TypeInv /\ Daemon \in Procs /\ pc \in [Procs -> Steps]
  BY DEF IInv, Procs, TypeInv, TypeOK, LocalTypeOK
<1>2. pc'[Daemon] \notin Own
  <2>1. pc'[Daemon] \in {"meta", "seed", "backlog", "idle"}
    BY <1>1 DEF DaemonTick, Poll, SeedMeta, SeedRow, Goto, Finish, local
  <2>2. QED
    BY <2>1 DEF Own, Cleared, Asks
<1>3. UNCHANGED <<labels, vetoed, dismissTold>>
  BY DEF DaemonTick, Poll, SeedMeta, SeedRow, github, db, notices
<1>4. Approved' => Approved
  <2>1. CASE UNCHANGED rows
    BY <2>1, RowsAsTheyWere
  <2>2. CASE SeedRow
    <3>1. <<sha[Daemon], asked>> \in Keys
      BY <1>1, <2>2 DEF SeedRow, TypeInv, TypeOK, GithubTypeOK, LocalInv, HasRead, Keys
    <3>2. state[<<sha[Daemon], asked>>] # "published"
      BY <2>2, <3>1 DEF SeedRow, IInv, Place, At, Backlog
    <3>3. QED
      BY <1>1, <2>2, <3>1, <3>2, ReplaceApproves DEF SeedRow, RecordHold
  <2>3. QED
    BY <2>1, <2>2 DEF DaemonTick, Poll, SeedMeta, db
<1>5. QED
  BY <1>2, <1>3, <1>4, Still DEF Own, Cleared

LEMMA GateFree ==
  ASSUME IInv, FInv, GateStep(Daemon)
  PROVE  FInv'
<1>1. Daemon \in Procs /\ pc \in [Procs -> Steps]
  BY DEF IInv, Procs, TypeInv, TypeOK, LocalTypeOK
<1>2. pc'[Daemon] \in {"idle", "request", "threads", "slot", "note", "tell"}
  BY <1>1 DEF GateStep, ReadMeta, ReadRequest, ReadThreads, Finish, Read
<1>3. UNCHANGED <<labels, vetoed, dismissTold, rows>>
  BY DEF GateStep, ReadMeta, ReadRequest, ReadThreads, github, db, notices
<1>4. QED
  BY <1>2, <1>3, RowsAsTheyWere, Still DEF Own, Cleared, Asks

\* A hold's row takes the place of one that was not judged.
LEMMA HoldFree ==
  ASSUME IInv, FInv, HoldStep(Daemon)
  PROVE  FInv'
<1>1. TypeInv /\ Daemon \in Procs /\ pc \in [Procs -> Steps]
  BY DEF IInv, Procs, TypeInv, TypeOK, LocalTypeOK
<1>2. pc'[Daemon] \in {"idle", "telling", "noting"}
  BY <1>1 DEF HoldStep, Tell, Telling, NoteRed, OncePer, PostRed, Finish, Goto
<1>3. UNCHANGED <<labels, vetoed, dismissTold>>
  BY DEF HoldStep, Tell, Telling, NoteRed, PostRed, NoteLands, Sent, github, db, notices
<1>4. Approved' => Approved
  <2>1. CASE UNCHANGED rows
    BY <2>1, RowsAsTheyWere
  <2>2. CASE Hold(Daemon) /\ pc[Daemon] \in {"tell", "telling"}
    <3>1. Key(Daemon) \in Keys
      BY <1>1, <2>2, HasKey
    <3>2. state[Key(Daemon)] # "published"
      BY <2>2 DEF IInv, Place, At, Judged, Key
    <3>3. QED
      BY <1>1, <2>1, <2>2, <3>1, <3>2, ReplaceApproves DEF Hold, RecordHold
  <2>3. QED
    BY <2>1, <2>2 DEF HoldStep, Tell, Telling, NoteRed, PostRed, db
<1>5. QED
  BY <1>2, <1>3, <1>4, Still DEF Own, Cleared, Asks

\* The slot makes the daemon's row the last; no end of a run approves, and
\* findings take the word from whatever was approved before.
LEMMA RunFree ==
  ASSUME IInv, FInv, RunStep(Daemon) \/ TurnedAway(Daemon) \/ RunFails(Daemon)
  PROVE  FInv'
<1>1. /\ TypeInv /\ Daemon \in Procs /\ pc \in [Procs -> Steps]
      /\ state \in [Keys -> States] /\ verdict \in [Keys -> Verdicts \cup {""}]
  BY DEF IInv, Procs, TypeInv, TypeOK, LocalTypeOK, DbTypeOK
<1>2. pc[Daemon] \in {"slot", "running", "giveup"} /\ UNCHANGED <<labels, vetoed, dismissTold>>
  BY DEF RunStep, TakeSlot, RunUnusable, RunApproves, RunFinds, GiveUp, TurnedAway, RunFails, db,
         github, notices
<1>3. Key(Daemon) \in Keys
  BY <1>1, <1>2, HasKey
<1>4. ~ Judged(Key(Daemon)) \/ pc[Daemon] = "giveup"
  BY <1>2 DEF IInv, Place, At, Key, ShaJudged, Judged
<1>5. pc[Daemon] = "running" => state[Key(Daemon)] = "running" /\ LastRow(Key(Daemon))
  BY DEF IInv, Place, At, Key, FInv, Own
<1>6. CASE TakeSlot(Daemon)
  <2>1. Replace(Key(Daemon), "running") /\ pc'[Daemon] = "running" /\ Key(Daemon)' = Key(Daemon)
    BY <1>1, <1>6, Went DEF TakeSlot, StartReview, Goto, Key
  <2>2. Approved' => Approved
    BY <1>1, <1>3, <1>4, <1>6, <2>1, ReplaceApproves DEF TakeSlot, Judged
  <2>3. \A l \in Keys : l # Key(Daemon) /\ state'[l] # "none" => state[l] # "none"
    BY <1>1, <2>1 DEF Replace
  <2>4. \A l \in Keys : l # Key(Daemon) /\ state[l] # "none" => <<l, Key(Daemon)>> \in older'
    BY <2>1 DEF Replace
  <2>5. LastRow(Key(Daemon))'
    BY <2>1, <2>3, <2>4 DEF LastRow
  <2>6. QED
    BY <1>2, <2>1, <2>2, <2>5, Still DEF Cleared, Asks
<1>7. CASE RunFails(Daemon) \/ RunUnusable(Daemon)
  <2>1. PICK s \in {"failed", "held"}, v \in {"", "needs-work", "comment"} :
          FinishReview(Key(Daemon), s, v)
    BY <1>7 DEF RunFails, RunUnusable
  <2>2. pc[Daemon] = "running" /\ pc'[Daemon] = "giveup"
    BY <1>1, <1>7 DEF RunFails, RunUnusable, Goto
  <2>3. Approved' => Approved
    BY <1>1, <1>3, <1>5, <2>1, <2>2, FinishApproves
  <2>4. QED
    BY <1>2, <2>2, <2>3, Still DEF Own, Cleared, Asks
<1>8. CASE RunApproves(Daemon)
  <2>1. UNCHANGED rows /\ pc'[Daemon] = "clear" /\ Key(Daemon)' = Key(Daemon) /\ pc[Daemon] = "running"
    BY <1>1, <1>8 DEF RunApproves, Goto, Key, db
  <2>2. QED
    BY <1>2, <1>5, <2>1, RowsAsTheyWere, Still DEF Cleared, Asks
<1>9. CASE RunFinds(Daemon)
  <2>1. PICK v \in {"needs-work", "comment"} :
          FinishReview(Key(Daemon), "published", v) /\ Read(Daemon, "publish", v)
    BY <1>9 DEF RunFinds
  <2>2. pc'[Daemon] = "publish" /\ Key(Daemon)' = Key(Daemon) /\ pc[Daemon] = "running"
    BY <1>1, <1>9, <2>1 DEF RunFinds, Read, Key
  <2>3. /\ state'[Key(Daemon)] = "published" /\ verdict'[Key(Daemon)] = v
        /\ \A l \in Keys : l # Key(Daemon) => state'[l] = state[l]
        /\ older' = older
    BY <1>1, <1>3, <1>5, <2>1, <2>2 DEF FinishReview
  <2>4. LastRow(Key(Daemon))'
    BY <1>5, <2>2, <2>3 DEF LastRow
  <2>5. ~ Approved'
    <3> DEFINE k == Key(Daemon)
    <3>1. ASSUME NEW j \in Keys, Newest(j)' PROVE verdict'[j] # "ok"
      <4>1. CASE j = k
        BY <2>3, <4>1
      <4>2. CASE j # k
        <5>1. state'[j] # "none" /\ <<j, k>> \notin older'
          BY <1>3, <2>3, <3>1 DEF Newest
        <5>2. QED
          BY <2>2, <2>4, <4>2, <5>1 DEF LastRow
      <4>3. QED
        BY <4>1, <4>2
    <3>2. QED
      BY <3>1 DEF Approved
  <2>6. QED
    BY <1>2, <2>2, <2>4, <2>5, Still DEF Cleared, Asks
<1>10. CASE GiveUp(Daemon) \/ TurnedAway(Daemon)
  <2>1. UNCHANGED rows /\ pc'[Daemon] = "idle"
    BY <1>1, <1>10 DEF GiveUp, TurnedAway, Finish, db
  <2>2. QED
    BY <1>2, <2>1, RowsAsTheyWere, Still DEF Own, Cleared, Asks
<1>11. QED
  BY <1>6, <1>7, <1>8, <1>9, <1>10 DEF RunStep

\* On an approval's way the label goes before the veto, the veto before the
\* build is asked for, and the row is written last.
LEMMA OkFree ==
  ASSUME IInv, FInv, OkStep(Daemon) \/ RetractFails(Daemon)
  PROVE  FInv'
<1>1. TypeInv /\ Daemon \in Procs /\ pc \in [Procs -> Steps]
  BY DEF IInv, Procs, TypeInv, TypeOK, LocalTypeOK
<1>2. \A l : Goto(Daemon, l) => pc'[Daemon] = l /\ Key(Daemon)' = Key(Daemon)
  BY <1>1 DEF Goto, Key
<1>3. CASE ReadLabels(Daemon) \/ Unlabel(Daemon)
  <2>1. /\ pc[Daemon] \in {"clear", "unlabel"} /\ pc'[Daemon] \in {"unlabel", "retract"}
        /\ Key(Daemon)' = Key(Daemon)
    BY <1>2, <1>3 DEF ReadLabels, Unlabel
  <2>2. UNCHANGED <<rows, vetoed, dismissTold>> /\ labels' \subseteq labels
    BY <1>3 DEF ReadLabels, Unlabel, LabelsBecome, github, db, notices
  <2>3. pc'[Daemon] = "retract" => NeedsWork \notin labels'
    BY <1>2, <1>3 DEF ReadLabels, Unlabel, LabelsBecome, github
  <2>4. LastRow(Key(Daemon))'
    BY <2>1, <2>2, RowsAsTheyWere DEF FInv, Own
  <2>5. QED
    BY <2>1, <2>2, <2>3, <2>4, RowsAsTheyWere, Still DEF Cleared, Asks
<1>4. CASE Retract(Daemon) \/ RetractFails(Daemon)
  <2>1. pc[Daemon] = "retract" /\ pc'[Daemon] = "ask" /\ Key(Daemon)' = Key(Daemon)
    BY <1>2, <1>4 DEF Retract, RetractFails
  <2>2. UNCHANGED <<rows, labels>>
    BY <1>4 DEF Retract, RetractFails, VetoFalls, github, db
  <2>3. (vetoed' => vetoed) /\ (dismissTold => dismissTold') /\ (~ vetoed' \/ dismissTold')
    BY <1>4 DEF Retract, RetractFails, VetoFalls, github, db, notices
  <2>4. LastRow(Key(Daemon))'
    BY <2>1, <2>2, RowsAsTheyWere DEF FInv, Own, Cleared
  <2>5. QED
    BY <2>1, <2>2, <2>3, <2>4, RowsAsTheyWere, Still DEF Cleared
<1>5. CASE NeedsBuild(Daemon)
  <2>1. /\ pc[Daemon] = "ask" /\ pc'[Daemon] = "asking" /\ Key(Daemon)' = Key(Daemon)
        /\ UNCHANGED <<rows, labels, vetoed, dismissTold>>
    BY <1>2, <1>5 DEF NeedsBuild, github, db, notices
  <2>2. LastRow(Key(Daemon))'
    BY <2>1, RowsAsTheyWere DEF FInv, Own, Cleared, Asks
  <2>3. QED
    BY <2>1, <2>2, RowsAsTheyWere, Still DEF Cleared, Asks
<1>6. CASE AlreadyBuilding(Daemon) \/ AskCi(Daemon) \/ Warn(Daemon)
  <2>1. pc[Daemon] \in Asks /\ pc'[Daemon] = "announce"
    BY <1>2, <1>6 DEF AlreadyBuilding, AskCi, Warn, Approve, Asks
  <2>2. UNCHANGED <<labels, vetoed, dismissTold>>
    BY <1>6 DEF AlreadyBuilding, AskCi, Warn, PhraseLands, Sent, github, notices
  <2>3. NeedsWork \notin labels /\ (vetoed => dismissTold)
    BY <2>1 DEF FInv, Cleared
  <2>4. QED
    BY <2>1, <2>2, <2>3 DEF FInv, ApprovedIsFree, Own, Cleared, Asks
<1>7. CASE Announce(Daemon) \/ PostApproval(Daemon)
  <2>1. pc'[Daemon] \in {"idle", "announcing"}
    BY <1>1, <1>7 DEF Announce, OncePer, PostApproval, Finish, Goto
  <2>2. UNCHANGED <<rows, labels, vetoed, dismissTold>>
    BY <1>7 DEF Announce, PostApproval, NoteLands, Sent, github, db, notices
  <2>3. QED
    BY <2>1, <2>2, RowsAsTheyWere, Still DEF Own, Cleared, Asks
<1>8. QED
  BY <1>3, <1>4, <1>5, <1>6, <1>7 DEF OkStep

\* Until the findings are out, the last row is theirs, so nothing approves.
LEMMA FindingsSpeak ==
  ASSUME IInv, FInv, pc[Daemon] \in {"publish", "posting", "label"}
  PROVE  ~ Approved
<1>1. Key(Daemon) \in Keys /\ word[Daemon] \in {"needs-work", "comment"}
  BY HasKey DEF IInv, TypeInv, LocalInv, HasWord, Procs
<1>2. state[Key(Daemon)] = "published" /\ verdict[Key(Daemon)] = word[Daemon]
  BY DEF IInv, Place, At, Key
<1>3. LastRow(Key(Daemon))
  BY DEF FInv, Own
<1>4. QED
  BY <1>1, <1>2, <1>3, LastWord

\* With no approval before or after, labels and vetoes are free to come.
LEMMA NothingApproved ==
  ASSUME FInv, ~ Approved, Approved' => Approved,
         pc'[Daemon] \notin Cleared, pc'[Daemon] \in Own => LastRow(Key(Daemon))'
  PROVE  FInv'
BY DEF FInv, ApprovedIsFree, Cleared

LEMMA FindingsFree ==
  ASSUME IInv, FInv, FindingsStep(Daemon)
  PROVE  FInv'
<1>1. TypeInv /\ Daemon \in Procs /\ pc \in [Procs -> Steps]
  BY DEF IInv, Procs, TypeInv, TypeOK, LocalTypeOK
<1>2. pc[Daemon] \in {"publish", "posting", "label"} /\ ~ Approved /\ LastRow(Key(Daemon))
  BY FindingsSpeak DEF FindingsStep, Publish, OncePer, PostReview, SetLabel, FInv, Own
<1>3. /\ pc'[Daemon] \in {"idle", "posting", "label"}
      /\ pc'[Daemon] # "idle" => Key(Daemon)' = Key(Daemon)
  BY <1>1 DEF FindingsStep, Publish, OncePer, PostReview, SetLabel, Goto, Finish, Key
<1>4. CASE UNCHANGED rows
  BY <1>2, <1>3, <1>4, RowsAsTheyWere, NothingApproved DEF Own, Cleared, Asks
<1>5. CASE SetLabel(Daemon)
  <2>1. pc'[Daemon] = "idle"
    BY <1>1, <1>5 DEF SetLabel, Finish
  <2>2. state[Key(Daemon)] = "published" /\ verdict[Key(Daemon)] = word[Daemon]
    BY <1>5 DEF SetLabel, IInv, Place, At, Key
  <2>3. state \in [Keys -> States] /\ verdict \in [Keys -> Verdicts \cup {""}]
    BY <1>1 DEF TypeInv, TypeOK, DbTypeOK
  <2>4. UNCHANGED rows
    BY <1>5, <2>2, <2>3 DEF SetLabel, FinishReview, rows
  <2>5. QED
    BY <1>4, <2>4
<1>6. QED
  BY <1>4, <1>5 DEF FindingsStep, Publish, PostReview, db

\* A call that fails may have landed; where that brings the label or the veto,
\* nothing is approved.
LEMMA FaultFree ==
  ASSUME IInv, FInv, Refused(Daemon) \/ Lost(Daemon) \/ Crash(Daemon)
  PROVE  FInv'
<1>1. TypeInv /\ Daemon \in Procs /\ pc \in [Procs -> Steps]
  BY DEF IInv, Procs, TypeInv, TypeOK, LocalTypeOK
<1>2. Approved' => Approved
  BY RowsAsTheyWere, ReapApproves DEF Refused, Lost, Crash, db
<1>3. \/ pc'[Daemon] \in {"idle", "giveup"}
      \/ /\ pc[Daemon] = "asking" /\ pc'[Daemon] = "warn"
         /\ Key(Daemon)' = Key(Daemon) /\ UNCHANGED rows
  BY <1>1 DEF Refused, Lost, Crash, Raise, Finish, Goto, Key, db
<1>4. pc'[Daemon] \in Own => LastRow(Key(Daemon))'
  BY <1>3, RowsAsTheyWere DEF FInv, Own, Cleared, Asks
<1>5. CASE pc[Daemon] \in {"posting", "label"} /\ pc'[Daemon] \in {"idle", "giveup"}
  BY <1>2, <1>4, <1>5, FindingsSpeak, NothingApproved DEF Cleared, Asks
<1>6. CASE pc[Daemon] \notin {"posting", "label"}
  <2>1. UNCHANGED <<vetoed, dismissTold>> /\ labels' \subseteq labels
    BY <1>6 DEF Refused, Lost, Crash, NoteLands, LabelsBecome, PhraseLands, github, db, notices
  <2>2. QED
    BY <1>2, <1>3, <1>4, <2>1, Still DEF Cleared, Asks
<1>7. QED
  BY <1>3, <1>5, <1>6

LEMMA FreeInductive ==
  ASSUME Forced = {}, IInv, FInv, [Next]_vars
  PROVE  FInv'
<1>1. Procs = {Daemon}
  BY DEF Procs
<1>2. CASE World \/ UNCHANGED vars
  BY <1>2, WorldFree
<1>3. CASE DaemonTick
  BY <1>3, TickFree
<1>4. CASE Advance(Daemon) \/ Fault(Daemon)
  <2>1. \/ GateStep(Daemon) \/ HoldStep(Daemon) \/ FindingsStep(Daemon)
        \/ RunStep(Daemon) \/ TurnedAway(Daemon) \/ RunFails(Daemon)
        \/ OkStep(Daemon) \/ RetractFails(Daemon)
        \/ Refused(Daemon) \/ Lost(Daemon) \/ Crash(Daemon)
    BY <1>4 DEF Advance, Fault
  <2>2. QED
    BY <2>1, GateFree, HoldFree, FindingsFree, RunFree, OkFree, FaultFree
<1>5. QED
  BY <1>1, <1>2, <1>3, <1>4 DEF Next, Calm

\* Once the newest pass is an approval, the reviewer's own veto and its own
\* brake are off the PR, or the operator was told that the veto stands
\* (clear_needs_work, _retract_rejection): for any number of passes, and
\* wherever a call of any of them failed or the daemon died.
THEOREM ApprovalsAreFree == ASSUME Forced = {} PROVE Spec => []ApprovedIsFree
<1>1. Init => FInv
  <2>1. ASSUME Init PROVE ~ Approved /\ pc[Daemon] = "idle"
    BY <2>1 DEF Init, DbInit, Approved, Newest, Procs
  <2>2. QED
    BY <2>1 DEF FInv, ApprovedIsFree, Own, Cleared, Asks
<1>2. IInv /\ FInv /\ [Next]_vars => FInv'
  BY FreeInductive
<1>3. FInv => ApprovedIsFree
  BY DEF FInv
<1>4. Spec => []IInv
  BY Inductive
<1>5. QED
  BY <1>1, <1>2, <1>3, <1>4, PTL DEF Spec
=============================================================================
