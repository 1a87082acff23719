------------------------------ MODULE ReviewDb ------------------------------
(***************************************************************************)
(* The part of db.py one pull request depends on: its rows in `reviews`,   *)
(* keyed by commit and request, the notices that make a post or a message  *)
(* happen once, and whether its repository was seeded.  SQLite commits     *)
(* every statement by itself, so each operator is one step and survives a  *)
(* crash.  Costs are in Slots; `ci_state` and the panel's `requested`      *)
(* table are read by the panel and its watch only, and are in Board.       *)
(***************************************************************************)
EXTENDS Naturals

CONSTANTS
  Shas,      \* commits the PR may have
  Requests   \* review requests, and what stands for an unreadable timeline

Keys     == Shas \X Requests                 \* dedup_key, the PR being fixed
States   == {"none", "running", "failed", "held", "published"}
Verdicts == {"ok", "needs-work", "comment"}
Kinds    == {"review", "approved", "ci-red", "run-ci"}
Posts    == Kinds \X Shas                    \* what once_per guards

VARIABLES
  state,       \* per key: the row's state, "none" when there is no row
  verdict,     \* per key: the verdict of a judged row, "" when it has none
  older,       \* <<k, l>>: k's row was created before l's
  sent,        \* notices of the posts that went out
  dmed,        \* notices of the operator messages about a hold
  dismissTold, \* the notice that a rejection could not be retracted
  seeded       \* the repository's backlog has been recorded

rows    == <<state, verdict, older>>
notices == <<sent, dmed, dismissTold>>

DbTypeOK ==
  /\ state \in [Keys -> States]
  /\ verdict \in [Keys -> Verdicts \cup {""}]
  /\ older \subseteq Keys \X Keys
  /\ sent \subseteq Posts
  /\ dmed \subseteq Keys
  /\ dismissTold \in BOOLEAN
  /\ seeded \in BOOLEAN

DbInit ==
  /\ state = [k \in Keys |-> "none"]
  /\ verdict = [k \in Keys |-> ""]
  /\ older = {}
  /\ sent = {} /\ dmed = {} /\ dismissTold = FALSE
  /\ seeded = FALSE

Judged(k) == state[k] \in {"published", "held"}

\* sha_was_judged: some row of this commit, whatever its request.
ShaJudged(c) == \E r \in Requests : Judged(<<c, r>>)

\* INSERT OR REPLACE: whatever row had the key is gone, and the new one is the
\* newest of all.
Replace(k, s) ==
  /\ state' = [state EXCEPT ![k] = s]
  /\ verdict' = [verdict EXCEPT ![k] = ""]
  /\ older' = {p \in older : p[1] # k /\ p[2] # k}
              \cup {<<l, k>> : l \in {m \in Keys : m # k /\ state[m] # "none"}}

StartReview(k) == Replace(k, "running")
RecordHold(k)  == Replace(k, "held")

\* Mutant: state and verdict in each other's place.
FinishReviewSwapped(k, s, v) ==
  /\ state' = [state EXCEPT ![k] = v]
  /\ verdict' = [verdict EXCEPT ![k] = s]
  /\ UNCHANGED older

\* An UPDATE: a row that is not there stays away, and a verdict that was not
\* given stays what it was.
FinishReview(k, s, v) ==
  /\ state' = [state EXCEPT ![k] = IF @ = "none" THEN "none" ELSE s]
  /\ verdict' = [verdict EXCEPT ![k] = IF v = "" \/ state[k] = "none" THEN @ ELSE v]
  /\ UNCHANGED older

\* Mutant: a boot reaps whatever was not published.
ReapUnpublished ==
  /\ state' = [k \in Keys |-> IF state[k] \in {"running", "held"} THEN "failed" ELSE state[k]]
  /\ UNCHANGED <<verdict, older>>

\* Every orphan of the process before this one.
ReapRunning ==
  /\ state' = [k \in Keys |-> IF state[k] = "running" THEN "failed" ELSE state[k]]
  /\ UNCHANGED <<verdict, older>>

\* The rows that count are the published ones, and the newest of them speaks
\* for the PR (approved_prs, approved_and_green).
Newest(k) ==
  /\ state[k] = "published"
  /\ \A l \in Keys : state[l] = "published" => <<k, l>> \notin older

Approved == \E k \in Keys : Newest(k) /\ verdict[k] = "ok"
=============================================================================
