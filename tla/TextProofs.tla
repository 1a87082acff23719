----------------------------- MODULE TextProofs -----------------------------
(***************************************************************************)
(* What the program's pure parts promise of one input, for every input     *)
(* whatever its length and its elements, and so of the specification Text. *)
(* What a loop makes of a text is proved by induction on how much of it    *)
(* the loop has read (Scan's lemmas).                                      *)
(***************************************************************************)
EXTENDS Text, SequenceTheorems, FiniteSetTheorems, WellFoundedInduction, TLAPS

-----------------------------------------------------------------------------
(* The input.                                                              *)

Typed == kind \in Kinds /\ input \in Seq(Alphabet[kind])

\* An input is a sequence over the alphabet of its kind.
LEMMA InputIsTyped == Spec => []Typed
<1>1. Init => Typed
  BY DEF Init, Typed
<1>2. Typed /\ [Grow]_vars => Typed'
  BY DEF Typed, Grow, vars
<1>3. QED
  BY <1>1, <1>2, PTL DEF Spec

\* A step adds an element to the input, and changes nothing else.
LEMMA InputGrows ==
  Typed /\ Grow => /\ kind' = kind /\ Typed'
                   /\ Newest \in Alphabet[kind]
                   /\ input' = Append(input, Newest)
<1>1. SUFFICES ASSUME Typed, Grow
               PROVE  /\ kind' = kind /\ Typed'
                      /\ Newest \in Alphabet[kind]
                      /\ input' = Append(input, Newest)
  OBVIOUS
<1>2. PICK x \in Alphabet[kind] : input' = Append(input, x)
  BY <1>1 DEF Grow
<1>3. Newest = x
  BY <1>1, <1>2 DEF Typed, Newest
<1>4. QED
  BY <1>1, <1>2, <1>3 DEF Typed, Grow

\* A set of numbers that is not empty has a smallest.
LEMMA SmallestOf ==
  ASSUME NEW S \in SUBSET Nat, S # {}
  PROVE  \E x \in S : \A y \in S : x <= y
<1> DEFINE Less == {ss \in Nat \X Nat : ss[1] < ss[2]}
<1>1. OpToRel(<, Nat) = Less
  BY DEF OpToRel
<1>2. IsWellFoundedOn(Less, Nat)
  BY <1>1, NatLessThanWellFounded
<1> HIDE DEF Less
<1>3. PICK x \in S : \A y \in S : ~ (<<y, x>> \in Less)
  BY <1>2, WFMin
<1>4. \A y \in S : ~ (y < x)
  BY <1>3 DEF Less
<1>5. QED
  BY <1>3, <1>4

\* And a largest, when it is bounded.
LEMMA LargestOf ==
  ASSUME NEW n \in Nat, NEW S \in SUBSET (0 .. n), S # {}
  PROVE  Max(S) \in S /\ \A y \in S : y <= Max(S)
<1> DEFINE Below == {n - x : x \in S}
<1>1. Below \in SUBSET Nat /\ Below # {}
  <2>1. \A x \in S : n - x \in Nat
    OBVIOUS
  <2>2. PICK x \in S : TRUE
    OBVIOUS
  <2>3. QED
    BY <2>1, <2>2
<1>2. PICK b \in Below : \A c \in Below : b <= c
  BY <1>1, SmallestOf
<1>3. PICK x \in S : b = n - x
  BY <1>2
<1>4. \A y \in S : x >= y
  BY <1>2, <1>3
<1>5. Max(S) \in S /\ \A y \in S : Max(S) >= y
  BY <1>3, <1>4 DEF Max
<1>6. QED
  BY <1>5

\* The members of a list with one more.
LEMMA OneMore ==
  ASSUME NEW S, NEW list \in Seq(S), NEW x \in S
  PROVE  ToSet(Append(list, x)) = ToSet(list) \cup {x}
<1>1. /\ DOMAIN Append(list, x) = DOMAIN list \cup {Len(list) + 1}
      /\ \A i \in DOMAIN list : Append(list, x)[i] = list[i]
      /\ Append(list, x)[Len(list) + 1] = x
  OBVIOUS
<1>2. QED
  BY <1>1 DEF ToSet

-----------------------------------------------------------------------------
(* The bug form.                                                           *)

\* What a reader of a form keeps.
Forms(S) ==
  [answers : UNION {[H -> Seq(S)] : H \in SUBSET S}, current : S \cup {""}, fence : S \cup {""}]

\* A line leaves a form a form.
LEMMA LineKeepsForm ==
  ASSUME NEW S, NEW form \in Forms(S), NEW line \in S
  PROVE  ReadLine(form, line) \in Forms(S)
<1>1. ASSUME NEW some \in Forms(S)
      PROVE  Under(some, line) \in Forms(S)
  <2>1. PICK H \in SUBSET S : some.answers \in [H -> Seq(S)]
    BY <1>1 DEF Forms
  <2>2. [some.answers EXCEPT ![some.current] = Append(@, line)] \in [H -> Seq(S)]
    <3>1. CASE some.current \in H
      <4>1. Append(some.answers[some.current], line) \in Seq(S)
        BY <2>1, <3>1
      <4>2. QED
        BY <2>1, <4>1
    <3>2. CASE some.current \notin H
      BY <2>1, <3>2
    <3>3. QED
      BY <3>1, <3>2
  <2>3. QED
    BY <1>1, <2>2 DEF Under, Forms
<1>2. Opens(form, line) \in Forms(S)
  <2>1. PICK H \in SUBSET S : form.answers \in [H -> Seq(S)]
    BY DEF Forms
  <2>2. [h \in DOMAIN form.answers \cup {line} |-> IF h = line THEN <<>> ELSE form.answers[h]]
          \in [H \cup {line} -> Seq(S)]
    BY <2>1
  <2>3. H \cup {line} \in SUBSET S
    OBVIOUS
  <2>4. QED
    BY <2>2, <2>3 DEF Opens, Forms
<1>3. /\ [form EXCEPT !.fence = IF line = @ THEN "" ELSE @] \in Forms(S)
      /\ [form EXCEPT !.fence = line] \in Forms(S)
  BY DEF Forms
<1>4. QED
  BY <1>1, <1>2, <1>3 DEF ReadLine

\* A line changes no answer but the one it stands in.
LEMMA LineStaysInItsField ==
  ASSUME NEW S, NEW form \in Forms(S), NEW line \in S,
         NEW h \in DOMAIN form.answers, h # form.current
  PROVE  ReadLine(form, line).answers[h] = form.answers[h]
<1>1. ASSUME NEW mark \in S \cup {""}
      PROVE  Under([form EXCEPT !.fence = mark], line).answers[h] = form.answers[h]
  <2> DEFINE some == [form EXCEPT !.fence = mark]
  <2>1. some \in Forms(S) /\ some.answers = form.answers /\ some.current = form.current
    BY <1>1 DEF Forms
  <2> HIDE DEF some
  <2>2. Under(some, line).answers[h] = form.answers[h]
    BY <2>1 DEF Under, Forms
  <2>3. QED
    BY <2>2 DEF some
<1>2. Under(form, line).answers[h] = form.answers[h]
  BY DEF Under, Forms
<1>3. CASE form.fence # ""
  <2> DEFINE mark == IF line = form.fence THEN "" ELSE form.fence
  <2>1. mark \in S \cup {""}
    BY DEF Forms
  <2>2. ReadLine(form, line) = Under([form EXCEPT !.fence = mark], line)
    BY <1>3 DEF ReadLine
  <2> HIDE DEF mark
  <2>3. QED
    BY <1>1, <2>1, <2>2
<1>4. CASE form.fence = "" /\ line \in Fences
  <2>1. ReadLine(form, line) = Under([form EXCEPT !.fence = line], line)
    BY <1>4, TriageAssumption DEF ReadLine
  <2>2. QED
    BY <1>1, <2>1
<1>5. CASE form.fence = "" /\ line \notin Fences /\ line \in Headings \ DOMAIN form.answers
  <2>1. Opens(form, line).answers[h] = form.answers[h]
    BY <1>5 DEF Opens, Forms
  <2>2. QED
    BY <1>5, <2>1 DEF ReadLine
<1>6. CASE form.fence = "" /\ line \notin Fences /\ line \notin Headings \ DOMAIN form.answers
  BY <1>2, <1>6 DEF ReadLine
<1>7. QED
  BY <1>3, <1>4, <1>5, <1>6

\* Nothing typed or logged further down reaches a field the form has moved
\* past (triage.fields), whatever the body and the next line.
THEOREM LaterLinesStayInTheirField ==
  ASSUME NEW S, NEW body \in Seq(S), NEW line \in S
  PROVE  OnlyTheOpenField(body, line)
<1>1. Start \in Forms(S)
  <2>1. <<>> \in [{} -> Seq(S)] /\ {} \in SUBSET S
    OBVIOUS
  <2>2. QED
    BY <2>1 DEF Start, Forms
<1>2. Form(body) \in Forms(S)
  BY <1>1, LineKeepsForm, Lines!ScanKeeps DEF Form
<1>3. Form(Append(body, line)) = ReadLine(Form(body), line)
  BY Lines!ScanOneMore DEF Form
<1>4. QED
  BY <1>2, <1>3, LineStaysInItsField DEF OnlyTheOpenField

\* Of the specification: a line added to a body stays in its field.
THEOREM FieldsStayClosed == Spec => FieldsAreClosed
<1>1. Typed /\ [Grow]_vars => [Of("body") => OnlyTheOpenField(input, Newest)]_vars
  BY InputGrows, LaterLinesStayInTheirField DEF Typed, vars
<1>2. QED
  BY <1>1, InputIsTyped, PTL DEF Spec, FieldsAreClosed

\* A model is asked about a report only when its answer decides
\* (triage.verdict), whatever the rules, the form and the answers there could
\* have been instead: with rules that contradict each other no answer does.
THEOREM AsksOnlyWhatDecides ==
  ASSUME NEW answers, NEW rules, NEW sentry \in BOOLEAN, NEW words
  PROVE  AskingDecides(answers, rules, sentry, words)
<1> DEFINE asked == Asked(answers, rules)
<1>1. SUFFICES ASSUME Verdict(answers, rules, sentry) = "ask", NEW replies \in [asked -> words]
               PROVE  Verdict(Replied(answers, replies), rules, sentry) = "attempt"
                        <=> \A f \in asked : Settles(replies[f], f, rules, sentry)
  BY DEF AskingDecides
<1> DEFINE said == Replied(answers, replies)
<1>2. /\ Configured(rules) /\ Unmet(answers, rules) = asked
      /\ Missing(answers, rules, sentry) = {} /\ Blocked(answers, rules) = {}
  BY <1>1 DEF Verdict, Refused, Quoted
<1>3. \A f : Get(said, f) = IF f \in asked THEN replies[f] ELSE Get(answers, f)
  BY DEF Get, Replied
<1> HIDE DEF said, asked
<1>4. Verdict(said, rules, sentry) = "attempt"
        <=> Unmet(said, rules) = {} /\ Missing(said, rules, sentry) = {} /\ Blocked(said, rules) = {}
  <2>1. Asked(said, rules) \subseteq Unmet(said, rules)
    BY DEF Asked
  <2>2. QED
    BY <1>2, <2>1 DEF Verdict, Refused, Quoted
<1>5. Unmet(said, rules) = {} <=> \A f \in asked : replies[f] \in rules.require[f]
  BY <1>2, <1>3 DEF Unmet
<1>6. Missing(said, rules, sentry) = {}
        <=> \A f \in asked : f \in rules.needs /\ ~ sentry => replies[f] # <<>>
  BY <1>2, <1>3 DEF Missing
<1>7. Blocked(said, rules) = {}
        <=> \A f \in asked : \A i \in DOMAIN rules.block_if :
              rules.block_if[i].field = f => replies[f] \notin rules.block_if[i].answers
  <2>1. \A i \in DOMAIN rules.block_if :
           rules.block_if[i].field \notin asked =>
             Get(said, rules.block_if[i].field) \notin rules.block_if[i].answers
    BY <1>2, <1>3 DEF Blocked
  <2>2. QED
    BY <1>3, <2>1 DEF Blocked
<1>8. QED
  BY <1>4, <1>5, <1>6, <1>7 DEF Settles, said

\* Of the specification: of every form and rules that end in a question.
THEOREM QuestionsDecide == Spec => []AskedWhenItDecides
<1>1. AskedWhenItDecides
  BY AsksOnlyWhatDecides DEF AskedWhenItDecides
<1>2. QED
  BY <1>1, PTL

-----------------------------------------------------------------------------
(* A fixer's patch.                                                        *)

\* Every reason says something.
LEMMA ReasonsSay ==
  /\ DOMAIN Reasons = 1 .. 7
  /\ \A i \in 1 .. 7 : Reasons[i] # ""
  /\ Reasons[2] = "too-long" /\ Reasons[4] = "off-limits"
  /\ Reasons[6] = "files" /\ Reasons[7] = "lines"
<1>1. DOMAIN Reasons = 1 .. 7
  BY DEF Reasons
<1>2. /\ Reasons[1] = "empty" /\ Reasons[2] = "too-long" /\ Reasons[3] = "no-header"
      /\ Reasons[4] = "off-limits" /\ Reasons[5] = "no-test" /\ Reasons[6] = "files"
      /\ Reasons[7] = "lines"
  BY DEF Reasons
<1>3. ASSUME NEW i \in 1 .. 7
      PROVE  Reasons[i] # ""
  <2>1. i = 1 \/ i = 2 \/ i = 3 \/ i = 4 \/ i = 5 \/ i = 6 \/ i = 7
    OBVIOUS
  <2>2. QED
    BY <1>2, <2>1
<1>4. QED
  BY <1>1, <1>2, <1>3

\* A patch is refused exactly when it breaks a rule, and for one it breaks.
LEMMA RefusedForWhatItBreaks ==
  ASSUME NEW patch
  PROVE  /\ Refuse(patch) = "" => \A i \in 1 .. 7 : ~ Breaks(patch, Reasons[i])
         /\ Refuse(patch) # "" =>
              \E i \in 1 .. 7 : Refuse(patch) = Reasons[i] /\ Breaks(patch, Reasons[i])
<1> DEFINE broken == {i \in DOMAIN Reasons : Breaks(patch, Reasons[i])}
<1>1. DOMAIN Reasons = 1 .. 7 /\ \A i \in 1 .. 7 : Reasons[i] # ""
  BY ReasonsSay
<1>2. broken \in SUBSET Nat
  <2>1. \A i \in 1 .. 7 : i \in Nat
    OBVIOUS
  <2>2. QED
    BY <1>1, <2>1, Zenon
<1>3. Refuse(patch) = IF broken = {} THEN "" ELSE Reasons[Min(broken)]
  BY DEF Refuse
<1>4. broken # {} => Min(broken) \in broken
  BY <1>2, SmallestOf DEF Min
<1>5. QED
  BY <1>1, <1>3, <1>4

\* The set of a function's values is finite when its domain is.
LEMMA FiniteValues ==
  ASSUME NEW n \in Nat, NEW f, DOMAIN f = 1 .. n
  PROVE  IsFiniteSet({f[i] : i \in 1 .. n})
<1> DEFINE T == {f[i] : i \in 1 .. n}
           g == [i \in 1 .. n |-> f[i]]
<1>1. g \in Surjection(1 .. n, T)
  BY DEF Surjection
<1>2. IsFiniteSet(1 .. n)
  BY FS_Interval
<1> HIDE DEF g, T
<1>3. IsFiniteSet(T)
  BY <1>1, <1>2, FS_Surjection
<1>4. QED
  BY <1>3 DEF T

\* The paths of a patch are finitely many, and one row more loses none.
LEMMA PathsOnlyGrow ==
  ASSUME NEW S, NEW patch \in Seq(S), NEW row \in S
  PROVE  /\ ChangedPaths(patch) \subseteq ChangedPaths(Append(patch, row))
         /\ IsFiniteSet(ChangedPaths(patch))
<1>1. ChangedPaths(patch) \subseteq ChangedPaths(Append(patch, row))
  BY OneMore DEF ChangedPaths
<1> DEFINE n == Len(patch)
           Old == [i \in 1 .. n |-> patch[i].a]
           New == [i \in 1 .. n |-> patch[i].b]
           Olds == {Old[i] : i \in 1 .. n}
           News == {New[i] : i \in 1 .. n}
<1>2. IsFiniteSet(Olds) /\ IsFiniteSet(News)
  <2>1. n \in Nat /\ DOMAIN Old = 1 .. n /\ DOMAIN New = 1 .. n
    OBVIOUS
  <2> HIDE DEF Old, New, n
  <2>2. QED
    BY <2>1, FiniteValues
<1>3. ChangedPaths(patch) \subseteq Olds \cup News
  <2>1. DOMAIN patch = 1 .. n
    OBVIOUS
  <2>2. QED
    BY <2>1 DEF ChangedPaths, ToSet
<1> HIDE DEF Olds, News
<1>4. IsFiniteSet(Olds \cup News)
  BY <1>2, FS_Union
<1>5. IsFiniteSet(ChangedPaths(patch))
  BY <1>3, <1>4, FS_Subset
<1>6. QED
  BY <1>1, <1>5

\* One row more is no fewer rows of a kind.
LEMMA CountsOnlyGrow ==
  ASSUME NEW S, NEW patch \in Seq(S), NEW row \in S, NEW kinds
  PROVE  /\ Count(patch, kinds) \in Nat /\ Count(Append(patch, row), kinds) \in Nat
         /\ Count(patch, kinds) <= Count(Append(patch, row), kinds)
<1> DEFINE more == Append(patch, row)
           Few  == {i \in DOMAIN patch : patch[i].kind \in kinds}
           Many == {i \in DOMAIN more : more[i].kind \in kinds}
<1>1. /\ Len(patch) \in Nat /\ DOMAIN patch = 1 .. Len(patch)
      /\ DOMAIN more = 1 .. Len(patch) + 1 /\ \A i \in DOMAIN patch : more[i] = patch[i]
  OBVIOUS
<1> HIDE DEF more
<1>2. Few \subseteq Many /\ Many \subseteq 1 .. Len(patch) + 1
  BY <1>1
<1>3. IsFiniteSet(1 .. Len(patch) + 1)
  BY <1>1, FS_Interval
<1> HIDE DEF Few, Many
<1>4. IsFiniteSet(Many) /\ IsFiniteSet(Few)
  BY <1>2, <1>3, FS_Subset
<1>5. Cardinality(Few) \in Nat /\ Cardinality(Many) \in Nat /\ Cardinality(Few) <= Cardinality(Many)
  BY <1>2, <1>4, FS_Subset, FS_CardinalityType
<1>6. QED
  BY <1>5 DEF Few, Many, Count, more

\* What a patch is refused for does not go away by adding to it (pr.refuse),
\* whatever the patch, the row, the protected paths and the limits.
THEOREM RefusalsNeverLift ==
  ASSUME NEW S, NEW patch \in Seq(S), NEW row \in S
  PROVE  RefusalStands(patch, row)
<1> DEFINE more == Append(patch, row)
<1>1. SUFFICES ASSUME NEW why \in {"too-long", "off-limits", "files", "lines"}, Refuse(patch) = why
               PROVE  Refuse(more) # ""
  BY DEF RefusalStands
<1>2. Breaks(patch, why)
  <2>1. PICK i \in 1 .. 7 : Refuse(patch) = Reasons[i] /\ Breaks(patch, Reasons[i])
    BY <1>1, RefusedForWhatItBreaks
  <2>2. Reasons[i] = why
    BY <1>1, <2>1
  <2>3. QED
    BY <2>1, <2>2
<1>3. more \in Seq(S) /\ Len(more) = Len(patch) + 1 /\ Len(patch) \in Nat
  OBVIOUS
<1>4. /\ ChangedPaths(patch) \subseteq ChangedPaths(more)
      /\ IsFiniteSet(ChangedPaths(patch)) /\ IsFiniteSet(ChangedPaths(more))
  BY <1>3, PathsOnlyGrow
<1>5. /\ ChangedLines(patch) \in Nat /\ ChangedLines(more) \in Nat
      /\ ChangedLines(patch) <= ChangedLines(more)
  BY CountsOnlyGrow DEF ChangedLines
<1> HIDE DEF more
<1>6. /\ Cardinality(ChangedPaths(patch)) \in Nat /\ Cardinality(ChangedPaths(more)) \in Nat
      /\ Cardinality(ChangedPaths(patch)) <= Cardinality(ChangedPaths(more))
  <2> DEFINE few == ChangedPaths(patch)  many == ChangedPaths(more)
  <2> HIDE DEF few, many
  <2>1. few \in SUBSET many /\ IsFiniteSet(few) /\ IsFiniteSet(many)
    BY <1>4 DEF few, many
  <2>2. Cardinality(few) \in Nat /\ Cardinality(many) \in Nat /\ Cardinality(few) <= Cardinality(many)
    BY <2>1, FS_Subset, FS_CardinalityType
  <2>3. QED
    BY <2>2 DEF few, many
<1>7. Breaks(more, why)
  <2>1. CASE why = "too-long"
    BY <1>2, <1>3, <2>1, PatchAssumption DEF Breaks
  <2>2. CASE why = "off-limits"
    BY <1>2, <1>4, <2>2 DEF Breaks
  <2>3. CASE why = "files"
    BY <1>2, <1>6, <2>3, PatchAssumption DEF Breaks
  <2>4. CASE why = "lines"
    BY <1>2, <1>5, <2>4, PatchAssumption DEF Breaks
  <2>5. QED
    BY <1>1, <2>1, <2>2, <2>3, <2>4
<1>8. PICK i \in 1 .. 7 : Reasons[i] = why
  <2>1. why \in {Reasons[2], Reasons[4], Reasons[6], Reasons[7]}
    BY ReasonsSay
  <2>2. QED
    BY <2>1
<1>9. Breaks(more, Reasons[i])
  BY <1>7, <1>8
<1>10. QED
  BY <1>9, RefusedForWhatItBreaks

\* Of the specification: a row added to a refused patch does not free it.
THEOREM RefusalsAreFinal == Spec => RefusalsStand
<1>1. Typed /\ [Grow]_vars
        => [Of("patch") => RefusalStands(input, Newest)]_vars
  BY InputGrows, RefusalsNeverLift DEF Typed, vars
<1>2. QED
  BY <1>1, InputIsTyped, PTL DEF Spec, RefusalsStand

-----------------------------------------------------------------------------
(* The nearest line of a diff.                                             *)

\* The distance of two lines is a number.
LEMMA DistanceIsNat ==
  ASSUME NEW a \in Int, NEW b \in Int
  PROVE  Distance(a, b) \in Nat
BY DEF Distance

\* Nearest finds a line of the diff, and none is nearer.
LEMMA NearestIsInTheDiff ==
  ASSUME NEW lines \in SUBSET Nat, lines # {}, NEW line \in Int
  PROVE  /\ Nearest(line, lines) \in lines
         /\ \A m \in lines : Distance(Nearest(line, lines), line) <= Distance(m, line)
<1> DEFINE Away == {Distance(n, line) : n \in lines}
<1>1. Away \in SUBSET Nat /\ Away # {}
  <2>1. \A n \in lines : Distance(n, line) \in Nat
    BY DEF Distance
  <2>2. QED
    BY <2>1
<1>2. PICK d \in Away : \A e \in Away : d <= e
  BY <1>1, SmallestOf
<1> DEFINE At == {n \in lines : Distance(n, line) = d}
<1>3. At \in SUBSET Nat /\ At # {}
  BY <1>2
<1>4. PICK n \in At : \A m \in At : n <= m
  BY <1>3, SmallestOf
<1>5. \A m \in lines :
        Distance(n, line) < Distance(m, line) \/ (Distance(n, line) = Distance(m, line) /\ n <= m)
  <2>1. TAKE m \in lines
  <2>2. Distance(n, line) = d /\ d <= Distance(m, line)
    BY <1>2, <1>4
  <2>3. d \in Nat /\ Distance(m, line) \in Nat
    BY <1>1, DistanceIsNat
  <2>4. CASE Distance(m, line) = d
    BY <1>4, <2>2, <2>4
  <2>5. CASE Distance(m, line) # d
    BY <2>2, <2>3, <2>5
  <2>6. QED
    BY <2>4, <2>5
<1>6. n \in lines
  BY <1>4
<1> DEFINE Best(k) == \A m \in lines :
        Distance(k, line) < Distance(m, line) \/ (Distance(k, line) = Distance(m, line) /\ k <= m)
<1>7. Nearest(line, lines) \in lines /\ Best(Nearest(line, lines))
  BY <1>5, <1>6 DEF Nearest
<1>8. QED
  BY <1>7, DistanceIsNat

-----------------------------------------------------------------------------
(* Where a finding goes.                                                   *)

\* A finding: its severity is whatever the model wrote.
Finding == [severity : STRING, line : Int, start : Int]

\* A rank is a number, or none.
LEMMA RankIsInt ==
  ASSUME NEW sev
  PROVE  Rank(sev) \in Int /\ \A least \in Severities : RANK[least] \in Nat
BY DEF Rank, RANK, NoRank, Severities

\* GitHub takes every comment the reviewer places (anchor.anchor), whatever
\* the diff, the finding, the least severity kept inline and the nudge: its
\* line and start are in the diff, in order, and it moved no further than SNAP.
THEOREM CommentsAreInTheDiff ==
  ASSUME NEW lines \in SUBSET Nat, NEW f \in Finding, NEW least \in Severities
  PROVE  CommentIsInTheDiff(f, lines, least)
<1> DEFINE c == Place(f, lines, least)
           target == IF f.line \in lines THEN f.line ELSE Nearest(f.line, lines)
<1>1. SUFFICES ASSUME c.place = "inline"
               PROVE  /\ c.line \in lines
                      /\ f.line \in lines => c.line = f.line
                      /\ c.line - f.line \in -SNAP .. SNAP
                      /\ c.start # NoLine => c.start \in lines /\ c.start < c.line
  BY DEF CommentIsInTheDiff
<1>2. Rank(f.severity) \in Int /\ RANK[least] \in Int /\ f.line \in Int /\ f.start \in Int
  BY RankIsInt DEF Finding
<1>3. lines # {} /\ Reach(f, lines) <= SNAP /\ c = Comment(f, target, lines)
  <2>1. ~ (Rank(f.severity) > RANK[least])
    BY <1>1 DEF Place
  <2>2. ~ (f.line = NoLine \/ lines = {})
    BY <1>1, <1>2, <2>1 DEF Place
  <2>3. c = IF Reach(f, lines) > SNAP THEN [place |-> "leftover"] ELSE Comment(f, target, lines)
    BY <2>1, <2>2 DEF Place
  <2>4. ~ (Reach(f, lines) > SNAP)
    BY <1>1, <2>3
  <2>5. Reach(f, lines) \in Nat
    <3>1. CASE f.line \in lines
      BY <3>1 DEF Reach
    <3>2. CASE f.line \notin lines
      <4>1. Nearest(f.line, lines) \in Nat
        BY <1>2, <2>2, NearestIsInTheDiff
      <4>2. Distance(Nearest(f.line, lines), f.line) \in Nat
        BY <1>2, <4>1 DEF Distance
      <4>3. QED
        BY <3>2, <4>2 DEF Reach
    <3>3. QED
      BY <3>1, <3>2
  <2>6. QED
    BY <2>2, <2>3, <2>4, <2>5, AnchorAssumption
<1>4. target \in lines /\ (f.line \in lines => target = f.line)
  BY <1>2, <1>3, NearestIsInTheDiff
<1>5. target - f.line \in -SNAP .. SNAP
  <2>1. CASE f.line \in lines
    BY <1>2, <2>1, AnchorAssumption
  <2>2. CASE f.line \notin lines
    <3>1. target \in Int /\ Distance(target, f.line) <= SNAP
      <4>1. Reach(f, lines) = Distance(target, f.line)
        BY <2>2 DEF Reach
      <4>2. PICK n \in lines : n = target
        BY <1>4
      <4>3. n \in Nat
        OBVIOUS
      <4>4. Reach(f, lines) <= SNAP
        BY <1>3
      <4>5. QED
        BY <4>1, <4>2, <4>3, <4>4
    <3>2. QED
      BY <1>2, <3>1, AnchorAssumption DEF Distance
  <2>3. QED
    BY <2>1, <2>2
<1>6. c.line = target /\ (c.start # NoLine => RangeStarts(f, target, lines) /\ c.start = f.start)
  BY <1>3 DEF Comment
<1>7. QED
  BY <1>4, <1>5, <1>6 DEF RangeStarts

\* No finding the review counts as blocking is folded away with the nitpicks
\* (anchor.anchor beside severity_count), however the model spelled it.
THEOREM BlockersStayInSight ==
  ASSUME NEW lines \in SUBSET Nat, NEW f \in Finding, NEW least \in Severities
  PROVE  BlockersAreSeen(f, lines, least)
<1>1. SUFFICES ASSUME CountsAsBlocking(f), least # "critical"
               PROVE  Place(f, lines, least).place # "folded"
  BY DEF BlockersAreSeen
<1>2. Rank(f.severity) \in {0, 1}
  BY <1>1 DEF CountsAsBlocking, Rank, RANK, Joined, Severities
<1>3. RANK[least] \in 1 .. 3
  BY <1>1 DEF RANK, Severities
<1>4. ~ (Rank(f.severity) > RANK[least]) /\ Rank(f.severity) <= RANK[least]
  BY <1>2, <1>3
<1>5. CASE f.line = NoLine \/ lines = {}
  BY <1>4, <1>5 DEF Place
<1>6. CASE ~ (f.line = NoLine \/ lines = {})
  BY <1>4, <1>6 DEF Place, Comment
<1>7. QED
  BY <1>5, <1>6

-----------------------------------------------------------------------------
(* The lines of a diff that can be commented.                              *)

DiffRow(row) == row.kind = "hunk" => row.start \in Nat

\* A row below a hunk is in the last one above it.
LEMMA HunkOfIsAbove ==
  ASSUME NEW patch, NEW i \in Nat \ {0}, HunksAbove(patch, i) # {}
  PROVE  /\ HunkOf(patch, i) \in HunksAbove(patch, i)
         /\ \A h \in HunksAbove(patch, i) : h <= HunkOf(patch, i)
<1>1. HunksAbove(patch, i) \in SUBSET (0 .. i)
  BY DEF HunksAbove
<1>2. QED
  BY <1>1, LargestOf DEF HunkOf

\* The row below a hunk header is the first of its hunk.
LEMMA FirstOfItsHunk ==
  ASSUME NEW patch, NEW n \in Nat \ {0}, patch[n].kind = "hunk", patch[n].start \in Nat
  PROVE  /\ HunksAbove(patch, n + 1) # {}
         /\ InHunk(patch, n + 1) <=> patch[n].start > 0
         /\ LineNumber(patch, n + 1) = patch[n].start
<1>1. n \in HunksAbove(patch, n + 1) /\ \A h \in HunksAbove(patch, n + 1) : h \in Nat /\ h <= n
  BY DEF HunksAbove
<1>2. HunkOf(patch, n + 1) = n
  <2>1. HunkOf(patch, n + 1) \in HunksAbove(patch, n + 1) /\ n <= HunkOf(patch, n + 1)
    BY <1>1, HunkOfIsAbove
  <2>2. QED
    BY <1>1, <2>1
<1>3. {k \in n + 1 .. (n + 1) - 1 : Numbered(patch[k])} = {}
  OBVIOUS
<1>4. LineNumber(patch, n + 1) = patch[n].start
  BY <1>2, <1>3, FS_EmptySet DEF LineNumber
<1>5. QED
  BY <1>1, <1>2, <1>4 DEF InHunk

\* Below another row, a row is in the same hunk, one line further if the row
\* above has a line in the new file.
LEMMA NextOfItsHunk ==
  ASSUME NEW patch, NEW n \in Nat \ {0}, patch[n].kind # "hunk",
         \A k \in 1 .. n : DiffRow(patch[k])
  PROVE  /\ InHunk(patch, n + 1) <=> InHunk(patch, n)
         /\ InHunk(patch, n) =>
              /\ LineNumber(patch, n) \in Nat \ {0}
              /\ LineNumber(patch, n + 1) =
                   IF Numbered(patch[n]) THEN LineNumber(patch, n) + 1 ELSE LineNumber(patch, n)
<1>1. HunksAbove(patch, n + 1) = HunksAbove(patch, n)
  BY DEF HunksAbove
<1>2. HunkOf(patch, n + 1) = HunkOf(patch, n)
  BY <1>1 DEF HunkOf
<1>3. InHunk(patch, n + 1) <=> InHunk(patch, n)
  BY <1>1, <1>2 DEF InHunk
<1>4. ASSUME InHunk(patch, n)
      PROVE  /\ LineNumber(patch, n) \in Nat \ {0}
             /\ LineNumber(patch, n + 1) =
                  IF Numbered(patch[n]) THEN LineNumber(patch, n) + 1 ELSE LineNumber(patch, n)
  <2> DEFINE h    == HunkOf(patch, n)
             Few  == {k \in h + 1 .. n - 1 : Numbered(patch[k])}
             Many == {k \in h + 1 .. (n + 1) - 1 : Numbered(patch[k])}
  <2>1. h \in 1 .. n - 1 /\ patch[h].kind = "hunk"
    BY <1>4, HunkOfIsAbove DEF InHunk, HunksAbove
  <2>2. patch[h].start \in Nat \ {0}
    BY <1>4, <2>1 DEF InHunk, DiffRow
  <2>3. LineNumber(patch, n) = patch[h].start + Cardinality(Few)
    BY DEF LineNumber
  <2>4. LineNumber(patch, n + 1) = patch[h].start + Cardinality(Many)
    BY <1>2 DEF LineNumber
  <2> HIDE DEF h
  <2>5. Many = IF Numbered(patch[n]) THEN Few \cup {n} ELSE Few
    BY <2>1
  <2>6. n \notin Few
    BY <2>1
  <2>7. IsFiniteSet(Few)
    <3>1. IsFiniteSet(h + 1 .. n - 1)
      BY <2>1, FS_Interval
    <3>2. Few \in SUBSET (h + 1 .. n - 1)
      OBVIOUS
    <3>3. QED
      BY <3>1, <3>2, FS_Subset
  <2> HIDE DEF Few, Many
  <2>8. Cardinality(Few) \in Nat /\ Cardinality(Few \cup {n}) = Cardinality(Few) + 1
    BY <2>6, <2>7, FS_CardinalityType, FS_AddElement
  <2>9. QED
    BY <2>2, <2>3, <2>4, <2>5, <2>8
<1>5. QED
  BY <1>3, <1>4

\* What can be commented is what GitHub numbers (anchor.commentable): every
\* added and kept line of every hunk, at its place in the new file, and no
\* other, whatever the diff.
THEOREM CommentableIsTheNewFile ==
  ASSUME NEW S, \A row \in S : DiffRow(row), NEW patch \in Seq(S)
  PROVE  CommentableIsRightSide(patch)
<1> DEFINE first == [lines |-> {}, new |-> 0]
           at(n) == Rows!Reads(first, patch)[n]
           Upto(n) == {i \in 1 .. n : Numbered(patch[i]) /\ InHunk(patch, i)}
           Next(n) == IF InHunk(patch, n + 1) THEN LineNumber(patch, n + 1) ELSE 0
           Good == {n \in 0 .. Len(patch) :
                      at(n) = [lines |-> {LineNumber(patch, i) : i \in Upto(n)}, new |-> Next(n)]}
<1>1. Len(patch) \in Nat /\ DOMAIN patch = 1 .. Len(patch) /\ \A n \in 1 .. Len(patch) : DiffRow(patch[n])
  OBVIOUS
<1>2. at(0) = first /\ \A n \in 1 .. Len(patch) : at(n) = ReadRow(at(n - 1), patch[n])
  BY Rows!ReadStep
<1>3. 0 \in Good
  <2>1. Upto(0) = {}
    OBVIOUS
  <2>2. HunksAbove(patch, 0 + 1) = {}
    BY DEF HunksAbove
  <2>3. Next(0) = 0
    BY <2>2 DEF InHunk
  <2> HIDE DEF Upto, Next, at
  <2>4. at(0) = [lines |-> {LineNumber(patch, i) : i \in Upto(0)}, new |-> Next(0)]
    BY <1>2, <2>1, <2>3
  <2>5. QED
    BY <1>1, <2>4
<1> HIDE DEF at
<1>4. ASSUME NEW m \in 0 .. Len(patch) - 1, m \in Good
      PROVE  m + 1 \in Good
  <2> DEFINE n == m + 1
             old == {LineNumber(patch, i) : i \in Upto(m)}
             new == {LineNumber(patch, i) : i \in Upto(n)}
  <2>1. n \in 1 .. Len(patch) /\ n \in Nat \ {0} /\ n - 1 = m /\ \A k \in 1 .. n : DiffRow(patch[k])
    BY <1>1
  <2>2. at(n) = ReadRow([lines |-> old, new |-> Next(m)], patch[n])
    BY <1>2, <1>4, <2>1
  <2>3. Upto(n) = IF Numbered(patch[n]) /\ InHunk(patch, n) THEN Upto(m) \cup {n} ELSE Upto(m)
    BY <2>1
  <2>4. new = IF Numbered(patch[n]) /\ InHunk(patch, n) THEN old \cup {LineNumber(patch, n)} ELSE old
    <3> HIDE DEF Upto
    <3>1. QED
      BY <2>3
  <2>5. Next(m) = IF InHunk(patch, n) THEN LineNumber(patch, n) ELSE 0
    OBVIOUS
  <2>6. Next(n) = IF InHunk(patch, n + 1) THEN LineNumber(patch, n + 1) ELSE 0
    OBVIOUS
  <2> HIDE DEF n, old, new, Next, Upto
  <2>7. at(n) = [lines |-> new, new |-> Next(n)]
    <3>1. CASE patch[n].kind = "hunk"
      <4>1. ~ Numbered(patch[n]) /\ patch[n].start \in Nat
        BY <2>1, <3>1 DEF Numbered, DiffRow
      <4>2. Next(n) = patch[n].start
        BY <2>1, <2>6, <3>1, <4>1, FirstOfItsHunk
      <4>3. new = old
        BY <2>4, <4>1
      <4>4. at(n) = [lines |-> old, new |-> patch[n].start]
        BY <2>2, <3>1 DEF ReadRow
      <4>5. QED
        BY <4>2, <4>3, <4>4
    <3>2. CASE patch[n].kind # "hunk" /\ Numbered(patch[n]) /\ InHunk(patch, n)
      <4>1. Next(m) \in Nat \ {0} /\ Next(m) = LineNumber(patch, n) /\ Next(n) = Next(m) + 1
        BY <2>1, <2>5, <2>6, <3>2, NextOfItsHunk
      <4>2. new = old \cup {Next(m)}
        BY <2>4, <3>2, <4>1
      <4>3. at(n) = [lines |-> old \cup {Next(m)}, new |-> Next(m) + 1]
        BY <2>2, <3>2, <4>1 DEF ReadRow, Numbered
      <4>4. QED
        BY <4>1, <4>2, <4>3
    <3>3. CASE patch[n].kind # "hunk" /\ ~ (Numbered(patch[n]) /\ InHunk(patch, n))
      <4>1. Next(n) = Next(m)
        BY <2>1, <2>5, <2>6, <3>3, NextOfItsHunk
      <4>2. new = old
        BY <2>4, <3>3
      <4>3. ~ Numbered(patch[n]) \/ ~ (Next(m) > 0)
        BY <2>5, <3>3
      <4>4. at(n) = [lines |-> old, new |-> Next(m)]
        BY <2>2, <3>3, <4>3 DEF ReadRow, Numbered
      <4>5. QED
        BY <4>1, <4>2, <4>4
    <3>4. QED
      BY <3>1, <3>2, <3>3
  <2>8. at(m + 1) = [lines |-> {LineNumber(patch, i) : i \in Upto(m + 1)}, new |-> Next(m + 1)]
    BY <2>7 DEF n, new
  <2>9. QED
    BY <2>1, <2>8 DEF n
<1>5. Len(patch) \in Good
  <2> HIDE DEF Good
  <2>1. \A n \in 0 .. Len(patch) - 1 : n \in Good => n + 1 \in Good
    BY <1>4
  <2>2. \A n \in 0 .. Len(patch) : n \in Good
    BY <1>1, <1>3, <2>1, Rows!Upward
  <2>3. QED
    BY <1>1, <2>2
<1>6. at(Len(patch)).lines = {LineNumber(patch, i) : i \in Upto(Len(patch))}
  BY <1>5
<1>7. Commentable(patch) = at(Len(patch)).lines
  BY DEF Commentable, Rows!Scan, at
<1>8. QED
  BY <1>1, <1>6, <1>7 DEF CommentableIsRightSide

\* Of the specification: every inline comment is one GitHub takes.
THEOREM CommentsStayInTheDiff == Spec => []CommentsFit
<1>1. Typed => CommentsFit
  <2> SUFFICES ASSUME Typed PROVE CommentsFit
    OBVIOUS
  <2>1. Of("diff") => CommentableIsRightSide(input)
    BY CommentableIsTheNewFile, TextAssumption DEF Typed, Of, DiffRow
  <2>2. ASSUME Of("finding"), NEW i \in DOMAIN input, NEW least \in InlineMins
        PROVE  CommentIsInTheDiff(input[i], DiffLines, least) /\ BlockersAreSeen(input[i], DiffLines, least)
    <3>1. input[i] \in Finding /\ least \in Severities /\ DiffLines \in SUBSET Nat
      BY <2>2, TextAssumption DEF Typed, Of, Finding
    <3>2. QED
      BY <3>1, CommentsAreInTheDiff, BlockersStayInSight
  <2>3. QED
    BY <2>1, <2>2 DEF CommentsFit
<1>2. QED
  BY <1>1, InputIsTyped, PTL

-----------------------------------------------------------------------------
(* What CI says of a commit.                                               *)

\* What is kept of a bucket does not change by a check that is ignored.
LEMMA KeptIsUnchanged ==
  ASSUME NEW S, NEW checks \in Seq(S), NEW bot \in S, bot.name \in Ignored,
         NEW b \in {"passing", "failing", "running", "other"}
  PROVE  Kept(Summary(Append(checks, bot))[b]) = Kept(Summary(checks)[b])
BY OneMore DEF Kept, Summary

\* A bot that reports on every push starts no build, turns none red or green
\* and holds none up (github.ci_outcome, ci_started, failing_checks), whatever
\* the other checks and whichever names are ignored.
THEOREM BotsAreInvisible ==
  ASSUME NEW S, NEW checks \in Seq(S), NEW bot \in S
  PROVE  IgnoredIsInvisible(checks, bot)
<1>1. SUFFICES ASSUME bot.name \in Ignored
               PROVE  /\ CiOutcome(Append(checks, bot)) = CiOutcome(checks)
                      /\ CiStarted(Append(checks, bot)) = CiStarted(checks)
                      /\ FailingChecks(Append(checks, bot)) = FailingChecks(checks)
  BY DEF IgnoredIsInvisible
<1> DEFINE more == Append(checks, bot)
<1>2. /\ Kept(Summary(more).failing) = Kept(Summary(checks).failing)
      /\ Kept(Summary(more).running) = Kept(Summary(checks).running)
      /\ Kept(Summary(more).passing) = Kept(Summary(checks).passing)
  BY <1>1, KeptIsUnchanged
<1>3. CiStarted(more) = CiStarted(checks)
  BY <1>1, OneMore DEF CiStarted
<1>4. QED
  BY <1>2, <1>3 DEF CiOutcome, FailingChecks

\* Gate 6, the watch and the approval agree on a build (github.ci_outcome,
\* failing_checks, ci_started), for every list of checks.
THEOREM ReadersOfABuildAgree ==
  ASSUME NEW checks
  PROVE  ReadersAgree(checks)
<1> DEFINE s == Summary(checks)
<1>1. CiOutcome(checks) = "red" <=> FailingChecks(checks) # {}
  BY DEF CiOutcome, FailingChecks
<1>2. CiOutcome(checks) # "waiting" => CiStarted(checks)
  BY DEF CiOutcome, CiStarted, Kept, Summary
<1>3. ASSUME CiOutcome(checks) = "green", NEW c \in ToSet(checks), c.name \notin Ignored
      PROVE  Bucket(c) \in {"passing", "other"}
  <2>1. Kept(s.failing) = {} /\ Kept(s.running) = {}
    BY <1>3 DEF CiOutcome
  <2>2. Bucket(c) # "failing" /\ Bucket(c) # "running"
    BY <1>3, <2>1 DEF Kept, Summary
  <2>3. Bucket(c) \in {"passing", "failing", "running", "other"}
    BY DEF Bucket
  <2>4. QED
    BY <2>2, <2>3
<1>4. QED
  BY <1>1, <1>2, <1>3 DEF ReadersAgree

\* Of the specification: of every commit's checks, and of one more.
THEOREM ReadersSeeTheSameBuild == Spec => ReadersSeeOneBuild
<1>1. Typed /\ [Grow]_vars
        => [Of("checks") => IgnoredIsInvisible(input, Newest) /\ ReadersAgree(input')]_vars
  BY InputGrows, BotsAreInvisible, ReadersOfABuildAgree DEF Typed, vars
<1>2. QED
  BY <1>1, InputIsTyped, PTL DEF Spec, ReadersSeeOneBuild

-----------------------------------------------------------------------------
(* The text of a run.                                                      *)

\* A sequence with one element more, whatever it is.
LEMMA Appended ==
  ASSUME NEW S, NEW seq \in Seq(S), NEW x
  PROVE  /\ Append(seq, x) \in Seq(S \cup {x}) /\ Append(seq, x) # <<>>
         /\ x \in S => Append(seq, x) \in Seq(S)
         /\ Len(seq) \in Nat /\ DOMAIN seq = 1 .. Len(seq)
         /\ Len(Append(seq, x)) = Len(seq) + 1
         /\ DOMAIN Append(seq, x) = 1 .. Len(seq) + 1
         /\ \A i \in 1 .. Len(seq) : Append(seq, x)[i] = seq[i]
         /\ Append(seq, x)[Len(seq) + 1] = x
<1> DEFINE T == S \cup {x}
<1>1. seq \in Seq(T) /\ x \in T
  BY SeqMonotonic
<1> HIDE DEF T
<1>2. /\ Append(seq, x) \in Seq(T) /\ Append(seq, x) # <<>>
      /\ Len(seq) \in Nat /\ DOMAIN seq = 1 .. Len(seq)
      /\ Len(Append(seq, x)) = Len(seq) + 1
      /\ DOMAIN Append(seq, x) = 1 .. Len(seq) + 1
      /\ \A i \in 1 .. Len(seq) : Append(seq, x)[i] = seq[i]
      /\ Append(seq, x)[Len(seq) + 1] = x
  BY <1>1, AppendProperties
<1>3. x \in S => Append(seq, x) \in Seq(S)
  BY AppendProperties
<1>4. QED
  BY <1>2, <1>3 DEF T

FoundBlocks(S, opening) == Seq([by : {""} \cup {l.word : l \in opening}, body : Seq(S)])

Searches(S, opening, closing) ==
  [opening : {opening}, closing : {closing}, inside : BOOLEAN,
   by : {""} \cup {l.word : l \in opening}, body : Seq(S), found : FoundBlocks(S, opening)]

\* A text with a block below it.
WithBlock(text, mark, word) == text \o <<mark, word, End>>

\* Where the search stands at the end of a text.
Reading(text, opening, closing) == Marks!Scan(Search(opening, closing), text)

\* A line leaves a search a search.
LEMMA MarkKeepsSearch ==
  ASSUME NEW S, NEW opening, NEW closing, NEW at \in Searches(S, opening, closing), NEW line \in S
  PROVE  ReadMark(at, line) \in Searches(S, opening, closing)
<1>1. /\ at.opening = opening /\ at.closing = closing /\ at.inside \in BOOLEAN
      /\ at.by \in {""} \cup {l.word : l \in opening} /\ at.body \in Seq(S)
      /\ at.found \in FoundBlocks(S, opening)
  BY DEF Searches
<1>2. CASE ~ at.inside /\ line \in opening
  <2>1. ReadMark(at, line) = [at EXCEPT !.inside = TRUE, !.by = line.word, !.body = <<>>]
    BY <1>1, <1>2 DEF ReadMark
  <2>2. <<>> \in Seq(S) /\ line.word \in {l.word : l \in opening}
    BY <1>2
  <2>3. QED
    BY <1>1, <2>1, <2>2 DEF Searches
<1>3. CASE at.inside /\ line \in closing
  <2>1. ReadMark(at, line) =
          [at EXCEPT !.inside = FALSE, !.found = Append(@, [by |-> at.by, body |-> at.body])]
    BY <1>1, <1>3 DEF ReadMark
  <2>2. Append(at.found, [by |-> at.by, body |-> at.body]) \in FoundBlocks(S, opening)
    BY <1>1, Appended DEF FoundBlocks
  <2>3. QED
    BY <1>1, <2>1, <2>2 DEF Searches
<1>4. CASE at.inside /\ line \notin closing
  <2>1. ReadMark(at, line) = [at EXCEPT !.body = Append(@, line)]
    BY <1>1, <1>4 DEF ReadMark
  <2>2. Append(at.body, line) \in Seq(S)
    BY <1>1, Appended
  <2>3. QED
    BY <1>1, <2>1, <2>2 DEF Searches
<1>5. CASE ~ at.inside /\ line \notin opening
  BY <1>1, <1>5 DEF ReadMark
<1>6. QED
  BY <1>1, <1>2, <1>3, <1>4, <1>5

\* A search starts as one, and what it makes of a text is one.
LEMMA SearchStarts ==
  ASSUME NEW S, NEW opening, NEW closing
  PROVE  Search(opening, closing) \in Searches(S, opening, closing)
<1>1. <<>> \in Seq(S) /\ <<>> \in FoundBlocks(S, opening)
  BY DEF FoundBlocks
<1>2. QED
  BY <1>1 DEF Search, Searches

LEMMA SearchIsTyped ==
  ASSUME NEW S, NEW opening, NEW closing, NEW text \in Seq(S)
  PROVE  Reading(text, opening, closing) \in Searches(S, opening, closing)
BY SearchStarts, MarkKeepsSearch, Marks!ScanKeeps DEF Reading

\* A block written below a text is found last: as it was written, or, where
\* the search is still inside an earlier block, as the end of that one.
LEMMA BlockIsFoundLast ==
  ASSUME NEW S, NEW opening, NEW closing, NEW text \in Seq(S), NEW mark, NEW word,
         mark \in opening \ closing, word \notin closing, End \in closing
  PROVE  /\ Reading(text, opening, closing).inside =>
              Matches(WithBlock(text, mark, word), opening, closing) =
                Append(Reading(text, opening, closing).found,
                       [by   |-> Reading(text, opening, closing).by,
                        body |-> Append(Append(Reading(text, opening, closing).body, mark), word)])
         /\ ~ Reading(text, opening, closing).inside =>
              Matches(WithBlock(text, mark, word), opening, closing) =
                Append(Reading(text, opening, closing).found, [by |-> mark.word, body |-> <<word>>])
<1> DEFINE T  == S \cup {mark, word, End}
           at == Reading(text, opening, closing)
           one   == ReadMark(at, mark)
           two   == ReadMark(one, word)
           three == ReadMark(two, End)
<1>1. at \in Searches(T, opening, closing)
  <2>1. text \in Seq(T)
    BY SeqMonotonic
  <2>2. QED
    BY <2>1, SearchIsTyped
<1>2. Reading(WithBlock(text, mark, word), opening, closing) = three
  <2>1. /\ text \in Seq(T) /\ Append(text, mark) \in Seq(T)
        /\ Append(Append(text, mark), word) \in Seq(T) /\ mark \in T /\ word \in T /\ End \in T
    <3> HIDE DEF T
    <3>1. text \in Seq(T) /\ mark \in T /\ word \in T /\ End \in T
      BY SeqMonotonic DEF T
    <3>2. QED
      BY <3>1
  <2> HIDE DEF T
  <2>2. WithBlock(text, mark, word) = Append(Append(Append(text, mark), word), End)
    BY <2>1 DEF WithBlock
  <2>3. \A above \in Seq(T), x \in T :
          Reading(Append(above, x), opening, closing) = ReadMark(Reading(above, opening, closing), x)
    BY Marks!ScanOneMore DEF Reading
  <2>4. QED
    BY <2>1, <2>2, <2>3, Zenon
<1>3. Matches(WithBlock(text, mark, word), opening, closing) = three.found
  BY <1>2 DEF Matches, Reading
<1> HIDE DEF T, at
<1>4. ASSUME at.inside
      PROVE  three.found =
               Append(at.found, [by |-> at.by, body |-> Append(Append(at.body, mark), word)])
  <2>1. one = [at EXCEPT !.body = Append(@, mark)]
    BY <1>1, <1>4 DEF ReadMark, Searches
  <2>2. one.inside /\ one.opening = opening /\ one.closing = closing
        /\ one.by = at.by /\ one.found = at.found /\ one.body = Append(at.body, mark)
        /\ one = [opening |-> opening, closing |-> closing, inside |-> TRUE, by |-> at.by,
                  body |-> Append(at.body, mark), found |-> at.found]
    BY <1>1, <1>4, <2>1 DEF Searches
  <2> HIDE DEF one
  <2>3. two = [one EXCEPT !.body = Append(@, word)]
    BY <2>2 DEF ReadMark
  <2>4. two = [opening |-> opening, closing |-> closing, inside |-> TRUE, by |-> at.by,
               body |-> Append(Append(at.body, mark), word), found |-> at.found]
    BY <2>2, <2>3
  <2> HIDE DEF two
  <2>5. QED
    BY <2>4 DEF ReadMark
<1>5. ASSUME ~ at.inside
      PROVE  three.found = Append(at.found, [by |-> mark.word, body |-> <<word>>])
  <2>1. one = [at EXCEPT !.inside = TRUE, !.by = mark.word, !.body = <<>>]
    BY <1>1, <1>5 DEF ReadMark, Searches
  <2>2. one = [opening |-> opening, closing |-> closing, inside |-> TRUE, by |-> mark.word,
               body |-> <<>>, found |-> at.found]
    BY <1>1, <2>1 DEF Searches
  <2> HIDE DEF one
  <2>3. two = [one EXCEPT !.body = Append(@, word)]
    BY <2>2 DEF ReadMark
  <2>4. two = [opening |-> opening, closing |-> closing, inside |-> TRUE, by |-> mark.word,
               body |-> <<word>>, found |-> at.found]
    <3>1. Append(<<>>, word) = <<word>>
      OBVIOUS
    <3>2. QED
      BY <2>2, <2>3, <3>1
  <2> HIDE DEF two
  <2>5. QED
    BY <2>4 DEF ReadMark
<1>6. QED
  BY <1>3, <1>4, <1>5, Zenon DEF at

\* A block that is one word says it, if it is one of the words.
LEMMA OneWordSays ==
  ASSUME NEW w, NEW words
  PROVE  Says(<<Word(w)>>, words) \in {w, "none"}
<1> DEFINE body == <<Word(w)>>
           said == {i \in DOMAIN body : body[i].kind # "text" \/ body[i].word # ""}
           all  == {i \in said : said = {i} /\ body[i].kind = "text" /\ body[i].word \in words}
<1>1. DOMAIN body = {1} /\ body[1].word = w
  BY DEF Word
<1>2. all \subseteq {1}
  BY <1>1
<1>3. CASE all = {}
  BY <1>3 DEF Says
<1>4. CASE all # {}
  <2>1. (CHOOSE i \in all : TRUE) = 1
    BY <1>2, <1>4
  <2>2. Says(body, words) = body[CHOOSE i \in all : TRUE].word
    BY <1>4 DEF Says
  <2>3. QED
    BY <1>1, <2>1, <2>2
<1>5. QED
  BY <1>3, <1>4

\* A block that ends in a marker and a word says nothing.
LEMMA TwoLinesSayNothing ==
  ASSUME NEW S, NEW above \in Seq(S), NEW name, NEW w \in VERDICTS \cup FIX_VERDICTS, NEW words
  PROVE  Says(Append(Append(above, Marker(name)), Word(w)), words) = "none"
<1> DEFINE body == Append(Append(above, Marker(name)), Word(w))
           n    == Len(above)
           said == {i \in DOMAIN body : body[i].kind # "text" \/ body[i].word # ""}
           all  == {i \in said : said = {i} /\ body[i].kind = "text" /\ body[i].word \in words}
<1>1. /\ n \in Nat /\ DOMAIN body = 1 .. n + 2
      /\ body[n + 1] = Marker(name) /\ body[n + 2] = Word(w)
  <2> DEFINE one == Append(above, Marker(name))
  <2>1. /\ n \in Nat /\ one \in Seq(S \cup {Marker(name)}) /\ Len(one) = n + 1
        /\ one[n + 1] = Marker(name)
    BY Appended
  <2> HIDE DEF one, n
  <2>2. LET more == Append(one, Word(w))
        IN  /\ DOMAIN more = 1 .. (n + 1) + 1
            /\ more[n + 1] = one[n + 1] /\ more[(n + 1) + 1] = Word(w)
    BY <2>1, Appended
  <2>3. (n + 1) + 1 = n + 2
    BY <2>1
  <2>4. QED
    BY <2>1, <2>2, <2>3 DEF one
<1>2. Says(body, words) = IF all = {} THEN "none" ELSE body[CHOOSE i \in all : TRUE].word
  BY DEF Says
<1> HIDE DEF body, n
<1>3. Marker(name).kind # "text" /\ Word(w).word # ""
  <2>1. Marker(name).kind = "open" /\ Word(w).word = w
    BY DEF Marker, Word
  <2>2. w # ""
    BY Zenon DEF VERDICTS, FIX_VERDICTS
  <2>3. QED
    BY <2>1, <2>2, Zenon
<1>4. n + 1 \in said /\ n + 2 \in said /\ n + 1 # n + 2
  <2>1. n + 1 \in DOMAIN body /\ n + 2 \in DOMAIN body /\ n + 1 # n + 2
    BY <1>1
  <2>2. QED
    BY <1>1, <1>3, <2>1, Zenon
<1>5. all = {}
  <2> HIDE DEF said
  <2>1. \A i : said # {i}
    BY <1>4
  <2>2. QED
    BY <2>1, Zenon
<1>6. QED
  BY <1>2, <1>5 DEF body

\* The verdict read of a text that ends in a block of one word is that word or
\* none.
LEMMA LastBlockSpeaks ==
  ASSUME NEW S, NEW text \in Seq(S), NEW words, NEW w \in VERDICTS \cup FIX_VERDICTS
  PROVE  Says(Block(WithBlock(text, Marker("VERDICT"), Word(w)), "VERDICT"), words) \in {w, "none"}
<1> DEFINE mark    == Marker("VERDICT")
           word    == Word(w)
           opening == {mark}
           closing == {End, GluedEnd}
           at      == Reading(text, opening, closing)
           found   == Matches(WithBlock(text, mark, word), opening, closing)
<1>1. mark \in opening \ closing /\ word \notin closing /\ End \in closing
  <2>1. mark.kind # End.kind /\ mark.kind # GluedEnd.kind /\ word.kind # End.kind /\ word.kind # GluedEnd.kind
    BY DEF Marker, Word, End, GluedEnd
  <2>2. QED
    BY <2>1
<1>2. at \in Searches(S, opening, closing)
  BY SearchIsTyped
<1>3. at.body \in Seq(S)
  BY <1>2 DEF Searches
<1>4. PICK B : at.found \in Seq(B)
  BY <1>2, Zenon DEF Searches, FoundBlocks
<1>5. Block(WithBlock(text, mark, word), "VERDICT") = IF found = <<>> THEN <<>> ELSE Last(found).body
  BY DEF Block
<1>6. ASSUME NEW last, found = Append(at.found, last)
      PROVE  Block(WithBlock(text, mark, word), "VERDICT") = last.body
  <2> HIDE DEF found, at
  <2>1. /\ Append(at.found, last) # <<>>
        /\ Append(at.found, last)[Len(Append(at.found, last))] = last
    BY <1>4, Appended
  <2>2. found # <<>> /\ Last(found) = last
    BY <1>6, <2>1 DEF Last
  <2>3. QED
    BY <1>5, <2>2
<1> HIDE DEF mark, word, opening, closing
<1>7. /\ at.inside => found = Append(at.found, [by |-> at.by, body |-> Append(Append(at.body, mark), word)])
      /\ ~ at.inside => found = Append(at.found, [by |-> mark.word, body |-> <<word>>])
  BY <1>1, BlockIsFoundLast
<1> HIDE DEF found, at
<1>8. CASE at.inside
  <2>1. Block(WithBlock(text, mark, word), "VERDICT") = Append(Append(at.body, mark), word)
    BY <1>6, <1>7, <1>8
  <2>2. Says(Append(Append(at.body, mark), word), words) = "none"
    BY <1>3, TwoLinesSayNothing DEF mark, word
  <2>3. QED
    BY <2>1, <2>2 DEF mark, word
<1>9. CASE ~ at.inside
  <2>1. Block(WithBlock(text, mark, word), "VERDICT") = <<word>>
    BY <1>6, <1>7, <1>9
  <2>2. Says(<<word>>, words) \in {w, "none"}
    BY OneWordSays DEF word
  <2>3. QED
    BY <2>1, <2>2 DEF mark, word
<1>10. QED
  BY <1>8, <1>9

\* Whatever a run quotes before its final block, the verdict read is that
\* block's or none (contract.parse_blocks, parse_fix), for every text.
THEOREM QuotedVerdictsLose ==
  ASSUME NEW S, NEW text \in Seq(S)
  PROVE  EchoNeverWins(text)
BY LastBlockSpeaks DEF EchoNeverWins, WithBlock, ParseVerdict, ParseFix

\* The decision on a thread, with one block more: the block's, if it is a valid
\* one of that thread, and what it was if not.
LEMMA OneBlockMore ==
  ASSUME NEW B, NEW blocks \in Seq(B), NEW block, NEW id
  PROVE  Decision(Append(blocks, block), id) =
           IF block.by = id /\ Valid(block) THEN Action(block).word ELSE Decision(blocks, id)
<1> DEFINE more == Append(blocks, block)
           n    == Len(blocks)
           Own(b) == {i \in DOMAIN b : b[i].by = id /\ Valid(b[i])}
<1>1. /\ n \in Nat /\ DOMAIN blocks = 1 .. n /\ DOMAIN more = 1 .. n + 1
      /\ \A i \in 1 .. n : more[i] = blocks[i]
      /\ more[n + 1] = block
  BY Appended
<1>2. \A b : Decision(b, id) = IF Own(b) = {} THEN "none" ELSE Action(b[Max(Own(b))]).word
  BY DEF Decision
<1> HIDE DEF more, n
<1>3. \A i \in 1 .. n : i \in Own(more) <=> i \in Own(blocks)
  <2>1. \A i \in 1 .. n : i \in 1 .. n + 1
    BY <1>1
  <2>2. QED
    BY <1>1, <2>1, Zenon
<1>4. n + 1 \in Own(more) <=> block.by = id /\ Valid(block)
  <2>1. n + 1 \in 1 .. n + 1
    BY <1>1
  <2>2. QED
    BY <1>1, <2>1, Zenon
<1>5. Own(more) \subseteq 1 .. n + 1 /\ Own(blocks) \subseteq 1 .. n
  BY <1>1, Zenon
<1> HIDE DEF Own
<1>6. CASE block.by = id /\ Valid(block)
  <2>1. n + 1 \in Own(more)
    BY <1>4, <1>6
  <2>2. Own(more) \in SUBSET (0 .. n + 1) /\ n + 1 \in Nat
    BY <1>1, <1>5
  <2>3. Max(Own(more)) \in Own(more) /\ n + 1 <= Max(Own(more))
    BY <2>1, <2>2, LargestOf
  <2>4. Max(Own(more)) = n + 1
    BY <1>1, <2>2, <2>3
  <2>5. QED
    BY <1>1, <1>2, <1>6, <2>1, <2>4 DEF more
<1>7. CASE ~ (block.by = id /\ Valid(block))
  <2>1. Own(more) = Own(blocks)
    <3>1. n + 1 \notin Own(more)
      BY <1>4, <1>7
    <3>2. \A i : i \in Own(more) \/ i \in Own(blocks) => i \in 1 .. n \/ i = n + 1
      BY <1>1, <1>5
    <3>3. n + 1 \notin Own(blocks)
      BY <1>1, <1>5
    <3>4. \A i : i \in Own(more) <=> i \in Own(blocks)
      BY <1>3, <3>1, <3>2, <3>3, Zenon
    <3>5. QED
      BY <3>4, Zenon
  <2>2. CASE Own(blocks) = {}
    BY <1>2, <1>7, <2>1, <2>2, Zenon DEF more
  <2>3. CASE Own(blocks) # {}
    <3>1. Own(blocks) \in SUBSET (0 .. n)
      BY <1>1, <1>5
    <3>2. Max(Own(blocks)) \in 1 .. n
      BY <1>1, <1>5, <2>3, <3>1, LargestOf
    <3>3. more[Max(Own(more))] = blocks[Max(Own(blocks))]
      BY <1>1, <2>1, <3>2
    <3>4. QED
      BY <1>2, <1>7, <2>1, <2>3, <3>3, Zenon DEF more
  <2>4. QED
    BY <2>2, <2>3
<1>8. QED
  BY <1>6, <1>7

\* A search is inside a block only below a line that opens one and above every
\* line that closes it.
LEMMA InsideIsUnfinished ==
  ASSUME NEW S, NEW text \in Seq(S), NEW numbers
  PROVE  LET opening == {Thread(x) : x \in numbers}
             at == Reading(text, opening, {End})
         IN  at.inside => at.by \in numbers /\ Unfinished(text, numbers)
<1> DEFINE opening == {Thread(x) : x \in numbers}
           at(n)   == Marks!Reads(Search(opening, {End}), text)[n]
           Open(n) == /\ at(n).by \in numbers
                      /\ \E i \in 1 .. n : text[i] \in opening /\ \A j \in i + 1 .. n : text[j] # End
           Good == {n \in 0 .. Len(text) : at(n).inside => Open(n)}
<1>1. Len(text) \in Nat /\ DOMAIN text = 1 .. Len(text) /\ \A n \in 1 .. Len(text) : text[n] \in S
  OBVIOUS
<1>2. /\ at(0) = Search(opening, {End})
      /\ \A n \in 1 .. Len(text) : at(n) = ReadMark(at(n - 1), text[n])
  BY Marks!ReadStep
<1>3. \A n \in 0 .. Len(text) : at(n) \in Searches(S, opening, {End})
  <2>1. Search(opening, {End}) \in Searches(S, opening, {End})
    BY SearchStarts
  <2>2. QED
    BY <2>1, MarkKeepsSearch, Marks!ScanKeeps
<1> HIDE DEF at, opening
<1>4. 0 \in Good
  <2>1. ~ at(0).inside
    <3>1. Search(opening, {End}).inside = FALSE
      BY Zenon DEF Search
    <3>2. QED
      BY <1>2, <3>1, Zenon
  <2>2. QED
    BY <1>1, <2>1
<1>5. ASSUME NEW m \in 0 .. Len(text) - 1, m \in Good
      PROVE  m + 1 \in Good
  <2> DEFINE n == m + 1
  <2>1. n \in 1 .. Len(text) /\ n - 1 = m /\ m \in 0 .. Len(text) /\ m \in Nat
    BY <1>1
  <2>2. at(n) = ReadMark(at(m), text[n])
    BY <1>2, <2>1
  <2>3. /\ at(m).opening = opening /\ at(m).closing = {End} /\ at(m).inside \in BOOLEAN
        /\ DOMAIN at(m) = {"opening", "closing", "inside", "by", "body", "found"}
    BY <1>3, <2>1 DEF Searches
  <2> HIDE DEF n, Open
  <2>4. ASSUME at(n).inside
        PROVE  Open(n)
    <3>1. CASE ~ at(m).inside /\ text[n] \in opening
      <4>1. at(n).by = text[n].word
        BY <2>2, <2>3, <3>1 DEF ReadMark
      <4>2. text[n].word \in numbers
        BY <3>1 DEF opening, Thread, Marker
      <4>3. n \in 1 .. n /\ n + 1 .. n = {}
        BY <2>1
      <4>4. QED
        BY <3>1, <4>1, <4>2, <4>3 DEF Open
    <3>2. CASE at(m).inside /\ text[n] # End
      <4>1. at(n).by = at(m).by
        BY <2>2, <2>3, <3>2 DEF ReadMark
      <4>2. Open(m)
        BY <1>5, <3>2
      <4>3. PICK i \in 1 .. m : text[i] \in opening /\ \A j \in i + 1 .. m : text[j] # End
        BY <4>2 DEF Open
      <4>4. i \in 1 .. n /\ \A j \in i + 1 .. n : j \in i + 1 .. m \/ j = n
        BY <2>1 DEF n
      <4>5. QED
        BY <3>2, <4>1, <4>2, <4>3, <4>4 DEF Open
    <3>3. CASE at(m).inside /\ text[n] = End
      <4>1. ~ at(n).inside
        BY <2>2, <2>3, <3>3 DEF ReadMark
      <4>2. QED
        BY <2>4, <4>1
    <3>4. CASE ~ at(m).inside /\ text[n] \notin opening
      <4>1. at(n) = at(m)
        BY <2>2, <2>3, <3>4 DEF ReadMark
      <4>2. QED
        BY <2>4, <3>4, <4>1
    <3>5. QED
      BY <3>1, <3>2, <3>3, <3>4
  <2>5. QED
    BY <2>1, <2>4 DEF n
<1>6. Len(text) \in Good
  <2> HIDE DEF Good
  <2>1. \A n \in 0 .. Len(text) - 1 : n \in Good => n + 1 \in Good
    BY <1>5
  <2>2. \A n \in 0 .. Len(text) : n \in Good
    BY <1>1, <1>4, <2>1, Marks!Upward
  <2>3. QED
    BY <1>1, <2>2
<1>7. Reading(text, opening, {End}) = at(Len(text))
  BY DEF Reading, Marks!Scan, at
<1>8. at(Len(text)).inside => at(Len(text)).by \in numbers /\ Unfinished(text, numbers)
  BY <1>1, <1>6 DEF Unfinished, opening
<1>9. QED
  BY <1>7, <1>8 DEF opening

\* A block that is one word of an action is a valid decision of it.
LEMMA OneWordActs ==
  ASSUME NEW block, NEW w \in {"resolve", "leave"}, block.body = <<Word(w)>>
  PROVE  Action(block) = Word(w) /\ Valid(block)
<1>1. DOMAIN block.body = {1} /\ block.body[1] = Word(w)
  OBVIOUS
<1>2. Word(w) # Word("")
  <2>1. Word(w).word = w /\ Word("").word = ""
    BY Zenon DEF Word
  <2>2. w # ""
    BY Zenon
  <2>3. QED
    BY <2>1, <2>2, Zenon
<1>3. Spoken(block) = {1}
  <2>1. \A i : i \in Spoken(block) <=> i = 1
    BY <1>1, <1>2, Zenon DEF Spoken
  <2>2. QED
    BY <2>1, Zenon
<1>4. Min({1}) = 1
  BY DEF Min
<1>5. Action(block) = Word(w)
  BY <1>1, <1>3, <1>4 DEF Action
<1>6. Word(w).kind = "text" /\ Word(w).word = w
  BY DEF Word
<1>7. w \in THREAD_ACTIONS /\ w # "reply"
  BY DEF THREAD_ACTIONS
<1>8. QED
  BY <1>3, <1>5, <1>6, <1>7 DEF Valid

\* A decision reaches the thread it names or no further one
\* (contract.parse_thread_verdicts), for every text, every threads asked about and
\* whatever other numbers the text carries.
THEOREM DecisionsReachOneThread ==
  ASSUME NEW S, NEW text \in Seq(S), NEW numbers, NEW ids \in SUBSET numbers
  PROVE  DecisionsStayApart(text, ids, numbers)
<1>1. SUFFICES ASSUME NEW id \in ids, NEW w \in {"resolve", "leave"}
               PROVE  LET before == ThreadVerdicts(text, ids, numbers)
                          after  == ThreadVerdicts(WithBlock(text, Thread(id), Word(w)), ids, numbers)
                      IN  IF Unfinished(text, numbers)
                          THEN \E one \in ids : \A other \in ids \ {one} : after[other] = before[other]
                          ELSE after = [before EXCEPT ![id] = w]
  BY DEF DecisionsStayApart, WithBlock
<1> DEFINE before  == ThreadVerdicts(text, ids, numbers)
           after   == ThreadVerdicts(WithBlock(text, Thread(id), Word(w)), ids, numbers)
           opening == {Thread(x) : x \in numbers}
           at      == Reading(text, opening, {End})
           block   == IF at.inside THEN [by |-> at.by, body |-> Append(Append(at.body, Thread(id)), Word(w))]
                      ELSE [by |-> id, body |-> <<Word(w)>>]
<1>2. /\ Thread(id) \in opening \ {End} /\ Word(w) \notin {End} /\ End \in {End}
  BY DEF Thread, Marker, Word, End
<1>3. at.inside => at.by \in numbers /\ Unfinished(text, numbers)
  BY InsideIsUnfinished
<1>4. at.found \in FoundBlocks(S, opening)
  BY SearchIsTyped DEF Searches
<1>5. Thread(id).word = id
  BY DEF Thread, Marker
<1>6. ThreadBlocks(WithBlock(text, Thread(id), Word(w)), numbers) = Append(at.found, block)
  <2> DEFINE closing == {End}
             all == Matches(WithBlock(text, Thread(id), Word(w)), opening, closing)
             reading == Reading(text, opening, closing)
  <2>1. Thread(id) \in opening \ closing /\ Word(w) \notin closing /\ End \in closing
    BY <1>2
  <2> HIDE DEF opening, closing
  <2>2. /\ reading.inside =>
             all = Append(reading.found, [by   |-> reading.by,
                                          body |-> Append(Append(reading.body, Thread(id)), Word(w))])
        /\ ~ reading.inside =>
             all = Append(reading.found, [by |-> Thread(id).word, body |-> <<Word(w)>>])
    BY <2>1, BlockIsFoundLast, SMTT(60)
  <2>3. reading = at /\ all = ThreadBlocks(WithBlock(text, Thread(id), Word(w)), numbers)
    BY DEF closing, opening, ThreadBlocks
  <2> HIDE DEF reading, all, at
  <2>4. QED
    BY <1>5, <2>2, <2>3
<1>7. ThreadBlocks(text, numbers) = at.found
  BY DEF ThreadBlocks, Matches, Reading
<1>8. PICK B : at.found \in Seq(B)
  BY <1>4, Zenon DEF FoundBlocks
<1> HIDE DEF at, block, opening
<1>9. \A other \in ids :
        after[other] = IF block.by = other /\ Valid(block) THEN Action(block).word ELSE before[other]
  <2>1. ASSUME NEW other \in ids
        PROVE  /\ after[other] = Decision(Append(at.found, block), other)
               /\ before[other] = Decision(at.found, other)
    BY <1>6, <1>7 DEF ThreadVerdicts
  <2>2. ASSUME NEW other
        PROVE  Decision(Append(at.found, block), other) =
                 IF block.by = other /\ Valid(block) THEN Action(block).word
                 ELSE Decision(at.found, other)
    BY <1>8, OneBlockMore
  <2> HIDE DEF after, before
  <2>3. QED
    BY <2>1, <2>2, Zenon
<1>10. CASE at.inside
  <2>1. block.by = at.by
    BY <1>10 DEF block
  <2>2. \A other \in ids \ {at.by} : after[other] = before[other]
    BY <1>9, <2>1
  <2>3. CASE at.by \in ids
    BY <1>3, <1>10, <2>2, <2>3
  <2>4. CASE at.by \notin ids
    <3>1. \A other \in ids \ {id} : after[other] = before[other]
      BY <2>2, <2>4
    <3>2. QED
      BY <1>1, <1>3, <1>10, <3>1
  <2>5. QED
    BY <2>3, <2>4
<1>11. CASE ~ at.inside
  <2>1. block.by = id /\ block.body = <<Word(w)>>
    BY <1>11 DEF block
  <2>2. Action(block) = Word(w) /\ Valid(block)
    BY <1>1, <2>1, OneWordActs
  <2>4. \A other \in ids : after[other] = IF other = id THEN w ELSE before[other]
    <3>1. Word(w).word = w
      BY DEF Word
    <3>2. QED
      BY <1>9, <2>1, <2>2, <3>1
  <2>5. after = [before EXCEPT ![id] = w]
    <3>1. /\ after = [x \in ids |-> after[x]] /\ before = [x \in ids |-> before[x]]
      BY DEF ThreadVerdicts
    <3> HIDE DEF after, before
    <3>2. QED
      BY <2>4, <3>1
  <2>6. \A other \in ids \ {id} : after[other] = before[other]
    BY <2>4
  <2>7. QED
    BY <2>5, <2>6
<1>12. QED
  BY <1>10, <1>11

\* Of the specification: what a run quotes decides nothing it did not mean to.
THEOREM EchoesStayQuoted == Spec => []EchoesLose
<1>1. Typed => EchoesLose
  BY TextAssumption, QuotedVerdictsLose, DecisionsReachOneThread DEF Typed, EchoesLose
<1>2. QED
  BY <1>1, InputIsTyped, PTL
=============================================================================
