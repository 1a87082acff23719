------------------------------- MODULE Anchor -------------------------------
(***************************************************************************)
(* Where a finding goes (anchor.py): onto a line of the diff, into the     *)
(* summary, or folded below it.  GitHub refuses a whole review for one     *)
(* comment outside the diff.                                               *)
(***************************************************************************)
EXTENDS Integers, Sequences, FiniteSets, FiniteSetsExt, SequencesExt

CONSTANT SNAP   \* lines a finding may be nudged to reach the diff

ASSUME AnchorAssumption == SNAP \in Nat

NoLine == -1    \* `line` missing, or not a number

-----------------------------------------------------------------------------
(* commentable: a row of a patch is a hunk header with its first new line, *)
(* or a line of the hunk.                                                  *)

ReadRow(at, row) ==
  CASE row.kind = "hunk" -> [at EXCEPT !.new = row.start]
    [] row.kind \in {"plus", "context"} /\ at.new > 0 ->
         [lines |-> at.lines \cup {at.new}, new |-> at.new + 1]
    [] OTHER -> at

Rows == INSTANCE Scan WITH Read <- ReadRow

Commentable(patch) == Rows!Scan([lines |-> {}, new |-> 0], patch).lines

-----------------------------------------------------------------------------
(* anchor: a finding is [severity, line, start], its severity as the model *)
(* spelled it.                                                             *)

Severities == {"critical", "must-fix", "should-fix", "nitpick"}

RANK == [s \in Severities |->
           CASE s = "critical" -> 0 [] s = "must-fix" -> 1 [] s = "should-fix" -> 2 [] OTHER -> 3]

\* _rank: "Must fix" and "mustfix" are must-fix; anything else has no rank.
Hyphened(sev) == CASE sev = "must fix" -> "must-fix" [] sev = "should fix" -> "should-fix" [] OTHER -> sev
Joined(sev)   == CASE sev = "mustfix" -> "must-fix" [] sev = "shouldfix" -> "should-fix" [] OTHER -> sev

NoRank == -1
Rank(sev) == IF Joined(Hyphened(sev)) \in Severities THEN RANK[Joined(Hyphened(sev))] ELSE NoRank

\* The nearest line of the diff, the lower of two as near.
Distance(a, b) == IF a > b THEN a - b ELSE b - a
Nearest(line, lines) ==
  CHOOSE n \in lines : \A m \in lines :
    Distance(n, line) < Distance(m, line) \/ (Distance(n, line) = Distance(m, line) /\ n <= m)

\* Mutant: a range may start outside the diff.
StartsAnywhere(f, target, lines) == f.start # NoLine /\ f.start < target

RangeStarts(f, target, lines) == f.start # NoLine /\ f.start < target /\ f.start \in lines

Comment(f, target, lines) ==
  [place |-> "inline", line |-> target,
   start |-> IF RangeStarts(f, target, lines) THEN f.start ELSE NoLine]

Reach(f, lines) ==
  IF f.line \in lines THEN 0 ELSE Distance(Nearest(f.line, lines), f.line)

Place(f, lines, inline_min) ==
  CASE Rank(f.severity) > RANK[inline_min] -> [place |-> "folded"]
    [] Rank(f.severity) <= RANK[inline_min] /\ (f.line = NoLine \/ lines = {}) -> [place |-> "leftover"]
    [] OTHER -> IF Reach(f, lines) > SNAP THEN [place |-> "leftover"]
                ELSE Comment(f, IF f.line \in lines THEN f.line ELSE Nearest(f.line, lines), lines)

\* severity_count with blocking=True, which says how bad a review is.
CountsAsBlocking(f) == Hyphened(f.severity) \in {"critical", "must-fix", "mustfix"}

-----------------------------------------------------------------------------
(* Properties, of one patch and of one finding.                            *)

\* Where a row of a patch is in the new file: a hunk's lines count from its
\* start, each added or kept line once and no removed one.
Numbered(row)       == row.kind \in {"plus", "context"}
HunksAbove(patch, i) == {h \in 1 .. i - 1 : patch[h].kind = "hunk"}
HunkOf(patch, i)     == Max(HunksAbove(patch, i))
LineNumber(patch, i) ==
  patch[HunkOf(patch, i)].start
    + Cardinality({k \in HunkOf(patch, i) + 1 .. i - 1 : Numbered(patch[k])})
InHunk(patch, i)     == HunksAbove(patch, i) # {} /\ patch[HunkOf(patch, i)].start > 0

\* The lines that can be commented are those of the new file.
CommentableIsRightSide(patch) ==
  Commentable(patch) =
    {LineNumber(patch, i) : i \in {i \in DOMAIN patch : Numbered(patch[i]) /\ InHunk(patch, i)}}

\* No comment names a line outside the diff: its line and its start are in it,
\* in order, and the line is where the model pointed or no further than the
\* snap. (GitHub also wants both in one hunk, which the code does not look at.)
CommentIsInTheDiff(f, lines, inline_min) ==
  LET c == Place(f, lines, inline_min)
  IN  c.place = "inline" =>
        /\ c.line \in lines
        /\ f.line \in lines => c.line = f.line
        /\ c.line - f.line \in -SNAP .. SNAP
        /\ c.start # NoLine => c.start \in lines /\ c.start < c.line

\* A finding the review counts as blocking is never tucked away with the
\* nitpicks, however the model spelled it, unless the repository wants only
\* criticals inline.
BlockersAreSeen(f, lines, inline_min) ==
  CountsAsBlocking(f) /\ inline_min # "critical" => Place(f, lines, inline_min).place # "folded"
=============================================================================
