------------------------------- MODULE Patch -------------------------------
(***************************************************************************)
(* What a fixer's patch may be (robbie_mcp/pr.py: changed_paths,           *)
(* changed_lines, refuse).  A row of a patch is a record: a `diff --git`   *)
(* header with its two paths, or a line by the way it starts.              *)
(***************************************************************************)
EXTENDS Naturals, Sequences, FiniteSets, FiniteSetsExt, SequencesExt

CONSTANTS
  OffLimits,  \* paths that are, or start with, one of OFF_LIMITS
  Outside,    \* absolute paths, and those that start with "../"
  InTests,    \* paths that hold one of TEST_DIRS
  MaxFiles, MaxLines, MaxRows   \* MAX_FILES, MAX_LINES; MAX_PATCH_BYTES, in rows

ASSUME PatchAssumption == MaxFiles \in Nat /\ MaxLines \in Nat /\ MaxRows \in Nat

\* Both sides of every header.
ChangedPaths(patch) ==
  LET headers == {r \in ToSet(patch) : r.kind = "git"}
  IN  {r.a : r \in headers} \cup {r.b : r \in headers}

Count(patch, kinds) == Cardinality({i \in DOMAIN patch : patch[i].kind \in kinds})

\* Mutant: the growth of the files.
NetLines(patch) ==
  LET plus == Count(patch, {"plus"})  minus == Count(patch, {"minus"})
  IN  IF plus > minus THEN plus - minus ELSE 0

\* "+++" and "---" head a file, whatever line they are.
ChangedLines(patch) == Count(patch, {"plus", "minus"})

\* In the order they are read; the first that applies is the reason.
Reasons == <<"empty", "too-long", "no-header", "off-limits", "no-test", "files", "lines">>

Breaks(patch, reason) ==
  LET paths == ChangedPaths(patch)
  IN  \/ reason = "empty"      /\ patch = <<>>
      \/ reason = "too-long"   /\ Len(patch) > MaxRows
      \/ reason = "no-header"  /\ paths = {}
      \/ reason = "off-limits" /\ paths \cap (OffLimits \cup Outside) # {}
      \/ reason = "no-test"    /\ paths \cap InTests = {}
      \/ reason = "files"      /\ Cardinality(paths) > MaxFiles
      \/ reason = "lines"      /\ ChangedLines(patch) > MaxLines

\* Why this patch may not become a pull request, or "".
Refuse(patch) ==
  LET broken == {i \in DOMAIN Reasons : Breaks(patch, Reasons[i])}
  IN  IF broken = {} THEN "" ELSE Reasons[Min(broken)]

-----------------------------------------------------------------------------
(* Properties, of one patch.                                               *)

\* What a patch is refused for does not go away by adding to it: no further
\* row turns a patch whose headers reach too far, or that changes too much,
\* into one that may become a pull request.
RefusalStands(patch, row) ==
  Refuse(patch) \in {"too-long", "off-limits", "files", "lines"} => Refuse(Append(patch, row)) # ""
=============================================================================
