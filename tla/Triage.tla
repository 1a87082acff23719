------------------------------- MODULE Triage -------------------------------
(***************************************************************************)
(* The bug form (triage.py): the answers read out of an issue's body, and  *)
(* what they alone settle.  A line is its meaning: a heading of the form,  *)
(* a fence mark (indented or not), or a line of text.                      *)
(***************************************************************************)
EXTENDS Sequences, FiniteSetsExt

CONSTANTS
  Headings,    \* lines that read as a heading
  Fences,      \* the two marks that open and close a fenced block
  Blank,       \* an empty line
  NoResponse   \* what the form writes for a field left empty

\* A heading starts with "##", a fence with three backticks or tildes.
ASSUME TriageAssumption == Headings \cap Fences = {}

-----------------------------------------------------------------------------
(* fields: what the lines above leave open, and the next line.             *)

Start == [answers |-> <<>>, current |-> "", fence |-> ""]

Under(form, line) ==
  IF form.current = "" THEN form ELSE [form EXCEPT !.answers[form.current] = Append(@, line)]

Opens(form, line) ==
  [form EXCEPT !.current = line,
     !.answers = [h \in DOMAIN @ \cup {line} |-> IF h = line THEN <<>> ELSE @[h]]]

\* Mutant: the last heading of a name wins.
ReadLineAgain(form, line) ==
  CASE form.fence # "" -> Under([form EXCEPT !.fence = IF line = @ THEN "" ELSE @], line)
    [] form.fence = "" /\ line \in Fences -> Under([form EXCEPT !.fence = line], line)
    [] form.fence = "" /\ line \in Headings -> Opens(form, line)
    [] OTHER -> Under(form, line)

ReadLine(form, line) ==
  CASE form.fence # "" -> Under([form EXCEPT !.fence = IF line = @ THEN "" ELSE @], line)
    [] form.fence = "" /\ line \in Fences -> Under([form EXCEPT !.fence = line], line)
    [] form.fence = "" /\ line \in Headings \ DOMAIN form.answers -> Opens(form, line)
    [] OTHER -> Under(form, line)

Lines == INSTANCE Scan WITH Read <- ReadLine

Form(body) == Lines!Scan(Start, body)

\* _answer: a field left empty, and one the form filled in for it, say nothing.
Answer(lines) ==
  LET said == SelectSeq(lines, LAMBDA l : l # Blank)
  IN  IF said = <<NoResponse>> THEN <<>> ELSE said

Fields(body) ==
  LET form == Form(body) IN [h \in DOMAIN form.answers |-> Answer(form.answers[h])]

Get(answers, field) == IF field \in DOMAIN answers THEN answers[field] ELSE <<>>

-----------------------------------------------------------------------------
(* verdict, for rules [require, ask_if |-> field -> answers, needs |->     *)
(* fields, block_if |-> sequence of [field, answers], in the file's order].*)

For(rule, field) == IF field \in DOMAIN rule THEN rule[field] ELSE {}

\* Rules.__bool__: an empty configuration is nobody's consent.
Configured(rules) == DOMAIN rules.require # {} \/ rules.needs # {} \/ rules.block_if # <<>>

Unmet(answers, rules) ==
  {f \in DOMAIN rules.require : Get(answers, f) \notin rules.require[f]}
Asked(answers, rules) ==
  {f \in Unmet(answers, rules) : Get(answers, f) \in For(rules.ask_if, f)}
Missing(answers, rules, sentry) ==
  {f \in rules.needs : ~ sentry /\ Get(answers, f) = <<>>}
Blocked(answers, rules) ==
  {i \in DOMAIN rules.block_if :
     Get(answers, rules.block_if[i].field) \in rules.block_if[i].answers}

\* Mutant: the first answer that asks is asked about, whatever else was said.
VerdictAsksFirst(answers, rules, sentry) ==
  CASE ~ Configured(rules) -> "assign"
    [] Configured(rules) /\ Asked(answers, rules) # {} -> "ask"
    [] /\ Configured(rules)
       /\ Unmet(answers, rules) = {} /\ Missing(answers, rules, sentry) = {}
       /\ Blocked(answers, rules) = {} -> "attempt"
    [] OTHER -> "assign"

\* Some answer is no, before any that blocks is read.
Refused(answers, rules, sentry) ==
  \/ ~ Configured(rules)
  \/ Unmet(answers, rules) # Asked(answers, rules)
  \/ Missing(answers, rules, sentry) # {}

\* A blocking answer is quoted as the form has it, so a rule that blocks a field
\* left out raises KeyError for a form without that field.
Quoted(answers, field) == IF field \in DOMAIN answers THEN "assign" ELSE "raises"

Verdict(answers, rules, sentry) ==
  LET blocked == Blocked(answers, rules)
      refused == Refused(answers, rules, sentry)
  IN  CASE refused -> "assign"
        [] ~ refused /\ blocked # {} -> Quoted(answers, rules.block_if[Min(blocked)].field)
        [] OTHER -> IF Asked(answers, rules) # {} THEN "ask" ELSE "attempt"

-----------------------------------------------------------------------------
(* Properties, of one body.                                                *)

\* What a later line can change is the answer it stands in: nothing typed or
\* logged further down reaches a field the form has moved past.
OnlyTheOpenField(body, line) ==
  LET before == Form(body)
      after  == Form(Append(body, line))
  IN  \A h \in DOMAIN before.answers \ {before.current} : after.answers[h] = before.answers[h]

\* An answer to a field that every rule about it takes.
Settles(reply, field, rules, sentry) ==
  /\ reply \in rules.require[field]
  /\ \A i \in DOMAIN rules.block_if :
       rules.block_if[i].field = field => reply \notin rules.block_if[i].answers
  /\ field \in rules.needs /\ ~ sentry => reply # <<>>

Replied(answers, replies) ==
  [f \in DOMAIN answers \cup DOMAIN replies |->
     IF f \in DOMAIN replies THEN replies[f] ELSE answers[f]]

\* A model is asked about a report only when its answer decides: whatever the
\* asked fields had said instead, the report would be attempted if every rule
\* took it, and not attempted otherwise.
AskingDecides(answers, rules, sentry, words) ==
  Verdict(answers, rules, sentry) = "ask" =>
    \A replies \in [Asked(answers, rules) -> words] :
      Verdict(Replied(answers, replies), rules, sentry) = "attempt"
        <=> \A f \in DOMAIN replies : Settles(replies[f], f, rules, sentry)
=============================================================================
