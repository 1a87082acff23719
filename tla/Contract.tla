------------------------------ MODULE Contract ------------------------------
(***************************************************************************)
(* How a run's text is read (contract.py): delimited blocks by name, and   *)
(* one decision per review thread.  The text is a sequence of lines, a     *)
(* line its meaning: it opens the block of a name, ends one (alone on its  *)
(* line, or with the next marker glued on), or is text.  A marker is one   *)
(* only at the start of a line.                                            *)
(***************************************************************************)
EXTENDS Naturals, Sequences, SequencesExt, FiniteSetsExt

Marker(name) == [kind |-> "open", word |-> name]
End          == [kind |-> "end", word |-> ""]
GluedEnd     == [kind |-> "glued", word |-> ""]
Word(w)      == [kind |-> "text", word |-> w]

VERDICTS       == {"needs-work", "comment", "ok"}
FIX_VERDICTS   == {"fixed", "cannot"}
THREAD_ACTIONS == {"resolve", "reply", "leave"}

\* A search for blocks: the lines that open one and those that close one, the
\* block it is inside, and those it has found.  What a block holds up to its
\* closing line opens no other, and a block that is never closed is none.
Search(opening, closing) ==
  [opening |-> opening, closing |-> closing, inside |-> FALSE, by |-> "", body |-> <<>>, found |-> <<>>]

ReadMark(at, line) ==
  CASE ~ at.inside /\ line \in at.opening ->
         [at EXCEPT !.inside = TRUE, !.by = line.word, !.body = <<>>]
    [] at.inside /\ line \in at.closing ->
         [at EXCEPT !.inside = FALSE, !.found = Append(@, [by |-> at.by, body |-> at.body])]
    [] at.inside /\ line \notin at.closing -> [at EXCEPT !.body = Append(@, line)]
    [] OTHER -> at

Marks == INSTANCE Scan WITH Read <- ReadMark

Matches(text, opening, closing) == Marks!Scan(Search(opening, closing), text).found

\* Mutant: the first block of the name.
FirstBlock(text, name) ==
  LET found == Matches(text, {Marker(name)}, {End, GluedEnd})
  IN  IF found = <<>> THEN <<>> ELSE Head(found).body

\* _block: the last block of the name, or nothing.
Block(text, name) ==
  LET found == Matches(text, {Marker(name)}, {End, GluedEnd})
  IN  IF found = <<>> THEN <<>> ELSE Last(found).body

\* Letters only: the block is a verdict when one word is all it says.
Says(body, words) ==
  LET said == {i \in DOMAIN body : body[i].kind # "text" \/ body[i].word # ""}
      all  == {i \in said : said = {i} /\ body[i].kind = "text" /\ body[i].word \in words}
  IN  IF all = {} THEN "none" ELSE body[CHOOSE i \in all : TRUE].word

\* parse_blocks and parse_fix.
ParseVerdict(text) == Says(Block(text, "VERDICT"), VERDICTS)
ParseFix(text)     == Says(Block(text, "VERDICT"), FIX_VERDICTS)

Publishable(text) ==
  ParseVerdict(text) \in {"needs-work", "comment"} /\ Block(text, "GITHUB") # <<>>

-----------------------------------------------------------------------------
(* parse_thread_verdicts, and the dict _answer makes of them.              *)

Thread(id) == Marker(id)

\* The lines of a block that are not blank; the first of them is its action.
Spoken(block) == {i \in DOMAIN block.body : block.body[i] # Word("")}
Action(block) == block.body[Min(Spoken(block))]

Valid(block) ==
  /\ Spoken(block) # {}
  /\ Action(block).kind = "text" /\ Action(block).word \in THREAD_ACTIONS
  /\ Action(block).word = "reply" => Spoken(block) # {Min(Spoken(block))}

\* A marker with any number opens a block, whether its thread was asked about
\* or not.
ThreadBlocks(text, numbers) ==
  Matches(text, {Thread(n) : n \in numbers}, {End})

\* Of each thread, the last valid decision; "none" for a thread without one.
Decision(blocks, id) ==
  LET own == {i \in DOMAIN blocks : blocks[i].by = id /\ Valid(blocks[i])}
  IN  IF own = {} THEN "none" ELSE Action(blocks[Max(own)]).word

ThreadVerdicts(text, ids, numbers) ==
  [id \in ids |-> Decision(ThreadBlocks(text, numbers), id)]

-----------------------------------------------------------------------------
(* Properties, of one text.                                                *)

\* A review quotes the files it judges, and they may carry markers: whatever
\* stands before the final block, the verdict read is that block's or none,
\* never the quoted one.
EchoNeverWins(text) ==
  /\ \A w \in VERDICTS : ParseVerdict(text \o <<Marker("VERDICT"), Word(w), End>>) \in {w, "none"}
  /\ \A w \in FIX_VERDICTS : ParseFix(text \o <<Marker("VERDICT"), Word(w), End>>) \in {w, "none"}

Unfinished(text, numbers) ==
  \E i \in DOMAIN text : /\ text[i] \in {Thread(n) : n \in numbers}
                         /\ \A j \in i + 1 .. Len(text) : text[j] # End

\* A decision reaches the thread it names or no further one: a block added to
\* a text is heard last of its own thread and changes no other.  Only where an
\* earlier block was left open, of a thread that was asked about or of any
\* number the text quotes, is it swallowed, and then one thread at most hears
\* anything new.
DecisionsStayApart(text, ids, numbers) ==
  \A id \in ids, w \in {"resolve", "leave"} :
    LET before == ThreadVerdicts(text, ids, numbers)
        after  == ThreadVerdicts(text \o <<Thread(id), Word(w), End>>, ids, numbers)
    IN  IF Unfinished(text, numbers)
        THEN \E one \in ids : \A other \in ids \ {one} : after[other] = before[other]
        ELSE after = [before EXCEPT ![id] = w]
=============================================================================
