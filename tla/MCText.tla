------------------------------- MODULE MCText -------------------------------
(* Every input of each kind up to a length, over an alphabet that has one   *)
(* element of each sort the code tells apart.                               *)
EXTENDS Text, TLC

MCHeadings  == {"money?", "steps"}
MCFences    == {"backticks", "tildes"}
MCOffLimits == {"Gemfile"}
MCOutside   == {"../x"}
MCInTests   == {"spec/a"}
MCIgnored   == {"bot"}

Row(k)   == [kind |-> k]
Sides    == {<<"spec/a", "spec/a">>, <<"app/a", "app/b">>, <<"Gemfile", "app/a">>, <<"app/a", "../x">>}

MCThreadIds     == {"t1", "t2"}
MCThreadNumbers == {"t1", "t2", "t3"}

MCAlphabet ==
  [body    |-> Headings \cup Fences \cup {Blank, NoResponse, "no", "unsure"},
   patch   |-> {[kind |-> "git", a |-> s[1], b |-> s[2]] : s \in Sides}
                 \cup {Row("plus"), Row("minus"), Row("header"), Row("context")},
   diff    |-> {[kind |-> "hunk", start |-> n] : n \in {0, 1, 4}}
                 \cup {Row("plus"), Row("minus"), Row("context"), Row("nonewline")},
   finding |-> [severity : {"critical", "Note", "must fix", "mustfix", "should fix", "nitpick"},
                line : {-1, 1, 2, 6, 20}, start : {-1, 1, 4}],
   checks  |-> [name : {"bot", "build", "lint"}, state : {"", "SUCCESS", "FAILURE", "NEUTRAL"},
                status : {"QUEUED", "COMPLETED"}],
   output  |-> {Marker("VERDICT"), Marker("GITHUB"), End, GluedEnd,
                Word("ok"), Word("fixed"), Word("prose")},
   threads |-> {Thread(n) : n \in MCThreadNumbers} \cup {End, GluedEnd,
                Word("resolve"), Word("reply"), Word("prose"), Word("")}]

MCMaxLength ==
  [body |-> 5, patch |-> 5, diff |-> 5, finding |-> 2, checks |-> 3, output |-> 5, threads |-> 5]

\* The rules of a repository that asks for the money question's answer, alone
\* or with the steps', and of one whose rules contradict each other.
Blocks(f, said) == [field |-> f, answers |-> said]

MCTriageRules ==
  [require  : {<<>>, "money?" :> {<<"no">>}, "money?" :> {<<"no">>} @@ "steps" :> {<<"no">>, <<>>}},
   needs    : {{}, {"steps"}},
   block_if : {<<>>, <<Blocks("steps", {<<"unsure">>})>>,
               <<Blocks("steps", {<<>>}), Blocks("money?", {<<"no">>})>>},
   ask_if   : {<<>>, "money?" :> {<<"unsure">>, <<>>},
               "money?" :> {<<"unsure">>} @@ "steps" :> {<<"unsure">>}}]

MCOtherAnswers == {<<>>, <<"no">>, <<"unsure">>}

MCDiffLines  == {1, 2, 5, 6, 11}
MCInlineMins == {"critical", "must-fix", "should-fix", "nitpick"}
=============================================================================
