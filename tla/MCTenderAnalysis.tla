-------------------------- MODULE MCTenderAnalysis --------------------------
EXTENDS TenderAnalysis

CONSTANTS t1, s1, a1

(* Elements of a document. *)
Par(text) == [kind |-> "paragraph", level |-> 0, text |-> text, rows |-> <<>>]
Heading(level, text) == [Par(text) EXCEPT !.level = level]
Table(rows) == [Par(<<>>) EXCEPT !.kind = "table", !.rows = rows]
Section == [Par(<<>>) EXCEPT !.kind = "section"]

Doc(body, large) == [body |-> body, large |-> large, archive |-> "ok"]

(* One block; four blocks and an empty paragraph, in two volumes or one. *)
Small == Doc(<<Par(<<"x">>)>>, FALSE)
Volumes == Doc(<<Par(<<"x">>), Par(<<"s">>), Par(<<"x">>), Table(<< <<"x">> >>), Par(<<"x">>), Section>>, FALSE)

(* Long texts with their separators everywhere, and tables. *)
Char(n) == <<"x", "s", "p">>[(n % 3) + 1]
Text(n) == <<"x", "y", "y", Char(n), "y", "y", Char(n \div 3), "z">>
FirstRow == << <<"1">>, <<"1", "1", "1", "1">> >>
SecondRow == << <<>>, <<"2">>, <<"2", "s", "2", "2", "2">> >>
Rows(n) == << <<"h">>, FirstRow[(n % 2) + 1], SecondRow[(n % 3) + 1], <<"3">> >>

MCDocuments ==
  <<Small, Volumes, Doc(<<Par(<<"s">>), Section>>, FALSE), [Small EXCEPT !.archive = "too large"],
    Doc(<<Table(<< <<"h">> >>)>>, TRUE),
    Doc(<<Table(<< <<"h", "h", "h", "h">>, <<"1", "1">> >>)>>, TRUE),
    Doc(<<Heading(1, <<"a">>), Par(<<"x">>), Heading(2, <<"b">>), Heading(2, <<"b">>), Heading(1, <<"c">>)>>, TRUE)>>
  \o [n \in 1..6 |-> Doc(<<Table(Rows(n))>>, TRUE)]
  \o [n \in 1..9 |-> Doc(<<Heading(1, <<"a">>), Par(Text(n))>>, TRUE)]
MCCrowded == {1}

Out(name, slug, s, e, refs) == [name |-> name, slug |-> slug, start |-> s, end |-> e, refs |-> refs]
Analysis(status, package, s, e, outputs, evidence) ==
  [status |-> status, package |-> package, start |-> s, end |-> e, outputs |-> outputs, evidence |-> evidence]

(* Two volumes with boundaries at any blocks of the larger document. *)
Ends == {1, 3, 4, 5}
TwoVolumes ==
  {Analysis("completed", "multi", s, 5,
            <<Out("A", "a", b[1], b[2], {}), Out("B", slug, b[3], b[4], {})>>, {1}) :
     s \in {1, 3}, slug \in {"a", "b"},
     b \in {b \in Ends \X Ends \X Ends \X Ends : b[1] <= b[2]}}

OneVolume ==
  {Analysis(status, "single", 1, 5, <<Out("A", "a", s, e, refs)>>, evidence) :
     status \in {"completed", "needs_review"}, s, e \in {None, 1, 2, 5},
     refs \in {{}, {3}}, evidence \in {{}, {1}}}

Volume(last) == Analysis("completed", "single", 1, last, <<Out("A", "a", 1, 1, {})>>, {1})

MCAnswers(doc) ==
  CASE doc = 2 -> TwoVolumes \cup OneVolume
         \cup {Analysis("completed", "uncertain", 1, 5, <<>>, {1}),
               Analysis("needs_review", "uncertain", 1, 5, <<>>, {1}),
               Analysis("completed", "single", None, 5, <<Out("A", "a", 1, 5, {})>>, {1})}
    [] OTHER -> {Volume(1), Volume(7)}

Verdict(adjust, s, e) == [adjust |-> adjust, start |-> s, end |-> e]
MCVerdicts(doc) ==
  {Verdict(FALSE, None, None), Verdict(TRUE, 1, None), Verdict(TRUE, 1, 1)}
    \cup (IF doc = 2 THEN {Verdict(TRUE, 3, 5), Verdict(TRUE, 5, 3)} ELSE {})

MCExtracts(doc) == IF doc = 2 THEN {<<1, 5>>, <<2, 4>>, <<5, 1>>} ELSE {}

Raised(status, kind, header) == [status |-> status, kind |-> kind, header |-> header]
MCErrors == {Raised(0, "timeout", -1), Raised(429, "status", 3), Raised(401, "status", -1)}

Reply(choices, text, wrappers, others, valid) ==
  [choices |-> choices, text |-> text, object |-> TRUE, wrappers |-> wrappers, others |-> others,
   inner |-> TRUE, unknown |-> FALSE, valid |-> valid]
MCReplies == {Reply(1, "fenced", 1, FALSE, TRUE), Reply(1, "thought", 0, FALSE, FALSE),
              Reply(1, "plain", 1, TRUE, TRUE), Reply(0, "plain", 0, FALSE, TRUE)}
=============================================================================
