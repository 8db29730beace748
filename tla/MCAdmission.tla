---- MODULE MCAdmission ----
(* Sources on both sides of every limit, the commands that tell them apart, some direct callers. *)
EXTENDS Admission

Ref(s, p, f) == [scheme |-> s, path |-> p, fault |-> f]
Docs == Ref("documentation", "a", "none")
Sop == Ref("sop", "a", "none")
RunbookRef == Ref("runbook", "a", "none")
IssueRef == Ref("known_issue", "accented", "none")
Traversing == Ref("runbook", "a", "traversal")
Bare == Ref("known_issue", "", "none")
Unsafe == Ref("runbook", "a", "unsafe")

Text(t, l, headed, parts) ==
    [text |-> t, length |-> l, layout |-> [headed |-> headed, parts |-> parts]]
Short(t) == Text(t, 1, FALSE, <<1>>)
Field(i, s, p) == [identity |-> i, secret |-> s, pii |-> p]
Plain(c, p) == [bytes |-> 2, form |-> "text", ref |-> NoRef, plain |-> c, record |-> c,
                fields |-> <<Field(FALSE, FALSE, p)>>]
Record(f, r, fields) == [bytes |-> 2, form |-> f, ref |-> r, plain |-> Short("json"),
                         record |-> Text("rec", 1, FALSE, <<2, 2, 1>>), fields |-> fields]

Paragraphs == Text("paragraphs", 1, FALSE, <<1, 1, 2, 4, 8>>)
Headed == Text("headed", 1, TRUE, <<1, 5, 4>>)
MCSources ==
    {Plain(Paragraphs, 0), Plain(Paragraphs, 2), Plain(Headed, 3), Plain(Headed, 1),
     Plain(Text("many", 1, TRUE, <<1, 1, 1, 1, 1, 1, 1>>), 0), Plain(Text("control", 0, FALSE, <<>>), 0),
     Plain(Text("long", 3, FALSE, <<1>>), 0),
     [Plain(Headed, 0) EXCEPT !.bytes = 3], [Plain(Headed, 0) EXCEPT !.bytes = 0],
     [Plain(Headed, 0) EXCEPT !.form = "garbled"],
     Record("runbook", RunbookRef, <<Field(TRUE, FALSE, 0), Field(FALSE, FALSE, 2)>>),
     Record("runbook", RunbookRef, <<Field(TRUE, FALSE, 1), Field(FALSE, FALSE, 0)>>),
     Record("runbook", RunbookRef, <<Field(TRUE, FALSE, 0), Field(FALSE, FALSE, 2),
                                     Field(FALSE, FALSE, 1)>>),
     Record("runbook", RunbookRef, <<Field(TRUE, FALSE, 0), Field(FALSE, FALSE, 0),
                                     Field(FALSE, TRUE, 0)>>),
     Record("runbook", Traversing, <<Field(TRUE, FALSE, 0), Field(FALSE, FALSE, 0)>>),
     Record("runbook", Unsafe, <<Field(TRUE, FALSE, 0), Field(FALSE, FALSE, 0)>>),
     Record("known_issue", Bare, <<Field(TRUE, FALSE, 0), Field(FALSE, FALSE, 1)>>),
     Record("known_issue", IssueRef, <<Field(TRUE, FALSE, 0), Field(FALSE, FALSE, 1)>>)}

\* A terminal of another locale cannot show its letters.
MCUnprintable == {IssueRef}

Line(v, e, t, r) == [verb |-> v, ext |-> e, type |-> t, ref |-> r]
Direct(k, c, r, l, n) ==
    [verb |-> "admit",
     given |-> [kind |-> k, category |-> c, ref |-> r, label |-> l, name |-> n]]
MCCommands ==
    {Line(v, "md", "documentation", Docs) : v \in {"dry-run", "ingest"}}
    \cup {Line(v, "json", t, NoRef) : v \in {"dry-run", "ingest"}, t \in Structured}
    \cup {Line("ingest", "txt", "sop", Docs), Line("ingest", "json", "sop", NoRef),
          Line("dry-run", "exe", "sop", Sop), Line("ingest", "md", "sop", NoRef)}
    \cup {Direct("text_document", "sop", Sop, "attachment", "plain"),
          Direct("text_document", "sop", Sop, "live_crm", "plain"),
          Direct("text_document", "sop", NoRef, "none", "path"),
          Direct("runbook", "sop", NoRef, "none", "plain"),
          Direct("text_document", "sop", NoRef, "none", "plain")}
====
