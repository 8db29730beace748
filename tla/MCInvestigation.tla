--------------------------- MODULE MCInvestigation ---------------------------
(* Instances of Investigation for TLC. *)
EXTENDS Investigation

CONSTANTS r1, o1, p1, h1, h2

Item(id, time, refs, supports) ==
    [id |-> id, time |-> time, refs |-> refs, supports |-> supports]

ticket   == Item("so:ticket", 2, {"ticket:1"}, FALSE)
deadlock == Item("diag:deadlock", 1, {"ticket:1"}, TRUE)
issue    == Item("kb:issue", 3, {}, TRUE)
article  == Item("kb:doc", 3, {}, FALSE)

Nothing == [op \in Operations |-> {<<>>}]

\* Every document has one chunk that is relevant.
OneChunk ==
    [Nothing EXCEPT !["ticket"] = {<<ticket>>}, !["deadlocks"] = {<<deadlock>>},
                    !["issues"] = {<<>>}, !["chunks"] = {<<article>>}]

\* Two chunks of one document may be relevant.
TwoChunks == [OneChunk EXCEPT !["chunks"] = {<<article>>, <<article, article>>}]

Everything == {{"ticket", "deadlocks", "issues"}}

OperatorCalls ==
    [kind : {"advance"}, plan : Plans, hyp : {h1}, status : {"confirmed"},
     evidence : {<<"operator">>}]
    \cup [kind : {"conclude"}, plan : Plans, hyp : {h2}, status : {"proposed"},
          evidence : {<<"operator">>}]
    \cup [kind : {"abort"}, plan : Plans, hyp : {NoHyp}, status : {"proposed"},
          evidence : {<<"operator">>}]

\* What a step may list: what some of the sources gave, in their order.
StepEvidence ==
    {SelectSeq(<<"so:ticket", "diag:deadlock", "kb:doc">>, LAMBDA id : id \in ids) :
        ids \in SUBSET {"so:ticket", "diag:deadlock", "kb:doc"}}
    \cup {<<"operator">>}
=============================================================================
