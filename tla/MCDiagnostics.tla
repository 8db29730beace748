---- MODULE MCDiagnostics ----
(* Six places a search may find its files in, and the networks of the database calls. *)
EXTENDS Diagnostics

Line(k, t, w, s) == [kind |-> k, time |-> t, what |-> w, size |-> s, dst |-> FALSE, at |-> 0]
E(t, w, s) == Line("entry", t, w, s)
Doubtful(t, w, s) == [E(t, w, s) EXCEPT !.dst = TRUE]
Text(s) == Line("text", 0, 0, s)
Blank == Line("blank", 0, 0, 0)
BrokenHeader(s) == Line("malformed", 0, 0, s)
Placed(lines) ==
    FoldLeft(LAMBDA ls, l : Append(ls, [l EXCEPT !.at = IF ls = <<>> THEN 0
                                                       ELSE Last(ls).at + Last(ls).size + 1]),
             <<>>, lines)
File(lines, tail) == [lines |-> Placed(lines), tail |-> tail, fields |-> TRUE]
Headless(lines) == [lines |-> Placed(lines), tail |-> 0, fields |-> FALSE]
Place(i, w, en, rd) == [iis |-> i, warn |-> w, enabled |-> en, ready |-> rd]

MCDirectories ==
  { Place(<<File(<<E(0,2,2), E(1,1,3)>>, 0), File(<<E(2,1,3), E(3,1,2)>>, 2)>>,
          <<File(<<Text(1), E(1,1,2), Text(1), E(2,2,1)>>, 0)>>, Sources, Sources),
    Place(<<File(<<E(1,1,3)>>, 0), File(<<E(1,1,2), E(2,1,5), E(2,1,3)>>, 0),
            File(<<Text(2), E(3,1,3)>>, 4)>>,
          <<File(<<E(1,1,1)>>, 0)>>, {"iis"}, {"iis"}),
    Place(<<File(<<E(0,1,2), E(1,2,2), E(1,1,2)>>, 0), Headless(<<E(1,1,3)>>)>>,
          <<File(<<Doubtful(1,1,1), E(2,2,1), BrokenHeader(2), Text(1), E(3,1,2)>>, 0)>>,
          Sources, Sources),
    Place(<<File(<<Text(1)>>, 0)>>,
          <<File(<<E(1,1,1)>>, 0), File(<<E(1,1,2), Blank, Blank, Text(3), E(1,2,2)>>, 0),
            File(<<E(2,1,2), Text(1), E(3,1,1)>>, 1)>>, {"warning"}, {"warning"}),
    Place(<<File(<<Text(1)>>, 0)>>, <<File(<<E(1,1,1)>>, 0)>>, Sources, {"iis"}),
    Place(<<File(<<Text(1)>>, 0)>>, <<File(<<E(1,1,1)>>, 0)>>, {}, {}) }
MCIisAppended == {E(3,1,3), E(4,1,2)}
MCWarnAppended == {E(3,1,2), Text(1)}

Well == [l \in Layers |-> "ok"]
But(l, c) == [Well EXCEPT ![l] = c]
MCNetworks ==
    {Well, But("pool", "slow"), But("dns", "down"), But("dns", "slow"), But("tcp", "down"),
     But("tcp", "slow"), But("login", "down"), But("login", "slow"), But("query", "down"),
     But("query", "slow"), But("backup", "down")}
    \cup {[But("tcp", "down") EXCEPT !["login"] = "down"],
          [But("dns", "slow") EXCEPT !["tcp"] = "down"]}
MCNewAction == [time |-> 4, actor |-> "b"]
MCTickets == {NoTicket, [logs |-> {1, 3}, actions |-> {[time |-> 2, actor |-> "a"]}]}
====
