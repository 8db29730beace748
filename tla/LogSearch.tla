------------------------------ MODULE LogSearch ------------------------------
(***************************************************************************)
(* search_logs of the Diagnostics server: the composite adapter over the   *)
(* reverse reader of the IIS logs and the streaming reader of the warning  *)
(* logs, beside the web server and SuperOffice, which append to the files, *)
(* rotate, delete and lock them meanwhile.                                 *)
(*                                                                         *)
(* A log file is a sequence of lines of known sizes, with `tail` bytes of  *)
(* a line still being written; the readers work with byte positions.       *)
(* log_id is a hash of what a record shows, <<source, time, what>>; `what` *)
(* is a number whose order is that of the hashes.                          *)
(***************************************************************************)
EXTENDS Integers, SequencesExt

CONSTANTS Start, Now,        \* the window of a search: lookback, and its own clock
          Hits,              \* the contents the query text matches
          Torn,              \* what a line shows that is read before it is complete
          Limits,            \* the limits callers ask for
          MaxLimit,          \* MAX_RESULT_LIMIT_BOUND
          IisMaxFiles, IisMaxScan, Chunk, MaxLine,
          HeadBytes,         \* a cut line of this size still parses: date, time and status
          WarnMaxFiles, WarnMaxScan, MaxEventLines, MaxEventBytes,
          Directories,       \* what a search may find: [iis, warn, enabled, ready]
          IisAppended, WarnAppended,  \* lines that may be written during a search
          MaxAppends         \* bound on them

VARIABLES iis, warn,         \* the files, oldest first
          enabled, ready,    \* the sources configured, and those whose reader was built
          gone,              \* per source, the files that were deleted or are locked
          appends,
          pc, wanted, answer,
          queue,             \* the candidates that are left, newest first; warnings with their size
          excluded,          \* per source, the candidates beyond the maximum of files
          cursor, edge,      \* the open IIS file is read down to cursor; carry is [cursor, edge)
          torn,              \* whether its end is a fragment that is still to be dropped
          scanned, records, late,
          found,             \* what the readers that have finished answered
          asked,             \* history: what stood in the files at the start
          failed             \* history: the sources one of whose files could not be read

dirVars    == <<iis, warn, enabled, ready, gone, appends>>
fileVars   == <<cursor, edge, torn>>
searchVars == <<queue, excluded, scanned, records>>
callVars   == <<wanted, asked>>
logVars    == <<dirVars, pc, answer, fileVars, searchVars, callVars, late, found, failed>>

Sources == {"iis", "warning"}
NoTotal == -1
NoAnswer == [kind |-> "none"]
Failure(code) == [kind |-> "error", code |-> code]

LowerOf(a, b) == IF a < b THEN a ELSE b

\* The members of a set of numbers, highest first.
Descending(S) ==
    [k \in 1..Cardinality(S) |-> CHOOSE c \in S : Cardinality({d \in S : d > c}) = k - 1]

Lines == [kind: {"entry", "malformed", "text", "blank"}, time: Nat, what: Nat, size: Nat,
          dst: BOOLEAN, at: Nat]
Files == [lines: Seq(Lines), tail: Nat, fields: BOOLEAN]

ASSUME LogAssumption ==
    /\ Start \in Nat /\ Now \in Nat /\ Start <= Now /\ Torn \in Nat
    /\ Limits \subseteq Nat /\ MaxLimit \in Nat \ {0} /\ MaxAppends \in Nat
    /\ {IisMaxFiles, IisMaxScan, Chunk, MaxLine, HeadBytes} \subseteq Nat \ {0}
    /\ {WarnMaxFiles, WarnMaxScan, MaxEventLines, MaxEventBytes} \subseteq Nat \ {0}
-----------------------------------------------------------------------------
(* Files by position.                                                       *)

\* Byte 0 of a file is its first one; a line knows where it starts and is followed by a newline.
End(f) == IF f.lines = <<>> THEN 0 ELSE Last(f.lines).at + Last(f.lines).size + 1
Size(f) == End(f) + f.tail
From(f, i) == IF i <= Len(f.lines) THEN f.lines[i].at ELSE End(f)
Upto(f, i) == IF i <= Len(f.lines) THEN f.lines[i].at + f.lines[i].size ELSE Size(f)

\* The line under way is read as if it were complete.
LineAt(f, i) ==
    IF i <= Len(f.lines) THEN f.lines[i]
    ELSE [kind |-> "entry", time |-> Now, what |-> Torn, size |-> f.tail, dst |-> FALSE,
          at |-> End(f)]

\* The last write to the file.
Modified(f) == LineAt(f, IF f.tail > 0 THEN Len(f.lines) + 1 ELSE Len(f.lines)).time

\* Every line starts behind the newline of the one before; an entry is not an empty line.
WellPlaced(f) ==
    \A i \in DOMAIN f.lines :
        /\ f.lines[i].at = IF i = 1 THEN 0 ELSE Upto(f, i - 1) + 1
        /\ f.lines[i].kind = "entry" => f.lines[i].size > 0

\* IIS writes its entries in the order of time, which nobody looks at beyond Now.
Clocked(l) == LowerOf(l.time, Now)
InOrder(files) ==
    \A k \in DOMAIN files : \A i \in DOMAIN files[k].lines :
        files[k].lines[i].kind = "entry" =>
            /\ Clocked(files[k].lines[i]) <= Modified(files[k])
            /\ \A m \in DOMAIN files : \A j \in DOMAIN files[m].lines :
                  files[m].lines[j].kind = "entry" /\ (k < m \/ (k = m /\ i < j)) =>
                      Clocked(files[k].lines[i]) <= Clocked(files[m].lines[j])

\* What the programs that write the files keep to.
ASSUME DirectoryAssumption ==
    /\ \A d \in Directories :
          /\ d.iis \in Seq(Files) /\ d.warn \in Seq(Files)
          /\ \A k \in DOMAIN d.iis : WellPlaced(d.iis[k])
          /\ \A k \in DOMAIN d.warn : WellPlaced(d.warn[k])
          /\ InOrder(d.iis)
          /\ d.enabled \subseteq Sources /\ d.ready \subseteq Sources
    /\ \A l \in IisAppended \cup WarnAppended :
          l \in Lines /\ l.at = 0 /\ (l.kind = "entry" => l.size > 0)
    /\ \A l \in IisAppended : l.time >= Now

\* _split_chunk_lines, the complete lines of [low, high): the piece before the first
\* newline is not among them, unless the file starts there.
Pieces(f, low, high) ==
    {i \in 1..(Len(f.lines) + 1) :
        /\ From(f, i) <= high
        /\ From(f, i) > low \/ low = 0}

\* Bug: a line that goes on in the next chunk is given up at once.
NoCarry(f, low, high) == low

\* _split_chunk_lines, the end of new_carry: the first newline of what is at hand; a carry
\* that is longer than a line may be is given up.
Carry(f, low, high) ==
    LET ends == {Upto(f, i) : i \in 1..Len(f.lines)} \cap low..(high - 1)
        end  == IF ends = {} THEN high ELSE CHOOSE e \in ends : \A d \in ends : e <= d
    IN  IF end - low > MaxLine THEN low ELSE end

\* _extract_fields and _build_record_dto; a piece that stops before its line does is not whole.
IisRecord(f, i, high) ==
    [source |-> "iis", time |-> LineAt(f, i).time, what |-> LineAt(f, i).what,
     whole |-> i <= Len(f.lines) /\ Upto(f, i) <= high, size |-> LineAt(f, i).size]

\* _process_chunk_lines: what is neither empty, too long, nor without its fields.
Parses(f, i, high) ==
    LET length == LowerOf(Upto(f, i), high) - From(f, i)
    IN  /\ LineAt(f, i).kind = "entry"
        /\ length \in 1..MaxLine
        /\ Upto(f, i) <= high \/ length >= HeadBytes

\* The lines that are read before the first one that is older than the window.
Inside(f, read) == {i \in read : \A j \in read : LineAt(f, j).time < Start => j < i}

\* _parse_and_filter_line: not after the window, and matched by the query.
IisMatches(f, lines) == {i \in lines : LineAt(f, i).time <= Now /\ LineAt(f, i).what \in Hits}

\* The records of the last lines, newest first.
Backwards(f, lines, room, high) ==
    [k \in 1..LowerOf(room, Cardinality(lines)) |-> IisRecord(f, Descending(lines)[k], high)]
-----------------------------------------------------------------------------
(* SuperOfficeWarningLogParser.                                             *)

NoEvent == [kind |-> "none"]
FreshParser == [active |-> NoEvent, events |-> <<>>]

Closed(parser) ==
    IF parser.active = NoEvent THEN parser.events ELSE Append(parser.events, parser.active)

\* _handle_continuation_line: blank lines in a row count once; beyond the bounds of an event
\* lines are left out.
Continue(event, line) ==
    LET blank == line.kind = "blank"
        bytes == event.bytes + 1 + (IF blank THEN 0 ELSE line.size)
    IN  IF blank /\ event.blank THEN event
        ELSE IF event.lines + 1 > MaxEventLines \/ bytes > MaxEventBytes
        THEN [event EXCEPT !.blank = blank, !.cut = TRUE]
        ELSE [event EXCEPT !.blank = blank, !.lines = @ + 1, !.bytes = bytes]

\* feed_line: an entry's header closes the event before it, one that only looks like a header too;
\* lines before the first header are skipped.
Feed(line, parser) ==
    CASE line.kind = "entry" ->
            [active |-> [kind |-> "event", time |-> line.time, what |-> line.what,
                         dst |-> line.dst, lines |-> 1, bytes |-> line.size + 1,
                         blank |-> FALSE, cut |-> FALSE],
             events |-> Closed(parser)]
      [] line.kind = "malformed" -> [active |-> NoEvent, events |-> Closed(parser)]
      [] OTHER -> IF parser.active = NoEvent THEN parser
                  ELSE [parser EXCEPT !.active = Continue(@, line)]

\* read_events_from_file.
EventsOf(lines) ==
    LET parser[n \in 0..Len(lines)] == IF n = 0 THEN FreshParser ELSE Feed(lines[n], parser[n - 1])
    IN  Closed(parser[Len(lines)])

\* _stream_lines: the lines of the first `limit` bytes, the last one possibly cut short: then
\* it may read as a header with less text, as a broken header or as plain text.
Streams(f, limit) ==
    LET whole == {i \in 1..Len(f.lines) : Upto(f, i) <= limit}
        n     == Cardinality(whole)
        part  == LowerOf(Size(f), limit) - From(f, n + 1)
        line  == LineAt(f, n + 1)
        kinds == IF line.kind = "entry" THEN {"entry", "malformed", "text"} ELSE {line.kind}
        given == SubSeq(f.lines, 1, n)
    IN  IF part <= 0 THEN {given}
        ELSE {Append(given, [line EXCEPT !.kind = k, !.size = part, !.what = Torn]) : k \in kinds}

\* to_domain_dto, and the text filter of _matches_criteria.
WarnRecord(event) == [source |-> "warning", time |-> event.time, what |-> event.what]
WarnMatches(events) == {k \in DOMAIN events : events[k].what \in Hits}
WarnRecords(events, taken) ==
    LET hits == taken \cap WarnMatches(events)
    IN  [k \in 1..Cardinality(hits) |->
            WarnRecord(events[Descending(hits)[Cardinality(hits) + 1 - k]])]
-----------------------------------------------------------------------------
(* The answer of the composite adapter.                                     *)

Id(r) == <<r.source, r.time, r.what>>
Ids(rs) == {Id(rs[k]) : k \in 1..Len(rs)}

\* The sort key of the merge: timestamp, service name, log_id.
Newer(a, b) ==
    \/ a[2] > b[2]
    \/ a[2] = b[2] /\ a[1] # b[1] /\ a[1] = "warning"
    \/ a[2] = b[2] /\ a[1] = b[1] /\ a[3] > b[3]
Newest(ids, n) == {a \in ids : Cardinality({b \in ids : Newer(b, a)}) < n}

\* Bug: only the bound of the merge itself is reported.
MergedForgetful(results, limit) ==
    LET ids == UNION {Ids(results[k].records) : k \in 1..Len(results)}
    IN  [kind |-> "ok", items |-> Newest(ids, limit),
         truncated |-> Cardinality(ids) > limit, total |-> NoTotal]

\* search_logs of the composite, once every source has answered.
Merged(results, limit) ==
    LET ids       == UNION {Ids(results[k].records) : k \in 1..Len(results)}
        truncated == \E k \in 1..Len(results) : results[k].truncated
        known     == \A k \in 1..Len(results) : results[k].total # NoTotal
        total     == FoldLeft(LAMBDA t, r : t + r.total, 0, results)
    IN  [kind |-> "ok", items |-> Newest(ids, limit),
         truncated |-> truncated \/ Cardinality(ids) > limit,
         total |-> IF truncated \/ ~known THEN NoTotal ELSE total]

\* What a perfect search would find in each source.
Entries(files) == {l \in UNION {ToSet(f.lines) : f \in ToSet(files)} : l.kind = "entry" /\ l.what \in Hits}
StandingRows ==
    {<<"iis", l.time, l.what>> : l \in {l \in Entries(iis) : l.size <= MaxLine /\ l.time \in Start..Now}}
StandingWarnings == {<<"warning", l.time, l.what>> : l \in Entries(warn)}
-----------------------------------------------------------------------------
LogInit ==
    /\ \E d \in Directories : /\ iis = d.iis /\ warn = d.warn
                              /\ enabled = d.enabled /\ ready = d.ready
    /\ gone = [s \in Sources |-> {}]
    /\ appends = 0
    /\ pc = "idle" /\ wanted = 0 /\ answer = NoAnswer
    /\ queue = <<>> /\ excluded = [s \in Sources |-> 0]
    /\ cursor = 0 /\ edge = 0 /\ torn = FALSE
    /\ scanned = 0 /\ records = <<>> /\ late = FALSE /\ found = <<>>
    /\ asked = {} /\ failed = {}

Reply(a) == pc' = "done" /\ answer' = a

\* The first reader starts, or the next one; each has its own clock and bounds.
StartReader(s) ==
    /\ pc' = IF s = "iis" THEN "selecting" ELSE "locating"
    /\ queue' = <<>> /\ scanned' = 0 /\ records' = <<>> /\ late' = FALSE

\* The service checks the limit, the composite the sources that are configured.
Ask ==
    /\ pc = "idle"
    /\ wanted' \in Limits
    /\ IF wanted' \notin 1..MaxLimit
       THEN Reply(Failure("LOG_SEARCH_LIMIT"))
            /\ UNCHANGED <<queue, scanned, records, late>>
       ELSE IF enabled = {} \/ ~(enabled \subseteq ready)
       THEN Reply(Failure("LOG_BACKEND_NOT_CONFIGURED"))
            /\ UNCHANGED <<queue, scanned, records, late>>
       ELSE /\ StartReader(IF "iis" \in enabled THEN "iis" ELSE "warning")
            /\ UNCHANGED answer
    /\ UNCHANGED <<dirVars, excluded, fileVars, found, asked, failed>>

\* The files of a source, newest first, and what is beyond the maximum.
Listing(candidates, most) ==
    [k \in 1..LowerOf(most, Cardinality(candidates)) |-> Descending(candidates)[k]]
Beyond(candidates, most) ==
    IF Cardinality(candidates) > most THEN Cardinality(candidates) - most ELSE 0

\* validate_log_directory and _select_candidate_files.
IisCandidates == {k \in 1..Len(iis) : Size(iis[k]) > 0 /\ Modified(iis[k]) >= Start}
SelectCandidates ==
    /\ pc = "selecting"
    /\ pc' = "nextFile"
    /\ queue' = Listing(IisCandidates, IisMaxFiles)
    /\ excluded' = [excluded EXCEPT !["iis"] = Beyond(IisCandidates, IisMaxFiles)]
    /\ asked' = StandingRows
    /\ UNCHANGED <<dirVars, answer, fileVars, scanned, records, wanted, late, found, failed>>

\* The directory, the place of the warning logs or their timezone cannot be had.
SourceFails ==
    /\ pc \in {"selecting", "locating"}
    /\ Reply(Failure("LOG_SOURCE_UNAVAILABLE"))
    /\ UNCHANGED <<dirVars, fileVars, searchVars, callVars, late, found, failed>>

\* The next reader, or the merge of what was found.
Finish(s, rs, truncated, total) ==
    /\ found' = Append(found, [records |-> rs, truncated |-> truncated, total |-> total])
    /\ IF s = "iis" /\ "warning" \in enabled THEN StartReader("warning")
       ELSE /\ pc' = "merging"
            /\ queue' = <<>> /\ scanned' = 0 /\ records' = <<>> /\ late' = FALSE

\* search_logs of the IIS reader after its scan: truncated or not, and the total if not.
FinishIis(rs, stopped, boundary) ==
    LET truncated == stopped \/ (excluded["iis"] > 0 /\ ~boundary)
    IN  Finish("iis", rs, truncated, IF truncated THEN NoTotal ELSE Len(rs))

\* Bug: only the limit and the clock end a scan.
UnboundedScan(most) == Len(records) >= wanted \/ late

AtBound(most) == Len(records) >= wanted \/ scanned >= most \/ late

\* Bug: the end of the list of files is waited for.
EndAtBound ==
    /\ pc = "nextFile" /\ queue # <<>> /\ AtBound(IisMaxScan)
    /\ FinishIis(records, TRUE, FALSE)
    /\ UNCHANGED <<dirVars, answer, fileVars, excluded, callVars, failed>>

\* _scan_candidates: no file left, or a bound is met before the next one.
EndOfScan ==
    /\ pc = "nextFile"
    /\ \/ queue = <<>> /\ FinishIis(records, FALSE, FALSE)
       \/ queue # <<>> /\ AtBound(IisMaxScan) /\ FinishIis(records, TRUE, FALSE)
    /\ UNCHANGED <<dirVars, answer, fileVars, excluded, callVars, failed>>

\* Bug: what follows the last newline is taken for a line.
Trusting(f) == FALSE

\* _scan_file_reverse, the last byte of the file: anything but a newline is a line under way.
Unfinished(f) == f.tail > 0

\* _parse_w3c_header and open: without its header, or without access, the file is passed over.
OpenFile ==
    /\ pc = "nextFile" /\ queue # <<>> /\ ~AtBound(IisMaxScan)
    /\ LET f == iis[Head(queue)]
       IN  IF Head(queue) \in gone["iis"] \/ ~f.fields
           THEN /\ queue' = Tail(queue)
                /\ failed' = failed \cup {"iis"}
                /\ UNCHANGED <<pc, fileVars>>
           ELSE /\ pc' = "scanning"
                /\ cursor' = Size(f) /\ edge' = Size(f) /\ torn' = Unfinished(f)
                /\ UNCHANGED <<queue, failed>>
    /\ UNCHANGED <<dirVars, answer, excluded, scanned, records, callVars, late, found>>

StopInFile ==
    /\ pc = "scanning" /\ AtBound(IisMaxScan)
    /\ FinishIis(records, TRUE, FALSE)
    /\ UNCHANGED <<dirVars, answer, fileVars, excluded, callVars, failed>>

\* One turn of the loop of _scan_file_reverse.
ReadChunk ==
    /\ pc = "scanning" /\ ~AtBound(IisMaxScan)
    /\ LET f      == iis[Head(queue)]
           low    == cursor - LowerOf(Chunk, cursor)
           pieces == Pieces(f, low, edge)
           lines  == IF torn /\ pieces # {} THEN pieces \ {Max(pieces)} ELSE pieces
           room   == wanted - Len(records)
       IN  /\ cursor' = low
           /\ edge' = IF low = 0 THEN 0 ELSE Carry(f, low, edge)
           /\ torn' = (torn /\ pieces = {})
           /\ \E read \in {{i \in lines : Parses(f, i, edge)}} :
              \E matches \in {IisMatches(f, Inside(f, read))} :
              \E rs \in {records \o Backwards(f, matches, room, edge)} :
                 \/ /\ Cardinality(matches) < room /\ Inside(f, read) # read
                    /\ FinishIis(rs, FALSE, TRUE)
                 \/ /\ Cardinality(matches) >= room
                    /\ FinishIis(rs, TRUE, FALSE)
                 \/ /\ Cardinality(matches) < room /\ Inside(f, read) = read
                    /\ records' = rs /\ scanned' = scanned + cursor - low
                    /\ pc' = IF low = 0 THEN "nextFile" ELSE "scanning"
                    /\ queue' = IF low = 0 THEN Tail(queue) ELSE queue
                    /\ UNCHANGED <<late, found>>
    /\ UNCHANGED <<dirVars, answer, excluded, callVars, failed>>

\* An OSError within the loop: the file counts as read to its end.
ReadFails ==
    /\ pc = "scanning" /\ Head(queue) \in gone["iis"]
    /\ pc' = "nextFile" /\ queue' = Tail(queue)
    /\ failed' = failed \cup {"iis"}
    /\ UNCHANGED <<dirVars, answer, fileVars, excluded, scanned, records, callVars, late, found>>
-----------------------------------------------------------------------------
\* resolve_location and locate_candidates; that files were left out is not used.
Locate ==
    /\ pc = "locating"
    /\ pc' = "warning"
    /\ LET listed == Listing(1..Len(warn), WarnMaxFiles)
       IN  queue' = [k \in 1..Len(listed) |-> [name |-> listed[k], size |-> Size(warn[listed[k]])]]
    /\ excluded' = [excluded EXCEPT !["warning"] = Beyond(1..Len(warn), WarnMaxFiles)]
    /\ asked' = asked \cup StandingWarnings
    /\ UNCHANGED <<dirVars, answer, fileVars, scanned, records, wanted, late, found, failed>>

EndOfWarnings ==
    /\ pc = "warning"
    /\ \/ queue = <<>> /\ Finish("warning", records, FALSE, NoTotal)
       \/ queue # <<>> /\ AtBound(WarnMaxScan) /\ Finish("warning", records, TRUE, NoTotal)
    /\ UNCHANGED <<dirVars, answer, fileVars, excluded, callVars, failed>>

\* The first n events of the file, up to the one that fills the limit.
Taken(events, n, room) ==
    {k \in 1..n : Cardinality({m \in WarnMatches(events) : m < k}) < room}

\* _process_candidate_events: the file is read to its bound at once; the clock is looked at
\* before each event and once more at the end (upto looks find time left); a timestamp that the
\* change of the clocks makes doubtful fails the search.
ReadWarnings ==
    /\ pc = "warning" /\ queue # <<>> /\ ~AtBound(WarnMaxScan)
    /\ Head(queue).name \notin gone["warning"]
    /\ LET remaining == WarnMaxScan - scanned
           listed    == Head(queue).size
           spent     == scanned + LowerOf(listed, remaining)
       IN  \E lines \in Streams(warn[Head(queue).name], remaining) :
           \E events \in {EventsOf(lines)} : \E upto \in 0..(Len(events) + 1) :
           \E taken \in {Taken(events, LowerOf(upto, Len(events)), wanted - Len(records))} :
           \E rs \in {records \o WarnRecords(events, taken)} :
              \/ /\ \E k \in taken : events[k].dst
                 /\ Reply(Failure("APPLICATION_LOG_TIMESTAMP"))
                 /\ UNCHANGED <<searchVars, late, found>>
              \/ /\ \A k \in taken : ~events[k].dst
                 /\ UNCHANGED <<answer, excluded>>
                 /\ IF upto <= Len(events) \/ Len(rs) >= wanted
                       \/ listed > remaining \/ spent >= WarnMaxScan
                    THEN Finish("warning", rs, TRUE, NoTotal)
                    ELSE /\ pc' = pc /\ queue' = Tail(queue)
                         /\ scanned' = spent /\ records' = rs
                         /\ UNCHANGED <<late, found>>
    /\ UNCHANGED <<dirVars, fileVars, callVars, failed>>

\* A file that cannot be read fails the search, and so do bytes that are not UTF-8, which are there
\* where the byte limit or an unfinished write cuts a character in two.
WarningFails ==
    /\ pc = "warning" /\ queue # <<>> /\ ~AtBound(WarnMaxScan)
    /\ LET f == warn[Head(queue).name]
       IN  Head(queue).name \in gone["warning"] \/ f.tail > 0 \/ Size(f) > WarnMaxScan - scanned
    /\ Reply(Failure("APPLICATION_LOG_READ_FAILED"))
    /\ failed' = failed \cup {"warning"}
    /\ UNCHANGED <<dirVars, fileVars, searchVars, callVars, late, found>>

Merge ==
    /\ pc = "merging"
    /\ Reply(Merged(found, wanted))
    /\ UNCHANGED <<dirVars, fileVars, searchVars, callVars, late, found, failed>>
-----------------------------------------------------------------------------
(* The clock, and the programs that write the files.                        *)

TimeIsUp ==
    /\ pc \in {"nextFile", "scanning", "warning"} /\ ~late
    /\ late' = TRUE
    /\ UNCHANGED <<dirVars, pc, answer, fileVars, searchVars, callVars, found, failed>>

\* The line under way is completed, or a whole one is written, or one is begun.
Written(f, lines) ==
    {[f EXCEPT !.lines = Append(@, [l EXCEPT !.at = End(f)]), !.tail = 0] :
        l \in {l \in lines : l.size >= f.tail}}
    \cup (IF f.tail = 0 THEN {[f EXCEPT !.tail = 1]} ELSE {})

\* The sources a search has still to read: what happens to the others no longer matters to it.
Unread == enabled \cap (CASE pc \in {"selecting", "nextFile", "scanning"} -> Sources
                          [] pc \in {"locating", "warning"} -> {"warning"}
                          [] OTHER -> {})
keptVars == <<enabled, ready, gone, pc, answer, fileVars, searchVars, callVars, late, found, failed>>

Write ==
    /\ appends < MaxAppends /\ appends' = appends + 1
    /\ \/ /\ "iis" \in Unread
          /\ \E f \in Written(Last(iis), IisAppended) : iis' = [iis EXCEPT ![Len(iis)] = f]
          /\ UNCHANGED warn
       \/ /\ "warning" \in Unread
          /\ \E f \in Written(Last(warn), WarnAppended) : warn' = [warn EXCEPT ![Len(warn)] = f]
          /\ UNCHANGED iis
    /\ UNCHANGED keptVars

Fresh(l) == [lines |-> <<l>>, tail |-> 0, fields |-> TRUE]
Rotate ==
    /\ appends < MaxAppends /\ appends' = appends + 1
    /\ \/ /\ "iis" \in Unread
          /\ \E l \in IisAppended : iis' = Append(iis, Fresh(l))
          /\ UNCHANGED warn
       \/ /\ "warning" \in Unread
          /\ \E l \in WarnAppended : warn' = Append(warn, Fresh(l))
          /\ UNCHANGED iis
    /\ UNCHANGED keptVars

\* A file the search has still to read is locked, or deleted after it was listed.
Lose ==
    /\ \/ /\ pc \in {"nextFile", "scanning"} /\ queue # <<>>
          /\ gone' = [gone EXCEPT !["iis"] = @ \cup {Head(queue)}]
       \/ /\ pc = "warning" /\ queue # <<>>
          /\ gone' = [gone EXCEPT !["warning"] = @ \cup {Head(queue).name}]
    /\ UNCHANGED <<iis, warn, enabled, ready, appends, pc, answer, fileVars, searchVars,
                   callVars, late, found, failed>>

SearchStep ==
    \/ Ask \/ SelectCandidates \/ EndOfScan \/ OpenFile \/ StopInFile \/ ReadChunk
    \/ Locate \/ EndOfWarnings \/ ReadWarnings \/ Merge

Failing == SourceFails \/ ReadFails \/ WarningFails
LogNext == SearchStep \/ Failing \/ TimeIsUp \/ Write \/ Rotate \/ Lose

\* The readers wait for nobody.
LogSpec == LogInit /\ [][LogNext]_logVars /\ WF_logVars(SearchStep \/ Failing)
-----------------------------------------------------------------------------
LogRecords ==
    [source: {"iis"}, time: Nat, what: Nat, whole: BOOLEAN, size: Nat]
    \cup [source: {"warning"}, time: Nat, what: Nat]

\* Type invariant; a search keeps the bounds of the reader that is running.
LogTypeOK ==
    /\ iis \in Seq(Files) /\ warn \in Seq(Files)
    /\ enabled \subseteq Sources /\ ready \subseteq Sources /\ failed \subseteq Sources
    /\ pc \in {"idle", "selecting", "nextFile", "scanning", "locating", "warning", "merging", "done"}
    /\ appends \in 0..MaxAppends /\ late \in BOOLEAN /\ torn \in BOOLEAN
    /\ cursor \in Nat /\ edge \in Nat /\ cursor <= edge
    /\ wanted \in Nat /\ scanned \in Nat /\ records \in Seq(LogRecords)
    /\ found \in Seq([records: Seq(LogRecords), truncated: BOOLEAN, total: Nat \cup {NoTotal}])
    /\ excluded \in [Sources -> Nat]
    /\ pc \in {"nextFile", "scanning"} => Len(records) <= wanted /\ scanned < IisMaxScan + Chunk
    /\ pc = "warning" => Len(records) <= wanted /\ scanned <= WarnMaxScan

IisFound == IF Len(found) > 0 /\ "iis" \in enabled THEN found[1]
            ELSE [records |-> <<>>, truncated |-> TRUE, total |-> NoTotal]

\* The reverse reader leaves no gaps: a request that stood in the logs when the search began and is
\* not in its answer is older than everything that is, and the answer admits to being truncated;
\* whatever the chunks cut, whichever bound stops the scan, and however the files grow meanwhile.
NoGap ==
    (Len(found) > 0 /\ "iis" \in enabled \ failed) =>
        \A row \in asked :
            (row[1] = "iis" /\ row \notin Ids(IisFound.records)) =>
                /\ IisFound.truncated
                /\ \A k \in DOMAIN IisFound.records : IisFound.records[k].time >= row[2]

\* What the reverse reader takes for a request is the whole of its line, never the line that is
\* still being written; only of a line longer than a line may be, a head can be taken for one.
RecordsWhole ==
    \A k \in DOMAIN IisFound.records :
        IisFound.records[k].whole \/ IisFound.records[k].size > MaxLine

\* An answer that does not say it is truncated has everything, of both sources, that stood in the
\* files, unless the reader passed over a file it could not read or warning files beyond the
\* maximum, which the answer keeps to itself.
CompleteWhenClaimed ==
    (answer.kind = "ok" /\ ~answer.truncated /\ failed = {} /\ excluded["warning"] = 0) =>
        asked \subseteq answer.items

\* Every search is answered, however fast the files grow.
SearchEnds == pc # "idle" ~> pc = "done"
=============================================================================
