------------------------- MODULE DiagnosticsProofs -------------------------
(***************************************************************************)
(* The Diagnostics server, for every directory of log files, every line    *)
(* that may be written meanwhile, every size of chunk, window, limit and   *)
(* bound, and every set of networks, rows and tickets.                     *)
(*                                                                         *)
(* A search of the logs: the invariant has four parts, which are kept in   *)
(* this order.  LogShape says which reader runs and what its queue holds;  *)
(* ScanInv, that the carry of the scan is sound, so that what is recorded  *)
(* is whole; GapInv, that a request that was not found yet is still to be  *)
(* read or lies in a file that is left out, and is older than all that was *)
(* found; WarnGapInv, the same of the warnings, and what the answer claims.*)
(*                                                                         *)
(* The database tools: DbInv, in the last part.                            *)
(***************************************************************************)
EXTENDS Diagnostics, LogFilesProofs

\* The directories, as those who write in them keep them.
FilesKept == WellKept(iis) /\ WellKept(warn) /\ InOrder(iis)

Scanning == {"nextFile", "scanning"}
IisPhases == {"selecting"} \cup Scanning
WarnPhases == {"locating", "warning"}
ReadersOf(sources) ==
    (IF "iis" \in sources THEN 1 ELSE 0) + (IF "warning" \in sources THEN 1 ELSE 0)

\* Which reader runs, what has been answered by then, and what the queue holds.
ReaderInv ==
    /\ pc \in IisPhases \cup {"idle"} => found = <<>>
    /\ pc \in IisPhases => "iis" \in enabled
    /\ pc \in WarnPhases =>
          "warning" \in enabled /\ Len(found) = IF "iis" \in enabled THEN 1 ELSE 0
    /\ pc = "merging" => enabled # {} /\ Len(found) = ReadersOf(enabled)
    /\ pc \in {"selecting", "locating"} => records = <<>> /\ scanned = 0
    /\ pc \in Scanning =>
          /\ queue \in Seq(Nat)
          /\ \A p \in DOMAIN queue : queue[p] \in DOMAIN iis
          /\ \A p, q \in DOMAIN queue : p < q => queue[p] > queue[q]
    /\ pc = "scanning" => queue # <<>>
    /\ pc = "warning" =>
          /\ queue \in Seq([name: Nat, size: Nat])
          /\ \A p \in DOMAIN queue : queue[p].name \in DOMAIN warn
    /\ pc \notin {"idle", "done"} => wanted \in 1..MaxLimit
    /\ pc # "done" => answer = NoAnswer

LogShape == LogTypeOK /\ FilesKept /\ ReaderInv

\* What was recorded for a request is whole, and where the scan stands in the open file is sound.
ScanInv ==
    /\ pc \in Scanning => \A m \in DOMAIN records : records[m].source = "iis" /\ IsWhole(records[m])
    /\ pc = "scanning" =>
          /\ edge <= Size(iis[Head(queue)])
          /\ Sound(iis[Head(queue)], edge, torn)
    /\ RecordsWhole

Queued(k, i) ==
    \E p \in DOMAIN queue :
        queue[p] = k /\ (pc = "scanning" /\ p = 1 => StillLeft(iis[k], i, edge, torn))
LeftOut(k) == excluded["iis"] > 0 /\ \A p \in DOMAIN queue : k < queue[p]
Ahead(k, i) == Queued(k, i) \/ LeftOut(k)

NotOlder(rs, row) == \A m \in DOMAIN rs : rs[m].time >= row[2]

\* What is not found yet is still to be read, or lies in a file that is left out.
GapInv ==
    /\ (pc \in Scanning /\ "iis" \notin failed) =>
        \A row \in asked :
           \/ row \in Ids(records)
           \/ /\ NotOlder(records, row)
              /\ \E k \in DOMAIN iis : \E i \in DOMAIN iis[k].lines :
                    ShownBy(iis, k, i, row) /\ Ahead(k, i)
    /\ pc \in {"idle", "selecting"} => asked = {}
    /\ NoGap

ShowsWarning(l, row) ==
    l.kind = "entry" /\ l.what \in Hits /\ row = <<"warning", l.time, l.what>>
WaitsIn(row, entry) ==
    \E i \in DOMAIN warn[entry.name].lines :
        ShowsWarning(warn[entry.name].lines[i], row) /\ Upto(warn[entry.name], i) <= entry.size
WarnGapInv ==
    /\ \A row \in asked : row[1] \in enabled
    /\ pc \in IisPhases \cup {"locating"} => \A row \in asked : row[1] = "iis"
    /\ (pc = "warning" /\ excluded["warning"] = 0) =>
          \A row \in asked : row[1] = "warning" =>
             \/ row \in Ids(records)
             \/ \E p \in DOMAIN queue : WaitsIn(row, queue[p])
    /\ pc = "merging" =>
          ("warning" \in enabled /\ ~found[Len(found)].truncated /\ excluded["warning"] = 0 =>
              \A row \in asked : row[1] = "warning" => row \in Ids(found[Len(found)].records))
    /\ CompleteWhenClaimed

LogInv == LogShape /\ ScanInv /\ GapInv /\ WarnGapInv
-----------------------------------------------------------------------------
(* The files and the readers: what has which shape.                         *)

Reports == [records: Seq(LogRecords), truncated: BOOLEAN, total: Nat \cup {NoTotal}]
Grown(files, more) ==
    \A k \in DOMAIN files : k \in DOMAIN more /\ (more[k] = files[k] \/ Extends(files[k], more[k]))

\* The writers append lines that have no place yet, and IIS none before the search's own clock.
LEMMA AppendedLines == Appendable(IisAppended) /\ Appendable(WarnAppended)
                       /\ \A l \in IisAppended : l.time >= Now
BY DirectoryAssumption DEF Appendable

\* Only the programs that write change the files, and they keep to the order of time.
LEMMA FilesStep ==
    ASSUME FilesKept, [LogNext]_logVars
    PROVE  /\ FilesKept' /\ Grown(iis, iis') /\ Grown(warn, warn')
           /\ enabled' = enabled /\ ready' = ready
<1>1. ASSUME UNCHANGED <<iis, warn>> PROVE FilesKept' /\ Grown(iis, iis') /\ Grown(warn, warn')
  BY <1>1 DEF FilesKept, Grown
<1>2. CASE UNCHANGED logVars
  BY <1>1, <1>2 DEF logVars, dirVars
<1>3. CASE SearchStep
  <2>1. UNCHANGED dirVars
    BY <1>3 DEF SearchStep, Ask, SelectCandidates, EndOfScan, OpenFile, StopInFile, ReadChunk,
                Locate, EndOfWarnings, ReadWarnings, Merge
  <2> QED BY <1>1, <2>1 DEF dirVars
<1>4. CASE Failing \/ TimeIsUp
  <2>1. UNCHANGED dirVars
    BY <1>4 DEF Failing, SourceFails, ReadFails, WarningFails, TimeIsUp
  <2> QED BY <1>1, <2>1 DEF dirVars
<1>5. CASE Lose
  BY <1>1, <1>5 DEF Lose
<1>6. CASE Write
  <2>1. enabled' = enabled /\ ready' = ready
    BY <1>6 DEF Write, keptVars
  <2>2. \/ UNCHANGED warn /\ \E f \in Written(Last(iis), IisAppended) : iis' = [iis EXCEPT ![Len(iis)] = f]
        \/ UNCHANGED iis /\ \E f \in Written(Last(warn), WarnAppended) : warn' = [warn EXCEPT ![Len(warn)] = f]
    BY <1>6 DEF Write
  <2>3. ASSUME NEW f \in Written(Last(iis), IisAppended), iis' = [iis EXCEPT ![Len(iis)] = f],
               UNCHANGED warn
        PROVE  FilesKept' /\ Grown(iis, iis') /\ Grown(warn, warn')
    <3>1. /\ WellKept(iis') /\ Len(iis') = Len(iis) /\ DOMAIN iis' = DOMAIN iis
          /\ \A k \in DOMAIN iis : iis'[k] = iis[k] \/ Extends(iis[k], iis'[k])
          /\ InOrder(iis) /\ (\A l \in IisAppended : l.time >= Now) => InOrder(iis')
      <4>1. f \in Written(iis[Len(iis)], IisAppended)
        BY <2>3 DEF Last
      <4> QED BY <4>1, <2>3, AppendedLines, WritingKeeps DEF FilesKept
    <3> QED BY <3>1, <2>3, AppendedLines DEF FilesKept, Grown, WellKept
  <2>4. ASSUME NEW f \in Written(Last(warn), WarnAppended), warn' = [warn EXCEPT ![Len(warn)] = f],
               UNCHANGED iis
        PROVE  FilesKept' /\ Grown(iis, iis') /\ Grown(warn, warn')
    <3>1. /\ WellKept(warn') /\ Len(warn') = Len(warn) /\ DOMAIN warn' = DOMAIN warn
          /\ \A k \in DOMAIN warn : warn'[k] = warn[k] \/ Extends(warn[k], warn'[k])
      <4>1. f \in Written(warn[Len(warn)], WarnAppended)
        BY <2>4 DEF Last
      <4> QED BY <4>1, <2>4, AppendedLines, WritingKeeps DEF FilesKept
    <3> QED BY <3>1, <2>4 DEF FilesKept, Grown, WellKept
  <2> QED BY <2>1, <2>2, <2>3, <2>4
<1>7. CASE Rotate
  <2>1. enabled' = enabled /\ ready' = ready
    BY <1>7 DEF Rotate, keptVars
  <2>2. \/ UNCHANGED warn /\ \E l \in IisAppended : iis' = Append(iis, Fresh(l))
        \/ UNCHANGED iis /\ \E l \in WarnAppended : warn' = Append(warn, Fresh(l))
    BY <1>7 DEF Rotate
  <2>3. ASSUME NEW l \in IisAppended, iis' = Append(iis, Fresh(l)), UNCHANGED warn
        PROVE  FilesKept' /\ Grown(iis, iis') /\ Grown(warn, warn')
    <3>1. /\ WellKept(iis')
          /\ \A k \in DOMAIN iis : k \in DOMAIN iis' /\ iis'[k] = iis[k]
          /\ InOrder(iis) /\ l.time >= Now => InOrder(iis')
      <4>1. WellKept(iis) /\ Appendable(IisAppended) /\ l \in IisAppended
        BY AppendedLines DEF FilesKept
      <4>2. iis' = Rotated(iis, l)
        BY <2>3 DEF Rotated
      <4> QED BY <4>1, <4>2, RotatingKeeps
    <3> QED BY <3>1, <2>3, AppendedLines DEF FilesKept, Grown, WellKept
  <2>4. ASSUME NEW l \in WarnAppended, warn' = Append(warn, Fresh(l)), UNCHANGED iis
        PROVE  FilesKept' /\ Grown(iis, iis') /\ Grown(warn, warn')
    <3>1. /\ WellKept(warn')
          /\ \A k \in DOMAIN warn : k \in DOMAIN warn' /\ warn'[k] = warn[k]
      <4>1. WellKept(warn) /\ Appendable(WarnAppended) /\ l \in WarnAppended
        BY AppendedLines DEF FilesKept
      <4>2. warn' = Rotated(warn, l)
        BY <2>4 DEF Rotated
      <4> QED BY <4>1, <4>2, RotatingKeeps
    <3> QED BY <3>1, <2>4 DEF FilesKept, Grown, WellKept
  <2> QED BY <2>1, <2>2, <2>3, <2>4
<1> QED BY <1>2, <1>3, <1>4, <1>5, <1>6, <1>7 DEF LogNext

\* The indices of the candidates, in whatever order they were written.
LEMMA LogConstants ==
    /\ Start \in Nat /\ Now \in Nat /\ Torn \in Nat /\ MaxLimit \in Nat /\ MaxAppends \in Nat
    /\ IisMaxFiles \in Nat /\ IisMaxScan \in Nat /\ IisMaxScan > 0 /\ Chunk \in Nat /\ Chunk > 0
    /\ MaxLine \in Nat /\ WarnMaxFiles \in Nat /\ WarnMaxScan \in Nat /\ WarnMaxScan > 0
BY LogAssumption

\* What a finished reader leaves behind.
LEMMA FinishFacts ==
    ASSUME LogShape, NEW s \in Sources,
           s = "iis" => pc \in Scanning, s = "warning" => pc = "warning",
           NEW rs \in Seq(LogRecords), NEW truncated \in BOOLEAN, NEW total \in Nat \cup {NoTotal},
           Finish(s, rs, truncated, total)
    PROVE  /\ found' \in Seq(Reports) /\ Len(found') = Len(found) + 1 /\ Len(found) \in Nat
           /\ found'[Len(found) + 1] = [records |-> rs, truncated |-> truncated, total |-> total]
           /\ \A k \in 1..Len(found) : found'[k] = found[k]
           /\ queue' = <<>> /\ records' = <<>> /\ scanned' = 0 /\ late' = FALSE
           /\ \/ pc' = "locating" /\ s = "iis" /\ "warning" \in enabled
              \/ pc' = "merging" /\ (s = "iis" => "warning" \notin enabled)
<1> DEFINE r == [records |-> rs, truncated |-> truncated, total |-> total]
<1>1. r \in Reports
  BY DEF Reports
<1>2. found \in Seq(Reports) /\ found' = Append(found, r)
  BY DEF LogShape, LogTypeOK, Reports, Finish
<1> HIDE DEF r
<1>3. /\ found' \in Seq(Reports) /\ Len(found') = Len(found) + 1 /\ Len(found) \in Nat
      /\ found'[Len(found) + 1] = r /\ \A k \in 1..Len(found) : found'[k] = found[k]
  BY <1>1, <1>2, AppendProperties, LenProperties
<1>4. /\ queue' = <<>> /\ records' = <<>> /\ scanned' = 0 /\ late' = FALSE
      /\ \/ pc' = "locating" /\ s = "iis" /\ "warning" \in enabled
         \/ pc' = "merging" /\ (s = "iis" => "warning" \notin enabled)
  BY DEF Finish, StartReader
<1> QED BY <1>3, <1>4 DEF r

\* When a reader has finished, the next one starts from nothing or the merge does.
LEMMA FinishShape ==
    ASSUME LogShape, FilesKept', NEW s \in Sources,
           s = "iis" => pc \in Scanning, s = "warning" => pc = "warning",
           NEW rs \in Seq(LogRecords), NEW truncated \in BOOLEAN, NEW total \in Nat \cup {NoTotal},
           Finish(s, rs, truncated, total),
           UNCHANGED <<dirVars, answer, excluded, callVars, failed>>,
           cursor' \in Nat, edge' \in Nat, cursor' <= edge', torn' \in BOOLEAN
    PROVE  LogShape'
<1>1. /\ found' \in Seq(Reports) /\ Len(found') = Len(found) + 1 /\ Len(found) \in Nat
      /\ queue' = <<>> /\ records' = <<>> /\ scanned' = 0 /\ late' = FALSE
      /\ \/ pc' = "locating" /\ s = "iis" /\ "warning" \in enabled
         \/ pc' = "merging" /\ (s = "iis" => "warning" \notin enabled)
  BY FinishFacts
<1>2. Len(found) = IF s = "iis" THEN 0 ELSE IF "iis" \in enabled THEN 1 ELSE 0
  BY DEF LogShape, ReaderInv, Scanning, IisPhases, WarnPhases, Sources
<1>3. s = "iis" => "iis" \in enabled
  BY DEF LogShape, ReaderInv, Scanning, IisPhases
<1>4. s = "warning" => "warning" \in enabled
  BY DEF LogShape, ReaderInv, WarnPhases
<1>5. LogTypeOK'
  <2>1. /\ UNCHANGED <<enabled, ready, appends, wanted, excluded, failed>>
        /\ iis' \in Seq(Files) /\ warn' \in Seq(Files)
    BY DEF dirVars, callVars, FilesKept, WellKept
  <2>2. /\ enabled \subseteq Sources /\ ready \subseteq Sources /\ failed \subseteq Sources
        /\ appends \in 0..MaxAppends /\ wanted \in Nat /\ excluded \in [Sources -> Nat]
    BY DEF LogShape, LogTypeOK
  <2>3. records' \in Seq(LogRecords) /\ scanned' \in Nat /\ late' \in BOOLEAN
        /\ pc' \notin {"nextFile", "scanning", "warning"} /\ pc' \in {"locating", "merging"}
    <3>1. records' = <<>> /\ scanned' = 0 /\ late' = FALSE /\ (pc' = "locating" \/ pc' = "merging")
      BY <1>1
    <3> QED BY <3>1, EmptySeq
  <2>4. found' \in Seq([records: Seq(LogRecords), truncated: BOOLEAN, total: Nat \cup {NoTotal}])
    BY <1>1 DEF Reports
  <2> QED BY <2>1, <2>2, <2>3, <2>4 DEF LogTypeOK
<1>6. ReaderInv'
  <2>1. UNCHANGED <<enabled, answer, wanted>> /\ pc # "done" /\ pc # "idle"
    BY DEF dirVars, callVars, Scanning, Sources
  <2>2. wanted \in 1..MaxLimit /\ answer = NoAnswer
    BY <2>1 DEF LogShape, ReaderInv
  <2>3. CASE pc' = "locating"
    <3>1. Len(found') = 1 /\ "iis" \in enabled' /\ "warning" \in enabled'
      BY <2>1, <2>3, <1>1, <1>2, <1>3
    <3> QED BY <2>1, <2>2, <2>3, <3>1, <1>1 DEF ReaderInv, IisPhases, Scanning, WarnPhases
  <2>4. CASE pc' = "merging"
    <3>1. Len(found') = ReadersOf(enabled') /\ enabled' # {}
      BY <2>1, <2>4, <1>1, <1>2, <1>3, <1>4 DEF ReadersOf, Sources
    <3> QED BY <2>1, <2>2, <2>4, <3>1, <1>1 DEF ReaderInv, IisPhases, Scanning, WarnPhases
  <2> QED BY <2>3, <2>4, <1>1
<1> QED BY <1>5, <1>6 DEF LogShape

-----------------------------------------------------------------------------
(* One turn of the reverse reader.                                          *)

Current == iis[Head(queue)]
Floor == cursor - LowerOf(Chunk, cursor)
ReadOf(f, low, high, t) == {i \in LinesOfChunk(f, low, high, t) : Parses(f, i, high)}
ReadNow == ReadOf(Current, Floor, edge, torn)
MatchedNow == IisMatches(Current, Inside(Current, ReadNow))
Room == wanted - Len(records)
RecordsNow == records \o Backwards(Current, MatchedNow, Room, edge)

\* The turn of the loop in terms of what it reads, matches and records.
LEMMA ChunkStep ==
    ASSUME ReadChunk
    PROVE  /\ pc = "scanning" /\ ~AtBound(IisMaxScan)
           /\ cursor' = Floor
           /\ edge' = IF Floor = 0 THEN 0 ELSE Carry(Current, Floor, edge)
           /\ torn' = (torn /\ Pieces(Current, Floor, edge) = {})
           /\ \/ /\ Cardinality(MatchedNow) < Room /\ Inside(Current, ReadNow) # ReadNow
                 /\ FinishIis(RecordsNow, FALSE, TRUE)
              \/ /\ Cardinality(MatchedNow) >= Room
                 /\ FinishIis(RecordsNow, TRUE, FALSE)
              \/ /\ Cardinality(MatchedNow) < Room /\ Inside(Current, ReadNow) = ReadNow
                 /\ records' = RecordsNow /\ scanned' = scanned + cursor - Floor
                 /\ pc' = (IF Floor = 0 THEN "nextFile" ELSE "scanning")
                 /\ queue' = (IF Floor = 0 THEN Tail(queue) ELSE queue)
                 /\ UNCHANGED <<late, found>>
           /\ UNCHANGED <<dirVars, answer, excluded, callVars, failed>>
<1> DEFINE Turn(read, matches, rs) ==
              \/ /\ Cardinality(matches) < Room /\ Inside(Current, read) # read
                 /\ FinishIis(rs, FALSE, TRUE)
              \/ /\ Cardinality(matches) >= Room
                 /\ FinishIis(rs, TRUE, FALSE)
              \/ /\ Cardinality(matches) < Room /\ Inside(Current, read) = read
                 /\ records' = rs /\ scanned' = scanned + cursor - Floor
                 /\ pc' = (IF Floor = 0 THEN "nextFile" ELSE "scanning")
                 /\ queue' = (IF Floor = 0 THEN Tail(queue) ELSE queue)
                 /\ UNCHANGED <<late, found>>
           pieces == Pieces(Current, Floor, edge)
           lines == IF torn /\ pieces # {} THEN pieces \ {Max(pieces)} ELSE pieces
<1>1. /\ pc = "scanning" /\ ~AtBound(IisMaxScan)
      /\ cursor' = Floor
      /\ edge' = IF Floor = 0 THEN 0 ELSE Carry(Current, Floor, edge)
      /\ torn' = (torn /\ pieces = {})
      /\ UNCHANGED <<dirVars, answer, excluded, callVars, failed>>
  BY DEF ReadChunk, Current, Floor
<1>2. \E read \in {{i \in lines : Parses(Current, i, edge)}} :
      \E matches \in {IisMatches(Current, Inside(Current, read))} :
      \E rs \in {records \o Backwards(Current, matches, Room, edge)} : Turn(read, matches, rs)
  BY DEF ReadChunk, Current, Floor, Room
<1>3. {i \in lines : Parses(Current, i, edge)} = ReadNow
  BY DEF ReadNow, ReadOf, LinesOfChunk, Dropped
<1> HIDE DEF lines, Turn
<1>4. Turn(ReadNow, MatchedNow, RecordsNow)
  BY <1>2, <1>3 DEF MatchedNow, RecordsNow
<1> QED BY <1>1, <1>4 DEF Turn

\* The file that is open, and how far it is read.
LEMMA OpenFileFacts ==
    ASSUME LogShape, pc = "scanning"
    PROVE  /\ queue \in Seq(Nat) /\ queue # <<>> /\ Len(queue) \in Nat /\ 1 \in DOMAIN queue
           /\ Head(queue) = queue[1] /\ Head(queue) \in DOMAIN iis
           /\ Current \in Files /\ WellPlaced(Current)
           /\ Floor \in Nat /\ Floor <= cursor /\ (Floor # 0 => Floor < cursor)
           /\ cursor \in Nat /\ edge \in Nat /\ cursor <= edge /\ torn \in BOOLEAN
           /\ cursor - Floor <= Chunk
           /\ records \in Seq(LogRecords) /\ wanted \in Nat
           /\ Room \in Nat /\ Len(records) \in Nat /\ scanned \in Nat
<1>1. /\ queue \in Seq(Nat) /\ queue # <<>> /\ \A p \in DOMAIN queue : queue[p] \in DOMAIN iis
  BY DEF LogShape, ReaderInv, Scanning
<1>2. Len(queue) \in Nat /\ 1 \in DOMAIN queue /\ Head(queue) = queue[1]
  BY <1>1
<1>3. Head(queue) \in DOMAIN iis
  BY <1>1, <1>2
<1>4. Current \in Files /\ WellPlaced(Current)
  <2>1. iis \in Seq(Files) /\ \A k \in DOMAIN iis : WellPlaced(iis[k])
    BY DEF LogShape, FilesKept, WellKept
  <2> QED BY <2>1, <1>3 DEF Current
<1>5. /\ cursor \in Nat /\ edge \in Nat /\ cursor <= edge /\ torn \in BOOLEAN
      /\ records \in Seq(LogRecords) /\ wanted \in Nat /\ Len(records) <= wanted /\ scanned \in Nat
  BY DEF LogShape, LogTypeOK
<1>6. /\ Floor \in Nat /\ Floor <= cursor /\ (Floor # 0 => Floor < cursor) /\ cursor - Floor <= Chunk
  BY <1>5, LogConstants DEF Floor, LowerOf
<1>7. Len(records) \in Nat /\ Room \in Nat
  BY <1>5 DEF Room
<1> QED BY <1>1, <1>2, <1>3, <1>4, <1>5, <1>6, <1>7

\* What a turn reads are entries that stand in the file, and what it adds are records of them.
LEMMA TurnFacts ==
    ASSUME LogShape, ScanInv, pc = "scanning"
    PROVE  /\ ReadLines(Current, ReadNow) /\ ReadNow \in SUBSET (1..Len(Current.lines))
           /\ MatchedNow \subseteq ReadNow /\ MatchedNow \in SUBSET (1..Len(Current.lines))
           /\ \A i \in ReadNow : IsWhole(IisRecord(Current, i, edge))
           /\ Cardinality(MatchedNow) \in Nat
           /\ RecordsNow \in Seq(LogRecords)
           /\ Len(RecordsNow) = Len(records) + LowerOf(Room, Cardinality(MatchedNow))
           /\ \A m \in 1..Len(records) : m \in DOMAIN RecordsNow /\ RecordsNow[m] = records[m]
           /\ \A m \in DOMAIN RecordsNow :
                 m \in 1..Len(records) \/ \E i \in MatchedNow : RecordsNow[m] = IisRecord(Current, i, edge)
           /\ \A i \in MatchedNow :
                 \/ \E m \in DOMAIN RecordsNow : RecordsNow[m] = IisRecord(Current, i, edge)
                 \/ /\ Cardinality(MatchedNow) > Room
                    /\ \A m \in DOMAIN RecordsNow :
                          \/ m \in 1..Len(records)
                          \/ \E j \in MatchedNow : j > i /\ RecordsNow[m] = IisRecord(Current, j, edge)
<1> DEFINE f == Current
           new == Backwards(f, MatchedNow, Room, edge)
           few == LowerOf(Room, Cardinality(MatchedNow))
<1>1. /\ f \in Files /\ WellPlaced(f) /\ Floor \in Nat /\ edge \in Nat /\ torn \in BOOLEAN
      /\ Room \in Nat /\ records \in Seq(LogRecords) /\ Len(records) \in Nat
  BY OpenFileFacts
<1>2. Sound(f, edge, torn)
  BY DEF ScanInv, Current
<1>3. \A i \in ReadNow : /\ i \in 1..Len(f.lines) /\ LineAt(f, i) = f.lines[i]
                         /\ f.lines[i].kind = "entry" /\ IsWhole(IisRecord(f, i, edge))
  <2> SUFFICES ASSUME NEW i \in ReadNow
               PROVE  /\ i \in 1..Len(f.lines) /\ LineAt(f, i) = f.lines[i]
                      /\ f.lines[i].kind = "entry" /\ IsWhole(IisRecord(f, i, edge))
    OBVIOUS
  <2>1. i \in LinesOfChunk(f, Floor, edge, torn) /\ Parses(f, i, edge)
    BY DEF ReadNow, ReadOf
  <2> HIDE DEF f
  <2> QED BY <1>1, <1>2, <2>1, ReadsWhole
<1>4. MatchedNow \subseteq ReadNow
  BY DEF MatchedNow, IisMatches, Inside
<1>5. MatchedNow \in SUBSET (1..Len(f.lines))
  BY <1>3, <1>4
<1> HIDE DEF f
<1>6. /\ Cardinality(MatchedNow) \in Nat /\ few \in Nat
      /\ DOMAIN new = 1..few /\ new \in Seq(LogRecords) /\ Len(new) = few
      /\ \A k \in 1..few : \E i \in MatchedNow : new[k] = IisRecord(f, i, edge)
      /\ \A i \in MatchedNow :
            \/ \E k \in 1..few : new[k] = IisRecord(f, i, edge)
            \/ /\ Cardinality(MatchedNow) > Room
               /\ \A k \in 1..few : \E j \in MatchedNow : j > i /\ new[k] = IisRecord(f, j, edge)
  BY <1>1, <1>5, BackwardsOf
<1>7. RecordsNow = records \o new
  BY DEF RecordsNow, f
<1> HIDE DEF new, few
<1>8. /\ RecordsNow \in Seq(LogRecords) /\ Len(RecordsNow) = Len(records) + few
      /\ DOMAIN RecordsNow = 1..(Len(records) + few)
      /\ \A m \in 1..Len(records) : RecordsNow[m] = records[m]
      /\ \A m \in 1..few : RecordsNow[Len(records) + m] = new[m]
  <2>1. /\ records \o new \in Seq(LogRecords) /\ Len(records \o new) = Len(records) + Len(new)
        /\ \A i \in 1..Len(records) + Len(new) :
              (records \o new)[i] = IF i <= Len(records) THEN records[i] ELSE new[i - Len(records)]
    BY <1>1, <1>6, ConcatProperties
  <2>2. /\ RecordsNow \in Seq(LogRecords) /\ Len(RecordsNow) = Len(records) + few
        /\ \A i \in 1..(Len(records) + few) :
              RecordsNow[i] = IF i <= Len(records) THEN records[i] ELSE new[i - Len(records)]
    BY <2>1, <1>6, <1>7
  <2>3. DOMAIN RecordsNow = 1..(Len(records) + few)
    BY <2>2, LenProperties
  <2>4. \A m \in 1..Len(records) : m \in 1..(Len(records) + few) /\ m <= Len(records)
    BY <1>1, <1>6
  <2>5. \A m \in 1..few : /\ Len(records) + m \in 1..(Len(records) + few)
                           /\ ~(Len(records) + m <= Len(records))
                           /\ (Len(records) + m) - Len(records) = m
    BY <1>1, <1>6
  <2> QED BY <2>2, <2>3, <2>4, <2>5
<1>9. ASSUME NEW m \in DOMAIN RecordsNow, m \notin 1..Len(records)
      PROVE  \E i \in MatchedNow : RecordsNow[m] = IisRecord(f, i, edge)
  <2>1. m - Len(records) \in 1..few /\ Len(records) + (m - Len(records)) = m
    BY <1>1, <1>6, <1>8, <1>9
  <2>2. RecordsNow[m] = new[m - Len(records)]
    BY <2>1, <1>8
  <2> QED BY <2>1, <2>2, <1>6
<1>10. \A m \in 1..Len(records) : m \in DOMAIN RecordsNow
  BY <1>1, <1>6, <1>8
<1>11. ASSUME NEW i \in MatchedNow
       PROVE  \/ \E m \in DOMAIN RecordsNow : RecordsNow[m] = IisRecord(f, i, edge)
              \/ /\ Cardinality(MatchedNow) > Room
                 /\ \A m \in DOMAIN RecordsNow :
                       \/ m \in 1..Len(records)
                       \/ \E j \in MatchedNow : j > i /\ RecordsNow[m] = IisRecord(f, j, edge)
  <2>1. ASSUME NEW k \in 1..few
        PROVE  Len(records) + k \in DOMAIN RecordsNow /\ RecordsNow[Len(records) + k] = new[k]
    BY <1>1, <1>6, <1>8
  <2>2. ASSUME NEW m \in DOMAIN RecordsNow, m \notin 1..Len(records)
        PROVE  \E k \in 1..few : RecordsNow[m] = new[k]
    <3>1. m - Len(records) \in 1..few /\ Len(records) + (m - Len(records)) = m
      BY <1>1, <1>6, <1>8, <2>2
    <3> QED BY <3>1, <2>1
  <2>3. CASE \E k \in 1..few : new[k] = IisRecord(f, i, edge)
    BY <2>1, <2>3
  <2>4. CASE /\ Cardinality(MatchedNow) > Room
             /\ \A k \in 1..few : \E j \in MatchedNow : j > i /\ new[k] = IisRecord(f, j, edge)
    BY <2>2, <2>4
  <2> QED BY <2>3, <2>4, <1>6
<1> QED BY <1>3, <1>4, <1>5, <1>6, <1>8, <1>9, <1>10, <1>11 DEF f, few, ReadLines

-----------------------------------------------------------------------------
(* The shape of the state is kept.                                          *)

\* The shape holds at the start.
LEMMA ShapeInit == LogInit => LogShape
<1> SUFFICES ASSUME LogInit PROVE LogShape
  OBVIOUS
<1>1. PICK d \in Directories : iis = d.iis /\ warn = d.warn /\ enabled = d.enabled /\ ready = d.ready
  BY DEF LogInit
<1>2. /\ d.iis \in Seq(Files) /\ d.warn \in Seq(Files)
      /\ \A k \in DOMAIN d.iis : WellPlaced(d.iis[k])
      /\ \A k \in DOMAIN d.warn : WellPlaced(d.warn[k])
      /\ InOrder(d.iis)
      /\ d.enabled \subseteq Sources /\ d.ready \subseteq Sources
  BY DirectoryAssumption
<1>3. FilesKept
  BY <1>1, <1>2 DEF FilesKept, WellKept
<1>4. LogTypeOK
  <2>1. /\ iis \in Seq(Files) /\ warn \in Seq(Files) /\ enabled \subseteq Sources /\ ready \subseteq Sources
    BY <1>1, <1>2
  <2>2. /\ pc = "idle" /\ appends = 0 /\ late = FALSE /\ torn = FALSE /\ cursor = 0 /\ edge = 0
        /\ wanted = 0 /\ scanned = 0 /\ failed = {}
    BY DEF LogInit
  <2>3. 0 \in 0..MaxAppends /\ excluded \in [Sources -> Nat]
    BY LogConstants DEF LogInit
  <2>4. /\ records \in Seq(LogRecords)
        /\ found \in Seq([records: Seq(LogRecords), truncated: BOOLEAN, total: Nat \cup {NoTotal}])
    BY EmptySeq DEF LogInit
  <2>5. /\ pc \in {"idle", "selecting", "nextFile", "scanning", "locating", "warning", "merging", "done"}
        /\ pc \notin {"nextFile", "scanning"} /\ pc # "warning"
    BY <2>2
  <2>6. /\ appends \in 0..MaxAppends /\ late \in BOOLEAN /\ torn \in BOOLEAN
        /\ cursor \in Nat /\ edge \in Nat /\ cursor <= edge /\ wanted \in Nat /\ scanned \in Nat
        /\ failed \subseteq Sources
    <3>1. appends \in 0..MaxAppends
      BY <2>2, <2>3
    <3>2. late \in BOOLEAN /\ torn \in BOOLEAN /\ failed \subseteq Sources
      BY <2>2
    <3>3. cursor \in Nat /\ edge \in Nat /\ cursor <= edge /\ wanted \in Nat /\ scanned \in Nat
      BY <2>2
    <3> QED BY <3>1, <3>2, <3>3
  <2> QED BY <2>1, <2>3, <2>4, <2>5, <2>6 DEF LogTypeOK
<1>5. ReaderInv
  BY DEF LogInit, ReaderInv, IisPhases, WarnPhases, Scanning
<1> QED BY <1>3, <1>4, <1>5 DEF LogShape

\* Ask keeps the shape: a reader starts only for a source that is configured.
LEMMA AskShape == ASSUME LogShape, FilesKept', Ask PROVE LogShape'
<1>1. /\ pc = "idle" /\ wanted' \in Limits /\ found = <<>> /\ answer = NoAnswer
      /\ UNCHANGED <<iis, warn, enabled, ready, appends, excluded, cursor, edge, torn, found, asked, failed>>
  BY DEF Ask, LogShape, ReaderInv, dirVars, fileVars
<1>2. \/ pc' = "done" /\ UNCHANGED <<queue, scanned, records, late>>
      \/ /\ pc' = "selecting" /\ "iis" \in enabled /\ wanted' \in 1..MaxLimit /\ answer' = NoAnswer
         /\ queue' = <<>> /\ scanned' = 0 /\ records' = <<>> /\ late' = FALSE
      \/ /\ pc' = "locating" /\ "iis" \notin enabled /\ enabled # {} /\ wanted' \in 1..MaxLimit
         /\ answer' = NoAnswer
         /\ queue' = <<>> /\ scanned' = 0 /\ records' = <<>> /\ late' = FALSE
  BY <1>1 DEF Ask, Reply, StartReader
<1>3. wanted' \in Nat
  BY <1>1, LogAssumption
<1>4. LogTypeOK'
  <2>1. scanned' \in Nat /\ records' \in Seq(LogRecords) /\ late' \in BOOLEAN
    <3>1. scanned \in Nat /\ records \in Seq(LogRecords) /\ late \in BOOLEAN
      BY DEF LogShape, LogTypeOK
    <3>2. CASE UNCHANGED <<queue, scanned, records, late>>
      BY <3>1, <3>2
    <3>3. CASE queue' = <<>> /\ scanned' = 0 /\ records' = <<>> /\ late' = FALSE
      BY <3>3, EmptySeq
    <3> QED BY <3>2, <3>3, <1>2
  <2> QED BY <1>1, <1>2, <1>3, <2>1 DEF LogShape, LogTypeOK
<1>5. enabled \subseteq {"iis", "warning"}
  BY DEF LogShape, LogTypeOK, Sources
<1>6. ReaderInv'
  BY <1>1, <1>2, <1>5 DEF ReaderInv, IisPhases, WarnPhases, Scanning
<1> QED BY <1>4, <1>6 DEF LogShape

\* The candidates of the IIS reader.
LEMMA CandidatesFacts ==
    ASSUME LogShape
    PROVE  /\ Len(iis) \in Nat /\ IisCandidates \in SUBSET (0..Len(iis)) /\ IisCandidates \subseteq DOMAIN iis
           /\ DOMAIN iis = 1..Len(iis)
<1>1. iis \in Seq(Files)
  BY DEF LogShape, LogTypeOK
<1>2. Len(iis) \in Nat /\ DOMAIN iis = 1..Len(iis)
  BY <1>1
<1> QED BY <1>2 DEF IisCandidates

\* SelectCandidates keeps the shape: the queue holds files, newest first.
LEMMA SelectShape == ASSUME LogShape, FilesKept', SelectCandidates PROVE LogShape'
<1> DEFINE few == LowerOf(IisMaxFiles, Cardinality(IisCandidates))
<1>1. /\ pc = "selecting" /\ pc' = "nextFile"
      /\ queue' = Listing(IisCandidates, IisMaxFiles)
      /\ excluded' = [excluded EXCEPT !["iis"] = Beyond(IisCandidates, IisMaxFiles)]
      /\ UNCHANGED <<iis, warn, enabled, ready, appends, cursor, edge, torn, answer, scanned, records,
                     wanted, late, found, failed>>
  BY DEF SelectCandidates, dirVars, fileVars
<1>2. /\ Beyond(IisCandidates, IisMaxFiles) \in Nat
      /\ queue' \in Seq(IisCandidates) /\ Len(queue') = few /\ few \in Nat
      /\ \A k \in 1..few : queue'[k] = Descending(IisCandidates)[k] /\ queue'[k] \in IisCandidates
      /\ \A k, m \in 1..few : k < m => Descending(IisCandidates)[k] > Descending(IisCandidates)[m]
  <2> DEFINE S == IisCandidates
             listed == Listing(S, IisMaxFiles)
  <2>1. Len(iis) \in Nat /\ S \in SUBSET (0..Len(iis)) /\ IisMaxFiles \in Nat
    BY CandidatesFacts, LogConstants
  <2> HIDE DEF S
  <2>2. /\ Beyond(S, IisMaxFiles) \in Nat
        /\ listed \in Seq(S) /\ Len(listed) = LowerOf(IisMaxFiles, Cardinality(S))
        /\ LowerOf(IisMaxFiles, Cardinality(S)) \in Nat
        /\ \A k \in 1..LowerOf(IisMaxFiles, Cardinality(S)) :
              listed[k] = Descending(S)[k] /\ Descending(S)[k] \in S
        /\ \A k, m \in 1..LowerOf(IisMaxFiles, Cardinality(S)) :
              k < m => Descending(S)[k] > Descending(S)[m]
    BY <2>1, ListingOf
  <2>3. queue' = listed
    BY <1>1 DEF S
  <2> HIDE DEF listed
  <2> QED BY <2>2, <2>3 DEF S
<1> HIDE DEF few
<1>3. DOMAIN queue' = 1..few
  BY <1>2
<1>4. queue' \in Seq(Nat)
  <2>1. IisCandidates \subseteq Nat
    BY CandidatesFacts
  <2> QED BY <2>1, <1>2, SeqMonotonic
<1>5. excluded' \in [Sources -> Nat]
  BY <1>1, <1>2 DEF LogShape, LogTypeOK, Sources
<1>6. records = <<>> /\ scanned = 0 /\ found = <<>> /\ "iis" \in enabled /\ wanted \in 1..MaxLimit
      /\ answer = NoAnswer
  BY <1>1 DEF LogShape, ReaderInv, IisPhases
<1>7. LogTypeOK'
  <2>1. Len(records) <= wanted /\ scanned < IisMaxScan + Chunk
    BY <1>6, LogConstants
  <2> QED BY <1>1, <1>5, <2>1 DEF LogShape, LogTypeOK
<1>8. /\ \A p \in DOMAIN queue' : queue'[p] \in DOMAIN iis'
      /\ \A p, q \in DOMAIN queue' : p < q => queue'[p] > queue'[q]
  <2>1. \A p \in DOMAIN queue' : queue'[p] \in DOMAIN iis'
    BY <1>1, <1>2, <1>3, CandidatesFacts
  <2>2. \A p, q \in DOMAIN queue' : p < q => queue'[p] > queue'[q]
    BY <1>2, <1>3
  <2> QED BY <2>1, <2>2
<1>9. ReaderInv'
  BY <1>1, <1>4, <1>6, <1>8 DEF ReaderInv, IisPhases, WarnPhases, Scanning
<1> QED BY <1>7, <1>9 DEF LogShape

\* A step to an answer.
LEMMA ReplyShape ==
    ASSUME LogShape, FilesKept', pc' = "done", failed' \subseteq Sources,
           UNCHANGED <<dirVars, fileVars, searchVars, callVars, late, found>>
    PROVE  LogShape'
<1>1. LogTypeOK'
  BY DEF LogShape, LogTypeOK, dirVars, fileVars, searchVars, callVars
<1>2. ReaderInv'
  BY DEF ReaderInv, IisPhases, WarnPhases, Scanning
<1> QED BY <1>1, <1>2 DEF LogShape

\* The end of a scan keeps the shape.
LEMMA EndShape == ASSUME LogShape, FilesKept', EndOfScan \/ StopInFile PROVE LogShape'
<1>1. /\ pc \in Scanning
      /\ \E stopped \in BOOLEAN : FinishIis(records, stopped, FALSE)
      /\ UNCHANGED <<dirVars, answer, fileVars, excluded, callVars, failed>>
  BY DEF EndOfScan, StopInFile, Scanning
<1>2. PICK stopped \in BOOLEAN : FinishIis(records, stopped, FALSE)
  BY <1>1
<1> DEFINE truncated == stopped \/ (excluded["iis"] > 0 /\ ~FALSE)
<1>3. Finish("iis", records, truncated, IF truncated THEN NoTotal ELSE Len(records))
  BY <1>2 DEF FinishIis
<1>4. records \in Seq(LogRecords) /\ Len(records) \in Nat /\ truncated \in BOOLEAN
  BY DEF LogShape, LogTypeOK
<1>5. cursor \in Nat /\ edge \in Nat /\ cursor <= edge /\ torn \in BOOLEAN
      /\ UNCHANGED <<cursor, edge, torn>>
  BY <1>1 DEF LogShape, LogTypeOK, fileVars
<1> HIDE DEF truncated
<1>6. (IF truncated THEN NoTotal ELSE Len(records)) \in Nat \cup {NoTotal}
  BY <1>4
<1> QED BY <1>1, <1>3, <1>4, <1>5, <1>6, FinishShape DEF Sources

\* What is left of a queue without its head.
LEMMA TailOfQueue ==
    ASSUME NEW S, NEW q \in Seq(S), q # <<>>
    PROVE  /\ Tail(q) \in Seq(S) /\ Len(q) \in Nat /\ DOMAIN q = 1..Len(q)
           /\ \A p \in DOMAIN Tail(q) : p + 1 \in DOMAIN q /\ Tail(q)[p] = q[p + 1]
           /\ \A p \in DOMAIN q : p # 1 => p - 1 \in DOMAIN Tail(q) /\ Tail(q)[p - 1] = q[p]
           /\ (\A p, r \in DOMAIN q : p < r => q[p] > q[r]) =>
                 \A p, r \in DOMAIN Tail(q) : p < r => Tail(q)[p] > Tail(q)[r]
<1>1. /\ Len(q) \in Nat /\ DOMAIN q = 1..Len(q) /\ Len(q) # 0
  BY EmptySeq, LenProperties
<1>2. /\ Tail(q) \in Seq(S) /\ Len(Tail(q)) = Len(q) - 1
      /\ \A p \in 1..Len(Tail(q)) : Tail(q)[p] = q[p + 1]
  BY HeadTailProperties
<1>3. DOMAIN Tail(q) = 1..(Len(q) - 1)
  BY <1>2, LenProperties
<1>4. \A p \in DOMAIN Tail(q) : p + 1 \in DOMAIN q /\ Tail(q)[p] = q[p + 1]
  BY <1>1, <1>2, <1>3
<1>5. ASSUME NEW p \in DOMAIN q, p # 1 PROVE p - 1 \in DOMAIN Tail(q) /\ Tail(q)[p - 1] = q[p]
  <2>1. p - 1 \in DOMAIN Tail(q) /\ (p - 1) + 1 = p
    BY <1>1, <1>3, <1>5
  <2> QED BY <2>1, <1>4
<1>6. ASSUME \A p, r \in DOMAIN q : p < r => q[p] > q[r],
             NEW p \in DOMAIN Tail(q), NEW r \in DOMAIN Tail(q), p < r
      PROVE  Tail(q)[p] > Tail(q)[r]
  <2>1. p + 1 < r + 1
    BY <1>1, <1>3, <1>6
  <2> QED BY <2>1, <1>4, <1>6
<1> QED BY <1>1, <1>2, <1>4, <1>5, <1>6

\* OpenFile keeps the shape: a scan starts at the end of a file of the queue.
LEMMA OpenShape == ASSUME LogShape, FilesKept', OpenFile PROVE LogShape'
<1>1. /\ pc = "nextFile" /\ queue # <<>> /\ queue \in Seq(Nat)
      /\ \A p \in DOMAIN queue : queue[p] \in DOMAIN iis
      /\ \A p, q \in DOMAIN queue : p < q => queue[p] > queue[q]
      /\ found = <<>> /\ "iis" \in enabled /\ wanted \in 1..MaxLimit /\ answer = NoAnswer
  BY DEF OpenFile, LogShape, ReaderInv, IisPhases, Scanning
<1>2. UNCHANGED <<iis, warn, enabled, ready, appends, answer, excluded, scanned, records, wanted,
                  late, found>>
  BY DEF OpenFile, dirVars, callVars
<1>3. \/ /\ queue' = Tail(queue) /\ failed' = failed \cup {"iis"} /\ pc' = pc
         /\ UNCHANGED <<cursor, edge, torn>>
      \/ /\ pc' = "scanning" /\ UNCHANGED <<queue, failed>>
         /\ cursor' = Size(iis[Head(queue)]) /\ edge' = Size(iis[Head(queue)])
         /\ torn' = Unfinished(iis[Head(queue)])
  BY DEF OpenFile, fileVars
<1>4. Size(iis[Head(queue)]) \in Nat
  <2>1. Head(queue) \in DOMAIN iis
    BY <1>1
  <2>2. iis[Head(queue)] \in Files /\ WellPlaced(iis[Head(queue)])
    BY <2>1 DEF LogShape, FilesKept, WellKept
  <2> QED BY <2>2, Places
<1>5. LogTypeOK'
  <2>1. cursor' \in Nat /\ edge' \in Nat /\ cursor' <= edge' /\ torn' \in BOOLEAN
    <3>1. cursor \in Nat /\ edge \in Nat /\ cursor <= edge /\ torn \in BOOLEAN
      BY DEF LogShape, LogTypeOK
    <3>2. Unfinished(iis[Head(queue)]) \in BOOLEAN
      BY DEF Unfinished
    <3> QED BY <3>1, <3>2, <1>3, <1>4
  <2>2. failed' \subseteq Sources /\ pc' \in {"nextFile", "scanning"}
    BY <1>1, <1>3 DEF LogShape, LogTypeOK, Sources
  <2> QED BY <1>1, <1>2, <2>1, <2>2 DEF LogShape, LogTypeOK
<1>6. /\ queue' \in Seq(Nat)
      /\ \A p \in DOMAIN queue' : queue'[p] \in DOMAIN iis'
      /\ \A p, q \in DOMAIN queue' : p < q => queue'[p] > queue'[q]
  <2>1. CASE queue' = queue
    BY <2>1, <1>1, <1>2
  <2>2. CASE queue' = Tail(queue)
    BY <2>2, <1>1, <1>2, TailOfQueue
  <2> QED BY <2>1, <2>2, <1>3
<1>7. pc' = "scanning" => queue' # <<>>
  BY <1>1, <1>3
<1>8. ReaderInv'
  BY <1>1, <1>2, <1>3, <1>6, <1>7 DEF ReaderInv, IisPhases, WarnPhases, Scanning
<1> QED BY <1>5, <1>8 DEF LogShape

\* ReadFails keeps the shape: the file leaves the queue.
LEMMA ReadFailsShape == ASSUME LogShape, FilesKept', ReadFails PROVE LogShape'
<1>1. /\ pc = "scanning" /\ queue # <<>> /\ queue \in Seq(Nat)
      /\ \A p \in DOMAIN queue : queue[p] \in DOMAIN iis
      /\ \A p, q \in DOMAIN queue : p < q => queue[p] > queue[q]
      /\ found = <<>> /\ "iis" \in enabled /\ wanted \in 1..MaxLimit /\ answer = NoAnswer
  BY DEF ReadFails, LogShape, ReaderInv, IisPhases, Scanning
<1>2. /\ UNCHANGED <<iis, warn, enabled, ready, appends, answer, excluded, scanned, records, wanted,
                     late, found, cursor, edge, torn>>
      /\ pc' = "nextFile" /\ queue' = Tail(queue) /\ failed' = failed \cup {"iis"}
  BY DEF ReadFails, dirVars, callVars, fileVars
<1>3. LogTypeOK'
  BY <1>1, <1>2 DEF LogShape, LogTypeOK, Sources
<1>4. /\ queue' \in Seq(Nat)
      /\ \A p \in DOMAIN queue' : queue'[p] \in DOMAIN iis'
      /\ \A p, q \in DOMAIN queue' : p < q => queue'[p] > queue'[q]
  BY <1>1, <1>2, TailOfQueue
<1>5. ReaderInv'
  BY <1>1, <1>2, <1>4 DEF ReaderInv, IisPhases, WarnPhases, Scanning
<1> QED BY <1>3, <1>5 DEF LogShape

\* ReadChunk keeps the shape: the scan goes down, the carry ends above it, the limit is kept.
LEMMA ReadShape == ASSUME LogShape, ScanInv, FilesKept', ReadChunk PROVE LogShape'
<1>1. /\ pc = "scanning" /\ cursor' = Floor
      /\ edge' = IF Floor = 0 THEN 0 ELSE Carry(Current, Floor, edge)
      /\ torn' = (torn /\ Pieces(Current, Floor, edge) = {})
      /\ UNCHANGED <<dirVars, answer, excluded, callVars, failed>>
      /\ ~AtBound(IisMaxScan)
  BY ChunkStep
<1>2. /\ queue \in Seq(Nat) /\ queue # <<>>
      /\ Current \in Files /\ WellPlaced(Current)
      /\ Floor \in Nat /\ Floor <= cursor /\ (Floor # 0 => Floor < cursor)
      /\ cursor \in Nat /\ edge \in Nat /\ cursor <= edge /\ torn \in BOOLEAN
      /\ cursor - Floor <= Chunk
      /\ Room \in Nat /\ Len(records) \in Nat /\ wanted \in Nat /\ scanned \in Nat
  BY <1>1, OpenFileFacts
<1>3. /\ RecordsNow \in Seq(LogRecords) /\ Cardinality(MatchedNow) \in Nat
      /\ Len(RecordsNow) = Len(records) + LowerOf(Room, Cardinality(MatchedNow))
  BY <1>1, TurnFacts
<1>4. cursor' \in Nat /\ edge' \in Nat /\ cursor' <= edge' /\ torn' \in BOOLEAN
  <2>1. CASE Floor = 0
    BY <2>1, <1>1, <1>2
  <2>2. CASE Floor # 0
    <3>1. 0 < Floor /\ Floor < edge
      BY <2>2, <1>2
    <3>2. Carry(Current, Floor, edge) \in Nat /\ Floor <= Carry(Current, Floor, edge)
      BY <3>1, <1>2, LogConstants, CarryRange
    <3> QED BY <2>2, <3>2, <1>1, <1>2
  <2> QED BY <2>1, <2>2
<1>5. ASSUME NEW stopped \in BOOLEAN, NEW boundary \in BOOLEAN, FinishIis(RecordsNow, stopped, boundary)
      PROVE  LogShape'
  <2> DEFINE truncated == stopped \/ (excluded["iis"] > 0 /\ ~boundary)
  <2>1. Finish("iis", RecordsNow, truncated, IF truncated THEN NoTotal ELSE Len(RecordsNow))
    BY <1>5 DEF FinishIis
  <2>2. Len(RecordsNow) \in Nat /\ truncated \in BOOLEAN
    BY <1>3
  <2> HIDE DEF truncated
  <2>3. (IF truncated THEN NoTotal ELSE Len(RecordsNow)) \in Nat \cup {NoTotal}
    BY <2>2
  <2> QED BY <1>1, <1>3, <1>4, <2>1, <2>2, <2>3, FinishShape DEF Sources, Scanning
<1>6. CASE /\ Cardinality(MatchedNow) < Room
           /\ records' = RecordsNow /\ scanned' = scanned + cursor - Floor
           /\ pc' = (IF Floor = 0 THEN "nextFile" ELSE "scanning")
           /\ queue' = (IF Floor = 0 THEN Tail(queue) ELSE queue)
           /\ UNCHANGED <<late, found>>
  <2>1. pc' \in {"nextFile", "scanning"}
    BY <1>6
  <2>2. /\ UNCHANGED <<iis, warn, enabled, ready, appends, answer, excluded, wanted, failed, late, found>>
    BY <1>1, <1>6 DEF dirVars, callVars
  <2>3. scanned' \in Nat /\ scanned' < IisMaxScan + Chunk
    <3>1. scanned < IisMaxScan
      BY <1>1, <1>2, LogConstants DEF AtBound
    <3> QED BY <3>1, <1>2, <1>6, LogConstants
  <2>4. Len(records') <= wanted'
    <3>1. Len(records') <= Len(records) + Cardinality(MatchedNow)
      BY <1>2, <1>3, <1>6 DEF LowerOf
    <3>2. Len(records) + Cardinality(MatchedNow) < wanted
      BY <1>2, <1>3, <1>6 DEF Room
    <3>3. Len(records') \in Nat
      BY <1>3, <1>6
    <3> QED BY <3>1, <3>2, <3>3, <2>2, <1>2, <1>3
  <2>5. LogTypeOK'
    BY <1>3, <1>4, <1>6, <2>1, <2>2, <2>3, <2>4 DEF LogShape, LogTypeOK
  <2>6. /\ queue' \in Seq(Nat)
        /\ \A p \in DOMAIN queue' : queue'[p] \in DOMAIN iis'
        /\ \A p, q \in DOMAIN queue' : p < q => queue'[p] > queue'[q]
        /\ pc' = "scanning" => queue' # <<>>
    <3>1. /\ \A p \in DOMAIN queue : queue[p] \in DOMAIN iis
          /\ \A p, q \in DOMAIN queue : p < q => queue[p] > queue[q]
      BY <1>1 DEF LogShape, ReaderInv, Scanning
    <3>2. queue' = queue \/ (queue' = Tail(queue) /\ pc' = "nextFile")
      BY <1>6
    <3>3. CASE queue' = queue
      BY <3>1, <3>3, <2>2, <1>2
    <3>4. CASE queue' = Tail(queue) /\ pc' = "nextFile"
      BY <3>1, <3>4, <2>2, <1>2, TailOfQueue
    <3> QED BY <3>2, <3>3, <3>4
  <2>7. found = <<>> /\ "iis" \in enabled /\ wanted \in 1..MaxLimit /\ answer = NoAnswer
    BY <1>1 DEF LogShape, ReaderInv, IisPhases, Scanning
  <2>8. ReaderInv'
    BY <2>1, <2>2, <2>6, <2>7 DEF ReaderInv, IisPhases, WarnPhases, Scanning
  <2> QED BY <2>5, <2>8 DEF LogShape
<1> QED BY <1>5, <1>6, ChunkStep

-----------------------------------------------------------------------------
(* The streaming reader keeps the shape, and so do the writers.             *)

\* A function on the first numbers is a sequence.
LEMMA SeqOfFunction ==
    ASSUME NEW S, NEW n \in Nat, NEW f \in [1..n -> S]
    PROVE  f \in Seq(S) /\ Len(f) = n /\ DOMAIN f = 1..n
<1>1. f \in Seq(S)
  BY SeqDef
<1> QED BY <1>1, LenProperties

\* Locate keeps the shape: the queue holds warning files with their sizes.
LEMMA LocateShape == ASSUME LogShape, FilesKept', Locate PROVE LogShape'
<1> DEFINE S == 1..Len(warn)
           listed == Listing(S, WarnMaxFiles)
<1>1. /\ pc = "locating" /\ pc' = "warning"
      /\ queue' = [k \in 1..Len(listed) |-> [name |-> listed[k], size |-> Size(warn[listed[k]])]]
      /\ excluded' = [excluded EXCEPT !["warning"] = Beyond(S, WarnMaxFiles)]
      /\ UNCHANGED <<iis, warn, enabled, ready, appends, cursor, edge, torn, answer, scanned, records,
                     wanted, late, found, failed>>
  BY DEF Locate, dirVars, fileVars
<1>2. /\ Len(warn) \in Nat /\ DOMAIN warn = 1..Len(warn)
      /\ \A k \in 1..Len(warn) : warn[k] \in Files /\ WellPlaced(warn[k])
  BY DEF LogShape, FilesKept, WellKept
<1>3. /\ Beyond(S, WarnMaxFiles) \in Nat /\ listed \in Seq(S)
  <2>1. S \in SUBSET (0..Len(warn))
    BY <1>2
  <2> HIDE DEF S
  <2> QED BY <2>1, <1>2, LogConstants, ListingOf
<1> HIDE DEF listed
<1>4. /\ Len(listed) \in Nat
      /\ \A k \in 1..Len(listed) :
            listed[k] \in Nat /\ listed[k] \in DOMAIN warn /\ Size(warn[listed[k]]) \in Nat
  <2>1. Len(listed) \in Nat /\ \A k \in 1..Len(listed) : listed[k] \in S
    BY <1>3
  <2>2. \A n \in S : n \in Nat /\ n \in DOMAIN warn /\ Size(warn[n]) \in Nat
    <3> SUFFICES ASSUME NEW n \in S PROVE n \in Nat /\ n \in DOMAIN warn /\ Size(warn[n]) \in Nat
      OBVIOUS
    <3>1. warn[n] \in Files /\ WellPlaced(warn[n])
      BY <1>2
    <3> QED BY <3>1, <1>2, Places
  <2> HIDE DEF S
  <2> QED BY <2>1, <2>2
<1>5. queue' \in Seq([name: Nat, size: Nat])
  <2>1. queue' \in [1..Len(listed) -> [name: Nat, size: Nat]]
    BY <1>1, <1>4
  <2> QED BY <2>1, <1>4, SeqOfFunction
<1>6. \A p \in DOMAIN queue' : queue'[p].name \in DOMAIN warn'
  BY <1>1, <1>4
<1>7. excluded' \in [Sources -> Nat]
  BY <1>1, <1>3 DEF LogShape, LogTypeOK, Sources
<1>8. /\ records = <<>> /\ scanned = 0 /\ wanted \in 1..MaxLimit /\ answer = NoAnswer
      /\ "warning" \in enabled /\ Len(found) = IF "iis" \in enabled THEN 1 ELSE 0
  BY <1>1 DEF LogShape, ReaderInv, WarnPhases
<1>9. LogTypeOK'
  <2>1. Len(records) <= wanted /\ scanned <= WarnMaxScan
    BY <1>8, LogConstants
  <2> QED BY <1>1, <1>7, <2>1 DEF LogShape, LogTypeOK
<1>10. ReaderInv'
  BY <1>1, <1>5, <1>6, <1>8 DEF ReaderInv, IisPhases, WarnPhases, Scanning
<1> QED BY <1>9, <1>10 DEF LogShape

\* EndOfWarnings keeps the shape.
LEMMA EndOfWarningsShape == ASSUME LogShape, FilesKept', EndOfWarnings PROVE LogShape'
<1>1. /\ pc = "warning"
      /\ \E truncated \in BOOLEAN : Finish("warning", records, truncated, NoTotal)
      /\ UNCHANGED <<dirVars, answer, fileVars, excluded, callVars, failed>>
  BY DEF EndOfWarnings
<1>2. PICK truncated \in BOOLEAN : Finish("warning", records, truncated, NoTotal)
  BY <1>1
<1>3. records \in Seq(LogRecords) /\ NoTotal \in Nat \cup {NoTotal}
  BY DEF LogShape, LogTypeOK
<1>4. cursor' \in Nat /\ edge' \in Nat /\ cursor' <= edge' /\ torn' \in BOOLEAN
  BY <1>1 DEF LogShape, LogTypeOK, fileVars
<1> QED BY <1>1, <1>2, <1>3, <1>4, FinishShape DEF Sources

\* The records of the events that were taken.
LEMMA WarnRecordsOf ==
    ASSUME NEW events \in Seq(Events), NEW taken \in SUBSET (1..Len(events))
    PROVE  /\ WarnRecords(events, taken) \in Seq(LogRecords)
           /\ Len(WarnRecords(events, taken)) = Cardinality(taken \cap WarnMatches(events))
           /\ Cardinality(taken \cap WarnMatches(events)) \in Nat
           /\ \A k \in taken \cap WarnMatches(events) :
                 \E j \in 1..Len(WarnRecords(events, taken)) :
                    WarnRecords(events, taken)[j] = WarnRecord(events[k])
<1> DEFINE hits == taken \cap WarnMatches(events)
           n == Cardinality(hits)
           rs == WarnRecords(events, taken)
<1>1. /\ Len(events) \in Nat /\ IsFiniteSet(hits) /\ hits \in SUBSET Nat
      /\ hits \in SUBSET (1..Len(events))
  <2>1. Len(events) \in Nat /\ hits \in SUBSET (1..Len(events))
    <3>1. Len(events) \in Nat
      BY LenProperties
    <3>2. hits \subseteq taken
      OBVIOUS
    <3> HIDE DEF hits
    <3> QED BY <3>1, <3>2
  <2>2. IsFiniteSet(1..Len(events)) /\ \A k \in 1..Len(events) : k \in Nat
    BY <2>1, FS_Interval
  <2> HIDE DEF hits
  <2> QED BY <2>1, <2>2, FS_Subset
<1>2. rs = [k \in 1..n |-> WarnRecord(events[Descending(hits)[n + 1 - k]])]
  BY DEF WarnRecords
<1>3. /\ n \in Nat
      /\ \A k \in 1..n : Descending(hits)[k] \in hits
      /\ \A c \in hits : \E k \in 1..n : Descending(hits)[k] = c
  <2> HIDE DEF hits
  <2> QED BY <1>1, DescendingOrder
<1>4. \A c \in hits : WarnRecord(events[c]) \in LogRecords
  <2> SUFFICES ASSUME NEW c \in hits PROVE WarnRecord(events[c]) \in LogRecords
    OBVIOUS
  <2>1. events[c] \in Events
    BY <1>1
  <2> QED BY <2>1 DEF WarnRecord, LogRecords, Events
<1> HIDE DEF hits, n, rs
<1>5. \A k \in 1..n : n + 1 - k \in 1..n /\ n + 1 - (n + 1 - k) = k
  BY <1>3
<1>6. rs \in [1..n -> LogRecords]
  <2>1. \A k \in 1..n : WarnRecord(events[Descending(hits)[n + 1 - k]]) \in LogRecords
    BY <1>3, <1>4, <1>5
  <2> QED BY <2>1, <1>2
<1>7. rs \in Seq(LogRecords) /\ Len(rs) = n
  BY <1>3, <1>6, SeqDef, LenProperties
<1>8. ASSUME NEW c \in hits PROVE \E j \in 1..n : rs[j] = WarnRecord(events[c])
  <2>1. PICK k \in 1..n : Descending(hits)[k] = c
    BY <1>3
  <2>2. n + 1 - k \in 1..n /\ rs[n + 1 - k] = WarnRecord(events[Descending(hits)[n + 1 - (n + 1 - k)]])
    BY <1>2, <1>5
  <2> QED BY <2>1, <2>2, <1>5
<1> QED BY <1>3, <1>7, <1>8 DEF hits, n, rs

\* The file that is next for the streaming reader.
LEMMA NextWarningFile ==
    ASSUME LogShape, pc = "warning", queue # <<>>
    PROVE  /\ queue \in Seq([name: Nat, size: Nat]) /\ 1 \in DOMAIN queue /\ Head(queue) = queue[1]
           /\ Head(queue).size \in Nat /\ Head(queue).name \in DOMAIN warn
           /\ warn[Head(queue).name] \in Files /\ WellPlaced(warn[Head(queue).name])
<1>1. /\ queue \in Seq([name: Nat, size: Nat])
      /\ \A p \in DOMAIN queue : queue[p].name \in DOMAIN warn
  BY DEF LogShape, ReaderInv
<1>2. 1 \in DOMAIN queue /\ Head(queue) = queue[1] /\ Head(queue) \in [name: Nat, size: Nat]
  <2> DEFINE S == [name: Nat, size: Nat]
  <2>1. queue \in Seq(S)
    BY <1>1
  <2> HIDE DEF S
  <2>2. 1 \in DOMAIN queue /\ Head(queue) = queue[1] /\ Head(queue) \in S
    BY <2>1, EmptySeq, LenProperties, HeadTailProperties
  <2> QED BY <2>2 DEF S
<1>3. warn \in Seq(Files) /\ \A k \in DOMAIN warn : WellPlaced(warn[k])
  BY DEF LogShape, FilesKept, WellKept
<1>4. Head(queue).name \in DOMAIN warn /\ Head(queue).size \in Nat
  BY <1>1, <1>2
<1>5. warn[Head(queue).name] \in Files /\ WellPlaced(warn[Head(queue).name])
  BY <1>3, <1>4
<1> QED BY <1>1, <1>2, <1>4, <1>5

\* One warning file is read: whatever the stream gave, the clock allowed and the limit took.
WarnRead(lines, upto) ==
    LET entry     == Head(queue)
        remaining == WarnMaxScan - scanned
        spent     == scanned + LowerOf(entry.size, remaining)
        events    == EventsOf(lines)
        taken     == Taken(events, LowerOf(upto, Len(events)), wanted - Len(records))
        rs        == records \o WarnRecords(events, taken)
    IN  \/ /\ pc' = "done" /\ answer'.kind = "error"
           /\ UNCHANGED <<searchVars, late, found>>
        \/ /\ UNCHANGED <<answer, excluded>>
           /\ Finish("warning", rs, TRUE, NoTotal)
        \/ /\ UNCHANGED <<answer, excluded>>
           /\ upto > Len(events) /\ Len(rs) < wanted /\ entry.size <= remaining
           /\ spent < WarnMaxScan
           /\ pc' = pc /\ queue' = Tail(queue) /\ scanned' = spent /\ records' = rs
           /\ UNCHANGED <<late, found>>

\* ReadWarnings in terms of what the stream gave and the clock allowed.
LEMMA WarnStep ==
    ASSUME LogShape, ReadWarnings
    PROVE  /\ pc = "warning" /\ queue # <<>> /\ scanned < WarnMaxScan /\ scanned \in Nat
           /\ Len(records) < wanted /\ Len(records) \in Nat
           /\ UNCHANGED <<dirVars, fileVars, callVars, failed>>
           /\ \E lines \in Streams(warn[Head(queue).name], WarnMaxScan - scanned) :
              \E upto \in 0..(Len(EventsOf(lines)) + 1) :
                 /\ EventsOf(lines) \in Seq(Events) /\ lines \in Seq(Lines)
                 /\ WarnRead(lines, upto)
<1>1. /\ pc = "warning" /\ queue # <<>> /\ ~AtBound(WarnMaxScan)
      /\ UNCHANGED <<dirVars, fileVars, callVars, failed>>
  BY DEF ReadWarnings
<1>2. scanned \in Nat /\ records \in Seq(LogRecords) /\ Len(records) \in Nat /\ wanted \in Nat
  BY DEF LogShape, LogTypeOK
<1>3. scanned < WarnMaxScan /\ Len(records) < wanted
  BY <1>1, <1>2, LogConstants DEF AtBound
<1> DEFINE entry     == Head(queue)
           remaining == WarnMaxScan - scanned
           spent     == scanned + LowerOf(entry.size, remaining)
           room      == wanted - Len(records)
           Outcome(events, upto, taken, rs) ==
              \/ /\ \E k \in taken : events[k].dst
                 /\ Reply(Failure("APPLICATION_LOG_TIMESTAMP"))
                 /\ UNCHANGED <<searchVars, late, found>>
              \/ /\ \A k \in taken : ~events[k].dst
                 /\ UNCHANGED <<answer, excluded>>
                 /\ IF upto <= Len(events) \/ Len(rs) >= wanted
                       \/ entry.size > remaining \/ spent >= WarnMaxScan
                    THEN Finish("warning", rs, TRUE, NoTotal)
                    ELSE /\ pc' = pc /\ queue' = Tail(queue)
                         /\ scanned' = spent /\ records' = rs
                         /\ UNCHANGED <<late, found>>
<1>4. \E lines \in Streams(warn[entry.name], remaining) :
      \E events \in {EventsOf(lines)} : \E upto \in 0..(Len(events) + 1) :
      \E taken \in {Taken(events, LowerOf(upto, Len(events)), room)} :
      \E rs \in {records \o WarnRecords(events, taken)} : Outcome(events, upto, taken, rs)
  BY DEF ReadWarnings
<1> HIDE DEF Outcome
<1>5. PICK lines \in Streams(warn[entry.name], remaining) :
      \E upto \in 0..(Len(EventsOf(lines)) + 1) :
         LET taken == Taken(EventsOf(lines), LowerOf(upto, Len(EventsOf(lines))), room)
         IN  Outcome(EventsOf(lines), upto, taken, records \o WarnRecords(EventsOf(lines), taken))
  BY <1>4
<1>6. lines \in Seq(Lines)
  <2>1. warn[entry.name] \in Files /\ WellPlaced(warn[entry.name]) /\ remaining \in Nat
    BY <1>1, <1>2, <1>3, LogConstants, NextWarningFile
  <2> QED BY <2>1, Streamed
<1>7. EventsOf(lines) \in Seq(Events)
  BY <1>6, ParsedEvents
<1>8. PICK upto \in 0..(Len(EventsOf(lines)) + 1) :
         LET taken == Taken(EventsOf(lines), LowerOf(upto, Len(EventsOf(lines))), room)
         IN  Outcome(EventsOf(lines), upto, taken, records \o WarnRecords(EventsOf(lines), taken))
  BY <1>5
<1> DEFINE events == EventsOf(lines)
           taken  == Taken(events, LowerOf(upto, Len(events)), room)
           rs     == records \o WarnRecords(events, taken)
<1>9. Outcome(events, upto, taken, rs)
  BY <1>8
<1>10. WarnRead(lines, upto)
  <2>1. /\ upto \in Int /\ Len(events) \in Int /\ entry.size \in Int /\ remaining \in Int /\ spent \in Int
        /\ WarnMaxScan \in Int /\ wanted \in Int
    BY <1>1, <1>2, <1>7, LogConstants, NextWarningFile DEF LowerOf
  <2>2. Len(rs) \in Int
    <3>1. taken \in SUBSET (1..Len(events))
      BY <1>7 DEF Taken, LowerOf
    <3>2. WarnRecords(events, taken) \in Seq(LogRecords)
      <4> HIDE DEF events, taken
      <4> QED BY <1>7, <3>1, WarnRecordsOf DEF events
    <3>3. rs \in Seq(LogRecords)
      <4> HIDE DEF events, taken
      <4> QED BY <3>2, <1>2, ConcatProperties
    <3> HIDE DEF rs
    <3> QED BY <3>3, LenProperties
  <2> HIDE DEF events, taken, rs, entry, remaining, spent
  <2>3. \/ /\ pc' = "done" /\ answer'.kind = "error"
           /\ UNCHANGED <<searchVars, late, found>>
        \/ /\ UNCHANGED <<answer, excluded>>
           /\ Finish("warning", rs, TRUE, NoTotal)
        \/ /\ UNCHANGED <<answer, excluded>>
           /\ upto > Len(events) /\ Len(rs) < wanted /\ entry.size <= remaining
           /\ spent < WarnMaxScan
           /\ pc' = pc /\ queue' = Tail(queue) /\ scanned' = spent /\ records' = rs
           /\ UNCHANGED <<late, found>>
    <3>1. CASE Reply(Failure("APPLICATION_LOG_TIMESTAMP")) /\ UNCHANGED <<searchVars, late, found>>
      BY <3>1 DEF Reply, Failure
    <3>2. CASE upto <= Len(events) \/ Len(rs) >= wanted \/ entry.size > remaining \/ spent >= WarnMaxScan
      BY <1>9, <3>1, <3>2 DEF Outcome
    <3>3. CASE ~(upto <= Len(events) \/ Len(rs) >= wanted \/ entry.size > remaining \/ spent >= WarnMaxScan)
      <4>1. upto > Len(events) /\ Len(rs) < wanted /\ entry.size <= remaining /\ spent < WarnMaxScan
        BY <2>1, <2>2, <3>3
      <4> QED BY <1>9, <3>1, <3>3, <4>1 DEF Outcome
    <3> QED BY <3>2, <3>3
  <2> QED BY <2>3 DEF WarnRead, events, taken, rs, entry, remaining, spent
<1> QED BY <1>1, <1>2, <1>3, <1>6, <1>7, <1>10

\* ReadWarnings keeps the shape: the byte bound and the limit are kept.
LEMMA ReadWarningsShape == ASSUME LogShape, FilesKept', ReadWarnings PROVE LogShape'
<1>1. /\ pc = "warning" /\ queue # <<>> /\ scanned < WarnMaxScan /\ scanned \in Nat
      /\ Len(records) < wanted /\ Len(records) \in Nat
      /\ UNCHANGED <<dirVars, fileVars, callVars, failed>>
  BY WarnStep
<1>2. PICK lines \in Streams(warn[Head(queue).name], WarnMaxScan - scanned) :
      \E upto \in 0..(Len(EventsOf(lines)) + 1) :
         EventsOf(lines) \in Seq(Events) /\ lines \in Seq(Lines) /\ WarnRead(lines, upto)
  BY WarnStep
<1>3. PICK upto \in 0..(Len(EventsOf(lines)) + 1) : WarnRead(lines, upto)
  BY <1>2
<1> DEFINE entry     == Head(queue)
           remaining == WarnMaxScan - scanned
           spent     == scanned + LowerOf(entry.size, remaining)
           events    == EventsOf(lines)
           taken     == Taken(events, LowerOf(upto, Len(events)), wanted - Len(records))
           rs        == records \o WarnRecords(events, taken)
<1>4. \/ /\ pc' = "done"
         /\ UNCHANGED <<searchVars, late, found>>
      \/ /\ UNCHANGED <<answer, excluded>>
         /\ Finish("warning", rs, TRUE, NoTotal)
      \/ /\ UNCHANGED <<answer, excluded>>
         /\ upto > Len(events) /\ Len(rs) < wanted /\ entry.size <= remaining
         /\ spent < WarnMaxScan
         /\ pc' = pc /\ queue' = Tail(queue) /\ scanned' = spent /\ records' = rs
         /\ UNCHANGED <<late, found>>
  BY <1>3 DEF WarnRead
<1>5. events \in Seq(Events)
  BY <1>2
<1>6. rs \in Seq(LogRecords)
  <2>1. taken \in SUBSET (1..Len(events))
    BY <1>5 DEF Taken, LowerOf
  <2>2. records \in Seq(LogRecords)
    BY DEF LogShape, LogTypeOK
  <2> HIDE DEF events, taken
  <2>3. WarnRecords(events, taken) \in Seq(LogRecords)
    BY <1>5, <2>1, WarnRecordsOf
  <2> QED BY <2>2, <2>3, ConcatProperties
<1>7. spent \in Nat
  <2>1. entry.size \in Nat
    BY <1>1, NextWarningFile
  <2> HIDE DEF entry
  <2>2. remaining \in Nat /\ scanned \in Nat
    BY <1>1, LogConstants
  <2> HIDE DEF remaining
  <2>3. LowerOf(entry.size, remaining) \in Nat
    BY <2>1, <2>2 DEF LowerOf
  <2> QED BY <2>2, <2>3
<1> HIDE DEF rs, events, taken, spent
<1>8. CASE pc' = "done" /\ UNCHANGED <<searchVars, late, found>>
  <2>1. LogTypeOK'
    BY <1>1, <1>8 DEF LogShape, LogTypeOK, dirVars, fileVars, searchVars, callVars
  <2>2. ReaderInv'
    BY <1>8 DEF ReaderInv, IisPhases, WarnPhases, Scanning
  <2> QED BY <2>1, <2>2 DEF LogShape
<1>9. CASE UNCHANGED <<answer, excluded>> /\ Finish("warning", rs, TRUE, NoTotal)
  <2>1. cursor' \in Nat /\ edge' \in Nat /\ cursor' <= edge' /\ torn' \in BOOLEAN
    BY <1>1 DEF LogShape, LogTypeOK, fileVars
  <2>2. NoTotal \in Nat \cup {NoTotal}
    OBVIOUS
  <2> QED BY <1>1, <1>6, <1>9, <2>1, <2>2, FinishShape DEF Sources
<1>10. CASE /\ UNCHANGED <<answer, excluded>> /\ Len(rs) < wanted /\ spent < WarnMaxScan
            /\ pc' = pc /\ queue' = Tail(queue) /\ scanned' = spent /\ records' = rs
            /\ UNCHANGED <<late, found>>
  <2>1. UNCHANGED <<iis, warn, enabled, ready, appends, cursor, edge, torn, wanted, failed>>
    BY <1>1 DEF dirVars, fileVars, callVars
  <2>2. Len(rs) \in Nat /\ wanted \in Nat
    BY <1>6 DEF LogShape, LogTypeOK
  <2>3. LogTypeOK'
    BY <1>1, <1>6, <1>7, <1>10, <2>1, <2>2, LogConstants DEF LogShape, LogTypeOK
  <2>4. /\ queue \in Seq([name: Nat, size: Nat])
        /\ \A p \in DOMAIN queue : queue[p].name \in DOMAIN warn
    BY <1>1 DEF LogShape, ReaderInv
  <2>5. /\ queue' \in Seq([name: Nat, size: Nat])
        /\ \A p \in DOMAIN queue' : queue'[p].name \in DOMAIN warn'
    <3> DEFINE S == [name: Nat, size: Nat]
    <3>1. queue \in Seq(S)
      BY <2>4
    <3> HIDE DEF S
    <3>2. queue' \in Seq(S) /\ \A p \in DOMAIN queue' : p + 1 \in DOMAIN queue /\ queue'[p] = queue[p + 1]
      BY <3>1, <1>1, <1>10, TailOfQueue
    <3> QED BY <3>2, <2>1, <2>4 DEF S
  <2>6. /\ wanted \in 1..MaxLimit /\ answer = NoAnswer
        /\ "warning" \in enabled /\ Len(found) = IF "iis" \in enabled THEN 1 ELSE 0
    BY <1>1 DEF LogShape, ReaderInv, WarnPhases
  <2>7. ReaderInv'
    BY <1>1, <1>10, <2>1, <2>5, <2>6 DEF ReaderInv, IisPhases, WarnPhases, Scanning
  <2> QED BY <2>3, <2>7 DEF LogShape
<1> QED BY <1>4, <1>8, <1>9, <1>10

\* An answer keeps the shape.
LEMMA FailShape ==
    ASSUME LogShape, FilesKept', SourceFails \/ WarningFails \/ Merge
    PROVE  LogShape'
<1>1. /\ pc' = "done" /\ UNCHANGED <<dirVars, fileVars, searchVars, callVars, late, found>>
      /\ failed' = failed \/ failed' = failed \cup {"warning"}
  BY DEF SourceFails, WarningFails, Merge, Reply
<1>2. failed' \subseteq Sources
  BY <1>1 DEF LogShape, LogTypeOK, Sources
<1> QED BY <1>1, <1>2, ReplyShape

\* What the others do while a search runs.
LEMMA WorldShape ==
    ASSUME LogShape, FilesKept', Grown(iis, iis'), Grown(warn, warn'),
           TimeIsUp \/ Write \/ Rotate \/ Lose \/ UNCHANGED logVars
    PROVE  LogShape'
<1>1. /\ UNCHANGED <<enabled, ready, pc, answer, fileVars, searchVars, callVars, found, failed>>
      /\ late' \in BOOLEAN /\ appends' \in 0..MaxAppends
  <2>1. late \in BOOLEAN /\ appends \in 0..MaxAppends
    BY DEF LogShape, LogTypeOK
  <2>2. CASE TimeIsUp
    BY <2>1, <2>2 DEF TimeIsUp, dirVars
  <2>3. CASE Write \/ Rotate
    <3>1. appends < MaxAppends /\ appends' = appends + 1 /\ UNCHANGED keptVars
      BY <2>3 DEF Write, Rotate
    <3>2. appends' \in 0..MaxAppends
      BY <3>1, <2>1, LogConstants
    <3> QED BY <3>1, <3>2, <2>1 DEF keptVars
  <2>4. CASE Lose
    BY <2>1, <2>4 DEF Lose
  <2>5. CASE UNCHANGED logVars
    BY <2>1, <2>5 DEF logVars, dirVars
  <2> QED BY <2>2, <2>3, <2>4, <2>5
<1>2. iis' \in Seq(Files) /\ warn' \in Seq(Files)
  BY DEF FilesKept, WellKept
<1>3. UNCHANGED <<enabled, ready, pc, answer, cursor, edge, torn, queue, excluded, scanned, records,
                  wanted, found, failed>>
  BY <1>1 DEF fileVars, searchVars, callVars
<1>4. LogTypeOK'
  BY <1>1, <1>2, <1>3 DEF LogShape, LogTypeOK
<1>5. /\ \A k \in DOMAIN iis : k \in DOMAIN iis'
      /\ \A k \in DOMAIN warn : k \in DOMAIN warn'
  BY DEF Grown
<1>6. ReaderInv'
  BY <1>3, <1>5 DEF LogShape, ReaderInv, IisPhases, WarnPhases, Scanning
<1> QED BY <1>4, <1>6 DEF LogShape

\* Every step of a search, and of the programs that write, keeps the shape.
LEMMA ShapeStep == ASSUME LogShape, ScanInv, [LogNext]_logVars PROVE LogShape'
<1>1. FilesKept' /\ Grown(iis, iis') /\ Grown(warn, warn')
  BY FilesStep DEF LogShape
<1>2. CASE SearchStep
  BY <1>1, <1>2, AskShape, SelectShape, EndShape, OpenShape, ReadShape, LocateShape,
     EndOfWarningsShape, ReadWarningsShape, FailShape DEF SearchStep
<1>3. CASE Failing
  BY <1>1, <1>3, FailShape, ReadFailsShape DEF Failing
<1>4. CASE TimeIsUp \/ Write \/ Rotate \/ Lose \/ UNCHANGED logVars
  BY <1>1, <1>4, WorldShape
<1> QED BY <1>2, <1>3, <1>4 DEF LogNext

-----------------------------------------------------------------------------
(* What the reverse reader takes for a request is the whole of its line.    *)

\* What was answered stays whole.
LEMMA WholeKept ==
    ASSUME RecordsWhole, enabled' = enabled, found' = found PROVE RecordsWhole'
BY DEF RecordsWhole, IisFound

\* A reader that finishes with whole records answers whole records.
LEMMA FinishWhole ==
    ASSUME LogShape, ScanInv, NEW s \in Sources, enabled' = enabled,
           s = "iis" => pc \in Scanning, s = "warning" => pc = "warning",
           NEW rs \in Seq(LogRecords), NEW truncated \in BOOLEAN, NEW total \in Nat \cup {NoTotal},
           Finish(s, rs, truncated, total),
           s = "iis" => \A m \in DOMAIN rs : IsWhole(rs[m])
    PROVE  ScanInv'
<1>1. /\ Len(found') = Len(found) + 1 /\ Len(found) \in Nat
      /\ found'[Len(found) + 1] = [records |-> rs, truncated |-> truncated, total |-> total]
      /\ \A k \in 1..Len(found) : found'[k] = found[k]
      /\ pc' = "locating" \/ pc' = "merging"
  BY FinishFacts
<1>2. Len(found) = IF s = "iis" THEN 0 ELSE IF "iis" \in enabled THEN 1 ELSE 0
  BY DEF LogShape, ReaderInv, Scanning, IisPhases, WarnPhases, Sources
<1>3. RecordsWhole'
  <2>1. CASE s = "iis"
    <3>1. Len(found') > 0 /\ found'[1].records = rs
      BY <2>1, <1>1, <1>2
    <3>2. CASE "iis" \in enabled
      <4>1. IisFound' = found'[1]
        BY <3>1, <3>2 DEF IisFound
      <4> QED BY <4>1, <3>1, <2>1 DEF RecordsWhole, IsWhole
    <3>3. CASE "iis" \notin enabled
      BY <3>3 DEF RecordsWhole, IisFound
    <3> QED BY <3>2, <3>3
  <2>2. CASE s # "iis" /\ "iis" \in enabled
    <3>1. Len(found) = 1 /\ Len(found') = 2 /\ found'[1] = found[1]
      BY <2>2, <1>1, <1>2
    <3>2. IisFound' = IisFound
      BY <2>2, <3>1 DEF IisFound
    <3> QED BY <3>2 DEF ScanInv, RecordsWhole
  <2>3. CASE "iis" \notin enabled
    BY <2>3 DEF RecordsWhole, IisFound
  <2> QED BY <2>1, <2>2, <2>3
<1> QED BY <1>1, <1>3 DEF ScanInv, Scanning

\* A file that was opened is sound: only the line under way may be a fragment, and torn says so.
LEMMA OpenScan == ASSUME LogShape, LogShape', ScanInv, OpenFile PROVE ScanInv'
<1>1. /\ pc = "nextFile" /\ queue # <<>>
      /\ UNCHANGED <<iis, enabled, records, found>>
  BY DEF OpenFile, dirVars
<1>2. \/ pc' = pc
      \/ /\ pc' = "scanning" /\ UNCHANGED queue
         /\ edge' = Size(iis[Head(queue)]) /\ torn' = Unfinished(iis[Head(queue)])
  BY DEF OpenFile
<1>3. RecordsWhole'
  BY <1>1, WholeKept DEF ScanInv
<1>4. \A m \in DOMAIN records : records[m].source = "iis" /\ IsWhole(records[m])
  BY <1>1 DEF ScanInv, Scanning
<1>5. ASSUME pc' = "scanning"
      PROVE  /\ edge' <= Size(iis'[Head(queue')])
             /\ Sound(iis'[Head(queue')], edge', torn')
  <2>1. /\ queue' = queue /\ iis' = iis /\ edge' = Size(iis[Head(queue)])
        /\ torn' = Unfinished(iis[Head(queue)])
    BY <1>1, <1>2, <1>5
  <2>2. Head(queue) \in DOMAIN iis
    BY <1>1 DEF LogShape, ReaderInv, Scanning
  <2>3. iis[Head(queue)] \in Files /\ WellPlaced(iis[Head(queue)])
    BY <2>2 DEF LogShape, FilesKept, WellKept
  <2>4. Size(iis[Head(queue)]) \in Nat
    BY <2>3, Places
  <2>5. Sound(iis[Head(queue)], Size(iis[Head(queue)]), Unfinished(iis[Head(queue)]))
    BY <2>3, OpenedIsSound
  <2> QED BY <2>1, <2>4, <2>5
<1> QED BY <1>1, <1>3, <1>4, <1>5 DEF ScanInv, Scanning

\* The records of a turn that has come to an end are whole ones, and requests.
LEMMA TurnWhole ==
    ASSUME LogShape, ScanInv, pc = "scanning"
    PROVE  \A m \in DOMAIN RecordsNow : RecordsNow[m].source = "iis" /\ IsWhole(RecordsNow[m])
<1>1. \A m \in DOMAIN records : records[m].source = "iis" /\ IsWhole(records[m])
  BY DEF ScanInv, Scanning
<1>2. /\ \A i \in MatchedNow : i \in ReadNow /\ IsWhole(IisRecord(Current, i, edge))
      /\ \A m \in 1..Len(records) : RecordsNow[m] = records[m]
      /\ \A m \in DOMAIN RecordsNow :
            m \in 1..Len(records) \/ \E i \in MatchedNow : RecordsNow[m] = IisRecord(Current, i, edge)
  BY TurnFacts
<1>3. DOMAIN records = 1..Len(records)
  BY DEF LogShape, LogTypeOK
<1>4. \A i \in MatchedNow : IisRecord(Current, i, edge).source = "iis"
  BY DEF IisRecord
<1> QED BY <1>1, <1>2, <1>3, <1>4

\* ReadChunk keeps the carry sound, and records only whole lines.
LEMMA ReadScan == ASSUME LogShape, LogShape', ScanInv, ReadChunk PROVE ScanInv'
<1>1. /\ pc = "scanning" /\ UNCHANGED <<iis, enabled>>
      /\ edge' = IF Floor = 0 THEN 0 ELSE Carry(Current, Floor, edge)
      /\ torn' = (torn /\ Pieces(Current, Floor, edge) = {})
  BY ChunkStep DEF dirVars
<1>2. \A m \in DOMAIN RecordsNow : RecordsNow[m].source = "iis" /\ IsWhole(RecordsNow[m])
  BY <1>1, TurnWhole
<1>3. RecordsNow \in Seq(LogRecords)
  BY <1>1, TurnFacts
<1>4. ASSUME NEW stopped \in BOOLEAN, NEW boundary \in BOOLEAN, FinishIis(RecordsNow, stopped, boundary)
      PROVE  ScanInv'
  <2> DEFINE truncated == stopped \/ (excluded["iis"] > 0 /\ ~boundary)
  <2>1. Finish("iis", RecordsNow, truncated, IF truncated THEN NoTotal ELSE Len(RecordsNow))
    BY <1>4 DEF FinishIis
  <2>2. Len(RecordsNow) \in Nat /\ truncated \in BOOLEAN
    BY <1>3
  <2> HIDE DEF truncated
  <2>3. (IF truncated THEN NoTotal ELSE Len(RecordsNow)) \in Nat \cup {NoTotal}
    BY <2>2
  <2>4. pc \in Scanning /\ "iis" \in Sources
    BY <1>1 DEF Scanning, Sources
  <2> QED BY <1>1, <1>2, <1>3, <2>1, <2>2, <2>3, <2>4, FinishWhole
<1>5. CASE /\ records' = RecordsNow
           /\ pc' = (IF Floor = 0 THEN "nextFile" ELSE "scanning")
           /\ queue' = (IF Floor = 0 THEN Tail(queue) ELSE queue)
           /\ UNCHANGED <<late, found>>
  <2>1. RecordsWhole'
    BY <1>1, <1>5, WholeKept DEF ScanInv
  <2>2. ASSUME Floor # 0
        PROVE  /\ edge' <= Size(iis'[Head(queue')])
               /\ Sound(iis'[Head(queue')], edge', torn')
    <3>1. /\ Current \in Files /\ WellPlaced(Current) /\ Floor \in Nat /\ 0 < Floor /\ Floor < edge
          /\ edge \in Nat /\ torn \in BOOLEAN
      BY <1>1, <2>2, OpenFileFacts
    <3>2. iis'[Head(queue')] = Current /\ edge' = Carry(Current, Floor, edge)
      BY <1>1, <1>5, <2>2 DEF Current
    <3>3. edge <= Size(Current) /\ Sound(Current, edge, torn)
      BY <1>1 DEF ScanInv, Current
    <3>4. Carry(Current, Floor, edge) \in Nat /\ Carry(Current, Floor, edge) <= edge
      BY <3>1, CarryRange
    <3>5. Sound(Current, Carry(Current, Floor, edge), torn /\ Pieces(Current, Floor, edge) = {})
      BY <3>1, <3>3, LogConstants, CarryKeepsSound
    <3>6. Size(Current) \in Nat
      BY <3>1, Places
    <3> QED BY <1>1, <3>1, <3>2, <3>3, <3>4, <3>5, <3>6
  <2>3. pc' = "scanning" => Floor # 0
    BY <1>5
  <2> QED BY <1>2, <1>5, <2>1, <2>2, <2>3 DEF ScanInv
<1> QED BY <1>4, <1>5, ChunkStep

\* A file that grows under the scan.
LEMMA WorldScan ==
    ASSUME LogShape, LogShape', ScanInv, Grown(iis, iis'),
           TimeIsUp \/ Write \/ Rotate \/ Lose \/ UNCHANGED logVars
    PROVE  ScanInv'
<1>1. UNCHANGED <<pc, enabled, found, records, queue, edge, torn>>
  BY DEF TimeIsUp, Write, Rotate, Lose, keptVars, logVars, dirVars, fileVars, searchVars
<1>2. RecordsWhole'
  BY <1>1, WholeKept DEF ScanInv
<1>3. ASSUME pc = "scanning"
      PROVE  edge <= Size(iis'[Head(queue)]) /\ Sound(iis'[Head(queue)], edge, torn)
  <2> DEFINE f == iis[Head(queue)]
             g == iis'[Head(queue)]
  <2>1. /\ f \in Files /\ WellPlaced(f) /\ edge \in Nat /\ torn \in BOOLEAN /\ Head(queue) \in DOMAIN iis
    BY <1>3, OpenFileFacts DEF Current
  <2>2. edge <= Size(f) /\ Sound(f, edge, torn)
    BY <1>3 DEF ScanInv
  <2>3. g = f \/ Extends(f, g)
    BY <2>1 DEF Grown
  <2> HIDE DEF f, g
  <2>4. CASE g = f
    BY <2>2, <2>4 DEF f, g
  <2>5. CASE Extends(f, g)
    <3>1. Sound(g, edge, torn)
      BY <2>1, <2>2, <2>5, GrowthKeeps
    <3>2. Size(f) \in Nat /\ Size(g) \in Nat /\ Size(g) >= Size(f)
      BY <2>1, <2>5, Places DEF Extends
    <3> QED BY <3>1, <3>2, <2>1, <2>2 DEF f, g
  <2> QED BY <2>3, <2>4, <2>5
<1>4. pc \in Scanning => \A m \in DOMAIN records : records[m].source = "iis" /\ IsWhole(records[m])
  BY DEF ScanInv
<1> QED BY <1>1, <1>2, <1>3, <1>4 DEF ScanInv

\* The end of a reader hands on what it has recorded.
LEMMA EndScan ==
    ASSUME LogShape, ScanInv, EndOfScan \/ StopInFile \/ EndOfWarnings
    PROVE  ScanInv'
<1>1. enabled' = enabled /\ records \in Seq(LogRecords) /\ Len(records) \in Nat
  <2>1. enabled' = enabled
    BY DEF EndOfScan, StopInFile, EndOfWarnings, dirVars
  <2>2. records \in Seq(LogRecords)
    BY DEF LogShape, LogTypeOK
  <2> QED BY <2>1, <2>2, LenProperties
<1>2. CASE EndOfScan \/ StopInFile
  <2>1. pc \in Scanning /\ \E stopped \in BOOLEAN : FinishIis(records, stopped, FALSE)
    BY <1>2 DEF EndOfScan, StopInFile, Scanning
  <2>2. PICK stopped \in BOOLEAN : FinishIis(records, stopped, FALSE)
    BY <2>1
  <2> DEFINE truncated == stopped \/ (excluded["iis"] > 0 /\ ~FALSE)
  <2>3. Finish("iis", records, truncated, IF truncated THEN NoTotal ELSE Len(records))
    BY <2>2 DEF FinishIis
  <2>4. truncated \in BOOLEAN
    OBVIOUS
  <2> HIDE DEF truncated
  <2>5. (IF truncated THEN NoTotal ELSE Len(records)) \in Nat \cup {NoTotal}
    BY <1>1
  <2>6. \A m \in DOMAIN records : IsWhole(records[m])
    BY <2>1 DEF ScanInv
  <2> QED BY <1>1, <2>1, <2>3, <2>4, <2>5, <2>6, FinishWhole DEF Sources
<1>3. CASE EndOfWarnings
  <2>1. pc = "warning" /\ \E truncated \in BOOLEAN : Finish("warning", records, truncated, NoTotal)
    BY <1>3 DEF EndOfWarnings
  <2>2. PICK truncated \in BOOLEAN : Finish("warning", records, truncated, NoTotal)
    BY <2>1
  <2>3. NoTotal \in Nat \cup {NoTotal}
    OBVIOUS
  <2> QED BY <1>1, <2>1, <2>2, <2>3, FinishWhole DEF Sources
<1> QED BY <1>2, <1>3

\* What reading a warning file comes to: an error, the end of the search, or the next file.
LEMMA WarnOutcome ==
    ASSUME LogShape, ReadWarnings
    PROVE  \/ pc' \in {"done", "warning"} /\ UNCHANGED found
           \/ \E rs \in Seq(LogRecords) : Finish("warning", rs, TRUE, NoTotal)
<1>0. pc = "warning"
  BY WarnStep
<1>1. PICK lines \in Streams(warn[Head(queue).name], WarnMaxScan - scanned) :
      \E upto \in 0..(Len(EventsOf(lines)) + 1) :
         EventsOf(lines) \in Seq(Events) /\ lines \in Seq(Lines) /\ WarnRead(lines, upto)
  BY WarnStep
<1>2. PICK upto \in 0..(Len(EventsOf(lines)) + 1) : WarnRead(lines, upto)
  BY <1>1
<1> DEFINE events == EventsOf(lines)
           taken  == Taken(events, LowerOf(upto, Len(events)), wanted - Len(records))
           rs     == records \o WarnRecords(events, taken)
<1>3. rs \in Seq(LogRecords)
  <2>1. events \in Seq(Events)
    BY <1>1
  <2>2. taken \in SUBSET (1..Len(events))
    BY <2>1 DEF Taken, LowerOf
  <2>3. records \in Seq(LogRecords)
    BY DEF LogShape, LogTypeOK
  <2> HIDE DEF events, taken
  <2>4. WarnRecords(events, taken) \in Seq(LogRecords)
    BY <2>1, <2>2, WarnRecordsOf
  <2> QED BY <2>3, <2>4, ConcatProperties
<1>4. \/ pc' \in {"done", "warning"} /\ UNCHANGED found
      \/ Finish("warning", rs, TRUE, NoTotal)
  BY <1>2, <1>0 DEF WarnRead
<1> QED BY <1>3, <1>4

\* The streaming reader changes nothing that was taken for a request.
LEMMA WarningsScan == ASSUME LogShape, ScanInv, ReadWarnings PROVE ScanInv'
<1>1. /\ pc = "warning" /\ UNCHANGED <<dirVars, fileVars, callVars, failed>>
  BY WarnStep
<1>2. enabled' = enabled
  BY <1>1 DEF dirVars
<1>3. \/ pc' \in {"done", "warning"} /\ UNCHANGED found
      \/ \E rs \in Seq(LogRecords) : Finish("warning", rs, TRUE, NoTotal)
  BY WarnOutcome
<1>4. CASE pc' \in {"done", "warning"} /\ UNCHANGED found
  <2>1. RecordsWhole'
    BY <1>2, <1>4, WholeKept DEF ScanInv
  <2> QED BY <1>4, <2>1 DEF ScanInv, Scanning
<1>5. ASSUME NEW rs \in Seq(LogRecords), Finish("warning", rs, TRUE, NoTotal) PROVE ScanInv'
  <2>1. NoTotal \in Nat \cup {NoTotal}
    OBVIOUS
  <2> QED BY <1>1, <1>2, <1>5, <2>1, FinishWhole DEF Sources
<1> QED BY <1>3, <1>4, <1>5

\* Every step keeps what is recorded whole and the carry sound.
LEMMA ScanStep == ASSUME LogShape, LogShape', ScanInv, [LogNext]_logVars PROVE ScanInv'
<1>1. Grown(iis, iis') /\ enabled' = enabled
  BY FilesStep DEF LogShape
<1>2. ASSUME found' = found, pc' \notin Scanning PROVE ScanInv'
  <2>1. RecordsWhole'
    BY <1>1, <1>2, WholeKept DEF ScanInv
  <2> QED BY <1>2, <2>1 DEF ScanInv, Scanning
<1>3. CASE Ask \/ Locate \/ SourceFails \/ WarningFails \/ Merge
  <2>1. found' = found /\ pc' \in {"done", "selecting", "locating", "warning"}
    BY <1>3 DEF Ask, Locate, SourceFails, WarningFails, Merge, Reply, StartReader
  <2> QED BY <1>2, <2>1 DEF Scanning
<1>4. CASE SelectCandidates
  <2>1. /\ found' = found /\ pc' = "nextFile" /\ pc = "selecting" /\ records' = records
    BY <1>4 DEF SelectCandidates
  <2>2. records = <<>>
    BY <2>1 DEF LogShape, ReaderInv
  <2>3. RecordsWhole'
    BY <1>1, <2>1, WholeKept DEF ScanInv
  <2> QED BY <2>1, <2>2, <2>3 DEF ScanInv
<1>5. CASE ReadFails
  <2>1. found' = found /\ pc' = "nextFile" /\ pc = "scanning" /\ records' = records
    BY <1>5 DEF ReadFails
  <2>2. RecordsWhole'
    BY <1>1, <2>1, WholeKept DEF ScanInv
  <2> QED BY <2>1, <2>2 DEF ScanInv, Scanning
<1>6. CASE EndOfScan \/ StopInFile \/ EndOfWarnings
  BY <1>6, EndScan
<1>7. CASE OpenFile \/ ReadChunk \/ ReadWarnings
  BY <1>7, OpenScan, ReadScan, WarningsScan
<1>8. CASE TimeIsUp \/ Write \/ Rotate \/ Lose \/ UNCHANGED logVars
  BY <1>1, <1>8, WorldScan
<1> QED BY <1>3, <1>4, <1>5, <1>6, <1>7, <1>8 DEF LogNext, SearchStep, Failing

-----------------------------------------------------------------------------
(* The reverse reader leaves no gaps.                                       *)

\* A step that leaves the answers of the readers alone leaves no new gap.
LEMMA GapKept ==
    ASSUME NoGap, enabled' = enabled, found' = found, failed \subseteq failed',
           \A row \in asked' : row[1] = "iis" => row \in asked
    PROVE  NoGap'
<1>1. IisFound' = IisFound
  BY DEF IisFound
<1> QED BY <1>1 DEF NoGap

\* A reader that finishes with what it owes, or admits to be truncated, leaves no gap.
LEMMA FinishGap ==
    ASSUME LogShape, GapInv, NEW s \in Sources, UNCHANGED <<enabled, failed, asked>>,
           s = "iis" => pc \in Scanning, s = "warning" => pc = "warning",
           NEW rs \in Seq(LogRecords), NEW truncated \in BOOLEAN, NEW total \in Nat \cup {NoTotal},
           Finish(s, rs, truncated, total),
           s = "iis" /\ "iis" \notin failed =>
              \A row \in asked : row \in Ids(rs) \/ (truncated /\ NotOlder(rs, row))
    PROVE  GapInv'
<1>1. /\ Len(found') = Len(found) + 1 /\ Len(found) \in Nat
      /\ found'[Len(found) + 1] = [records |-> rs, truncated |-> truncated, total |-> total]
      /\ \A k \in 1..Len(found) : found'[k] = found[k]
      /\ pc' = "locating" \/ pc' = "merging"
  BY FinishFacts
<1>2. Len(found) = IF s = "iis" THEN 0 ELSE IF "iis" \in enabled THEN 1 ELSE 0
  BY DEF LogShape, ReaderInv, Scanning, IisPhases, WarnPhases, Sources
<1>3. NoGap'
  <2>1. CASE s = "iis"
    <3> SUFFICES ASSUME "iis" \in enabled, "iis" \notin failed,
                        NEW row \in asked, row \notin Ids(IisFound.records)'
                 PROVE  /\ IisFound'.truncated
                        /\ \A k \in DOMAIN IisFound'.records : IisFound'.records[k].time >= row[2]
      BY DEF NoGap
    <3>1. Len(found') > 0 /\ found'[1] = [records |-> rs, truncated |-> truncated, total |-> total]
      BY <2>1, <1>1, <1>2
    <3>2. IisFound' = found'[1]
      BY <3>1 DEF IisFound
    <3>3. IisFound'.records = rs /\ IisFound'.truncated = truncated
      BY <3>1, <3>2
    <3>4. Ids(IisFound.records)' = Ids(rs)
      BY <3>3 DEF Ids, Id
    <3> QED BY <2>1, <3>3, <3>4 DEF NotOlder
  <2>2. CASE s # "iis" /\ "iis" \in enabled
    <3>1. Len(found) = 1 /\ Len(found') = 2 /\ found'[1] = found[1]
      BY <2>2, <1>1, <1>2
    <3>2. IisFound' = IisFound
      BY <2>2, <3>1 DEF IisFound
    <3> QED BY <3>1, <3>2 DEF GapInv, NoGap
  <2>3. CASE "iis" \notin enabled
    BY <2>3 DEF NoGap
  <2> QED BY <2>1, <2>2, <2>3
<1> QED BY <1>1, <1>3 DEF GapInv, Scanning

\* What a file that was rated a candidate shows is to be read, and what it shows no other shows older.
LEMMA ShownIsCandidate ==
    ASSUME LogShape, NEW k, NEW i, NEW row, ShownBy(iis, k, i, row)
    PROVE  k \in IisCandidates
<1> DEFINE f == iis[k]
           l == f.lines[i]
<1>1. /\ k \in DOMAIN iis /\ i \in DOMAIN f.lines /\ l.kind = "entry" /\ l.time \in Start..Now
  BY DEF ShownBy
<1>2. f \in Files /\ WellPlaced(f) /\ InOrder(iis)
  BY <1>1 DEF LogShape, FilesKept, WellKept
<1>3. /\ Len(f.lines) \in Nat /\ DOMAIN f.lines = 1..Len(f.lines) /\ f.tail \in Nat
      /\ \A j \in 1..Len(f.lines) : f.lines[j].time \in Nat /\ f.lines[j].size \in Nat
  BY <1>2, FileShape
<1>4. Modified(f) \in Nat
  <2>1. Len(f.lines) \in 1..Len(f.lines)
    BY <1>1, <1>3
  <2>2. CASE f.tail > 0
    <3>1. Modified(f) = Now
      BY <2>2, <1>3 DEF Modified, LineAt
    <3> QED BY <3>1, LogConstants
  <2>3. CASE ~(f.tail > 0)
    <3>1. Modified(f) = f.lines[Len(f.lines)].time
      BY <2>3, <1>3 DEF Modified, LineAt
    <3> QED BY <3>1, <2>1, <1>3
  <2> QED BY <2>2, <2>3
<1>5. Clocked(l) <= Modified(f) /\ Clocked(l) = l.time /\ l.time \in Nat /\ l.time >= Start
  <2>1. Clocked(l) <= Modified(f)
    BY <1>1, <1>2 DEF InOrder
  <2>2. l.time \in Nat /\ l.time >= Start /\ l.time <= Now
    BY <1>1, LogConstants
  <2> QED BY <2>1, <2>2, LogConstants DEF Clocked, LowerOf
<1>6. Size(f) > 0
  <2>1. Laid(f) /\ l.size > 0 /\ i \in 1..Len(f.lines)
    BY <1>1, <1>2, <1>3, FilesAreLaid DEF WellPlaced
  <2>2. i \in 1..(Len(f.lines) + 1) /\ Len(f.lines) + 1 \in 1..(Len(f.lines) + 1) /\ i < Len(f.lines) + 1
    BY <2>1, <1>3
  <2>3. /\ Upto(f, i) < From(f, Len(f.lines) + 1) /\ From(f, Len(f.lines) + 1) = End(f)
        /\ Upto(f, i) \in Nat /\ Size(f) = End(f) + f.tail /\ End(f) \in Nat
    BY <2>1, <2>2, LineType DEF Laid
  <2> QED BY <2>3, <1>3
<1>7. Modified(f) >= Start
  BY <1>4, <1>5, LogConstants
<1>8. k \in 1..Len(iis)
  BY <1>1, CandidatesFacts
<1> QED BY <1>6, <1>7, <1>8 DEF IisCandidates

\* Every request of the window is shown by a file that is listed, or by one that is left out.
LEMMA SelectGap == ASSUME LogShape, LogShape', GapInv, SelectCandidates PROVE GapInv'
<1> DEFINE S == IisCandidates
           listed == Listing(S, IisMaxFiles)
<1>1. /\ pc = "selecting" /\ pc' = "nextFile" /\ queue' = listed
      /\ excluded' = [excluded EXCEPT !["iis"] = Beyond(S, IisMaxFiles)]
      /\ asked' = StandingRows
      /\ UNCHANGED <<iis, enabled, found, failed, records>>
  BY DEF SelectCandidates, dirVars
<1>2. found = <<>> /\ records = <<>>
  BY <1>1 DEF LogShape, ReaderInv, IisPhases
<1>3. NoGap'
  BY <1>1, <1>2 DEF NoGap
<1>4. ASSUME NEW k \in S
      PROVE  \/ \E p \in DOMAIN listed : listed[p] = k
             \/ Beyond(S, IisMaxFiles) > 0 /\ \A p \in DOMAIN listed : k < listed[p]
  <2>1. Len(iis) \in Nat /\ S \in SUBSET (0..Len(iis)) /\ IisMaxFiles \in Nat
    BY CandidatesFacts, LogConstants
  <2> HIDE DEF S
  <2>2. /\ listed \in Seq(S) /\ Len(listed) = LowerOf(IisMaxFiles, Cardinality(S))
        /\ \A p \in 1..LowerOf(IisMaxFiles, Cardinality(S)) :
              listed[p] = Descending(S)[p] /\ Descending(S)[p] \in S
        /\ \A c \in S :
              \/ \E p \in 1..LowerOf(IisMaxFiles, Cardinality(S)) : Descending(S)[p] = c
              \/ /\ Beyond(S, IisMaxFiles) > 0 /\ Cardinality(S) > IisMaxFiles
                 /\ \A p \in 1..LowerOf(IisMaxFiles, Cardinality(S)) : Descending(S)[p] > c
    BY <2>1, ListingOf
  <2> HIDE DEF listed
  <2>3. DOMAIN listed = 1..LowerOf(IisMaxFiles, Cardinality(S))
    BY <2>2, LenProperties
  <2> QED BY <2>2, <2>3
<1> HIDE DEF S, listed
<1>5. ASSUME NEW row \in asked'
      PROVE  \E k \in DOMAIN iis' : \E i \in DOMAIN iis'[k].lines :
                ShownBy(iis', k, i, row) /\ Ahead(k, i)'
  <2>1. PICK l \in Entries(iis) : /\ l.size <= MaxLine /\ l.time \in Start..Now
                                  /\ row = <<"iis", l.time, l.what>>
    BY <1>1 DEF StandingRows
  <2>2. PICK k \in DOMAIN iis : l \in ToSet(iis[k].lines) /\ l.kind = "entry" /\ l.what \in Hits
    BY <2>1 DEF Entries, ToSet
  <2>3. PICK i \in DOMAIN iis[k].lines : iis[k].lines[i] = l
    BY <2>2 DEF ToSet
  <2>4. ShownBy(iis, k, i, row)
    BY <2>1, <2>2, <2>3 DEF ShownBy
  <2>5. k \in S
    BY <2>4, ShownIsCandidate DEF S
  <2>6. excluded'["iis"] = Beyond(S, IisMaxFiles)
    BY <1>1 DEF LogShape, LogTypeOK, Sources
  <2>7. Ahead(k, i)'
    BY <1>1, <1>4, <2>5, <2>6 DEF Ahead, Queued, LeftOut
  <2>8. ShownBy(iis', k, i, row)
    BY <1>1, <2>4
  <2> QED BY <1>1, <2>3, <2>7, <2>8
<1>6. \A row : NotOlder(records', row)
  BY <1>1, <1>2 DEF NotOlder
<1> QED BY <1>1, <1>3, <1>5, <1>6 DEF GapInv

-----------------------------------------------------------------------------
\* A turn that reads only what follows a line of the window adds nothing older than the line.
LEMMA TurnIsNewer ==
    ASSUME LogShape, ScanInv, pc = "scanning", NEW row, NEW k, NEW i, ShownBy(iis, k, i, row),
           NotOlder(records, row),
           \A m \in DOMAIN RecordsNow :
              m \in 1..Len(records)
              \/ \E j \in MatchedNow : After(k, i, Head(queue), j)
                                       /\ RecordsNow[m] = IisRecord(Current, j, edge)
    PROVE  NotOlder(RecordsNow, row)
<1>1. /\ Head(queue) \in DOMAIN iis /\ WellKept(iis) /\ InOrder(iis) /\ Current \in Files
  BY OpenFileFacts DEF LogShape, FilesKept
<1>2. /\ ReadLines(Current, ReadNow) /\ MatchedNow \subseteq ReadNow
      /\ \A m \in 1..Len(records) : RecordsNow[m] = records[m]
  BY TurnFacts
<1>3. DOMAIN records = 1..Len(records)
  BY DEF LogShape, LogTypeOK
<1>4. ASSUME NEW j \in MatchedNow, After(k, i, Head(queue), j)
      PROVE  IisRecord(Current, j, edge).time >= row[2]
  <2>1. /\ j \in DOMAIN Current.lines /\ Current.lines[j].kind = "entry"
        /\ LineAt(Current, j) = Current.lines[j]
    BY <1>1, <1>2, FileShape DEF ReadLines
  <2>2. Current.lines[j].time >= row[2]
    BY <1>1, <1>4, <2>1, EarlierIsOlder DEF Current
  <2> QED BY <2>1, <2>2 DEF IisRecord
<1> QED BY <1>2, <1>3, <1>4 DEF NotOlder

\* What one turn does to a request that was not found so far: it is found, or the limit is met by
\* newer ones, or it is still ahead.
LEMMA TurnAnswers ==
    ASSUME LogShape, ScanInv, pc = "scanning", NEW row, NEW k, NEW i, ShownBy(iis, k, i, row),
           Ahead(k, i), NotOlder(records, row)
    PROVE  \/ row \in Ids(RecordsNow)
           \/ NotOlder(RecordsNow, row) /\ Cardinality(MatchedNow) >= Room
           \/ /\ NotOlder(RecordsNow, row) /\ Inside(Current, ReadNow) = ReadNow
              /\ \/ k < Head(queue)
                 \/ /\ k = Head(queue) /\ Floor # 0 /\ From(Current, i) <= Floor
                    /\ StillLeft(Current, i, edge, torn)
<1> DEFINE h == Head(queue)
           f == Current
<1>1. /\ h \in DOMAIN iis /\ WellKept(iis) /\ InOrder(iis) /\ f \in Files /\ WellPlaced(f)
      /\ Floor \in Nat /\ edge \in Nat /\ torn \in BOOLEAN /\ Len(f.lines) \in Nat
      /\ Room \in Nat /\ 1 \in DOMAIN queue /\ h = queue[1] /\ queue \in Seq(Nat)
  BY OpenFileFacts, FileShape DEF LogShape, FilesKept
<1>2. /\ ReadLines(f, ReadNow) /\ MatchedNow \subseteq ReadNow /\ Cardinality(MatchedNow) \in Nat
      /\ RecordsNow \in Seq(LogRecords)
      /\ \A m \in DOMAIN RecordsNow :
            m \in 1..Len(records) \/ \E j \in MatchedNow : RecordsNow[m] = IisRecord(f, j, edge)
      /\ \A j \in MatchedNow :
            \/ \E m \in DOMAIN RecordsNow : RecordsNow[m] = IisRecord(f, j, edge)
            \/ /\ Cardinality(MatchedNow) > Room
               /\ \A m \in DOMAIN RecordsNow :
                     \/ m \in 1..Len(records)
                     \/ \E p \in MatchedNow : p > j /\ RecordsNow[m] = IisRecord(f, p, edge)
  BY TurnFacts
<1>3. /\ k \in DOMAIN iis /\ i \in DOMAIN iis[k].lines /\ iis[k].lines[i].kind = "entry"
      /\ iis[k].lines[i].size <= MaxLine /\ k \in Nat
      /\ row = <<"iis", iis[k].lines[i].time, iis[k].lines[i].what>>
  BY CandidatesFacts DEF ShownBy
<1>4. k < h \/ (k = h /\ StillLeft(f, i, edge, torn))
  <2>1. CASE LeftOut(k)
    BY <1>1, <2>1 DEF LeftOut
  <2>2. CASE Queued(k, i)
    <3>1. PICK p \in DOMAIN queue : queue[p] = k /\ (p = 1 => StillLeft(iis[k], i, edge, torn))
      BY <2>2 DEF Queued
    <3>2. CASE p = 1
      BY <1>1, <3>1, <3>2 DEF Current
    <3>3. CASE p # 1
      <4>1. 1 < p
        BY <1>1, <3>1, <3>3
      <4>2. queue[1] > queue[p]
        BY <1>1, <4>1 DEF LogShape, ReaderInv, Scanning
      <4> QED BY <1>1, <1>3, <3>1, <4>2
    <3> QED BY <3>2, <3>3
  <2> QED BY <2>1, <2>2 DEF Ahead
<1>5. ASSUME \A p \in ReadNow : After(k, i, h, p)
      PROVE  NotOlder(RecordsNow, row) /\ Inside(f, ReadNow) = ReadNow
  <2>1. Inside(f, ReadNow) = ReadNow
    BY <1>1, <1>2, <1>5, ReadIsNewer DEF Current
  <2>2. \A m \in DOMAIN RecordsNow :
           m \in 1..Len(records)
           \/ \E j \in MatchedNow : After(k, i, Head(queue), j)
                                    /\ RecordsNow[m] = IisRecord(Current, j, edge)
    BY <1>2, <1>5
  <2> QED BY <2>1, <2>2, TurnIsNewer
<1>6. CASE k < h
  <2>1. \A p \in ReadNow : After(k, i, h, p)
    BY <1>6 DEF After
  <2> QED BY <1>5, <1>6, <2>1
<1>7. CASE k = h /\ StillLeft(f, i, edge, torn) /\ (From(f, i) > Floor \/ Floor = 0)
  <2>1. f = iis[k] /\ i \in 1..Len(f.lines)
    BY <1>1, <1>3, <1>7, FileShape DEF Current
  <2>2. i \in ReadNow
    <3>1. f.lines[i].kind = "entry" /\ f.lines[i].size <= MaxLine
      BY <1>3, <2>1
    <3> HIDE DEF f
    <3>2. i \in LinesOfChunk(f, Floor, edge, torn) /\ Parses(f, i, edge)
      BY <1>1, <1>7, <2>1, <3>1, LogConstants, LeftIsRead
    <3> QED BY <3>2 DEF ReadNow, ReadOf, f
  <2>3. i \in MatchedNow
    BY <1>1, <1>2, <2>1, <2>2, ReadMatches DEF MatchedNow
  <2>4. Id(IisRecord(f, i, edge)) = row
    BY <1>2, <1>3, <2>1, <2>2 DEF Id, IisRecord, ReadLines
  <2>5. CASE \E m \in DOMAIN RecordsNow : RecordsNow[m] = IisRecord(f, i, edge)
    <3>1. DOMAIN RecordsNow = 1..Len(RecordsNow)
      BY <1>2, LenProperties
    <3> QED BY <2>4, <2>5, <3>1 DEF Ids
  <2>6. CASE /\ Cardinality(MatchedNow) > Room
             /\ \A m \in DOMAIN RecordsNow :
                   \/ m \in 1..Len(records)
                   \/ \E p \in MatchedNow : p > i /\ RecordsNow[m] = IisRecord(f, p, edge)
    <3>1. \A p \in MatchedNow : p > i => After(k, i, h, p)
      <4>1. \A p \in MatchedNow : p \in Nat
        BY <1>1, <1>2 DEF ReadLines
      <4> QED BY <1>7, <2>1, <1>1, <4>1 DEF After
    <3>2. NotOlder(RecordsNow, row)
      BY <2>6, <3>1, TurnIsNewer
    <3>3. Cardinality(MatchedNow) >= Room
      BY <1>1, <1>2, <2>6
    <3> QED BY <3>2, <3>3
  <2> QED BY <1>2, <2>3, <2>5, <2>6
<1>8. CASE k = h /\ StillLeft(f, i, edge, torn) /\ ~(From(f, i) > Floor \/ Floor = 0)
  <2>1. f = iis[k] /\ i \in 1..Len(f.lines)
    BY <1>1, <1>3, <1>8, FileShape DEF Current
  <2>2. /\ Laid(f)
    BY <1>1, FilesAreLaid
  <2>3. From(f, i) \in Nat
    <3>1. i \in 1..(Len(f.lines) + 1)
      BY <1>1, <2>1
    <3> HIDE DEF f
    <3> QED BY <2>2, <3>1, LineType
  <2>4. ASSUME NEW p \in ReadNow PROVE After(k, i, h, p)
    <3>1. p \in Pieces(f, Floor, edge)
      BY <1>1, PiecesType DEF ReadNow, ReadOf
    <3>2. p \in 1..(Len(f.lines) + 1) /\ i \in 1..(Len(f.lines) + 1) /\ p \in Nat /\ i \in Nat
      BY <3>1, <2>1, <1>1 DEF Pieces
    <3>3. From(f, p) > Floor
      BY <1>8, <3>1 DEF Pieces
    <3>4. From(f, p) \in Nat
      <4> HIDE DEF f
      <4> QED BY <2>2, <3>2, LineType
    <3>5. ~(p <= i)
      <4>1. p <= i => From(f, p) <= From(f, i)
        <5> HIDE DEF f
        <5> QED BY <2>2, <3>2, LaterLine
      <4> QED BY <4>1, <3>3, <3>4, <2>3, <1>8, <1>1
    <3> QED BY <3>2, <3>5, <1>8 DEF After
  <2>5. Floor # 0 /\ From(f, i) <= Floor
    BY <1>1, <1>8, <2>3
  <2> QED BY <1>5, <1>8, <2>4, <2>5
<1> QED BY <1>4, <1>6, <1>7, <1>8

-----------------------------------------------------------------------------
\* The same of every request that stood in the logs.
LEMMA TurnGap ==
    ASSUME LogShape, ScanInv, GapInv, pc = "scanning", "iis" \notin failed, NEW row \in asked
    PROVE  \/ row \in Ids(RecordsNow)
           \/ NotOlder(RecordsNow, row) /\ Cardinality(MatchedNow) >= Room
           \/ /\ NotOlder(RecordsNow, row) /\ Inside(Current, ReadNow) = ReadNow
              /\ \E k \in DOMAIN iis : \E i \in DOMAIN iis[k].lines :
                    /\ ShownBy(iis, k, i, row) /\ Ahead(k, i)
                    /\ \/ k < Head(queue)
                       \/ /\ k = Head(queue) /\ Floor # 0 /\ From(Current, i) <= Floor
                          /\ StillLeft(Current, i, edge, torn)
<1>1. /\ RecordsNow \in Seq(LogRecords)
      /\ \A m \in 1..Len(records) : m \in DOMAIN RecordsNow /\ RecordsNow[m] = records[m]
  BY TurnFacts
<1>2. CASE row \in Ids(records)
  <2>1. DOMAIN RecordsNow = 1..Len(RecordsNow)
    BY <1>1, LenProperties
  <2> QED BY <1>1, <1>2, <2>1 DEF Ids, Id
<1>3. CASE row \notin Ids(records)
  <2>1. PICK k \in DOMAIN iis : \E i \in DOMAIN iis[k].lines :
           NotOlder(records, row) /\ ShownBy(iis, k, i, row) /\ Ahead(k, i)
    BY <1>3 DEF GapInv, Scanning
  <2>2. PICK i \in DOMAIN iis[k].lines :
           NotOlder(records, row) /\ ShownBy(iis, k, i, row) /\ Ahead(k, i)
    BY <2>1
  <2> QED BY <2>2, TurnAnswers
<1> QED BY <1>2, <1>3

\* The same for the reverse reader, whose answer is truncated by a bound or by what was left out.
LEMMA FinishIisGap ==
    ASSUME LogShape, GapInv, pc \in Scanning, UNCHANGED <<enabled, failed, asked>>,
           NEW rs \in Seq(LogRecords), NEW stopped \in BOOLEAN, NEW boundary \in BOOLEAN,
           FinishIis(rs, stopped, boundary),
           "iis" \notin failed =>
              \A row \in asked :
                 \/ row \in Ids(rs)
                 \/ (stopped \/ (excluded["iis"] > 0 /\ ~boundary)) /\ NotOlder(rs, row)
    PROVE  GapInv'
<1> DEFINE truncated == stopped \/ (excluded["iis"] > 0 /\ ~boundary)
<1>1. Finish("iis", rs, truncated, IF truncated THEN NoTotal ELSE Len(rs))
  BY DEF FinishIis
<1>2. Len(rs) \in Nat /\ truncated \in BOOLEAN
  BY LenProperties
<1>3. "iis" \notin failed => \A row \in asked : row \in Ids(rs) \/ (truncated /\ NotOlder(rs, row))
  OBVIOUS
<1> HIDE DEF truncated
<1>4. (IF truncated THEN NoTotal ELSE Len(rs)) \in Nat \cup {NoTotal}
  BY <1>2
<1> QED BY <1>1, <1>2, <1>3, <1>4, FinishGap DEF Sources

\* ReadChunk leaves no gap: a request it passes is recorded, or the limit is full of newer ones.
LEMMA ReadGap == ASSUME LogShape, LogShape', ScanInv, GapInv, ReadChunk PROVE GapInv'
<1>1. /\ pc = "scanning" /\ UNCHANGED <<iis, enabled, failed, asked, excluded>>
      /\ edge' = IF Floor = 0 THEN 0 ELSE Carry(Current, Floor, edge)
      /\ torn' = (torn /\ Pieces(Current, Floor, edge) = {})
  BY ChunkStep DEF dirVars, callVars
<1>2. RecordsNow \in Seq(LogRecords) /\ Cardinality(MatchedNow) \in Nat /\ Room \in Nat /\ pc \in Scanning
  BY <1>1, TurnFacts, OpenFileFacts DEF Scanning
<1>3. CASE /\ Cardinality(MatchedNow) < Room /\ Inside(Current, ReadNow) # ReadNow
           /\ FinishIis(RecordsNow, FALSE, TRUE)
  <2>1. "iis" \notin failed => \A row \in asked : row \in Ids(RecordsNow)
    BY <1>1, <1>2, <1>3, TurnGap
  <2> QED BY <1>1, <1>2, <1>3, <2>1, FinishIisGap
<1>4. CASE Cardinality(MatchedNow) >= Room /\ FinishIis(RecordsNow, TRUE, FALSE)
  <2>1. "iis" \notin failed =>
           \A row \in asked : row \in Ids(RecordsNow) \/ NotOlder(RecordsNow, row)
    BY <1>1, TurnGap
  <2> QED BY <1>1, <1>2, <1>4, <2>1, FinishIisGap
<1>5. CASE /\ Cardinality(MatchedNow) < Room /\ Inside(Current, ReadNow) = ReadNow
           /\ records' = RecordsNow /\ scanned' = scanned + cursor - Floor
           /\ pc' = (IF Floor = 0 THEN "nextFile" ELSE "scanning")
           /\ queue' = (IF Floor = 0 THEN Tail(queue) ELSE queue)
           /\ UNCHANGED <<late, found>>
  <2>1. NoGap'
    BY <1>1, <1>5, GapKept DEF GapInv
  <2>2. /\ queue \in Seq(Nat) /\ queue # <<>> /\ Head(queue) = queue[1] /\ Head(queue) \in Nat
        /\ Current \in Files /\ WellPlaced(Current)
        /\ Floor \in Nat /\ (Floor # 0 => 0 < Floor /\ Floor < edge) /\ edge \in Nat /\ torn \in BOOLEAN
        /\ 1 \in DOMAIN queue
    BY <1>1, OpenFileFacts
  <2>3. ASSUME "iis" \notin failed, NEW row \in asked, row \notin Ids(RecordsNow)
        PROVE  /\ NotOlder(RecordsNow, row)
               /\ \E k \in DOMAIN iis' : \E i \in DOMAIN iis'[k].lines :
                     ShownBy(iis', k, i, row) /\ Ahead(k, i)'
    <3>1. /\ NotOlder(RecordsNow, row)
          /\ \E k \in DOMAIN iis : \E i \in DOMAIN iis[k].lines :
                /\ ShownBy(iis, k, i, row) /\ Ahead(k, i)
                /\ \/ k < Head(queue)
                   \/ /\ k = Head(queue) /\ Floor # 0 /\ From(Current, i) <= Floor
                      /\ StillLeft(Current, i, edge, torn)
      BY <1>1, <1>2, <1>5, <2>3, TurnGap
    <3>10. PICK k \in DOMAIN iis : \E i \in DOMAIN iis[k].lines :
                /\ ShownBy(iis, k, i, row) /\ Ahead(k, i)
                /\ \/ k < Head(queue)
                   \/ /\ k = Head(queue) /\ Floor # 0 /\ From(Current, i) <= Floor
                      /\ StillLeft(Current, i, edge, torn)
      BY <3>1
    <3>2. PICK i \in DOMAIN iis[k].lines :
                /\ ShownBy(iis, k, i, row) /\ Ahead(k, i)
                /\ \/ k < Head(queue)
                   \/ /\ k = Head(queue) /\ Floor # 0 /\ From(Current, i) <= Floor
                      /\ StillLeft(Current, i, edge, torn)
      BY <3>10
    <3>3. k \in Nat
      BY CandidatesFacts
    <3>4. CASE /\ k = Head(queue) /\ Floor # 0 /\ From(Current, i) <= Floor
               /\ StillLeft(Current, i, edge, torn)
      <4>1. iis[k] = Current
        BY <3>4 DEF Current
      <4>2. i \in 1..Len(Current.lines) /\ Current.lines[i].size <= MaxLine
        BY <3>2, <4>1, <2>2, FileShape DEF ShownBy
      <4>3. StillLeft(Current, i, Carry(Current, Floor, edge), torn /\ Pieces(Current, Floor, edge) = {})
        BY <2>2, <3>4, <4>2, LogConstants, CarryKeepsLeft
      <4>4. StillLeft(iis'[k], i, edge', torn')
        BY <1>1, <3>4, <4>1, <4>3
      <4>5. queue' = queue
        BY <1>5, <3>4
      <4>6. Queued(k, i)'
        BY <4>4, <4>5, <3>4, <2>2 DEF Queued
      <4> QED BY <4>6, <3>1, <3>2, <1>1 DEF Ahead
    <3>5. CASE k < Head(queue)
      <4>1. \A p \in DOMAIN queue' :
               \/ p \in DOMAIN queue /\ queue'[p] = queue[p]
               \/ p + 1 \in DOMAIN queue /\ queue'[p] = queue[p + 1]
        BY <1>5, <2>2, TailOfQueue
      <4>2. CASE LeftOut(k)
        BY <4>1, <4>2, <3>1, <3>2, <1>1 DEF LeftOut, Ahead
      <4>3. CASE Queued(k, i)
        <5>1. PICK p \in DOMAIN queue : queue[p] = k
          BY <4>3 DEF Queued
        <5>2. p # 1
          BY <5>1, <3>5, <3>3, <2>2
        <5>3. CASE Floor = 0
          <6>1. p - 1 \in DOMAIN queue' /\ queue'[p - 1] = k /\ pc' = "nextFile"
            BY <1>5, <2>2, <5>1, <5>2, <5>3, TailOfQueue
          <6> QED BY <6>1, <3>1, <3>2, <1>1 DEF Ahead, Queued
        <5>4. CASE Floor # 0
          BY <5>1, <5>2, <5>4, <3>1, <3>2, <1>1, <1>5 DEF Ahead, Queued
        <5> QED BY <5>3, <5>4
      <4> QED BY <3>2, <4>2, <4>3 DEF Ahead
    <3> QED BY <3>1, <3>2, <3>4, <3>5
  <2>4. pc' \in Scanning
    BY <1>5 DEF Scanning
  <2>5. pc' \notin {"idle", "selecting"}
    BY <1>5
  <2>6. ASSUME "iis" \notin failed'
        PROVE  \A row \in asked' :
                  \/ row \in Ids(records')
                  \/ /\ NotOlder(records', row)
                     /\ \E k \in DOMAIN iis' : \E i \in DOMAIN iis'[k].lines :
                           ShownBy(iis', k, i, row) /\ Ahead(k, i)'
    BY <1>1, <1>5, <2>3, <2>6
  <2>7. Ids(records)' = Ids(records')
    BY DEF Ids, Id
  <2> QED BY <2>1, <2>5, <2>6, <2>7 DEF GapInv
<1> QED BY <1>3, <1>4, <1>5, ChunkStep

-----------------------------------------------------------------------------
\* Steps of a search that leave its scan, and those outside of one.
LEMMA GapElsewhere ==
    ASSUME GapInv, enabled' = enabled, found' = found, failed \subseteq failed',
           \A row \in asked' : row[1] = "iis" => row \in asked,
           pc' \in Scanning => "iis" \in failed',
           pc' \in {"idle", "selecting"} => asked' = {}
    PROVE  GapInv'
<1>1. NoGap'
  BY GapKept DEF GapInv
<1> QED BY <1>1 DEF GapInv

\* A file that was opened is to be read from its end; one that cannot be read is a failure.
LEMMA OpenGap == ASSUME LogShape, LogShape', GapInv, OpenFile PROVE GapInv'
<1> DEFINE f == iis[Head(queue)]
<1>1. /\ pc = "nextFile" /\ queue # <<>> /\ UNCHANGED <<iis, enabled, excluded, records, asked, found>>
      /\ \/ failed' = failed \cup {"iis"} /\ UNCHANGED pc
         \/ /\ pc' = "scanning" /\ edge' = Size(f) /\ torn' = Unfinished(f)
            /\ UNCHANGED <<queue, failed>>
  BY DEF OpenFile, fileVars, dirVars, callVars
<1>2. NoGap'
  BY <1>1, GapKept DEF GapInv
<1>3. CASE failed' = failed \cup {"iis"} /\ UNCHANGED pc
  BY <1>1, <1>3, GapElsewhere
<1>4. CASE /\ pc' = "scanning" /\ edge' = Size(f) /\ torn' = Unfinished(f)
           /\ UNCHANGED <<queue, failed>>
  <2>1. ASSUME NEW k \in DOMAIN iis, NEW i \in DOMAIN iis[k].lines, Ahead(k, i) PROVE Ahead(k, i)'
    <3>1. CASE LeftOut(k)
      BY <1>1, <1>4, <3>1 DEF Ahead, LeftOut
    <3>2. CASE Queued(k, i)
      <4>1. PICK p \in DOMAIN queue : queue[p] = k
        BY <3>2 DEF Queued
      <4>2. iis[k] \in Files /\ WellPlaced(iis[k])
        BY DEF LogShape, FilesKept, WellKept
      <4>3. StillLeft(iis[k], i, Size(iis[k]), Unfinished(iis[k]))
        <5>1. i \in 1..Len(iis[k].lines)
          BY <4>2, FileShape
        <5> QED BY <4>2, <5>1, OpenedIsSound
      <4>4. p = 1 => Head(queue) = k
        BY <1>1, <4>1 DEF LogShape, ReaderInv, Scanning
      <4>5. p = 1 => StillLeft(iis'[k], i, edge', torn')
        BY <1>1, <1>4, <4>3, <4>4
      <4>6. Queued(k, i)'
        BY <1>4, <4>1, <4>5 DEF Queued
      <4> QED BY <4>6 DEF Ahead
    <3> QED BY <2>1, <3>1, <3>2 DEF Ahead
  <2>2. ASSUME "iis" \notin failed
        PROVE  \A row \in asked :
                  \/ row \in Ids(records)
                  \/ /\ NotOlder(records, row)
                     /\ \E k \in DOMAIN iis : \E i \in DOMAIN iis[k].lines :
                           ShownBy(iis, k, i, row) /\ Ahead(k, i)'
    <3>1. \A row \in asked :
             \/ row \in Ids(records)
             \/ /\ NotOlder(records, row)
                /\ \E k \in DOMAIN iis : \E i \in DOMAIN iis[k].lines :
                      ShownBy(iis, k, i, row) /\ Ahead(k, i)
      BY <1>1, <2>2 DEF GapInv, Scanning
    <3> QED BY <2>1, <3>1
  <2>3. Ids(records)' = Ids(records)
    BY <1>1 DEF Ids, Id
  <2> QED BY <1>1, <1>2, <1>4, <2>2, <2>3 DEF GapInv
<1> QED BY <1>1, <1>3, <1>4

\* A scan that runs out of files owes only what lies in files that were left out.
LEMMA EndGap == ASSUME LogShape, GapInv, EndOfScan \/ StopInFile PROVE GapInv'
<1>1. /\ pc \in Scanning /\ UNCHANGED <<enabled, failed, asked>>
      /\ \/ queue = <<>> /\ FinishIis(records, FALSE, FALSE)
         \/ FinishIis(records, TRUE, FALSE)
  BY DEF EndOfScan, StopInFile, Scanning, dirVars, callVars
<1>2. records \in Seq(LogRecords) /\ excluded["iis"] \in Nat
  BY DEF LogShape, LogTypeOK, Sources
<1>3. "iis" \notin failed =>
         \A row \in asked :
            \/ row \in Ids(records)
            \/ /\ NotOlder(records, row)
               /\ \E k \in DOMAIN iis : \E i \in DOMAIN iis[k].lines : Ahead(k, i)
  BY <1>1 DEF GapInv
<1>4. CASE queue = <<>> /\ FinishIis(records, FALSE, FALSE)
  <2>1. ASSUME NEW k, NEW i, Ahead(k, i) PROVE excluded["iis"] > 0
    <3>1. DOMAIN queue = {}
      BY <1>4
    <3> QED BY <2>1, <3>1 DEF Ahead, Queued, LeftOut
  <2>2. "iis" \notin failed =>
           \A row \in asked :
              \/ row \in Ids(records)
              \/ (FALSE \/ (excluded["iis"] > 0 /\ ~FALSE)) /\ NotOlder(records, row)
    BY <1>3, <2>1
  <2> QED BY <1>1, <1>2, <1>4, <2>2, FinishIisGap
<1>5. CASE FinishIis(records, TRUE, FALSE)
  <2>1. "iis" \notin failed =>
           \A row \in asked :
              \/ row \in Ids(records)
              \/ (TRUE \/ (excluded["iis"] > 0 /\ ~FALSE)) /\ NotOlder(records, row)
    BY <1>3
  <2> QED BY <1>1, <1>2, <1>5, <2>1, FinishIisGap
<1> QED BY <1>1, <1>4, <1>5

\* What a file shows stays where it is while the files grow.
LEMMA ShownStays ==
    ASSUME LogShape, Grown(iis, iis'), NEW k, NEW i, NEW row, ShownBy(iis, k, i, row)
    PROVE  /\ ShownBy(iis', k, i, row) /\ k \in DOMAIN iis' /\ i \in DOMAIN iis'[k].lines
           /\ \A high \in Nat, t \in BOOLEAN :
                 high <= Size(iis[k]) /\ StillLeft(iis[k], i, high, t) => StillLeft(iis'[k], i, high, t)
<1> DEFINE f == iis[k]
           g == iis'[k]
<1>1. /\ k \in DOMAIN iis /\ i \in DOMAIN f.lines /\ k \in DOMAIN iis' /\ (g = f \/ Extends(f, g))
  BY DEF ShownBy, Grown
<1>2. f \in Files /\ WellPlaced(f)
  BY <1>1 DEF LogShape, FilesKept, WellKept
<1>3. CASE g = f
  BY <1>1, <1>3 DEF ShownBy
<1>4. CASE Extends(f, g)
  <2>1. i \in 1..Len(f.lines) /\ Len(f.lines) \in Nat /\ Size(f) \in Nat /\ 0 <= Size(f)
    BY <1>1, <1>2, FileShape, Places
  <2>2. i \in 1..Len(g.lines) /\ g.lines[i] = f.lines[i]
    <3> HIDE DEF f, g
    <3> QED BY <1>2, <1>4, <2>1, SamePlaces
  <2>3. i \in DOMAIN g.lines
    <3>1. g \in Files
      BY <1>4 DEF Extends
    <3> QED BY <2>2, <3>1, FileShape
  <2>4. ASSUME NEW high \in Nat, NEW t \in BOOLEAN, high <= Size(f), StillLeft(f, i, high, t)
        PROVE  StillLeft(g, i, high, t)
    <3> HIDE DEF f, g
    <3> QED BY <1>2, <1>4, <2>1, <2>4, GrowthKeeps
  <2> QED BY <1>1, <2>2, <2>3, <2>4 DEF ShownBy
<1> QED BY <1>1, <1>3, <1>4

\* What is still to be read stays to be read while the files grow.
LEMMA WorldGap ==
    ASSUME LogShape, ScanInv, GapInv, Grown(iis, iis'),
           TimeIsUp \/ Write \/ Rotate \/ Lose \/ UNCHANGED logVars
    PROVE  GapInv'
<1>1. UNCHANGED <<pc, enabled, found, failed, records, queue, edge, torn, excluded, asked>>
  BY DEF TimeIsUp, Write, Rotate, Lose, keptVars, logVars, dirVars, fileVars, searchVars, callVars
<1>2. NoGap'
  BY <1>1, GapKept DEF GapInv
<1>3. ASSUME pc \in Scanning, NEW k, NEW i, NEW row, ShownBy(iis, k, i, row), Ahead(k, i)
      PROVE  Ahead(k, i)'
  <2>1. CASE LeftOut(k)
    BY <1>1, <2>1 DEF Ahead, LeftOut
  <2>2. CASE Queued(k, i)
    <3>1. PICK p \in DOMAIN queue :
             queue[p] = k /\ (pc = "scanning" /\ p = 1 => StillLeft(iis[k], i, edge, torn))
      BY <2>2 DEF Queued
    <3>2. ASSUME pc = "scanning", p = 1 PROVE StillLeft(iis'[k], i, edge, torn)
      <4>1. edge \in Nat /\ torn \in BOOLEAN /\ edge <= Size(iis[k])
        BY <3>1, <3>2, OpenFileFacts DEF ScanInv
      <4> QED BY <3>1, <3>2, <4>1, <1>3, ShownStays
    <3> QED BY <1>1, <3>1, <3>2 DEF Ahead, Queued
  <2> QED BY <1>3, <2>1, <2>2 DEF Ahead
<1>4. ASSUME pc \in Scanning, "iis" \notin failed
      PROVE  \A row \in asked :
                \/ row \in Ids(records)
                \/ /\ NotOlder(records, row)
                   /\ \E k \in DOMAIN iis' : \E i \in DOMAIN iis'[k].lines :
                         ShownBy(iis', k, i, row) /\ Ahead(k, i)'
  <2> SUFFICES ASSUME NEW row \in asked, row \notin Ids(records)
               PROVE  /\ NotOlder(records, row)
                      /\ \E k \in DOMAIN iis' : \E i \in DOMAIN iis'[k].lines :
                            ShownBy(iis', k, i, row) /\ Ahead(k, i)'
    OBVIOUS
  <2>1. /\ NotOlder(records, row)
        /\ \E k \in DOMAIN iis : \E i \in DOMAIN iis[k].lines : ShownBy(iis, k, i, row) /\ Ahead(k, i)
    BY <1>4 DEF GapInv
  <2>2. PICK k \in DOMAIN iis : \E i \in DOMAIN iis[k].lines : ShownBy(iis, k, i, row) /\ Ahead(k, i)
    BY <2>1
  <2>3. PICK i \in DOMAIN iis[k].lines : ShownBy(iis, k, i, row) /\ Ahead(k, i)
    BY <2>2
  <2>4. k \in DOMAIN iis' /\ i \in DOMAIN iis'[k].lines /\ ShownBy(iis', k, i, row)
    BY <2>3, ShownStays
  <2>5. Ahead(k, i)'
    BY <1>3, <1>4, <2>3
  <2> QED BY <2>1, <2>4, <2>5
<1>5. Ids(records)' = Ids(records)
  BY <1>1 DEF Ids, Id
<1> QED BY <1>1, <1>2, <1>4, <1>5 DEF GapInv

-----------------------------------------------------------------------------
\* The streaming reader leaves the gaps of the other one alone.
LEMMA WarningsGap == ASSUME LogShape, GapInv, EndOfWarnings \/ ReadWarnings PROVE GapInv'
<1>1. pc = "warning" /\ UNCHANGED <<enabled, failed, asked>> /\ NoTotal \in Nat \cup {NoTotal}
  BY WarnStep DEF EndOfWarnings, dirVars, callVars
<1>2. records \in Seq(LogRecords)
  BY DEF LogShape, LogTypeOK
<1>3. \/ pc' \in {"done", "warning"} /\ UNCHANGED found
      \/ \E rs \in Seq(LogRecords), truncated \in BOOLEAN : Finish("warning", rs, truncated, NoTotal)
  <2>1. CASE EndOfWarnings
    BY <1>2, <2>1 DEF EndOfWarnings
  <2>2. CASE ReadWarnings
    BY <2>2, WarnOutcome
  <2> QED BY <2>1, <2>2
<1>4. CASE pc' \in {"done", "warning"} /\ UNCHANGED found
  BY <1>1, <1>4, GapElsewhere DEF Scanning
<1>5. ASSUME NEW rs \in Seq(LogRecords), NEW truncated \in BOOLEAN,
             Finish("warning", rs, truncated, NoTotal)
      PROVE  GapInv'
  BY <1>1, <1>5, FinishGap DEF Sources
<1> QED BY <1>3, <1>4, <1>5

\* Every step leaves no gap.
LEMMA GapStep ==
    ASSUME LogShape, LogShape', ScanInv, GapInv, [LogNext]_logVars PROVE GapInv'
<1>1. Grown(iis, iis') /\ enabled' = enabled
  BY FilesStep DEF LogShape
<1>2. CASE Ask
  <2>1. /\ pc = "idle" /\ UNCHANGED <<found, failed, asked>>
        /\ pc' \in {"done", "selecting", "locating"}
    BY <1>2 DEF Ask, Reply, StartReader
  <2>2. asked = {}
    BY <2>1 DEF GapInv
  <2> QED BY <1>1, <2>1, <2>2, GapElsewhere DEF Scanning
<1>3. CASE SourceFails \/ WarningFails \/ Merge
  <2>1. UNCHANGED <<found, asked>> /\ pc' = "done" /\ failed \subseteq failed'
    BY <1>3 DEF SourceFails, WarningFails, Merge, Reply, callVars
  <2> QED BY <1>1, <2>1, GapElsewhere DEF Scanning
<1>4. CASE Locate
  <2>1. UNCHANGED <<found, failed>> /\ pc' = "warning" /\ asked' = asked \cup StandingWarnings
    BY <1>4 DEF Locate
  <2>2. \A row \in StandingWarnings : row[1] = "warning"
    BY DEF StandingWarnings
  <2> QED BY <1>1, <2>1, <2>2, GapElsewhere DEF Scanning
<1>5. CASE ReadFails
  <2>1. UNCHANGED <<found, asked>> /\ pc' = "nextFile" /\ failed' = failed \cup {"iis"}
    BY <1>5 DEF ReadFails, callVars
  <2> QED BY <1>1, <2>1, GapElsewhere
<1>6. CASE SelectCandidates
  BY <1>6, SelectGap
<1>7. CASE OpenFile \/ EndOfScan \/ StopInFile
  BY <1>7, OpenGap, EndGap
<1>8. CASE ReadChunk \/ EndOfWarnings \/ ReadWarnings
  BY <1>8, ReadGap, WarningsGap
<1>9. CASE TimeIsUp \/ Write \/ Rotate \/ Lose \/ UNCHANGED logVars
  BY <1>1, <1>9, WorldGap
<1> QED BY <1>2, <1>3, <1>4, <1>5, <1>6, <1>7, <1>8, <1>9 DEF LogNext, SearchStep, Failing

\* Nothing is missing before anything is asked.
LEMMA GapsInit == LogInit => ScanInv /\ GapInv /\ WarnGapInv
<1> SUFFICES ASSUME LogInit PROVE ScanInv /\ GapInv /\ WarnGapInv
  OBVIOUS
<1>1. pc = "idle" /\ found = <<>> /\ records = <<>> /\ asked = {} /\ answer.kind = "none"
  BY DEF LogInit, NoAnswer
<1>2. IisFound.records = <<>>
  BY <1>1 DEF IisFound
<1>3. RecordsWhole /\ NoGap
  BY <1>1, <1>2 DEF RecordsWhole, NoGap
<1>4. CompleteWhenClaimed
  BY <1>1 DEF CompleteWhenClaimed
<1> QED BY <1>1, <1>3, <1>4 DEF ScanInv, GapInv, WarnGapInv, Scanning, IisPhases

-----------------------------------------------------------------------------
(* The warning logs, and the answer.                                        *)

\* A limit that is not reached takes every match.
LEMMA TakesAll ==
    ASSUME NEW events \in Seq(Events), NEW room \in Nat,
           Cardinality(Taken(events, Len(events), room) \cap WarnMatches(events)) < room
    PROVE  WarnMatches(events) \subseteq Taken(events, Len(events), room)
<1> DEFINE n == Len(events)
           M == WarnMatches(events)
           Before(c) == {m \in M : m < c}
           T == Taken(events, n, room)
           missed == {c \in 1..n : ~(Cardinality(Before(c)) < room)}
<1>1. n \in Nat /\ DOMAIN events = 1..n /\ M \subseteq 1..n
  <2>1. n \in Nat /\ DOMAIN events = 1..n
    BY LenProperties
  <2> QED BY <2>1 DEF WarnMatches
<1>2. T = {c \in 1..n : Cardinality(Before(c)) < room}
  BY DEF Taken
<1> HIDE DEF M, T, n
<1>3. SUFFICES ASSUME missed # {} PROVE FALSE
  BY <1>1, <1>2 DEF T, M, n
<1>4. missed \in SUBSET Nat
  BY <1>1
<1> HIDE DEF missed
<1>5. PICK c \in missed : \A d \in missed : c <= d
  BY <1>3, <1>4, LeastNumber
<1>6. c \in 1..n /\ c \in Nat /\ ~(Cardinality(Before(c)) < room)
  BY <1>1, <1>5 DEF missed
<1>7. Before(c) \subseteq T \cap M
  <2> SUFFICES ASSUME NEW m \in M, m < c PROVE m \in T
    OBVIOUS
  <2>1. m \in 1..n /\ m \notin missed
    BY <1>1, <1>4, <1>5, <1>6
  <2> QED BY <2>1, <1>2 DEF missed
<1>8. IsFiniteSet(T \cap M) /\ Cardinality(T \cap M) \in Nat
  <2>1. T \cap M \subseteq 1..n
    BY <1>1
  <2>3. 1 \in Int /\ n \in Int
    BY <1>1
  <2>2. IsFiniteSet(1..n)
    BY <2>3, FS_Interval
  <2> QED BY <2>1, <2>2, FS_Subset, FS_CardinalityType
<1>9. Cardinality(Before(c)) <= Cardinality(T \cap M) /\ Cardinality(Before(c)) \in Nat
  <2> HIDE DEF Before
  <2> QED BY <1>7, <1>8, FS_Subset, FS_CardinalityType
<1> QED BY <1>6, <1>8, <1>9 DEF T, M, n

\* A file that is read to its end gives every entry that stood in it when it was listed.
LEMMA WarningsFound ==
    ASSUME LogShape, ReadWarnings, WarnGapInv,
           NEW lines \in Streams(warn[Head(queue).name], WarnMaxScan - scanned),
           EventsOf(lines) \in Seq(Events),
           Head(queue).size <= WarnMaxScan - scanned,
           NEW rs, rs = records \o WarnRecords(EventsOf(lines),
                            Taken(EventsOf(lines), Len(EventsOf(lines)), wanted - Len(records))),
           Len(rs) < wanted
    PROVE  /\ rs \in Seq(LogRecords)
           /\ \A row : row \in Ids(records) \/ WaitsIn(row, Head(queue)) => row \in Ids(rs)
<1> DEFINE events == EventsOf(lines)
           room == wanted - Len(records)
           taken == Taken(events, Len(events), room)
           new == WarnRecords(events, taken)
           f == warn[Head(queue).name]
<1>1. /\ pc = "warning" /\ queue # <<>> /\ scanned \in Nat /\ scanned < WarnMaxScan
      /\ Len(records) < wanted /\ Len(records) \in Nat
  BY WarnStep
<1>2. /\ Head(queue).size \in Nat /\ f \in Files /\ WellPlaced(f)
      /\ records \in Seq(LogRecords) /\ wanted \in Nat /\ WarnMaxScan - scanned \in Nat /\ room \in Nat
  BY <1>1, NextWarningFile, LogConstants DEF LogShape, LogTypeOK
<1>3. events \in Seq(Events) /\ Len(events) \in Nat /\ taken \in SUBSET (1..Len(events))
  BY LenProperties DEF Taken
<1> HIDE DEF events, taken
<1>4. /\ new \in Seq(LogRecords) /\ Len(new) = Cardinality(taken \cap WarnMatches(events))
      /\ Cardinality(taken \cap WarnMatches(events)) \in Nat
      /\ \A k \in taken \cap WarnMatches(events) : \E j \in 1..Len(new) : new[j] = WarnRecord(events[k])
  BY <1>3, WarnRecordsOf
<1> HIDE DEF new
<1>5. rs = records \o new
  BY DEF new, taken, events
<1>6. /\ rs \in Seq(LogRecords) /\ Len(rs) = Len(records) + Len(new)
      /\ \A k \in 1..(Len(records) + Len(new)) :
            rs[k] = IF k <= Len(records) THEN records[k] ELSE new[k - Len(records)]
  <2>1. /\ records \o new \in Seq(LogRecords) /\ Len(records \o new) = Len(records) + Len(new)
        /\ \A k \in 1..Len(records) + Len(new) :
              (records \o new)[k] = IF k <= Len(records) THEN records[k] ELSE new[k - Len(records)]
    BY <1>2, <1>4, ConcatProperties
  <2> QED BY <2>1, <1>5
<1>7. \A k \in 1..Len(records) : k \in 1..Len(rs) /\ rs[k] = records[k]
  BY <1>1, <1>4, <1>6
<1>8. \A j \in 1..Len(new) : Len(records) + j \in 1..Len(rs) /\ rs[Len(records) + j] = new[j]
  <2>1. Len(new) \in Nat
    BY <1>4
  <2>2. \A j \in 1..Len(new) : /\ Len(records) + j \in 1..(Len(records) + Len(new))
                               /\ ~(Len(records) + j <= Len(records))
                               /\ (Len(records) + j) - Len(records) = j
    BY <1>1, <2>1
  <2> QED BY <1>6, <2>2
<1>9. WarnMatches(events) \subseteq taken
  <2>1. Cardinality(taken \cap WarnMatches(events)) < room
    BY <1>1, <1>2, <1>4, <1>6
  <2> QED BY <1>2, <1>3, <2>1, TakesAll DEF taken
<1>10. ASSUME NEW row, WaitsIn(row, Head(queue)) PROVE row \in Ids(rs)
  <2>1. PICK i \in DOMAIN f.lines : ShowsWarning(f.lines[i], row) /\ Upto(f, i) <= Head(queue).size
    BY <1>10 DEF WaitsIn
  <2>2. i \in 1..Len(f.lines) /\ i \in 1..(Len(f.lines) + 1) /\ f.lines[i].kind = "entry"
    BY <2>1, <1>2, FileShape DEF ShowsWarning
  <2>3. Upto(f, i) \in Nat
    BY <1>2, <2>2, Places
  <2>4. Upto(f, i) <= WarnMaxScan - scanned
    BY <1>2, <2>1, <2>3
  <2>5. lines \in Seq(Lines) /\ i \in DOMAIN lines /\ lines[i] = f.lines[i]
    <3> HIDE DEF f
    <3> QED BY <1>2, <2>2, <2>4, Streamed DEF f
  <2>6. PICK k \in DOMAIN events : Reads(events[k], f.lines[i])
    BY <2>2, <2>5, ParsedEvents DEF events
  <2>7. k \in taken \cap WarnMatches(events)
    BY <1>9, <2>1, <2>6 DEF WarnMatches, Reads, ShowsWarning
  <2>8. PICK j \in 1..Len(new) : new[j] = WarnRecord(events[k])
    BY <1>4, <2>7
  <2>9. Id(new[j]) = row
    BY <2>1, <2>6, <2>8 DEF Id, WarnRecord, Reads, ShowsWarning
  <2> QED BY <1>8, <2>9 DEF Ids
<1>11. ASSUME NEW row \in Ids(records) PROVE row \in Ids(rs)
  BY <1>7 DEF Ids
<1> QED BY <1>6, <1>10, <1>11

-----------------------------------------------------------------------------
\* Only an answer can be taken for complete.
LEMMA NoAnswerYet ==
    ASSUME LogShape', pc' # "done" PROVE CompleteWhenClaimed'
<1>1. answer'.kind = "none"
  BY DEF LogShape, ReaderInv, NoAnswer
<1> QED BY <1>1 DEF CompleteWhenClaimed

\* Steps of a search that end it with an error, or lie before its warning logs.
LEMMA WarnElsewhere ==
    ASSUME LogShape', WarnGapInv, enabled' = enabled, asked' = asked,
           pc' \notin {"warning", "merging"}, pc' = "done" => answer'.kind = "error",
           pc' \in IisPhases \cup {"locating"} =>
              \A row \in asked : row[1] = "iis"
    PROVE  WarnGapInv'
<1>1. CompleteWhenClaimed'
  <2>1. CASE pc' = "done"
    BY <2>1 DEF CompleteWhenClaimed
  <2>2. CASE pc' # "done"
    BY <2>2, NoAnswerYet
  <2> QED BY <2>1, <2>2
<1> QED BY <1>1 DEF WarnGapInv

\* When the reverse reader finishes, no warning has been asked for yet.
LEMMA FinishIisWarn ==
    ASSUME LogShape, LogShape', WarnGapInv, pc \in Scanning, UNCHANGED <<enabled, asked>>,
           pc' \in {"locating", "merging"}
    PROVE  WarnGapInv'
<1>1. \A row \in asked : row[1] = "iis"
  BY DEF WarnGapInv, IisPhases
<1>2. CompleteWhenClaimed'
  BY NoAnswerYet
<1> QED BY <1>1, <1>2 DEF WarnGapInv, IisPhases, Scanning

\* The end of a scan, as the other invariant sees it.
LEMMA EndScanWarn ==
    ASSUME LogShape, LogShape', WarnGapInv, EndOfScan \/ StopInFile PROVE WarnGapInv'
<1>1. pc \in Scanning /\ UNCHANGED <<enabled, asked>> /\ pc' \in {"locating", "merging"}
  BY DEF EndOfScan, StopInFile, Scanning, FinishIis, Finish, StartReader, dirVars, callVars
<1> QED BY <1>1, FinishIisWarn

\* A turn of the scan, as the other invariant sees it.
LEMMA ReadIisWarn ==
    ASSUME LogShape, LogShape', WarnGapInv, ReadChunk PROVE WarnGapInv'
<1>1. pc = "scanning" /\ UNCHANGED <<enabled, asked>>
  BY ChunkStep DEF dirVars, callVars
<1>2. pc' \in {"locating", "merging"} \/ pc' \in Scanning
  BY ChunkStep DEF Scanning, FinishIis, Finish, StartReader
<1>3. \A row \in asked : row[1] = "iis"
  BY <1>1 DEF WarnGapInv, IisPhases, Scanning
<1>4. CASE pc' \in Scanning
  <2>1. pc' \notin {"warning", "merging", "done"}
    BY <1>4 DEF Scanning
  <2> QED BY <1>1, <1>3, <2>1, WarnElsewhere
<1> QED BY <1>1, <1>2, <1>4, FinishIisWarn DEF Scanning

\* Every warning that stands in the files waits in the queue, if no file is beyond the maximum.
LEMMA LocateWarn ==
    ASSUME LogShape, LogShape', WarnGapInv, Locate PROVE WarnGapInv'
<1> DEFINE S == 1..Len(warn)
           listed == Listing(S, WarnMaxFiles)
<1>1. /\ pc = "locating" /\ pc' = "warning" /\ UNCHANGED <<warn, enabled>>
      /\ queue' = [k \in 1..Len(listed) |-> [name |-> listed[k], size |-> Size(warn[listed[k]])]]
      /\ excluded' = [excluded EXCEPT !["warning"] = Beyond(S, WarnMaxFiles)]
      /\ asked' = asked \cup StandingWarnings
  BY DEF Locate, dirVars
<1>2. \A row \in asked : row[1] = "iis" /\ row[1] \in enabled
  BY <1>1 DEF WarnGapInv
<1>3. "warning" \in enabled
  BY <1>1 DEF LogShape, ReaderInv, WarnPhases
<1>4. \A row \in StandingWarnings : row[1] = "warning"
  BY DEF StandingWarnings
<1>5. excluded'["warning"] = Beyond(S, WarnMaxFiles)
  BY <1>1 DEF LogShape, LogTypeOK, Sources
<1>6. warn \in Seq(Files) /\ Len(warn) \in Nat /\ DOMAIN warn = S
      /\ \A k \in DOMAIN warn : warn[k] \in Files /\ WellPlaced(warn[k])
  <2>1. warn \in Seq(Files) /\ \A k \in DOMAIN warn : WellPlaced(warn[k])
    BY DEF LogShape, FilesKept, WellKept
  <2> QED BY <2>1, LenProperties
<1>7. ASSUME Beyond(S, WarnMaxFiles) = 0, NEW k \in S PROVE \E p \in 1..Len(listed) : listed[p] = k
  <2>1. Len(warn) \in Nat /\ S \in SUBSET (0..Len(warn)) /\ WarnMaxFiles \in Nat
    BY <1>6, LogConstants
  <2> HIDE DEF S
  <2>2. /\ Len(listed) = LowerOf(WarnMaxFiles, Cardinality(S))
        /\ \A p \in 1..LowerOf(WarnMaxFiles, Cardinality(S)) : listed[p] = Descending(S)[p]
        /\ \A c \in S :
              \/ \E p \in 1..LowerOf(WarnMaxFiles, Cardinality(S)) : Descending(S)[p] = c
              \/ Beyond(S, WarnMaxFiles) > 0
    BY <2>1, ListingOf
  <2> HIDE DEF listed
  <2> QED BY <1>7, <2>2
<1> HIDE DEF listed
<1>8. ASSUME excluded'["warning"] = 0, NEW row \in StandingWarnings
      PROVE  \E p \in DOMAIN queue' : WaitsIn(row, queue[p])'
  <2>1. PICK l \in Entries(warn) : row = <<"warning", l.time, l.what>>
    BY DEF StandingWarnings
  <2>2. PICK k \in DOMAIN warn : l \in ToSet(warn[k].lines) /\ l.kind = "entry" /\ l.what \in Hits
    BY <2>1 DEF Entries, ToSet
  <2>3. PICK i \in DOMAIN warn[k].lines : warn[k].lines[i] = l
    BY <2>2 DEF ToSet
  <2>4. Upto(warn[k], i) <= Size(warn[k])
    <3> DEFINE f == warn[k]
    <3>1. f \in Files /\ WellPlaced(f) /\ Laid(f)
      BY <1>6, FilesAreLaid
    <3>2. i \in 1..(Len(f.lines) + 1) /\ Len(f.lines) + 1 \in 1..(Len(f.lines) + 1) /\ i <= Len(f.lines) + 1
      BY <2>3, <3>1, FileShape
    <3> HIDE DEF f
    <3>3. Upto(f, i) <= Upto(f, Len(f.lines) + 1)
      BY <3>1, <3>2, LaterLine
    <3>4. Upto(f, Len(f.lines) + 1) = Size(f)
      BY <3>1, Places
    <3> QED BY <3>3, <3>4 DEF f
  <2>5. PICK p \in 1..Len(listed) : listed[p] = k
    BY <1>5, <1>6, <1>7, <1>8
  <2>6. p \in DOMAIN queue' /\ queue'[p] = [name |-> k, size |-> Size(warn[k])]
    BY <1>1, <2>5
  <2>7. ShowsWarning(warn[k].lines[i], row)
    BY <2>1, <2>2, <2>3 DEF ShowsWarning
  <2>8. WaitsIn(row, queue[p])'
    BY <1>1, <2>3, <2>4, <2>6, <2>7 DEF WaitsIn
  <2> QED BY <2>6, <2>8
<1>9. CompleteWhenClaimed'
  BY <1>1, NoAnswerYet
<1> QED BY <1>1, <1>2, <1>3, <1>4, <1>8, <1>9 DEF WarnGapInv, IisPhases, Scanning

-----------------------------------------------------------------------------
\* The streaming reader finishes with every warning, or admits to be truncated.
LEMMA FinishWarn ==
    ASSUME LogShape, LogShape', WarnGapInv, pc = "warning",
           UNCHANGED <<enabled, asked, excluded>>,
           NEW rs \in Seq(LogRecords), NEW truncated \in BOOLEAN,
           Finish("warning", rs, truncated, NoTotal),
           ~truncated /\ excluded["warning"] = 0 =>
              \A row \in asked : row[1] = "warning" => row \in Ids(rs)
    PROVE  WarnGapInv'
<1>1. /\ Len(found') = Len(found) + 1 /\ Len(found) \in Nat
      /\ found'[Len(found) + 1] = [records |-> rs, truncated |-> truncated, total |-> NoTotal]
      /\ pc' = "merging"
  <2>1. NoTotal \in Nat \cup {NoTotal}
    OBVIOUS
  <2> QED BY <2>1, FinishFacts DEF Sources
<1>2. found'[Len(found')].records = rs /\ found'[Len(found')].truncated = truncated
  BY <1>1
<1>3. CompleteWhenClaimed'
  BY <1>1, NoAnswerYet
<1>4. Ids(found[Len(found)].records)' = Ids(rs)
  BY <1>2 DEF Ids, Id
<1> QED BY <1>1, <1>2, <1>3, <1>4 DEF WarnGapInv, IisPhases, Scanning

\* The streaming reader takes every warning of a file it has read to its end.
LEMMA WarningsWarn ==
    ASSUME LogShape, LogShape', WarnGapInv, EndOfWarnings \/ ReadWarnings PROVE WarnGapInv'
<1>1. records \in Seq(LogRecords)
  BY DEF LogShape, LogTypeOK
<1>2. CASE EndOfWarnings
  <2>1. /\ pc = "warning" /\ UNCHANGED <<enabled, asked, excluded>>
        /\ \/ queue = <<>> /\ Finish("warning", records, FALSE, NoTotal)
           \/ Finish("warning", records, TRUE, NoTotal)
    BY <1>2 DEF EndOfWarnings, dirVars, callVars
  <2>2. ASSUME queue = <<>>, excluded["warning"] = 0
        PROVE  \A row \in asked : row[1] = "warning" => row \in Ids(records)
    <3>1. DOMAIN queue = {}
      BY <2>2
    <3> QED BY <2>1, <2>2, <3>1 DEF WarnGapInv
  <2> QED BY <1>1, <2>1, <2>2, FinishWarn
<1>3. CASE ReadWarnings
  <2>1. /\ pc = "warning" /\ queue # <<>> /\ UNCHANGED <<warn, enabled, asked>>
    BY <1>3, WarnStep DEF dirVars, callVars
  <2>2. PICK lines \in Streams(warn[Head(queue).name], WarnMaxScan - scanned) :
        \E upto \in 0..(Len(EventsOf(lines)) + 1) :
           EventsOf(lines) \in Seq(Events) /\ lines \in Seq(Lines) /\ WarnRead(lines, upto)
    BY <1>3, WarnStep
  <2>3. PICK upto \in 0..(Len(EventsOf(lines)) + 1) : WarnRead(lines, upto)
    BY <2>2
  <2> DEFINE events == EventsOf(lines)
             room   == wanted - Len(records)
             taken  == Taken(events, LowerOf(upto, Len(events)), room)
             rs     == records \o WarnRecords(events, taken)
  <2>4. rs \in Seq(LogRecords)
    <3>1. events \in Seq(Events) /\ taken \in SUBSET (1..Len(events))
      BY <2>2 DEF Taken, LowerOf
    <3> HIDE DEF events, taken
    <3>2. WarnRecords(events, taken) \in Seq(LogRecords)
      BY <3>1, WarnRecordsOf
    <3> QED BY <1>1, <3>2, ConcatProperties
  <2>5. CASE /\ pc' = "done" /\ answer'.kind = "error"
    BY <2>1, <2>5, WarnElsewhere DEF IisPhases, Scanning
  <2>6. CASE UNCHANGED excluded /\ Finish("warning", rs, TRUE, NoTotal)
    <3> HIDE DEF rs
    <3> QED BY <2>1, <2>4, <2>6, FinishWarn
  <2>7. CASE /\ UNCHANGED excluded
             /\ upto > Len(events) /\ Len(rs) < wanted /\ Head(queue).size <= WarnMaxScan - scanned
             /\ pc' = pc /\ queue' = Tail(queue) /\ records' = rs
    <3>1. LowerOf(upto, Len(events)) = Len(events)
      <4>1. Len(events) \in Nat
        BY <2>2, LenProperties
      <4> QED BY <2>7, <4>1 DEF LowerOf
    <3>2. rs = records \o WarnRecords(EventsOf(lines),
                             Taken(EventsOf(lines), Len(EventsOf(lines)), wanted - Len(records)))
      BY <3>1
    <3>3. events \in Seq(Events)
      BY <2>2
    <3> HIDE DEF rs, taken, room
    <3>4. \A row : row \in Ids(records) \/ WaitsIn(row, Head(queue)) => row \in Ids(rs)
      BY <1>3, <2>7, <3>2, <3>3, WarningsFound
    <3>5. Ids(records)' = Ids(rs)
      BY <2>7 DEF Ids, Id
    <3>6. ASSUME excluded["warning"] = 0, NEW row \in asked, row[1] = "warning", row \notin Ids(rs)
          PROVE  \E p \in DOMAIN queue' : WaitsIn(row, queue[p])'
      <4>1. PICK p \in DOMAIN queue : WaitsIn(row, queue[p])
        BY <2>1, <3>4, <3>6 DEF WarnGapInv
      <4>2. queue[1] = Head(queue) /\ queue \in Seq([name: Nat, size: Nat])
        BY <2>1, NextWarningFile
      <4>3. p # 1
        BY <3>4, <3>6, <4>1, <4>2
      <4>4. p - 1 \in DOMAIN queue' /\ queue'[p - 1] = queue[p]
        <5> DEFINE S == [name: Nat, size: Nat]
        <5>1. queue \in Seq(S)
          BY <4>2
        <5> HIDE DEF S
        <5> QED BY <2>1, <2>7, <4>1, <4>3, <5>1, TailOfQueue
      <4>5. WaitsIn(row, queue[p - 1])'
        BY <2>1, <4>1, <4>4 DEF WaitsIn
      <4> QED BY <4>4, <4>5
    <3>7. CompleteWhenClaimed'
      BY <2>1, <2>7, NoAnswerYet
    <3> QED BY <2>1, <2>7, <3>5, <3>6, <3>7 DEF WarnGapInv, IisPhases, Scanning
  <2> QED BY <2>3, <2>5, <2>6, <2>7 DEF WarnRead
<1> QED BY <1>2, <1>3

\* The warning logs grow under the search.
LEMMA WorldWarn ==
    ASSUME LogShape, LogShape', WarnGapInv, Grown(warn, warn'),
           TimeIsUp \/ Write \/ Rotate \/ Lose \/ UNCHANGED logVars
    PROVE  WarnGapInv'
<1>1. UNCHANGED <<pc, answer, enabled, found, failed, records, queue, excluded, asked>>
  BY DEF TimeIsUp, Write, Rotate, Lose, keptVars, logVars, dirVars, fileVars, searchVars, callVars
<1>2. CompleteWhenClaimed'
  BY <1>1 DEF WarnGapInv, CompleteWhenClaimed
<1>3. ASSUME pc = "warning", NEW p \in DOMAIN queue, NEW row, WaitsIn(row, queue[p])
      PROVE  WaitsIn(row, queue[p])'
  <2> DEFINE k == queue[p].name
             f == warn[k]
             g == warn'[k]
  <2>1. k \in DOMAIN warn
    BY <1>3 DEF LogShape, ReaderInv
  <2>2. f \in Files /\ WellPlaced(f) /\ (g = f \/ Extends(f, g))
    BY <2>1 DEF LogShape, FilesKept, WellKept, Grown
  <2>3. PICK i \in DOMAIN f.lines : ShowsWarning(f.lines[i], row) /\ Upto(f, i) <= queue[p].size
    BY <1>3 DEF WaitsIn
  <2>4. i \in DOMAIN g.lines /\ g.lines[i] = f.lines[i] /\ Upto(g, i) = Upto(f, i)
    <3>1. CASE g = f
      BY <3>1, <2>3
    <3>2. CASE Extends(f, g)
      <4>1. i \in 1..Len(f.lines) /\ Size(f) \in Nat /\ 0 <= Size(f)
        BY <2>2, <2>3, FileShape, Places
      <4> HIDE DEF f, g, k
      <4>2. i \in 1..Len(g.lines) /\ g.lines[i] = f.lines[i] /\ Upto(g, i) = Upto(f, i)
        BY <2>2, <3>2, <4>1, SamePlaces
      <4>3. g \in Files
        BY <3>2 DEF Extends
      <4> QED BY <4>2, <4>3, FileShape
    <3> QED BY <2>2, <3>1, <3>2
  <2> HIDE DEF f, g
  <2>5. ShowsWarning(g.lines[i], row) /\ Upto(g, i) <= queue[p].size
    BY <2>3, <2>4
  <2> QED BY <1>1, <2>4, <2>5 DEF WaitsIn, g
<1>4. Ids(records)' = Ids(records) /\ Ids(found[Len(found)].records)' = Ids(found[Len(found)].records)
  BY <1>1 DEF Ids, Id
<1>5. (pc = "warning" /\ excluded["warning"] = 0) =>
         \A row \in asked : row[1] = "warning" =>
            \/ row \in Ids(records)
            \/ \E p \in DOMAIN queue : WaitsIn(row, queue[p])'
  BY <1>3 DEF WarnGapInv
<1> QED BY <1>1, <1>2, <1>4, <1>5 DEF WarnGapInv

-----------------------------------------------------------------------------
\* As long as there are no more of them than asked for, the newest are all.
LEMMA NewestAreAll ==
    ASSUME NEW ids, IsFiniteSet(ids), \A a \in ids : a[2] \in Nat /\ a[3] \in Nat,
           NEW n \in Nat, Cardinality(ids) <= n
    PROVE  ids \subseteq Newest(ids, n)
<1> SUFFICES ASSUME NEW a \in ids PROVE a \in Newest(ids, n)
  OBVIOUS
<1> DEFINE above == {b \in ids : Newer(b, a)}
<1>1. a \notin above
  BY DEF Newer
<1>2. above \subseteq ids \ {a}
  BY <1>1
<1>3. IsFiniteSet(ids \ {a}) /\ Cardinality(ids \ {a}) = Cardinality(ids) - 1 /\ Cardinality(ids) \in Nat
  BY FS_RemoveElement, FS_CardinalityType
<1> HIDE DEF above
<1>4. Cardinality(above) <= Cardinality(ids \ {a}) /\ IsFiniteSet(above)
  BY <1>2, <1>3, FS_Subset
<1>5. Cardinality(above) \in Nat
  BY <1>4, FS_CardinalityType
<1>6. Cardinality(above) < n
  BY <1>3, <1>4, <1>5
<1> QED BY <1>6 DEF Newest, above

\* An answer that is not truncated holds everything that was asked for.
LEMMA MergeWarn ==
    ASSUME LogShape, LogShape', GapInv, WarnGapInv, Merge PROVE WarnGapInv'
<1> DEFINE ids == UNION {Ids(found[k].records) : k \in 1..Len(found)}
<1>1. /\ pc = "merging" /\ pc' = "done" /\ answer' = Merged(found, wanted)
      /\ UNCHANGED <<enabled, asked, excluded, failed>>
  BY DEF Merge, Reply, dirVars, searchVars, callVars
<1>2. /\ found \in Seq(Reports) /\ Len(found) \in Nat /\ wanted \in Nat /\ enabled \subseteq Sources
      /\ Len(found) = ReadersOf(enabled)
      /\ \A k \in 1..Len(found) : found[k] \in Reports
  <2>1. /\ found \in Seq(Reports) /\ wanted \in Nat /\ enabled \subseteq Sources
        /\ Len(found) = ReadersOf(enabled)
    BY <1>1 DEF LogShape, LogTypeOK, ReaderInv, Reports
  <2> QED BY <2>1, LenProperties
<1>3. \A k \in 1..Len(found) : \A m \in 1..Len(found[k].records) :
         found[k].records \in Seq(LogRecords) /\ found[k].records[m] \in LogRecords
  BY <1>2 DEF Reports
<1>4. IsFiniteSet(ids)
  <2>1. ASSUME NEW rs \in Seq(LogRecords) PROVE IsFiniteSet(Ids(rs))
    <3>1. Len(rs) \in Nat /\ 1 \in Int /\ Len(rs) \in Int
      OBVIOUS
    <3>2. IsFiniteSet(1..Len(rs))
      BY <3>1, FS_Interval
    <3> DEFINE g == [k \in 1..Len(rs) |-> Id(rs[k])]
    <3>3. g \in Surjection(1..Len(rs), Ids(rs))
      BY DEF Ids, Surjection
    <3> HIDE DEF g
    <3> QED BY <3>2, <3>3, FS_Surjection
  <2>2. IsFiniteSet(1..Len(found))
    <3>1. 1 \in Int /\ Len(found) \in Int
      BY <1>2
    <3> QED BY <3>1, FS_Interval
  <2> DEFINE all == {Ids(found[k].records) : k \in 1..Len(found)}
             h == [k \in 1..Len(found) |-> Ids(found[k].records)]
  <2>3. h \in Surjection(1..Len(found), all)
    BY DEF Surjection
  <2>4. IsFiniteSet(all)
    <3> HIDE DEF h, all
    <3> QED BY <2>2, <2>3, FS_Surjection
  <2>5. \A S \in all : IsFiniteSet(S)
    BY <1>2, <2>1 DEF Reports
  <2> HIDE DEF all
  <2>6. IsFiniteSet(UNION all)
    BY <2>4, <2>5, FS_UNION
  <2> QED BY <2>6 DEF all
<1>5. \A a \in ids : a[2] \in Nat /\ a[3] \in Nat
  <2> SUFFICES ASSUME NEW k \in 1..Len(found), NEW a \in Ids(found[k].records)
               PROVE  a[2] \in Nat /\ a[3] \in Nat
    OBVIOUS
  <2>1. PICK m \in 1..Len(found[k].records) : a = Id(found[k].records[m])
    BY DEF Ids
  <2>2. found[k].records[m].time \in Nat /\ found[k].records[m].what \in Nat
    BY <1>3 DEF LogRecords
  <2> QED BY <2>1, <2>2 DEF Id
<1>6. ASSUME ~answer'.truncated, failed = {}, excluded["warning"] = 0, NEW row \in asked
      PROVE  row \in answer'.items
  <2>1. /\ \A k \in 1..Len(found) : ~found[k].truncated
        /\ ~(Cardinality(ids) > wanted) /\ answer'.items = Newest(ids, wanted)
    BY <1>1, <1>6 DEF Merged
  <2>2. row \in ids
    <3>1. row[1] \in enabled /\ row[1] \in Sources
      BY <1>2 DEF WarnGapInv
    <3>2. CASE row[1] = "iis"
      <4>1. "iis" \in enabled \ failed /\ 1 \in 1..Len(found) /\ Len(found) > 0
        BY <1>2, <1>6, <3>1, <3>2 DEF ReadersOf
      <4>2. IisFound = found[1]
        BY <4>1 DEF IisFound
      <4>3. row \in Ids(found[1].records)
        BY <2>1, <3>2, <4>1, <4>2 DEF GapInv, NoGap
      <4> QED BY <4>1, <4>3
    <3>3. CASE row[1] = "warning"
      <4>1. "warning" \in enabled /\ Len(found) \in 1..Len(found)
        BY <1>2, <3>1, <3>3 DEF ReadersOf
      <4>2. row \in Ids(found[Len(found)].records)
        BY <1>1, <1>6, <2>1, <3>3, <4>1 DEF WarnGapInv
      <4> QED BY <4>1, <4>2
    <3> QED BY <3>1, <3>2, <3>3 DEF Sources
  <2> HIDE DEF ids
  <2>3. Cardinality(ids) <= wanted
    BY <1>2, <1>4, <2>1, FS_CardinalityType
  <2>4. ids \subseteq Newest(ids, wanted)
    BY <1>2, <1>4, <1>5, <2>3, NewestAreAll
  <2> QED BY <2>1, <2>2, <2>4
<1>7. CompleteWhenClaimed'
  BY <1>1, <1>6 DEF CompleteWhenClaimed
<1> QED BY <1>1, <1>7 DEF WarnGapInv, IisPhases, Scanning

\* Every step keeps track of the warnings, and every answer what it claims.
LEMMA WarnGapStep ==
    ASSUME LogShape, LogShape', GapInv, WarnGapInv, [LogNext]_logVars PROVE WarnGapInv'
<1>1. Grown(warn, warn') /\ enabled' = enabled
  BY FilesStep DEF LogShape
<1>2. CASE Ask
  <2>1. /\ pc = "idle" /\ asked' = asked
        /\ pc' \in {"done", "selecting", "locating"} /\ (pc' = "done" => answer'.kind = "error")
    BY <1>2 DEF Ask, Reply, StartReader, Failure
  <2>2. asked = {}
    BY <2>1 DEF GapInv
  <2> QED BY <1>1, <2>1, <2>2, WarnElsewhere
<1>3. CASE SourceFails \/ WarningFails
  <2>1. asked' = asked /\ pc' = "done" /\ answer'.kind = "error"
    BY <1>3 DEF SourceFails, WarningFails, Reply, callVars, Failure
  <2> QED BY <1>1, <2>1, WarnElsewhere DEF IisPhases, Scanning
<1>4. CASE SelectCandidates
  <2>1. pc = "selecting" /\ pc' = "nextFile" /\ asked' = StandingRows
    BY <1>4 DEF SelectCandidates
  <2>2. "iis" \in enabled
    BY <2>1 DEF LogShape, ReaderInv, IisPhases
  <2>3. \A row \in StandingRows : row[1] = "iis"
    BY DEF StandingRows
  <2>4. CompleteWhenClaimed'
    BY <2>1, NoAnswerYet
  <2> QED BY <1>1, <2>1, <2>2, <2>3, <2>4 DEF WarnGapInv
<1>5. CASE OpenFile \/ ReadFails
  <2>1. pc \in Scanning /\ asked' = asked /\ pc' \in Scanning
    BY <1>5 DEF OpenFile, ReadFails, Scanning, callVars
  <2>2. \A row \in asked : row[1] = "iis"
    BY <2>1 DEF WarnGapInv, IisPhases
  <2> QED BY <1>1, <2>1, <2>2, WarnElsewhere DEF Scanning
<1>6. CASE EndOfScan \/ StopInFile \/ ReadChunk
  BY <1>6, EndScanWarn, ReadIisWarn
<1>7. CASE Locate \/ EndOfWarnings \/ ReadWarnings \/ Merge
  BY <1>7, LocateWarn, WarningsWarn, MergeWarn
<1>8. CASE TimeIsUp \/ Write \/ Rotate \/ Lose \/ UNCHANGED logVars
  BY <1>1, <1>8, WorldWarn
<1> QED BY <1>2, <1>3, <1>4, <1>5, <1>6, <1>7, <1>8 DEF LogNext, SearchStep, Failing
-----------------------------------------------------------------------------
\* The invariant of a search holds at its start.
LEMMA LogInvInit == LogInit => LogInv
BY ShapeInit, GapsInit DEF LogInv

\* Each part of the invariant is kept with the help of those before it.
LEMMA LogInvStep == LogInv /\ [LogNext]_logVars => LogInv'
<1> SUFFICES ASSUME LogInv, [LogNext]_logVars PROVE LogInv'
  OBVIOUS
<1>1. LogShape'
  BY ShapeStep DEF LogInv
<1>2. ScanInv' /\ GapInv' /\ WarnGapInv'
  BY <1>1, ScanStep, GapStep, WarnGapStep DEF LogInv
<1> QED BY <1>1, <1>2 DEF LogInv

\* The inductive invariant of a search of the logs.
THEOREM LogInvariant == LogSpec => []LogInv
<1> QED BY LogInvInit, LogInvStep, PTL DEF LogSpec
-----------------------------------------------------------------------------
(* The database tools.                                                      *)

HealthPhases == {"count", "backup", "closeFailed", "diagnose", "dnsProbe", "tcpProbe"}
Opened == {"count", "backup", "close", "closeFailed"}
Probing == {"diagnose", "dnsProbe", "tcpProbe"}
Bad(layer, n) == n[layer] \in {"down", "slow"}
NameKnown(n) == HostIsAddress \/ n["dns"] = "ok"

\* What the history records, and which tool each phase belongs to.
PhaseInv ==
    /\ DbTypeOK
    /\ net \in history.nets /\ history.nets \subseteq Networks /\ ticket \in history.tickets
    /\ history = [nets |-> history.nets, tickets |-> history.tickets]
    /\ call.tool \in {"get_database_health", "find_rows", "get_ticket_diagnostic_record"}
    /\ call.limit \in Nat /\ rows \in Nat
    /\ dbpc \in HealthPhases => call.tool = "get_database_health"
    /\ dbpc = "select" => call.tool = "find_rows"
    /\ dbpc \in {"stats", "actor"} => call.tool = "get_ticket_diagnostic_record"
    /\ dbpc \notin {"close", "closeFailed", "answered"} => result.state = "none"
    /\ dbpc \in {"close", "closeFailed", "answered"} => result.state # "none"
    /\ dbpc = "close" /\ call.tool = "get_database_health" => result.state = "CONNECTED"

\* Why an answer is grounded, before it is given.
BlameInv ==
    /\ dbpc \in Opened /\ call.tool = "get_database_health" => \E n \in history.nets : Open(n)
    /\ dbpc = "dnsProbe" => ~HostIsAddress
    /\ dbpc \in Probing =>
          /\ fault.auth => Was("login", {"down"})
          /\ \E layer \in {"pool", "dns", "tcp", "login"} : Was(layer, {"down", "slow"})
    /\ dbpc \in {"close", "closeFailed", "answered"} => Grounded

\* What is known of a network that does not change.
FaultFits(f, n) ==
    /\ f.auth => n["pool"] = "ok" /\ NameKnown(n) /\ n["tcp"] = "ok" /\ n["login"] = "down"
    /\ ~f.auth /\ NameKnown(n) /\ n["tcp"] = "ok" =>
          f.timeout /\ (n["pool"] # "ok" \/ n["login"] # "down")
SteadyInv ==
    history.nets = {net} /\ call.tool = "get_database_health" =>
        /\ dbpc \in Opened => Open(net)
        /\ dbpc \in {"backup", "close"} => net["query"] = "ok"
        /\ dbpc \in {"close", "closeFailed"} => result.state = Diagnosis(net)
        /\ dbpc \in Probing => ~Open(net) /\ FaultFits(fault, net)
        /\ dbpc \in {"dnsProbe", "tcpProbe"} => ~fault.auth
        /\ dbpc = "dnsProbe" => ~HostIsAddress
        /\ dbpc = "tcpProbe" => NameKnown(net)
        /\ SteadyFaultNamed

\* The two statements of a ticket record see one ticket.
TicketInv ==
    /\ dbpc = "actor" => counted = Counts(ticket)
    /\ RecordsCoherent

DbInv == PhaseInv /\ BlameInv /\ SteadyInv /\ TicketInv
-----------------------------------------------------------------------------
\* Every network says of every layer how it is.
LEMMA NetworkType ==
    ASSUME NEW n \in Networks
    PROVE  \A l \in Layers : n[l] \in Conditions
BY DatabaseAssumption

\* The first layer that is not well: those before it are.
LEMMA FirstBrokenFact ==
    ASSUME NEW n \in Networks, Broken(n) # {}
    PROVE  \/ FirstBroken(n) = "pool" /\ n["pool"] # "ok"
           \/ FirstBroken(n) = "dns" /\ n["pool"] = "ok" /\ ~NameKnown(n)
           \/ FirstBroken(n) = "tcp" /\ n["pool"] = "ok" /\ NameKnown(n) /\ n["tcp"] # "ok"
           \/ FirstBroken(n) = "login" /\ n["pool"] = "ok" /\ NameKnown(n) /\ n["tcp"] = "ok"
              /\ n["login"] # "ok"
<1> DEFINE First(k) == k \in Broken(n) /\ \A j \in Broken(n) : k <= j
<1>1. \E k \in Broken(n) : \A j \in Broken(n) : k <= j
  <2>1. Broken(n) \subseteq 1..4
    BY DEF Broken, Path
  <2>2. CASE 1 \in Broken(n)
    BY <2>1, <2>2
  <2>3. CASE 1 \notin Broken(n) /\ 2 \in Broken(n)
    BY <2>1, <2>3
  <2>4. CASE 1 \notin Broken(n) /\ 2 \notin Broken(n) /\ 3 \in Broken(n)
    BY <2>1, <2>4
  <2>5. CASE 1 \notin Broken(n) /\ 2 \notin Broken(n) /\ 3 \notin Broken(n)
    BY <2>1, <2>5
  <2>6. QED
    BY <2>2, <2>3, <2>4, <2>5
<1>2. PICK k : k = (CHOOSE i \in Broken(n) : \A j \in Broken(n) : i <= j)
  OBVIOUS
<1>3. First(k) /\ FirstBroken(n) = Path[k]
  BY <1>1, <1>2 DEF FirstBroken
<1>4. CASE HostIsAddress
  <2>1. Path = <<"pool", "tcp", "login">>
    BY <1>4 DEF Path
  <2>2. k \in 1..3 /\ n[Path[k]] # "ok" /\ \A j \in 1..3 : n[Path[j]] # "ok" => k <= j
    BY <1>3, <2>1 DEF Broken
  <2>3. Path[1] = "pool" /\ Path[2] = "tcp" /\ Path[3] = "login"
    BY <2>1
  <2>4. QED
    BY <1>3, <1>4, <2>2, <2>3 DEF NameKnown
<1>5. CASE ~HostIsAddress
  <2>1. Path = <<"pool", "dns", "tcp", "login">>
    BY <1>5 DEF Path
  <2>2. k \in 1..4 /\ n[Path[k]] # "ok" /\ \A j \in 1..4 : n[Path[j]] # "ok" => k <= j
    BY <1>3, <2>1 DEF Broken
  <2>3. Path[1] = "pool" /\ Path[2] = "dns" /\ Path[3] = "tcp" /\ Path[4] = "login"
    BY <2>1
  <2>4. QED
    BY <1>3, <1>5, <2>2, <2>3 DEF NameKnown
<1>6. QED
  BY <1>4, <1>5

\* Over an open way the server answers, and every layer of a way without a fault is well.
LEMMA OpenFact ==
    ASSUME NEW n \in Networks, Open(n)
    PROVE  n["tcp"] = "ok"
<1>1. CASE Reusable(n)
  BY <1>1 DEF Reusable
<1>2. CASE Broken(n) = {} /\ HostIsAddress
  <2>1. 2 \in DOMAIN Path /\ Path[2] = "tcp"
    BY <1>2 DEF Path
  <2>2. QED
    BY <1>2, <2>1 DEF Broken
<1>3. CASE Broken(n) = {} /\ ~HostIsAddress
  <2>1. 3 \in DOMAIN Path /\ Path[3] = "tcp"
    BY <1>3 DEF Path
  <2>2. QED
    BY <1>3, <2>1 DEF Broken
<1>4. QED
  BY <1>1, <1>2, <1>3 DEF Open

\* What the exception of a failed connection tells.
LEMMA RaisedFact ==
    ASSUME NEW n \in Networks, ~Open(n), NEW f \in Raised(n)
    PROVE  /\ f \in [auth : BOOLEAN, timeout : BOOLEAN]
           /\ FaultFits(f, n)
           /\ \E layer \in {"pool", "dns", "tcp", "login"} : Bad(layer, n)
<1>1. Broken(n) # {}
  BY DEF Open
<1>2. \A l \in Layers : n[l] \in {"ok", "down", "slow"}
  BY NetworkType DEF Conditions
<1>3. /\ f \in [auth : BOOLEAN, timeout : BOOLEAN]
      /\ f.auth <=> (FirstBroken(n) = "login" /\ n["login"] = "down")
      /\ FirstBroken(n) = "pool" \/ (FirstBroken(n) = "login" /\ n["login"] = "slow") => f.timeout
  BY DEF Raised
<1>4. "pool" \in Layers /\ "dns" \in Layers /\ "tcp" \in Layers /\ "login" \in Layers
  BY DEF Layers
<1>5. \/ FirstBroken(n) = "pool" /\ n["pool"] # "ok"
      \/ FirstBroken(n) = "dns" /\ n["pool"] = "ok" /\ ~NameKnown(n)
      \/ FirstBroken(n) = "tcp" /\ n["pool"] = "ok" /\ NameKnown(n) /\ n["tcp"] # "ok"
      \/ FirstBroken(n) = "login" /\ n["pool"] = "ok" /\ NameKnown(n) /\ n["tcp"] = "ok"
         /\ n["login"] # "ok"
  BY <1>1, FirstBrokenFact
<1>6. FaultFits(f, n)
  BY <1>2, <1>3, <1>4, <1>5 DEF FaultFits
<1>7. \E layer \in {"pool", "dns", "tcp", "login"} : Bad(layer, n)
  BY <1>2, <1>4, <1>5 DEF Bad, NameKnown
<1>8. QED
  BY <1>3, <1>6, <1>7
-----------------------------------------------------------------------------
\* The invariant holds at the start.
LEMMA DbInitInv == DbInit => DbInv
<1> SUFFICES ASSUME DbInit PROVE DbInv
  OBVIOUS
<1>1. PhaseInv
  <2>1. DbTypeOK
    BY DatabaseAssumption DEF DbInit, DbTypeOK, NoFault, NoResult, HealthStates
  <2>2. call.limit \in Nat /\ rows \in Nat
        /\ call.tool \in {"get_database_health", "find_rows", "get_ticket_diagnostic_record"}
    <3>1. CASE \E n \in RowLimits : call = [tool |-> "find_rows", limit |-> n] /\ rows \in Matching
      BY <3>1, DatabaseAssumption DEF NoLimit
    <3>2. CASE call.tool \in {"get_database_health", "get_ticket_diagnostic_record"}
               /\ call.limit = NoLimit /\ rows = 0
      BY <3>2 DEF NoLimit
    <3>3. QED
      BY <3>1, <3>2 DEF DbInit
  <2>3. /\ net \in history.nets /\ history.nets \subseteq Networks /\ ticket \in history.tickets
        /\ history = [nets |-> history.nets, tickets |-> history.tickets]
    BY DEF DbInit
  <2>4. QED
    BY <2>1, <2>2, <2>3 DEF DbInit, PhaseInv, NoResult, HealthPhases
<1>2. BlameInv
  BY DEF DbInit, BlameInv, Opened, Probing
<1>3. SteadyInv
  BY DEF DbInit, SteadyInv, Opened, Probing, SteadyFaultNamed
<1>4. TicketInv
  BY DEF DbInit, TicketInv, RecordsCoherent, NoResult
<1>5. QED
  BY <1>1, <1>2, <1>3, <1>4 DEF DbInv

\* A handler either has a failure diagnosed or answers with an error.
LEMMA HandledFact ==
    ASSUME PhaseInv, NEW f \in [auth : BOOLEAN, timeout : BOOLEAN], Handled(f)
    PROVE  \/ /\ call.tool = "get_database_health"
              /\ dbpc' = "diagnose" /\ fault' = f /\ result' = NoResult
           \/ /\ call.tool # "get_database_health"
              /\ dbpc' = "answered" /\ fault' = fault /\ result'.state = "error"
BY DEF PhaseInv, Handled, Refusals, Answered

\* The steps of a call keep the phases in order.
LEMMA PhaseStep == DbInv /\ DbNext => PhaseInv'
<1> SUFFICES ASSUME DbInv, DbNext PROVE PhaseInv'
  OBVIOUS
<1> USE DEF DbInv, PhaseInv, DbTypeOK, HealthPhases, HealthStates, dbWorld
<1>1. CASE Connect
  BY <1>1, RaisedFact, HandledFact DEF Connect, NoResult
<1>2. CASE CountSessions
  BY <1>2 DEF CountSessions, Health
<1>3. CASE FetchBackupStatus
  BY <1>3 DEF FetchBackupStatus, Health
<1>4. CASE Close
  <2>1. CASE dbpc' = "answered" /\ UNCHANGED <<fault, result>>
    BY <1>4, <2>1 DEF Close
  <2>2. CASE \E f \in [auth : {FALSE}, timeout : BOOLEAN] : Handled(f)
    <3>1. PICK f \in [auth : {FALSE}, timeout : BOOLEAN] : Handled(f)
      BY <2>2
    <3>2. f \in [auth : BOOLEAN, timeout : BOOLEAN]
      OBVIOUS
    <3>3. QED
      BY <1>4, <3>1, <3>2, HandledFact DEF Close, NoResult
  <2>3. QED
    BY <1>4, <2>1, <2>2 DEF Close
<1>5. CASE Diagnose
  BY <1>5 DEF Diagnose, Unavailable, Answered, Health
<1>6. CASE ProbeDns
  BY <1>6 DEF ProbeDns, Unavailable, Answered, Health
<1>7. CASE ProbeTcp
  BY <1>7 DEF ProbeTcp, TcpVerdict, Unavailable, Answered, Health
<1>8. CASE SelectRows
  BY <1>8 DEF SelectRows, Refusals, Answered
<1>9. CASE TicketStats
  BY <1>9 DEF TicketStats, Refusals, Answered
<1>10. CASE LatestActor
  BY <1>10 DEF LatestActor, Refusals, Answered
<1>11. CASE NetworkChanges
  <2>1. history' = [nets |-> history.nets \cup {net'}, tickets |-> history.tickets]
    BY <1>11 DEF NetworkChanges
  <2>2. changes' \in 0..MaxChanges
    BY <1>11, DatabaseAssumption DEF NetworkChanges
  <2>3. QED
    <3>1. /\ net' \in Networks /\ net' \in history'.nets /\ history'.nets \subseteq Networks
          /\ ticket' \in history'.tickets
          /\ history' = [nets |-> history'.nets, tickets |-> history'.tickets]
      BY <1>11, <2>1 DEF NetworkChanges
    <3>2. UNCHANGED <<rows, call, dbpc, fault, result>>
      BY <1>11 DEF NetworkChanges
    <3>3. QED
      BY <2>2, <3>1, <3>2
<1>12. CASE TicketChanges
  <2>1. history' = [nets |-> history.nets, tickets |-> history.tickets \cup {ticket'}]
    BY <1>12 DEF TicketChanges
  <2>2. changes' \in 0..MaxChanges
    BY <1>12, DatabaseAssumption DEF TicketChanges
  <2>3. QED
    BY <1>12, <2>1, <2>2 DEF TicketChanges
<1>13. QED
  BY <1>1, <1>2, <1>3, <1>4, <1>5, <1>6, <1>7, <1>8, <1>9, <1>10, <1>11, <1>12 DEF DbNext, DbStep

\* What was known of the networks of the past stays known.
LEMMA HistoryGrows ==
    ASSUME DbInv, DbNext
    PROVE  /\ history.nets \subseteq history'.nets /\ idle' = idle
           /\ (\E n \in history.nets : Open(n)) => \E n \in history'.nets : Open(n)'
           /\ \A l, c : Was(l, c) => Was(l, c)'
<1>1. history.nets \subseteq history'.nets
  BY DEF DbInv, PhaseInv, DbNext, DbStep, Connect, CountSessions, FetchBackupStatus, Close, Diagnose,
         ProbeDns, ProbeTcp, SelectRows, TicketStats, LatestActor, NetworkChanges, TicketChanges, dbWorld
<1>2. idle' = idle
  BY DEF DbNext, DbStep, Connect, CountSessions, FetchBackupStatus, Close, Diagnose,
         ProbeDns, ProbeTcp, SelectRows, TicketStats, LatestActor, NetworkChanges, TicketChanges, dbWorld
<1>3. QED
  BY <1>1, <1>2 DEF Was, Open, Reusable

\* An answer is grounded when it is found, and stays so.
LEMMA BlameStep == DbInv /\ DbNext => BlameInv'
<1> SUFFICES ASSUME DbInv, DbNext PROVE BlameInv'
  OBVIOUS
<1> USE DEF DbInv, PhaseInv, DbTypeOK, BlameInv, HealthPhases, Opened, Probing, dbWorld
<1>h. /\ net \in Networks /\ net \in history.nets
      /\ net["query"] \in Conditions /\ net["tcp"] \in Conditions /\ net["dns"] \in Conditions
  BY NetworkType DEF Layers
<1>1. CASE Connect
  <2>1. CASE Open(net)
    BY <1>1, <1>h, <2>1 DEF Connect, Open, Reusable
  <2>2. CASE ~Open(net)
    <3>1. PICK f \in Raised(net) : Handled(f)
      BY <1>1, <2>2 DEF Connect
    <3>2. f \in [auth : BOOLEAN, timeout : BOOLEAN] /\ (f.auth => Was("login", {"down"}))
          /\ \E layer \in {"pool", "dns", "tcp", "login"} : Was(layer, {"down", "slow"})
      BY <1>h, <2>2, RaisedFact DEF FaultFits, Bad, Was
    <3>3. history' = history
      BY <1>1 DEF Connect
    <3>4. CASE dbpc' = "diagnose" /\ fault' = f /\ result' = NoResult
      BY <3>2, <3>3, <3>4 DEF Was
    <3>5. CASE dbpc' = "answered" /\ result'.state = "error"
      BY <3>5 DEF Grounded
    <3>6. QED
      BY <3>1, <3>2, <3>4, <3>5, HandledFact
  <2>3. QED
    BY <2>1, <2>2
<1>2. CASE CountSessions
  <2>1. history' = history /\ idle' = idle /\ \E n \in history'.nets : Open(n)'
    BY <1>2, HistoryGrows DEF CountSessions
  <2>2. CASE StatementFails(net, "query")
    <3>1. Was("query", {"down", "slow"}) \/ Was("tcp", {"down", "slow"})
      BY <1>h, <2>2 DEF StatementFails, Was, Conditions
    <3>2. (Was("query", {"down", "slow"}) \/ Was("tcp", {"down", "slow"}))'
      BY <2>1, <3>1 DEF Was
    <3>3. dbpc' = "closeFailed"
          /\ result'.state \in {"DATABASE_QUERY_TIMEOUT", "DATABASE_QUERY_FAILURE"}
      BY <1>2, <2>2 DEF CountSessions, Health
    <3>4. QED
      BY <2>1, <3>2, <3>3 DEF Grounded
  <2>3. CASE ~StatementFails(net, "query")
    BY <1>2, <2>1, <2>3 DEF CountSessions
  <2>4. QED
    BY <2>2, <2>3
<1>3. CASE FetchBackupStatus
  <2>1. \E n \in history'.nets : Open(n)'
    BY <1>3, HistoryGrows DEF FetchBackupStatus
  <2>2. dbpc' = "close" /\ result'.state = "CONNECTED" /\ result'.healthy
    BY <1>3 DEF FetchBackupStatus, Health
  <2>3. QED
    BY <2>1, <2>2 DEF Grounded
<1>4. CASE Close
  <2>1. history' = history /\ idle' = idle
    BY <1>4 DEF Close
  <2>2. CASE dbpc' = "answered" /\ UNCHANGED <<fault, result>>
    BY <1>4, <2>1, <2>2 DEF Close, Grounded, Was, Open, Reusable
  <2>3. CASE net["tcp"] # "ok" /\ \E f \in [auth : {FALSE}, timeout : BOOLEAN] : Handled(f)
    <3>1. PICK f \in [auth : {FALSE}, timeout : BOOLEAN] : Handled(f)
      BY <2>3
    <3>2. f \in [auth : BOOLEAN, timeout : BOOLEAN] /\ ~f.auth
      OBVIOUS
    <3>3. Was("tcp", {"down", "slow"})'
      BY <1>h, <2>1, <2>3 DEF Was, Conditions
    <3>4. CASE dbpc' = "diagnose" /\ fault' = f /\ result' = NoResult
      BY <3>2, <3>3, <3>4
    <3>5. CASE dbpc' = "answered" /\ result'.state = "error"
      BY <3>5 DEF Grounded
    <3>6. QED
      BY <3>1, <3>2, <3>4, <3>5, HandledFact
  <2>4. QED
    BY <1>4, <2>2, <2>3 DEF Close
<1>5. CASE Diagnose
  BY <1>5, <1>h DEF Diagnose, Unavailable, Answered, Health, Grounded, Was
<1>6. CASE ProbeDns
  <2>1. CASE net["dns"] # "ok"
    <3>1. Was("dns", {"down", "slow"})'
      BY <1>6, <1>h, <2>1 DEF ProbeDns, Was, Conditions
    <3>2. dbpc' = "answered" /\ result'.state = "DNS_RESOLUTION_FAILURE"
      BY <1>6, <2>1 DEF ProbeDns, Unavailable, Answered, Health
    <3>3. ~HostIsAddress
      BY <1>6 DEF ProbeDns
    <3>4. QED
      BY <3>1, <3>2, <3>3 DEF Grounded
  <2>2. CASE net["dns"] = "ok"
    BY <1>6, <2>2, HistoryGrows DEF ProbeDns
  <2>3. QED
    BY <2>1, <2>2
<1>7. CASE ProbeTcp
  BY <1>7, <1>h DEF ProbeTcp, TcpVerdict, Unavailable, Answered, Health, Grounded, Was, Conditions
<1>8. CASE SelectRows
  BY <1>8 DEF SelectRows, Refusals, Answered, Grounded
<1>9. CASE TicketStats
  BY <1>9 DEF TicketStats, Refusals, Answered, Grounded
<1>10. CASE LatestActor
  BY <1>10 DEF LatestActor, Refusals, Answered, Grounded
<1>11. CASE NetworkChanges
  BY <1>11, HistoryGrows DEF NetworkChanges, Grounded
<1>12. CASE TicketChanges
  BY <1>12, HistoryGrows DEF TicketChanges, Grounded
<1>13. QED
  BY <1>1, <1>2, <1>3, <1>4, <1>5, <1>6, <1>7, <1>8, <1>9, <1>10, <1>11, <1>12 DEF DbNext, DbStep

\* The diagnosis of a network that does not change fits it.
LEMMA SteadyStep == DbInv /\ DbNext => SteadyInv'
<1> SUFFICES ASSUME DbInv, DbNext PROVE SteadyInv'
  OBVIOUS
<1> USE DEF DbInv, PhaseInv, DbTypeOK, SteadyInv, HealthPhases, Opened, Probing, dbWorld
<1>h. /\ net \in Networks /\ net \in history.nets
      /\ net["query"] \in Conditions /\ net["tcp"] \in Conditions /\ net["dns"] \in Conditions
  BY NetworkType DEF Layers
<1>1. CASE Connect
  BY <1>1, <1>h, RaisedFact, HandledFact DEF Connect, SteadyFaultNamed, Open, Reusable, FaultFits, NameKnown
<1>2. CASE CountSessions
  <2>0. SUFFICES ASSUME history.nets = {net} PROVE SteadyInv'
    BY <1>2 DEF CountSessions
  <2>1. Open(net) /\ net["tcp"] = "ok" /\ Open(net)' /\ net' = net
    BY <1>2, <1>h, <2>0, OpenFact DEF CountSessions, Open, Reusable
  <2>2. CASE StatementFails(net, "query")
    <3>1. net["query"] \in {"down", "slow"} /\ dbpc' = "closeFailed"
          /\ result'.state = IF net["query"] = "slow" THEN "DATABASE_QUERY_TIMEOUT"
                             ELSE "DATABASE_QUERY_FAILURE"
      <4>1. net["query"] \in {"down", "slow"}
        BY <1>h, <2>1, <2>2 DEF StatementFails, Conditions
      <4>2. StatementFault(net, "query").timeout <=> net["query"] = "slow"
        BY <2>1 DEF StatementFault
      <4>3. QED
        BY <1>2, <2>2, <4>1, <4>2 DEF CountSessions, Health
    <3>2. result'.state = Diagnosis(net)'
      <4>1. CASE net["query"] = "slow"
        BY <2>1, <3>1, <4>1 DEF Diagnosis
      <4>2. CASE net["query"] = "down"
        BY <2>1, <3>1, <4>2 DEF Diagnosis
      <4>3. QED
        BY <3>1, <4>1, <4>2
    <3>3. QED
      BY <2>1, <3>1, <3>2 DEF SteadyFaultNamed
  <2>3. CASE ~StatementFails(net, "query")
    BY <1>2, <2>1, <2>3 DEF CountSessions, StatementFails, SteadyFaultNamed
  <2>4. QED
    BY <2>2, <2>3
<1>3. CASE FetchBackupStatus
  BY <1>3, <1>h DEF FetchBackupStatus, Diagnosis, Open, Reusable, Health, SteadyFaultNamed
<1>4. CASE Close
  BY <1>4, <1>h, OpenFact, HandledFact DEF Close, SteadyFaultNamed, Diagnosis, Open, Reusable
<1>5. CASE Diagnose
  BY <1>5, <1>h DEF Diagnose, Unavailable, Answered, Health, SteadyFaultNamed, Diagnosis, Open, Reusable, FaultFits, NameKnown
<1>6. CASE ProbeDns
  <2>0. SUFFICES ASSUME history.nets = {net} PROVE SteadyInv'
    BY <1>6 DEF ProbeDns
  <2>1. net' = net /\ ~Open(net)' /\ FaultFits(fault, net) /\ ~fault.auth /\ call.tool = "get_database_health"
    BY <1>6, <2>0 DEF ProbeDns, Open, Reusable
  <2>2. CASE net["dns"] # "ok"
    <3>1. dbpc' = "answered" /\ result'.state = "DNS_RESOLUTION_FAILURE" /\ ~HostIsAddress
      BY <1>6, <2>0, <2>2 DEF ProbeDns, Unavailable, Answered, Health
    <3>2. result'.state = Diagnosis(net)'
      BY <2>1, <2>2, <3>1 DEF Diagnosis
    <3>3. QED
      BY <3>1, <3>2 DEF SteadyFaultNamed
  <2>3. CASE net["dns"] = "ok"
    <3>1. dbpc' = "tcpProbe" /\ fault' = fault /\ NameKnown(net)
      BY <1>6, <2>3 DEF ProbeDns, NameKnown
    <3>2. QED
      BY <2>1, <3>1 DEF SteadyFaultNamed
  <2>4. QED
    BY <2>2, <2>3
<1>7. CASE ProbeTcp
  <2>0. SUFFICES ASSUME history.nets = {net} PROVE SteadyInv'
    BY <1>7 DEF ProbeTcp
  <2>1. net' = net /\ ~Open(net)' /\ FaultFits(fault, net) /\ ~fault.auth /\ call.tool = "get_database_health"
    BY <1>7, <2>0 DEF ProbeTcp, Open, Reusable
  <2>2. NameKnown(net) /\ dbpc' = "answered"
    BY <1>7, <2>0, <2>1 DEF ProbeTcp, Unavailable, Answered
  <2> DEFINE tried == {net["tcp"]} \cup (IF HostIsAddress THEN {} ELSE {net["dns"]})
  <2>3. result'.state = TcpVerdict(tried)
    BY <1>7 DEF ProbeTcp, Unavailable, Answered, Health
  <2>4. TcpVerdict(tried) = Diagnosis(net)'
    <3>1. CASE net["tcp"] = "slow"
      <4>1. TcpVerdict(tried) = "TCP_CONNECTIVITY_TIMEOUT"
        BY <3>1 DEF TcpVerdict
      <4>2. QED
        BY <2>1, <2>2, <3>1, <4>1 DEF Diagnosis, NameKnown
    <3>2. CASE net["tcp"] = "down"
      <4>1. TcpVerdict(tried) = "TCP_CONNECTIVITY_FAILURE"
        BY <2>2, <3>2 DEF TcpVerdict, NameKnown
      <4>2. QED
        BY <2>1, <2>2, <3>2, <4>1 DEF Diagnosis, NameKnown
    <3>3. CASE net["tcp"] = "ok"
      <4>1. fault.timeout /\ (net["pool"] # "ok" \/ net["login"] # "down")
        BY <2>1, <2>2, <3>3 DEF FaultFits
      <4>2. "slow" \notin tried /\ "down" \notin tried
        BY <2>2, <3>3 DEF NameKnown
      <4>3. TcpVerdict(tried) = "DATABASE_CONNECTION_TIMEOUT"
        BY <4>1, <4>2 DEF TcpVerdict
      <4>4. QED
        BY <2>1, <2>2, <3>3, <4>1, <4>3 DEF Diagnosis, NameKnown
    <3>4. QED
      BY <1>h, <3>1, <3>2, <3>3 DEF Conditions
  <2>5. QED
    BY <2>1, <2>2, <2>3, <2>4 DEF SteadyFaultNamed
<1>8. CASE SelectRows
  BY <1>8 DEF SelectRows, Refusals, Answered, SteadyFaultNamed
<1>9. CASE TicketStats
  BY <1>9 DEF TicketStats, Refusals, Answered, SteadyFaultNamed
<1>10. CASE LatestActor
  BY <1>10 DEF LatestActor, Refusals, Answered, SteadyFaultNamed
<1>11. CASE NetworkChanges
  BY <1>11, <1>h DEF NetworkChanges, SteadyFaultNamed
<1>12. CASE TicketChanges
  BY <1>12 DEF TicketChanges, SteadyFaultNamed
<1>13. QED
  BY <1>1, <1>2, <1>3, <1>4, <1>5, <1>6, <1>7, <1>8, <1>9, <1>10, <1>11, <1>12 DEF DbNext, DbStep

\* The record of a ticket is one of its states; bounded rows are all or say so.
LEMMA TicketStep == DbInv /\ DbNext => TicketInv'
<1> SUFFICES ASSUME DbInv, DbNext PROVE TicketInv'
  OBVIOUS
<1> USE DEF DbInv, PhaseInv, DbTypeOK, TicketInv, HealthPhases, HealthStates, dbWorld
<1>1. CASE Connect
  BY <1>1, RaisedFact, HandledFact DEF Connect, RecordsCoherent, NoResult
<1>2. CASE CountSessions
  BY <1>2 DEF CountSessions, RecordsCoherent, Health
<1>3. CASE FetchBackupStatus
  BY <1>3 DEF FetchBackupStatus, RecordsCoherent, Health
<1>4. CASE Close
  <2>1. UNCHANGED <<history, rows>>
    BY <1>4 DEF Close
  <2>2. CASE dbpc' = "answered" /\ UNCHANGED <<fault, result>>
    BY <2>1, <2>2 DEF RecordsCoherent
  <2>3. CASE \E f \in [auth : {FALSE}, timeout : BOOLEAN] : Handled(f)
    <3>1. PICK f \in [auth : {FALSE}, timeout : BOOLEAN] : Handled(f)
      BY <2>3
    <3>2. f \in [auth : BOOLEAN, timeout : BOOLEAN]
      OBVIOUS
    <3>3. dbpc' # "actor" /\ result'.state \in {"none", "error"}
      BY <3>1, <3>2, HandledFact DEF NoResult
    <3>4. QED
      BY <3>3 DEF RecordsCoherent
  <2>4. QED
    BY <1>4, <2>2, <2>3 DEF Close
<1>5. CASE Diagnose
  BY <1>5 DEF Diagnose, Unavailable, Answered, Health, RecordsCoherent
<1>6. CASE ProbeDns
  BY <1>6 DEF ProbeDns, Unavailable, Answered, Health, RecordsCoherent
<1>7. CASE ProbeTcp
  BY <1>7 DEF ProbeTcp, TcpVerdict, Unavailable, Answered, Health, RecordsCoherent
<1>8. CASE SelectRows
  <2>1. CASE StatementFails(net, "query")
    BY <1>8, <2>1 DEF SelectRows, Refusals, Answered, RecordsCoherent
  <2>2. CASE ~StatementFails(net, "query")
    <3> DEFINE returned == LowerRow(rows, EffectiveLimit)
    <3>1. dbpc' = "close" /\ rows' = rows
          /\ result' = [state |-> "rows", returned |-> returned, truncated |-> returned = EffectiveLimit]
      BY <1>8, <2>2 DEF SelectRows
    <3>2. EffectiveLimit \in Nat /\ EffectiveLimit <= MaxRows
      BY DatabaseAssumption DEF EffectiveLimit, LowerRow
    <3>3. returned <= MaxRows /\ (returned # EffectiveLimit => returned = rows)
      BY <3>2, DatabaseAssumption DEF LowerRow
    <3>4. QED
      BY <3>1, <3>3 DEF RecordsCoherent
  <2>3. QED
    BY <2>1, <2>2
<1>9. CASE TicketStats
  BY <1>9 DEF TicketStats, Refusals, Answered, RecordsCoherent, Counts
<1>10. CASE LatestActor
  BY <1>10 DEF LatestActor, Refusals, Answered, RecordsCoherent
<1>11. CASE NetworkChanges
  BY <1>11 DEF NetworkChanges, RecordsCoherent
<1>12. CASE TicketChanges
  BY <1>12 DEF TicketChanges, SnapshotHeld, RecordsCoherent
<1>13. QED
  BY <1>1, <1>2, <1>3, <1>4, <1>5, <1>6, <1>7, <1>8, <1>9, <1>10, <1>11, <1>12 DEF DbNext, DbStep
-----------------------------------------------------------------------------
\* Each part of the invariant is kept.
LEMMA DbInvStep == DbInv /\ [DbNext]_dbVars => DbInv'
<1>1. DbInv /\ UNCHANGED dbVars => DbInv'
  BY DEF DbInv, PhaseInv, BlameInv, SteadyInv, TicketInv, DbTypeOK, Grounded, Was, Open, Reusable,
         Diagnosis, SteadyFaultNamed, RecordsCoherent, dbVars, dbWorld
<1>2. QED
  BY <1>1, PhaseStep, BlameStep, SteadyStep, TicketStep DEF DbInv

\* The inductive invariant of the database tools.
THEOREM DbInvariant == DbSpec => []DbInv
<1>1. QED
  BY DbInvStep, DbInitInv, PTL DEF DbSpec

\* A call for rows or for a ticket is never answered with a diagnosis, nor the other way round.
THEOREM DbTypeCorrect == DbSpec => []DbTypeOK
<1>1. DbInv => DbTypeOK
  BY DEF DbInv, PhaseInv
<1>2. QED
  BY <1>1, DbInvariant, PTL

\* The diagnosis of a network that stays as it is names the nearest layer that is not well.
THEOREM SteadyFaultsAreNamed == DbSpec => []SteadyFaultNamed
<1>1. DbInv => SteadyFaultNamed
  BY DEF DbInv, PhaseInv, SteadyInv, SteadyFaultNamed
<1>2. QED
  BY <1>1, DbInvariant, PTL

\* However the network changes meanwhile, no layer that was well all the time is blamed.
THEOREM NobodyIsBlamedInnocently == DbSpec => []NoneBlamedInnocently
<1>1. DbInv => NoneBlamedInnocently
  BY DEF DbInv, BlameInv, NoneBlamedInnocently
<1>2. QED
  BY <1>1, DbInvariant, PTL

\* The record of a ticket is one state of the ticket, and bounded rows are all there are or say so.
THEOREM RecordsAreCoherent == DbSpec => []RecordsCoherent
<1>1. DbInv => RecordsCoherent
  BY DEF DbInv, TicketInv
<1>2. QED
  BY <1>1, DbInvariant, PTL
-----------------------------------------------------------------------------
(* The server.                                                              *)

\* A call is a search of the logs or a question to the database; the other part rests.
LEMMA CallParts ==
    /\ Init => LogInit /\ DbInit
    /\ [Next]_vars => [LogNext]_logVars /\ [DbNext]_dbVars
<1>1. Init => LogInit /\ DbInit
  BY DEF Init, DatabaseRests, LogsRest
<1>2. [Next]_vars => [LogNext]_logVars /\ [DbNext]_dbVars
  BY DEF Next, vars, SearchLogs, AskDatabase
<1> QED BY <1>1, <1>2

\* Both invariants hold of every call of the server.
THEOREM ServerInvariant == Spec => []LogInv /\ []DbInv
<1>1. LogInv /\ [Next]_vars => LogInv'
  BY CallParts, LogInvStep
<1>2. DbInv /\ [Next]_vars => DbInv'
  BY CallParts, DbInvStep
<1>3. Init => LogInv /\ DbInv
  BY CallParts, LogInvInit, DbInitInv
<1> QED BY <1>1, <1>2, <1>3, PTL DEF Spec

\* LogTypeOK: a search keeps the limit of its caller and the byte bound of the reader that runs,
\* whatever the files hold and however large they grow.
THEOREM SearchesKeepTheirBounds == Spec => []LogTypeOK
<1>1. LogInv => LogTypeOK
  BY DEF LogInv, LogShape
<1> QED BY <1>1, ServerInvariant, PTL

\* NoGap: the reverse reader of _scan_file_reverse misses no request that stood in the logs, for
\* every size of chunk and line, unless it says that its answer is truncated; then what it misses
\* is not newer than anything it found.
THEOREM NoRequestIsMissed == Spec => []NoGap
<1>1. LogInv => NoGap
  BY DEF LogInv, GapInv
<1> QED BY <1>1, ServerInvariant, PTL

\* RecordsWhole: the carry of _split_chunk_lines never lets a part of a line pass for a request,
\* nor the line that IIS is still writing.
THEOREM NoFragmentIsReported == Spec => []RecordsWhole
<1>1. LogInv => RecordsWhole
  BY DEF LogInv, ScanInv
<1> QED BY <1>1, ServerInvariant, PTL

\* CompleteWhenClaimed: a merged answer that does not say it is truncated has everything of both
\* sources, but for the exceptions the property names.
THEOREM CompleteIsComplete == Spec => []CompleteWhenClaimed
<1>1. LogInv => CompleteWhenClaimed
  BY DEF LogInv, WarnGapInv
<1> QED BY <1>1, ServerInvariant, PTL
=============================================================================
