--------------------------- MODULE AdmissionProofs ---------------------------
(***************************************************************************)
(* What holds of the chunker for every text and every choice of its        *)
(* parameters, and of the corpus and the exit codes for every source and   *)
(* every command line.  The chunker's invariant says that sections tile    *)
(* the text, that chunks cover it up to some token, and where the next     *)
(* window stands relative to it.  A dry run foretells its ingest because   *)
(* the chunker is deterministic: two of its runs over one text are steps   *)
(* of one function, so that the first that has ended tells how the second  *)
(* will end.                                                               *)
(***************************************************************************)
EXTENDS Admission, TLAPS

Intervals == [from : Nat, to : Nat]

\* Sections that are not empty and follow one another from 0 to e.
Tiles(s, e) ==
    /\ \A i \in DOMAIN s : s[i].from < s[i].to
    /\ \A i \in 2..Len(s) : s[i].from = s[i-1].to
    /\ IF s = <<>> THEN e = 0 ELSE s[1].from = 0 /\ s[Len(s)].to = e

Covered == IF chunks = <<>> THEN 0 ELSE chunks[Len(chunks)].to
Below == IF part = 1 THEN 0 ELSE sections[part-1].to
Within(c) == \E s \in DOMAIN sections : sections[s].from <= c.from /\ c.to <= sections[s].to

ChunkType ==
    /\ text \in Texts /\ part \in Nat \ {0} /\ at \in Nat /\ buffer \in Nat /\ start \in Nat
    /\ sections \in Seq(Intervals) /\ chunks \in Seq(Intervals)
    /\ chunkpc \in {"idle", "partition", "split", "done", "failed"}

ChunksSoFar ==
    /\ \A t \in 0..(Covered - 1) : \E k \in DOMAIN chunks : chunks[k].from <= t /\ t < chunks[k].to
    /\ \A k \in DOMAIN chunks : Size(chunks[k]) \in 1..MaxTokens /\ Within(chunks[k])
    /\ \A k \in 2..Len(chunks) :
          /\ chunks[k].from \in {chunks[k-1].to, chunks[k-1].to - Overlap}
          /\ chunks[k-1].to < chunks[k].to

\* The next chunk begins where what is covered ends, between two sections, or Overlap tokens before
\* that, inside a section which is not yet covered.
Position ==
    \/ start = Covered /\ Covered = Below
    \/ /\ start + Overlap = Covered /\ Below <= start
       /\ part <= Len(sections) /\ Covered < sections[part].to

Partitioning ==
    chunkpc = "partition" =>
        /\ chunks = <<>> /\ start = 0 /\ buffer <= at
        /\ Tiles(sections, buffer)
        /\ text.headed => buffer = at
Splitting ==
    chunkpc = "split" =>
        /\ Tiles(sections, at) /\ part <= Len(sections) + 1
        /\ ChunksSoFar /\ Position
Finished ==
    chunkpc = "done" => ChunksSoFar /\ Covered = at /\ Len(chunks) \in 1..MaxChunks

ChunkInv == ChunkType /\ Partitioning /\ Splitting /\ Finished

\* Tiles up to e and an interval from e to f tile up to f.
LEMMA TilesAppend ==
    ASSUME NEW s \in Seq(Intervals), NEW e \in Nat, NEW f \in Nat, Tiles(s, e), e < f
    PROVE  /\ Append(s, Interval(e, f)) \in Seq(Intervals)
           /\ Tiles(Append(s, Interval(e, f)), f)
<1> DEFINE r == Append(s, Interval(e, f))
<1>1. Interval(e, f) \in Intervals BY DEF Interval, Intervals
<1>2. /\ r \in Seq(Intervals) /\ Len(r) = Len(s) + 1 /\ r # <<>>
      /\ \A i \in 1..Len(s) : r[i] = s[i]
      /\ r[Len(s) + 1] = Interval(e, f)
  <2>1. r \in Seq(Intervals) /\ Len(r) = Len(s) + 1 BY <1>1
  <2>2. \A i \in 1..Len(s) : r[i] = s[i] BY <1>1
  <2>3. r[Len(s) + 1] = Interval(e, f) BY <1>1
  <2>4. r # <<>> BY <2>1
  <2> QED BY <2>1, <2>2, <2>3, <2>4
<1>3. \A i \in DOMAIN r : r[i].from < r[i].to
  BY <1>2 DEF Tiles, Interval
<1>4. \A i \in 2..Len(r) : r[i].from = r[i-1].to
  <2> TAKE i \in 2..Len(r)
  <2>1. CASE i <= Len(s)
    <3>1. i \in 1..Len(s) /\ i - 1 \in 1..Len(s) /\ i \in 2..Len(s) BY <2>1
    <3> QED BY <3>1, <1>2 DEF Tiles
  <2>2. CASE i = Len(s) + 1
    <3>1. s # <<>> /\ Len(s) \in 1..Len(s) /\ i - 1 = Len(s) BY <2>2
    <3>2. s[Len(s)].to = e BY <3>1 DEF Tiles
    <3> QED BY <2>2, <3>1, <3>2, <1>2 DEF Interval
  <2> QED BY <2>1, <2>2, <1>2
<1>5. r[1].from = 0
  <2>1. CASE s = <<>> BY <2>1, <1>2 DEF Tiles, Interval
  <2>2. CASE s # <<>>
    <3>1. 1 \in 1..Len(s) BY <2>2
    <3> QED BY <2>2, <3>1, <1>2 DEF Tiles
  <2> QED BY <2>1, <2>2
<1>6. r[Len(r)].to = f BY <1>2 DEF Interval
<1> QED BY <1>2, <1>3, <1>4, <1>5, <1>6 DEF Tiles

\* _flush: what the buffer holds becomes a section, and the sections then reach the part at hand.
LEMMA FlushTiles ==
    ASSUME ChunkType, buffer <= at, Tiles(sections, buffer)
    PROVE  Flushed \in Seq(Intervals) /\ Tiles(Flushed, at)
<1>1. CASE buffer < at BY <1>1, TilesAppend DEF Flushed, ChunkType
<1>2. CASE ~(buffer < at)
  <2>1. buffer = at BY <1>2 DEF ChunkType
  <2> QED BY <1>2, <2>1 DEF Flushed, ChunkType
<1> QED BY <1>1, <1>2

\* The first step of chunk_document establishes the invariant.
LEMMA ChunkBegins ==
    ASSUME NEW t \in Texts, Chunk(t) PROVE ChunkInv'
<1> USE DEF Chunk
<1>1. ChunkType' BY DEF ChunkType
<1>2. Partitioning' BY DEF Partitioning, Tiles
<1>3. Splitting' /\ Finished' BY DEF Splitting, Finished
<1> QED BY <1>1, <1>2, <1>3 DEF ChunkInv

\* _partition_by_headings takes a line: the sections still tile the text.
LEMMA TakePartKeeps ==
    ASSUME ChunkInv, TakePart PROVE ChunkInv'
<1> DEFINE end == at + text.parts[part]
<1>1. text.parts[part] \in Nat \ {0}
  BY DEF ChunkInv, ChunkType, TakePart, Texts
<1>2. end \in Nat /\ at < end
  BY <1>1 DEF ChunkInv, ChunkType
<1>3. /\ ChunkType /\ chunkpc = "partition" /\ chunks = <<>> /\ start = 0 /\ buffer <= at
      /\ Tiles(sections, buffer) /\ (text.headed => buffer = at)
  BY DEF ChunkInv, Partitioning, TakePart
<1>4. /\ at' = end /\ part' = part + 1 /\ text' = text /\ start' = start /\ chunks' = chunks
      /\ chunkpc' = chunkpc
  BY DEF TakePart
<1>5. /\ sections' \in Seq(Intervals) /\ buffer' \in Nat /\ buffer' <= end
      /\ Tiles(sections', buffer') /\ (text.headed => buffer' = end)
  <2>1. CASE text.headed
    <3>1. sections' = Append(sections, Interval(at, end)) /\ buffer' = end
      BY <2>1 DEF TakePart
    <3>2. Tiles(sections, at) BY <2>1, <1>3
    <3> HIDE DEF end
    <3> QED BY <3>1, <3>2, <1>2, <1>3, TilesAppend DEF ChunkType
  <2>2. CASE ~text.headed /\ end - buffer <= Target
    <3>1. sections' = sections /\ buffer' = buffer BY <2>2 DEF TakePart
    <3> HIDE DEF end
    <3> QED BY <2>2, <3>1, <1>2, <1>3 DEF ChunkType
  <2>3. CASE ~text.headed /\ ~(end - buffer <= Target) /\ text.parts[part] <= MaxTokens
    <3>1. sections' = Flushed /\ buffer' = at BY <2>3 DEF TakePart
    <3>2. Flushed \in Seq(Intervals) /\ Tiles(Flushed, at) BY <1>3, FlushTiles
    <3> HIDE DEF end
    <3> QED BY <2>3, <3>1, <3>2, <1>2, <1>3 DEF ChunkType
  <2>4. CASE ~text.headed /\ ~(end - buffer <= Target) /\ ~(text.parts[part] <= MaxTokens)
    <3>1. sections' = Append(Flushed, Interval(at, end)) /\ buffer' = end BY <2>4 DEF TakePart
    <3>2. Flushed \in Seq(Intervals) /\ Tiles(Flushed, at) BY <1>3, FlushTiles
    <3> HIDE DEF end
    <3> QED BY <2>4, <3>1, <3>2, <1>2, <1>3, TilesAppend DEF ChunkType
  <2> QED BY <2>1, <2>2, <2>3, <2>4
<1> HIDE DEF end
<1>6. ChunkType' BY <1>2, <1>3, <1>4, <1>5 DEF ChunkType
<1>7. Partitioning' BY <1>3, <1>4, <1>5 DEF Partitioning
<1>8. Splitting' /\ Finished' BY <1>3, <1>4 DEF Splitting, Finished
<1> QED BY <1>6, <1>7, <1>8 DEF ChunkInv

\* The last _flush: the sections tile the whole text, and no chunk is made yet.
LEMMA EndPartitionKeeps ==
    ASSUME ChunkInv, EndPartition PROVE ChunkInv'
<1>1. /\ ChunkType /\ chunks = <<>> /\ start = 0 /\ buffer <= at /\ Tiles(sections, buffer)
  BY DEF ChunkInv, Partitioning, EndPartition
<1>2. Flushed \in Seq(Intervals) /\ Tiles(Flushed, at) BY <1>1, FlushTiles
<1>3. /\ sections' = Flushed /\ part' = 1 /\ buffer' = at /\ chunkpc' = "split"
      /\ text' = text /\ at' = at /\ start' = start /\ chunks' = chunks
  BY DEF EndPartition
<1>4. ChunkType' BY <1>1, <1>2, <1>3 DEF ChunkType
<1>5. Covered' = 0 /\ Below' = 0 BY <1>1, <1>3 DEF Covered, Below
<1>6. ChunksSoFar' BY <1>1, <1>3, <1>5 DEF ChunksSoFar
<1>7. Position' BY <1>1, <1>3, <1>5 DEF Position
<1>8. part' <= Len(sections') + 1 BY <1>2, <1>3
<1>9. Splitting' BY <1>2, <1>3, <1>6, <1>7, <1>8 DEF Splitting
<1>10. Partitioning' /\ Finished' BY <1>3 DEF Partitioning, Finished
<1> QED BY <1>4, <1>9, <1>10 DEF ChunkInv

\* A chunk that begins where the last one ends, or Overlap tokens before, and ends later.
LEMMA ChunkAppended ==
    ASSUME ChunkType, ChunkType', ChunksSoFar, sections' = sections,
           NEW a \in Nat, NEW b \in Nat,
           chunks' = Append(chunks, Interval(a, b)),
           a <= Covered, Covered < b, a \in {Covered, Covered - Overlap},
           b - a <= MaxTokens, Within(Interval(a, b))
    PROVE  ChunksSoFar' /\ Covered' = b
<1> USE ChunkAssumption
<1>1. Interval(a, b) \in Intervals BY DEF Interval, Intervals
<1>2. chunks \in Seq(Intervals) BY DEF ChunkType
<1>3. /\ Len(chunks') = Len(chunks) + 1 /\ chunks' \in Seq(Intervals)
  BY <1>1, <1>2
<1>4. \A k \in 1..Len(chunks) : chunks'[k] = chunks[k] BY <1>1, <1>2
<1>5. chunks'[Len(chunks) + 1] = Interval(a, b) BY <1>1, <1>2
<1>6. chunks' # <<>> BY <1>3, <1>2
<1>7. Covered' = b BY <1>3, <1>5, <1>6 DEF Covered, Interval
<1>8. Covered \in Nat
  <2>1. CASE chunks = <<>> BY <2>1 DEF Covered
  <2>2. CASE chunks # <<>>
    <3>1. Len(chunks) \in 1..Len(chunks) BY <2>2, <1>2
    <3>2. chunks[Len(chunks)] \in Intervals BY <3>1, <1>2
    <3> QED BY <3>2, <2>2 DEF Covered, Intervals
  <2> QED BY <2>1, <2>2
<1>9. \A t \in 0..(b - 1) : \E k \in DOMAIN chunks' : chunks'[k].from <= t /\ t < chunks'[k].to
  <2> TAKE t \in 0..(b - 1)
  <2>1. CASE t < Covered
    <3>1. t \in 0..(Covered - 1) BY <2>1, <1>8
    <3>2. PICK k \in DOMAIN chunks : chunks[k].from <= t /\ t < chunks[k].to
      BY <3>1 DEF ChunksSoFar
    <3>3. k \in 1..Len(chunks) /\ k \in DOMAIN chunks' BY <1>2, <1>3
    <3> QED BY <3>2, <3>3, <1>4
  <2>2. CASE ~(t < Covered)
    <3>1. Len(chunks) + 1 \in DOMAIN chunks' BY <1>2, <1>3
    <3>2. Interval(a, b).from <= t /\ t < Interval(a, b).to BY <2>2, <1>8 DEF Interval
    <3> QED BY <3>1, <3>2, <1>5
  <2> QED BY <2>1, <2>2
<1>10. \A k \in DOMAIN chunks' : Size(chunks'[k]) \in 1..MaxTokens /\ Within(chunks'[k])
  <2> TAKE k \in DOMAIN chunks'
  <2>1. CASE k \in 1..Len(chunks)
    <3>1. k \in DOMAIN chunks /\ chunks'[k] = chunks[k] BY <2>1, <1>2, <1>4
    <3> QED BY <3>1 DEF ChunksSoFar
  <2>2. CASE k = Len(chunks) + 1
    <3>1. chunks'[k] = Interval(a, b) BY <2>2, <1>5
    <3>2. Size(Interval(a, b)) \in 1..MaxTokens BY <1>8 DEF Size, Interval
    <3> QED BY <3>1, <3>2
  <2> QED BY <2>1, <2>2, <1>2, <1>3
<1>11. \A k \in 2..Len(chunks') : /\ chunks'[k].from \in {chunks'[k-1].to, chunks'[k-1].to - Overlap}
                                  /\ chunks'[k-1].to < chunks'[k].to
  <2> TAKE k \in 2..Len(chunks')
  <2>1. CASE k <= Len(chunks)
    <3>1. k \in 2..Len(chunks) /\ k \in 1..Len(chunks) /\ k - 1 \in 1..Len(chunks)
      BY <2>1, <1>2, <1>3
    <3>2. chunks'[k] = chunks[k] /\ chunks'[k-1] = chunks[k-1] BY <3>1, <1>4
    <3> QED BY <3>1, <3>2 DEF ChunksSoFar
  <2>2. CASE k = Len(chunks) + 1
    <3>1. chunks # <<>> /\ k - 1 = Len(chunks) /\ k - 1 \in 1..Len(chunks) BY <2>2, <1>2
    <3>2. chunks'[k-1].to = Covered BY <3>1, <1>4 DEF Covered
    <3>3. chunks'[k].from = a /\ chunks'[k].to = b BY <2>2, <1>5 DEF Interval
    <3> QED BY <3>2, <3>3
  <2> QED BY <2>1, <2>2, <1>2, <1>3
<1>12. \A k \in DOMAIN chunks' :
          (Size(chunks[k]) \in 1..MaxTokens /\ Within(chunks[k]))'
  BY <1>10 DEF Within, Size
<1> QED BY <1>7, <1>9, <1>11, <1>12 DEF ChunksSoFar

\* A chunk is cut from a section: it starts no later than the one before it ended.
LEMMA SplitSectionKeeps ==
    ASSUME ChunkInv, SplitSection PROVE ChunkInv'
<1> USE ChunkAssumption
<1> DEFINE sec == sections[part]
           cut == start + Target
<1>1. /\ ChunkType /\ chunkpc = "split" /\ part <= Len(sections)
      /\ Tiles(sections, at) /\ ChunksSoFar /\ Position
  BY DEF ChunkInv, Splitting, SplitSection
<1>2. /\ sec \in Intervals /\ part \in DOMAIN sections
  BY <1>1 DEF ChunkType
<1>3. sec.from \in Nat /\ sec.to \in Nat /\ sec.from < sec.to
  BY <1>1, <1>2 DEF Tiles, Intervals
<1>4. sec.from = Below
  <2>1. CASE part = 1
    <3>1. sections # <<>> BY <1>2, <2>1
    <3> QED BY <2>1, <3>1, <1>1 DEF Tiles, Below
  <2>2. CASE part # 1
    <3>1. part \in 2..Len(sections) BY <2>2, <1>1 DEF ChunkType
    <3> QED BY <2>2, <3>1, <1>1 DEF Tiles, Below
  <2> QED BY <2>1, <2>2
<1>5. /\ start \in Nat /\ Covered \in Nat /\ Below <= start /\ start <= Covered /\ Covered < sec.to
      /\ start \in {Covered, Covered - Overlap}
  <2>1. start \in Nat BY <1>1 DEF ChunkType
  <2> HIDE DEF sec
  <2>2. CASE start = Covered /\ Covered = Below BY <2>1, <2>2, <1>3, <1>4
  <2>3. CASE /\ start + Overlap = Covered /\ Below <= start
             /\ part <= Len(sections) /\ Covered < sections[part].to
    BY <2>1, <2>3, <1>3 DEF sec
  <2> QED BY <2>2, <2>3, <1>1 DEF Position
<1>6. /\ text' = text /\ at' = at /\ buffer' = buffer /\ sections' = sections /\ chunkpc' = chunkpc
  BY DEF SplitSection
<1>7. CASE Size(sec) <= MaxTokens \/ cut >= sec.to
  <2>1. /\ chunks' = Append(chunks, Interval(start, sec.to)) /\ start' = sec.to /\ part' = part + 1
    BY <1>7 DEF SplitSection
  <2>2. sec.to - start <= MaxTokens
    <3> HIDE DEF sec
    <3> QED BY <1>3, <1>4, <1>5, <1>7 DEF Size
  <2>3. Within(Interval(start, sec.to)) BY <1>2, <1>3, <1>4, <1>5 DEF Within, Interval
  <2>4. Interval(start, sec.to) \in Intervals BY <1>3, <1>5 DEF Interval, Intervals
  <2>5. chunks' \in Seq(Intervals) BY <2>1, <2>4, <1>1 DEF ChunkType
  <2>6. ChunkType'
    <3>1. start' \in Nat /\ part' \in Nat \ {0} BY <2>1, <1>1, <1>3 DEF ChunkType
    <3> QED BY <3>1, <2>5, <1>1, <1>6 DEF ChunkType
  <2>7. ChunksSoFar' /\ Covered' = sec.to
    <3> HIDE DEF sec, cut
    <3> QED BY <2>1, <2>2, <2>3, <2>6, <1>1, <1>3, <1>5, <1>6, ChunkAppended
  <2>8. Below' = sec.to BY <2>1, <1>1, <1>6 DEF Below, ChunkType
  <2>9. Position' BY <2>1, <2>7, <2>8 DEF Position
  <2>10. part' <= Len(sections') + 1 BY <2>1, <1>1, <1>6 DEF ChunkType
  <2>11. Splitting' BY <2>7, <2>9, <2>10, <1>1, <1>6 DEF Splitting
  <2>12. Partitioning' /\ Finished' BY <1>1, <1>6 DEF Partitioning, Finished
  <2> QED BY <2>6, <2>11, <2>12 DEF ChunkInv
<1>8. CASE ~(Size(sec) <= MaxTokens \/ cut >= sec.to)
  <2>1. /\ chunks' = Append(chunks, Interval(start, cut)) /\ start' = start + Step /\ part' = part
    BY <1>8 DEF SplitSection
  <2>2. cut \in Nat /\ cut < sec.to /\ cut - start <= MaxTokens /\ Covered < cut
    <3> HIDE DEF sec
    <3> QED BY <1>3, <1>5, <1>8
  <2>3. Within(Interval(start, cut))
    <3>1. sec.from <= start /\ cut <= sec.to
      <4> HIDE DEF sec, cut
      <4> QED BY <2>2, <1>3, <1>4, <1>5
    <3> HIDE DEF cut
    <3> QED BY <3>1, <1>2 DEF Within, Interval
  <2>4. Interval(start, cut) \in Intervals BY <2>2, <1>5 DEF Interval, Intervals
  <2>5. chunks' \in Seq(Intervals) BY <2>1, <2>4, <1>1 DEF ChunkType
  <2>6. start' \in Nat /\ start' + Overlap = cut /\ start <= start' BY <2>1, <1>5 DEF Step
  <2>7. ChunkType' BY <2>1, <2>5, <2>6, <1>1, <1>6 DEF ChunkType
  <2>8. ChunksSoFar' /\ Covered' = cut
    <3> HIDE DEF sec, cut
    <3> QED BY <2>1, <2>2, <2>3, <2>7, <1>1, <1>5, <1>6, ChunkAppended
  <2>9. Below' = Below BY <2>1, <1>6 DEF Below
  <2>10. Below' <= start'
    <3>1. Below \in Nat BY <1>3, <1>4
    <3> QED BY <3>1, <2>6, <2>9, <1>5
  <2>11. sections'[part'] = sec BY <2>1, <1>6
  <2>12. Position' BY <2>1, <2>2, <2>6, <2>8, <2>10, <2>11, <1>1, <1>6 DEF Position
  <2>13. Splitting' BY <2>1, <2>8, <2>12, <1>1, <1>6 DEF Splitting, ChunkType
  <2>14. Partitioning' /\ Finished' BY <1>1, <1>6 DEF Partitioning, Finished
  <2> QED BY <2>7, <2>13, <2>14 DEF ChunkInv
<1> QED BY <1>7, <1>8

\* No section is left: the chunks reach the end of the text.
LEMMA EndSplitKeeps ==
    ASSUME ChunkInv, EndSplit PROVE ChunkInv'
<1>1. /\ ChunkType /\ Tiles(sections, at) /\ part <= Len(sections) + 1 /\ part > Len(sections)
      /\ ChunksSoFar /\ Position
  BY DEF ChunkInv, Splitting, EndSplit
<1>2. part = Len(sections) + 1 BY <1>1 DEF ChunkType
<1>3. Covered = Below BY <1>1 DEF Position, ChunkType
<1>4. Below = at
  <2>1. CASE sections = <<>> BY <2>1, <1>1, <1>2 DEF Below, Tiles
  <2>2. CASE sections # <<>> BY <2>2, <1>1, <1>2 DEF Below, Tiles, ChunkType
  <2> QED BY <2>1, <2>2
<1>5. /\ UNCHANGED <<text, part, at, buffer, sections, start, chunks>>
      /\ chunkpc' = IF chunks = <<>> \/ Len(chunks) > MaxChunks THEN "failed" ELSE "done"
  BY DEF EndSplit
<1>6. ChunkType' BY <1>1, <1>5 DEF ChunkType
<1>7. Partitioning' /\ Splitting' BY <1>5 DEF Partitioning, Splitting
<1>8. ChunksSoFar' /\ Covered' = at' BY <1>1, <1>3, <1>4, <1>5 DEF ChunksSoFar, Covered, Within
<1>9. chunkpc' = "done" => Len(chunks') \in 1..MaxChunks
  BY <1>1, <1>5, ChunkAssumption DEF ChunkType
<1>10. Finished' BY <1>8, <1>9 DEF Finished
<1> QED BY <1>6, <1>7, <1>10 DEF ChunkInv

\* Every step of the chunker keeps its invariant.
LEMMA ChunkStepKeeps ==
    ASSUME ChunkInv, ChunkStep PROVE ChunkInv'
BY TakePartKeeps, EndPartitionKeeps, SplitSectionKeeps, EndSplitKeeps DEF ChunkStep

\* A step of anything else keeps it.
LEMMA ChunkStutters ==
    ASSUME ChunkInv, UNCHANGED chunkVars PROVE ChunkInv'
<1> USE DEF chunkVars
<1>1. ChunkType' BY DEF ChunkInv, ChunkType
<1>2. Partitioning' BY DEF ChunkInv, Partitioning
<1>3. Covered' = Covered /\ Below' = Below BY DEF Covered, Below
<1>4. ChunksSoFar => ChunksSoFar' BY <1>3 DEF ChunksSoFar, Within
<1>5. Position => Position' BY <1>3 DEF Position
<1>6. Splitting' BY <1>4, <1>5 DEF ChunkInv, Splitting
<1>7. Finished' BY <1>3, <1>4 DEF ChunkInv, Finished
<1> QED BY <1>1, <1>2, <1>6, <1>7 DEF ChunkInv

\* The invariant of the chunker implies what its run checks.
LEMMA InvCovers == ChunkInv => ChunksCover
BY DEF ChunkInv, Finished, ChunksSoFar, ChunksCover, Within
-----------------------------------------------------------------------------
CheckRecords == [fails : BOOLEAN, why : ContentReasons]
Clear(checks) == \A i \in DOMAIN checks : ~checks[i].fails

\* What the assumption says of one source.
LEMMA SourceFields ==
    ASSUME NEW src \in Sources
    PROVE  /\ src.bytes \in Nat
           /\ src.fields \in Seq([identity : BOOLEAN, secret : BOOLEAN, pii : Nat])
           /\ \A in : Canonical(src, in).length \in Nat /\ Canonical(src, in).layout \in Texts
BY AdmissionAssumption DEF Canonical

\* evaluate_eligibility makes six checks.
LEMMA EligibilityType ==
    ASSUME NEW src, NEW in
    PROVE  Eligibility(src, in) \in Seq(CheckRecords) /\ Len(Eligibility(src, in)) = 6
<1> DEFINE k == IF in.kind \in Structured THEN in.category # in.kind ELSE in.category \in Structured
           c == <<Check(in.label = "attachment", "CUSTOMER_ATTACHMENT_DETECTED"),
                  Check(in.label = "live_crm", "PROHIBITED_SOURCE_CLASSIFICATION"),
                  Check(in.name = "path", "INVALID_SOURCE_NAME"),
                  Check(k, "CATEGORY_MISMATCH"),
                  Check(src.bytes > MaxSourceBytes, "SIZE_LIMIT_EXCEEDED"),
                  Check(src.bytes < MinSourceBytes, "SOURCE_TOO_SHORT")>>
<1>1. k \in BOOLEAN
  <2>1. CASE in.kind \in Structured BY <2>1
  <2>2. CASE in.kind \notin Structured BY <2>2
  <2> QED BY <2>1, <2>2
<1>2. Eligibility(src, in) = c BY DEF Eligibility
<1> HIDE DEF k
<1>3. c \in Seq(CheckRecords) /\ Len(c) = 6 BY <1>1 DEF Check, CheckRecords, ContentReasons
<1> QED BY <1>2, <1>3

\* The scan makes one check of every field it is given.
LEMMA ScanType ==
    ASSUME NEW src \in Sources, NEW in
    PROVE  /\ Scan(src, in) \in Seq(CheckRecords)
           /\ Len(Scan(src, in)) = Len(Scanned(src, in.kind))
           /\ \A i \in DOMAIN Scan(src, in) :
                  Scan(src, in)[i].fails = Refused(Scanned(src, in.kind)[i])
<1> DEFINE fields == Scanned(src, in.kind)
           f(i) == Check(Refused(fields[i]),
                         IF fields[i].secret THEN "SECRET_DETECTED" ELSE "PII_DETECTED")
<1>1. Len(fields) \in Nat /\ DOMAIN fields = 1..Len(fields)
  <2>1. CASE in.kind \in Structured BY <2>1, SourceFields DEF Scanned
  <2>2. CASE in.kind \notin Structured BY <2>2 DEF Scanned
  <2> QED BY <2>1, <2>2
<1> HIDE DEF fields
<1>2. \A i : f(i) \in CheckRecords /\ f(i).fails = Refused(fields[i])
  BY DEF Check, CheckRecords, ContentReasons, Refused
<1>3. Scan(src, in) = [i \in 1..Len(fields) |-> f(i)] BY <1>1 DEF Scan, fields
<1> HIDE DEF f
<1>4. [i \in 1..Len(fields) |-> f(i)] \in Seq(CheckRecords) BY <1>1, <1>2
<1>5. Len([i \in 1..Len(fields) |-> f(i)]) = Len(fields) BY <1>1
<1> QED BY <1>1, <1>2, <1>3, <1>4, <1>5 DEF fields

\* build_canonical_document makes four checks.
LEMMA BoundsType ==
    ASSUME NEW src, NEW in
    PROVE  Bounds(src, in) \in Seq(CheckRecords) /\ Len(Bounds(src, in)) = 4
BY DEF Bounds, Check, CheckRecords, ContentReasons

\* Checks in a row are all passed only if those of each part are.
LEMMA ConcatClear ==
    ASSUME NEW a \in Seq(CheckRecords), NEW b \in Seq(CheckRecords), Clear(a \o b)
    PROVE  Clear(a) /\ Clear(b)
<1>1. /\ Len(a \o b) = Len(a) + Len(b) /\ DOMAIN (a \o b) = 1..(Len(a) + Len(b))
  OBVIOUS
<1>2. \A i \in 1..Len(a) : (a \o b)[i] = a[i] OBVIOUS
<1>3. \A i \in 1..Len(b) : (a \o b)[Len(a) + i] = b[i] OBVIOUS
<1>4. Clear(a)
  <2> SUFFICES ASSUME NEW i \in 1..Len(a) PROVE ~a[i].fails BY DEF Clear
  <2>1. i \in DOMAIN (a \o b) BY <1>1
  <2> QED BY <2>1, <1>2 DEF Clear
<1>5. Clear(b)
  <2> SUFFICES ASSUME NEW i \in 1..Len(b) PROVE ~b[i].fails BY DEF Clear
  <2>1. Len(a) + i \in DOMAIN (a \o b) BY <1>1
  <2> QED BY <2>1, <1>3 DEF Clear
<1> QED BY <1>4, <1>5

\* A check fails for one of the listed reasons, none of which is "OK", and a source is admitted only
\* if all of them are passed.
LEMMA ChecksType ==
    ASSUME NEW src \in Sources, NEW in
    PROVE  /\ \A i \in DOMAIN Checks(src, in) : /\ Checks(src, in)[i].why # "OK"
                                                /\ Checks(src, in)[i].why \in ContentReasons
           /\ Admitted(src, in) =>
                 Clear(Eligibility(src, in)) /\ Clear(Scan(src, in)) /\ Clear(Bounds(src, in))
<1> DEFINE e == Eligibility(src, in)
           f == <<Check(~Parses(src, in.kind), "FORMAT_ERROR")>>
           s == Scan(src, in)
           b == Bounds(src, in)
<1>1. f \in Seq(CheckRecords) BY DEF Check, CheckRecords, ContentReasons
<1>2. e \in Seq(CheckRecords) /\ s \in Seq(CheckRecords) /\ b \in Seq(CheckRecords)
  BY EligibilityType, ScanType, BoundsType
<1>3. Checks(src, in) = ((e \o f) \o s) \o b BY DEF Checks
<1> HIDE DEF e, f, s, b
<1>4. e \o f \in Seq(CheckRecords) BY <1>1, <1>2
<1>5. (e \o f) \o s \in Seq(CheckRecords) BY <1>4, <1>2
<1>6. ((e \o f) \o s) \o b \in Seq(CheckRecords) BY <1>5, <1>2
<1>7. \A i \in DOMAIN Checks(src, in) : /\ Checks(src, in)[i].why # "OK"
                                       /\ Checks(src, in)[i].why \in ContentReasons
  <2> TAKE i \in DOMAIN Checks(src, in)
  <2>1. Checks(src, in)[i] \in CheckRecords BY <1>3, <1>6
  <2> QED BY <2>1 DEF CheckRecords, ContentReasons
<1>8. ASSUME Admitted(src, in) PROVE Clear(e) /\ Clear(s) /\ Clear(b)
  <2>1. Clear(((e \o f) \o s) \o b) BY <1>3, <1>8 DEF Admitted, Clear
  <2>2. Clear((e \o f) \o s) /\ Clear(b) BY <2>1, <1>2, <1>5, ConcatClear
  <2>3. Clear(e \o f) /\ Clear(s) BY <2>2, <1>2, <1>4, ConcatClear
  <2>4. Clear(e) BY <2>3, <1>1, <1>2, ConcatClear
  <2> QED BY <2>2, <2>3, <2>4
<1> QED BY <1>7, <1>8 DEF e, s, b

\* What passes the checks is clean.
LEMMA AdmittedClean ==
    ASSUME NEW src \in Sources, NEW in, Admitted(src, in)
    PROVE  Clean(src, in)
<1>1. Clear(Eligibility(src, in)) /\ Clear(Scan(src, in)) /\ Clear(Bounds(src, in))
  BY ChecksType
<1>2. \A i \in 1..6 : ~Eligibility(src, in)[i].fails
  BY <1>1, EligibilityType DEF Clear
<1>3. \A i \in 1..4 : ~Bounds(src, in)[i].fails
  BY <1>1, BoundsType DEF Clear
<1>4. \A i \in DOMAIN Scanned(src, in.kind) : ~Refused(Scanned(src, in.kind)[i])
  <2> TAKE i \in DOMAIN Scanned(src, in.kind)
  <2>1. i \in DOMAIN Scan(src, in) BY DEF Scan
  <2> QED BY <2>1, <1>1, ScanType DEF Clear
<1>5. in.label \notin {"attachment", "live_crm"}
  <2>1. ~Eligibility(src, in)[1].fails /\ ~Eligibility(src, in)[2].fails BY <1>2
  <2> QED BY <2>1 DEF Eligibility, Check
<1>6. src.bytes \in MinSourceBytes..MaxSourceBytes
  <2>1. ~Eligibility(src, in)[5].fails /\ ~Eligibility(src, in)[6].fails BY <1>2
  <2>2. ~(src.bytes > MaxSourceBytes) /\ ~(src.bytes < MinSourceBytes)
    BY <2>1 DEF Eligibility, Check
  <2> QED BY <2>2, SourceFields, AdmissionAssumption
<1>7. ~(Findings(src) > MaxPii) /\ Canonical(src, in).length \in 1..MaxCanonicalBytes
  <2>1. /\ ~Bounds(src, in)[1].fails /\ ~Bounds(src, in)[2].fails /\ ~Bounds(src, in)[3].fails
    BY <1>3
  <2>2. /\ ~(Findings(src) > MaxPii) /\ Canonical(src, in).length # 0
        /\ ~(Canonical(src, in).length > MaxCanonicalBytes)
    BY <2>1 DEF Bounds, Check
  <2>3. Canonical(src, in).length \in Nat BY SourceFields
  <2> QED BY <2>2, <2>3, AdmissionAssumption
<1>8. \A i \in DOMAIN src.fields : ~src.fields[i].secret
  <2>1. CASE in.kind \in Structured BY <2>1, <1>4 DEF Scanned, Refused
  <2>2. CASE in.kind \notin Structured
    <3>1. 1 \in DOMAIN Scanned(src, in.kind) BY <2>2 DEF Scanned
    <3>2. ~Scanned(src, in.kind)[1].secret BY <3>1, <1>4 DEF Refused
    <3> QED BY <3>2, <2>2 DEF Scanned
  <2> QED BY <2>1, <2>2
<1>9. in.kind \in Structured =>
          \A i \in DOMAIN src.fields : src.fields[i].identity => src.fields[i].pii = 0
  <2> SUFFICES ASSUME in.kind \in Structured, NEW i \in DOMAIN src.fields, src.fields[i].identity
               PROVE  src.fields[i].pii = 0
    OBVIOUS
  <2>1. ~(src.fields[i].pii > 0) BY <1>4 DEF Scanned, Refused
  <2>2. src.fields \in Seq([identity : BOOLEAN, secret : BOOLEAN, pii : Nat]) BY SourceFields
  <2> DEFINE F == [identity : BOOLEAN, secret : BOOLEAN, pii : Nat]
  <2> HIDE DEF F
  <2>3. \A s \in Seq(F) : \A j \in DOMAIN s : s[j] \in F OBVIOUS
  <2>4. src.fields[i] \in F BY <2>2, <2>3 DEF F
  <2>5. src.fields[i].pii \in Nat BY <2>4 DEF F
  <2> QED BY <2>1, <2>5
<1> QED BY <1>5, <1>6, <1>7, <1>8, <1>9 DEF Clean
-----------------------------------------------------------------------------
Reading == {"idle", "stat", "read"}
Handing == {"precheck", "chunk", "chunking", "embed", "persist"}
Pcs == Reading \cup {"compose", "admit", "close", "print"} \cup Handing

SourcesInv ==
    /\ cmdpc \in Pcs /\ file \in Sources \cup {NoFile}
    /\ cmdpc \in {"compose", "admit"} \cup Handing => source \in Sources
VettedInv == \A v \in vetted : Clean(v.source, v.input)
DocumentInv ==
    cmdpc \in Handing =>
        /\ [source |-> source, input |-> input] \in vetted
        /\ Located(Reference(source, input), input.category)
        /\ document = [id |-> <<Reference(source, input), input.category>>,
                       text |-> Canonical(source, input).text]
ChunkedInv == cmdpc \in {"embed", "persist"} => chunkpc = "done"
StoreInv ==
    \A id \in DOMAIN store :
        /\ \E v \in vetted : /\ Canonical(v.source, v.input).text = store[id].text
                             /\ id = <<Reference(v.source, v.input), v.input.category>>
        /\ Located(id[1], id[2])
        /\ store[id].chunks \in 1..MaxChunks

CorpusInv == ChunkInv /\ SourcesInv /\ VettedInv /\ DocumentInv /\ ChunkedInv /\ StoreInv

\* What Leave does to the reason and the place.
LEMMA LeaveEnds == \A why : Leave(why) => reason' = why /\ cmdpc' \in {"close", "idle"}
BY DEF Leave, End

\* What End does to the reason and the place.
LEMMA EndEnds == \A why : End(why) => reason' = why /\ cmdpc' = "idle"
BY DEF End

\* Before any command the invariant of the corpus holds.
LEMMA CorpusInit == AdmissionInit => CorpusInv
<1> SUFFICES ASSUME AdmissionInit PROVE CorpusInv OBVIOUS
<1>1. ChunkInv
  BY DEF AdmissionInit, ChunkInit, ChunkInv, ChunkType, Partitioning, Splitting, Finished, NoText,
         Texts
<1>2. SourcesInv BY DEF AdmissionInit, SourcesInv, Pcs, Reading, Handing
<1>3. VettedInv /\ DocumentInv /\ ChunkedInv /\ StoreInv
  BY DEF AdmissionInit, VettedInv, DocumentInv, ChunkedInv, StoreInv, Handing
<1> QED BY <1>1, <1>2, <1>3 DEF CorpusInv

\* Steps that leave the corpus, the document and the chunker alone and go to no later phase.
LEMMA CorpusKept ==
    ASSUME CorpusInv, ChunkInv', SourcesInv', vetted' = vetted, store' = store,
           cmdpc' \in {"embed", "persist"} => chunkpc' = "done",
           cmdpc' \in Handing => /\ cmdpc \in Handing
                                 /\ source' = source /\ input' = input /\ document' = document,
           command' = command \/ cmdpc' \notin Handing
    PROVE  CorpusInv'
<1>1. VettedInv' BY DEF CorpusInv, VettedInv, Clean, Canonical, Findings
<1>2. DocumentInv' BY DEF CorpusInv, DocumentInv, Located, Reference, Canonical
<1>3. ChunkedInv' BY DEF ChunkedInv
<1>4. StoreInv' BY DEF CorpusInv, StoreInv, Located, Reference, Canonical
<1> QED BY <1>1, <1>2, <1>3, <1>4 DEF CorpusInv

\* Every step of a command keeps the invariant of the corpus.
LEMMA CorpusStep == CorpusInv /\ [AdmissionNext]_admissionVars => CorpusInv'
<1> SUFFICES ASSUME CorpusInv, [AdmissionNext]_admissionVars PROVE CorpusInv' OBVIOUS
<1> USE DEF Pcs, Reading, Handing
<1>0. UNCHANGED chunkVars => ChunkInv' BY ChunkStutters DEF CorpusInv
<1>1. ASSUME NEW c \in Commands, Invoke(c) PROVE CorpusInv'
  <2>1. UNCHANGED <<file, edits, store, vetted, predictions, chunkVars>> BY <1>1 DEF Invoke
  <2>2. cmdpc' \in {"idle", "stat", "admit"} /\ (cmdpc' = "admit" => source' \in Sources)
    BY <1>1 DEF Invoke, End, CorpusInv, SourcesInv
  <2>3. SourcesInv' BY <2>1, <2>2 DEF CorpusInv, SourcesInv
  <2> QED BY <1>0, <2>1, <2>2, <2>3, CorpusKept
<1>2. CASE StatFile
  <2>1. UNCHANGED <<file, command, source, input, document, store, vetted, chunkVars>>
    BY <1>2 DEF StatFile
  <2>2. cmdpc' \in {"idle", "read"} BY <1>2 DEF StatFile, End
  <2>3. SourcesInv' BY <2>1, <2>2 DEF CorpusInv, SourcesInv
  <2> QED BY <1>0, <2>1, <2>2, <2>3, CorpusKept
<1>3. CASE ReadFile
  <2>1. UNCHANGED <<file, command, input, document, store, vetted, chunkVars>>
    BY <1>3 DEF ReadFile
  <2>2. cmdpc' \in {"idle", "compose", "admit"} /\ (cmdpc' # "idle" => source' \in Sources)
    BY <1>3 DEF ReadFile, End, CorpusInv, SourcesInv
  <2>3. SourcesInv' BY <2>1, <2>2 DEF CorpusInv, SourcesInv
  <2> QED BY <1>0, <2>1, <2>2, <2>3, CorpusKept
<1>4. CASE Compose
  <2>1. UNCHANGED <<file, command, source, input, document, store, vetted, chunkVars>>
    BY <1>4 DEF Compose
  <2>2. cmdpc' \in {"idle", "admit"} /\ cmdpc = "compose" BY <1>4 DEF Compose, End
  <2>3. SourcesInv' BY <2>1, <2>2 DEF CorpusInv, SourcesInv
  <2> QED BY <1>0, <2>1, <2>2, <2>3, CorpusKept
<1>5. CASE Admit
  <2>1. UNCHANGED <<file, command, source, input, store, chunkVars>> /\ source \in Sources
    BY <1>5 DEF Admit, CorpusInv, SourcesInv
  <2>2. CASE UNCHANGED <<document, vetted>> /\ cmdpc' \in {"close", "idle"}
    <3>1. SourcesInv' BY <2>1, <2>2 DEF CorpusInv, SourcesInv
    <3> QED BY <1>0, <2>1, <2>2, <3>1, CorpusKept
  <2>3. CASE /\ Admitted(source, input)
             /\ vetted' = vetted \cup {[source |-> source, input |-> input]}
    <3>1. Clean(source, input) BY <2>1, <2>3, AdmittedClean
    <3>2. VettedInv'
      <4>1. \A v \in vetted' : Clean(v.source, v.input) BY <2>3, <3>1 DEF CorpusInv, VettedInv
      <4> QED BY <4>1 DEF VettedInv, Clean, Canonical, Findings
    <3>3. \/ cmdpc' \in {"close", "idle"}
          \/ /\ Located(Reference(source, input), input.category)
             /\ document' = [id |-> <<Reference(source, input), input.category>>,
                             text |-> Canonical(source, input).text]
             /\ cmdpc' \in {"precheck", "chunk"}
      <4>1. \/ Leave("INVALID_PROVENANCE") \/ End("OK")
            \/ \E i \in DOMAIN Checks(source, input) : Leave(Checks(source, input)[i].why)
            \/ /\ Located(Reference(source, input), input.category)
               /\ document' = [id |-> <<Reference(source, input), input.category>>,
                               text |-> Canonical(source, input).text]
               /\ cmdpc' = IF command.verb = "ingest" THEN "precheck" ELSE "chunk"
        BY <1>5 DEF Admit
      <4> QED BY <4>1, LeaveEnds, EndEnds
    <3>4. SourcesInv' BY <2>1, <3>3 DEF CorpusInv, SourcesInv
    <3>5. DocumentInv'
      <4>1. Reference(source, input)' = Reference(source, input)
        BY <2>1 DEF Reference
      <4> QED BY <2>1, <2>3, <3>3, <4>1 DEF DocumentInv, Located, Canonical
    <3>6. ChunkedInv' BY <3>3 DEF ChunkedInv
    <3>7. StoreInv' BY <2>1, <2>3 DEF CorpusInv, StoreInv, Located, Reference, Canonical
    <3> QED BY <1>0, <2>1, <3>2, <3>4, <3>5, <3>6, <3>7 DEF CorpusInv
  <2> QED BY <1>5, <2>2, <2>3, LeaveEnds DEF Admit
<1>6. CASE Precheck
  <2>1. UNCHANGED <<file, command, source, input, document, store, vetted, chunkVars>>
    BY <1>6 DEF Precheck
  <2>2. cmdpc' \in {"close", "idle", "chunk"} /\ cmdpc = "precheck"
    BY <1>6, LeaveEnds DEF Precheck
  <2>3. SourcesInv' BY <2>1, <2>2 DEF CorpusInv, SourcesInv
  <2> QED BY <1>0, <2>1, <2>2, <2>3, CorpusKept
<1>7. CASE StartChunker
  <2>1. UNCHANGED <<file, command, source, input, document, store, vetted>>
    BY <1>7 DEF StartChunker
  <2>2. cmdpc = "chunk" /\ cmdpc' = "chunking" BY <1>7 DEF StartChunker
  <2>3. SourcesInv' /\ source \in Sources BY <2>1, <2>2 DEF CorpusInv, SourcesInv
  <2>4. ChunkInv'
    <3>1. Canonical(source, input).layout \in Texts BY <2>3, SourceFields
    <3> QED BY <1>7, <3>1, ChunkBegins DEF StartChunker
  <2> QED BY <2>1, <2>2, <2>3, <2>4, CorpusKept
<1>8. CASE RunChunker
  <2>1. UNCHANGED cmdVars /\ cmdpc = "chunking" /\ ChunkStep BY <1>8 DEF RunChunker
  <2>2. UNCHANGED <<file, cmdpc, command, source, input, document, store, vetted>>
    BY <2>1 DEF cmdVars
  <2>3. SourcesInv' BY <2>2 DEF CorpusInv, SourcesInv
  <2>4. ChunkInv' BY <2>1, ChunkStepKeeps DEF CorpusInv
  <2> QED BY <2>1, <2>2, <2>3, <2>4, CorpusKept
<1>9. CASE EndChunker
  <2>1. UNCHANGED <<file, command, source, input, document, store, vetted, chunkVars>>
    BY <1>9 DEF EndChunker
  <2>2. cmdpc' \in {"close", "idle", "embed", "print"} /\ cmdpc = "chunking"
    BY <1>9, LeaveEnds DEF EndChunker
  <2>3. cmdpc' = "embed" => chunkpc' = "done"
    BY <1>9, <2>1, LeaveEnds DEF EndChunker, chunkVars
  <2>4. SourcesInv' BY <2>1, <2>2 DEF CorpusInv, SourcesInv
  <2> QED BY <1>0, <2>1, <2>2, <2>3, <2>4, CorpusKept
<1>10. CASE Embed
  <2>1. UNCHANGED <<file, command, source, input, document, store, vetted, chunkVars>>
    BY <1>10 DEF Embed
  <2>2. cmdpc' \in {"close", "idle", "persist"} /\ cmdpc = "embed"
    BY <1>10, LeaveEnds DEF Embed
  <2>3. SourcesInv' BY <2>1, <2>2 DEF CorpusInv, SourcesInv
  <2>4. chunkpc' = "done" BY <2>1, <2>2 DEF CorpusInv, ChunkedInv, chunkVars
  <2> QED BY <1>0, <2>1, <2>2, <2>3, <2>4, CorpusKept
<1>11. CASE Persist
  <2>1. UNCHANGED <<file, command, source, input, document, vetted, chunkVars>>
    BY <1>11 DEF Persist
  <2>2. cmdpc' \in {"close", "idle"} /\ cmdpc = "persist"
    BY <1>11, LeaveEnds, EndEnds DEF Persist
  <2>3. SourcesInv' BY <2>1, <2>2 DEF CorpusInv, SourcesInv
  <2>4. CASE store' = store BY <1>0, <2>1, <2>2, <2>3, <2>4, CorpusKept
  <2>5. CASE Save
    <3>1. /\ [source |-> source, input |-> input] \in vetted
          /\ Located(Reference(source, input), input.category)
          /\ document = [id |-> <<Reference(source, input), input.category>>,
                         text |-> Canonical(source, input).text]
      BY <2>2 DEF CorpusInv, DocumentInv
    <3>2. Len(chunks) \in 1..MaxChunks
      BY <2>2 DEF CorpusInv, ChunkedInv, ChunkInv, Finished
    <3>3. StoreInv'
      <4>1. \A v : /\ Reference(v.source, v.input)' = Reference(v.source, v.input)
                   /\ Canonical(v.source, v.input)' = Canonical(v.source, v.input)
        BY <2>1 DEF Reference, Canonical
      <4> SUFFICES ASSUME NEW id \in DOMAIN store'
                   PROVE  /\ \E v \in vetted :
                                 /\ Canonical(v.source, v.input).text = store'[id].text
                                 /\ id = <<Reference(v.source, v.input), v.input.category>>
                          /\ Located(id[1], id[2])
                          /\ store'[id].chunks \in 1..MaxChunks
        BY <2>1, <4>1 DEF StoreInv, Located
      <4>2. CASE id = document.id
        <5>1. store'[id] = [text |-> document.text, chunks |-> Len(chunks)]
          BY <2>5, <4>2 DEF Save
        <5> QED BY <3>1, <3>2, <4>2, <5>1
      <4>3. CASE id # document.id
        <5>1. id \in DOMAIN store /\ store'[id] = store[id] BY <2>5, <4>3 DEF Save
        <5> QED BY <5>1 DEF CorpusInv, StoreInv
      <4> QED BY <4>2, <4>3
    <3>4. VettedInv' /\ DocumentInv' /\ ChunkedInv'
      BY <2>1, <2>2 DEF CorpusInv, VettedInv, DocumentInv, ChunkedInv
    <3> QED BY <1>0, <2>1, <2>3, <3>3, <3>4 DEF CorpusInv
  <2> QED BY <1>11, <2>4, <2>5 DEF Persist
<1>12. CASE CloseContext \/ PrintOutcome \/ Interrupt
  <2>1. UNCHANGED <<file, command, source, input, document, store, vetted, chunkVars>>
    BY <1>12 DEF CloseContext, PrintOutcome, Interrupt
  <2>2. cmdpc' \in {"idle", "print"} BY <1>12 DEF CloseContext, PrintOutcome, Interrupt, End
  <2>3. SourcesInv' BY <2>1, <2>2 DEF CorpusInv, SourcesInv
  <2> QED BY <1>0, <2>1, <2>2, <2>3, CorpusKept
<1>13. CASE EditFile
  <2>1. /\ UNCHANGED <<cmdpc, command, source, input, document, store, vetted, chunkVars>>
        /\ file' \in Sources \cup {NoFile}
    BY <1>13 DEF EditFile
  <2>2. SourcesInv' BY <2>1 DEF CorpusInv, SourcesInv
  <2>3. cmdpc' \in {"embed", "persist"} => chunkpc' = "done"
    BY <2>1 DEF CorpusInv, ChunkedInv, chunkVars
  <2> QED BY <1>0, <2>1, <2>2, <2>3, CorpusKept
<1>14. CASE UNCHANGED admissionVars
  <2>1. UNCHANGED <<file, cmdpc, command, source, input, document, store, vetted, chunkVars>>
    BY <1>14 DEF admissionVars, cmdVars
  <2>2. SourcesInv' BY <2>1 DEF CorpusInv, SourcesInv
  <2>3. cmdpc' \in {"embed", "persist"} => chunkpc' = "done"
    BY <2>1 DEF CorpusInv, ChunkedInv, chunkVars
  <2> QED BY <1>0, <2>1, <2>2, <2>3, CorpusKept
<1> QED
  BY <1>1, <1>2, <1>3, <1>4, <1>5, <1>6, <1>7, <1>8, <1>9, <1>10, <1>11, <1>12, <1>13, <1>14
  DEF AdmissionNext

\* The invariant of the corpus holds.
LEMMA CorpusHolds == AdmissionSpec => []CorpusInv
BY CorpusInit, CorpusStep, PTL DEF AdmissionSpec

\* For every text, every size of section, window and overlap: what the chunker delivers covers the
\* text, in order, within its limits (ChunksCover; DeterministicChunker.chunk_document).
THEOREM ChunkingCovers == AdmissionSpec => []ChunksCover
BY CorpusHolds, InvCovers, PTL DEF CorpusInv

\* Whatever the files, the arguments, the edits and the failures: what is admitted is clean, and what
\* is stored was admitted (StoredIsVetted; admit_or_raise, build_canonical_document).
THEOREM CorpusVetted == AdmissionSpec => []StoredIsVetted
<1>1. CorpusInv => StoredIsVetted BY DEF CorpusInv, VettedInv, StoreInv, StoredIsVetted
<1> QED BY <1>1, CorpusHolds, PTL
-----------------------------------------------------------------------------
Open == {"OK", "PERSISTENCE_ERROR", "INTERRUPTED"}

\* What may be said of an ingest that is over but for closing its engine and printing.
Honest ==
    /\ ExitCode(reason) = "OK" => Stored(answer.id, answer.text)
    /\ ExitCode(reason) \notin Open => store = before \/ StoredUnprinted

Leaving == {"idle", "close", "print"}
Verbs == cmdpc \in {"compose", "precheck", "embed", "persist", "close"} => command.verb = "ingest"
Untouched == cmdpc \notin Leaving => store = before
Over == cmdpc \in Leaving => IF command.verb = "ingest" THEN Honest ELSE store = before
\* What is going to be printed is the document that was handed over.
Telling ==
    cmdpc \in {"close", "print"} /\ command.verb = "ingest" =>
        /\ cmdpc = "print" => reason = "OK"
        /\ reason = "OK" => answer.id = document.id /\ answer.text = document.text
ExitInv == CorpusInv /\ Verbs /\ Untouched /\ Over /\ Telling

\* _map_exception_to_exit_code gives the code of success to nothing but success.
LEMMA Codes ==
    /\ \A why : ExitCode(why) = "OK" => why = "OK"
    /\ ExitCode("PERSISTENCE_FAILED") = "PERSISTENCE_ERROR"
    /\ ExitCode("CLOSE_FAILED") = "PERSISTENCE_ERROR"
    /\ ExitCode("OS_ERROR") = "PERSISTENCE_ERROR"
    /\ ExitCode("UNPRINTABLE") = "VALIDATION_ERROR"
    /\ ExitCode("INTERRUPTED") = "INTERRUPTED"
BY DEF ExitCode, ConfigErrors, RuntimeErrors, OpenErrors

\* A command ends, or begins to close, with the store as it was and without a claim of success.
LEMMA EndsHonestly ==
    ASSUME NEW why, why # "OK", store = before, UNCHANGED <<store, before>>, reason' = why
    PROVE  Honest'
BY Codes DEF Honest

\* Before any command the invariant of the exit codes holds.
LEMMA ExitInit == AdmissionInit => ExitInv
<1> SUFFICES ASSUME AdmissionInit PROVE ExitInv OBVIOUS
<1>1. Verbs /\ Untouched /\ Over /\ Telling
  BY DEF AdmissionInit, Verbs, Untouched, Over, Telling
<1> QED BY <1>1, CorpusInit DEF ExitInv

\* Steps before anything is stored: they go on, or they end without success.
LEMMA ExitBefore ==
    ASSUME ExitInv, cmdpc \notin Leaving, UNCHANGED <<command, store, before>>,
           cmdpc' \in {"compose", "precheck", "embed", "persist", "close"} => command.verb = "ingest",
           cmdpc' \in {"idle", "close"} => reason' # "OK" \/ command.verb # "ingest",
           cmdpc' = "print" => command.verb # "ingest"
    PROVE  Verbs' /\ Untouched' /\ Over' /\ Telling'
<1>1. store = before BY DEF ExitInv, Untouched
<1>2. Verbs' /\ Untouched' BY <1>1 DEF Verbs, Untouched
<1>3. Over' BY <1>1, EndsHonestly DEF Over, Leaving
<1>4. Telling' BY DEF Telling
<1> QED BY <1>2, <1>3, <1>4

\* Where a command goes when it leaves: an ingestion closes what it has opened.
LEMMA LeaveVerb ==
    \A why : Leave(why) => /\ reason' = why
                          /\ cmdpc' = IF command.verb = "ingest" THEN "close" ELSE "idle"
BY DEF Leave, End

\* Every step of a command keeps the invariant of the exit codes.
LEMMA ExitStep == ExitInv /\ [AdmissionNext]_admissionVars => ExitInv'
<1> SUFFICES ASSUME ExitInv, [AdmissionNext]_admissionVars
             PROVE  Verbs' /\ Untouched' /\ Over' /\ Telling'
  BY CorpusStep DEF ExitInv
<1> USE DEF Leaving
<1>1. ASSUME NEW c \in Commands, Invoke(c) PROVE Verbs' /\ Untouched' /\ Over' /\ Telling'
  <2>1. store' = store /\ before' = store BY <1>1 DEF Invoke
  <2>2. \/ cmdpc' \in {"admit", "stat"}
        \/ cmdpc' = "idle" /\ reason' = "BAD_ARGUMENTS"
    BY <1>1 DEF Invoke, End
  <2>3. Verbs' /\ Untouched' BY <2>1, <2>2 DEF Verbs, Untouched
  <2>4. Over' BY <2>1, <2>2, Codes DEF Over, Honest
  <2>5. Telling' BY <2>2 DEF Telling
  <2> QED BY <2>3, <2>4, <2>5
<1>2. CASE StatFile
  <2>1. UNCHANGED <<command, store, before>> /\ cmdpc = "stat" BY <1>2 DEF StatFile
  <2>2. \/ cmdpc' = "read"
        \/ cmdpc' = "idle" /\ reason' \in {"BAD_ARGUMENTS", "SIZE_LIMIT_EXCEEDED"}
    BY <1>2 DEF StatFile, End
  <2> QED BY <2>1, <2>2, ExitBefore
<1>3. CASE ReadFile
  <2>1. UNCHANGED <<command, store, before>> /\ cmdpc = "read" BY <1>3 DEF ReadFile
  <2>2. \/ cmdpc' = IF command.verb = "ingest" THEN "compose" ELSE "admit"
        \/ cmdpc' = "idle" /\ reason' \in {"OS_ERROR", "SIZE_LIMIT_EXCEEDED"}
    BY <1>3 DEF ReadFile, End
  <2> QED BY <2>1, <2>2, ExitBefore
<1>4. CASE Compose
  <2>1. UNCHANGED <<command, store, before>> /\ cmdpc = "compose" BY <1>4 DEF Compose
  <2>2. cmdpc' = "admit" \/ (cmdpc' = "idle" /\ reason' \in Setups) BY <1>4 DEF Compose, End
  <2>3. cmdpc' = "idle" => reason' # "OK" BY <2>2, AdmissionAssumption
  <2> QED BY <2>1, <2>2, <2>3, ExitBefore
<1>5. CASE Admit
  <2>1. UNCHANGED <<command, store, before>> /\ cmdpc = "admit" BY <1>5 DEF Admit
  <2>2. source \in Sources BY <2>1 DEF ExitInv, CorpusInv, SourcesInv
  <2>3. CASE \E i \in DOMAIN Checks(source, input) : Leave(Checks(source, input)[i].why)
    <3>1. PICK i \in DOMAIN Checks(source, input) : Leave(Checks(source, input)[i].why) BY <2>3
    <3>2. Checks(source, input)[i].why # "OK" BY <2>2, ChecksType
    <3> QED BY <2>1, <3>1, <3>2, LeaveVerb, ExitBefore
  <2>4. CASE command.verb = "admit" /\ End("OK") BY <2>1, <2>4, EndEnds, ExitBefore
  <2>5. CASE Leave("INVALID_PROVENANCE") BY <2>1, <2>5, LeaveVerb, ExitBefore
  <2>6. CASE cmdpc' = IF command.verb = "ingest" THEN "precheck" ELSE "chunk"
    BY <2>1, <2>6, ExitBefore
  <2> QED BY <1>5, <2>3, <2>4, <2>5, <2>6 DEF Admit
<1>6. CASE Precheck
  <2>1. UNCHANGED <<command, store, before>> /\ cmdpc = "precheck" BY <1>6 DEF Precheck
  <2>2. CASE Leave("PERSISTENCE_FAILED") BY <2>1, <2>2, LeaveVerb, ExitBefore
  <2>3. CASE cmdpc' = "chunk" BY <2>1, <2>3, ExitBefore
  <2>4. CASE /\ Stored(document.id, document.text)
             /\ answer' = [id |-> document.id, text |-> document.text, chunks |-> 0]
             /\ Leave("OK")
    <3>1. store = before /\ command.verb = "ingest" BY <2>1 DEF ExitInv, Untouched, Verbs
    <3>2. cmdpc' = "close" BY <2>4, <3>1, LeaveVerb
    <3>3. Stored(answer.id, answer.text)' BY <2>1, <2>4 DEF Stored
    <3>4. Honest' BY <2>1, <3>1, <3>3 DEF Honest
    <3>5. Telling' BY <1>6, <2>4, <3>2 DEF Telling, Precheck
    <3> QED BY <2>1, <3>1, <3>2, <3>4, <3>5 DEF Verbs, Untouched, Over
  <2> QED BY <1>6, <2>2, <2>3, <2>4 DEF Precheck
<1>7. CASE StartChunker
  <2>1. UNCHANGED <<command, store, before>> /\ cmdpc = "chunk" /\ cmdpc' = "chunking"
    BY <1>7 DEF StartChunker
  <2> QED BY <2>1, ExitBefore
<1>8. CASE RunChunker
  <2>1. UNCHANGED <<command, store, before>> /\ cmdpc = "chunking" /\ cmdpc' = "chunking"
    BY <1>8 DEF RunChunker, cmdVars
  <2> QED BY <2>1, ExitBefore
<1>9. CASE EndChunker
  <2>1. UNCHANGED <<command, store, before>> /\ cmdpc = "chunking" BY <1>9 DEF EndChunker
  <2>2. CASE Leave("CHUNKING_FAILED") BY <2>1, <2>2, LeaveVerb, ExitBefore
  <2>3. CASE command.verb = "ingest" /\ cmdpc' = "embed" BY <2>1, <2>3, ExitBefore
  <2>4. CASE command.verb # "ingest" /\ cmdpc' = "print" BY <2>1, <2>4, ExitBefore
  <2> QED BY <1>9, <2>2, <2>3, <2>4 DEF EndChunker
<1>10. CASE Embed
  <2>1. UNCHANGED <<command, store, before>> /\ cmdpc = "embed" BY <1>10 DEF Embed
  <2>2. command.verb = "ingest" BY <2>1 DEF ExitInv, Verbs
  <2>3. cmdpc' = "persist" \/ Leave("EMBEDDING_FAILED") BY <1>10 DEF Embed
  <2> QED BY <2>1, <2>2, <2>3, LeaveVerb, ExitBefore
<1>11. CASE Persist
  <2>1. UNCHANGED <<command, before>> /\ cmdpc = "persist" /\ command.verb = "ingest"
    BY <1>11 DEF Persist, ExitInv, Verbs
  <2>2. CASE Leave("ARTIFACT_FAILED") /\ UNCHANGED <<store, answer>>
    BY <2>1, <2>2, LeaveVerb, ExitBefore
  <2>3. ASSUME reason' \in {"PERSISTENCE_FAILED", "INTERRUPTED"}, cmdpc' \in {"idle", "close"}
        PROVE  Verbs' /\ Untouched' /\ Over' /\ Telling'
    <3>1. ExitCode(reason)' \in Open /\ ExitCode(reason)' # "OK" BY <2>3, Codes DEF Open
    <3>2. Honest' BY <3>1 DEF Honest
    <3>3. Telling' BY <2>3 DEF Telling
    <3> QED BY <2>1, <2>3, <3>2, <3>3 DEF Verbs, Untouched, Over
  <2>4. CASE Leave("OK") /\ Save /\ answer' = Summary
    <3>1. reason' = "OK" /\ cmdpc' = "close" BY <2>1, <2>4, LeaveVerb
    <3>2. answer'.id = document.id /\ answer'.text = document.text BY <2>4 DEF Summary
    <3>3. document.id \in DOMAIN store' /\ store'[document.id].text = document.text
      BY <2>4 DEF Save
    <3>4. Stored(answer.id, answer.text)' BY <3>2, <3>3 DEF Stored
    <3>5. ExitCode(reason)' = "OK" BY <3>1 DEF ExitCode
    <3>6. Honest' BY <3>4, <3>5 DEF Honest, Open
    <3>7. document' = document BY <1>11 DEF Persist
    <3>8. Telling' BY <3>1, <3>2, <3>7 DEF Telling
    <3> QED BY <2>1, <3>1, <3>6, <3>8 DEF Verbs, Untouched, Over
  <2> QED BY <1>11, <2>1, <2>2, <2>3, <2>4, LeaveVerb, EndEnds DEF Persist
<1>12. CASE CloseContext
  <2>1. UNCHANGED <<command, document, store, before>> /\ cmdpc = "close"
    BY <1>12 DEF CloseContext
  <2>2. command.verb = "ingest" /\ Honest /\ Telling BY <2>1 DEF ExitInv, Verbs, Over
  <2>3. CASE reason' = reason /\ answer' = answer /\ cmdpc' \in {"idle", "print"}
             /\ (cmdpc' = "print" => reason = "OK")
    <3>1. Honest' BY <2>1, <2>2, <2>3 DEF Honest, Stored, StoredUnprinted
    <3>2. Telling' BY <2>1, <2>2, <2>3 DEF Telling
    <3> QED BY <2>1, <2>2, <2>3, <3>1, <3>2 DEF Verbs, Untouched, Over
  <2>4. CASE reason' = "CLOSE_FAILED" /\ cmdpc' = "idle"
    <3>1. ExitCode(reason)' = "PERSISTENCE_ERROR" BY <2>4, Codes
    <3> QED BY <2>1, <2>2, <2>4, <3>1 DEF Verbs, Untouched, Over, Honest, Open, Telling
  <2> QED BY <1>12, <2>3, <2>4 DEF CloseContext, End
<1>13. CASE PrintOutcome
  <2>1. UNCHANGED <<command, document, store, before>> /\ cmdpc = "print" /\ cmdpc' = "idle"
    BY <1>13 DEF PrintOutcome, End
  <2>2. Verbs' /\ Untouched' /\ Telling' BY <2>1 DEF Verbs, Untouched, Telling
  <2>3. CASE command.verb # "ingest" BY <2>1, <2>2, <2>3 DEF ExitInv, Over
  <2>4. CASE command.verb = "ingest"
    <3>1. Honest /\ reason = "OK" /\ answer.id = document.id /\ answer.text = document.text
      BY <2>1, <2>4 DEF ExitInv, Over, Telling
    <3>2. Stored(document.id, document.text) BY <3>1 DEF Honest, ExitCode
    <3>3. CASE reason' = "OK" /\ answer' = answer
      <4>1. Stored(answer.id, answer.text)' BY <2>1, <3>1, <3>2, <3>3 DEF Stored
      <4> QED BY <2>1, <2>2, <2>4, <3>3, <4>1 DEF Over, Honest, Open, ExitCode
    <3>4. CASE reason' = "OS_ERROR"
      <4>1. ExitCode(reason)' = "PERSISTENCE_ERROR" BY <3>4, Codes
      <4> QED BY <2>1, <2>2, <2>4, <4>1 DEF Over, Honest, Open
    <3>5. CASE reason' = "UNPRINTABLE" /\ answer.id[1] \in Unprintable
      <4>1. ExitCode(reason)' = "VALIDATION_ERROR" BY <3>5, Codes
      <4>2. StoredUnprinted' BY <2>1, <3>1, <3>2, <3>5, <4>1 DEF StoredUnprinted, Stored
      <4> QED BY <2>1, <2>2, <2>4, <4>1, <4>2 DEF Over, Honest
    <3> QED BY <1>13, <3>3, <3>4, <3>5 DEF PrintOutcome, End
  <2> QED BY <2>3, <2>4
<1>14. CASE Interrupt
  <2>1. UNCHANGED <<command, store, before>> /\ cmdpc # "idle" /\ cmdpc' = "idle"
        /\ reason' = "INTERRUPTED"
    BY <1>14 DEF Interrupt, End
  <2>2. command.verb # "ingest" => store = before
    BY <2>1 DEF ExitInv, Untouched, Over
  <2>3. ExitCode(reason)' = "INTERRUPTED" BY <2>1, Codes
  <2> QED BY <2>1, <2>2, <2>3 DEF Verbs, Untouched, Over, Honest, Open, Telling
<1>15. CASE EditFile \/ UNCHANGED admissionVars
  <2>1. UNCHANGED <<cmdpc, command, document, store, before, reason, answer>>
    BY <1>15 DEF EditFile, admissionVars, cmdVars
  <2> QED BY <2>1 DEF ExitInv, Verbs, Untouched, Over, Honest, Stored, StoredUnprinted, Telling
<1> QED
  BY <1>1, <1>2, <1>3, <1>4, <1>5, <1>6, <1>7, <1>8, <1>9, <1>10, <1>11, <1>12, <1>13, <1>14, <1>15
  DEF AdmissionNext

\* The invariant of the exit codes holds.
LEMMA ExitHolds == AdmissionSpec => []ExitInv
BY ExitInit, ExitStep, PTL DEF AdmissionSpec

\* An exit code says no more about the store than is so, whichever step fails and wherever the
\* command is interrupted (ExitTruthful; _execute_ingest, _map_exception_to_exit_code).
THEOREM ExitCodesTruthful == AdmissionSpec => []ExitTruthful
<1>1. ExitInv => ExitTruthful BY DEF ExitInv, Over, Leaving, Honest, Open, ExitTruthful
<1> QED BY <1>1, ExitHolds, PTL
-----------------------------------------------------------------------------
(* A dry run foretells an ingest because the chunker, whose steps are all that is left to  *)
(* choose, is deterministic: from the beginning of a text it reaches one end.  What is     *)
(* reached from a state is the intersection of the sets of states that hold it and are     *)
(* closed under the chunker's step, which needs no induction over the number of steps.     *)
ChunkStates ==
    [text : Texts, part : Nat, at : Nat, buffer : Nat, sections : Seq(Intervals), start : Nat,
     chunks : Seq(Intervals), chunkpc : {"idle", "partition", "split", "done", "failed"}]

Here ==
    [text |-> text, part |-> part, at |-> at, buffer |-> buffer, sections |-> sections,
     start |-> start, chunks |-> chunks, chunkpc |-> chunkpc]

Begin(t) ==
    [text |-> t, part |-> 1, at |-> 0, buffer |-> 0, sections |-> <<>>, start |-> 0,
     chunks |-> <<>>, chunkpc |-> "partition"]

Going(s) == s.chunkpc \in {"partition", "split"}

FlushedOf(s) ==
    IF s.buffer < s.at THEN Append(s.sections, Interval(s.buffer, s.at)) ELSE s.sections

AfterPart(s) ==
    LET end == s.at + s.text.parts[s.part]
        fits == end - s.buffer <= Target
        small == s.text.parts[s.part] <= MaxTokens
    IN  [text |-> s.text, part |-> s.part + 1, at |-> end,
         buffer |-> IF s.text.headed THEN end ELSE IF fits THEN s.buffer
                    ELSE IF small THEN s.at ELSE end,
         sections |-> IF s.text.headed THEN Append(s.sections, Interval(s.at, end))
                      ELSE IF fits THEN s.sections
                      ELSE IF small THEN FlushedOf(s)
                      ELSE Append(FlushedOf(s), Interval(s.at, end)),
         start |-> s.start, chunks |-> s.chunks, chunkpc |-> s.chunkpc]

AfterSection(s) ==
    LET end == s.sections[s.part].to
        cut == s.start + Target
        whole == Size(s.sections[s.part]) <= MaxTokens \/ cut >= end
    IN  [text |-> s.text, part |-> IF whole THEN s.part + 1 ELSE s.part, at |-> s.at,
         buffer |-> s.buffer, sections |-> s.sections,
         start |-> IF whole THEN end ELSE s.start + Step,
         chunks |-> Append(s.chunks, Interval(s.start, IF whole THEN end ELSE cut)),
         chunkpc |-> s.chunkpc]

\* The one state that follows a state of the chunker.
After(s) ==
    IF s.chunkpc = "partition"
    THEN IF s.part <= Len(s.text.parts) THEN AfterPart(s)
         ELSE [s EXCEPT !.sections = FlushedOf(s), !.part = 1, !.buffer = s.at,
                        !.chunkpc = "split"]
    ELSE IF s.part <= Len(s.sections) THEN AfterSection(s)
         ELSE [s EXCEPT !.chunkpc = IF s.chunks = <<>> \/ Len(s.chunks) > MaxChunks
                                    THEN "failed" ELSE "done"]

\* The step of the chunker is a function of its state (chunk_document keeps nothing else).
LEMMA StepIsAfter ==
    ASSUME ChunkType, ChunkStep PROVE Going(Here) /\ Here' = After(Here)
<1>1. CASE TakePart
  <2>1. Going(Here) /\ After(Here) = AfterPart(Here)
    BY <1>1 DEF TakePart, Going, After, Here
  <2>2. FlushedOf(Here) = Flushed
    BY DEF FlushedOf, Flushed, Here
  <2> DEFINE end == at + text.parts[part]
             S == IF text.headed THEN Append(sections, Interval(at, end))
                  ELSE IF end - buffer <= Target THEN sections
                  ELSE IF text.parts[part] <= MaxTokens THEN Flushed
                  ELSE Append(Flushed, Interval(at, end))
             B == IF text.headed THEN end ELSE IF end - buffer <= Target THEN buffer
                  ELSE IF text.parts[part] <= MaxTokens THEN at ELSE end
  <2>3. /\ sections' = S /\ buffer' = B /\ at' = end /\ part' = part + 1
        /\ UNCHANGED <<text, start, chunks, chunkpc>>
    BY <1>1 DEF TakePart
  <2> DEFINE R == [text |-> text, part |-> part + 1, at |-> end, buffer |-> B, sections |-> S,
                   start |-> start, chunks |-> chunks, chunkpc |-> chunkpc]
  <2>4. AfterPart(Here) = R
    BY <2>2 DEF AfterPart, Here
  <2> HIDE DEF end, S, B
  <2>5. Here' = R
    BY <2>3, Zenon DEF Here
  <2> QED BY <2>1, <2>4, <2>5
<1>2. CASE EndPartition
  <2>1. FlushedOf(Here) = Flushed
    BY DEF FlushedOf, Flushed, Here
  <2>2. ~(part <= Len(text.parts))
    BY <1>2 DEF EndPartition, ChunkType, Texts
  <2> QED BY <1>2, <2>1, <2>2 DEF EndPartition, Going, After, Here
<1>3. CASE SplitSection
  <2>1. Going(Here) /\ After(Here) = AfterSection(Here)
    BY <1>3 DEF SplitSection, Going, After, Here
  <2> DEFINE end == sections[part].to
             cut == start + Target
             whole == Size(sections[part]) <= MaxTokens \/ cut >= end
             C == Append(chunks, Interval(start, IF whole THEN end ELSE cut))
             N == IF whole THEN end ELSE start + Step
             P == IF whole THEN part + 1 ELSE part
  <2>2. /\ chunks' = C /\ start' = N /\ part' = P
        /\ UNCHANGED <<text, at, buffer, sections, chunkpc>>
    <3>1. CASE whole
      BY <1>3, <3>1 DEF SplitSection
    <3>2. CASE ~whole
      BY <1>3, <3>2 DEF SplitSection
    <3> QED BY <3>1, <3>2
  <2> DEFINE R == [text |-> text, part |-> P, at |-> at, buffer |-> buffer, sections |-> sections,
                   start |-> N, chunks |-> C, chunkpc |-> chunkpc]
  <2>3. AfterSection(Here) = R
    BY DEF AfterSection, Here
  <2> HIDE DEF C, N, P
  <2>4. Here' = R
    BY <2>2, Zenon DEF Here
  <2> QED BY <2>1, <2>3, <2>4
<1>4. CASE EndSplit
  <2>1. ~(part <= Len(sections))
    BY <1>4 DEF EndSplit, ChunkType
  <2> QED BY <1>4, <2>1 DEF EndSplit, Going, After, Here
<1> QED BY <1>1, <1>2, <1>3, <1>4 DEF ChunkStep

Moves(s) == Going(s) /\ After(s) \in ChunkStates
Closed(S) == \A s \in S : Moves(s) => After(s) \in S
From(s) == {u \in ChunkStates : \A S \in SUBSET ChunkStates : s \in S /\ Closed(S) => u \in S}

\* A state is reached from itself.
LEMMA FromSelf == ASSUME NEW s \in ChunkStates PROVE s \in From(s)
BY DEF From

\* What follows what is reached is reached.
LEMMA FromNext ==
    ASSUME NEW s, NEW u \in From(s), Moves(u) PROVE After(u) \in From(s)
BY DEF From, Moves, Closed

\* What is reached from a state and is not that state is reached from the one that follows.
LEMMA FromFollows ==
    ASSUME NEW s \in ChunkStates, NEW e \in From(s), e # s
    PROVE  Moves(s) /\ e \in From(After(s))
<1>1. e \in ChunkStates /\ \A S \in SUBSET ChunkStates : s \in S /\ Closed(S) => e \in S
  BY DEF From
<1>2. Moves(s)
  <2> SUFFICES ASSUME ~Moves(s) PROVE FALSE
    OBVIOUS
  <2>1. Closed({s})
    BY DEF Closed
  <2> QED BY <1>1, <2>1
<1>3. ASSUME NEW S \in SUBSET ChunkStates, After(s) \in S, Closed(S) PROVE e \in S
  <2>1. Closed(S \cup {s})
    BY <1>3 DEF Closed
  <2> QED BY <1>1, <2>1
<1> QED BY <1>1, <1>2, <1>3 DEF From

\* From one beginning there is one end.
LEMMA OneEnd ==
    ASSUME NEW s \in ChunkStates, NEW e \in From(s), NEW f \in From(s), ~Going(e), ~Going(f)
    PROVE  e = f
<1> DEFINE S == {x \in ChunkStates : e \in From(x)}
<1>1. Closed(S)
  <2> SUFFICES ASSUME NEW x \in S, Moves(x) PROVE After(x) \in S
    BY DEF Closed
  <2>1. e # x
    BY DEF Moves
  <2> QED BY <2>1, FromFollows DEF Moves
<1>2. s \in S /\ S \in SUBSET ChunkStates
  OBVIOUS
<1>3. f \in S
  BY <1>1, <1>2 DEF From
<1> HIDE DEF S
<1>4. f \in ChunkStates /\ e \in From(f)
  BY <1>3 DEF S
<1> QED BY <1>4, FromFollows DEF Moves
-----------------------------------------------------------------------------
\* What a dry run's answer says of the source it was given.
Foreseen(p) ==
    /\ p.source \in Sources /\ Admitted(p.source, p.input)
    /\ Located(Reference(p.source, p.input), p.input.category)
    /\ p.answer.id = <<Reference(p.source, p.input), p.input.category>>
    /\ p.answer.text = Canonical(p.source, p.input).text
    /\ \E e \in From(Begin(Canonical(p.source, p.input).layout)) :
          e.chunkpc = "done" /\ p.answer.chunks = Len(e.chunks)

\* The outcome of an ingest, held against a prediction for the same source and input.
Bears(out, p) ==
    /\ out.reason \notin Refusals(p.source, p.input)
    /\ out.reason = "OK" =>
          /\ out.answer.id = p.answer.id /\ out.answer.text = p.answer.text
          /\ out.answer.chunks \in {0, p.answer.chunks}

Outcome == [reason |-> reason, answer |-> answer]
Chunker == {"chunking", "embed", "persist"}

Predicted == \A p \in predictions : Foreseen(p)
Unread == cmdpc \in {"stat", "read"} => source = NoFile
Passing == cmdpc \in Handing => Admitted(source, input)
Following ==
    /\ chunkpc # "idle" => Here \in From(Begin(text))
    /\ cmdpc \in Chunker => text = Canonical(source, input).layout /\ chunkpc # "idle"
Borne ==
    cmdpc \in {"close", "print", "idle"} /\ command.verb = "ingest" =>
        \A p \in predictions : p.source = source /\ p.input = input => Bears(Outcome, p)

ForetellInv == Predicted /\ Unread /\ Passing /\ Following /\ Borne

\* A text begins in a state of the chunker.
LEMMA BeginType == ASSUME NEW t \in Texts PROVE Begin(t) \in ChunkStates
BY DEF Begin, ChunkStates

\* A prediction is about a source that was read.
LEMMA ForeseenRead == ASSUME NEW p, Foreseen(p) PROVE p.source # NoFile
<1>1. Clean(p.source, p.input)
  BY AdmittedClean DEF Foreseen
<1>2. p.source.bytes \in MinSourceBytes..MaxSourceBytes /\ MinSourceBytes \in Nat \ {0}
      /\ MaxSourceBytes \in Nat
  BY <1>1, AdmissionAssumption DEF Clean
<1>3. NoFile.bytes = 0
  BY DEF NoFile
<1> QED BY <1>2, <1>3

\* Where the checks were passed, a refusal is one of these.
LEMMA RefusalReasons ==
    ASSUME NEW p, Foreseen(p), NEW why, why \notin ContentReasons, why # "CHUNKING_FAILED"
    PROVE  why \notin Refusals(p.source, p.input)
<1>1. p.source \in Sources
  BY DEF Foreseen
<1>2. \A i \in DOMAIN Checks(p.source, p.input) :
          Checks(p.source, p.input)[i].why \in ContentReasons
  BY <1>1, ChecksType
<1>3. "INVALID_PROVENANCE" \in ContentReasons
  BY DEF ContentReasons
<1> QED BY <1>2, <1>3 DEF Refusals

\* When the chunker has come to its end over a source that a dry run was given before, it has come
\* to the end the dry run came to.
LEMMA SameEnd ==
    ASSUME ChunkType, Following, cmdpc \in Chunker, chunkpc \in {"done", "failed"},
           NEW p, Foreseen(p), p.source = source, p.input = input
    PROVE  chunkpc = "done" /\ Len(chunks) = p.answer.chunks
<1>1. text = Canonical(source, input).layout /\ Here \in From(Begin(text))
  BY DEF Following
<1>2. PICK e \in From(Begin(text)) : e.chunkpc = "done" /\ p.answer.chunks = Len(e.chunks)
  BY <1>1 DEF Foreseen
<1>3. Begin(text) \in ChunkStates
  BY BeginType DEF ChunkType
<1>4. ~Going(e) /\ ~Going(Here)
  BY <1>2 DEF Going, Here
<1>5. e = Here
  BY <1>1, <1>2, <1>3, <1>4, OneEnd
<1> QED BY <1>2, <1>5 DEF Here

\* The chunker follows its own step.
LEMMA FollowingKept ==
    ASSUME Following, ChunkType, ChunkType', ChunkStep PROVE Here' \in From(Begin(text'))
<1>1. Here' = After(Here) /\ Going(Here)
  BY StepIsAfter
<1>2. text' = text /\ chunkpc # "idle"
  BY DEF ChunkStep, TakePart, EndPartition, SplitSection, EndSplit
<1>3. Here' \in ChunkStates
  BY DEF ChunkType, Here, ChunkStates
<1>4. Here \in From(Begin(text)) /\ Moves(Here)
  BY <1>1, <1>2, <1>3 DEF Following, Moves
<1>5. After(Here) \in From(Begin(text))
  BY <1>4, FromNext
<1> QED BY <1>1, <1>2, <1>5

\* A reason that is neither success nor a refusal of the content belies no prediction.
LEMMA EndsOtherwise ==
    ASSUME Predicted, predictions' = predictions,
           reason' \notin ContentReasons, reason' \notin {"CHUNKING_FAILED", "OK"}
    PROVE  Borne'
BY RefusalReasons DEF Borne, Bears, Outcome, Predicted

\* Where nothing was read, no prediction is about it.
LEMMA EndsUnread ==
    ASSUME Predicted, predictions' = predictions, source' = NoFile
    PROVE  Borne'
BY ForeseenRead DEF Borne, Predicted

\* An ingest that is told it succeeded, with a document that was foreseen.
LEMMA EndsWell ==
    ASSUME Predicted, UNCHANGED <<predictions, source, input>>, reason' = "OK",
           answer'.id = <<Reference(source, input), input.category>>,
           answer'.text = Canonical(source, input).text,
           \A p \in predictions :
              p.source = source /\ p.input = input => answer'.chunks \in {0, p.answer.chunks}
    PROVE  Borne'
<1>1. "OK" \notin ContentReasons \cup {"CHUNKING_FAILED"}
  BY DEF ContentReasons
<1>2. ASSUME NEW p \in predictions, p.source = source, p.input = input PROVE Bears(Outcome', p)
  <2>1. Foreseen(p)
    BY DEF Predicted
  <2>2. "OK" \notin Refusals(p.source, p.input)
    BY <1>1, <2>1, RefusalReasons
  <2>3. answer'.id = p.answer.id /\ answer'.text = p.answer.text
    BY <1>2, <2>1 DEF Foreseen
  <2> QED BY <1>2, <2>2, <2>3 DEF Bears, Outcome
<1> QED BY <1>2 DEF Borne

\* A step that leaves source, input and chunker alone and goes to no later phase keeps all but what
\* the outcome says.
LEMMA ForetellKept ==
    ASSUME ForetellInv, UNCHANGED <<predictions, source, input, chunkVars>>,
           cmdpc' \in {"stat", "read"} => cmdpc \in {"stat", "read"},
           cmdpc' \in Handing => cmdpc \in Handing,
           cmdpc' \in Chunker => cmdpc \in Chunker,
           Borne'
    PROVE  ForetellInv'
<1>1. Predicted' /\ Unread' /\ Passing'
  BY DEF ForetellInv, Predicted, Unread, Passing
<1>2. Following'
  BY DEF ForetellInv, Following, chunkVars, Here
<1> QED BY <1>1, <1>2 DEF ForetellInv

\* Before any command nothing is foretold.
LEMMA ForetellInit == AdmissionInit => ForetellInv
<1> SUFFICES ASSUME AdmissionInit PROVE ForetellInv OBVIOUS
<1>1. Predicted /\ Unread /\ Passing /\ Borne
  BY DEF AdmissionInit, Predicted, Unread, Passing, Borne, Handing
<1>2. Following
  BY DEF AdmissionInit, ChunkInit, Following, Chunker
<1> QED BY <1>1, <1>2 DEF ForetellInv

\* Every step of a command keeps the invariant of the predictions.
LEMMA ForetellStep == ForetellInv /\ ExitInv /\ [AdmissionNext]_admissionVars => ForetellInv'
<1> SUFFICES ASSUME ForetellInv, ExitInv, [AdmissionNext]_admissionVars PROVE ForetellInv'
  OBVIOUS
<1> USE DEF Handing, Chunker
<1>0. Predicted /\ Passing /\ Following /\ CorpusInv /\ ChunkType
  BY DEF ForetellInv, ExitInv, CorpusInv, ChunkInv
<1>1. ASSUME NEW c \in Commands, Invoke(c) PROVE ForetellInv'
  <2>1. UNCHANGED <<predictions, chunkVars>> /\ command' = c
    BY <1>1 DEF Invoke
  <2>2. CASE c.verb = "admit"
    <3>1. cmdpc' = "admit" /\ source' = file BY <1>1, <2>2 DEF Invoke
    <3>2. Unread' /\ Passing' /\ Borne' BY <3>1 DEF Unread, Passing, Borne
    <3>3. Following' BY <1>0, <2>1, <3>1 DEF Following, chunkVars, Here
    <3> QED BY <1>0, <2>1, <3>2, <3>3 DEF ForetellInv, Predicted
  <2>3. CASE c.verb # "admit"
    <3>1. cmdpc' \in {"idle", "stat"} /\ source' = NoFile BY <1>1, <2>3 DEF Invoke, End
    <3>2. Borne' BY <1>0, <2>1, <3>1, EndsUnread
    <3>3. Unread' /\ Passing' BY <3>1 DEF Unread, Passing
    <3>4. Following' BY <1>0, <2>1, <3>1 DEF Following, chunkVars, Here
    <3> QED BY <1>0, <2>1, <3>2, <3>3, <3>4 DEF ForetellInv, Predicted
  <2> QED BY <2>2, <2>3
<1>2. CASE StatFile
  <2>1. UNCHANGED <<predictions, source, input, chunkVars>> /\ cmdpc = "stat" BY <1>2 DEF StatFile
  <2>2. cmdpc' \in {"idle", "read"} BY <1>2 DEF StatFile, End
  <2>3. source' = NoFile BY <2>1 DEF ForetellInv, Unread
  <2>4. Borne' BY <1>0, <2>1, <2>3, EndsUnread
  <2> QED BY <2>1, <2>2, <2>4, ForetellKept
<1>3. CASE ReadFile
  <2>1. UNCHANGED <<predictions, input, chunkVars>> /\ cmdpc = "read" BY <1>3 DEF ReadFile
  <2>2. \/ cmdpc' = "idle" /\ source' = source
        \/ cmdpc' \in {"compose", "admit"}
    BY <1>3 DEF ReadFile, End
  <2>3. CASE cmdpc' = "idle" /\ source' = source
    <3>1. source' = NoFile BY <2>1, <2>3 DEF ForetellInv, Unread
    <3>2. Borne' BY <1>0, <2>1, <3>1, EndsUnread
    <3> QED BY <2>1, <2>3, <3>2, ForetellKept
  <2>4. CASE cmdpc' \in {"compose", "admit"}
    <3>1. Unread' /\ Passing' /\ Borne' BY <2>4 DEF Unread, Passing, Borne
    <3>2. Following' BY <1>0, <2>1, <2>4 DEF Following, chunkVars, Here
    <3> QED BY <1>0, <2>1, <3>1, <3>2 DEF ForetellInv, Predicted
  <2> QED BY <2>2, <2>3, <2>4
<1>4. CASE Compose
  <2>1. UNCHANGED <<predictions, source, input, chunkVars>> /\ cmdpc = "compose"
    BY <1>4 DEF Compose
  <2>2. cmdpc' = "admit" \/ (cmdpc' = "idle" /\ reason' \in Setups) BY <1>4 DEF Compose, End
  <2>3. Borne'
    <3>1. CASE cmdpc' = "admit" BY <3>1 DEF Borne
    <3>2. CASE cmdpc' = "idle" /\ reason' \in Setups
      <4>1. reason' \notin ContentReasons /\ reason' \notin {"CHUNKING_FAILED", "OK"}
        BY <3>2, SetupAssumption, AdmissionAssumption
      <4> QED BY <1>0, <2>1, <4>1, EndsOtherwise
    <3> QED BY <2>2, <3>1, <3>2
  <2> QED BY <2>1, <2>2, <2>3, ForetellKept
<1>5. CASE Admit
  <2>1. UNCHANGED <<command, predictions, source, input, chunkVars>> /\ cmdpc = "admit"
    BY <1>5 DEF Admit
  <2>2. ASSUME \/ ~Admitted(source, input)
               \/ ~Located(Reference(source, input), input.category)
               \/ command.verb # "ingest",
               cmdpc' \in {"close", "idle"}
        PROVE  ForetellInv'
    <3>1. command.verb = "ingest" =>
              \A p \in predictions : ~(p.source = source /\ p.input = input)
      BY <1>0, <2>1, <2>2 DEF Predicted, Foreseen, ExitInv
    <3>2. Borne' BY <2>1, <3>1 DEF Borne
    <3> QED BY <2>1, <2>2, <3>2, ForetellKept
  <2>3. CASE \E i \in DOMAIN Checks(source, input) :
                Checks(source, input)[i].fails /\ Leave(Checks(source, input)[i].why)
    <3>1. ~Admitted(source, input) BY <2>3 DEF Admitted
    <3>2. cmdpc' \in {"close", "idle"} BY <2>3, LeaveEnds
    <3> QED BY <2>2, <3>1, <3>2
  <2>4. CASE command.verb = "admit" /\ End("OK") BY <2>2, <2>4, EndEnds
  <2>5. CASE /\ ~Located(Reference(source, input), input.category)
             /\ Leave("INVALID_PROVENANCE")
    BY <2>2, <2>5, LeaveEnds
  <2>6. CASE /\ Admitted(source, input)
             /\ cmdpc' = IF command.verb = "ingest" THEN "precheck" ELSE "chunk"
    <3>1. Unread' /\ Passing' /\ Borne' BY <2>1, <2>6 DEF Unread, Passing, Borne
    <3>2. Following' BY <1>0, <2>1, <2>6 DEF Following, chunkVars, Here
    <3> QED BY <1>0, <2>1, <3>1, <3>2 DEF ForetellInv, Predicted
  <2> QED BY <1>5, <2>3, <2>4, <2>5, <2>6 DEF Admit
<1>6. CASE Precheck
  <2>1. UNCHANGED <<predictions, source, input, chunkVars>> /\ cmdpc = "precheck"
    BY <1>6 DEF Precheck
  <2>2. document = [id |-> <<Reference(source, input), input.category>>,
                    text |-> Canonical(source, input).text]
    BY <1>0, <2>1 DEF CorpusInv, DocumentInv
  <2>3. CASE Leave("PERSISTENCE_FAILED")
    <3>1. Borne' BY <1>0, <2>1, <2>3, LeaveEnds, EndsOtherwise DEF ContentReasons
    <3> QED BY <2>1, <2>3, <3>1, LeaveEnds, ForetellKept
  <2>4. CASE /\ answer' = [id |-> document.id, text |-> document.text, chunks |-> 0]
             /\ Leave("OK")
    <3>1. Borne' BY <1>0, <2>1, <2>2, <2>4, LeaveEnds, EndsWell
    <3> QED BY <2>1, <2>4, <3>1, LeaveEnds, ForetellKept
  <2>5. CASE cmdpc' = "chunk"
    <3>1. Borne' BY <2>5 DEF Borne
    <3> QED BY <2>1, <2>5, <3>1, ForetellKept
  <2> QED BY <1>6, <2>3, <2>4, <2>5 DEF Precheck
<1>7. CASE StartChunker
  <2>1. UNCHANGED <<predictions, source, input>> /\ cmdpc = "chunk" /\ cmdpc' = "chunking"
        /\ Chunk(Canonical(source, input).layout)
    BY <1>7 DEF StartChunker
  <2>2. Canonical(source, input).layout \in Texts
    BY <1>0, <2>1, SourceFields DEF CorpusInv, SourcesInv
  <2>3. text' = Canonical(source, input).layout /\ chunkpc' = "partition" /\ Here' = Begin(text')
    BY <2>1 DEF Chunk, Here, Begin
  <2>4. Here' \in From(Begin(text'))
    BY <2>2, <2>3, BeginType, FromSelf
  <2>5. Following' BY <2>1, <2>3, <2>4 DEF Following
  <2>6. Unread' /\ Passing' /\ Borne' BY <1>0, <2>1 DEF Unread, Passing, Borne
  <2> QED BY <1>0, <2>1, <2>5, <2>6 DEF ForetellInv, Predicted
<1>8. CASE RunChunker
  <2>1. UNCHANGED <<predictions, source, input, cmdpc>> /\ cmdpc = "chunking" /\ ChunkStep
    BY <1>8 DEF RunChunker, cmdVars
  <2>2. text' = text /\ chunkpc' # "idle"
    BY <2>1 DEF ChunkStep, TakePart, EndPartition, SplitSection, EndSplit
  <2>3. ChunkType' BY <1>0, <2>1, ChunkStepKeeps DEF CorpusInv, ChunkInv
  <2>4. Here' \in From(Begin(text')) BY <1>0, <2>1, <2>3, FollowingKept
  <2>5. Following' BY <1>0, <2>1, <2>2, <2>4 DEF Following
  <2>6. Unread' /\ Passing' /\ Borne' BY <1>0, <2>1 DEF Unread, Passing, Borne
  <2> QED BY <1>0, <2>1, <2>5, <2>6 DEF ForetellInv, Predicted
<1>9. CASE EndChunker
  <2>1. UNCHANGED <<command, source, input, document, chunkVars>> /\ cmdpc = "chunking"
        /\ chunkpc \in {"done", "failed"}
    BY <1>9 DEF EndChunker
  <2>2. ASSUME NEW p \in predictions, p.source = source, p.input = input
        PROVE  chunkpc = "done" /\ Len(chunks) = p.answer.chunks
    BY <1>0, <2>1, <2>2, SameEnd DEF Predicted
  <2>3. CASE chunkpc = "failed" /\ Leave("CHUNKING_FAILED") /\ UNCHANGED predictions
    <3>1. Borne' BY <2>1, <2>2, <2>3 DEF Borne
    <3> QED BY <2>1, <2>3, <3>1, LeaveEnds, ForetellKept
  <2>4. CASE cmdpc' = "embed" /\ UNCHANGED predictions
    <3>1. Borne' BY <2>4 DEF Borne
    <3> QED BY <2>1, <2>4, <3>1, ForetellKept
  <2>5. CASE /\ chunkpc = "done" /\ command.verb # "ingest" /\ cmdpc' = "print"
             /\ predictions' = predictions \cup
                   {[source |-> source, input |-> input, answer |-> Summary]}
    <3> DEFINE new == [source |-> source, input |-> input, answer |-> Summary]
    <3>1. document = [id |-> <<Reference(source, input), input.category>>,
                      text |-> Canonical(source, input).text]
          /\ Located(Reference(source, input), input.category) /\ source \in Sources
      BY <1>0, <2>1 DEF CorpusInv, DocumentInv, SourcesInv
    <3>2. Here \in From(Begin(Canonical(source, input).layout)) /\ Here.chunkpc = "done"
          /\ Here.chunks = chunks
      BY <1>0, <2>1, <2>5 DEF Following, Here
    <3>3. Foreseen(new)
      BY <1>0, <2>1, <3>1, <3>2 DEF Foreseen, Passing, Summary
    <3>4. Predicted' BY <1>0, <2>5, <3>3 DEF Predicted
    <3>5. Unread' /\ Passing' /\ Borne' BY <2>1, <2>5 DEF Unread, Passing, Borne
    <3>6. Following' BY <1>0, <2>1, <2>5 DEF Following, chunkVars, Here
    <3> QED BY <3>4, <3>5, <3>6 DEF ForetellInv
  <2> QED BY <1>9, <2>1, <2>3, <2>4, <2>5 DEF EndChunker
<1>10. CASE Embed
  <2>1. UNCHANGED <<predictions, source, input, chunkVars>> /\ cmdpc = "embed" BY <1>10 DEF Embed
  <2>2. CASE cmdpc' = "persist"
    <3>1. Borne' BY <2>2 DEF Borne
    <3> QED BY <2>1, <2>2, <3>1, ForetellKept
  <2>3. CASE Leave("EMBEDDING_FAILED")
    <3>1. Borne' BY <1>0, <2>1, <2>3, LeaveEnds, EndsOtherwise DEF ContentReasons
    <3> QED BY <2>1, <2>3, <3>1, LeaveEnds, ForetellKept
  <2> QED BY <1>10, <2>2, <2>3 DEF Embed
<1>11. CASE Persist
  <2>1. UNCHANGED <<predictions, source, input, document, chunkVars>> /\ cmdpc = "persist"
    BY <1>11 DEF Persist
  <2>2. ASSUME cmdpc' \in {"close", "idle"},
               reason' \in {"ARTIFACT_FAILED", "PERSISTENCE_FAILED", "INTERRUPTED"}
        PROVE  ForetellInv'
    <3>1. Borne' BY <1>0, <2>1, <2>2, EndsOtherwise DEF ContentReasons
    <3> QED BY <2>1, <2>2, <3>1, ForetellKept
  <2>3. CASE Leave("OK") /\ answer' = Summary
    <3>1. document = [id |-> <<Reference(source, input), input.category>>,
                      text |-> Canonical(source, input).text] /\ chunkpc = "done"
      BY <1>0, <2>1 DEF CorpusInv, DocumentInv, ChunkedInv
    <3>2. /\ answer'.id = <<Reference(source, input), input.category>>
          /\ answer'.text = Canonical(source, input).text /\ answer'.chunks = Len(chunks)
      BY <2>3, <3>1 DEF Summary
    <3>3. \A p \in predictions :
              p.source = source /\ p.input = input => Len(chunks) = p.answer.chunks
      BY <1>0, <2>1, <3>1, SameEnd DEF Predicted
    <3>4. Borne' BY <1>0, <2>1, <2>3, <3>2, <3>3, LeaveEnds, EndsWell
    <3> QED BY <2>1, <2>3, <3>4, LeaveEnds, ForetellKept
  <2> QED BY <1>11, <2>2, <2>3, LeaveEnds, EndEnds DEF Persist
<1>12. CASE CloseContext
  <2>1. UNCHANGED <<command, predictions, source, input, chunkVars>> /\ cmdpc = "close"
        /\ cmdpc' \in {"idle", "print"}
    BY <1>12 DEF CloseContext, End
  <2>2. CASE reason' = reason /\ answer' = answer
    <3>1. Borne' BY <2>1, <2>2 DEF ForetellInv, Borne, Outcome
    <3> QED BY <2>1, <3>1, ForetellKept
  <2>3. CASE reason' = "CLOSE_FAILED"
    <3>1. Borne' BY <1>0, <2>1, <2>3, EndsOtherwise DEF ContentReasons
    <3> QED BY <2>1, <3>1, ForetellKept
  <2> QED BY <1>12, <2>2, <2>3 DEF CloseContext, End
<1>13. CASE PrintOutcome
  <2>1. UNCHANGED <<command, predictions, source, input, chunkVars>> /\ cmdpc = "print"
        /\ cmdpc' = "idle"
    BY <1>13 DEF PrintOutcome, End
  <2>2. CASE reason' = "OK" /\ answer' = answer
    <3>1. command.verb = "ingest" => reason = "OK" BY <2>1 DEF ExitInv, Telling
    <3>2. Borne' BY <2>1, <2>2, <3>1 DEF ForetellInv, Borne, Outcome
    <3> QED BY <2>1, <3>2, ForetellKept
  <2>3. CASE reason' \in {"UNPRINTABLE", "OS_ERROR"}
    <3>1. Borne' BY <1>0, <2>1, <2>3, EndsOtherwise DEF ContentReasons
    <3> QED BY <2>1, <3>1, ForetellKept
  <2> QED BY <1>13, <2>2, <2>3 DEF PrintOutcome, End
<1>14. CASE Interrupt
  <2>1. UNCHANGED <<predictions, source, input, chunkVars>> /\ cmdpc' = "idle"
        /\ reason' = "INTERRUPTED"
    BY <1>14 DEF Interrupt, End
  <2>2. Borne' BY <1>0, <2>1, EndsOtherwise DEF ContentReasons
  <2> QED BY <2>1, <2>2, ForetellKept
<1>15. CASE EditFile \/ UNCHANGED admissionVars
  <2>1. UNCHANGED <<command, cmdpc, predictions, source, input, reason, answer, chunkVars>>
    BY <1>15 DEF EditFile, admissionVars, cmdVars
  <2>2. Borne' BY <2>1 DEF ForetellInv, Borne, Outcome
  <2> QED BY <2>1, <2>2, ForetellKept
<1> QED
  BY <1>1, <1>2, <1>3, <1>4, <1>5, <1>6, <1>7, <1>8, <1>9, <1>10, <1>11, <1>12, <1>13, <1>14, <1>15
  DEF AdmissionNext

\* What a dry run answers is what an ingest of the same bytes and arguments comes to, whatever has
\* happened to the store since (DryRunPredicts; _execute_dry_run, _execute_ingest).
THEOREM DryRunsForetell == AdmissionSpec => []DryRunPredicts
<1>1. ForetellInv => DryRunPredicts
  BY DEF ForetellInv, Borne, Bears, Outcome, DryRunPredicts
<1> QED BY <1>1, ForetellInit, ForetellStep, ExitHolds, PTL DEF AdmissionSpec
=============================================================================
