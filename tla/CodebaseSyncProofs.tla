-------------------------- MODULE CodebaseSyncProofs --------------------------
(***************************************************************************)
(* What CodebaseSync promises for any number of syncs, processes, records  *)
(* and source versions: the type invariant, that the manifest and the      *)
(* search cache are backed by files, that the manifest's hashes are true,  *)
(* and that a dry run writes nothing.                                      *)
(*                                                                         *)
(* Control says what a sync holds at each stage; Mirror relates its        *)
(* entries to the files and their last writer.  The manifest is such a     *)
(* list too, of a sync that writes no file any more.                       *)
(***************************************************************************)
EXTENDS CodebaseSync, SequenceTheorems, TLAPS

Stages == {"idle", "fetching", "done"} \cup Running
Outcomes == {"success", "failed", "raised", "cancelled", "killed"}

IsSeq(q) == Len(q) \in Nat /\ q = [i \in 1..Len(q) |-> q[i]]

\* Text and path of a file are those of a record.
FileOK(file) ==
    /\ file.text \in Texts
    /\ file.listed \in BOOLEAN
    /\ file.path[2] = file.listed

FilesOK(files) == IsSeq(files) /\ \A i \in 1..Len(files) : FileOK(files[i])

Shape ==
    /\ source \in 0..MaxSource
    /\ pc \in [Syncs -> Stages]
    /\ result \in [Syncs -> Outcomes \cup {"none"}]
    /\ DOMAIN ask = Syncs /\ ask = [s \in Syncs |-> ask[s]]
    /\ todo \in [Syncs -> Seq(Sections)]
    /\ batch = [s \in Syncs |-> batch[s]]
    /\ entries = [s \in Syncs |-> entries[s]]

Status(s) ==
    /\ pc[s] = "idle" => ask[s] = NoAsk
    /\ pc[s] = "fetching" => todo[s] # <<>>
    /\ pc[s] = "done" <=> result[s] # "none"
    /\ pc[s] \in {"writing", "open"} <=> batch[s] # <<>>
    /\ pc[s] \in {"writing", "open", "publishing"} => ~ask[s].dry
    /\ FilesOK(batch[s])
    /\ IsSeq(entries[s])

Control == Shape /\ \A s \in Syncs : Status(s)

DiskOK ==
    /\ DOMAIN toucher = DOMAIN disk
    /\ \A p \in DOMAIN disk : disk[p] \in Texts

\* A list of entries is one of files the sync has written, in full if it alone has written
\* them since and does not have the path open again.
Backing(s, list) ==
    \A i \in 1..Len(list) :
        /\ list[i].path \in DOMAIN disk
        /\ list[i].path[2] = TRUE
        /\ /\ toucher[list[i].path] = s
           /\ LastOf(list, i)
           /\ ~(pc[s] = "open" /\ Head(batch[s]).path = list[i].path)
           => disk[list[i].path] = list[i].text

Mirrored(s) ==
    /\ pc[s] = "open" => Head(batch[s]).path \in DOMAIN disk
    /\ Backing(s, entries[s])

\* At its answer, or over with it given or cut off.
Finished(s) == pc[s] = "answering" \/ (pc[s] = "done" /\ result[s] \in {"success", "killed"})

Published ==
    manifest \notin {NoManifest, Torn} =>
        /\ manifest.author \in Syncs
        /\ Finished(manifest.author)
        /\ Backing(manifest.author, manifest.entries)

CacheOK == cache # NoCache => cache \subseteq DOMAIN disk

Mirror == DiskOK /\ (\A s \in Syncs : Mirrored(s)) /\ Published /\ CacheOK

IInv == Control /\ Mirror /\ made \in BOOLEAN

-----------------------------------------------------------------------------
(* Sequences *)

\* A sequence in the sense used here is one in the library's.
LEMMA SeqOfItsRange ==
    ASSUME NEW q, IsSeq(q), NEW T, \A i \in 1..Len(q) : q[i] \in T
    PROVE  q \in Seq(T)
<1> DEFINE n == Len(q)
<1>1. n \in Nat /\ q = [i \in 1..n |-> q[i]]  BY DEF IsSeq
<1>2. q \in [1..n -> T]  BY <1>1
<1>3. QED  BY <1>1, <1>2, SeqDef

\* And the other way round.
LEMMA ItsRangeSeq ==
    ASSUME NEW T, NEW q \in Seq(T)
    PROVE  IsSeq(q)
<1>1. Len(q) \in Nat  BY LenProperties
<1>2. q \in [1..Len(q) -> T]  BY <1>1
<1>3. QED  BY <1>1, <1>2 DEF IsSeq

\* The empty list of a sync that has fetched nothing.
LEMMA EmptyIsSeq == IsSeq(<<>>) /\ FilesOK(<<>>)
BY DEF IsSeq, FilesOK

\* What is left of a section when its first file is written.
LEMMA TailIsSeq ==
    ASSUME NEW q, IsSeq(q), q # <<>>
    PROVE  /\ IsSeq(Tail(q)) /\ Len(Tail(q)) = Len(q) - 1
           /\ \A i \in 1..Len(Tail(q)) : Tail(q)[i] = q[i + 1]
           /\ 1 \in 1..Len(q) /\ Head(q) = q[1]
<1> DEFINE T == {q[i] : i \in 1..Len(q)}
<1>1. q \in Seq(T)  BY SeqOfItsRange
<1>2. Tail(q) \in Seq(T) /\ Len(q) \in Nat /\ Len(q) > 0  BY <1>1, EmptySeq, HeadTailProperties, LenProperties
<1>3. Len(Tail(q)) = Len(q) - 1 /\ Head(q) = q[1]  BY <1>1, <1>2
<1>4. \A i \in 1..Len(Tail(q)) : Tail(q)[i] = q[i + 1]  BY <1>1, <1>2, <1>3
<1>5. IsSeq(Tail(q))  BY <1>2, ItsRangeSeq
<1>6. QED  BY <1>2, <1>3, <1>4, <1>5

\* The entries of a sync when one is added.
LEMMA AppendIsSeq ==
    ASSUME NEW q, IsSeq(q), NEW e
    PROVE  /\ IsSeq(Append(q, e)) /\ Len(Append(q, e)) = Len(q) + 1
           /\ \A i \in 1..Len(q) : Append(q, e)[i] = q[i]
           /\ Append(q, e)[Len(q) + 1] = e
<1> DEFINE T == {q[i] : i \in 1..Len(q)} \cup {e}
<1>1. q \in Seq(T)  BY SeqOfItsRange
<1>2. Append(q, e) \in Seq(T) /\ Len(q) \in Nat  BY <1>1, AppendProperties, LenProperties
<1>3. IsSeq(Append(q, e))  BY <1>2, ItsRangeSeq
<1>4. QED  BY <1>1, <1>2, <1>3
-----------------------------------------------------------------------------
(* What a fetch returns *)

RecordsOK(records) ==
    /\ Len(records) \in Nat
    /\ \A i \in 1..Len(records) : records[i].text \in Texts /\ records[i].listed \in BOOLEAN

\* Whatever queries failed, the rows that are left are records of the source, or emptied.
LEMMA FetchedOK ==
    ASSUME source \in 0..MaxSource, NEW section \in Sections, NEW records \in Fetched(section)
    PROVE  RecordsOK(records)
<1> DEFINE rows == Records[section][source]
<1>1. /\ Len(rows) \in Nat
      /\ \A i \in 1..Len(rows) :
            /\ DOMAIN rows[i] = {"id", "folder", "name", "listed", "text"}
            /\ rows[i].listed \in BOOLEAN
  BY SyncAssumption DEF SyncAssumption
<1>2. \A i \in 1..Len(rows) : rows[i].text \in Texts
  <2>1. {rows[i].text : i \in 1..Len(rows)} = TextsOf(section, source)  BY DEF TextsOf
  <2>2. TextsOf(section, source) \subseteq Texts  BY DEF Texts
  <2>3. QED  BY <2>1, <2>2
<1>3. RecordsOK(rows)  BY <1>1, <1>2 DEF RecordsOK
<1>4. RecordsOK(Flat(rows))
  <2>1. Len(Flat(rows)) = Len(rows)  BY <1>1 DEF Flat
  <2>2. ASSUME NEW i \in 1..Len(rows)
        PROVE  Flat(rows)[i].text = rows[i].text /\ Flat(rows)[i].listed = rows[i].listed
    BY <1>1 DEF Flat
  <2>3. QED  BY <2>1, <2>2, <1>3 DEF RecordsOK
<1>5. RecordsOK(Emptied(rows))
  <2>1. Len(Emptied(rows)) = Len(rows)  BY <1>1 DEF Emptied
  <2>2. ASSUME NEW i \in 1..Len(rows)
        PROVE  Emptied(rows)[i].text = <<"empty">> /\ Emptied(rows)[i].listed = rows[i].listed
    BY <1>1 DEF Emptied
  <2>3. <<"empty">> \in Texts  BY DEF Texts
  <2>4. QED  BY <2>1, <2>2, <2>3, <1>3 DEF RecordsOK
<1>6. ASSUME NEW some \in Kept(rows) PROVE RecordsOK(some)
  <2>1. PICK n \in 0..Len(rows) :
            \E f \in [1..n -> 1..Len(rows)] : some = [i \in 1..n |-> rows[f[i]]]
    <3> DEFINE chosen(n) ==
                 {f \in [1..n -> 1..Len(rows)] :
                    /\ \A i, j \in 1..n : i < j => f[i] < f[j]
                    /\ \A i \in 1..n, k \in 1..Len(rows) :
                          rows[k].id = rows[f[i]].id => \E j \in 1..n : f[j] = k}
    <3>1. PICK n \in 0..Len(rows) : some \in {[i \in 1..n |-> rows[f[i]]] : f \in chosen(n)}
      BY DEF Kept
    <3>2. QED  BY <3>1
  <2> PICK f \in [1..n -> 1..Len(rows)] : some = [i \in 1..n |-> rows[f[i]]]
    BY <2>1
  <2>2. Len(some) = n /\ n \in Nat  BY <2>1, <1>1
  <2>3. \A i \in 1..n : f[i] \in 1..Len(rows) /\ some[i] = rows[f[i]]  BY <2>1
  <2>4. QED  BY <2>2, <2>3, <1>3 DEF RecordsOK
<1>7. CASE section = "ejscript"
  BY <1>3, <1>4, <1>7 DEF Fetched, ScriptRows
<1>8. CASE section = "schema"
  BY <1>3, <1>5, <1>8 DEF Fetched, TableRows
<1>9. CASE section \notin {"ejscript", "schema"}
  BY <1>6, <1>9 DEF Fetched, SeveralRows, Sections
<1>10. QED  BY <1>7, <1>8, <1>9

\* The files laid out for those rows.
LEMMA FilesLaidOut ==
    ASSUME NEW records, RecordsOK(records)
    PROVE  FilesOK(Files(records))
<1>1. Len(Files(records)) = Len(records)  BY DEF Files, RecordsOK
<1>2. Files(records) = [i \in 1..Len(records) |-> Files(records)[i]]  BY DEF Files
<1>3. IsSeq(Files(records))  BY <1>1, <1>2 DEF IsSeq, RecordsOK
<1>4. ASSUME NEW i \in 1..Len(records) PROVE FileOK(Files(records)[i])
  <2>1. /\ Files(records)[i].text = records[i].text
        /\ Files(records)[i].listed = records[i].listed
        /\ Files(records)[i].path[2] = records[i].listed
    BY DEF Files
  <2>2. QED  BY <2>1 DEF FileOK, RecordsOK
<1>5. QED  BY <1>1, <1>3, <1>4 DEF FilesOK

\* The sections of a sync.
LEMMA SelectedSections ==
    ASSUME NEW mode, NEW tables
    PROVE  Selected(mode, tables) \in Seq(Sections)
<1> DEFINE one(section) == IF section \in tables THEN <<section>> ELSE <<>>
           last == IF mode = "http" THEN one("config") ELSE <<>>
<1>1. ASSUME NEW section \in Sections PROVE one(section) \in Seq(Sections)
  <2>1. <<section>> \in Seq(Sections)  OBVIOUS
  <2>2. <<>> \in Seq(Sections)  OBVIOUS
  <2>3. QED  BY <2>1, <2>2
<1>2. /\ one("ejscript") \in Seq(Sections) /\ one("screens") \in Seq(Sections)
      /\ one("schema") \in Seq(Sections) /\ last \in Seq(Sections)
  <2>1. {"ejscript", "screens", "schema", "config"} \subseteq Sections  BY DEF Sections
  <2>2. <<>> \in Seq(Sections)  OBVIOUS
  <2> HIDE DEF one
  <2>3. QED  BY <1>1, <2>1, <2>2
<1> HIDE DEF one, last
<1>3. one("ejscript") \o one("screens") \in Seq(Sections)  BY <1>2, ConcatProperties
<1>4. one("ejscript") \o one("screens") \o one("schema") \in Seq(Sections)
  BY <1>2, <1>3, ConcatProperties
<1>5. one("ejscript") \o one("screens") \o one("schema") \o last \in Seq(Sections)
  BY <1>2, <1>4, ConcatProperties
<1>6. QED  BY <1>5 DEF Selected, one, last
-----------------------------------------------------------------------------
(* Control *)

\* The end of any number of syncs.
LEMMA EndControl ==
    ASSUME Control, NEW S \in SUBSET Syncs, NEW outcome \in Outcomes,
           End(S, outcome), source' = source
    PROVE  Control'
<1>1. Shape'  BY DEF Control, Shape, End, Stages, Outcomes
<1>2. ASSUME NEW s \in Syncs PROVE Status(s)'
  <2>1. CASE s \in S
    <3>1. pc'[s] = "done" /\ result'[s] = outcome /\ batch'[s] = <<>>
      BY <2>1 DEF End, Control, Shape
    <3>2. IsSeq(entries'[s])
      BY <2>1, EmptyIsSeq DEF End, Control, Status
    <3>3. outcome # "none"  BY DEF Outcomes
    <3>4. QED  BY <3>1, <3>2, <3>3, EmptyIsSeq DEF Status
  <2>2. CASE s \notin S
    <3>1. /\ pc'[s] = pc[s] /\ result'[s] = result[s] /\ batch'[s] = batch[s]
          /\ ask'[s] = ask[s] /\ todo'[s] = todo[s] /\ entries'[s] = entries[s]
      BY <2>2 DEF End, Control, Shape
    <3>2. QED  BY <3>1 DEF Control, Status
  <2>3. QED  BY <2>1, <2>2
<1>3. QED  BY <1>1, <1>2 DEF Control

\* What the next stage is said to be after a section or a file.
LEMMA StageIs ==
    ASSUME NEW files, NEW sections
    PROVE  /\ Stage(files, sections) \in {"writing", "fetching", "publish"}
           /\ Stage(files, sections) = "writing" <=> files # <<>>
           /\ Stage(files, sections) = "fetching" => sections # <<>>
BY DEF Stage

\* A step of one sync leaves what another holds.
Apart(s) ==
    \A t \in Syncs \ {s} :
        /\ pc'[t] = pc[t] /\ result'[t] = result[t] /\ batch'[t] = batch[t]
        /\ ask'[t] = ask[t] /\ todo'[t] = todo[t] /\ entries'[t] = entries[t]

\* Every step keeps Control.
LEMMA ControlStep ==
    ASSUME Control, [Next]_vars
    PROVE  Control'
<1> USE DEF Stages, Running
<1>0. Shape /\ \A s \in Syncs : Status(s)  BY DEF Control
<1>1. ASSUME NEW s \in Syncs, Start(s) PROVE Control'
  <2>1. PICK mode \in {"http", "mssql"}, tables \in Selections[s], dry \in BOOLEAN :
          /\ ask' = [ask EXCEPT ![s] = [mode |-> mode, tables |-> tables, dry |-> dry]]
          /\ todo' = [todo EXCEPT ![s] = Selected(mode, tables)]
          /\ pc' = [pc EXCEPT ![s] = Stage(<<>>, todo'[s])]
    BY <1>1 DEF Start
  <2>2. pc[s] = "idle" /\ UNCHANGED <<source, batch, entries, result>>  BY <1>1 DEF Start
  <2>3. Shape'
    <3>1. pc' \in [Syncs -> Stages]
      <4>1. Stage(<<>>, todo'[s]) \in Stages  BY StageIs
      <4>2. QED  BY <1>0, <2>1, <4>1 DEF Shape
    <3>2. todo' \in [Syncs -> Seq(Sections)]  BY <1>0, <2>1, SelectedSections DEF Shape
    <3>3. DOMAIN ask' = Syncs /\ ask' = [t \in Syncs |-> ask'[t]]  BY <1>0, <2>1 DEF Shape
    <3>4. QED  BY <1>0, <2>2, <3>1, <3>2, <3>3 DEF Shape
  <2>4. Apart(s)  BY <1>0, <2>1, <2>2 DEF Apart, Shape
  <2>5. Status(s)'
    <3>1. pc'[s] = Stage(<<>>, todo'[s])  BY <1>0, <2>1 DEF Shape
    <3>2. QED  BY <1>0, <2>2, <3>1, StageIs DEF Status
  <2>6. QED  BY <1>0, <2>3, <2>4, <2>5 DEF Control, Status, Apart
<1>2. ASSUME NEW s \in Syncs, StartFails(s) PROVE Control'
  BY <1>2, EndControl DEF StartFails, Outcomes
<1>3. ASSUME NEW s \in Syncs, Fetch(s) PROVE Control'
  <2>1. PICK records \in Fetched(Head(todo[s])) :
          batch' = [batch EXCEPT ![s] = IF ask[s].dry THEN <<>> ELSE Files(records)]
    BY <1>3 DEF Fetch
  <2>2. /\ pc[s] = "fetching" /\ UNCHANGED <<source, ask, entries, result>>
        /\ todo' = [todo EXCEPT ![s] = Tail(@)]
        /\ pc' = [pc EXCEPT ![s] = Stage(batch'[s], todo'[s])]
    BY <1>3 DEF Fetch
  <2>3. Head(todo[s]) \in Sections /\ Tail(todo[s]) \in Seq(Sections)
    BY <1>0, <2>2, HeadTailProperties DEF Shape, Status
  <2>4. FilesOK(batch'[s]) /\ (ask[s].dry => batch'[s] = <<>>)
    <3>1. source \in 0..MaxSource  BY <1>0 DEF Shape
    <3>2. FilesOK(Files(records))  BY <2>1, <2>3, <3>1, FetchedOK, FilesLaidOut
    <3>3. batch'[s] = IF ask[s].dry THEN <<>> ELSE Files(records)  BY <1>0, <2>1 DEF Shape
    <3>4. QED  BY <3>2, <3>3, EmptyIsSeq
  <2>5. Shape'
    <3>1. pc' \in [Syncs -> Stages]
      <4>1. Stage(batch'[s], todo'[s]) \in Stages  BY StageIs
      <4>2. QED  BY <1>0, <2>2, <4>1 DEF Shape
    <3>2. todo' \in [Syncs -> Seq(Sections)]  BY <1>0, <2>2, <2>3 DEF Shape
    <3>3. batch' = [t \in Syncs |-> batch'[t]]  BY <1>0, <2>1 DEF Shape
    <3>4. QED  BY <1>0, <2>2, <3>1, <3>2, <3>3 DEF Shape
  <2>6. Apart(s)  BY <1>0, <2>1, <2>2 DEF Apart, Shape
  <2>7. Status(s)'
    <3>1. pc'[s] = Stage(batch'[s], todo'[s])  BY <1>0, <2>2 DEF Shape
    <3>2. /\ pc'[s] \in {"writing", "fetching", "publish"}
          /\ pc'[s] = "writing" <=> batch'[s] # <<>>
          /\ pc'[s] = "fetching" => todo'[s] # <<>>
      BY <3>1, StageIs
    <3>3. QED  BY <1>0, <2>2, <2>4, <3>2 DEF Status
  <2>8. QED  BY <1>0, <2>5, <2>6, <2>7 DEF Control, Status, Apart
<1>4. ASSUME NEW s \in Syncs, FetchFails(s) PROVE Control'
  BY <1>4, EndControl DEF FetchFails, Outcomes
<1>5. ASSUME NEW s \in Syncs, Open(s) PROVE Control'
  <2>1. /\ pc[s] = "writing" /\ pc' = [pc EXCEPT ![s] = "open"]
        /\ UNCHANGED <<source, ask, todo, batch, entries, result>>
    BY <1>5 DEF Open
  <2>2. Shape'  BY <1>0, <2>1 DEF Shape
  <2>3. Apart(s)  BY <1>0, <2>1 DEF Apart, Shape
  <2>4. Status(s)'  BY <1>0, <2>1 DEF Status, Shape
  <2>5. QED  BY <1>0, <2>2, <2>3, <2>4 DEF Control, Status, Apart
<1>6. ASSUME NEW s \in Syncs, Close(s) PROVE Control'
  <2>1. /\ pc[s] = "open" /\ UNCHANGED <<source, ask, todo, result>>
        /\ entries' = [entries EXCEPT ![s] = Listed(@, Head(batch[s]))]
        /\ batch' = [batch EXCEPT ![s] = Tail(@)]
        /\ pc' = [pc EXCEPT ![s] = Stage(batch'[s], todo[s])]
    BY <1>6 DEF Close
  <2>2. Shape'
    <3>1. pc' \in [Syncs -> Stages]
      <4>1. Stage(batch'[s], todo[s]) \in Stages  BY StageIs
      <4>2. QED  BY <1>0, <2>1, <4>1 DEF Shape
    <3>2. batch' = [t \in Syncs |-> batch'[t]]  BY <1>0, <2>1 DEF Shape
    <3>3. entries' = [t \in Syncs |-> entries'[t]]  BY <1>0, <2>1 DEF Shape
    <3>4. QED  BY <1>0, <2>1, <3>1, <3>2, <3>3 DEF Shape
  <2>3. Apart(s)  BY <1>0, <2>1 DEF Apart, Shape
  <2>4. batch[s] # <<>> /\ FilesOK(batch[s]) /\ IsSeq(entries[s])  BY <1>0, <2>1 DEF Status
  <2>5. FilesOK(batch'[s])
    <3>1. batch'[s] = Tail(batch[s])  BY <1>0, <2>1 DEF Shape
    <3>2. \A i \in 1..Len(Tail(batch[s])) : i + 1 \in 1..Len(batch[s])
      BY <2>4, TailIsSeq DEF FilesOK, IsSeq
    <3>3. QED  BY <2>4, <3>1, <3>2, TailIsSeq DEF FilesOK
  <2>6. IsSeq(entries'[s])
    <3>1. entries'[s] = Listed(entries[s], Head(batch[s]))  BY <1>0, <2>1 DEF Shape
    <3>2. QED  BY <2>4, <3>1, AppendIsSeq DEF Listed
  <2>7. Status(s)'
    <3>1. pc'[s] = Stage(batch'[s], todo[s])  BY <1>0, <2>1 DEF Shape
    <3>2. /\ pc'[s] \in {"writing", "fetching", "publish"}
          /\ pc'[s] = "writing" <=> batch'[s] # <<>>
          /\ pc'[s] = "fetching" => todo'[s] # <<>>
      <4>1. todo'[s] = todo[s]  BY <2>1
      <4>2. QED  BY <3>1, <4>1, StageIs
    <3>3. QED  BY <1>0, <2>1, <2>5, <2>6, <3>2 DEF Status
  <2>8. QED  BY <1>0, <2>2, <2>3, <2>7 DEF Control, Status, Apart
<1>7. ASSUME NEW s \in Syncs, WriteFails(s) PROVE Control'
  BY <1>7, EndControl DEF WriteFails, Outcomes
<1>8. ASSUME NEW s \in Syncs, Truncate(s) PROVE Control'
  <2>1. /\ pc[s] = "publish" /\ ~ask[s].dry /\ pc' = [pc EXCEPT ![s] = "publishing"]
        /\ UNCHANGED <<source, ask, todo, batch, entries, result>>
    BY <1>8 DEF Truncate
  <2>2. Shape'  BY <1>0, <2>1 DEF Shape
  <2>3. Apart(s)  BY <1>0, <2>1 DEF Apart, Shape
  <2>4. Status(s)'  BY <1>0, <2>1 DEF Status, Shape
  <2>5. QED  BY <1>0, <2>2, <2>3, <2>4 DEF Control, Status, Apart
<1>9. ASSUME NEW s \in Syncs, Publish(s) PROVE Control'
  <2>1. /\ pc[s] \in {"publish", "publishing"} /\ pc' = [pc EXCEPT ![s] = "answering"]
        /\ UNCHANGED <<source, ask, todo, batch, entries, result>>
    BY <1>9 DEF Publish
  <2>2. Shape'  BY <1>0, <2>1 DEF Shape
  <2>3. Apart(s)  BY <1>0, <2>1 DEF Apart, Shape
  <2>4. Status(s)'  BY <1>0, <2>1 DEF Status, Shape
  <2>5. QED  BY <1>0, <2>2, <2>3, <2>4 DEF Control, Status, Apart
<1>10. ASSUME NEW s \in Syncs, PublishFails(s) PROVE Control'
  BY <1>10, EndControl DEF PublishFails, Outcomes
<1>11. ASSUME NEW s \in Syncs, Cancel(s) PROVE Control'
  BY <1>11, EndControl DEF Cancel, Outcomes
<1>12. ASSUME NEW p \in Processes, Kill(p) PROVE Control'
  <2> DEFINE dead == {s \in Syncs : home[s] = p /\ pc[s] \notin {"idle", "done"}}
  <2>1. End(dead, "killed") /\ source' = source  BY <1>12 DEF Kill
  <2> HIDE DEF dead
  <2>2. dead \in SUBSET Syncs  BY DEF dead
  <2>3. QED  BY <2>1, <2>2, EndControl DEF Outcomes
<1>13. ASSUME UNCHANGED syncVars, source' \in 0..MaxSource PROVE Control'
  BY <1>0, <1>13 DEF syncVars, Control, Shape, Status
<1>14. CASE Change
  BY <1>0, <1>13, <1>14, SyncAssumption DEF Change, Shape, SyncAssumption
<1>15. CASE Search
  BY <1>0, <1>13, <1>15 DEF Search, Shape
<1>16. CASE UNCHANGED vars
  BY <1>0, <1>13, <1>16 DEF vars, Shape
<1>17. ASSUME NEW s \in Syncs, Answer(s) PROVE Control'
  BY <1>17, EndControl DEF Answer, Outcomes
<1>18. QED
  BY <1>1, <1>2, <1>3, <1>4, <1>5, <1>6, <1>7, <1>8, <1>9, <1>10, <1>11, <1>12, <1>14,
     <1>15, <1>16, <1>17
  DEF Next, Work
-----------------------------------------------------------------------------
(* Mirror *)

\* A sync that does not move keeps what it has mirrored as long as files stay and those it
\* was the last to write are as they were.
LEMMA MirroredStays ==
    ASSUME NEW t \in Syncs, Mirrored(t),
           pc'[t] = pc[t], batch'[t] = batch[t], entries'[t] = entries[t],
           DOMAIN disk \subseteq DOMAIN disk',
           \A p \in DOMAIN disk : toucher'[p] = t => toucher[p] = t /\ disk'[p] = disk[p]
    PROVE  Mirrored(t)'
BY DEF Mirrored, Backing, LastOf

\* Nor does a list that it has published change.
LEMMA PublishedStays ==
    ASSUME Published, UNCHANGED manifest,
           \A t \in Syncs : Finished(t) =>
               /\ Finished(t)'
               /\ \A p \in DOMAIN disk : toucher'[p] = t => toucher[p] = t /\ disk'[p] = disk[p],
           DOMAIN disk \subseteq DOMAIN disk'
    PROVE  Published'
<1> SUFFICES ASSUME manifest \notin {NoManifest, Torn} PROVE Published'
  BY DEF Published
<1> DEFINE a == manifest.author
           list == manifest.entries
<1>1. a \in Syncs /\ Finished(a) /\ Backing(a, list)  BY DEF Published
<1>2. Finished(a)' /\ pc[a] # "open"  BY <1>1 DEF Finished
<1>3. Backing(a, list)'
  BY <1>1, <1>2 DEF Backing, LastOf
<1>4. QED  BY <1>1, <1>2, <1>3 DEF Published

\* Syncs that end drop their list; a manifest stays if they had failed before they wrote it.
LEMMA EndMirror ==
    ASSUME IInv, NEW S \in SUBSET Syncs, NEW outcome \in Outcomes, End(S, outcome),
           \A s \in S : pc[s] # "done",
           outcome \in {"success", "killed"} \/ \A s \in S : pc[s] # "answering",
           UNCHANGED <<disk, toucher, manifest>>, CacheOK'
    PROVE  Mirror'
<1>1. DiskOK'  BY DEF IInv, Mirror, DiskOK
<1>2. ASSUME NEW s \in Syncs PROVE Mirrored(s)'
  <2>1. Mirrored(s)  BY DEF IInv, Mirror
  <2>2. CASE s \notin S
    <3>1. pc'[s] = pc[s] /\ batch'[s] = batch[s] /\ entries'[s] = entries[s]
      BY <2>2 DEF End
    <3>2. QED  BY <2>1, <3>1, MirroredStays
  <2>3. CASE s \in S
    <3>1. pc'[s] = "done" /\ entries'[s] = <<>>  BY <2>3 DEF End
    <3>2. QED  BY <3>1 DEF Mirrored, Backing
  <2>4. QED  BY <2>2, <2>3
<1>3. ASSUME NEW t \in Syncs, Finished(t) PROVE Finished(t)'
  <2>1. CASE t \notin S
    BY <1>3, <2>1 DEF End, Finished
  <2>2. CASE t \in S
    <3>1. pc'[t] = "done" /\ result'[t] = outcome  BY <2>2 DEF End
    <3>2. pc[t] = "answering"  BY <1>3, <2>2 DEF Finished
    <3>3. QED  BY <2>2, <3>1, <3>2 DEF Finished
  <2>3. QED  BY <2>1, <2>2
<1>4. Published'
  BY <1>3, PublishedStays DEF IInv, Mirror
<1>5. QED  BY <1>1, <1>2, <1>4 DEF Mirror

\* A text is put under a path: files stay, and so does every text but this one.
LEMMA PutIs ==
    ASSUME DiskOK, NEW path, NEW text \in Texts, NEW sync, Put(path, text, sync)
    PROVE  /\ DiskOK'
           /\ DOMAIN disk' = DOMAIN disk \cup {path}
           /\ disk'[path] = text /\ toucher'[path] = sync
           /\ \A p \in DOMAIN disk \ {path} : disk'[p] = disk[p] /\ toucher'[p] = toucher[p]
BY DEF DiskOK, Put

\* The syncs other than the one that puts it keep what they have mirrored.
LEMMA OthersMirrored ==
    ASSUME IInv, NEW s \in Syncs, NEW path, NEW text \in Texts, NEW sync \in {s, Nobody},
           Put(path, text, sync),
           NEW t \in Syncs \ {s},
           pc'[t] = pc[t], batch'[t] = batch[t], entries'[t] = entries[t]
    PROVE  Mirrored(t)'
<1>1. DiskOK /\ Mirrored(t)  BY DEF IInv, Mirror
<1>2. sync # t  BY SyncAssumption DEF SyncAssumption
<1>3. \A p \in DOMAIN disk : toucher'[p] = t => toucher[p] = t /\ disk'[p] = disk[p]
  <2>1. /\ toucher'[path] = sync
        /\ \A p \in DOMAIN disk \ {path} : disk'[p] = disk[p] /\ toucher'[p] = toucher[p]
    BY <1>1 DEF Put, DiskOK
  <2>2. QED  BY <1>2, <2>1
<1>4. DOMAIN disk \subseteq DOMAIN disk'  BY DEF Put
<1>5. QED  BY <1>1, <1>3, <1>4, MirroredStays

\* What a sync still on its way puts leaves the manifest, whose author is not on its way.
LEMMA PutPublished ==
    ASSUME IInv, NEW s \in Syncs, pc[s] \notin {"answering", "done"}, Apart(s),
           UNCHANGED manifest, NEW path, NEW text \in Texts, NEW sync \in {s, Nobody},
           Put(path, text, sync)
    PROVE  Published'
<1>1. DiskOK /\ Published  BY DEF IInv, Mirror
<1>2. ASSUME NEW t \in Syncs, Finished(t)
      PROVE  /\ Finished(t)'
             /\ \A p \in DOMAIN disk : toucher'[p] = t => toucher[p] = t /\ disk'[p] = disk[p]
  <2>1. t # s  BY <1>2 DEF Finished
  <2>2. Finished(t)'  BY <1>2, <2>1 DEF Finished, Apart
  <2>3. sync # t  BY <2>1, SyncAssumption DEF SyncAssumption
  <2>4. /\ toucher'[path] = sync
        /\ \A p \in DOMAIN disk \ {path} : disk'[p] = disk[p] /\ toucher'[p] = toucher[p]
    BY <1>1 DEF Put, DiskOK
  <2>5. QED  BY <2>2, <2>3, <2>4
<1>3. DOMAIN disk \subseteq DOMAIN disk'  BY DEF Put
<1>4. QED  BY <1>1, <1>2, <1>3, PublishedStays

\* The first entries of a longer list, and what being last says of them.
LEMMA LastInLonger ==
    ASSUME NEW list, IsSeq(list), NEW entry, NEW i \in 1..Len(list),
           LastOf(Append(list, entry), i)
    PROVE  LastOf(list, i) /\ list[i].path # entry.path
<1>1. /\ Len(Append(list, entry)) = Len(list) + 1
      /\ \A j \in 1..Len(list) : Append(list, entry)[j] = list[j]
      /\ Append(list, entry)[Len(list) + 1] = entry
  BY AppendIsSeq
<1>2. Len(list) \in Nat  BY DEF IsSeq
<1>3. QED  BY <1>1, <1>2 DEF LastOf

\* Opening a file.
LEMMA OpenMirror ==
    ASSUME IInv, NEW s \in Syncs, Open(s)
    PROVE  Mirror'
<1> DEFINE path == Head(batch[s]).path
<1>1. /\ pc[s] = "writing" /\ pc' = [pc EXCEPT ![s] = "open"] /\ Put(path, Torn, s)
      /\ UNCHANGED <<ask, todo, batch, entries, result, manifest, cache>>
  BY DEF Open
<1>2. Torn \in Texts  BY DEF Texts
<1>3. Shape /\ DiskOK /\ Mirrored(s)  BY DEF IInv, Control, Mirror
<1>4. Apart(s) /\ pc'[s] = "open"  BY <1>1, <1>3 DEF Apart, Shape
<1>5. /\ DiskOK' /\ DOMAIN disk' = DOMAIN disk \cup {path}
      /\ \A p \in DOMAIN disk \ {path} : disk'[p] = disk[p] /\ toucher'[p] = toucher[p]
  BY <1>1, <1>2, <1>3, PutIs
<1>6. \A t \in Syncs \ {s} : Mirrored(t)'
  BY <1>1, <1>2, <1>4, OthersMirrored DEF Apart
<1>7. Mirrored(s)'
  <2>1. entries'[s] = entries[s] /\ batch'[s] = batch[s]  BY <1>1
  <2> HIDE DEF path
  <2>2. Head(batch'[s]).path = path  BY <2>1 DEF path
  <2>3. ASSUME NEW i \in 1..Len(entries[s]), entries[s][i].path # path,
               toucher'[entries[s][i].path] = s, LastOf(entries[s], i)
        PROVE  disk'[entries[s][i].path] = entries[s][i].text
    BY <1>1, <1>3, <1>5, <2>3 DEF Mirrored, Backing
  <2>4. QED  BY <1>3, <1>4, <1>5, <2>1, <2>2, <2>3 DEF Mirrored, Backing, LastOf
<1>8. Published'  BY <1>1, <1>2, <1>4, PutPublished
<1>9. CacheOK'  BY <1>1, <1>5 DEF IInv, Mirror, CacheOK
<1>10. QED  BY <1>5, <1>6, <1>7, <1>8, <1>9 DEF Mirror

\* Filling it, alone or not, and listing it.
LEMMA CloseMirror ==
    ASSUME IInv, NEW s \in Syncs, Close(s)
    PROVE  Mirror'
<1> DEFINE file == Head(batch[s])
           path == file.path
           list == entries[s]
<1>1. /\ pc[s] = "open" /\ entries' = [entries EXCEPT ![s] = Listed(list, file)]
      /\ batch' = [batch EXCEPT ![s] = Tail(@)]
      /\ pc' = [pc EXCEPT ![s] = Stage(batch'[s], todo[s])]
      /\ UNCHANGED <<ask, todo, result, manifest, cache>>
  BY DEF Close
<1>2. PICK text \in {file.text, Torn}, sync \in {s, Nobody} :
        Put(path, text, sync) /\ (sync = s => text = file.text)
  BY SyncAssumption DEF Close, SyncAssumption
<1>3. Shape /\ Status(s) /\ DiskOK /\ Mirrored(s)  BY DEF IInv, Control, Mirror
<1>4. FileOK(file)
  <2>1. batch[s] # <<>> /\ FilesOK(batch[s])  BY <1>1, <1>3 DEF Status
  <2>2. QED  BY <2>1, TailIsSeq DEF FilesOK
<1>5. text \in Texts  BY <1>2, <1>4 DEF FileOK, Texts
<1>6. Apart(s) /\ pc'[s] # "open" /\ entries'[s] = Listed(list, file)
  <2>1. pc'[s] = Stage(batch'[s], todo[s])  BY <1>1, <1>3 DEF Shape
  <2>2. QED  BY <1>1, <1>3, <2>1, StageIs DEF Apart, Shape
<1>7. /\ DiskOK' /\ DOMAIN disk' = DOMAIN disk \cup {path}
      /\ disk'[path] = text /\ toucher'[path] = sync
      /\ \A p \in DOMAIN disk \ {path} : disk'[p] = disk[p] /\ toucher'[p] = toucher[p]
  <2> HIDE DEF file, path
  <2>1. Put(path, text, sync) /\ text \in Texts /\ DiskOK  BY <1>2, <1>3, <1>5
  <2>2. QED  BY <2>1, PutIs
<1>8. \A t \in Syncs \ {s} : Mirrored(t)'
  BY <1>2, <1>5, <1>6, OthersMirrored DEF Apart
<1> DEFINE entry == [path |-> path, text |-> file.text]
<1>9. IsSeq(list)  BY <1>3 DEF Status
<1>10. ASSUME NEW i \in 1..Len(list), list[i].path # path, LastOf(list, i),
              toucher'[list[i].path] = s
       PROVE  disk'[list[i].path] = list[i].text
  <2>1. list[i].path \in DOMAIN disk \ {path}  BY <1>3, <1>10 DEF Mirrored, Backing
  <2>2. QED  BY <1>3, <1>7, <1>10, <2>1 DEF Mirrored, Backing
<1>11. Mirrored(s)'
  <2> HIDE DEF file, path, list, entry
  <2>1. CASE file.listed
    <3>1. entries'[s] = Append(list, entry)  BY <1>6, <2>1 DEF Listed, entry, path
    <3>2. /\ Len(Append(list, entry)) = Len(list) + 1 /\ Len(list) \in Nat
          /\ \A i \in 1..Len(list) : Append(list, entry)[i] = list[i]
          /\ Append(list, entry)[Len(list) + 1] = entry
      BY <1>9, AppendIsSeq DEF IsSeq
    <3>3. ASSUME NEW i \in 1..Len(list)
          PROVE  /\ list[i].path \in DOMAIN disk' /\ list[i].path[2] = TRUE
                 /\ toucher'[list[i].path] = s /\ LastOf(Append(list, entry), i)
                      => disk'[list[i].path] = list[i].text
      <4>1. LastOf(Append(list, entry), i) => LastOf(list, i) /\ list[i].path # path
        BY <1>9, LastInLonger DEF entry
      <4>2. QED  BY <1>3, <1>7, <1>10, <4>1 DEF Mirrored, Backing, list
    <3>4. /\ entry.path \in DOMAIN disk' /\ entry.path[2] = TRUE
          /\ toucher'[entry.path] = s => disk'[entry.path] = entry.text
      <4>1. entry.path = path /\ entry.text = file.text  BY DEF entry
      <4>2. path[2] = TRUE  BY <1>4, <2>1 DEF FileOK, path
      <4>3. sync = s => text = file.text  BY <1>2
      <4>4. QED  BY <1>7, <4>1, <4>2, <4>3
    <3>5. ASSUME NEW i \in 1..Len(entries'[s])
          PROVE  /\ entries'[s][i].path \in DOMAIN disk' /\ entries'[s][i].path[2] = TRUE
                 /\ toucher'[entries'[s][i].path] = s /\ LastOf(entries'[s], i)
                      => disk'[entries'[s][i].path] = entries'[s][i].text
      <4>1. CASE i \in 1..Len(list)
        <5>1. entries'[s][i] = list[i]  BY <3>1, <3>2, <4>1
        <5>2. QED  BY <3>1, <3>3, <4>1, <5>1
      <4>2. CASE i = Len(list) + 1
        <5>1. entries'[s][i] = entry  BY <3>1, <3>2, <4>2
        <5>2. QED  BY <3>4, <5>1
      <4>3. Len(entries'[s]) = Len(list) + 1  BY <3>1, <3>2
      <4>4. i \in 1..Len(list) \/ i = Len(list) + 1  BY <3>2, <4>3
      <4>5. QED  BY <4>1, <4>2, <4>4
    <3>6. QED  BY <1>6, <3>5 DEF Mirrored, Backing
  <2>2. CASE ~file.listed
    <3>1. entries'[s] = list  BY <1>6, <2>2 DEF Listed
    <3>2. path[2] # TRUE  BY <1>4, <2>2 DEF FileOK, path
    <3>3. \A i \in 1..Len(list) :
            /\ list[i].path \in DOMAIN disk /\ list[i].path[2] = TRUE
            /\ list[i].path # path
      BY <1>3, <3>2 DEF Mirrored, Backing, list
    <3>4. QED  BY <1>6, <1>7, <1>10, <3>1, <3>3 DEF Mirrored, Backing
  <2>3. QED  BY <2>1, <2>2
<1>12. Published'
  <2> HIDE DEF file, path
  <2>1. QED  BY <1>1, <1>2, <1>5, <1>6, PutPublished
<1>13. CacheOK'  BY <1>1, <1>7 DEF IInv, Mirror, CacheOK
<1>14. QED  BY <1>7, <1>8, <1>11, <1>12, <1>13 DEF Mirror

\* A step of one sync that touches no file, on its way.
LEMMA QuietMirror ==
    ASSUME IInv, NEW s \in Syncs, pc[s] \notin {"answering", "done", "open"},
           pc'[s] # "open", Apart(s),
           UNCHANGED <<disk, toucher, manifest, cache>>, entries'[s] = entries[s]
    PROVE  Mirror'
<1>1. \A t \in Syncs : Mirrored(t)  BY DEF IInv, Mirror
<1>2. \A t \in Syncs \ {s} : Mirrored(t)'  BY <1>1, MirroredStays DEF Apart
<1>3. Mirrored(s)'  BY <1>1 DEF Mirrored, Backing, LastOf
<1>4. \A t \in Syncs : Finished(t) => Finished(t)'
  BY DEF Finished, Apart
<1>5. Published'  BY <1>4, PublishedStays DEF IInv, Mirror
<1>6. DiskOK' /\ CacheOK'  BY DEF IInv, Mirror, DiskOK, CacheOK
<1>7. QED  BY <1>2, <1>3, <1>5, <1>6 DEF Mirror

\* The manifest is written, or not: its entries are the sync's.
LEMMA PublishMirror ==
    ASSUME IInv, NEW s \in Syncs, Publish(s)
    PROVE  Mirror'
<1>1. /\ pc[s] \in {"publishing", "publish"} /\ pc' = [pc EXCEPT ![s] = "answering"]
      /\ UNCHANGED <<ask, todo, batch, entries, result, disk, toucher, cache>>
  BY DEF Publish
<1>2. Shape /\ Mirror  BY DEF IInv, Control
<1>3. Apart(s) /\ pc'[s] = "answering"  BY <1>1, <1>2 DEF Apart, Shape
<1>4. \A t \in Syncs \ {s} : Mirrored(t)'
  BY <1>1, <1>2, <1>3, MirroredStays DEF Apart, Mirror
<1>5. Mirrored(s)'  BY <1>1, <1>2, <1>3 DEF Mirror, Mirrored, Backing, LastOf
<1>6. Published'
  <2>1. CASE manifest' = [author |-> s, entries |-> entries[s]]
    <3>1. manifest'.author = s /\ manifest'.entries = entries'[s]  BY <1>1, <2>1
    <3>2. Backing(s, entries[s])'  BY <1>5 DEF Mirrored
    <3>3. Finished(s)'  BY <1>3 DEF Finished
    <3>4. Backing(manifest.author, manifest.entries)'  BY <3>1, <3>2
    <3>5. QED  BY <3>1, <3>3, <3>4 DEF Published
  <2>2. CASE manifest' = Torn
    BY <2>2 DEF Published
  <2>3. CASE UNCHANGED manifest
    <3>1. \A t \in Syncs : Finished(t) => Finished(t)'
      BY <1>1, <1>3 DEF Finished, Apart
    <3>2. QED  BY <1>1, <1>2, <2>3, <3>1, PublishedStays DEF Mirror
  <2>4. QED  BY <2>1, <2>2, <2>3 DEF Publish
<1>7. DiskOK' /\ CacheOK'  BY <1>1, <1>2 DEF Mirror, DiskOK, CacheOK
<1>8. QED  BY <1>4, <1>5, <1>6, <1>7 DEF Mirror

\* A search remembers paths of files that exist.
LEMMA SearchedExist ==
    ASSUME IInv
    PROVE  Catalogue \subseteq DOMAIN disk
<1>1. CASE manifest \in {NoManifest, Torn}
  BY <1>1 DEF Catalogue
<1>2. CASE manifest \notin {NoManifest, Torn}
  <2>1. Backing(manifest.author, manifest.entries)
    BY <1>2 DEF IInv, Mirror, Published
  <2>2. PathsOf(manifest.entries) \subseteq DOMAIN disk
    BY <2>1 DEF Backing, PathsOf
  <2>3. QED  BY <1>2, <2>2 DEF Catalogue
<1>3. QED  BY <1>1, <1>2

\* Every step keeps Mirror.
LEMMA MirrorStep ==
    ASSUME IInv, [Next]_vars
    PROVE  Mirror'
<1>0. Shape /\ Mirror  BY DEF IInv, Control
<1>1. ASSUME NEW s \in Syncs, Start(s) PROVE Mirror'
  <2>1. /\ pc[s] = "idle"
        /\ UNCHANGED <<batch, entries, result, disk, manifest, toucher, cache>>
        /\ \E v : ask' = [ask EXCEPT ![s] = v]
        /\ \E v : todo' = [todo EXCEPT ![s] = v]
        /\ pc' = [pc EXCEPT ![s] = Stage(<<>>, todo'[s])]
    BY <1>1 DEF Start
  <2>2. Apart(s)  BY <1>0, <2>1 DEF Apart, Shape
  <2>3. pc'[s] # "open"  BY <1>0, <2>1, StageIs DEF Shape
  <2>4. QED  BY <2>1, <2>2, <2>3, QuietMirror
<1>2. ASSUME NEW s \in Syncs, StartFails(s) PROVE Mirror'
  <2>1. \/ End({s}, "failed")
        \/ End({s}, "raised")
    BY <1>2 DEF StartFails
  <2>2. pc[s] = "idle" /\ UNCHANGED <<disk, toucher, manifest, cache>>  BY <1>2 DEF StartFails
  <2>3. CacheOK'  BY <1>0, <2>2 DEF Mirror, CacheOK
  <2>4. QED  BY <2>1, <2>2, <2>3, EndMirror DEF Outcomes
<1>3. ASSUME NEW s \in Syncs, Fetch(s) PROVE Mirror'
  <2>1. /\ pc[s] = "fetching" /\ UNCHANGED <<ask, entries, result, treeVars, cache>>
        /\ \E v : batch' = [batch EXCEPT ![s] = v]
        /\ todo' = [todo EXCEPT ![s] = Tail(@)]
        /\ pc' = [pc EXCEPT ![s] = Stage(batch'[s], todo'[s])]
    BY <1>3 DEF Fetch
  <2>2. Apart(s)  BY <1>0, <2>1 DEF Apart, Shape
  <2>3. pc'[s] # "open"  BY <1>0, <2>1, StageIs DEF Shape
  <2>4. QED  BY <2>1, <2>2, <2>3, QuietMirror DEF treeVars
<1>4. ASSUME NEW s \in Syncs, FetchFails(s) PROVE Mirror'
  <2>1. End({s}, "failed") /\ pc[s] \notin {"answering", "done"}
        /\ UNCHANGED <<disk, toucher, manifest, cache>>
    BY <1>4 DEF FetchFails, treeVars
  <2>2. CacheOK'  BY <1>0, <2>1 DEF Mirror, CacheOK
  <2>3. QED  BY <2>1, <2>2, EndMirror DEF Outcomes
<1>5. ASSUME NEW s \in Syncs, Open(s) PROVE Mirror'  BY <1>5, OpenMirror
<1>6. ASSUME NEW s \in Syncs, Close(s) PROVE Mirror'  BY <1>6, CloseMirror
<1>7. ASSUME NEW s \in Syncs, WriteFails(s) PROVE Mirror'
  <2>1. End({s}, "failed") /\ pc[s] \notin {"answering", "done"}
        /\ UNCHANGED <<disk, toucher, manifest, cache>>
    BY <1>7 DEF WriteFails, treeVars
  <2>2. CacheOK'  BY <1>0, <2>1 DEF Mirror, CacheOK
  <2>3. QED  BY <2>1, <2>2, EndMirror DEF Outcomes
<1>8. ASSUME NEW s \in Syncs, Truncate(s) PROVE Mirror'
  <2>1. /\ pc[s] = "publish" /\ pc' = [pc EXCEPT ![s] = "publishing"] /\ manifest' = Torn
        /\ UNCHANGED <<ask, todo, batch, entries, result, disk, toucher, cache>>
    BY <1>8 DEF Truncate
  <2>2. Apart(s) /\ pc'[s] = "publishing"  BY <1>0, <2>1 DEF Apart, Shape
  <2>3. \A t \in Syncs \ {s} : Mirrored(t)'
    BY <1>0, <2>1, <2>2, MirroredStays DEF Apart, Mirror
  <2>4. Mirrored(s)'  BY <1>0, <2>1, <2>2 DEF Mirror, Mirrored, Backing, LastOf
  <2>5. QED  BY <1>0, <2>1, <2>3, <2>4 DEF Mirror, DiskOK, CacheOK, Published
<1>9. ASSUME NEW s \in Syncs, Publish(s) PROVE Mirror'  BY <1>9, PublishMirror
<1>10. ASSUME NEW s \in Syncs, PublishFails(s) PROVE Mirror'
  <2>1. End({s}, "failed") /\ pc[s] \notin {"answering", "done"}
        /\ UNCHANGED <<disk, toucher, manifest, cache>>
    BY <1>10 DEF PublishFails, treeVars
  <2>2. CacheOK'  BY <1>0, <2>1 DEF Mirror, CacheOK
  <2>3. QED  BY <2>1, <2>2, EndMirror DEF Outcomes
<1>11. ASSUME NEW s \in Syncs, Cancel(s) PROVE Mirror'
  <2>1. End({s}, "cancelled") /\ pc[s] \notin {"answering", "done"}
        /\ UNCHANGED <<disk, toucher, manifest, cache>>
    BY <1>11 DEF Cancel, treeVars
  <2>2. CacheOK'  BY <1>0, <2>1 DEF Mirror, CacheOK
  <2>3. QED  BY <2>1, <2>2, EndMirror DEF Outcomes
<1>12. ASSUME NEW p \in Processes, Kill(p) PROVE Mirror'
  <2> DEFINE dead == {s \in Syncs : home[s] = p /\ pc[s] \notin {"idle", "done"}}
  <2>1. End(dead, "killed") /\ UNCHANGED treeVars /\ cache' \in {NoCache, cache}
    BY <1>12 DEF Kill
  <2>2. dead \in SUBSET Syncs /\ \A s \in dead : pc[s] # "done"  OBVIOUS
  <2> HIDE DEF dead
  <2>3. CacheOK'  BY <1>0, <2>1 DEF Mirror, CacheOK, treeVars
  <2>4. QED  BY <2>1, <2>2, <2>3, EndMirror DEF Outcomes, treeVars
<1>13. ASSUME UNCHANGED <<syncVars, treeVars>>, CacheOK' PROVE Mirror'
  BY <1>0, <1>13 DEF syncVars, treeVars, Mirror, DiskOK, Mirrored, Backing, LastOf,
     Published, Finished
<1>14. CASE Change
  BY <1>0, <1>13, <1>14 DEF Change, Mirror, CacheOK, treeVars
<1>15. CASE Search
  <2>1. UNCHANGED <<syncVars, treeVars>> /\ cache' = Catalogue
    BY <1>15 DEF Search, Searched
  <2>2. CacheOK'  BY <2>1, SearchedExist DEF CacheOK, treeVars
  <2>3. QED  BY <1>13, <2>1, <2>2
<1>16. CASE UNCHANGED vars
  BY <1>0, <1>13, <1>16 DEF vars, Mirror, CacheOK, treeVars
<1>17. ASSUME NEW s \in Syncs, Answer(s) PROVE Mirror'
  <2>1. End({s}, "success") /\ pc[s] # "done" /\ UNCHANGED <<disk, toucher, manifest, cache>>
    BY <1>17 DEF Answer, treeVars
  <2>2. CacheOK'  BY <1>0, <2>1 DEF Mirror, CacheOK
  <2>3. QED  BY <2>1, <2>2, EndMirror DEF Outcomes
<1>18. QED
  BY <1>1, <1>2, <1>3, <1>4, <1>5, <1>6, <1>7, <1>8, <1>9, <1>10, <1>11, <1>12, <1>14,
     <1>15, <1>16, <1>17
  DEF Next, Work
-----------------------------------------------------------------------------
(* The invariant and what follows from it *)

\* Nothing is mirrored at the start.
LEMMA InvInit == Init => IInv
<1> SUFFICES ASSUME Init PROVE IInv  OBVIOUS
<1>1. Shape
  BY SyncAssumption DEF Init, Shape, Stages, Outcomes, SyncAssumption
<1>2. ASSUME NEW s \in Syncs PROVE Status(s) /\ Mirrored(s)
  BY EmptyIsSeq DEF Init, Status, Mirrored, Backing
<1>3. DiskOK /\ Published /\ CacheOK
  BY DEF Init, DiskOK, Published, CacheOK
<1>4. made \in BOOLEAN  BY DEF Init
<1>5. QED  BY <1>1, <1>2, <1>3, <1>4 DEF IInv, Control, Mirror

\* Control and Mirror together are inductive.
THEOREM SyncInvariant == Spec => []IInv
<1>1. made \in BOOLEAN /\ [Next]_vars => made' \in BOOLEAN
  BY DEF Next, Work, Start, StartFails, Fetch, FetchFails, Open, Close, WriteFails, Truncate,
     Publish, PublishFails, Answer, Cancel, Kill, Change, Search, vars, treeVars
<1>2. IInv /\ [Next]_vars => IInv'
  BY <1>1, ControlStep, MirrorStep DEF IInv
<1>3. QED  BY InvInit, <1>2, PTL DEF Spec

\* Every variable keeps its type, and a sync is over exactly when it has its answer.
THEOREM TypeCorrect == Spec => []TypeOK
<1>1. ASSUME IInv PROVE TypeOK
  <2>1. Shape /\ (\A s \in Syncs : Status(s)) /\ DiskOK /\ Published
    BY <1>1 DEF IInv, Control, Mirror
  <2>2. /\ source \in 0..MaxSource
        /\ pc \in [Syncs -> {"idle", "fetching", "done"} \cup Running]
        /\ result \in [Syncs -> {"none", "success", "failed", "raised", "cancelled", "killed"}]
    BY <2>1 DEF Shape, Stages, Outcomes
  <2>3. QED  BY <1>1, <2>1, <2>2 DEF IInv, TypeOK, Status, DiskOK, Published
<1>2. QED  BY SyncInvariant, <1>1, PTL

\* The manifest and the search cache name only files that exist, whatever was killed,
\* cancelled or interleaved.
THEOREM Backed == Spec => []CatalogueBacked
<1>1. ASSUME IInv PROVE CatalogueBacked
  <2>1. manifest \notin {NoManifest, Torn} => PathsOf(manifest.entries) \subseteq DOMAIN disk
    BY <1>1, SearchedExist DEF IInv, Mirror, Published, Backing, PathsOf
  <2>2. QED  BY <1>1, <2>1 DEF CatalogueBacked, IInv, Mirror, CacheOK
<1>2. QED  BY SyncInvariant, <1>1, PTL

\* A manifest that parses is that of a sync that has written all it lists and did not fail,
\* and its hashes are those of the files that no other sync has touched.
THEOREM Truthful == Spec => []ManifestTruthful
<1>1. ASSUME IInv, manifest \notin {NoManifest, Torn}
      PROVE  ManifestTruthful
  <2> DEFINE a == manifest.author
  <2>1. a \in Syncs /\ Finished(a) /\ Backing(a, manifest.entries)
    BY <1>1 DEF IInv, Mirror, Published
  <2>2. pc[a] # "open"  BY <2>1 DEF Finished
  <2>3. QED  BY <2>1, <2>2 DEF ManifestTruthful, Backing, Finished
<1>2. IInv => ManifestTruthful  BY <1>1 DEF ManifestTruthful
<1>3. QED  BY SyncInvariant, <1>2, PTL

\* No step of a sync that is, or is being, asked for a dry run changes directory, files or
\* manifest.
THEOREM DryRunsWriteNothing == Spec => DryRunWritesNothing
<1> DEFINE Dry(s) == ask[s].dry \/ ask'[s].dry
<1>1. ASSUME IInv, [Next]_vars, NEW s \in Syncs, Dry(s), pc'[s] # pc[s]
      PROVE  UNCHANGED treeVars
  <2>1. Shape /\ Status(s) /\ made \in BOOLEAN  BY <1>1 DEF IInv, Control
  <2>2. ASSUME NEW t \in Syncs, Start(t)
        PROVE  UNCHANGED treeVars
    <3>1. PICK mode \in {"http", "mssql"}, tables \in Selections[t], dry \in BOOLEAN :
            /\ ask' = [ask EXCEPT ![t] = [mode |-> mode, tables |-> tables, dry |-> dry]]
            /\ made' = (made \/ ~dry)
      BY <2>2 DEF Start
    <3>2. /\ \E v : pc' = [pc EXCEPT ![t] = v]
          /\ pc[t] = "idle" /\ UNCHANGED <<disk, manifest, toucher, scribe>>
      BY <2>2 DEF Start
    <3>3. t = s  BY <1>1, <2>1, <3>2 DEF Shape
    <3>4. ~ask[s].dry  BY <2>1, <3>2, <3>3 DEF Status, NoAsk
    <3>5. ask'[s].dry = dry  BY <2>1, <3>1, <3>3 DEF Shape
    <3>6. dry  BY <1>1, <3>4, <3>5
    <3>7. QED  BY <2>1, <3>1, <3>2, <3>6 DEF treeVars
  <2>3. ASSUME NEW t \in Syncs, Open(t) \/ Close(t) \/ Truncate(t)
        PROVE  FALSE
    <3>1. /\ \E v : pc' = [pc EXCEPT ![t] = v]
          /\ pc[t] \in {"writing", "open"} \/ (pc[t] = "publish" /\ ~ask[t].dry)
          /\ UNCHANGED ask
      BY <2>3 DEF Open, Close, Truncate
    <3>2. t = s  BY <1>1, <2>1, <3>1 DEF Shape
    <3>3. ~ask[s].dry  BY <2>1, <3>1, <3>2 DEF Status
    <3>4. QED  BY <1>1, <3>1, <3>3
  <2>4. ASSUME NEW t \in Syncs, StartFails(t)
        PROVE  UNCHANGED treeVars
    <3>1. pc[t] = "idle" /\ \E outcome : End({t}, outcome)  BY <2>4 DEF StartFails
    <3>2. t = s  BY <1>1, <2>1, <3>1 DEF End
    <3>3. ~ask[s].dry /\ ~ask'[s].dry  BY <2>1, <3>1, <3>2 DEF End, Status, NoAsk
    <3>4. QED  BY <1>1, <3>3
  <2>5. ASSUME NEW t \in Syncs, Publish(t)
        PROVE  UNCHANGED treeVars
    <3>1. /\ \E v : pc' = [pc EXCEPT ![t] = v]
          /\ UNCHANGED ask
          /\ pc[t] = "publishing" \/ UNCHANGED treeVars
      BY <2>5 DEF Publish, treeVars
    <3>2. t = s  BY <1>1, <2>1, <3>1 DEF Shape
    <3>3. pc[t] # "publishing"  BY <1>1, <2>1, <3>1, <3>2 DEF Status
    <3>4. QED  BY <3>1, <3>3
  <2>6. QED
    BY <1>1, <2>2, <2>3, <2>4, <2>5 DEF Next, Work, Fetch, FetchFails, WriteFails,
       PublishFails, Answer, Cancel, Kill, Change, Search, vars
<1>2. IInv /\ [Next]_vars =>
        [\A s \in Syncs : Dry(s) /\ pc'[s] # pc[s] => UNCHANGED treeVars]_vars
  BY <1>1
<1>3. QED  BY SyncInvariant, <1>2, PTL DEF Spec, DryRunWritesNothing
=============================================================================
