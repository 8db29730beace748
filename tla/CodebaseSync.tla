----------------------------- MODULE CodebaseSync -----------------------------
(***************************************************************************)
(* SuperOfficeCodebaseSyncService.sync mirroring an installation into a    *)
(* directory, and LocalCodebaseRepository searching that directory.  Syncs *)
(* run as tool calls of one server process or as operator commands, each   *)
(* a process of its own.  Everything between two awaits, which is the      *)
(* writing of a whole section, runs alone in its process, but file by file *)
(* for the other processes and for a kill.                                 *)
(*                                                                         *)
(* A record is what the extractors return for one file: its entity's id,   *)
(* its folder, its name (a sequence, to which an id may be appended),      *)
(* whether the manifest lists it, and its text.                            *)
(***************************************************************************)
EXTENDS Integers, Sequences

CONSTANTS Syncs,
          Server,      \* the process whose repository searches the mirror
          Placements,  \* inputs: which process each sync runs in
          Selections,  \* inputs: per sync, the sets of sections its caller may ask for
          Records,     \* per section and version of the source, its records
          MaxSource,   \* bound: changes of the source
          Torn, NoManifest, NoCache, Nobody

VARIABLES home,      \* per sync, its process; never changes
          source,    \* external: the version of the installation
          pc, ask,
          todo,      \* sections not yet fetched
          batch,     \* files of the fetched section not yet written
          entries,   \* manifest entries so far
          result,
          made,      \* whether the directory exists
          disk,      \* per file that exists, its text, or Torn
          manifest,
          toucher,   \* history: per file, the sync that alone has written to it lately
          scribe,    \* history: the same for the manifest
          cache      \* _manifest_cache of the server's repository

syncVars == <<home, pc, ask, todo, batch, entries, result>>
treeVars == <<made, disk, manifest, toucher, scribe>>
vars == <<source, syncVars, treeVars, cache>>

Sections == {"ejscript", "screens", "schema", "config"}
Processes == {home[s] : s \in Syncs} \cup {Server}

\* The sections a sync takes in this order; only HTTP mode has a config section.
Selected(mode, tables) ==
    LET one(section) == IF section \in tables THEN <<section>> ELSE <<>>
    IN  one("ejscript") \o one("screens") \o one("schema")
            \o (IF mode = "http" THEN one("config") ELSE <<>>)

NoAsk == [mode |-> "none", tables |-> {}, dry |-> FALSE]

ASSUME SyncAssumption ==
    /\ \A s \in Syncs : Selections[s] \subseteq SUBSET Sections
    /\ \A x \in Sections, v \in 0..MaxSource :
          /\ Len(Records[x][v]) \in Nat
          /\ \A i \in 1..Len(Records[x][v]) :
                /\ DOMAIN Records[x][v][i] = {"id", "folder", "name", "listed", "text"}
                /\ Records[x][v][i].listed \in BOOLEAN
    /\ Placements # {} /\ \A home0 \in Placements : DOMAIN home0 = Syncs
    /\ Nobody \notin Syncs
    /\ MaxSource \in Nat
-----------------------------------------------------------------------------
\* Where a record goes: under its name, with its id appended when another entity of the
\* section has taken that path.  The path with the id is not looked up again.
Targets(records) ==
    LET own(i) == <<records[i].folder, records[i].name>>
        target[i \in 1..Len(records)] ==
            IF \E j \in 1..(i - 1) : target[j] = own(i) /\ records[j].id # records[i].id
            THEN <<records[i].folder, records[i].name \o <<records[i].id>>>>
            ELSE own(i)
    IN  target

\* The files of a section, in the order they are written.  The extension, or the folder, of a
\* file that is not listed (a screen's screen.json) is never that of one that is.
Files(records) ==
    [i \in 1..Len(records) |->
        [path |-> <<Targets(records)[i], records[i].listed>>,
         text |-> records[i].text,
         listed |-> records[i].listed]]

\* Without the hierarchy table a script's folder is named after its id.
Flat(records) ==
    [i \in 1..Len(records) |-> [records[i] EXCEPT !.folder = <<"folder">> \o @]]

\* What is left of the rows, in their order, when some queries failed: an entity is missing
\* with all its files ...
Kept(records) ==
    LET rows(n) == {f \in [1..n -> 1..Len(records)] :
                       /\ \A i, j \in 1..n : i < j => f[i] < f[j]
                       /\ \A i \in 1..n, k \in 1..Len(records) :
                             records[k].id = records[f[i]].id => \E j \in 1..n : f[j] = k}
    IN  UNION {{[i \in 1..n |-> records[f[i]]] : f \in rows(n)} : n \in 0..Len(records)}

\* ... or a file is written without them.
Emptied(records) == [i \in 1..Len(records) |-> [records[i] EXCEPT !.text = <<"empty">>]]

ScriptRows == LET records == Records["ejscript"][source] IN {records, Flat(records)}
TableRows == LET records == Records["schema"][source] IN {records, Emptied(records)}

\* Screens and configurations, each from several queries.
SeveralRows(section) == Kept(Records[section][source])

\* What the fetch of a section may return: most failures are logged and answered with less.
Fetched(section) ==
    CASE section = "ejscript" -> ScriptRows
      [] section = "schema" -> TableRows
      [] OTHER -> SeveralRows(section)

\* What a fetch may raise instead.  Over HTTP only a refusal by the server is answered with
\* less, a connection error is not.
MayRaise(mode, section) == mode = "http" \/ section = "ejscript"

Listed(list, file) ==
    IF file.listed THEN Append(list, [path |-> file.path, text |-> file.text]) ELSE list

PathsOf(list) == {list[i].path : i \in 1..Len(list)}
-----------------------------------------------------------------------------
Init ==
    /\ home \in Placements
    /\ source = 0
    /\ pc = [s \in Syncs |-> "idle"]
    /\ ask = [s \in Syncs |-> NoAsk]
    /\ todo = [s \in Syncs |-> <<>>]
    /\ batch = [s \in Syncs |-> <<>>]
    /\ entries = [s \in Syncs |-> <<>>]
    /\ result = [s \in Syncs |-> "none"]
    /\ made = FALSE
    /\ disk = <<>>
    /\ manifest = NoManifest
    /\ toucher = <<>>
    /\ scribe = Nobody
    /\ cache = NoCache

Running == {"writing", "open", "publish", "publishing", "answering"}

\* Nothing else of its process is between two awaits.
HasLoop(p, s) == \A t \in Syncs \ {s} : home[t] = p => pc[t] \notin Running

Stage(files, sections) ==
    IF files # <<>> THEN "writing" ELSE IF sections # <<>> THEN "fetching" ELSE "publish"

\* What is left of a sync is its answer.
End(S, outcome) ==
    /\ pc' = [s \in Syncs |-> IF s \in S THEN "done" ELSE pc[s]]
    /\ result' = [s \in Syncs |-> IF s \in S THEN outcome ELSE result[s]]
    /\ ask' = [s \in Syncs |-> IF s \in S THEN NoAsk ELSE ask[s]]
    /\ todo' = [s \in Syncs |-> IF s \in S THEN <<>> ELSE todo[s]]
    /\ batch' = [s \in Syncs |-> IF s \in S THEN <<>> ELSE batch[s]]
    /\ entries' = [s \in Syncs |-> IF s \in S THEN <<>> ELSE entries[s]]

\* Bug: the directories are made whatever was asked for.
StartMakesDirectories(s) ==
    /\ pc[s] = "idle" /\ HasLoop(home[s], s)
    /\ \E mode \in {"http", "mssql"}, tables \in Selections[s], dry \in BOOLEAN :
        /\ ask' = [ask EXCEPT ![s] = [mode |-> mode, tables |-> tables, dry |-> dry]]
        /\ todo' = [todo EXCEPT ![s] = Selected(mode, tables)]
        /\ pc' = [pc EXCEPT ![s] = Stage(<<>>, todo'[s])]
    /\ made' = TRUE
    /\ UNCHANGED <<home, source, batch, entries, result, disk, manifest, toucher, scribe, cache>>

\* sync up to its first await; the directories are made unless it is a dry run.
Start(s) ==
    /\ pc[s] = "idle" /\ HasLoop(home[s], s)
    /\ \E mode \in {"http", "mssql"}, tables \in Selections[s], dry \in BOOLEAN :
        /\ ask' = [ask EXCEPT ![s] = [mode |-> mode, tables |-> tables, dry |-> dry]]
        /\ todo' = [todo EXCEPT ![s] = Selected(mode, tables)]
        /\ pc' = [pc EXCEPT ![s] = Stage(<<>>, todo'[s])]
        /\ made' = (made \/ ~dry)
    /\ UNCHANGED <<home, source, batch, entries, result, disk, manifest, toucher, scribe, cache>>

\* An unknown mode is answered; ensure_directories raises, outside the try of sync.
StartFails(s) ==
    /\ pc[s] = "idle" /\ HasLoop(home[s], s)
    /\ \/ End({s}, "failed") /\ UNCHANGED made
       \/ End({s}, "raised") /\ made' \in {made, TRUE}
    /\ UNCHANGED <<home, source, disk, manifest, toucher, scribe, cache>>

\* Bug: the option is not handed on to the writer.
FetchIgnoresDry(s) ==
    /\ pc[s] = "fetching" /\ HasLoop(home[s], s)
    /\ \E records \in Fetched(Head(todo[s])) :
        batch' = [batch EXCEPT ![s] = Files(records)]
    /\ todo' = [todo EXCEPT ![s] = Tail(@)]
    /\ pc' = [pc EXCEPT ![s] = Stage(batch'[s], todo'[s])]
    /\ UNCHANGED <<home, source, ask, entries, result, treeVars, cache>>

\* A section's rows arrive and its files are laid out; the first of them is next, unless
\* this is a dry run, which only reports entries (they are not modelled).
Fetch(s) ==
    /\ pc[s] = "fetching" /\ HasLoop(home[s], s)
    /\ \E records \in Fetched(Head(todo[s])) :
        batch' = [batch EXCEPT ![s] = IF ask[s].dry THEN <<>> ELSE Files(records)]
    /\ todo' = [todo EXCEPT ![s] = Tail(@)]
    /\ pc' = [pc EXCEPT ![s] = Stage(batch'[s], todo'[s])]
    /\ UNCHANGED <<home, source, ask, entries, result, treeVars, cache>>

FetchFails(s) ==
    /\ pc[s] = "fetching" /\ HasLoop(home[s], s)
    /\ MayRaise(ask[s].mode, Head(todo[s]))
    /\ End({s}, "failed")
    /\ UNCHANGED <<home, source, treeVars, cache>>

Put(path, text, sync) ==
    /\ disk' = [p \in DOMAIN disk \cup {path} |-> IF p = path THEN text ELSE disk[p]]
    /\ toucher' = [p \in DOMAIN toucher \cup {path} |-> IF p = path THEN sync ELSE toucher[p]]

\* write_bytes opens the file, which truncates it, ...
Open(s) ==
    /\ pc[s] = "writing"
    /\ pc' = [pc EXCEPT ![s] = "open"]
    /\ Put(Head(batch[s]).path, Torn, s)
    /\ UNCHANGED <<home, source, ask, todo, batch, entries, result, made, manifest, scribe, cache>>

\* ... and fills it.  Two processes that have one file open at a time write over each other,
\* and the longer text may show behind the shorter one.  The entry is made of the text in hand.
Close(s) ==
    /\ pc[s] = "open"
    /\ LET file == Head(batch[s])
       IN  /\ IF toucher[file.path] = s THEN Put(file.path, file.text, s)
              ELSE \E text \in {file.text, Torn} : Put(file.path, text, Nobody)
           /\ entries' = [entries EXCEPT ![s] = Listed(@, file)]
    /\ batch' = [batch EXCEPT ![s] = Tail(@)]
    /\ pc' = [pc EXCEPT ![s] = Stage(batch'[s], todo[s])]
    /\ UNCHANGED <<home, source, ask, todo, result, made, manifest, scribe, cache>>

\* Bug: a file that cannot be written is skipped, and listed all the same.
SkipFile(s) ==
    /\ pc[s] \in {"writing", "open"}
    /\ entries' = [entries EXCEPT ![s] = Listed(@, Head(batch[s]))]
    /\ batch' = [batch EXCEPT ![s] = Tail(@)]
    /\ pc' = [pc EXCEPT ![s] = Stage(batch'[s], todo[s])]
    /\ UNCHANGED <<home, source, ask, todo, result, treeVars, cache>>

\* Bug: what was written so far is put into a manifest on the way out.
ManifestInFinally(s) ==
    /\ pc[s] \in {"writing", "open"}
    /\ End({s}, "failed")
    /\ manifest' = [author |-> s, entries |-> entries[s]] /\ scribe' = s
    /\ UNCHANGED <<home, source, made, disk, toucher, cache>>

\* Bug: a file that cannot be written is tried again, and again.
TryAgain(s) ==
    /\ pc[s] \in {"writing", "open"}
    /\ pc' = [pc EXCEPT ![s] = "writing"]
    /\ UNCHANGED <<home, source, ask, todo, batch, entries, result, treeVars, cache>>

\* An OSError: before the file was opened or with part of it written.
WriteFails(s) ==
    /\ pc[s] \in {"writing", "open"}
    /\ End({s}, "failed")
    /\ UNCHANGED <<home, source, treeVars, cache>>

Truncate(s) ==
    /\ pc[s] = "publish" /\ ~ask[s].dry
    /\ pc' = [pc EXCEPT ![s] = "publishing"]
    /\ manifest' = Torn /\ scribe' = s
    /\ UNCHANGED <<home, source, ask, todo, batch, entries, result, made, disk, toucher, cache>>

\* write_manifest is done, or there is none to write.
Publish(s) ==
    /\ \/ /\ pc[s] = "publishing"
          /\ \/ manifest' = [author |-> s, entries |-> entries[s]]
             \/ scribe # s /\ manifest' = Torn
          /\ scribe' = IF scribe = s THEN s ELSE Nobody
       \/ pc[s] = "publish" /\ ask[s].dry /\ UNCHANGED <<manifest, scribe>>
    /\ pc' = [pc EXCEPT ![s] = "answering"]
    /\ UNCHANGED <<home, source, ask, todo, batch, entries, result, made, disk, toucher, cache>>

PublishFails(s) ==
    /\ pc[s] = "publishing" \/ (pc[s] = "publish" /\ ~ask[s].dry)
    /\ End({s}, "failed")
    /\ UNCHANGED <<home, source, treeVars, cache>>

\* The caller is told of success; until then a kill leaves a manifest nobody was told of.
Answer(s) ==
    /\ pc[s] = "answering"
    /\ End({s}, "success")
    /\ UNCHANGED <<home, source, treeVars, cache>>

\* The caller goes away while a fetch is under way.
Cancel(s) ==
    /\ pc[s] = "fetching" /\ HasLoop(home[s], s)
    /\ End({s}, "cancelled")
    /\ UNCHANGED <<home, source, treeVars, cache>>

\* A process dies with all its syncs; a new server has an empty cache.
Kill(p) ==
    /\ End({s \in Syncs : home[s] = p /\ pc[s] \notin {"idle", "done"}}, "killed")
    /\ cache' = IF p = Server THEN NoCache ELSE cache
    /\ UNCHANGED <<home, source, treeVars>>

\* External: somebody changes the installation.
Change ==
    /\ source < MaxSource
    /\ source' = source + 1
    /\ UNCHANGED <<syncVars, treeVars, cache>>

\* _load_manifest_entries: the manifest's paths, or every file when there is none or it does
\* not parse.  Without a directory the service searches an empty repository for good.
Catalogue ==
    IF ~made THEN {}
    ELSE IF manifest \in {NoManifest, Torn} THEN DOMAIN disk
    ELSE PathsOf(manifest.entries)

Searched == IF cache = NoCache THEN Catalogue ELSE cache

Search ==
    /\ cache = NoCache
    /\ HasLoop(Server, Nobody)
    /\ cache' = Searched
    /\ UNCHANGED <<source, syncVars, treeVars>>

Work(s) ==
    \/ Fetch(s) \/ FetchFails(s) \/ Open(s) \/ Close(s) \/ WriteFails(s)
    \/ Truncate(s) \/ Publish(s) \/ PublishFails(s) \/ Answer(s)

Next ==
    \/ \E s \in Syncs : Start(s) \/ StartFails(s) \/ Work(s) \/ Cancel(s)
    \/ \E p \in Processes : Kill(p)
    \/ Change
    \/ Search

\* A fetch ends: the HTTP client and the database connection have timeouts.
Fairness == \A s \in Syncs : WF_vars(Work(s))

Spec == Init /\ [][Next]_vars /\ Fairness
-----------------------------------------------------------------------------
TextsOf(section, version) ==
    LET records == Records[section][version] IN {records[i].text : i \in 1..Len(records)}

Texts ==
    {<<"empty">>, Torn} \cup UNION {TextsOf(x, v) : x \in Sections, v \in 0..MaxSource}

TypeOK ==
    /\ source \in 0..MaxSource
    /\ pc \in [Syncs -> {"idle", "fetching", "done"} \cup Running]
    /\ result \in [Syncs -> {"none", "success", "failed", "raised", "cancelled", "killed"}]
    /\ \A s \in Syncs : pc[s] = "done" <=> result[s] # "none"
    /\ \A s \in Syncs : pc[s] \in {"writing", "open"} <=> batch[s] # <<>>
    /\ made \in BOOLEAN
    /\ \A p \in DOMAIN disk : disk[p] \in Texts
    /\ DOMAIN toucher = DOMAIN disk
    /\ manifest \in {NoManifest, Torn} \/ manifest.author \in Syncs

\* Whatever is killed, cancelled or interleaved, the manifest and the search cache name only
\* files that exist (write_manifest comes last and nothing is ever removed; search_codebase
\* reports cached paths without looking for the file).
CatalogueBacked ==
    /\ manifest \notin {NoManifest, Torn} => PathsOf(manifest.entries) \subseteq DOMAIN disk
    /\ cache # NoCache => cache \subseteq DOMAIN disk

LastOf(list, i) == \A j \in (i + 1)..Len(list) : list[j].path # list[i].path

\* A manifest that parses is that of a sync that has written every file it lists and is at its
\* answer, has given it, or was killed there: never of one that has files to write still, that
\* failed or was cancelled (writer.py:418 is the last thing done).  Each of its hashes is the
\* hash of the file, unless another sync had the file open at the time or has written it since,
\* or a later entry has the same path.
ManifestTruthful ==
    manifest \notin {NoManifest, Torn} =>
        LET list == manifest.entries
            author == manifest.author
        IN  /\ pc[author] = "answering" \/ result[author] \in {"success", "killed"}
            /\ \A i \in 1..Len(list) :
                  toucher[list[i].path] = author /\ LastOf(list, i) =>
                      disk[list[i].path] = list[i].text

\* No step of a sync that is, or is being, asked for a dry run changes anything on disk,
\* whatever becomes of it (the dry_run tests before ensure_directories, in five writers and
\* in write_manifest).
DryRunWritesNothing ==
    [][\A s \in Syncs :
          (ask[s].dry \/ ask'[s].dry) /\ pc'[s] # pc[s] => UNCHANGED treeVars]_vars

\* Once a sync is started it ends, also when another keeps the event loop in between.
SyncsEnd == \A s \in Syncs : pc[s] # "idle" ~> pc[s] = "done"
=============================================================================
