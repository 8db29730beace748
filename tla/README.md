# Verification of the SuperOffice support MCP platform

TLA+ models of the platform's own core logic, TLC configurations that check them on
small instances, and TLAPS proofs of what matters most for every instance.
`PROJECT.json` is the manifest: components, runs, mutants, the map from definitions
to source lines, findings, hazards and theorems.

## 1. Inventory

The repository is a monorepo of Python services that give an AI assistant read-only
access to a support organisation's systems.  A *gateway* authenticates and authorises
tool calls and forwards them over HTTP to *MCP servers*; an *investigation* service
fans one request out to several servers and correlates what they return; a *knowledge*
server is the only one with a write path, an ingestion command run by operators.

| Component | State it keeps | Operations | Talks to |
|---|---|---|---|
| Ingestion coordinator (`kb_mcp/ingestion/orchestrator.py`) | locals of one call: staged token, `promoted`, target version | `ingest`, fast path, compensation | repository, artifact store, embedding provider |
| Ingestion repository (`kb_mcp/adapters/postgres_ingestion_repository.py`) | `documents`, `chunks`, `runbooks`, `known_issues`; one advisory lock per document | transaction, state reads, four `persist_*`, reference check | PostgreSQL |
| Artifact store (`kb_mcp/adapters/filesystem_artifact_store.py`) | `staging/*.tmp`, `approved/<type>/<id>/<hash>.md` | stage, promote, discard, remove, stale cleanup | filesystem |
| Admission and chunking (`kb_mcp/ingestion/service.py`, `eligibility.py`, `sanitizer.py`, `canonical.py`, `chunking.py`) | none between calls | parse, sanitize, decide, canonicalize, split | - |
| Ingestion command line (`kb_mcp/ingestion/cli.py`, `composition.py`) | locals of one command | `dry-run`, `ingest`, exit codes | admission, chunker, coordinator |
| Knowledge retrieval (`kb_mcp/server.py`, services, adapters) | none | semantic search, runbook, known issues | PostgreSQL, read only |
| Plan engine and store (`platform_investigation/orchestrator.py`, `store.py`) | plans; one `asyncio.Lock` of the engine, one of the store | create, advance, conclude, abort | store |
| Aggregator, timeline, evaluator (`platform_investigation`) | none | gather collectors, validate, sort, group, evaluate | collectors |
| Investigation service and collectors (`platform_investigation_service`) | locals of one request | `investigate` | plan engine, aggregator, four ports |
| Gateway (`platform_gateway`) | rate-limiter history, one shared HTTP client, audit sink | authenticate, route, authorise, limit, dispatch, sanitize, audit | MCP servers |
| Security (`platform_security`) | sliding windows per identity and tool | RBAC decision, JWT verification, rate limit, sanitizing | - |
| HTTP client (`platform_http`) | attempts and elapsed time of one call | `send` with retries and a deadline | external systems |
| Diagnostics server (`diag_mcp`) | a pool of connections; locals of one search | health with its diagnosis, bounded row queries, ticket record, log search over two sources | MSSQL, log files others write |
| SuperOffice server (`so_mcp`) | a catalogue of extra tables kept for good; the synchroniser keeps a tree of files and a manifest | tickets, audit, metadata, extra tables; synchronise and read the codebase | SuperOffice REST, MSSQL, filesystem |
| Core, config, observability, infrastructure, `index.ts` | settings | preflight probes, logging | - |

Hard behaviour lives where state outlives a step: two writers of one document; a
failure or a kill between the filesystem and the database, which share no commit; a
lost connection at `COMMIT`; compensation that checks and then acts without the lock;
plans read, changed and saved by several coroutines; collectors that answer in any
order, fail, or return what the aggregator refuses; a shared HTTP client whose headers
are changed per call; a rate limiter on a clock that may step; a synchroniser killed
between a file and its manifest; log files that grow, rotate and are locked while they are
read backwards in chunks; a network that changes between a failure and the probes that
explain it; records put together from several statements; retries against a server that
passes from one failure to another; a source file rewritten between its check and its use.
`PROJECT.json` lists the hazards at their lines; a few more that no property covers are in
section 5.

What makes each component correct:

* ingestion: whole publications only, no lost version, truthful answers, no orphaned
  staging file, an intact artifact behind every row, every call ends;
* plans: atomic updates, step numbers without gaps, the ceiling, frozen terminal
  states, a conclusion that names a confirmed hypothesis;
* investigation: the report holds exactly what the successful sources delivered
  (their order is not modelled); one source's failure stays that source's;
* gateway: nothing is dispatched that was not authenticated, authorised and within its
  limit, and every request leaves exactly one audit record;
* rate limiter: never more than the limit inside one window;
* HTTP client: at most `max_attempts` attempts, only calls that are safe to repeat (GET,
  HEAD, or declared so) are repeated, none after the deadline, and no failure that may pass is
  reported while another attempt was possible;
* admission: nothing is stored that was not scanned clean, a dry run foretells its ingest, an
  exit code says no more about the store than is so, the chunks of a text cover it;
* log search: no gap before the oldest record that is returned, no half-written line taken for a
  record, an answer complete unless it says otherwise, every search ends;
* database diagnostics: the layer that is blamed was not well, a healthy database was healthy;
* SuperOffice tools: errors, catalogues and trails speak of states that there were;
* synchroniser: manifest and search list only files that exist, the manifest lists only what was
  written before it, a dry run writes nothing, a sync comes to an answer.

## 2. Modules

| Module | Models | Composes |
|---|---|---|
| `KnowledgeStore` | abstract: every document has one published entry, changed only by whole publications | - |
| `Ingestion` | the coordinator, the repository and the artifact store, for any number of writer processes | `KS == INSTANCE KnowledgeStore WITH ...` |
| `IngestionProofs` | theorems about `Ingestion` | extends `Ingestion`, `TLAPS` |
| `PlanBook` | abstract: a book of plans in which every operation takes effect at once | - |
| `PlanEngine` | the plan engine over its store: lock, copy, checks, save, cancellation | `PB == INSTANCE PlanBook WITH ...` |
| `Investigation` | the application service with its four collectors, aggregation, timeline and evaluation | extends `PlanEngine` |
| `InvestigationProofs` | theorems about `PlanEngine` and `Investigation` | extends `Investigation`, `TLAPS` |
| `Throttle` | abstract: a sliding-window limit that remembers every call it admitted | - |
| `RateLimiter` | `SlidingWindowRateLimiter`: one deque of timestamps per key, with eviction | `TH == INSTANCE Throttle WITH ...` |
| `Gateway` | the tool-call pipeline for concurrent requests, with policy, dispatch and audit | extends `RateLimiter` |
| `GatewayProofs` | theorems about `RateLimiter` and `Gateway` | extends `Gateway`, `TLAPS` |
| `CodebaseSync` | the synchroniser's runs, its directory and manifest, and the search that lists them | - |
| `CodebaseSyncProofs` | theorems about `CodebaseSync` | extends `CodebaseSync`, `TLAPS` |
| `LogSearch` | the log search: reverse reader, streaming reader, composite merge, and the programs that write the files | - |
| `DatabaseDiagnostics` | the diagnostics tools that ask SQL Server, with a network and a ticket that change | - |
| `Diagnostics` | one call of the diagnostics server | extends `LogSearch`, `DatabaseDiagnostics` |
| `LogFilesProofs` | lemmas about the operators of `LogSearch`: lines, chunks, carries, the parser | extends `LogSearch`, `TLAPS` |
| `DiagnosticsProofs` | theorems about `LogSearch`, `DatabaseDiagnostics` and `Diagnostics` | extends `Diagnostics`, `LogFilesProofs` |
| `Delivery` | abstract: what a caller of a retrying client may rely on | - |
| `HttpClient` | `ResilientHttpClient.send`: attempts, backoff, deadline, cancellation | `DL == INSTANCE Delivery WITH ...` |
| `RestClient` | the REST tools and their mapping of errors | extends `HttpClient` |
| `ExtraTables` | the catalogue of extra tables shared by concurrent calls, and their queries | - |
| `SuperOfficeQueries` | audit trail, reference lists, scheduled tasks, associates | - |
| `SuperOffice` | calls of the SuperOffice server | extends `RestClient`, `ExtraTables`, `SuperOfficeQueries` |
| `SuperOfficeProofs` | theorems about `HttpClient`, `RestClient`, `ExtraTables` and `SuperOfficeQueries` | extends `SuperOffice`, `TLAPS` |
| `Chunking` | `DeterministicChunker`, step by step | - |
| `Admission` | `dry-run` and `ingest`: routing, reading, admission, canonical document, chunks, coordinator's outcomes, exit codes | extends `Chunking` |
| `AdmissionProofs` | theorems about `Chunking` and `Admission` | extends `Admission`, `TLAPS` |
| `MCIngestion`, `MCInvestigation`, `MCRateLimiter`, `MCGateway`, `MCCodebaseSync`, `MCDiagnostics`, `MCSuperOffice`, `MCAdmission` | values for the constants of the runs | extend their models |

### 2.1 Ingestion

A *writer* is one process running the ingestion command.  `pc[w]` is the await, or the
run of filesystem calls, at which `KnowledgeIngestionCoordinator.ingest` stands; an
action is what the code does up to the next point where another process can be seen.

| Code | Model |
|---|---|
| `_check_fast_path`: unlocked read, then a read under the lock | `Precheck`, `Acquire`, `Verify` |
| `_chunk_document`, `_embed_chunks` | `Prepare`, `FailsEarly` |
| `stage`, `discard_staged`, `cleanup_stale_staging` | `Stage`, `StageFails`, `Discard`, `CleanupStaleStaging` |
| `document_transaction` with `pg_advisory_xact_lock` | `Acquire`; `Release` at every end of the session |
| early return inside the transaction | `DecideUnchanged` |
| `promote`: `os.link`, the copying fallback, `_handle_existing_artifact` | `Link`, `CopyBegin`, `CopyEnd`, `PromoteOverExisting`, `AcceptExisting`, `RejectPromotion` |
| `persist_document`, `persist_runbook` / `persist_known_issue`, `persist_chunks` | `PersistDocument`, `PersistStructured`, `PersistChunks`, on the private copy `txn[w]` |
| `COMMIT` and what may become of it | `Commit`, `CommitFails` (refused, applied but unacknowledged, unknown), `Settle` |
| the `except` clause and `_compensate_after_failure` | `Fails`, `CompensateStaged`, `CompensatePromoted`, `CompensateUnknown`, `RemoveUnreferenced` |
| kill, or cancellation (only `Exception` is caught) | `Crash` |

Data: a payload is a model value with a content hash; a committed entry is its hash,
its version, the hashes its chunks come from, and its structured record.  An artifact
is `absent`, `partial` or `intact`.  `log` (the hashes committed for a document) and
`faulted` (contents whose handling met a kill or a failed cleanup) are history; no
guard reads them.

### 2.2 Investigation

`PlanEngine` splits each operation where the code awaits: `Begin` (the call),
`Enter` (the engine's `asyncio.Lock`), `Read` (`get_plan` returns a deep copy),
`Reject` or `Save` (the checks, `model_copy`, `save_plan`).  `create_plan` takes no
lock and writes a new identifier.  `Cancel` is a `CancelledError` at any await.  With
the in-memory store the awaits inside the lock never actually suspend; the model lets
them, because the store is a protocol and the engine's lock is there for stores that do.
The save itself is one step: a store whose save could be cancelled half way is outside.

`Investigation` adds the request: `Investigate` (`create_plan`), one `Collect` per
source in any order, `Refuse` (the duplicate check raises) or `Correlate`
(aggregation, timeline, groups, evaluation, and the call of `advance_step`), `Respond`.
A collector shares nothing, so all its awaits are one step that yields any outcome its
code can return for any answer of its backend; `Raised` is an exception outside its own
`try`.  An evidence item keeps identity, time, references, and whether its tags or
severity make it support the hypothesis.  The outcomes a source may have are
`Outcomes(source, selection)`.  Other clients of the engine ("operators")
are its public API in use by somebody else, as the repository's concurrency tests do;
the server's default wiring makes one engine per request, and there only the request
itself is a client (run `investigation_isolation`).

### 2.3 Rate limiter

`is_allowed` contains no await, so a call is one step, `CheckLimit(k)`: the `while` loop
drops the `n` stale timestamps at the left end (`Stale`, `Evict`), the two conditions are
`Allowed`, and an admitted call appends its time.  `Reset` is `reset(key)`; `reset()`
without a key is one `Reset` after another.  `Tick` is the clock, in whole seconds, and it
does not step back.  `admitted` is history: the deque nothing was ever dropped from.
`Throttle` decides on it alone, which is what the limiter is meant to compute.

### 2.4 Gateway

| Code | Model |
|---|---|
| `handle_tool_call` up to its first await: token, route, policy, limiter | `Receive` = `Refuse`, or `Throttled` with `Prepare`, `Reject` or a refusal by the limiter |
| `evaluate_policy`, `_check_privileges` | `PolicyDenial`, `PrivilegeDenial` |
| `dispatch`: a client per call, its headers, `session.initialize`, `session.call_tool` | `Prepare`, `Open`, `Post`, each message with the headers its client has at that time |
| result, tool error, every `except` clause | `Answer`, `Fail` |
| `record_success`, `record_failure` and a sink that raises | `Audit`, `SinkFails` |
| `asyncio.CancelledError` at any await | `Cancel` |
| the backend (external) | `Run`: a posted call may run at any later time, or never |

A call is a header, a tool, an address and whether its correlation id fits the bounds of
the envelopes.  `wire` (the headers of the messages posted for a request) and `ran` are
history.  `create_gateway_app` as it stands passes neither a rate limiter nor an audit
sink nor a client of its own to the service.  The model has limiter and sink, which the constructors
provide for, because the order of the pipeline is about them; `InjectedClient` says
whether a client is shared, and `OwnIdentity` is claimed only where it is not.

### 2.5 Codebase synchronisation

A *sync* is one call of `SuperOfficeCodebaseSyncService.sync`, made by the server's tool or
by the operator's command, each process with its own event loop (`home`, `HasLoop`).

| Code | Model |
|---|---|
| `sync` up to its first await, `ensure_directories` | `Start`, `StartFails` |
| `_sync_http`, `_sync_mssql`: the fetch of each selected section in turn | `Fetch`, `FetchFails`, `Cancel` |
| a query that failed and was answered with less | `ScriptRows`, `TableRows`, `SeveralRows` |
| `write_scripts`, `write_screens`, `write_schema`, `write_configs`: names, then file by file | `Targets`, `Files`, `Open`, `Close`, `WriteFails` |
| `write_manifest`; the answer that follows it | `Truncate`, `Publish`, `PublishFails`; `Answer` |
| `_load_manifest_entries` and its cache, the factory's empty repository | `Catalogue`, `Search` |
| kill of a process, change of the installation (external) | `Kill`, `Change` |

Between two awaits a whole section is written, which nothing in the same process can see; a
kill and the other process can, so a file is opened (and thereby truncated) and filled in
two steps.  A record is an entity's id, its folder, name and text, and whether the manifest
lists its file.  All rows of one section are taken to be of one version of the installation;
sections may be of different ones.  A write that fails when its last byte is out (in `close`) counts
as one that left a torn file.  Between the last byte of the manifest and the answer a process may be
killed: a whole manifest may be that of a sync that never answered, and `ManifestTruthful` says so.
`DryRunWritesNothing` holds from the very call on (`ask'`), since the directories are made in the
step in which a sync learns what it is asked.  `toucher` and `scribe` are history: which sync alone has
written to a file, or to the manifest, since it was opened.

### 2.6 Diagnostics

The calls of the Diagnostics server share nothing but a pool of connections, so `Diagnostics`
runs one call: a log search or a database tool.

| Code | Model |
|---|---|
| the service's bounds on a limit, the composite's checks of its sources | `Ask` |
| `_select_candidate_files`, `_scan_candidates` | `SelectCandidates`, `OpenFile`, `EndOfScan`, `StopInFile` |
| one turn of `_scan_file_reverse` with `_split_chunk_lines` and `_process_chunk_lines` | `ReadChunk` (`Pieces`, `Carry`, `Backwards`, `Inside`, `IisMatches`) |
| `locate_candidates`, `_process_candidate_events`, `SuperOfficeWarningLogParser` | `Locate`, `ReadWarnings` (`Streams`, `Feed`, `Continue`), `WarningFails` |
| `search_logs` of the composite | `Merge` |
| `get_database_health`, `_diagnose_connection_failure` with its probes | `Connect`, `CountSessions`, `FetchBackupStatus`, `Close`, `Diagnose`, `ProbeDns`, `ProbeTcp` |
| row queries, `get_ticket_diagnostic_record` | `SelectRows`, `TicketStats`, `LatestActor` |
| web server, SuperOffice, operators (external) | `Write`, `Rotate`, `Lose`, `TimeIsUp` |
| network, people at work on a ticket (external) | `NetworkChanges`, `TicketChanges` |

A log file is a sequence of lines with positions and sizes in bytes, and the bytes of a line under
way, so that chunk boundaries, carries and cut lines are those of the code.  A record is its
source, time and content; whether the line it was read from was whole is kept beside it.  `asked`
(what stood in the files when a source was listed), `failed` and `history` (the networks and
tickets there were during the call) are history.

Of the programs that write the files the model takes for granted what the readers take for granted:
each line starts behind the newline of the one before it (`WellPlaced`), and IIS writes in the order
of time, through the lines of a file and from an older file to a newer one (`InOrder`).  The
reverse reader stops at its limit without looking further back and answers with what it found as
the newest, which is so only of files in that order.

### 2.7 SuperOffice server

| Code | Model |
|---|---|
| `ResilientHttpClient.send` | `Send`, `StartAttempt`, `EndAttempt`, `Judge`, `WakeUp`, `CancelSend` |
| the REST tools, `_execute_request`, `_parse_json`, `isinstance(..., dict)`, mappers and DTOs | `Request`, `Receive` (`Failure`, `Malformed`, `MayBeMalformed`, `Mapped`) |
| `get_table_catalog`: cache, two statements, the local mirror | `StartTables`, `ReadTables`, `ReadFields`, `CatalogueFails` |
| `ExtraTableValidator`, `query_table` | `ColumnsValid`, `Use`, `RunQuery` |
| `get_ticket_audit_trail` | `ReadMilestones`, `ReadActions`, `ReadChanges` |
| `get_ticket_metadata_lists`, `list_system_events_and_triggers`, `get_associate_details` | `ReadList`, `ReadRows` |
| server, SQL Server, administrators, agents, the synchroniser (external) | `ServerChanges`, `SchemaChanges`, `Outage`, `MirrorSynced`, `Commit` |

The external server is in one of twelve conditions, among them a success whose body is of another
shape or no JSON, every status the code tells apart, and what `httpx` raises; it may pass from one
to another at any time, and an attempt comes to the condition it meets when it is answered.  A body
that is no JSON is MALFORMED; one of another shape is so only where the code looks (the first body
of an entity that is not an object).  Otherwise the mappers fill in defaults ("DEFAULTS"), take a
page or list for an empty one, or make a DTO that refuses an identifier of zero, an error no layer
gives a code ("UNMAPPED").  `get_ticket` keeps its first body (`kept`) until the second has come.

The catalogue is shared: of two calls that read it at once the later one wins, the one that found
the database down included.  The mirror it falls back on is what some sync has left
(`Extracts`, the web client's and the database's): tables of one version with fields of the same or
a later one, tables without fields because the second query was refused
(`http_extractor.py:254`), no tables because the database did not answer
(`mssql_extractor.py:303`), names `y_table_<id>` made up for rows of `extra_tables` without one
(`:274`; the constant `Nameless`, names that the database's own catalogue leaves out), nameless
fields, which become a column called "none" on the way through the web client (`Spelt`, `Blank`), a
file cut short (`Torn`), or one with a field whose type is null, at which `_load_schema_file` raises
outside its `try` (`Untyped`).  `CatalogueTraceable` therefore promises registered tables and
columns only of what the database itself delivered; of a stand-in it promises rows of `extra_tables`
and fields of theirs, and of every statement that it holds no name that is refused.

`SuperOffice` runs one kind of call at a time, because the kinds share
nothing.

### 2.8 Admission

A source is a record of what the scan, the parsers and the canonical form make of it: its size,
what it parses as, the findings in each field, the reference it declares, and the text and layout
it comes to.  `Checks` is the sequence of refusals in the order of the code, and `Admit` gives the
reason of the first that fails.  The steps of a command are its system calls: `StatFile` and
`ReadFile` (the file may be rewritten in between by `EditFile`), `Compose` (outside the `try`
that closes the engine), `Admit`, the coordinator's fast path `Precheck`, the chunker's own steps,
`Embed`, `Persist` with its failures and the interruption after a commit, `CloseContext`, whose
failure takes the place of what came before, and `PrintOutcome`, which stands inside the same `try`
(`cli.py:432`, `:438`) and may raise after the commit: an `OSError`, or, for a reference of
`Unprintable`, the `UnicodeEncodeError` of a stdout whose encoding lacks one of its letters, a
`ValueError` and thus a VALIDATION_ERROR (F9).  A stdout that fails only when the interpreter
flushes it, and a stderr that fails, are outside.  The coordinator is `Ingestion`'s subject; here
it is reduced to its outcomes.  `vetted`, `predictions` and `before` are history.  Some commands
stand for direct callers of `admit_or_raise`, which may give labels, names and references that the
command line never does.

## 3. Runs

| Run | Question | Result |
|---|---|---|
| `ingestion_core` | two writers, two texts of one document, every fault: does the database move by whole publications, are answers true, are leftovers explained, does every call end? | holds |
| `ingestion_exclusive` | with one writer per content and no in-doubt commits: is every committed row backed by its intact artifact? | holds |
| `ingestion_shared_content` | same, with a content given to two writers | violated (F1) |
| `ingestion_history` | are artifacts of earlier versions preserved? | violated (F2) |
| `investigation` | a request and an operator share the engine; sources answer anything | holds |
| `investigation_isolation` | a request alone: does a failure of a source stay in its source? | violated (F4) |
| `rate_limiter` | callers and resets on two keys: does any window hold more than its limit, does eviction change an answer? | holds |
| `gateway` | two concurrent requests, a call for every outcome, every failure and cancellation: identities, authorization, slots of the window, audit trail | holds |
| `codebase_sync` | two syncs in one or two processes, every failure, cancellation and kill: what do manifest, files and search cache say of each other? | holds |
| `diagnostics` | a log search beside programs that write, rotate and lock the files; a database tool on a network that changes: what may an answer claim? | holds |
| `superoffice` | retries against a server that changes, a catalogue shared by two calls, trails read while agents commit: does every answer speak of what there was? | holds |
| `admission` | two commands over a file that is edited, with every failure and interruption: is what is stored clean, does a dry run foretell, are exit codes true? | holds |

**F1** compensation checks for references and removes outside the lock, so it may
delete the artifact of a row another writer has just committed.  The same happens with
a single writer when a commit is left in doubt and settles after the reference check,
which is why `ArtifactBacked` is claimed only for exclusive content *and* without
in-doubt commits.  **F2** re-ingesting content that an earlier version used and failing
removes that version's artifact.  **F4** two chunks of one document get one evidence
identifier, and the aggregator's duplicate check fails the whole request.  F4 is a statement
about the collector and any port that hands chunks through; the HTTP adapter of the default
wiring keeps only answers that arrive as a list.

Six more disagreements between code and documents, or surprises of the code, follow from the
models without a run of their own.  **F3** `promote` promises to be atomic (`filesystem_artifact_store.py:393`), and its
fallback copy (`:434`) can leave a truncated file under a content address, which then blocks
that content: `CopyBegin` and a `Crash`.  **F5** `AuditContext` takes its correlation id from a
context variable that nothing in the gateway binds (`audit.py:151`), so every audit event carries
an identifier made up for it, where `docs/security-model.md:159` attaches that of the request:
`trail` in `Gateway`.  **F6** the repository keeps the listing of its first search, an empty one
included (`codebase/repository.py:178`), and a sync of a selection leaves a manifest of that
selection only, where the tool offers to search all that is mirrored (`server.py:317`): `Search`
and `Publish` in `CodebaseSync`.  **F7** `docs/project-status.md:412` says that when the database
fails after the artifact was created, "the uncommitted artifact remains orphaned but harmless, and
is flagged for reconciliation".  The code removes it, unless it is referenced
(`orchestrator.py:277`-`294`), and flags nothing: it is left only if the check or the removal
fails, or the process is killed.  `NoUnexplainedArtifact` holds the code to what it does
(`CompensatePromoted`, `RemoveUnreferenced`), which is stronger than the document; F1 and F2 are
what the removal costs.  **F8** `docs/server-responsibilities.md:76` has an "immutable
`manifest.json` tracking file hashes".  Two syncs that write one file, in two processes or one after
the other with different selections, leave a manifest whose hash is not the file's; so does one sync
alone when a script is named as another's path with its id appended (`writer.py:80`), for two
entries then share a path.  `ManifestTruthful` claims a hash where neither is the case (`toucher`,
`LastOf`).  **F9** an ingest that has committed exits with VALIDATION_ERROR, as if its content had
been refused, when stdout cannot encode its reference (`cli.py:438`, `:444`);
`validate_provenance` accepts letters of any alphabet.  `StoredUnprinted` is the exception that
`ExitTruthful` makes for it.

What the passing runs are about, property by property, is said at the definition of each
property; `PROJECT.json` gives for each a plausible bug of the code (`mutants`) that TLC
finds with it.

### 3.1 Bounds, and why they are enough

* Two writers: all conflicts are between two calls, the one that holds the lock or has
  released it, and another; a third only adds a second waiter.  Documents are independent
  (locks, rows and artifact directories are per document), so one document suffices;
  `CallsEnd` depends on it as little.
* Texts: `ingestion_core` shares two texts between both writers, so that either can
  commit what the other submits; `ingestion_exclusive` and `ingestion_history` need three
  so that one writer can alternate between two (A, B, A).
* `MaxVersion` stops new content at 1, 2 or 3 commits; `MayStart` is the bound in the
  guard.  Beyond it only current content is offered, which keeps the fast path alive and
  the state space finite.  Version arithmetic never looks further than one version back,
  and A, B, A is the longest history a property needs.
* Plans: one plan with ceilings 1 and 2, which covers a ceiling reached by the request
  itself and by an operator; two hypotheses, one existing and one unknown.
* One request and one operator: the lock has one holder and one waiter, and every pair
  of operations overlaps in every order.  Backends answer one item each, and the knowledge
  base one chunk or two chunks of one document.
* Rate limiter: two keys, three calls in three seconds and two in one, six seconds, so that
  both limits bind, timestamps leave the window one and several at a time, and the boundary
  (exactly one window old) is met; the keys are interchangeable.
* Gateway: two requests, so that one dispatch runs between any two awaits of another; a
  limit of one call per key, so that the second request meets a full window; two seconds, so
  that it may also meet an empty one; thirteen calls, one for every outcome of the screening
  and for keys with and without an address.  Nothing happens once the requests have
  ended and the clock has stopped, so deadlock is not checked in this run; in
  `investigation_isolation` it is not either, because a single request ends.
* Codebase: a server's sync and one more, in the same process or in a command's; the server's
  takes scripts, screens with schema, the configuration or nothing, the other scripts only, so
  that they write the same and different files.  The installation changes once, from one
  script to three whose paths collide, with and without an id appended.  Every sync runs once
  and the installation stops changing, so deadlock is not checked.
* Diagnostics: six directories, in which chunks, carries, cut lines, a full limit, a full scan and
  too many files all occur on two or three files of a few lines; one write or rotation during the
  search, which is enough to move what is being read; the limits just below and above the
  bounds.  Networks are those with one layer down or slow and two with two layers, changing
  twice, so that the probe may meet another network than the failure and the call before it.
* SuperOffice: three attempts in six units of time with pauses of one to three, so that either
  attempts or time run out first; the server changes twice during a call of two requests; two
  calls on the extra tables, three schemas in a row of which one drops a table while another adds
  one with a name that is refused and a row without a name with a field without one, and two
  outages; the mirror is written by a sync, any number of times, until a call has read it, for it is
  read once.  Calls are interchangeable, and the run states no liveness.  A ticket with two actions and two commits, one
  of them dated back.
* Admission: sources on both sides of every limit, two commands, which is a dry run and its
  ingest or two ingests of one document, and one edit of the file between any two steps.  Texts
  of up to sixteen tokens with windows of three, sections of up to four and an overlap of one give
  joined paragraphs, split sections and one chunk too many.
* Every call of these three runs ends and nothing follows it, so deadlock is not checked there.
* Symmetry of keys and of requests is used where no liveness is checked.

### 3.2 Fairness

`Ingestion`: weak fairness of a started call's own progress (an event loop runs what is
runnable; the action includes failures' cleanup, but no failure is forced), strong
fairness of taking the advisory lock (PostgreSQL queues its waiters in order), weak
fairness of `Settle` (a backend notices that its client is gone).  Starting a call,
killing one and failing are never fair.

`Investigation`: weak fairness of collectors (every port has a timeout), of the
request's own continuation and of an operation that holds the lock; strong fairness of
taking the engine's lock, because `asyncio.Lock` wakes its waiters first-come
first-served.  Cancellation is never fair.

`CodebaseSync`: weak fairness of a sync's own work, failures included: the HTTP client and the
database connection have timeouts (`create_mssql_sync_engine`), and another sync of the process
gives the event loop back after a section.  Starting, cancelling, killing, searching and the
installation's change are never fair.

`Diagnostics`: weak fairness of the readers' steps, failures included: they read local files and
wait for nobody.  The clock running out and the writers are never fair, so a search ends by
its own bounds.

The HTTP client, the SuperOffice tools and admission state no liveness: that an attempt comes back
rests on the transport's timeouts, and a command on the embedding model and the database.
The rate limiter and the gateway state no liveness either: a limiter call is one step, and that a
dispatch ends rests on the transport's timeouts, which are not part of this repository.

## 4. Proofs

Proved by TLAPS for every value of the constants allowed by the named assumptions.  Type invariants
and inductive invariants are theorems, which TLC checked on the runs' instances before they were
proved; they are not run any more.

### 4.1 Assumptions

Each is named in the module that declares the constants it is about, and TLC evaluates it for the
values of the runs.

| Assumption | What it says, and why it is so |
|---|---|
| `ConstantsAssumption` | sentinels are distinct, each payload has one hash |
| `EngineAssumption` | ceilings are between 1 and 25, as `InvestigationPlan` demands |
| `ServiceAssumption`, `EvidenceAssumption` | backends answer with sequences of items; a request is a client of the engine; what the sources deliver without a repeated identifier is a set of evidence a step can list |
| `LimiterAssumption` | `RateLimitPolicy` takes positive numbers |
| `GatewayAssumption` | the policy file passed its schema; keys cover the calls |
| `SyncAssumption` | selections are of the four sections, records have the fields of the DTOs |
| `LogAssumption` | bounds and window are numbers, those the settings declare positive are |
| `DirectoryAssumption` | the directories are as their writers keep them (section 2.6) |
| `DatabaseAssumption`, `HttpAssumption` | bounds are positive numbers, conditions are known ones |
| `TableAssumption`, `QueryAssumption` | there is a schema; limits are numbers |
| `ActionAssumption` | keys of the database: an id names one action, a change names the action it belongs to |
| `ChunkAssumption` | what the chunker's constructor checks |
| `AdmissionAssumption`, `SetupAssumption` | a source has the fields it is described by, limits are numbers; a failed setup is not a verdict on a text |

### 4.2 Theorems

| Theorem | What it says |
|---|---|
| `TypeCorrect`, `PublicationCorrect` (ingestion) | the ingestion's types and its inductive invariant |
| `AnswersTruthful` | an answer given to a caller is backed by what was committed |
| `ImplementsStore` | the database as others read it implements `KnowledgeStore` |
| `ArtifactsBacked` | every committed row has its intact artifact, if no content is given to two writers and no commit is left in doubt |
| `LeftoversKnown` | the inductive invariant of what a call leaves behind |
| `StagingCleaned`, `ArtifactsExplained` | no staged file is left, and no artifact without a row, unless a kill or a failed cleanup explains it |
| `EngineCorrect`, `PlansAreSound`, `NoLostStep` | the plan engine's invariant, sound plans, no step erased that was answered for |
| `ImplementsPlanBook`, `EndedPlansFrozen` | the engine implements `PlanBook`; ended plans stay as they are |
| `ServiceInvariant`, `ServiceUsesEngine` | the inductive invariant of a request; a run of the service is one of the engine |
| `ReportsAreGrounded` | a report holds exactly what the successful sources delivered, and the plan's step lists the same |
| `FailuresAreExplained` | why a request may fail at all |
| `LimitsAreKept` | no window holds more calls than its limit, for both windows |
| `ForgettingIsHarmless` | the limiter implements `Throttle` |
| `GatewayUsesLimiter`, `GatewayKeepsLimits` | a run of the gateway is a run of the limiter, so that what is proved of the latter holds in it |
| `GatewayTypes`, `OnlyAuthorizedRun`, `TrailIsTruthful` | types, deny by default, audit trail |
| `WindowIsAccounted` | the calls counted against a key are those the limiter let pass, one each |
| `IdentitiesAreKeptApart` | a client per dispatch keeps identities apart |
| `SyncInvariant`, `TypeCorrect` (codebase) | the synchroniser's invariant and types |
| `Backed`, `Truthful` | manifest and search cache name only files that exist; the manifest is that of a sync that had written all it lists, with true hashes but for F8 |
| `DryRunsWriteNothing` | a dry run changes nothing on disk, from the step that starts it on |
| `LogInvariant`, `DbInvariant`, `ServerInvariant`, `DbTypeCorrect` | the inductive invariants of the log search and of the database tools, alone and together |
| `SearchesKeepTheirBounds` | a search keeps its types, its limit and the byte bounds of both readers |
| `NoRequestIsMissed` | a request that stood in the logs and is not in the answer is not newer than anything in it, and the answer says that it is truncated |
| `NoFragmentIsReported` | a request is reported from a line that was read to its end, or that is too long |
| `CompleteIsComplete` | an answer that does not say it is truncated holds everything, but for the exceptions the property names |
| `SteadyFaultsAreNamed`, `NobodyIsBlamedInnocently` | what a diagnosis says of a network that stays as it is, and of one that changes |
| `RecordsAreCoherent` | a ticket record is of one state of the ticket; a bounded answer that claims to be complete is |
| `HttpInvariant`, `HttpImplementsDelivery`, `ServerDelivers` | the client's inductive invariant; `send` implements `Delivery`, alone and as part of the server |
| `FaultsAreGrounded` | a ticket tool reports only conditions the service was in during the call |
| `CataloguesAreTraceable`, `EmptyListsAreTrue` | what is read from the database was registered, what a mirror stands in with are rows and fields of the installation, and no statement names anything else or a name that is refused; an empty list of tables is a true one |
| `AnswersAreWhole` | an audit trail is the oldest actions of one state of the ticket, with all their changes |
| `ChunkingCovers` | the chunks of every text cover it, within the chunker's limits |
| `CorpusVetted` | what is admitted is clean and what is stored was admitted |
| `DryRunsForetell` | a dry run foretells the ingest of the same bytes |
| `ExitCodesTruthful` | an exit code says no more about the store than is so, but for F9 |

### 4.3 Arguments

* *Publications.*  `PublicationInv` adds to the types: the advisory lock is held exactly by
  the writer inside its transaction, or by the server while a commit is in doubt; a buffer
  was started from the published entry and holds exactly the writes up to its `pc`; the log
  of hashes has the length of the published version.  Then `Commit` and `Settle` are `Publish` steps of
  `KnowledgeStore`, and every other step leaves the store alone.
* *Artifacts.*  `ArtifactInv` adds that a writer past promotion has its content intact, and
  that a writer about to remove is not looking at the published hash.  The second part is
  false in general, which is F1; it needs `ExclusiveContent`.  The first assumption
  alone is not enough either: an in-doubt commit may settle after the reference check.
* *Leftovers.*  `LocalInv` says at every control point of a writer whether its flags `staged` and
  `promoted` are true of the files; `LeftoverInv`, that an approved artifact is of a faulted
  content, of one in the log, or held by a writer that has promoted it and not yet ended.  The
  removal is what makes it inductive: it may take an artifact away from others, and never adds one.
* *Plans.*  `EngineInv`: whoever has read holds the lock, so that the copy it has is still the
  stored plan when it saves.  The copy may also be of no plan at all, because `create_plan`
  takes no lock and may write between the read and the check; such an operation raises.
  With that, a save is the operation of `PlanBook` applied to the present plan.
* *Investigations.*  `ServiceInv` is the engine's invariant with `RequestInv` for each request:
  what its stage implies for its outcomes, its report and the operation it has asked the engine for.
  A report is consistent because aggregation refuses repeated identifiers, so that the flattened
  evidence has as many places as identifiers, and because the timeline only reorders it: an item's
  place is its rank in a stable order, ranks of different items differ, and that they are all of the
  places is the pigeonhole principle (`FS_Injection`).  The step that was saved for the request
  lists the evidence of the request because it is the one its call asked for, and stays by
  `AnswersStand`, whatever operators do.  A request fails in two ways only: aggregation
  refused, which means two items with one identifier; or the engine raised, which, a plan never being
  lost, means that the plan has ended or is used up.
* *Limiter.*  `KeepsWindow`: the deque is a suffix of the history, and what was dropped has
  left the window.  Both counts are then the same on either, if the burst window is not longer than
  the main one; where it is, bursts are counted over the main window, and
  `Throttle!ShorterWindow` says so.  That no window overflows follows from the distance between a call and the one
  `Limit` places before it (`Spread`), which only an admitted call can shorten.
* *Gateway.*  `PipelineInv` says of each request on its own what its `pc` implies for its
  reply, its dispatch and its trail; it is preserved request by request.  `IdentityInv` says
  that while a request is under way its client's headers are its own, which holds because
  no other request uses that client.  `SlotInv` counts: the requests of a key that have passed the
  limiter are as many as the calls it admitted for that key, and one step moves both by one.
* *Codebase.*  `Control` says what a sync holds at each stage: no dry run ever has files to
  write.  `Mirror` says of every sync, ended or not, that its entries are of files that exist,
  and in full where it alone has written and does not have the path open again; a second file
  under the same path makes the older entry no longer the last of its path, unless it is not
  listed, and such files have paths of their own.  The manifest is the list of a sync that was
  answering when it was put there (`Published`), and a sync that answers no longer opens a file.
* *Log search.*  `LogInv` has four parts, each of which rests on the ones before.  `LogShape`: which
  reader runs, and that the queue holds the files still to be read, newest first.  `ScanInv`: the
  end of the carry is *sound*, which means that every line that starts below it also ends below it,
  or is too long, or is the fragment the reader has marked as torn; then whatever is recorded is
  whole.  `GapInv`: a request that is not among the records lies below
  the position, or in a file that is queued or left out, and is then older than every record, by
  `InOrder`; a reader that stops early says so.  `WarnGapInv`: a warning that is not among the
  records is in a file that still waits in the queue, or an exception of the property holds.  The
  merge keeps the newest of both, and a limit that is not reached takes every match.
* *Diagnosis.*  Every control point of `get_database_health` remembers what the history must
  contain for the fault it carries: a fault of authentication, a login that was refused; a fault
  that reached the probes, a layer on the path that was not well.  For a network that does not
  change, the history is that one network, and the probes then repeat the order of the path.
* *Delivery.*  `last` of the abstract client is "open" in flight and the outcome of the attempt
  otherwise.  The invariant says what `send` knows at each point: the attempts that are left, that a
  pause was begun only if it would end before the budget, and that an outcome stands once
  an attempt has been judged.
* *SuperOffice tools.*  The conditions of the server during a call (`seen`) only grow, and an
  attempt takes the present one; the mapping of errors is then followed case by case.
  `TablesInv`: every catalogue that is cached, or that a call is about to use, is one of two kinds
  (`Traceable`).  Either each table has the columns of some version, or none because it was dropped
  between the two statements that read it; or it is what the mirror's file holds, which is
  what some sync may have exported (`Exported`).  It has no tables only if a version had none, or if
  it is what a failing mirror comes to, which is kept but never answered as a list.  `QueriesInv`: trails only grow, so that what a second statement
  reads still has all the first one read, and a key decides which change belongs to which action.
* *Chunks.*  The sections tile the text up to the part at hand (`Tiles`); the chunks made so far
  reach a position inside the present section (`Position`), and each begins no later than the one
  before it ended.  Neither the parser's layout nor the sizes matter.
* *Corpus.*  While a command holds a document, its source and input are in `vetted` and the
  document is theirs; the file itself is never read again, which is why edits are harmless.
* *Predictions.*  That a dry run foretells its ingest is a statement about two runs of the chunker.
  Each of its steps is a function `After` of its state, so that all states reached from one start
  lie on one line: of two of them one is reached from the other.  "Reached from" is the intersection
  of the sets that are closed under `After`, which needs no induction.  An ended state has no
  successor, hence the outcome of a text is unique.
* *Exit codes.*  Up to `Persist` the store is that of the beginning; after it, the reason tells
  which of the two it is, or that it is open, and `CloseContext` only ever weakens it.  What is then
  printed is the document that was handed over (`Telling`), so that where `PrintOutcome` turns a success
  into a VALIDATION_ERROR that document is the one that is stored, and its reference one of `Unprintable`.

Some lemmas speak of all numbers: ranks in a timeline, the flattening of sequences, what the
parser's recursive function does with a stream of lines.  The induction theorems of the library take
an operator as a parameter, which the installed provers cannot instantiate; these lemmas argue
from the least number of a set instead, which exists because the subsets of a finite set are
well-founded.

Only model-checked: liveness (`CallsEnd`, `RequestsEnd`, `SyncsEnd`, `SearchEnds`), since the
prover does not reason about `ENABLED`, on which fairness rests.

## 5. Not modelled

* Text processing: the patterns of the scans, the parsers, normalisation, what a token is,
  embedding.  A source carries what they come to; in `Ingestion` they are one step that may fail.
* The contents of evidence beyond identity, time, references and support; the wording and
  layout of answers.
* A store whose save can be cancelled half way; a clock that steps back; a policy file that
  fails its schema (the gateway does not start).
* Of the mirrored codebase: how names are sanitized and secrets scanned for, the entries a dry
  run reports, the matching of lines, and `get_codebase_file` and `get_screen_details`, which
  read files as they are.
* A structured record that changes without its text: the ingestion's fast path keeps it out
  (it compares the hash of the text), and the model's payload has one hash for both.
* Transports, connection pools, databases and the MCP library are external: they appear as
  the outcomes the code distinguishes.
* Settings, schemas, prompts, logging, the GUI, the infrastructure stub and `index.ts` have no
  behaviour of their own.
* Of the diagnostics: field formats, time zones and filters besides the text; of SuperOffice's
  tools: what is masked or minimised, the engine of the extra-table factory failing, and how
  pages are requested.
* Retrieval from the knowledge base and the Investigation and Infrastructure MCP servers are single
  calls without state; the probes of the preflight run side by side and share none.

Known hazards without a property, at their lines:

* the fast path compares only the hash of the text (`orchestrator.py:176`), so a structured
  record whose other fields changed is UNCHANGED;
* a plan stays INITIALIZED when aggregation raises (`platform_investigation_service/service.py:151`);
* the knowledge adapter accepts a list only (`knowledge_mcp_adapter.py:172`), and an MCP server may
  wrap a list into an object;
* `time.time()` may be set back (`rate_limiting.py:88`), and a key once seen stays in `_history`
  (`rate_limiting.py:93`);
* `call_tool` waits without a timeout of its own (`http_dispatcher.py:197`), and `dispatch` catches
  a `KeyError` its registry never raises (`http_dispatcher.py:142`);
* a failed query of the extractor is answered with an empty list (`mssql_extractor.py:303`), which the
  sync then mirrors; a mirror without fields, or with made-up names, stands in for the database
  for good once the database has failed (`extra_tables/repository.py:103`), and may overwrite what
  another call has just read from it (`:105`);
* a ticket of another shape without an identifier raises a `ValidationError` that no layer gives an
  error code (`adapters/mappers.py:33`, `contracts/dtos.py:89`);
* the audit trail keeps the oldest actions and does not say that newer ones were cut
  (`audit/repository.py:109`), and a factory that cannot create its engine serves a repository
  made for tests (`audit/factory.py:49`).  Both are in the model (`Oldest`, "FAKE").

## 6. Plan

Done in the order the models depend on each other: ingestion, investigation, gateway with rate
limiter, codebase, diagnostics, the SuperOffice server, admission; then the proofs, until every
invariant and every action property of the passing runs was a theorem.  What would add most:

1. An abstract mirror that `CodebaseSync` implements, and the readers of the mirrored tree.
2. An abstract search (all matches of a window, newest first, up to a limit) that `LogSearch`
   implements where nothing is written meanwhile.
3. The gateway's start-up inventory and the closing of its pool.
