------------------------------ MODULE Admission ------------------------------
(***************************************************************************)
(* The way of a source into the knowledge base: the command line (dry-run  *)
(* and ingest), the admission boundary with its scan for secrets and       *)
(* personal data, the canonical document and its chunks.  The coordinator  *)
(* that an ingest hands the document to is reduced to its outcomes; the    *)
(* module Ingestion is its model.                                          *)
(*                                                                         *)
(* What a file holds is a record: its size, what it parses as, what the    *)
(* scan finds in each of its fields, the reference it declares, and the    *)
(* canonical text it comes to once it is redacted, read as a plain         *)
(* document or as a structured record: [text, length, layout].             *)
(***************************************************************************)
EXTENDS Chunking

CONSTANTS Sources,       \* what a file may hold
          Commands,      \* [verb, ext, type, ref, given]; `given` is the input of a direct caller
          Setups,        \* what composing the pipeline may come to
          Unprintable,   \* references with a character that some encoding of stdout lacks
          MaxSourceBytes, MinSourceBytes, MaxCanonicalBytes, MaxPii,
          MaxCommands,   \* bound: commands one after the other
          MaxEdits       \* bound: edits of the file

VARIABLES file, edits,  \* NoFile when it is not there
          command, commands, cmdpc,
          input,         \* AdmissionSourceInputDTO, without the bytes
          source,        \* the bytes that were read
          document,      \* the canonical document
          store,         \* per document id: the text and the number of chunks committed
          reason,        \* why the command ends
          answer,        \* what it prints
          before,        \* history: the store when the command began
          vetted,        \* history: the sources admitted and the inputs they came with
          predictions    \* history: what dry runs came to, with source and input

cmdVars == <<file, edits, command, commands, cmdpc, input, source, document, store, reason, answer,
             before, vetted, predictions>>
admissionVars == <<cmdVars, chunkVars>>

NoFile == [bytes |-> 0, form |-> "absent"]
NoRef == [scheme |-> "none", path |-> "", fault |-> "none"]
NoInput == [kind |-> "none", category |-> "none", ref |-> NoRef, label |-> "none", name |-> "plain"]
NoDocument == [id |-> <<>>]
NoAnswer == [id |-> <<>>]

Documents == {"markdown_document", "text_document"}
Structured == {"runbook", "known_issue"}   \* the kinds runbook_json and known_issue_json

ASSUME AdmissionAssumption ==
    /\ MaxSourceBytes \in Nat /\ MinSourceBytes \in Nat \ {0} /\ MaxCanonicalBytes \in Nat \ {0}
    /\ MaxPii \in Nat /\ MaxCommands \in Nat /\ MaxEdits \in Nat
    /\ \A src \in Sources :
          /\ src.bytes \in Nat
          /\ src.fields \in Seq([identity : BOOLEAN, secret : BOOLEAN, pii : Nat])
          /\ \A c \in {src.plain, src.record} : c.length \in Nat /\ c.layout \in Texts
    /\ "OK" \notin Setups
-----------------------------------------------------------------------------
Check(fails, why) == [fails |-> fails, why |-> why]

\* validate_provenance, and the weaker test of the parsers.
Located(ref, category) ==
    ref.scheme = category /\ ref.path # "" /\ ref.fault = "none"
Plausible(ref, kind) == ref.scheme = kind /\ ref.fault # "unsafe"

Eligibility(src, in) ==
    <<Check(in.label = "attachment", "CUSTOMER_ATTACHMENT_DETECTED"),
      Check(in.label = "live_crm", "PROHIBITED_SOURCE_CLASSIFICATION"),
      Check(in.name = "path", "INVALID_SOURCE_NAME"),
      Check(IF in.kind \in Structured THEN in.category # in.kind ELSE in.category \in Structured,
            "CATEGORY_MISMATCH"),
      Check(src.bytes > MaxSourceBytes, "SIZE_LIMIT_EXCEEDED"),
      Check(src.bytes < MinSourceBytes, "SOURCE_TOO_SHORT")>>

Parses(src, kind) ==
    IF kind \in Structured THEN src.form = kind /\ Plausible(src.ref, kind)
    ELSE src.form \notin {"garbled", "blank"}

Canonical(src, in) == IF in.kind \in Structured THEN src.record ELSE src.plain

\* Personal data found in all fields from the first to the n-th.
Findings(src) ==
    LET upto[n \in 0..Len(src.fields)] ==
            IF n = 0 THEN 0 ELSE upto[n - 1] + src.fields[n].pii
    IN  upto[Len(src.fields)]

\* A document is scanned as one text, a structured record field by field, its identity first.
Scanned(src, kind) ==
    IF kind \in Structured THEN src.fields
    ELSE <<[identity |-> FALSE, secret |-> \E i \in DOMAIN src.fields : src.fields[i].secret,
            pii |-> Findings(src)]>>

Refused(field) == field.secret \/ (IF field.identity THEN field.pii > 0 ELSE field.pii > MaxPii)

\* Bug: an optional field that comes last, such as the workaround, is not scanned.
ScanRequired(src, in) ==
    LET fields == Scanned(src, in.kind)
    IN  [i \in 1..(IF in.kind \in Structured THEN Len(fields) - 1 ELSE Len(fields)) |->
            Check(Refused(fields[i]),
                  IF fields[i].secret THEN "SECRET_DETECTED" ELSE "PII_DETECTED")]

Scan(src, in) ==
    LET fields == Scanned(src, in.kind)
    IN  [i \in DOMAIN fields |->
            Check(Refused(fields[i]),
                  IF fields[i].secret THEN "SECRET_DETECTED" ELSE "PII_DETECTED")]

Bounds(src, in) ==
    <<Check(Findings(src) > MaxPii, "PII_DETECTED"),
      Check(Canonical(src, in).length = 0, "EMPTY_CONTENT"),
      Check(Canonical(src, in).length > MaxCanonicalBytes, "SIZE_LIMIT_EXCEEDED"),
      Check(in.kind \in Documents /\ in.ref # NoRef /\ ~Located(in.ref, in.category),
            "INVALID_PROVENANCE")>>

\* admit: the checks in their order; the first that fails gives the reason.
Checks(src, in) ==
    Eligibility(src, in) \o <<Check(~Parses(src, in.kind), "FORMAT_ERROR")>>
    \o Scan(src, in) \o Bounds(src, in)

\* What the checks find wrong with a source.
ContentReasons ==
    {"CUSTOMER_ATTACHMENT_DETECTED", "PROHIBITED_SOURCE_CLASSIFICATION", "INVALID_SOURCE_NAME",
     "CATEGORY_MISMATCH", "SIZE_LIMIT_EXCEEDED", "SOURCE_TOO_SHORT", "FORMAT_ERROR",
     "SECRET_DETECTED", "PII_DETECTED", "EMPTY_CONTENT", "INVALID_PROVENANCE"}

\* Settings, engine and model complain of themselves, not of the content.
ASSUME SetupAssumption == Setups \cap (ContentReasons \cup {"CHUNKING_FAILED"}) = {}

Admitted(src, in) == \A i \in DOMAIN Checks(src, in) : ~Checks(src, in)[i].fails
-----------------------------------------------------------------------------
\* Bug: of the two commands, ingest does not pass the validated reference on.
ReferenceOfDryRun(src, in) ==
    IF in.kind \in Structured THEN src.ref
    ELSE IF in.ref = NoRef \/ command.verb = "ingest"
    THEN [scheme |-> in.category, path |-> "name", fault |-> "none"]
    ELSE in.ref

\* The reference that is validated or derived; a structured record brings its own.
Reference(src, in) ==
    IF in.kind \in Structured THEN src.ref
    ELSE IF in.ref = NoRef THEN [scheme |-> in.category, path |-> "name", fault |-> "none"]
    ELSE in.ref

\* _map_exception_to_exit_code.  Settings that do not validate raise a ValueError, as does an input
\* that is refused.
ConfigErrors == {"DATABASE_NOT_CONFIGURED", "ARTIFACT_ROOT_NOT_CONFIGURED", "INVALID_DATABASE_URL"}
\* Bug: whatever the coordinator raises passes for a runtime that is not there.
WiderRuntimeErrors == {"MODEL_UNAVAILABLE", "EMBEDDING_FAILED", "PERSISTENCE_FAILED"}
RuntimeErrors == {"MODEL_UNAVAILABLE", "EMBEDDING_FAILED"}
OpenErrors == {"ARTIFACT_ROOT_REFUSED", "ENGINE_FAILED", "OS_ERROR", "ARTIFACT_FAILED",
               "PERSISTENCE_FAILED", "CLOSE_FAILED"}
ExitCode(why) ==
    IF why \in {"OK", "INTERRUPTED"} THEN why
    ELSE IF why \in ConfigErrors THEN "CONFIG_ERROR"
    ELSE IF why \in RuntimeErrors THEN "RUNTIME_UNAVAILABLE"
    ELSE IF why \in OpenErrors THEN "PERSISTENCE_ERROR"
    ELSE "VALIDATION_ERROR"

AdmissionInit ==
    /\ ChunkInit
    /\ file \in Sources \cup {NoFile} /\ edits = 0
    /\ command = [verb |-> "none"] /\ commands = 0 /\ cmdpc = "idle"
    /\ input = NoInput /\ source = NoFile /\ document = NoDocument
    /\ store = [id \in {} |-> 0]
    /\ reason = "none" /\ answer = NoAnswer
    /\ before = store /\ vetted = {} /\ predictions = {}

End(why) == cmdpc' = "idle" /\ reason' = why

\* _route_source.
Routed(c) ==
    IF c.ext \notin {"md", "txt", "json"} THEN NoInput
    ELSE IF c.ext = "json"
    THEN IF c.type \in Structured /\ c.ref = NoRef
         THEN [NoInput EXCEPT !.kind = c.type, !.category = c.type]
         ELSE NoInput
    ELSE IF c.type \in Structured \/ c.ref = NoRef THEN NoInput
    ELSE [NoInput EXCEPT !.kind = IF c.ext = "txt" THEN "text_document" ELSE "markdown_document",
                         !.category = c.type, !.ref = c.ref]

\* A command begins; a direct caller of admit_or_raise brings input and bytes.
Invoke(c) ==
    /\ cmdpc = "idle" /\ commands < MaxCommands
    /\ commands' = commands + 1 /\ command' = c
    /\ before' = store /\ answer' = NoAnswer /\ document' = NoDocument
    /\ IF c.verb = "admit"
       THEN /\ file # NoFile /\ source' = file /\ input' = c.given
            /\ cmdpc' = "admit" /\ reason' = "none"
       ELSE /\ source' = NoFile /\ input' = Routed(c)
            /\ IF Routed(c) = NoInput THEN End("BAD_ARGUMENTS")
               ELSE cmdpc' = "stat" /\ reason' = "none"
    /\ UNCHANGED <<file, edits, store, vetted, predictions, chunkVars>>

StatFile ==
    /\ cmdpc = "stat"
    /\ IF file = NoFile THEN End("BAD_ARGUMENTS")
       ELSE IF file.bytes > MaxSourceBytes THEN End("SIZE_LIMIT_EXCEEDED")
       ELSE cmdpc' = "read" /\ UNCHANGED reason
    /\ UNCHANGED <<file, edits, command, commands, input, source, document, store, answer, before,
                   vetted, predictions, chunkVars>>

\* The file may be another one by now; no more than one byte too many is read of it.
ReadFile ==
    /\ cmdpc = "read"
    /\ IF file = NoFile THEN End("OS_ERROR") /\ UNCHANGED source
       ELSE IF file.bytes > MaxSourceBytes THEN End("SIZE_LIMIT_EXCEEDED") /\ UNCHANGED source
       ELSE /\ source' = file /\ UNCHANGED reason
            /\ cmdpc' = IF command.verb = "ingest" THEN "compose" ELSE "admit"
    /\ UNCHANGED <<file, edits, command, commands, input, document, store, answer, before, vetted,
                   predictions, chunkVars>>

\* Settings, artifact root, engine and model, before the `try` that closes the engine again.
Compose ==
    /\ cmdpc = "compose"
    /\ \E setup \in Setups :
          IF setup = "ok" THEN cmdpc' = "admit" /\ UNCHANGED reason ELSE End(setup)
    /\ UNCHANGED <<file, edits, command, commands, input, source, document, store, answer, before,
                   vetted, predictions, chunkVars>>

\* What an ingest does before it ends: its engine is disposed of.
Leave(why) ==
    IF command.verb = "ingest" THEN cmdpc' = "close" /\ reason' = why ELSE End(why)

\* admit_or_raise, then build_canonical_document.
Admit ==
    /\ cmdpc = "admit"
    /\ \/ /\ \E i \in DOMAIN Checks(source, input) :
                /\ Checks(source, input)[i].fails
                /\ \A j \in 1..(i - 1) : ~Checks(source, input)[j].fails
                /\ Leave(Checks(source, input)[i].why)
          /\ UNCHANGED <<document, vetted>>
       \/ /\ Admitted(source, input)
          /\ vetted' = vetted \cup {[source |-> source, input |-> input]}
          /\ IF command.verb = "admit" THEN End("OK") /\ UNCHANGED document
             ELSE IF ~Located(Reference(source, input), input.category)
             THEN Leave("INVALID_PROVENANCE") /\ UNCHANGED document
             ELSE /\ document' = [id |-> <<Reference(source, input), input.category>>,
                                  text |-> Canonical(source, input).text]
                  /\ cmdpc' = IF command.verb = "ingest" THEN "precheck" ELSE "chunk"
                  /\ UNCHANGED reason
    /\ UNCHANGED <<file, edits, command, commands, input, source, store, answer, before,
                   predictions, chunkVars>>

Stored(id, content) == id \in DOMAIN store /\ store[id].text = content

\* The coordinator's fast path.
Precheck ==
    /\ cmdpc = "precheck"
    /\ \/ Leave("PERSISTENCE_FAILED") /\ UNCHANGED answer
       \/ /\ Stored(document.id, document.text)
          /\ answer' = [id |-> document.id, text |-> document.text, chunks |-> 0]
          /\ Leave("OK")
       \/ /\ ~Stored(document.id, document.text)
          /\ cmdpc' = "chunk" /\ UNCHANGED <<reason, answer>>
    /\ UNCHANGED <<file, edits, command, commands, input, source, document, store, before, vetted,
                   predictions, chunkVars>>

StartChunker ==
    /\ cmdpc = "chunk"
    /\ Chunk(Canonical(source, input).layout)
    /\ cmdpc' = "chunking"
    /\ UNCHANGED <<file, edits, command, commands, input, source, document, store, reason, answer,
                   before, vetted, predictions>>

RunChunker == cmdpc = "chunking" /\ ChunkStep /\ UNCHANGED cmdVars

Summary == [id |-> document.id, text |-> document.text, chunks |-> Len(chunks)]

EndChunker ==
    /\ cmdpc = "chunking" /\ chunkpc \in {"done", "failed"}
    /\ IF chunkpc = "failed"
       THEN Leave("CHUNKING_FAILED") /\ UNCHANGED <<answer, predictions>>
       ELSE IF command.verb = "ingest"
       THEN cmdpc' = "embed" /\ UNCHANGED <<reason, answer, predictions>>
       ELSE /\ answer' = Summary
            /\ predictions' = predictions \cup {[source |-> source, input |-> input,
                                                 answer |-> Summary]}
            /\ cmdpc' = "print" /\ UNCHANGED reason
    /\ UNCHANGED <<file, edits, command, commands, input, source, document, store, before, vetted,
                   chunkVars>>

Embed ==
    /\ cmdpc = "embed"
    /\ \/ cmdpc' = "persist" /\ UNCHANGED reason
       \/ Leave("EMBEDDING_FAILED")
    /\ UNCHANGED <<file, edits, command, commands, input, source, document, store, answer, before,
                   vetted, predictions, chunkVars>>

Save ==
    store' = [id \in DOMAIN store \cup {document.id} |->
                 IF id = document.id THEN [text |-> document.text, chunks |-> Len(chunks)]
                 ELSE store[id]]

\* Staging, promotion and the transaction: it fails without a trace, commits, or commits while the
\* command is told that it failed or is interrupted.
Persist ==
    /\ cmdpc = "persist"
    /\ \/ Leave("ARTIFACT_FAILED") /\ UNCHANGED <<store, answer>>
       \/ Leave("PERSISTENCE_FAILED") /\ UNCHANGED answer /\ (Save \/ UNCHANGED store)
       \/ Leave("OK") /\ Save /\ answer' = Summary
       \/ End("INTERRUPTED") /\ Save /\ UNCHANGED answer
    /\ UNCHANGED <<file, edits, command, commands, input, source, document, before, vetted,
                   predictions, chunkVars>>

\* context.close() in `finally`; what it raises takes the place of what came before.
CloseContext ==
    /\ cmdpc = "close"
    /\ \/ reason = "OK" /\ cmdpc' = "print" /\ UNCHANGED <<reason, answer>>
       \/ reason # "OK" /\ End(reason) /\ UNCHANGED answer
       \/ End("CLOSE_FAILED") /\ answer' = NoAnswer
    /\ UNCHANGED <<file, edits, command, commands, input, source, document, store, before, vetted,
                   predictions, chunkVars>>

\* The answer is printed inside the `try`, after an ingest has committed: what print raises takes the
\* place of success, a UnicodeEncodeError as the ValueError that it is.
PrintOutcome ==
    /\ cmdpc = "print"
    /\ \/ End("OK") /\ UNCHANGED answer
       \/ answer.id[1] \in Unprintable /\ End("UNPRINTABLE") /\ answer' = NoAnswer
       \/ End("OS_ERROR") /\ answer' = NoAnswer
    /\ UNCHANGED <<file, edits, command, commands, input, source, document, store, before, vetted,
                   predictions, chunkVars>>

Interrupt ==
    /\ cmdpc # "idle" /\ End("INTERRUPTED")
    /\ answer' = NoAnswer
    /\ UNCHANGED <<file, edits, command, commands, input, source, document, store, before, vetted,
                   predictions, chunkVars>>

\* The file is written anew, removed or restored by someone.
EditFile ==
    /\ edits < MaxEdits /\ edits' = edits + 1
    /\ file' \in (Sources \cup {NoFile}) \ {file}
    /\ UNCHANGED <<command, commands, cmdpc, input, source, document, store, reason, answer, before,
                   vetted, predictions, chunkVars>>

AdmissionNext ==
    \/ \E c \in Commands : Invoke(c)
    \/ StatFile \/ ReadFile \/ Compose \/ Admit \/ Precheck
    \/ StartChunker \/ RunChunker \/ EndChunker
    \/ Embed \/ Persist \/ CloseContext \/ PrintOutcome
    \/ Interrupt \/ EditFile
AdmissionSpec == AdmissionInit /\ [][AdmissionNext]_admissionVars
-----------------------------------------------------------------------------
\* What the corpus may hold.
Clean(src, in) ==
    /\ in.label \notin {"attachment", "live_crm"}
    /\ src.bytes \in MinSourceBytes..MaxSourceBytes
    /\ Canonical(src, in).length \in 1..MaxCanonicalBytes
    /\ \A i \in DOMAIN src.fields : ~src.fields[i].secret
    /\ ~(Findings(src) > MaxPii)
    /\ in.kind \in Structured =>
          \A i \in DOMAIN src.fields : src.fields[i].identity => src.fields[i].pii = 0

\* Whatever becomes of the file between the checks and whatever fails on the way, every source that
\* was admitted was free of secrets in every field, optional ones included, with no personal data in
\* what identifies a record and no more than MaxPii redactions in all; and every committed document
\* comes from one, under a reference of its category, in at most MaxChunks chunks.
StoredIsVetted ==
    /\ \A v \in vetted : Clean(v.source, v.input)
    /\ \A id \in DOMAIN store :
          /\ \E v \in vetted : /\ Canonical(v.source, v.input).text = store[id].text
                               /\ id = <<Reference(v.source, v.input), v.input.category>>
          /\ Located(id[1], id[2])
          /\ store[id].chunks \in 1..MaxChunks

Refusals(src, in) ==
    {"INVALID_PROVENANCE", "CHUNKING_FAILED"}
    \cup {Checks(src, in)[i].why : i \in DOMAIN Checks(src, in)}

\* A dry run foretells what ingest does with the same bytes and arguments, whatever has happened to
\* the store in between: the content is not refused, and an answer names the same document with the
\* same content and number of chunks, or none when it was stored already.
DryRunPredicts ==
    \A p \in predictions :
        (cmdpc = "idle" /\ command.verb = "ingest" /\ p.source = source /\ p.input = input) =>
            /\ reason \notin Refusals(source, input)
            /\ reason = "OK" =>
                  /\ answer.id = p.answer.id /\ answer.text = p.answer.text
                  /\ answer.chunks \in {0, p.answer.chunks}

\* The document is stored under a reference that stdout may not be able to print, and the command
\* ended as if it had been refused.
StoredUnprinted ==
    /\ ExitCode(reason) = "VALIDATION_ERROR"
    /\ Stored(document.id, document.text) /\ document.id[1] \in Unprintable

\* What an operator may conclude from an exit code, through all failures and interruptions, of the
\* close and of the print that follow a commit too: after SUCCESS of an ingest the document is stored
\* as answered; every other command, and every other code but PERSISTENCE_ERROR, which leaves it
\* open, leaves the store as it was.  The one exception is a VALIDATION_ERROR over a reference that
\* stdout cannot print (cli.py:438): it may come after the commit.
ExitTruthful ==
    (cmdpc = "idle" /\ commands > 0) =>
        IF command.verb = "ingest"
        THEN /\ ExitCode(reason) = "OK" => Stored(answer.id, answer.text)
             /\ ExitCode(reason) \notin {"OK", "PERSISTENCE_ERROR", "INTERRUPTED"} =>
                   store = before \/ StoredUnprinted
        ELSE store = before
=============================================================================
