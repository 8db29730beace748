----------------------------- MODULE ExtraTables -----------------------------
(***************************************************************************)
(* The tools over SuperOffice's extra tables: a catalogue of registered    *)
(* tables and fields, read from the database or, when it fails, from the   *)
(* local mirror, kept for good, and used to check what a query may name.   *)
(* The calls of the server share the catalogue.                            *)
(*                                                                         *)
(* A schema maps the rows of extra_tables to their extra fields; the       *)
(* versions it passes through are a constant.  A row without a name, which *)
(* only a sync lists, goes by the one the sync makes up from its id.       *)
(***************************************************************************)
EXTENDS Integers, Sequences

CONSTANTS TableCalls,   \* concurrent calls
          Asked,        \* what a call may ask: [tool, table, columns, order]
          Schemas,      \* the schemas the database has one after the other
          Nameless,     \* the names y_table_<id> made up for rows of extra_tables without one
          Blank,        \* the name of a field without one
          Unnameable,   \* names that normalize_table_name or normalize_column_name refuses
          MaxOutages    \* bound: failures and recoveries of the database

VARIABLES version, dbUp, outages,
          mirror,       \* schema/extra_tables.json: the catalogue in it, Absent, Torn or Untyped
          fallback,     \* the file was there when the service was created
          cache, mirrorCache,
          asked, tablepc,
          listed,       \* per call, the tables its first statement returned
          schema,       \* per call, the catalogue it works with
          answers,
          statements    \* history: the statements on extra tables that reached the database

tableWorld == <<version, dbUp, outages, mirror>>
tableVars == <<tableWorld, fallback, cache, mirrorCache, asked, tablepc, listed, schema, answers,
               statements>>

NoCatalogue == [none |-> TRUE]
Absent == [absent |-> TRUE]
Torn == [torn |-> TRUE]
Untyped == [untyped |-> TRUE]          \* a field's type in it is null
NoFile == {Absent, Torn, Untyped}
Empty == [t \in {} |-> {}]
Standard == {"id", "updatedCount"}     \* SUPEROFFICE_STANDARD_COLUMNS, two of them

ASSUME TableAssumption ==
    /\ Schemas # <<>> /\ MaxOutages \in Nat /\ Blank \in Unnameable

Registered(v) == Schemas[v]
Rows(v) == DOMAIN Schemas[v]
TableNames(v) == Rows(v) \ Nameless
Past == 1..version

\* A field without a name is exported as null by the web client, which is read back as a name.
Spelt(fields) == {IF col = Blank THEN "none" ELSE col : col \in fields}

\* Tables as they were at one time with fields as they were then or later.
Joined(v, w) == [t \in Rows(v) |-> IF t \in Rows(w) THEN Registered(w)[t] ELSE {}]

\* What a sync may have fetched up to now, not necessarily last: both, also by the web client; the
\* tables, when the fields were refused; nothing, when the database did not answer.
Extracts ==
    LET pairs == {p \in Past \X Past : p[1] <= p[2]}
    IN  {Joined(p[1], p[2]) : p \in pairs}
        \cup {[t \in Rows(p[1]) |-> Spelt(Joined(p[1], p[2])[t])] : p \in pairs}
        \cup {[t \in Rows(v) |-> {}] : v \in Past}
        \cup {Empty}

TablesInit ==
    /\ version = 1 /\ dbUp \in BOOLEAN /\ outages = 0
    /\ mirror \in NoFile \cup Extracts
    /\ fallback = (mirror # Absent)
    /\ cache = NoCatalogue /\ mirrorCache = NoCatalogue
    /\ asked \in [TableCalls -> Asked]
    /\ tablepc = [c \in TableCalls |-> "start"]
    /\ listed = [c \in TableCalls |-> {}]
    /\ schema = [c \in TableCalls |-> NoCatalogue]
    /\ answers = [c \in TableCalls |-> [code |-> "none"]]
    /\ statements = {}
-----------------------------------------------------------------------------
\* normalize_column_name lower-cases; the standard columns are compared as they are written.
Lower(col) == IF col = "updatedCount" THEN "updatedcount" ELSE col
Allowed(sch, t) == Standard \cup sch[t]
Named(a, sch) ==
    (IF a.columns = {} THEN {"id"} \cup sch[a.table] ELSE a.columns) \cup {a.order}

\* Bug: the column to order by goes into the statement as it came.
UncheckedOrder(a, sch) ==
    \A col \in Named(a, sch) \ {a.order} :
        col \notin Unnameable /\ Lower(col) \in Allowed(sch, a.table)

ColumnsValid(a, sch) ==
    \A col \in Named(a, sch) : col \notin Unnameable /\ Lower(col) \in Allowed(sch, a.table)

Say(c, a) ==
    /\ answers' = [answers EXCEPT ![c] = a]
    /\ tablepc' = [tablepc EXCEPT ![c] = "answered"]
Error(c, code) == Say(c, [code |-> code]) /\ UNCHANGED schema

\* What a call does with the catalogue up to its next await.
Use(c, sch) ==
    LET a == asked[c]
    IN  /\ schema' = [schema EXCEPT ![c] = sch]
        /\ IF a.tool = "list_extra_tables" THEN Say(c, [code |-> "OK", tables |-> DOMAIN sch])
           ELSE IF a.table \in Unnameable \/ a.table \notin DOMAIN sch
                THEN Say(c, [code |-> "INVALID_TABLE"])
           ELSE IF a.tool = "get_extra_table_schema"
                THEN Say(c, [code |-> "OK", fields |-> sch[a.table]])
           ELSE IF ~ColumnsValid(a, sch) THEN Say(c, [code |-> "INVALID_COLUMN"])
           ELSE tablepc' = [tablepc EXCEPT ![c] = "query"] /\ UNCHANGED answers

\* A table whose name is refused fails the whole catalogue.
Keep(c, sch) ==
    IF DOMAIN sch \cap Unnameable # {}
    THEN Error(c, "INVALID_TABLE") /\ UNCHANGED cache
    ELSE cache' = sch /\ Use(c, sch)

StartTables(c) ==
    /\ tablepc[c] = "start"
    /\ IF cache # NoCatalogue THEN Use(c, cache)
       ELSE tablepc' = [tablepc EXCEPT ![c] = "tables"] /\ UNCHANGED <<schema, answers>>
    /\ UNCHANGED <<tableWorld, fallback, cache, mirrorCache, asked, listed, statements>>

ReadTables(c) ==
    /\ tablepc[c] = "tables" /\ dbUp
    /\ listed' = [listed EXCEPT ![c] = TableNames(version)]
    /\ tablepc' = [tablepc EXCEPT ![c] = "fields"]
    /\ UNCHANGED <<tableWorld, fallback, cache, mirrorCache, asked, schema, answers, statements>>

\* READ COMMITTED: the fields may be of a later version than the tables.
ReadFields(c) ==
    /\ tablepc[c] = "fields" /\ dbUp
    /\ Keep(c, [t \in listed[c] |-> IF t \in TableNames(version) THEN Registered(version)[t] ELSE {}])
    /\ UNCHANGED <<tableWorld, fallback, mirrorCache, asked, listed, statements>>

\* _load_schema_file, once: a file that cannot be read leaves an empty catalogue for good.
FileContent == IF mirror \in NoFile THEN Empty ELSE mirror
Mirrored == IF mirrorCache # NoCatalogue THEN mirrorCache ELSE FileContent

\* Bug: what the mirror holds is taken for the catalogue, whatever it is.
TakesEmpty(sch) == TRUE
WorthServing(sch) == sch # Empty

CatalogueFails(c) ==
    /\ tablepc[c] \in {"tables", "fields"} /\ ~dbUp
    /\ IF ~fallback
       THEN Error(c, "QUERY_FAILED") /\ UNCHANGED <<cache, mirrorCache>>
       ELSE IF mirrorCache = NoCatalogue /\ mirror = Untyped
            THEN Error(c, "UNMAPPED") /\ UNCHANGED <<cache, mirrorCache>>
       ELSE IF DOMAIN Mirrored \cap Unnameable # {}
            THEN Error(c, "INVALID_TABLE") /\ UNCHANGED <<cache, mirrorCache>>
       ELSE /\ mirrorCache' = Mirrored
            /\ IF WorthServing(Mirrored) THEN cache' = Mirrored /\ Use(c, Mirrored)
               ELSE Error(c, "QUERY_FAILED") /\ UNCHANGED cache
    /\ UNCHANGED <<tableWorld, fallback, asked, listed, statements>>

\* query_table on whatever the schema of the database is by now.
RunQuery(c) ==
    /\ tablepc[c] = "query"
    /\ LET a == asked[c]
           named == Named(a, schema[c])
       IN  IF ~dbUp
           THEN Error(c, "QUERY_FAILED") /\ UNCHANGED statements
           ELSE /\ statements' = statements \cup {[table |-> a.table, columns |-> named]}
                /\ IF a.table \in TableNames(version)
                      /\ named \subseteq Standard \cup Registered(version)[a.table]
                   THEN Say(c, [code |-> "OK", rows |-> named]) /\ UNCHANGED schema
                   ELSE Error(c, "QUERY_FAILED")
    /\ UNCHANGED <<tableWorld, fallback, cache, mirrorCache, asked, listed>>
-----------------------------------------------------------------------------
\* Somebody registers or removes tables and fields; the database fails or is back; a sync writes
\* the mirror, is at it, or was killed while it was.  What it writes after the file was read, or
\* when there was none at first, no call sees: such writes are left out.
SchemaChanges ==
    /\ version < Len(Schemas) /\ version' = version + 1
    /\ UNCHANGED <<dbUp, outages, mirror>>
Outage ==
    /\ outages < MaxOutages /\ outages' = outages + 1
    /\ dbUp' = ~dbUp
    /\ UNCHANGED <<version, mirror>>
MirrorSynced ==
    /\ fallback /\ mirrorCache = NoCatalogue
    /\ mirror' \in (Extracts \cup {Torn, Untyped}) \ {mirror}
    /\ UNCHANGED <<version, dbUp, outages>>

TableStep ==
    \E c \in TableCalls : StartTables(c) \/ ReadTables(c) \/ ReadFields(c) \/ CatalogueFails(c)
                          \/ RunQuery(c)
TableWorldStep ==
    /\ SchemaChanges \/ Outage \/ MirrorSynced
    /\ \E c \in TableCalls : tablepc[c] # "answered"
    /\ UNCHANGED <<fallback, cache, mirrorCache, asked, tablepc, listed, schema, answers, statements>>
TablesNext == TableStep \/ TableWorldStep
-----------------------------------------------------------------------------
\* The fields of each table were its own at some time, or it was removed while they were read.
FromDatabase(sch) ==
    \A t \in DOMAIN sch :
       \E v \in Past : /\ t \in TableNames(v)
                       /\ \/ sch[t] = Registered(v)[t]
                          \/ sch[t] = {} /\ \E w \in Past : w > v /\ t \notin TableNames(w)

\* A row's fields were its own at some time, in either spelling, or are left out.
FromMirror(sch) ==
    \A t \in DOMAIN sch :
       \E v \in Past : t \in Rows(v) /\ sch[t] \in {Registered(v)[t], Spelt(Registered(v)[t]), {}}

Real(s) ==
    /\ \E v \in Past : s.table \in TableNames(v)
    /\ \A col \in s.columns \ Standard :
          \E v \in Past : s.table \in TableNames(v) /\ col \in Registered(v)[s.table]

AsMirrored(s) ==
    /\ \E v \in Past : s.table \in Rows(v)
    /\ \A col \in s.columns \ Standard :
          \E v \in Past : /\ s.table \in Rows(v)
                          /\ col \in Registered(v)[s.table] \cup Spelt(Registered(v)[s.table])

\* A catalogue read from the database is stale at worst, never made up, and neither is what a
\* statement made with it names.  Only one the mirror stands in for may lack fields or hold names
\* that a sync made up for rows without one, and even then every table is a row of extra_tables
\* and every column a field of it.  No statement holds a name that is refused, whatever the call
\* asked for.
CatalogueTraceable ==
    /\ cache # NoCatalogue => FromDatabase(cache) \/ (cache = mirrorCache /\ FromMirror(cache))
    /\ \A s \in statements :
          /\ s.columns \cap Unnameable = {}
          /\ Real(s) \/ (fallback /\ AsMirrored(s))

\* A list of no tables means that none was registered: neither a database that fails nor a mirror
\* that is missing or torn is ever reported as an empty catalogue.
EmptyMeansNone ==
    \A c \in TableCalls :
        (answers[c].code = "OK" /\ asked[c].tool = "list_extra_tables" /\ answers[c].tables = {}) =>
            \E v \in Past : TableNames(v) = {}
=============================================================================
