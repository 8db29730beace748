--------------------------- MODULE KnowledgeStore ---------------------------
(***************************************************************************)
(* What the knowledge base promises its readers: every document has one    *)
(* published entry, and the entry only ever changes by publishing a new     *)
(* payload whole.  The row, its chunks and its structured record move       *)
(* together, the version counts the publications, and content that is       *)
(* already current is never published again.                                *)
(***************************************************************************)
EXTENDS Naturals

CONSTANTS
    Docs,         \* document identifiers
    Payloads,     \* admitted documents, as the coordinator receives them
    Structured,   \* the payloads that carry a runbook or a known issue
    Hashes,       \* SHA-256 digests of canonical text
    ContentHash,  \* the digest of each payload
    NoHash,       \* the hash of a document that has no row
    NoPayload     \* the structured record of a document that has none

VARIABLE store    \* the committed entry of every document

Entry == [hash : Hashes \cup {NoHash}, version : Nat,
          chunks : SUBSET Hashes, structured : Payloads \cup {NoPayload}]

NoEntry == [hash |-> NoHash, version |-> 0,
            chunks |-> {}, structured |-> NoPayload]

\* The entry that follows e when payload p is published.
Successor(e, p) ==
    [hash       |-> ContentHash[p],
     version    |-> e.version + 1,
     chunks     |-> {ContentHash[p]},
     structured |-> IF p \in Structured THEN p ELSE e.structured]

Init == store = [d \in Docs |-> NoEntry]

Publish(d, p) ==
    /\ store[d].hash # ContentHash[p]
    /\ store' = [store EXCEPT ![d] = Successor(@, p)]

Next == \E d \in Docs, p \in Payloads : Publish(d, p)

Spec == Init /\ [][Next]_store
=============================================================================
