------------------------------ MODULE Ingestion ------------------------------
(***************************************************************************)
(* The write path of the knowledge base (kb_mcp): KnowledgeIngestion-       *)
(* Coordinator.ingest over the PostgreSQL ingestion repository and the      *)
(* filesystem artifact store.  A writer is one process running the          *)
(* ingestion command; writers share the database and the artifact           *)
(* directory and nothing else.                                              *)
(*                                                                          *)
(* One action is one await, or one run of filesystem calls that no other    *)
(* process can tell apart.  A writer may be killed or cancelled between     *)
(* any two actions; any database statement and any filesystem call may      *)
(* fail.                                                                    *)
(***************************************************************************)
EXTENDS Naturals, Sequences

CONSTANTS
    Writers, Docs, Payloads, Structured, Hashes, ContentHash,
    NoHash, NoPayload,
    Free,          \* an advisory lock nobody holds
    Server,        \* a lock kept by a backend whose client has gone
    Jobs,          \* the <<document, payload>> records each writer may be given
    CommitFaults,  \* the ways COMMIT may go wrong: refused, acklost, indoubt
    MaxVersion     \* bound: no new content is started at this version

VARIABLES
    store,     \* committed database entries, one per document
    lock,      \* holder of pg_advisory_xact_lock for each document
    doubt,     \* entry a backend may still commit for a vanished client
    approved,  \* approved/<type>/<document>/<hash>.md
    staged,    \* whether the .tmp file of the writer's token exists
    pc, job,   \* where each writer is, and what it ingests
    txn,       \* the entry as the writer's open transaction sees it
    target,    \* the local target_version
    promoted,  \* the local flag of the coordinator
    result,    \* what the last call returned or raised
    log,       \* history: the hashes committed for each document, in order
    faulted    \* history: contents whose handling hit a kill or a failed cleanup

vars == <<store, lock, doubt, log, approved, staged,
          job, txn, target, promoted, pc, result, faulted>>

KS == INSTANCE KnowledgeStore
      WITH Docs <- Docs, Payloads <- Payloads, Structured <- Structured,
           Hashes <- Hashes, ContentHash <- ContentHash, NoHash <- NoHash,
           NoPayload <- NoPayload, store <- store

Job == [doc : Docs, payload : Payloads]

ASSUME ConstantsAssumption ==
    /\ ContentHash \in [Payloads -> Hashes]
    /\ Structured \subseteq Payloads
    /\ NoHash \notin Hashes
    /\ NoPayload \notin Payloads
    /\ Free \notin Writers /\ Server \notin Writers /\ Free # Server
    /\ Jobs \in [Writers -> SUBSET Job]
    /\ \A w \in Writers : Jobs[w] # {}
    /\ CommitFaults \subseteq {"refused", "acklost", "indoubt"}
    /\ MaxVersion \in Nat

Doc(w)  == job[w].doc
Hash(w) == ContentHash[job[w].payload]
Content(w) == <<Doc(w), Hash(w)>>

\* The stages of a call at which its transaction, and so its lock, is open.
InTransaction == {"verified", "decide", "promote", "existing", "copy",
                  "document", "structured", "chunks", "commit"}

\* The stages at which a failure reaches the except clause of ingest.
Guarded == {"enter", "decide", "promote", "existing", "copy",
            "document", "structured", "chunks"}

Unguarded == {"precheck", "verify", "verified", "prepare"}

Stages == InTransaction \cup Guarded \cup Unguarded
              \cup {"idle", "stage", "compensate", "remove"}

Statuses == {"NONE", "UNCHANGED", "APPROVED", "RAISED", "KILLED"}

-----------------------------------------------------------------------------

Init ==
    /\ store    = [d \in Docs |-> KS!NoEntry]
    /\ lock     = [d \in Docs |-> Free]
    /\ doubt    = [d \in Docs |-> KS!NoEntry]
    /\ log      = [d \in Docs |-> <<>>]
    /\ approved = [c \in Docs \X Hashes |-> "absent"]
    /\ staged   = [w \in Writers |-> FALSE]
    /\ job      = [w \in Writers |-> CHOOSE j \in Jobs[w] : TRUE]
    /\ txn      = [w \in Writers |-> KS!NoEntry]
    /\ target   = [w \in Writers |-> 0]
    /\ promoted = [w \in Writers |-> FALSE]
    /\ pc       = [w \in Writers |-> "idle"]
    /\ result   = [w \in Writers |-> [status |-> "NONE", version |-> 0]]
    /\ faulted  = {}

At(w, stage) == pc[w] = stage
GoTo(w, stage) ==
    /\ pc' = [pc EXCEPT ![w] = stage]
    /\ UNCHANGED <<result, promoted>>

\* The call returns or raises, and its locals die with it.
Finish(w, status, version) ==
    /\ pc' = [pc EXCEPT ![w] = "idle"]
    /\ result' = [result EXCEPT ![w] = [status |-> status, version |-> version]]
    /\ promoted' = [promoted EXCEPT ![w] = FALSE]

CloseSession(w) ==
    /\ txn' = [txn EXCEPT ![w] = KS!NoEntry]
    /\ target' = [target EXCEPT ![w] = 0]

\* Mutant: the session is dropped without ending its transaction.
ReleaseKeepsLock(w) == CloseSession(w) /\ UNCHANGED lock

\* Commit and rollback both end the transaction and with it the advisory lock.
Release(w) ==
    /\ lock' = [d \in Docs |-> IF lock[d] = w THEN Free ELSE lock[d]]
    /\ CloseSession(w)

Discard(w) == staged' = [staged EXCEPT ![w] = FALSE]

Fault(w) == faulted' = faulted \cup {Content(w)}

\* COMMIT takes effect: entry e becomes the state of document d.
Publish(d, e) ==
    /\ store' = [store EXCEPT ![d] = e]
    /\ log' = [log EXCEPT ![d] = Append(@, e.hash)]

-----------------------------------------------------------------------------
(* The call, from its entry to the opening of the main transaction.         *)

\* The bound: from MaxVersion on, only current content is offered, and only
\* by one writer at a time.
MayStart(j) ==
    \/ store[j.doc].version < MaxVersion
    \/ /\ store[j.doc].hash = ContentHash[j.payload]
       /\ lock[j.doc] = Free
       /\ \A v \in Writers : At(v, "idle")

\* The .tmp file an earlier call left behind has a name nobody will use
\* again, so the new call does not see it.
Start(w) ==
    /\ At(w, "idle")
    /\ \E j \in Jobs[w] :
          /\ MayStart(j)
          /\ job' = [job EXCEPT ![w] = j]
    /\ pc' = [pc EXCEPT ![w] = "precheck"]
    /\ result' = [result EXCEPT ![w] = [status |-> "NONE", version |-> 0]]
    /\ staged' = [staged EXCEPT ![w] = FALSE]
    /\ UNCHANGED <<store, lock, doubt, log, approved,
                   txn, target, promoted, faulted>>

\* get_document_state: a read without the lock, only worth a hint.
Precheck(w) ==
    /\ At(w, "precheck")
    /\ GoTo(w, IF store[Doc(w)].hash = Hash(w) THEN "verify" ELSE "prepare")
    /\ UNCHANGED <<store, lock, doubt, log, approved, staged, job, txn,
                   target, faulted>>

\* document_transaction: BEGIN and pg_advisory_xact_lock, which waits.
Acquire(w) ==
    /\ lock[Doc(w)] = Free
    /\ \/ At(w, "verify") /\ GoTo(w, "verified")
       \/ At(w, "enter")  /\ GoTo(w, "decide")
    /\ lock' = [lock EXCEPT ![Doc(w)] = w]
    /\ UNCHANGED <<store, doubt, log, approved, staged, job, txn, target,
                   faulted>>

\* The fast path answers only from a read made under the lock.
Verify(w) ==
    /\ At(w, "verified")
    /\ IF store[Doc(w)].hash = Hash(w)
         THEN Finish(w, "UNCHANGED", store[Doc(w)].version)
         ELSE GoTo(w, "prepare")
    /\ Release(w)
    /\ UNCHANGED <<store, doubt, log, approved, staged, job, faulted>>

\* Chunking and embedding, outside any transaction.
Prepare(w) ==
    /\ At(w, "prepare")
    /\ GoTo(w, "stage")
    /\ UNCHANGED <<store, lock, doubt, log, approved, staged, job, txn,
                   target, faulted>>

Stage(w) ==
    /\ At(w, "stage")
    /\ GoTo(w, "enter")
    /\ staged' = [staged EXCEPT ![w] = TRUE]
    /\ UNCHANGED <<store, lock, doubt, log, approved, job, txn, target,
                   faulted>>

\* The write of the .tmp file fails: nothing removes what was written, and
\* the call to stage stands before the try block.
StageFails(w) ==
    /\ At(w, "stage")
    /\ Finish(w, "RAISED", 0)
    /\ \E left \in BOOLEAN : staged' = [staged EXCEPT ![w] = left]
    /\ Fault(w)
    /\ UNCHANGED <<store, lock, doubt, log, approved, job, txn, target>>

-----------------------------------------------------------------------------
(* The main transaction.                                                     *)

\* Mutant: any committed row passes for the submitted content.
DecideUnchangedAnyHash(w) ==
    /\ At(w, "decide")
    /\ store[Doc(w)].version > 0
    /\ Discard(w)
    /\ Release(w)
    /\ Finish(w, "UNCHANGED", store[Doc(w)].version)
    /\ UNCHANGED <<store, doubt, log, approved, job, faulted>>

\* Mutant: the early return forgets the staged file.
DecideUnchangedNoDiscard(w) ==
    /\ At(w, "decide")
    /\ store[Doc(w)].hash = Hash(w)
    /\ Release(w)
    /\ Finish(w, "UNCHANGED", store[Doc(w)].version)
    /\ UNCHANGED <<store, doubt, log, approved, staged, job, faulted>>

\* Another writer committed this very content since the precheck.  The read
\* only transaction still has to be closed, and that may fail.
DecideUnchanged(w) ==
    /\ At(w, "decide")
    /\ store[Doc(w)].hash = Hash(w)
    /\ Discard(w)
    /\ Release(w)
    /\ \/ Finish(w, "UNCHANGED", store[Doc(w)].version)
       \/ GoTo(w, "compensate")
    /\ UNCHANGED <<store, doubt, log, approved, job, faulted>>

DecideChanged(w) ==
    /\ At(w, "decide")
    /\ store[Doc(w)].hash # Hash(w)
    /\ txn' = [txn EXCEPT ![w] = store[Doc(w)]]
    /\ target' = [target EXCEPT ![w] = store[Doc(w)].version + 1]
    /\ GoTo(w, "promote")
    /\ UNCHANGED <<store, lock, doubt, log, approved, staged, job, faulted>>

\* The end of a promote that succeeded.
Promoted(w) ==
    /\ Discard(w)
    /\ promoted' = [promoted EXCEPT ![w] = TRUE]
    /\ pc' = [pc EXCEPT ![w] = "document"]
    /\ UNCHANGED result

PromoteOverExisting(w) ==
    /\ At(w, "promote")
    /\ staged[w]
    /\ approved[Content(w)] # "absent"
    /\ GoTo(w, "existing")
    /\ UNCHANGED <<store, lock, doubt, log, approved, staged, job, txn,
                   target, faulted>>

\* os.link makes the whole file appear at once.  When the unlink of the .tmp
\* file then fails, the fallback finds the link it has just made.
Link(w) ==
    /\ At(w, "promote")
    /\ staged[w]
    /\ approved[Content(w)] = "absent"
    /\ approved' = [approved EXCEPT ![Content(w)] = "intact"]
    /\ \/ Promoted(w) /\ UNCHANGED faulted
       \/ GoTo(w, "existing") /\ Fault(w) /\ UNCHANGED staged
    /\ UNCHANGED <<store, lock, doubt, log, job, txn, target>>

\* No hard links here: the destination is created and then written.
CopyBegin(w) ==
    /\ At(w, "promote")
    /\ staged[w]
    /\ approved[Content(w)] = "absent"
    /\ approved' = [approved EXCEPT ![Content(w)] = "partial"]
    /\ GoTo(w, "copy")
    /\ UNCHANGED <<store, lock, doubt, log, staged, job, txn, target,
                   faulted>>

\* A file unlinked while it was being written stays absent.
CopyEnd(w) ==
    /\ At(w, "copy")
    /\ approved' = [approved EXCEPT ![Content(w)] =
                        IF @ = "partial" THEN "intact" ELSE @]
    /\ \/ Promoted(w) /\ UNCHANGED <<lock, txn, target, faulted>>
       \/ /\ GoTo(w, "compensate")
          /\ Release(w)
          /\ Fault(w)
          /\ UNCHANGED staged
    /\ UNCHANGED <<store, doubt, log, job>>

\* _handle_existing_artifact, when the bytes are the expected ones.
AcceptExisting(w) ==
    /\ At(w, "existing")
    /\ approved[Content(w)] = "intact"
    /\ Promoted(w)
    /\ UNCHANGED <<store, lock, doubt, log, approved, job, txn, target,
                   faulted>>

\* promote raises: the staged file is gone, or the destination is gone or
\* holds other bytes.
RejectPromotion(w) ==
    /\ \/ At(w, "promote")  /\ ~staged[w]
       \/ At(w, "existing") /\ approved[Content(w)] # "intact"
    /\ GoTo(w, "compensate")
    /\ Release(w)
    /\ UNCHANGED <<store, doubt, log, approved, staged, job, faulted>>

PersistDocument(w) ==
    /\ At(w, "document")
    /\ txn' = [txn EXCEPT ![w].hash = Hash(w), ![w].version = target[w]]
    /\ GoTo(w, "structured")
    /\ UNCHANGED <<store, lock, doubt, log, approved, staged, job,
                   target, faulted>>

PersistStructured(w) ==
    /\ At(w, "structured")
    /\ txn' = IF job[w].payload \in Structured
                THEN [txn EXCEPT ![w].structured = job[w].payload]
                ELSE txn
    /\ GoTo(w, "chunks")
    /\ UNCHANGED <<store, lock, doubt, log, approved, staged, job,
                   target, faulted>>

\* Mutant: the old chunks are not deleted.
PersistChunksAppending(w) ==
    /\ At(w, "chunks")
    /\ txn' = [txn EXCEPT ![w].chunks = @ \cup {Hash(w)}]
    /\ GoTo(w, "commit")
    /\ UNCHANGED <<store, lock, doubt, log, approved, staged, job,
                   target, faulted>>

\* DELETE of the old chunks, INSERT of the new ones.
PersistChunks(w) ==
    /\ At(w, "chunks")
    /\ txn' = [txn EXCEPT ![w].chunks = {Hash(w)}]
    /\ GoTo(w, "commit")
    /\ UNCHANGED <<store, lock, doubt, log, approved, staged, job,
                   target, faulted>>

Commit(w) ==
    /\ At(w, "commit")
    /\ Publish(Doc(w), txn[w])
    /\ Release(w)
    /\ Finish(w, "APPROVED", target[w])
    /\ UNCHANGED <<doubt, approved, staged, job, faulted>>

\* The client loses the connection with its COMMIT on the way: the backend
\* keeps the lock until it has committed or given up.
LeaveInDoubt(w) ==
    /\ "indoubt" \in CommitFaults
    /\ lock' = [lock EXCEPT ![Doc(w)] = Server]
    /\ doubt' = [doubt EXCEPT ![Doc(w)] = txn[w]]
    /\ CloseSession(w)
    /\ UNCHANGED <<store, log>>

\* COMMIT raises: refused outright, applied but not acknowledged, or unknown.
CommitFails(w) ==
    /\ At(w, "commit")
    /\ GoTo(w, "compensate")
    /\ \/ /\ "refused" \in CommitFaults
          /\ Release(w)
          /\ UNCHANGED <<store, log, doubt>>
       \/ /\ "acklost" \in CommitFaults
          /\ Publish(Doc(w), txn[w])
          /\ Release(w)
          /\ UNCHANGED doubt
       \/ LeaveInDoubt(w)
    /\ UNCHANGED <<approved, staged, job, faulted>>

\* The backend of a vanished client ends its transaction one way or the other.
Settle(d) ==
    /\ lock[d] = Server
    /\ \/ Publish(d, doubt[d])
       \/ UNCHANGED <<store, log>>
    /\ lock' = [lock EXCEPT ![d] = Free]
    /\ doubt' = [doubt EXCEPT ![d] = KS!NoEntry]
    /\ UNCHANGED <<approved, staged, job, txn, target, promoted,
                   pc, result, faulted>>

-----------------------------------------------------------------------------
(* Failure.                                                                  *)

\* A statement or a call raises before the try block: the call just ends.
FailsEarly(w) ==
    /\ pc[w] \in Unguarded
    /\ Finish(w, "RAISED", 0)
    /\ Release(w)
    /\ UNCHANGED <<store, doubt, log, approved, staged, job, faulted>>

\* Inside the try block: rollback first, compensation once the lock is free.
\* An interrupted copy leaves what it has written.
Fails(w) ==
    /\ pc[w] \in Guarded
    /\ GoTo(w, "compensate")
    /\ Release(w)
    /\ IF pc[w] = "copy" THEN Fault(w) ELSE UNCHANGED faulted
    /\ UNCHANGED <<store, doubt, log, approved, staged, job>>

CompensateStaged(w) ==
    /\ At(w, "compensate")
    /\ ~promoted[w]
    /\ \/ Discard(w) /\ UNCHANGED faulted
       \/ Fault(w) /\ UNCHANGED staged
    /\ Finish(w, "RAISED", 0)
    /\ UNCHANGED <<store, lock, doubt, log, approved, job, txn, target>>

\* Mutant: the artifact is removed without asking who refers to it.
CompensatePromotedBlindly(w) ==
    /\ At(w, "compensate")
    /\ promoted[w]
    /\ GoTo(w, "remove")
    /\ UNCHANGED <<store, lock, doubt, log, approved, staged, job, txn,
                   target, faulted>>

\* Mutant: a promoted artifact is never taken back.
CompensatePromotedNever(w) ==
    /\ At(w, "compensate")
    /\ promoted[w]
    /\ Finish(w, "RAISED", 0)
    /\ UNCHANGED <<store, lock, doubt, log, approved, staged, job, txn,
                   target, faulted>>

\* is_document_hash_referenced runs in a session of its own, without the lock.
CompensatePromoted(w) ==
    /\ At(w, "compensate")
    /\ promoted[w]
    /\ IF store[Doc(w)].hash = Hash(w)
         THEN Finish(w, "RAISED", 0)
         ELSE GoTo(w, "remove")
    /\ UNCHANGED <<store, lock, doubt, log, approved, staged, job, txn,
                   target, faulted>>

\* The reference check itself fails: the artifact is retained.
CompensateUnknown(w) ==
    /\ At(w, "compensate")
    /\ promoted[w]
    /\ Finish(w, "RAISED", 0)
    /\ Fault(w)
    /\ UNCHANGED <<store, lock, doubt, log, approved, staged, job, txn,
                   target>>

RemoveUnreferenced(w) ==
    /\ At(w, "remove")
    /\ \/ /\ approved' = [approved EXCEPT ![Content(w)] = "absent"]
          /\ UNCHANGED faulted
       \/ Fault(w) /\ UNCHANGED approved
    /\ Finish(w, "RAISED", 0)
    /\ UNCHANGED <<store, lock, doubt, log, staged, job, txn, target>>

\* The process is killed or the task cancelled: the except clause, which
\* catches Exception only, does not run.
Crash(w) ==
    /\ ~At(w, "idle")
    /\ Finish(w, "KILLED", 0)
    /\ \/ Release(w) /\ UNCHANGED <<store, log, doubt>>
       \/ At(w, "commit") /\ LeaveInDoubt(w)
    /\ \/ UNCHANGED staged
       \/ At(w, "stage") /\ staged' = [staged EXCEPT ![w] = TRUE]
    /\ Fault(w)
    /\ UNCHANGED <<approved, job>>

\* cleanup_stale_staging judges a file by its age alone, in use or not.
CleanupStaleStaging(w) ==
    /\ staged[w]
    /\ Discard(w)
    /\ UNCHANGED <<store, lock, doubt, log, approved,
                   job, txn, target, promoted, pc, result, faulted>>

-----------------------------------------------------------------------------

\* The steps a writer takes by itself when nothing goes wrong around it.
Progress(w) ==
    \/ Precheck(w) \/ Verify(w) \/ Prepare(w) \/ Stage(w)
    \/ DecideUnchanged(w) \/ DecideChanged(w)
    \/ PromoteOverExisting(w) \/ Link(w) \/ CopyBegin(w) \/ CopyEnd(w)
    \/ AcceptExisting(w) \/ RejectPromotion(w)
    \/ PersistDocument(w) \/ PersistStructured(w) \/ PersistChunks(w)
    \/ Commit(w)
    \/ CompensateStaged(w) \/ CompensatePromoted(w) \/ RemoveUnreferenced(w)

Trouble(w) ==
    \/ StageFails(w) \/ FailsEarly(w) \/ Fails(w)
    \/ CommitFails(w) \/ CompensateUnknown(w) \/ Crash(w)

Next ==
    \/ \E w \in Writers :
          Start(w) \/ Acquire(w) \/ Progress(w) \/ Trouble(w)
             \/ CleanupStaleStaging(w)
    \/ \E d \in Docs : Settle(d)

\* A started call keeps running; PostgreSQL serves the waiters of an advisory
\* lock in turn; a backend notices the loss of its client.
Fairness ==
    /\ \A w \in Writers : WF_vars(Progress(w)) /\ SF_vars(Acquire(w))
    /\ \A d \in Docs : WF_vars(Settle(d))

Spec == Init /\ [][Next]_vars /\ Fairness

-----------------------------------------------------------------------------
(* Properties.                                                               *)

TypeOK ==
    /\ store \in [Docs -> KS!Entry]
    /\ lock \in [Docs -> Writers \cup {Free, Server}]
    /\ doubt \in [Docs -> KS!Entry]
    /\ log \in [Docs -> Seq(Hashes \cup {NoHash})]
    /\ approved \in [Docs \X Hashes -> {"absent", "partial", "intact"}]
    /\ staged \in [Writers -> BOOLEAN]
    /\ job \in [Writers -> Job]
    /\ txn \in [Writers -> KS!Entry]
    /\ target \in [Writers -> Nat]
    /\ promoted \in [Writers -> BOOLEAN]
    /\ pc \in [Writers -> Stages]
    /\ result \in [Writers -> [status : Statuses, version : Nat]]
    /\ faulted \in SUBSET (Docs \X Hashes)

\* Whatever fails or interleaves, the database only ever moves from one whole
\* publication to the next: row, chunks and structured record change in one
\* step, the version grows by exactly one, no version is ever written twice
\* (a lost update), and the current content is not published again.
PublishesAtomically == KS!Spec

\* What ingest told its caller is so: version n of the document was committed
\* with the content the caller submitted, both when it answers APPROVED and
\* when it answers UNCHANGED on the strength of somebody else's commit.
ResultTruthful ==
    \A w \in Writers :
        result[w].status \in {"APPROVED", "UNCHANGED"} =>
            /\ result[w].version \in DOMAIN log[Doc(w)]
            /\ log[Doc(w)][result[w].version] = Hash(w)

\* A call that has ended leaves no .tmp file behind, unless a kill, a failed
\* write or a failed unlink got in its way: every early return and every
\* exception path of ingest disposes of the staged file it owns.
NoStagingLeak ==
    \A w \in Writers :
        At(w, "idle") /\ staged[w] => Content(w) \in faulted

\* A file under approved/ that no version of the document ever used, and no
\* call is working on, is explained by a kill or a cleanup that failed: the
\* compensation of a failed call takes back what the call promoted
\* (orchestrator.py:277; docs/project-status.md:412 has it stay, "flagged for
\* reconciliation", see the README under F7).
NoUnexplainedArtifact ==
    \A c \in Docs \X Hashes :
        /\ approved[c] # "absent"
        /\ \A w \in Writers : Content(w) = c => At(w, "idle")
        /\ \A i \in DOMAIN log[c[1]] : log[c[1]][i] # c[2]
        => c \in faulted

\* Every document row has its artifact: the content the database declares
\* current is intact under approved/.
ArtifactBacked ==
    \A d \in Docs :
        store[d].version > 0 => approved[<<d, store[d].hash>>] = "intact"

\* No two writers are ever given the same content of the same document.
ExclusiveContent ==
    \A v, w \in Writers : v # w =>
        \A j \in Jobs[v], k \in Jobs[w] :
            j.doc = k.doc => ContentHash[j.payload] # ContentHash[k.payload]

\* docs/project-status.md: an artifact that exists under the hash of a
\* committed version is preserved.
CommittedPreserved ==
    \A d \in Docs : \A i \in DOMAIN log[d] :
        approved[<<d, log[d][i]>>] = "intact"

\* A call that has started ends: it returns, raises or is killed; no failure
\* leaves the advisory lock behind for the others to wait on.
CallsEnd == \A w \in Writers : ~At(w, "idle") ~> At(w, "idle")

-----------------------------------------------------------------------------
(* The inductive invariant behind PublishesAtomically and ResultTruthful.    *)

\* The lock of a document is held by exactly the writer in its transaction.
LockInv ==
    /\ \A w \in Writers : pc[w] \in InTransaction => lock[Doc(w)] = w
    /\ \A d \in Docs, w \in Writers :
          lock[d] = w => pc[w] \in InTransaction /\ Doc(w) = d

\* The version is the number of commits, and the current hash is the last one.
HistoryInv ==
    \A d \in Docs :
        /\ Len(log[d]) = store[d].version
        /\ store[d].version > 0 =>
              /\ log[d][store[d].version] = store[d].hash
              /\ store[d].hash \in Hashes
        /\ store[d].version = 0 => store[d].hash = NoHash

\* What the transaction has written so far, stage by stage.
TxnOf(w) ==
    LET old == store[Doc(w)]
        new == KS!Successor(old, job[w].payload)
    IN  /\ pc[w] \in InTransaction \ {"verified", "decide"} =>
              old.hash # Hash(w) /\ target[w] = old.version + 1
        /\ pc[w] \in {"promote", "existing", "copy", "document"} =>
              txn[w] = old
        /\ At(w, "structured") =>
              txn[w] = [new EXCEPT !.chunks = old.chunks,
                                   !.structured = old.structured]
        /\ At(w, "chunks") => txn[w] = [new EXCEPT !.chunks = old.chunks]
        /\ At(w, "commit") => txn[w] = new

TxnInv == \A w \in Writers : TxnOf(w)

\* What a backend may still commit is a publication over the current entry.
DoubtInv ==
    \A d \in Docs : lock[d] = Server =>
        \E p \in Payloads :
            /\ store[d].hash # ContentHash[p]
            /\ doubt[d] = KS!Successor(store[d], p)

\* A call that is still running has no result yet.
ResultInv ==
    \A w \in Writers : ~At(w, "idle") => result[w].status = "NONE"

PublicationInv ==
    TypeOK /\ LockInv /\ HistoryInv /\ TxnInv /\ DoubtInv /\ ResultInv
        /\ ResultTruthful

\* The strengthening of ArtifactBacked, for exclusive content and commits
\* that are never left in doubt: an artifact is there from its promotion to
\* the commit, nobody unlinks a file that is being copied, and an artifact
\* is removed only when nothing refers to it.
ArtifactInv ==
    /\ ArtifactBacked
    /\ \A w \in Writers :
          /\ job[w] \in Jobs[w]
          /\ pc[w] \in {"document", "structured", "chunks", "commit"} =>
                approved[Content(w)] = "intact"
          /\ At(w, "copy") => approved[Content(w)] = "partial"
          /\ At(w, "remove") => store[Doc(w)].hash # Hash(w)
    /\ \A d \in Docs : lock[d] # Server

=============================================================================
