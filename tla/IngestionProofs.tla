--------------------------- MODULE IngestionProofs ---------------------------
(***************************************************************************)
(* Theorems about the ingestion coordinator, for every number of writers    *)
(* and documents and every way COMMIT may fail.                             *)
(***************************************************************************)
EXTENDS Ingestion, TLAPS

-----------------------------------------------------------------------------
(* Types.                                                                    *)

LEMMA EntryFields ==
    ASSUME NEW e \in KS!Entry
    PROVE  /\ e.hash \in Hashes \cup {NoHash}
           /\ e.version \in Nat
           /\ e.chunks \in SUBSET Hashes
           /\ e.structured \in Payloads \cup {NoPayload}
BY DEF KS!Entry

LEMMA EntryUpdate ==
    ASSUME NEW e \in KS!Entry, NEW h \in Hashes, NEW v \in Nat,
           NEW p \in Payloads
    PROVE  /\ [e EXCEPT !.hash = h, !.version = v] \in KS!Entry
           /\ [e EXCEPT !.structured = p] \in KS!Entry
           /\ [e EXCEPT !.chunks = {h}] \in KS!Entry
BY DEF KS!Entry

LEMMA NoEntryType == KS!NoEntry \in KS!Entry
BY DEF KS!NoEntry, KS!Entry

\* What a writer works on is in range.
LEMMA JobType ==
    ASSUME TypeOK, NEW w \in Writers
    PROVE  /\ Doc(w) \in Docs
           /\ job[w].payload \in Payloads
           /\ Hash(w) \in Hashes
           /\ Content(w) \in Docs \X Hashes
BY ConstantsAssumption DEF TypeOK, Job, Doc, Hash, Content

\* The helpers the actions are made of keep the variables they set in type.
LEMMA GoToType ==
    ASSUME TypeOK, NEW w \in Writers, NEW s \in Stages, GoTo(w, s)
    PROVE  /\ pc' \in [Writers -> Stages]
           /\ result' \in [Writers -> [status : Statuses, version : Nat]]
           /\ promoted' \in [Writers -> BOOLEAN]
BY DEF TypeOK, GoTo

LEMMA FinishType ==
    ASSUME TypeOK, NEW w \in Writers, NEW s \in Statuses, NEW v \in Nat,
           Finish(w, s, v)
    PROVE  /\ pc' \in [Writers -> Stages]
           /\ result' \in [Writers -> [status : Statuses, version : Nat]]
           /\ promoted' \in [Writers -> BOOLEAN]
<1>1. "idle" \in Stages
      BY DEF Stages
<1>2. [status |-> s, version |-> v] \in [status : Statuses, version : Nat]
      OBVIOUS
<1> QED BY <1>1, <1>2 DEF TypeOK, Finish

LEMMA CloseSessionType ==
    ASSUME TypeOK, NEW w \in Writers, CloseSession(w)
    PROVE  /\ txn' \in [Writers -> KS!Entry]
           /\ target' \in [Writers -> Nat]
BY NoEntryType DEF TypeOK, CloseSession

LEMMA ReleaseType ==
    ASSUME TypeOK, NEW w \in Writers, Release(w)
    PROVE  /\ lock' \in [Docs -> Writers \cup {Free, Server}]
           /\ txn' \in [Writers -> KS!Entry]
           /\ target' \in [Writers -> Nat]
<1>1. lock' \in [Docs -> Writers \cup {Free, Server}]
      BY DEF TypeOK, Release
<1> QED BY <1>1, CloseSessionType DEF Release

LEMMA DiscardType ==
    ASSUME TypeOK, NEW w \in Writers, Discard(w)
    PROVE  staged' \in [Writers -> BOOLEAN]
BY DEF TypeOK, Discard

LEMMA FaultType ==
    ASSUME TypeOK, NEW w \in Writers, Fault(w)
    PROVE  faulted' \in SUBSET (Docs \X Hashes)
BY JobType DEF TypeOK, Fault

LEMMA PromotedType ==
    ASSUME TypeOK, NEW w \in Writers, Promoted(w)
    PROVE  /\ pc' \in [Writers -> Stages]
           /\ result' \in [Writers -> [status : Statuses, version : Nat]]
           /\ promoted' \in [Writers -> BOOLEAN]
           /\ staged' \in [Writers -> BOOLEAN]
<1>1. "document" \in Stages
      BY DEF Stages, InTransaction
<1> QED BY <1>1, DiscardType DEF TypeOK, Promoted

LEMMA PublishType ==
    ASSUME TypeOK, NEW d \in Docs, NEW e \in KS!Entry, Publish(d, e)
    PROVE  /\ store' \in [Docs -> KS!Entry]
           /\ log' \in [Docs -> Seq(Hashes \cup {NoHash})]
<1>1. e.hash \in Hashes \cup {NoHash}
      BY EntryFields
<1>2. Append(log[d], e.hash) \in Seq(Hashes \cup {NoHash})
      BY <1>1 DEF TypeOK
<1> QED BY <1>2 DEF TypeOK, Publish

LEMMA LeaveInDoubtType ==
    ASSUME TypeOK, NEW w \in Writers, LeaveInDoubt(w)
    PROVE  /\ lock' \in [Docs -> Writers \cup {Free, Server}]
           /\ doubt' \in [Docs -> KS!Entry]
           /\ txn' \in [Writers -> KS!Entry]
           /\ target' \in [Writers -> Nat]
BY CloseSessionType, JobType DEF TypeOK, LeaveInDoubt

LEMMA ApprovedType ==
    ASSUME TypeOK, NEW w \in Writers,
           NEW f \in {"absent", "partial", "intact"}
    PROVE  [approved EXCEPT ![Content(w)] = f]
               \in [Docs \X Hashes -> {"absent", "partial", "intact"}]
BY JobType DEF TypeOK

LEMMA TypeInit == Init => TypeOK
<1>1. SUFFICES ASSUME Init PROVE TypeOK
      OBVIOUS
<1>2. job \in [Writers -> Job]
  <2>1. \A w \in Writers : (CHOOSE j \in Jobs[w] : TRUE) \in Jobs[w]
        BY ConstantsAssumption
  <2> QED BY <1>1, <2>1, ConstantsAssumption DEF Init
<1>3. log \in [Docs -> Seq(Hashes \cup {NoHash})]
      BY <1>1 DEF Init
<1>4. /\ pc \in [Writers -> Stages]
      /\ result \in [Writers -> [status : Statuses, version : Nat]]
      BY <1>1 DEF Init, Stages, Statuses
<1> QED BY <1>1, <1>2, <1>3, <1>4, NoEntryType DEF Init, TypeOK

LEMMA StageNames ==
    /\ InTransaction \subseteq Stages
    /\ {"idle", "precheck", "verify", "prepare", "stage", "enter",
        "compensate", "remove"} \subseteq Stages
    /\ {"decide", "promote", "existing", "copy", "document", "structured",
        "chunks", "commit", "verified"} \subseteq Stages
    /\ {"NONE", "UNCHANGED", "APPROVED", "RAISED", "KILLED"} \subseteq Statuses
BY DEF Stages, InTransaction, Guarded, Unguarded, Statuses

LEMMA TypeStep == TypeOK /\ [Next]_vars => TypeOK'
<1>1. SUFFICES ASSUME TypeOK, [Next]_vars PROVE TypeOK'
      OBVIOUS
<1> USE <1>1
<1>2. ASSUME NEW w \in Writers, Start(w) PROVE TypeOK'
  <2>1. job' \in [Writers -> Job]
        BY <1>2, ConstantsAssumption DEF TypeOK, Start
  <2>2. /\ pc' \in [Writers -> Stages]
        /\ result' \in [Writers -> [status : Statuses, version : Nat]]
        BY <1>2, StageNames DEF TypeOK, Start
  <2> QED BY <1>2, <2>1, <2>2, SMTT(20) DEF TypeOK, Start
<1>3. ASSUME NEW w \in Writers, Acquire(w) PROVE TypeOK'
      BY <1>3, StageNames, GoToType, JobType DEF TypeOK, Acquire
<1>4. ASSUME NEW w \in Writers, CleanupStaleStaging(w) PROVE TypeOK'
      BY <1>4, DiscardType DEF TypeOK, CleanupStaleStaging
<1>5. ASSUME NEW w \in Writers, Progress(w) PROVE TypeOK'
  <2>1. CASE Precheck(w)
        BY <2>1, StageNames, GoToType DEF TypeOK, Precheck
  <2>2. CASE Verify(w)
  <3>1. store[Doc(w)].version \in Nat
        BY JobType, EntryFields DEF TypeOK
  <3> QED BY <2>2, <3>1, StageNames, FinishType, GoToType, ReleaseType
          DEF TypeOK, Verify
  <2>3. CASE Prepare(w)
        BY <2>3, StageNames, GoToType DEF TypeOK, Prepare
  <2>4. CASE Stage(w)
        BY <2>4, StageNames, GoToType DEF TypeOK, Stage
  <2>5. CASE DecideUnchanged(w)
  <3>1. store[Doc(w)].version \in Nat
        BY JobType, EntryFields DEF TypeOK
  <3> QED BY <2>5, <3>1, StageNames, FinishType, GoToType, ReleaseType,
             DiscardType DEF TypeOK, DecideUnchanged
  <2>6. CASE DecideChanged(w)
  <3>1. store[Doc(w)] \in KS!Entry /\ store[Doc(w)].version + 1 \in Nat
        BY JobType, EntryFields DEF TypeOK
  <3> QED BY <2>6, <3>1, StageNames, GoToType DEF TypeOK, DecideChanged
  <2>7. CASE PromoteOverExisting(w)
        BY <2>7, StageNames, GoToType DEF TypeOK, PromoteOverExisting
  <2>8. CASE Link(w)
  <3>1. approved' \in [Docs \X Hashes -> {"absent", "partial", "intact"}]
        BY <2>8, ApprovedType DEF Link
  <3>2. CASE Promoted(w) /\ UNCHANGED faulted
        BY <2>8, <3>1, <3>2, PromotedType DEF TypeOK, Link
  <3>3. CASE GoTo(w, "existing") /\ Fault(w) /\ UNCHANGED staged
        BY <2>8, <3>1, <3>3, StageNames, GoToType, FaultType DEF TypeOK, Link
  <3> QED BY <2>8, <3>2, <3>3 DEF Link
  <2>9. CASE CopyBegin(w)
  <3>1. approved' \in [Docs \X Hashes -> {"absent", "partial", "intact"}]
        BY <2>9, ApprovedType DEF CopyBegin
  <3> QED BY <2>9, <3>1, StageNames, GoToType DEF TypeOK, CopyBegin
  <2>10. CASE CopyEnd(w)
  <3>1. approved' \in [Docs \X Hashes -> {"absent", "partial", "intact"}]
        BY <2>10, JobType DEF TypeOK, CopyEnd
  <3>2. CASE Promoted(w) /\ UNCHANGED <<lock, txn, target, faulted>>
        BY <2>10, <3>1, <3>2, PromotedType DEF TypeOK, CopyEnd
  <3>3. CASE /\ GoTo(w, "compensate")
             /\ Release(w)
             /\ Fault(w)
             /\ UNCHANGED staged
        BY <2>10, <3>1, <3>3, StageNames, GoToType, ReleaseType, FaultType
        DEF TypeOK, CopyEnd
  <3> QED BY <2>10, <3>2, <3>3 DEF CopyEnd
  <2>11. CASE AcceptExisting(w)
        BY <2>11, StageNames, PromotedType DEF TypeOK, AcceptExisting
  <2>12. CASE RejectPromotion(w)
        BY <2>12, StageNames, GoToType, ReleaseType DEF TypeOK, RejectPromotion
  <2>13. CASE PersistDocument(w)
  <3>1. [txn[w] EXCEPT !.hash = Hash(w), !.version = target[w]] \in KS!Entry
    <4>1. txn[w] \in KS!Entry /\ target[w] \in Nat
          BY DEF TypeOK
    <4> QED BY <4>1, JobType, EntryUpdate
  <3> QED BY <2>13, <3>1, StageNames, GoToType DEF TypeOK, PersistDocument
  <2>14. CASE PersistStructured(w)
  <3>1. [txn[w] EXCEPT !.structured = job[w].payload] \in KS!Entry
    <4>1. txn[w] \in KS!Entry /\ target[w] \in Nat
          BY DEF TypeOK
    <4> QED BY <4>1, JobType, EntryUpdate
  <3> QED BY <2>14, <3>1, StageNames, GoToType DEF TypeOK, PersistStructured
  <2>15. CASE PersistChunks(w)
  <3>1. [txn[w] EXCEPT !.chunks = {Hash(w)}] \in KS!Entry
    <4>1. txn[w] \in KS!Entry /\ target[w] \in Nat
          BY DEF TypeOK
    <4> QED BY <4>1, JobType, EntryUpdate
  <3> QED BY <2>15, <3>1, StageNames, GoToType DEF TypeOK, PersistChunks
  <2>16. CASE Commit(w)
  <3>1. txn[w] \in KS!Entry /\ target[w] \in Nat
        BY DEF TypeOK
  <3> QED BY <2>16, <3>1, JobType, StageNames, PublishType, ReleaseType, FinishType
          DEF TypeOK, Commit
  <2>17. CASE CompensateStaged(w)
        BY <2>17, StageNames, DiscardType, FaultType, FinishType DEF TypeOK, CompensateStaged
  <2>18. CASE CompensatePromoted(w)
        BY <2>18, StageNames, GoToType, FinishType DEF TypeOK, CompensatePromoted
  <2>19. CASE RemoveUnreferenced(w)
  <3>1. approved' \in [Docs \X Hashes -> {"absent", "partial", "intact"}]
        BY <2>19, ApprovedType DEF TypeOK, RemoveUnreferenced
  <3> QED BY <2>19, <3>1, StageNames, FinishType, FaultType
          DEF TypeOK, RemoveUnreferenced
  <2> QED BY <1>5, <2>1, <2>2, <2>3, <2>4, <2>5, <2>6, <2>7, <2>8, <2>9, <2>10,
             <2>11, <2>12, <2>13, <2>14, <2>15, <2>16, <2>17,
             <2>18, <2>19 DEF Progress
<1>6. ASSUME NEW w \in Writers, Trouble(w) PROVE TypeOK'
  <2>1. CASE StageFails(w)
        BY <2>1, StageNames, FinishType, FaultType DEF TypeOK, StageFails
  <2>2. CASE FailsEarly(w)
        BY <2>2, StageNames, FinishType, ReleaseType DEF TypeOK, FailsEarly
  <2>3. CASE Fails(w)
        BY <2>3, StageNames, GoToType, ReleaseType, FaultType DEF TypeOK, Fails
  <2>4. CASE CommitFails(w)
  <3>1. txn[w] \in KS!Entry
        BY DEF TypeOK
  <3>2. /\ pc' \in [Writers -> Stages]
        /\ result' \in [Writers -> [status : Statuses, version : Nat]]
        /\ promoted' \in [Writers -> BOOLEAN]
        BY <2>4, StageNames, GoToType DEF CommitFails
  <3>3. /\ store' \in [Docs -> KS!Entry]
        /\ log' \in [Docs -> Seq(Hashes \cup {NoHash})]
        BY <2>4, <3>1, JobType, PublishType
        DEF TypeOK, CommitFails, LeaveInDoubt
  <3>4. /\ lock' \in [Docs -> Writers \cup {Free, Server}]
        /\ doubt' \in [Docs -> KS!Entry]
        /\ txn' \in [Writers -> KS!Entry]
        /\ target' \in [Writers -> Nat]
        BY <2>4, ReleaseType, LeaveInDoubtType DEF TypeOK, CommitFails
  <3> QED BY <2>4, <3>2, <3>3, <3>4 DEF TypeOK, CommitFails
  <2>5. CASE CompensateUnknown(w)
        BY <2>5, StageNames, FinishType, FaultType DEF TypeOK, CompensateUnknown
  <2>6. CASE Crash(w)
  <3>1. /\ lock' \in [Docs -> Writers \cup {Free, Server}]
        /\ doubt' \in [Docs -> KS!Entry]
        /\ txn' \in [Writers -> KS!Entry]
        /\ target' \in [Writers -> Nat]
        BY <2>6, ReleaseType, LeaveInDoubtType DEF TypeOK, Crash
  <3>2. UNCHANGED <<store, log>>
        BY <2>6 DEF Crash, LeaveInDoubt
  <3>3. staged' \in [Writers -> BOOLEAN]
        BY <2>6 DEF TypeOK, Crash
  <3> QED BY <2>6, <3>1, <3>2, <3>3, StageNames, FinishType, FaultType
          DEF TypeOK, Crash
  <2> QED BY <1>6, <2>1, <2>2, <2>3, <2>4, <2>5, <2>6 DEF Trouble
<1>7. ASSUME NEW d \in Docs, Settle(d) PROVE TypeOK'
  <2>1. doubt[d] \in KS!Entry
        BY DEF TypeOK
  <2> QED BY <1>7, <2>1, NoEntryType, PublishType DEF TypeOK, Settle
<1>8. CASE UNCHANGED vars
      BY <1>8 DEF TypeOK, vars
<1> QED BY <1>1, <1>2, <1>3, <1>4, <1>5, <1>6, <1>7, <1>8 DEF Next

\* Every variable keeps the shape the code gives it, whatever fails.
THEOREM TypeCorrect == Spec => []TypeOK
BY TypeInit, TypeStep, PTL DEF Spec

-----------------------------------------------------------------------------
(* The inductive invariant of publication.                                   *)

USE DEF At

LEMMA PublicationInit == Init => PublicationInv
<1>1. SUFFICES ASSUME Init PROVE PublicationInv
      OBVIOUS
<1>2. LockInv
      BY <1>1, ConstantsAssumption DEF Init, LockInv, InTransaction
<1>3. HistoryInv
      BY <1>1 DEF Init, HistoryInv, KS!NoEntry
<1>4. TxnInv
      BY <1>1 DEF Init, TxnInv, TxnOf, InTransaction
<1>5. DoubtInv
      BY <1>1, ConstantsAssumption DEF Init, DoubtInv
<1>6. ResultInv /\ ResultTruthful
      BY <1>1 DEF Init, ResultInv, ResultTruthful
<1> QED BY <1>1, <1>2, <1>3, <1>4, <1>5, <1>6, TypeInit DEF PublicationInv

\* Committing the successor of the current entry extends the history by it
\* and keeps every version committed before.
LEMMA PublishHistory ==
    ASSUME TypeOK, HistoryInv, NEW d \in Docs, NEW e \in KS!Entry,
           e.version = store[d].version + 1, e.hash \in Hashes, Publish(d, e)
    PROVE  /\ HistoryInv'
           /\ \A x \in Docs : \A i \in DOMAIN log[x] :
                 i \in DOMAIN log'[x] /\ log'[x][i] = log[x][i]
           /\ e.version \in DOMAIN log'[d]
           /\ log'[d][e.version] = e.hash
<1>1. /\ log[d] \in Seq(Hashes \cup {NoHash})
      /\ store[d].version \in Nat
      /\ Len(log[d]) = store[d].version
      /\ e.hash \in Hashes \cup {NoHash}
      BY EntryFields DEF TypeOK, HistoryInv
<1>2. /\ log'[d] = Append(log[d], e.hash)
      /\ store'[d] = e
      /\ \A x \in Docs : x # d => log'[x] = log[x] /\ store'[x] = store[x]
      BY DEF TypeOK, Publish
<1>3. /\ Len(log'[d]) = e.version
      /\ log'[d][e.version] = e.hash
      /\ DOMAIN log'[d] = 1 .. e.version
      /\ \A i \in DOMAIN log[d] :
            i \in DOMAIN log'[d] /\ log'[d][i] = log[d][i]
      BY <1>1, <1>2
<1>4. HistoryInv'
      BY <1>1, <1>2, <1>3 DEF HistoryInv
<1>5. ASSUME NEW x \in Docs, NEW i \in DOMAIN log[x]
      PROVE  i \in DOMAIN log'[x] /\ log'[x][i] = log[x][i]
      BY <1>2, <1>3, <1>5
<1> QED BY <1>1, <1>3, <1>4, <1>5

\* The hash of an entry tells whether the document has been published, and
\* by which commit.
LEMMA CurrentHash ==
    ASSUME TypeOK, HistoryInv, NEW w \in Writers,
           store[Doc(w)].hash = Hash(w)
    PROVE  /\ store[Doc(w)].version \in DOMAIN log[Doc(w)]
           /\ log[Doc(w)][store[Doc(w)].version] = Hash(w)
<1>1. Hash(w) # NoHash /\ Doc(w) \in Docs
      BY JobType, ConstantsAssumption
<1>2. /\ store[Doc(w)].version \in Nat
      /\ log[Doc(w)] \in Seq(Hashes \cup {NoHash})
      BY <1>1, EntryFields DEF TypeOK
<1> QED BY <1>1, <1>2 DEF HistoryInv

\* A step of w inside or outside its transaction that touches neither the
\* database nor the buffer of the transaction.
LEMMA LocalStep ==
    ASSUME PublicationInv, TypeOK', NEW w \in Writers, NEW s \in Stages,
           UNCHANGED <<store, lock, doubt, log, job, txn, target, result>>,
           pc' = [pc EXCEPT ![w] = s],
           pc[w] # "idle", s # "idle",
           \/ pc[w] \notin InTransaction /\ s \notin InTransaction
           \/ /\ pc[w] \in {"promote", "existing", "copy", "document"}
              /\ s \in {"promote", "existing", "copy", "document"}
    PROVE  PublicationInv'
<1> USE DEF PublicationInv, Doc, Hash
<1>1. pc \in [Writers -> Stages]
      BY DEF TypeOK
<1>2. LockInv'
      BY <1>1 DEF LockInv, InTransaction
<1>3. TxnInv'
  <2>1. ASSUME NEW v \in Writers, v # w PROVE TxnOf(v)'
        BY <1>1, <2>1 DEF TxnInv, TxnOf
  <2>2. TxnOf(w)'
        BY <1>1 DEF TxnInv, TxnOf, InTransaction
  <2> QED BY <2>1, <2>2 DEF TxnInv
<1>4. HistoryInv' /\ DoubtInv'
      BY DEF HistoryInv, DoubtInv
<1>5. ResultInv' /\ ResultTruthful'
      BY <1>1 DEF ResultInv, ResultTruthful
<1> QED BY <1>2, <1>3, <1>4, <1>5

\* A step that takes w out of its transaction, if it is in one, and leaves
\* the database as it was.
LEMMA LeaveStep ==
    ASSUME PublicationInv, TypeOK', NEW w \in Writers,
           NEW s \in Stages \ InTransaction,
           UNCHANGED <<store, doubt, log, job>>,
           pc' = [pc EXCEPT ![w] = s],
           lock' = [d \in Docs |-> IF lock[d] = w THEN Free ELSE lock[d]],
           \A v \in Writers \ {w} :
              /\ txn'[v] = txn[v]
              /\ target'[v] = target[v]
              /\ result'[v] = result[v],
           s # "idle" => result'[w].status = "NONE",
           result'[w].status \in {"APPROVED", "UNCHANGED"} =>
              /\ result'[w].version \in DOMAIN log[Doc(w)]
              /\ log[Doc(w)][result'[w].version] = Hash(w)
    PROVE  PublicationInv'
<1> USE DEF PublicationInv, Doc, Hash
<1>1. pc \in [Writers -> Stages] /\ lock \in [Docs -> Writers \cup {Free, Server}]
      BY DEF TypeOK
<1>2. LockInv'
  <2>1. ASSUME NEW v \in Writers, pc'[v] \in InTransaction
        PROVE  lock'[Doc(v)] = v
        BY <1>1, <2>1 DEF LockInv, TypeOK, Job
  <2>2. ASSUME NEW d \in Docs, NEW v \in Writers, lock'[d] = v
        PROVE  pc'[v] \in InTransaction /\ Doc(v) = d
        BY <1>1, <2>2, ConstantsAssumption DEF LockInv
  <2> QED BY <2>1, <2>2 DEF LockInv
<1>3. TxnInv'
  <2>1. ASSUME NEW v \in Writers, v # w PROVE TxnOf(v)'
    <3>1. /\ pc'[v] = pc[v] /\ txn'[v] = txn[v] /\ target'[v] = target[v]
          /\ job' = job /\ store' = store
          BY <1>1, <2>1
    <3>2. TxnOf(v)
          BY DEF TxnInv
    <3> QED BY <3>1, <3>2 DEF TxnOf
  <2>2. TxnOf(w)'
        BY <1>1 DEF TxnOf, InTransaction
  <2> QED BY <2>1, <2>2 DEF TxnInv
<1>4. HistoryInv' /\ DoubtInv'
      BY <1>1, ConstantsAssumption DEF HistoryInv, DoubtInv
<1>5. ResultInv' /\ ResultTruthful'
      BY <1>1 DEF ResultInv, ResultTruthful
<1> QED BY <1>2, <1>3, <1>4, <1>5

\* The step that commits entry e: the holder of the lock, a writer or a
\* backend whose client has gone, leaves and frees it.
LEMMA PublishStep ==
    ASSUME PublicationInv, TypeOK', NEW d \in Docs, NEW e \in KS!Entry,
           e.version = store[d].version + 1, e.hash \in Hashes, Publish(d, e),
           lock[d] # Free,
           lock' = [lock EXCEPT ![d] = Free],
           UNCHANGED job,
           \A x \in Docs \ {d} : doubt'[x] = doubt[x],
           \A v \in Writers : lock[d] # v =>
              /\ pc'[v] = pc[v]
              /\ txn'[v] = txn[v]
              /\ target'[v] = target[v]
              /\ result'[v] = result[v],
           \A v \in Writers : lock[d] = v =>
              /\ pc'[v] \notin InTransaction
              /\ pc'[v] # "idle" => result'[v].status = "NONE"
              /\ result'[v].status \in {"APPROVED", "UNCHANGED"} =>
                    result'[v].version = e.version /\ e.hash = Hash(v)
    PROVE  PublicationInv'
<1> USE DEF PublicationInv
<1>1. /\ lock \in [Docs -> Writers \cup {Free, Server}]
      /\ store \in [Docs -> KS!Entry]
      BY DEF TypeOK
<1>2. \A v \in Writers : Doc(v) \in Docs /\ Doc(v)' = Doc(v) /\ Hash(v)' = Hash(v)
      BY JobType DEF Doc, Hash
<1>3. /\ HistoryInv'
      /\ \A x \in Docs : \A i \in DOMAIN log[x] :
            i \in DOMAIN log'[x] /\ log'[x][i] = log[x][i]
      /\ e.version \in DOMAIN log'[d]
      /\ log'[d][e.version] = e.hash
      BY PublishHistory
<1>4. LockInv'
  <2>1. ASSUME NEW v \in Writers, pc'[v] \in InTransaction
        PROVE  lock'[Doc(v)] = v
        BY <1>1, <1>2, <2>1 DEF LockInv
  <2>2. ASSUME NEW x \in Docs, NEW v \in Writers, lock'[x] = v
        PROVE  pc'[v] \in InTransaction /\ Doc(v) = x
    <3>1. x # d /\ lock[x] = v
          BY <1>1, <2>2, ConstantsAssumption
    <3>2. lock[d] # v
          BY <3>1 DEF LockInv
    <3> QED BY <3>1, <3>2 DEF LockInv
  <2> QED BY <1>2, <2>1, <2>2 DEF LockInv
<1>5. TxnInv'
  <2>1. ASSUME NEW v \in Writers, lock[d] = v PROVE TxnOf(v)'
        BY <2>1 DEF TxnOf, InTransaction
  <2>2. ASSUME NEW v \in Writers, lock[d] # v, Doc(v) = d PROVE TxnOf(v)'
    <3>1. pc'[v] \notin InTransaction
          BY <2>2 DEF LockInv
    <3> QED BY <3>1 DEF TxnOf, InTransaction
  <2>3. ASSUME NEW v \in Writers, lock[d] # v, Doc(v) # d PROVE TxnOf(v)'
    <3>1. /\ pc'[v] = pc[v] /\ txn'[v] = txn[v] /\ target'[v] = target[v]
          /\ job' = job
          /\ store'[Doc(v)] = store[Doc(v)]
          BY <1>1, <1>2, <2>3 DEF Publish
    <3>2. TxnOf(v)
          BY DEF TxnInv
    <3> QED BY <1>2, <3>1, <3>2 DEF TxnOf
  <2> QED BY <2>1, <2>2, <2>3 DEF TxnInv
<1>6. DoubtInv'
  <2>1. ASSUME NEW x \in Docs, lock'[x] = Server
        PROVE  \E p \in Payloads :
                  /\ store'[x].hash # ContentHash[p]
                  /\ doubt'[x] = KS!Successor(store'[x], p)
    <3>1. x # d /\ lock[x] = Server
          BY <1>1, <2>1, ConstantsAssumption
    <3>2. store'[x] = store[x] /\ doubt'[x] = doubt[x]
          BY <1>1, <3>1 DEF Publish
    <3> QED BY <3>1, <3>2 DEF DoubtInv
  <2> QED BY <2>1 DEF DoubtInv
<1>7. ResultInv'
      BY DEF ResultInv
<1>8. ResultTruthful'
  <2>1. ASSUME NEW v \in Writers,
               result'[v].status \in {"APPROVED", "UNCHANGED"}
        PROVE  /\ result'[v].version \in DOMAIN log'[Doc(v)]
               /\ log'[Doc(v)][result'[v].version] = Hash(v)
    <3>1. CASE lock[d] = v
          BY <1>3, <2>1, <3>1 DEF LockInv
    <3>2. CASE lock[d] # v
          BY <1>2, <1>3, <2>1, <3>2 DEF ResultTruthful
    <3> QED BY <3>1, <3>2
  <2> QED BY <1>2, <2>1 DEF ResultTruthful
<1> QED BY <1>3, <1>4, <1>5, <1>6, <1>7, <1>8

\* The step that leaves the commit of w to its backend.
LEMMA DoubtStep ==
    ASSUME PublicationInv, TypeOK', NEW w \in Writers,
           NEW s \in Stages \ InTransaction,
           pc[w] = "commit", LeaveInDoubt(w), UNCHANGED job,
           pc' = [pc EXCEPT ![w] = s],
           \A v \in Writers \ {w} : result'[v] = result[v],
           s # "idle" => result'[w].status = "NONE",
           result'[w].status \notin {"APPROVED", "UNCHANGED"}
    PROVE  PublicationInv'
<1> USE DEF PublicationInv
<1>1. /\ lock \in [Docs -> Writers \cup {Free, Server}]
      /\ pc \in [Writers -> Stages]
      /\ txn \in [Writers -> KS!Entry]
      /\ target \in [Writers -> Nat]
      /\ doubt \in [Docs -> KS!Entry]
      BY DEF TypeOK
<1>2. \A v \in Writers : Doc(v) \in Docs /\ Doc(v)' = Doc(v) /\ Hash(v)' = Hash(v)
      BY JobType DEF Doc, Hash
<1>3. store' = store /\ log' = log
      BY DEF LeaveInDoubt
<1>4. lock[Doc(w)] = w
      BY DEF LockInv, InTransaction
<1>5. LockInv'
  <2>1. ASSUME NEW v \in Writers, pc'[v] \in InTransaction
        PROVE  lock'[Doc(v)] = v
    <3>1. v # w /\ lock[Doc(v)] = v
          BY <1>1, <2>1 DEF LockInv
    <3> QED BY <1>1, <1>2, <1>4, <3>1 DEF LeaveInDoubt
  <2>2. ASSUME NEW x \in Docs, NEW v \in Writers, lock'[x] = v
        PROVE  pc'[v] \in InTransaction /\ Doc(v) = x
    <3>1. x # Doc(w) /\ lock[x] = v
          BY <1>1, <1>2, <2>2, ConstantsAssumption DEF LeaveInDoubt
    <3>2. v # w
          BY <3>1 DEF LockInv
    <3> QED BY <1>1, <3>1, <3>2 DEF LockInv
  <2> QED BY <1>2, <2>1, <2>2 DEF LockInv
<1>6. TxnInv'
  <2>1. ASSUME NEW v \in Writers, v # w PROVE TxnOf(v)'
    <3>1. /\ pc'[v] = pc[v] /\ txn'[v] = txn[v] /\ target'[v] = target[v]
          /\ job' = job
          BY <1>1, <2>1 DEF LeaveInDoubt, CloseSession
    <3>2. TxnOf(v)
          BY DEF TxnInv
    <3> QED BY <1>2, <1>3, <3>1, <3>2 DEF TxnOf
  <2>2. TxnOf(w)'
        BY <1>1 DEF TxnOf, InTransaction
  <2> QED BY <2>1, <2>2 DEF TxnInv
<1>7. DoubtInv'
  <2>1. /\ store[Doc(w)].hash # ContentHash[job[w].payload]
        /\ txn[w] = KS!Successor(store[Doc(w)], job[w].payload)
        /\ job[w].payload \in Payloads
        BY JobType DEF TxnInv, TxnOf, InTransaction, Hash
  <2>2. doubt'[Doc(w)] = txn[w]
        BY <1>1, <1>2 DEF LeaveInDoubt
  <2>3. ASSUME NEW x \in Docs, x # Doc(w)
        PROVE  doubt'[x] = doubt[x] /\ lock'[x] = lock[x]
        BY <1>1, <2>3 DEF LeaveInDoubt
  <2> QED BY <1>3, <2>1, <2>2, <2>3 DEF DoubtInv
<1>8. HistoryInv'
      BY <1>3 DEF HistoryInv
<1>9. ResultInv' /\ ResultTruthful'
  <2>1. \A v \in Writers : v # w => pc'[v] = pc[v] /\ result'[v] = result[v]
        BY <1>1
  <2>2. pc'[w] = s
        BY <1>1
  <2> QED BY <1>2, <1>3, <2>1, <2>2 DEF ResultInv, ResultTruthful
<1> QED BY <1>5, <1>6, <1>7, <1>8, <1>9

\* Nobody else changes when w writes to the buffer of its own transaction.
LEMMA BufferStep ==
    ASSUME PublicationInv, TypeOK', NEW w \in Writers,
           NEW s \in Stages \cap InTransaction,
           UNCHANGED <<store, lock, doubt, log, job, result>>,
           pc[w] \in InTransaction,
           pc' = [pc EXCEPT ![w] = s],
           \A v \in Writers \ {w} : txn'[v] = txn[v] /\ target'[v] = target[v],
           TxnOf(w)'
    PROVE  PublicationInv'
<1> USE DEF PublicationInv
<1>1. pc \in [Writers -> Stages]
      BY DEF TypeOK
<1>2. \A v \in Writers : Doc(v)' = Doc(v) /\ Hash(v)' = Hash(v)
      BY DEF Doc, Hash
<1>3. s # "idle" /\ pc[w] # "idle"
      BY DEF InTransaction
<1>4. LockInv'
      BY <1>1, <1>2 DEF LockInv
<1>5. TxnInv'
  <2>1. ASSUME NEW v \in Writers, v # w PROVE TxnOf(v)'
    <3>1. /\ pc'[v] = pc[v] /\ txn'[v] = txn[v] /\ target'[v] = target[v]
          /\ job' = job /\ store' = store
          BY <1>1, <2>1
    <3>2. TxnOf(v)
          BY DEF TxnInv
    <3> QED BY <1>2, <3>1, <3>2 DEF TxnOf
  <2> QED BY <2>1 DEF TxnInv
<1>6. HistoryInv' /\ DoubtInv'
      BY DEF HistoryInv, DoubtInv
<1>7. ResultInv' /\ ResultTruthful'
      BY <1>1, <1>2, <1>3 DEF ResultInv, ResultTruthful
<1> QED BY <1>4, <1>5, <1>6, <1>7

\* Steps outside a transaction free no lock.
LEMMA NothingToRelease ==
    ASSUME PublicationInv, NEW w \in Writers, pc[w] \notin InTransaction
    PROVE  lock = [d \in Docs |-> IF lock[d] = w THEN Free ELSE lock[d]]
BY DEF PublicationInv, LockInv, TypeOK

LEMMA PublicationStart ==
    ASSUME PublicationInv, TypeOK', NEW w \in Writers, Start(w)
    PROVE  PublicationInv'
<1> USE DEF PublicationInv
<1>1. pc \in [Writers -> Stages] /\ job \in [Writers -> Job]
         /\ result \in [Writers -> [status : Statuses, version : Nat]]
      BY DEF TypeOK
<1>2. /\ pc[w] = "idle" /\ pc'[w] = "precheck"
      /\ \A v \in Writers \ {w} :
            /\ pc'[v] = pc[v] /\ job'[v] = job[v] /\ result'[v] = result[v]
            /\ Doc(v)' = Doc(v) /\ Hash(v)' = Hash(v)
      /\ result'[w].status = "NONE"
      /\ UNCHANGED <<store, lock, doubt, log, txn, target>>
      BY <1>1 DEF Start, Doc, Hash
<1>3. LockInv'
      BY <1>2 DEF LockInv, InTransaction
<1>4. TxnInv'
  <2>1. ASSUME NEW v \in Writers, v # w PROVE TxnOf(v)'
    <3>1. TxnOf(v)
          BY DEF TxnInv
    <3> QED BY <1>2, <2>1, <3>1 DEF TxnOf
  <2>2. TxnOf(w)'
        BY <1>2 DEF TxnOf, InTransaction
  <2> QED BY <2>1, <2>2 DEF TxnInv
<1>5. HistoryInv' /\ DoubtInv'
      BY <1>2 DEF HistoryInv, DoubtInv
<1>6. ResultInv' /\ ResultTruthful'
      BY <1>2 DEF ResultInv, ResultTruthful
<1> QED BY <1>3, <1>4, <1>5, <1>6

LEMMA PublicationAcquire ==
    ASSUME PublicationInv, TypeOK', NEW w \in Writers, Acquire(w)
    PROVE  PublicationInv'
<1> USE DEF PublicationInv
<1>1. /\ pc \in [Writers -> Stages]
      /\ lock \in [Docs -> Writers \cup {Free, Server}]
      BY DEF TypeOK
<1>2. \A v \in Writers : Doc(v) \in Docs /\ Doc(v)' = Doc(v) /\ Hash(v)' = Hash(v)
      BY JobType DEF Acquire, Doc, Hash
<1>3. /\ lock[Doc(w)] = Free
      /\ lock' = [lock EXCEPT ![Doc(w)] = w]
      /\ UNCHANGED <<store, doubt, log, job, txn, target, result>>
      /\ pc[w] \in {"verify", "enter"}
      /\ pc'[w] \in {"verified", "decide"}
      /\ \A v \in Writers \ {w} : pc'[v] = pc[v]
      BY <1>1 DEF Acquire, GoTo
<1>4. LockInv'
  <2>1. ASSUME NEW v \in Writers, pc'[v] \in InTransaction
        PROVE  lock'[Doc(v)] = v
        BY <1>1, <1>2, <1>3, <2>1, ConstantsAssumption DEF LockInv
  <2>2. ASSUME NEW x \in Docs, NEW v \in Writers, lock'[x] = v
        PROVE  pc'[v] \in InTransaction /\ Doc(v) = x
    <3>1. CASE x = Doc(w)
          BY <1>1, <1>2, <1>3, <2>2, <3>1 DEF InTransaction
    <3>2. CASE x # Doc(w)
      <4>1. lock[x] = v
            BY <1>1, <1>2, <1>3, <2>2, <3>2
      <4>2. v # w
            BY <1>3, <4>1 DEF LockInv, InTransaction
      <4> QED BY <1>3, <4>1, <4>2 DEF LockInv
    <3> QED BY <3>1, <3>2
  <2> QED BY <1>2, <2>1, <2>2 DEF LockInv
<1>5. TxnInv'
  <2>1. ASSUME NEW v \in Writers, v # w PROVE TxnOf(v)'
    <3>1. TxnOf(v)
          BY DEF TxnInv
    <3> QED BY <1>2, <1>3, <2>1, <3>1 DEF TxnOf
  <2>2. TxnOf(w)'
        BY <1>3 DEF TxnOf, InTransaction
  <2> QED BY <2>1, <2>2 DEF TxnInv
<1>6. HistoryInv' /\ DoubtInv'
      BY <1>1, <1>2, <1>3, ConstantsAssumption DEF HistoryInv, DoubtInv
<1>7. ResultInv' /\ ResultTruthful'
      BY <1>2, <1>3 DEF ResultInv, ResultTruthful
<1> QED BY <1>4, <1>5, <1>6, <1>7

\* How the shared helpers read once the types are known.
LEMMA ReleaseFrame ==
    ASSUME TypeOK, NEW w \in Writers, Release(w)
    PROVE  /\ lock' = [d \in Docs |-> IF lock[d] = w THEN Free ELSE lock[d]]
           /\ \A v \in Writers \ {w} :
                 txn'[v] = txn[v] /\ target'[v] = target[v]
BY DEF TypeOK, Release, CloseSession

LEMMA FinishFrame ==
    ASSUME TypeOK, NEW w \in Writers, NEW s, NEW n, Finish(w, s, n)
    PROVE  /\ pc' = [pc EXCEPT ![w] = "idle"]
           /\ result'[w] = [status |-> s, version |-> n]
           /\ \A v \in Writers \ {w} : result'[v] = result[v]
BY DEF TypeOK, Finish

\* A call that ends with an exception or a kill.
LEMMA EndStep ==
    ASSUME PublicationInv, TypeOK', NEW w \in Writers,
           NEW s \in {"RAISED", "KILLED"}, Finish(w, s, 0),
           UNCHANGED <<store, doubt, log, job>>,
           \/ Release(w)
           \/ pc[w] \notin InTransaction /\ UNCHANGED <<lock, txn, target>>
    PROVE  PublicationInv'
<1>1. /\ lock' = [d \in Docs |-> IF lock[d] = w THEN Free ELSE lock[d]]
      /\ \A v \in Writers \ {w} : txn'[v] = txn[v] /\ target'[v] = target[v]
      BY ReleaseFrame, NothingToRelease DEF PublicationInv
<1>2. /\ pc' = [pc EXCEPT ![w] = "idle"]
      /\ result'[w] = [status |-> s, version |-> 0]
      /\ \A v \in Writers \ {w} : result'[v] = result[v]
      BY FinishFrame DEF PublicationInv
<1>3. "idle" \in Stages \ InTransaction
      BY StageNames DEF InTransaction
<1>4. result'[w].status \notin {"APPROVED", "UNCHANGED"}
      BY <1>2
<1> QED BY <1>1, <1>2, <1>3, <1>4, LeaveStep

\* A call that rolls back and goes on outside the transaction.
LEMMA RollbackStep ==
    ASSUME PublicationInv, TypeOK', NEW w \in Writers,
           NEW s \in {"compensate", "prepare"}, GoTo(w, s), pc[w] # "idle",
           UNCHANGED <<store, doubt, log, job>>, Release(w)
    PROVE  PublicationInv'
<1>1. /\ lock' = [d \in Docs |-> IF lock[d] = w THEN Free ELSE lock[d]]
      /\ \A v \in Writers \ {w} : txn'[v] = txn[v] /\ target'[v] = target[v]
      BY ReleaseFrame DEF PublicationInv
<1>2. pc' = [pc EXCEPT ![w] = s] /\ result' = result
      BY DEF GoTo
<1>3. s \in Stages \ InTransaction
      BY StageNames DEF InTransaction
<1>4. result[w].status = "NONE"
      BY DEF PublicationInv, ResultInv
<1> QED BY <1>1, <1>2, <1>3, <1>4, LeaveStep

\* A call that answers UNCHANGED from what it read under the lock.
LEMMA AnswerStep ==
    ASSUME PublicationInv, TypeOK', NEW w \in Writers,
           Finish(w, "UNCHANGED", store[Doc(w)].version),
           store[Doc(w)].hash = Hash(w),
           UNCHANGED <<store, doubt, log, job>>, Release(w)
    PROVE  PublicationInv'
<1>1. /\ lock' = [d \in Docs |-> IF lock[d] = w THEN Free ELSE lock[d]]
      /\ \A v \in Writers \ {w} : txn'[v] = txn[v] /\ target'[v] = target[v]
      BY ReleaseFrame DEF PublicationInv
<1>2. /\ pc' = [pc EXCEPT ![w] = "idle"]
      /\ result'[w] = [status |-> "UNCHANGED", version |-> store[Doc(w)].version]
      /\ \A v \in Writers \ {w} : result'[v] = result[v]
      BY FinishFrame DEF PublicationInv
<1>3. "idle" \in Stages \ InTransaction
      BY StageNames DEF InTransaction
<1>4. /\ store[Doc(w)].version \in DOMAIN log[Doc(w)]
      /\ log[Doc(w)][store[Doc(w)].version] = Hash(w)
      BY CurrentHash DEF PublicationInv
<1>5. result'[w].version = store[Doc(w)].version
      BY <1>2
<1> QED BY <1>1, <1>2, <1>3, <1>4, <1>5, LeaveStep

\* What a writer is about to commit.
LEMMA ReadyToCommit ==
    ASSUME PublicationInv, NEW w \in Writers, pc[w] = "commit"
    PROVE  /\ txn[w] \in KS!Entry
           /\ txn[w] = KS!Successor(store[Doc(w)], job[w].payload)
           /\ txn[w].version = store[Doc(w)].version + 1
           /\ txn[w].hash = Hash(w) /\ txn[w].hash \in Hashes
           /\ target[w] = store[Doc(w)].version + 1
           /\ store[Doc(w)].hash # Hash(w)
           /\ lock[Doc(w)] = w
           /\ \A d \in Docs : lock[d] = w => d = Doc(w)
<1>1. pc[w] \in InTransaction /\ txn[w] \in KS!Entry
      BY DEF InTransaction, PublicationInv, TypeOK
<1>2. /\ txn[w] = KS!Successor(store[Doc(w)], job[w].payload)
      /\ target[w] = store[Doc(w)].version + 1
      /\ store[Doc(w)].hash # Hash(w)
      BY DEF PublicationInv, TxnInv, TxnOf, InTransaction
<1>3. /\ txn[w].version = store[Doc(w)].version + 1
      /\ txn[w].hash = Hash(w) /\ txn[w].hash \in Hashes
      BY <1>2, JobType DEF KS!Successor, Hash, PublicationInv
<1> QED BY <1>1, <1>2, <1>3 DEF PublicationInv, LockInv

\* COMMIT taking effect while its writer is still there to see the end of it.
LEMMA CommitStep ==
    ASSUME PublicationInv, TypeOK', NEW w \in Writers,
           NEW s \in Stages \ InTransaction,
           pc[w] = "commit", Publish(Doc(w), txn[w]), Release(w),
           UNCHANGED <<doubt, job>>,
           pc' = [pc EXCEPT ![w] = s],
           \A v \in Writers \ {w} : result'[v] = result[v],
           s # "idle" => result'[w].status = "NONE",
           result'[w].status \in {"APPROVED", "UNCHANGED"} =>
              result'[w].version = target[w]
    PROVE  PublicationInv'
<1>1. Doc(w) \in Docs /\ lock \in [Docs -> Writers \cup {Free, Server}]
         /\ pc \in [Writers -> Stages]
      BY JobType DEF PublicationInv, TypeOK
<1>2. lock' = [lock EXCEPT ![Doc(w)] = Free]
      BY <1>1, ReadyToCommit, ReleaseFrame DEF PublicationInv
<1>3. lock[Doc(w)] # Free
      BY ReadyToCommit, ConstantsAssumption
<1>4. ASSUME NEW v \in Writers, lock[Doc(w)] # v
      PROVE  /\ pc'[v] = pc[v]
             /\ txn'[v] = txn[v]
             /\ target'[v] = target[v]
             /\ result'[v] = result[v]
      BY <1>1, <1>4, ReadyToCommit, ReleaseFrame DEF PublicationInv
<1>5. ASSUME NEW v \in Writers, lock[Doc(w)] = v
      PROVE  /\ pc'[v] \notin InTransaction
             /\ pc'[v] # "idle" => result'[v].status = "NONE"
             /\ result'[v].status \in {"APPROVED", "UNCHANGED"} =>
                   result'[v].version = txn[w].version /\ txn[w].hash = Hash(v)
      BY <1>1, <1>5, ReadyToCommit
<1>6. /\ txn[w] \in KS!Entry
      /\ txn[w].version = store[Doc(w)].version + 1
      /\ txn[w].hash \in Hashes
      /\ UNCHANGED job
      /\ \A x \in Docs \ {Doc(w)} : doubt'[x] = doubt[x]
      BY ReadyToCommit
<1> QED BY <1>1, <1>2, <1>3, <1>4, <1>5, <1>6, PublishStep, ZenonT(40)

LEMMA PublicationSettle ==
    ASSUME PublicationInv, TypeOK', NEW d \in Docs, Settle(d)
    PROVE  PublicationInv'
<1>1. /\ lock \in [Docs -> Writers \cup {Free, Server}]
      /\ doubt \in [Docs -> KS!Entry]
      /\ lock[d] = Server
      /\ \A v \in Writers : lock[d] # v
      BY ConstantsAssumption DEF PublicationInv, TypeOK, Settle
<1>2. CASE Publish(d, doubt[d])
  <2>1. /\ doubt[d] \in KS!Entry /\ doubt[d].version = store[d].version + 1
        /\ doubt[d].hash \in Hashes
        BY <1>1, ConstantsAssumption DEF PublicationInv, DoubtInv, KS!Successor
  <2>2. /\ lock' = [lock EXCEPT ![d] = Free]
        /\ UNCHANGED <<job, pc, txn, target, result>>
        /\ \A x \in Docs \ {d} : doubt'[x] = doubt[x]
        BY <1>1 DEF Settle
  <2> QED BY <1>1, <1>2, <2>1, <2>2, PublishStep, ConstantsAssumption,
             ZenonT(40)
<1>3. CASE UNCHANGED <<store, log>>
  <2>1. UNCHANGED <<store, log, job, pc, txn, target, result>>
        BY <1>3 DEF Settle
  <2>2. /\ \A x \in Docs \ {d} : lock'[x] = lock[x] /\ doubt'[x] = doubt[x]
        /\ lock'[d] = Free
        BY <1>1 DEF Settle
  <2>3. LockInv'
        BY <1>1, <2>1, <2>2, ConstantsAssumption, JobType
        DEF PublicationInv, LockInv, Doc
  <2>4. TxnInv'
        BY <2>1 DEF PublicationInv, TxnInv, TxnOf, Doc, Hash
  <2>5. HistoryInv' /\ ResultInv' /\ ResultTruthful'
        BY <2>1 DEF PublicationInv, HistoryInv, ResultInv, ResultTruthful,
                    Doc, Hash
  <2>6. DoubtInv'
        BY <2>1, <2>2, ConstantsAssumption DEF PublicationInv, DoubtInv
  <2> QED BY <2>3, <2>4, <2>5, <2>6 DEF PublicationInv
<1> QED BY <1>2, <1>3 DEF Settle

\* The last write of a transaction, of the chunks, completes the successor.
LEMMA ChunksComplete ==
    ASSUME NEW e \in KS!Entry, NEW p
    PROVE  [[KS!Successor(e, p) EXCEPT !.chunks = e.chunks]
                EXCEPT !.chunks = {ContentHash[p]}] = KS!Successor(e, p)
<1> DEFINE K == [hash |-> ContentHash[p], version |-> e.version + 1,
                 chunks |-> e.chunks,
                 structured |-> IF p \in Structured THEN p ELSE e.structured]
<1>1. [KS!Successor(e, p) EXCEPT !.chunks = e.chunks] = K
      BY DEF KS!Successor
<1>2. [K EXCEPT !.chunks = {ContentHash[p]}] = KS!Successor(e, p)
      BY DEF KS!Successor
<1> QED BY <1>1, <1>2

\* The same for the two writes before it.
LEMMA BufferShape ==
    ASSUME NEW e \in KS!Entry, NEW p
    PROVE  /\ [e EXCEPT !.hash = ContentHash[p], !.version = e.version + 1]
                 = [KS!Successor(e, p) EXCEPT !.chunks = e.chunks,
                                              !.structured = e.structured]
           /\ (IF p \in Structured
                 THEN [[KS!Successor(e, p) EXCEPT
                           !.chunks = e.chunks,
                           !.structured = e.structured] EXCEPT !.structured = p]
                 ELSE [KS!Successor(e, p) EXCEPT !.chunks = e.chunks,
                                                 !.structured = e.structured])
                 = [KS!Successor(e, p) EXCEPT !.chunks = e.chunks]
<1> DEFINE M == [hash |-> ContentHash[p], version |-> e.version + 1,
                 chunks |-> e.chunks, structured |-> e.structured]
           K == [hash |-> ContentHash[p], version |-> e.version + 1,
                 chunks |-> e.chunks,
                 structured |-> IF p \in Structured THEN p ELSE e.structured]
<1>1. e = [hash |-> e.hash, version |-> e.version,
           chunks |-> e.chunks, structured |-> e.structured]
      BY DEF KS!Entry
<1>2. [e EXCEPT !.hash = ContentHash[p], !.version = e.version + 1] = M
  <2> DEFINE h == [e EXCEPT !.hash = ContentHash[p]]
  <2>1. h = [hash |-> ContentHash[p], version |-> e.version,
             chunks |-> e.chunks, structured |-> e.structured]
        BY <1>1
  <2> HIDE DEF h
  <2>2. [h EXCEPT !.version = e.version + 1] = M
        BY <2>1
  <2> QED BY <2>2 DEF h
<1>3. [KS!Successor(e, p) EXCEPT !.chunks = e.chunks,
                                 !.structured = e.structured] = M
  <2> DEFINE c == [KS!Successor(e, p) EXCEPT !.chunks = e.chunks]
  <2>1. c = K
        BY DEF KS!Successor
  <2> HIDE DEF c
  <2>2. [c EXCEPT !.structured = e.structured] = M
        BY <2>1
  <2> QED BY <2>2 DEF c
<1>4. [KS!Successor(e, p) EXCEPT !.chunks = e.chunks] = K
      BY DEF KS!Successor
<1>5. (IF p \in Structured THEN [M EXCEPT !.structured = p] ELSE M) = K
      OBVIOUS
<1> QED BY <1>2, <1>3, <1>4, <1>5

\* The invariant does not mention the files nor the coordinator's flag.
LEMMA PublicationFrame ==
    ASSUME PublicationInv, TypeOK',
           UNCHANGED <<store, lock, doubt, log, job, txn, target, pc, result>>
    PROVE  PublicationInv'
<1>1. LockInv' BY DEF PublicationInv, LockInv, Doc
<1>2. HistoryInv' BY DEF PublicationInv, HistoryInv
<1>3. TxnInv' BY DEF PublicationInv, TxnInv, TxnOf, At, Doc, Hash
<1>4. DoubtInv' BY DEF PublicationInv, DoubtInv
<1>5. ResultInv' BY DEF PublicationInv, ResultInv, At
<1>6. ResultTruthful' BY DEF PublicationInv, ResultTruthful, Doc, Hash
<1> QED BY <1>1, <1>2, <1>3, <1>4, <1>5, <1>6 DEF PublicationInv

LEMMA PublicationStep == PublicationInv /\ [Next]_vars => PublicationInv'
<1>1. SUFFICES ASSUME PublicationInv, [Next]_vars PROVE PublicationInv'
      OBVIOUS
<1> USE <1>1
<1>2. TypeOK /\ TypeOK'
      BY TypeStep DEF PublicationInv
<1>3. ASSUME NEW w \in Writers, Start(w) PROVE PublicationInv'
      BY <1>2, <1>3, PublicationStart
<1>4. ASSUME NEW w \in Writers, Acquire(w) PROVE PublicationInv'
      BY <1>2, <1>4, PublicationAcquire
<1>5. ASSUME NEW w \in Writers, CleanupStaleStaging(w) PROVE PublicationInv'
  <2>1. UNCHANGED <<store, lock, doubt, log, job, txn, target, pc, result>>
        BY <1>5 DEF CleanupStaleStaging
  <2> QED BY <1>2, <2>1, PublicationFrame
<1>6. ASSUME NEW w \in Writers, Progress(w) PROVE PublicationInv'
  <2>1. CASE Precheck(w)
        BY <1>2, <2>1, StageNames, LocalStep DEF Precheck, GoTo, InTransaction
  <2>2. CASE Verify(w)
        BY <1>2, <2>2, AnswerStep, RollbackStep DEF Verify
  <2>3. CASE Prepare(w)
        BY <1>2, <2>3, StageNames, LocalStep DEF Prepare, GoTo, InTransaction
  <2>4. CASE Stage(w)
        BY <1>2, <2>4, StageNames, LocalStep DEF Stage, GoTo, InTransaction
  <2>5. CASE DecideUnchanged(w)
        BY <1>2, <2>5, AnswerStep, RollbackStep DEF DecideUnchanged
  <2>6. CASE DecideChanged(w)
    <3>1. /\ pc'[w] = "promote" /\ txn'[w] = store[Doc(w)]
          /\ target'[w] = store[Doc(w)].version + 1
          /\ store[Doc(w)].hash # Hash(w)
          /\ \A v \in Writers \ {w} :
                txn'[v] = txn[v] /\ target'[v] = target[v]
          BY <1>2, <2>6 DEF TypeOK, DecideChanged, GoTo
    <3>2. TxnOf(w)'
          BY <2>6, <3>1 DEF DecideChanged, TxnOf, Doc, Hash
    <3>3. pc[w] \in InTransaction /\ "promote" \in Stages \cap InTransaction
          BY <2>6, StageNames DEF DecideChanged, InTransaction
    <3> QED BY <1>2, <2>6, <3>1, <3>2, <3>3, BufferStep DEF DecideChanged, GoTo
  <2>7. CASE PromoteOverExisting(w)
        BY <1>2, <2>7, StageNames, LocalStep DEF PromoteOverExisting, GoTo
  <2>8. CASE Link(w)
        BY <1>2, <2>8, StageNames, LocalStep DEF Link, Promoted, GoTo
  <2>9. CASE CopyBegin(w)
        BY <1>2, <2>9, StageNames, LocalStep DEF CopyBegin, GoTo
  <2>10. CASE CopyEnd(w)
    <3>1. CASE Promoted(w) /\ UNCHANGED <<lock, txn, target, faulted>>
          BY <1>2, <2>10, <3>1, StageNames, LocalStep DEF CopyEnd, Promoted
    <3>2. CASE GoTo(w, "compensate") /\ Release(w)
          BY <1>2, <2>10, <3>2, RollbackStep DEF CopyEnd
    <3> QED BY <2>10, <3>1, <3>2 DEF CopyEnd
  <2>11. CASE AcceptExisting(w)
        BY <1>2, <2>11, StageNames, LocalStep DEF AcceptExisting, Promoted
  <2>12. CASE RejectPromotion(w)
        BY <1>2, <2>12, RollbackStep DEF RejectPromotion
  <2>13. CASE PersistDocument(w)
    <3>1. /\ pc[w] = "document" /\ pc'[w] = "structured"
          /\ txn[w] = store[Doc(w)]
          /\ target[w] = store[Doc(w)].version + 1
          /\ store[Doc(w)].hash # Hash(w)
          /\ store[Doc(w)] \in KS!Entry
          BY <1>2, <2>13, JobType
          DEF PersistDocument, GoTo, PublicationInv, TxnInv, TxnOf, TypeOK,
              InTransaction
    <3>2. /\ txn'[w] = [txn[w] EXCEPT !.hash = Hash(w), !.version = target[w]]
          /\ \A v \in Writers \ {w} : txn'[v] = txn[v]
          /\ UNCHANGED <<store, job, target>>
          BY <1>2, <2>13 DEF TypeOK, PersistDocument
    <3>3. TxnOf(w)'
      <4>1. txn'[w] = [KS!Successor(store[Doc(w)], job[w].payload) EXCEPT
                          !.chunks = store[Doc(w)].chunks,
                          !.structured = store[Doc(w)].structured]
        <5> DEFINE e == store[Doc(w)]
                   p == job[w].payload
        <5>1. e \in KS!Entry
              BY <3>1
        <5>2. txn'[w] = [e EXCEPT !.hash = ContentHash[p],
                                  !.version = e.version + 1]
              BY <3>1, <3>2 DEF Hash
        <5> HIDE DEF e, p
        <5>3. txn'[w] = [KS!Successor(e, p) EXCEPT !.chunks = e.chunks,
                                                   !.structured = e.structured]
              BY <5>1, <5>2, BufferShape
        <5> QED BY <5>3 DEF e, p
      <4> QED BY <3>1, <3>2, <4>1 DEF TxnOf, Doc, Hash, InTransaction
    <3>4. pc[w] \in InTransaction /\ "structured" \in Stages \cap InTransaction
          BY <3>1, StageNames DEF InTransaction
    <3> QED BY <1>2, <2>13, <3>2, <3>3, <3>4, BufferStep
            DEF PersistDocument, GoTo
  <2>14. CASE PersistStructured(w)
    <3>1. /\ pc[w] = "structured" /\ pc'[w] = "chunks"
          /\ txn[w] = [KS!Successor(store[Doc(w)], job[w].payload) EXCEPT
                          !.chunks = store[Doc(w)].chunks,
                          !.structured = store[Doc(w)].structured]
          /\ target[w] = store[Doc(w)].version + 1
          /\ store[Doc(w)].hash # Hash(w)
          BY <1>2, <2>14
          DEF PersistStructured, GoTo, PublicationInv, TxnInv, TxnOf, TypeOK,
              InTransaction
    <3>2. /\ txn'[w] = IF job[w].payload \in Structured
                         THEN [txn[w] EXCEPT !.structured = job[w].payload]
                         ELSE txn[w]
          /\ \A v \in Writers \ {w} : txn'[v] = txn[v]
          /\ UNCHANGED <<store, job, target>>
          BY <1>2, <2>14 DEF TypeOK, PersistStructured
    <3>3. TxnOf(w)'
      <4>1. store[Doc(w)] \in KS!Entry
            BY <1>2, JobType DEF TypeOK
      <4>2. txn'[w] = [KS!Successor(store[Doc(w)], job[w].payload) EXCEPT
                          !.chunks = store[Doc(w)].chunks]
            BY <3>1, <3>2, <4>1, BufferShape
      <4> QED BY <3>1, <3>2, <4>2 DEF TxnOf, Doc, Hash, InTransaction
    <3>4. pc[w] \in InTransaction /\ "chunks" \in Stages \cap InTransaction
          BY <3>1, StageNames DEF InTransaction
    <3> QED BY <1>2, <2>14, <3>2, <3>3, <3>4, BufferStep
            DEF PersistStructured, GoTo
  <2>15. CASE PersistChunks(w)
    <3>1. /\ pc[w] = "chunks" /\ pc'[w] = "commit"
          /\ txn[w] = [KS!Successor(store[Doc(w)], job[w].payload) EXCEPT
                          !.chunks = store[Doc(w)].chunks]
          /\ target[w] = store[Doc(w)].version + 1
          /\ store[Doc(w)].hash # Hash(w)
          BY <1>2, <2>15
          DEF PersistChunks, GoTo, PublicationInv, TxnInv, TxnOf, TypeOK,
              InTransaction
    <3>2. /\ txn'[w] = [txn[w] EXCEPT !.chunks = {Hash(w)}]
          /\ \A v \in Writers \ {w} : txn'[v] = txn[v]
          /\ UNCHANGED <<store, job, target>>
          BY <1>2, <2>15 DEF TypeOK, PersistChunks
    <3>3. TxnOf(w)'
      <4>1. store[Doc(w)] \in KS!Entry
            BY <1>2, JobType DEF TypeOK
      <4>2. txn'[w] = KS!Successor(store[Doc(w)], job[w].payload)
            BY <3>1, <3>2, <4>1, ChunksComplete DEF Hash
      <4> QED BY <3>1, <3>2, <4>2, SMTT(20) DEF TxnOf, Doc, Hash, InTransaction
    <3>4. pc[w] \in InTransaction /\ "commit" \in Stages \cap InTransaction
          BY <3>1, StageNames DEF InTransaction
    <3> QED BY <1>2, <2>15, <3>2, <3>3, <3>4, BufferStep
            DEF PersistChunks, GoTo
  <2>16. CASE Commit(w)
    <3>1. /\ pc' = [pc EXCEPT ![w] = "idle"]
          /\ result'[w] = [status |-> "APPROVED", version |-> target[w]]
          /\ \A v \in Writers \ {w} : result'[v] = result[v]
          BY <1>2, <2>16, FinishFrame DEF Commit
    <3>2. result'[w].version = target[w]
          BY <3>1
    <3>3. "idle" \in Stages \ InTransaction
          BY StageNames DEF InTransaction
    <3> QED BY <1>2, <2>16, <3>1, <3>2, <3>3, CommitStep DEF Commit
  <2>17. CASE CompensateStaged(w)
        BY <1>2, <2>17, EndStep DEF CompensateStaged, InTransaction
  <2>18. CASE CompensatePromoted(w)
    <3>1. CASE Finish(w, "RAISED", 0)
          BY <1>2, <2>18, <3>1, EndStep DEF CompensatePromoted, InTransaction
    <3>2. CASE GoTo(w, "remove")
          BY <1>2, <2>18, <3>2, StageNames, LocalStep
          DEF CompensatePromoted, GoTo, InTransaction
    <3> QED BY <2>18, <3>1, <3>2 DEF CompensatePromoted
  <2>19. CASE RemoveUnreferenced(w)
        BY <1>2, <2>19, EndStep DEF RemoveUnreferenced, InTransaction
  <2> QED BY <1>6, <2>1, <2>2, <2>3, <2>4, <2>5, <2>6, <2>7, <2>8, <2>9,
             <2>10, <2>11, <2>12, <2>13, <2>14, <2>15, <2>16, <2>17, <2>18,
             <2>19 DEF Progress
<1>7. ASSUME NEW w \in Writers, Trouble(w) PROVE PublicationInv'
  <2>1. CASE StageFails(w)
        BY <1>2, <2>1, EndStep DEF StageFails, InTransaction
  <2>2. CASE FailsEarly(w)
        BY <1>2, <2>2, EndStep DEF FailsEarly
  <2>3. CASE Fails(w)
        BY <1>2, <2>3, RollbackStep DEF Fails, Guarded
  <2>4. CASE CommitFails(w)
    <3>1. /\ pc[w] = "commit" /\ GoTo(w, "compensate") /\ UNCHANGED job
          /\ pc' = [pc EXCEPT ![w] = "compensate"] /\ result' = result
          /\ "compensate" \in Stages \ InTransaction
          BY <2>4, StageNames DEF CommitFails, GoTo, InTransaction
    <3>2. result[w].status = "NONE"
          BY <3>1 DEF PublicationInv, ResultInv
    <3>3. CASE Release(w) /\ UNCHANGED <<store, log, doubt>>
          BY <1>2, <3>1, <3>3, RollbackStep
    <3>4. CASE Publish(Doc(w), txn[w]) /\ Release(w) /\ UNCHANGED doubt
          BY <1>2, <3>1, <3>2, <3>4, CommitStep
    <3>5. CASE LeaveInDoubt(w)
          BY <1>2, <3>1, <3>2, <3>5, DoubtStep
    <3> QED BY <2>4, <3>3, <3>4, <3>5 DEF CommitFails
  <2>5. CASE CompensateUnknown(w)
        BY <1>2, <2>5, EndStep DEF CompensateUnknown, InTransaction
  <2>6. CASE Crash(w)
    <3>1. CASE Release(w) /\ UNCHANGED <<store, log, doubt>>
          BY <1>2, <2>6, <3>1, EndStep DEF Crash
    <3>2. CASE pc[w] = "commit" /\ LeaveInDoubt(w)
      <4>1. /\ pc' = [pc EXCEPT ![w] = "idle"]
            /\ result'[w] = [status |-> "KILLED", version |-> 0]
            /\ \A v \in Writers \ {w} : result'[v] = result[v]
            BY <1>2, <2>6, FinishFrame DEF Crash
      <4>2. result'[w].status \notin {"APPROVED", "UNCHANGED"}
            BY <4>1
      <4>3. "idle" \in Stages \ InTransaction
            BY StageNames DEF InTransaction
      <4> QED BY <1>2, <2>6, <3>2, <4>1, <4>2, <4>3, DoubtStep, ZenonT(40)
              DEF Crash
    <3> QED BY <2>6, <3>1, <3>2 DEF Crash
  <2> QED BY <1>7, <2>1, <2>2, <2>3, <2>4, <2>5, <2>6 DEF Trouble
<1>8. ASSUME NEW d \in Docs, Settle(d) PROVE PublicationInv'
      BY <1>2, <1>8, PublicationSettle
<1>9. CASE UNCHANGED vars
      BY <1>2, <1>9, PublicationFrame DEF vars
<1> QED BY <1>1, <1>3, <1>4, <1>5, <1>6, <1>7, <1>8, <1>9 DEF Next

\* The advisory lock serialises the transactions on a document: the version
\* counts the commits, and a transaction writes the successor of the entry it
\* has read under the lock.
THEOREM PublicationCorrect == Spec => []PublicationInv
BY PublicationInit, PublicationStep, PTL DEF Spec

\* An APPROVED or UNCHANGED answer names a version that holds the content the
\* caller submitted, however other writers, crashes and lost acknowledgements
\* interleave.
THEOREM AnswersTruthful == Spec => []ResultTruthful
<1>1. PublicationInv => ResultTruthful
      BY DEF PublicationInv
<1> QED BY <1>1, PublicationCorrect, PTL

-----------------------------------------------------------------------------
(* Implementation of the abstract store.                                     *)

LEMMA StoreStep ==
    ASSUME PublicationInv, [Next]_vars
    PROVE  [KS!Next]_store
<1>1. ASSUME NEW w \in Writers, pc[w] = "commit", Publish(Doc(w), txn[w])
      PROVE  KS!Next
  <2>1. /\ Doc(w) \in Docs /\ job[w].payload \in Payloads
        /\ txn[w] = KS!Successor(store[Doc(w)], job[w].payload)
        /\ store[Doc(w)].hash # ContentHash[job[w].payload]
        BY <1>1, ReadyToCommit, JobType DEF PublicationInv, Hash
  <2>2. store' = [store EXCEPT ![Doc(w)] = txn[w]]
        BY <1>1 DEF Publish
  <2>3. KS!Publish(Doc(w), job[w].payload)
        BY <2>1, <2>2 DEF KS!Publish
  <2> QED BY <2>1, <2>3 DEF KS!Next
<1>2. ASSUME NEW d \in Docs, lock[d] = Server, Publish(d, doubt[d])
      PROVE  KS!Next
  <2>1. PICK p \in Payloads : /\ store[d].hash # ContentHash[p]
                              /\ doubt[d] = KS!Successor(store[d], p)
        BY <1>2 DEF PublicationInv, DoubtInv
  <2> QED BY <1>2, <2>1 DEF Publish, KS!Next, KS!Publish
<1>3. ASSUME NEW w \in Writers, Start(w) \/ Acquire(w) \/ CleanupStaleStaging(w)
      PROVE  UNCHANGED store
      BY <1>3 DEF Start, Acquire, CleanupStaleStaging
<1>4. ASSUME NEW w \in Writers, Progress(w)
      PROVE  KS!Next \/ UNCHANGED store
      BY <1>1, <1>4
      DEF Progress, Precheck, Verify, Prepare, Stage, DecideUnchanged,
          DecideChanged, PromoteOverExisting, Link, CopyBegin, CopyEnd,
          AcceptExisting, RejectPromotion, PersistDocument, PersistStructured,
          PersistChunks, Commit, CompensateStaged, CompensatePromoted,
          RemoveUnreferenced
<1>5. ASSUME NEW w \in Writers, Trouble(w)
      PROVE  KS!Next \/ UNCHANGED store
      BY <1>1, <1>5
      DEF Trouble, StageFails, FailsEarly, Fails, CommitFails, LeaveInDoubt,
          CompensateUnknown, Crash
<1>6. ASSUME NEW d \in Docs, Settle(d)
      PROVE  KS!Next \/ UNCHANGED store
      BY <1>2, <1>6 DEF Settle
<1>7. CASE UNCHANGED vars
      BY <1>7 DEF vars
<1> QED BY <1>3, <1>4, <1>5, <1>6, <1>7 DEF Next

\* The ingestion path implements KnowledgeStore: what readers of the database
\* can see is a sequence of whole publications, one version at a time.
THEOREM ImplementsStore == Spec => PublishesAtomically
<1>1. Init => KS!Init
      BY DEF Init, KS!Init
<1>2. PublicationInv /\ [Next]_vars => [KS!Next]_store
      BY StoreStep
<1> QED BY <1>1, <1>2, PublicationCorrect, PTL DEF Spec, PublishesAtomically, KS!Spec

-----------------------------------------------------------------------------
(* Artifacts.  Both results need that no content is handled by two writers   *)
(* and that a COMMIT is never left in doubt: the runs on shared content and  *)
(* the note on "indoubt" in the README show what happens otherwise.          *)

Persisting == {"document", "structured", "chunks", "commit"}

LEMMA DistinctContent ==
    ASSUME ExclusiveContent, TypeOK, \A u \in Writers : job[u] \in Jobs[u],
           NEW v \in Writers, NEW w \in Writers, v # w
    PROVE  Content(v) # Content(w)
BY DEF ExclusiveContent, Content, Doc, Hash

LEMMA ArtifactInit == Init => ArtifactInv
<1>1. SUFFICES ASSUME Init PROVE ArtifactInv
      OBVIOUS
<1>2. \A w \in Writers : job[w] \in Jobs[w]
  <2>1. \A w \in Writers : (CHOOSE j \in Jobs[w] : TRUE) \in Jobs[w]
        BY ConstantsAssumption
  <2> QED BY <1>1, <2>1 DEF Init
<1> QED BY <1>1, <1>2, ConstantsAssumption
        DEF Init, ArtifactInv, ArtifactBacked, KS!NoEntry

\* A step of w that changes neither rows nor jobs, touches no file but its
\* own, which it does not take away, and reaches the writes of its transaction
\* or the removal of its artifact only when the file and the row allow it.
LEMMA ArtifactFrame ==
    ASSUME ArtifactInv, PublicationInv, ExclusiveContent, NEW w \in Writers,
           UNCHANGED <<store, job>>,
           \A d \in Docs : lock'[d] # Server,
           \A v \in Writers \ {w} : pc'[v] = pc[v],
           \A c \in Docs \X Hashes :
              c # Content(w) => approved'[c] = approved[c],
           approved[Content(w)] = "intact" => approved'[Content(w)] = "intact",
           pc'[w] \in Persisting =>
              pc[w] \in Persisting \/ approved'[Content(w)] = "intact",
           pc'[w] = "copy" => approved'[Content(w)] = "partial",
           pc'[w] = "remove" => store[Doc(w)].hash # Hash(w)
    PROVE  ArtifactInv'
<1>1. \A v \in Writers :
         /\ Doc(v)' = Doc(v) /\ Hash(v)' = Hash(v) /\ Content(v)' = Content(v)
         /\ Content(v) \in Docs \X Hashes
      BY JobType DEF PublicationInv, Doc, Hash, Content
<1>2. ASSUME NEW v \in Writers, v # w
      PROVE  approved'[Content(v)] = approved[Content(v)]
      BY <1>1, <1>2, DistinctContent DEF PublicationInv, ArtifactInv
<1>3. ASSUME NEW d \in Docs, store[d].version > 0
      PROVE  approved'[<<d, store[d].hash>>] = "intact"
  <2>1. approved[<<d, store[d].hash>>] = "intact"
        BY <1>3 DEF ArtifactInv, ArtifactBacked
  <2>2. store[d].hash \in Hashes
        BY <1>3 DEF PublicationInv, HistoryInv
  <2> QED BY <2>1, <2>2
<1>4. ArtifactBacked'
      BY <1>3 DEF ArtifactBacked
<1>5. ASSUME NEW v \in Writers
      PROVE  /\ pc'[v] \in Persisting => approved'[Content(v)] = "intact"
             /\ pc'[v] = "copy" => approved'[Content(v)] = "partial"
             /\ pc'[v] = "remove" => store[Doc(v)].hash # Hash(v)
      BY <1>2 DEF ArtifactInv, Persisting
<1> QED BY <1>1, <1>4, <1>5 DEF ArtifactInv, Persisting

\* A step that commits the content of w, whose artifact is in place.
LEMMA ArtifactPublish ==
    ASSUME ArtifactInv, PublicationInv, ExclusiveContent, NEW w \in Writers,
           pc[w] = "commit", Publish(Doc(w), txn[w]),
           UNCHANGED <<job, approved>>,
           \A d \in Docs : lock'[d] # Server,
           pc'[w] \notin Persisting \cup {"remove", "copy"},
           \A v \in Writers \ {w} : pc'[v] = pc[v]
    PROVE  ArtifactInv'
<1>1. \A v \in Writers :
         /\ Doc(v)' = Doc(v) /\ Hash(v)' = Hash(v) /\ Content(v)' = Content(v)
         /\ Doc(v) \in Docs
      BY JobType DEF PublicationInv, Doc, Hash, Content
<1>2. /\ store'[Doc(w)].hash = Hash(w)
      /\ \A d \in Docs \ {Doc(w)} : store'[d] = store[d]
      BY <1>1, ReadyToCommit DEF PublicationInv, TypeOK, Publish
<1>3. approved[<<Doc(w), Hash(w)>>] = "intact"
      BY DEF ArtifactInv, Content
<1>4. ArtifactBacked'
      BY <1>2, <1>3 DEF ArtifactInv, ArtifactBacked
<1>5. \A v \in Writers : job[v] \in Jobs[v]
      BY DEF ArtifactInv
<1>6. ASSUME NEW v \in Writers, pc'[v] = "remove"
      PROVE  store'[Doc(v)].hash # Hash(v)
  <2>1. v # w /\ pc[v] = "remove"
        BY <1>6
  <2>2. store[Doc(v)].hash # Hash(v)
        BY <2>1 DEF ArtifactInv
  <2>3. Doc(v) = Doc(w) => Hash(v) # Hash(w)
        BY <1>5, <2>1, DistinctContent DEF PublicationInv, Content
  <2> QED BY <1>1, <1>2, <2>2, <2>3
<1>7. \A v \in Writers :
         /\ pc'[v] \in Persisting => approved'[Content(v)] = "intact"
         /\ pc'[v] = "copy" => approved'[Content(v)] = "partial"
      BY DEF ArtifactInv, Persisting
<1> QED BY <1>1, <1>4, <1>5, <1>6, <1>7 DEF ArtifactInv, Persisting

\* The removal of an artifact no row refers to and no other writer handles.
LEMMA ArtifactRemove ==
    ASSUME ArtifactInv, PublicationInv, ExclusiveContent, NEW w \in Writers,
           RemoveUnreferenced(w)
    PROVE  ArtifactInv'
<1>1. /\ pc \in [Writers -> Stages]
      /\ \A c \in Docs \X Hashes :
            c # Content(w) => approved'[c] = approved[c]
      /\ \A v \in Writers :
            /\ Doc(v)' = Doc(v) /\ Hash(v)' = Hash(v) /\ Content(v)' = Content(v)
            /\ Content(v) \in Docs \X Hashes
            /\ Doc(v) \in Docs
      BY JobType
      DEF PublicationInv, TypeOK, RemoveUnreferenced, Doc, Hash, Content
<1>2. /\ pc[w] = "remove" /\ pc'[w] = "idle"
      /\ \A v \in Writers \ {w} : pc'[v] = pc[v]
      /\ UNCHANGED <<store, job, lock>>
      BY <1>1 DEF RemoveUnreferenced, Finish
<1>3. ArtifactBacked'
  <2>1. ASSUME NEW d \in Docs, store[d].version > 0
        PROVE  approved'[<<d, store[d].hash>>] = "intact"
    <3>1. store[d].hash \in Hashes /\ approved[<<d, store[d].hash>>] = "intact"
          BY <2>1 DEF PublicationInv, HistoryInv, ArtifactInv, ArtifactBacked
    <3>2. <<d, store[d].hash>> # Content(w)
          BY <1>2 DEF ArtifactInv, Content
    <3> QED BY <1>1, <3>1, <3>2
  <2> QED BY <1>2, <2>1 DEF ArtifactBacked
<1>4. ASSUME NEW v \in Writers
      PROVE  /\ pc'[v] \in Persisting => approved'[Content(v)] = "intact"
             /\ pc'[v] = "copy" => approved'[Content(v)] = "partial"
  <2>1. CASE v = w
        BY <1>2, <2>1 DEF Persisting
  <2>2. CASE v # w
    <3>1. Content(v) # Content(w)
          BY <2>2, DistinctContent DEF ArtifactInv, PublicationInv
    <3> QED BY <1>1, <1>2, <2>2, <3>1 DEF ArtifactInv, Persisting
  <2> QED BY <2>1, <2>2
<1>5. ASSUME NEW v \in Writers, pc'[v] = "remove"
      PROVE  store'[Doc(v)].hash # Hash(v)
      BY <1>2, <1>5 DEF ArtifactInv
<1> QED BY <1>1, <1>2, <1>3, <1>4, <1>5 DEF ArtifactInv, Persisting

LEMMA ArtifactStep ==
    ASSUME ArtifactInv, PublicationInv, TypeOK', [Next]_vars,
           ExclusiveContent, "indoubt" \notin CommitFaults
    PROVE  ArtifactInv'
<1>1. /\ pc \in [Writers -> Stages]
      /\ lock \in [Docs -> Writers \cup {Free, Server}]
      /\ approved \in [Docs \X Hashes -> {"absent", "partial", "intact"}]
      /\ TypeOK
      BY DEF PublicationInv, TypeOK
<1>2. \A w \in Writers : ~LeaveInDoubt(w)
      BY DEF LeaveInDoubt
<1>3. \A d \in Docs : lock[d] # Server
      BY DEF ArtifactInv
<1>4. \A w \in Writers : Release(w) => \A d \in Docs : lock'[d] # Server
      BY <1>1, <1>3, ConstantsAssumption DEF Release
<1>5. ASSUME NEW w \in Writers, Start(w) PROVE ArtifactInv'
  <2>1. /\ UNCHANGED <<store, lock, approved>>
        /\ job'[w] \in Jobs[w]
        /\ pc'[w] = "precheck"
        /\ \A v \in Writers \ {w} :
              /\ pc'[v] = pc[v] /\ job'[v] = job[v]
              /\ Doc(v)' = Doc(v) /\ Hash(v)' = Hash(v)
              /\ Content(v)' = Content(v)
        BY <1>1, <1>5 DEF Start, TypeOK, Doc, Hash, Content
  <2> QED BY <2>1 DEF ArtifactInv, ArtifactBacked
<1>6. ASSUME NEW w \in Writers, Acquire(w) PROVE ArtifactInv'
  <2>1. /\ UNCHANGED <<store, job, approved>>
        /\ pc'[w] \in {"verified", "decide"}
        /\ \A v \in Writers \ {w} : pc'[v] = pc[v]
        /\ \A d \in Docs : lock'[d] # Server
        BY <1>1, <1>3, <1>6, ConstantsAssumption DEF Acquire, GoTo
  <2> QED BY <2>1, ArtifactFrame DEF Persisting
<1>7. ASSUME NEW w \in Writers, CleanupStaleStaging(w) PROVE ArtifactInv'
  <2>1. UNCHANGED <<store, lock, approved, job, pc>>
        BY <1>7 DEF CleanupStaleStaging
  <2> QED BY <2>1 DEF ArtifactInv, ArtifactBacked, Doc, Hash, Content
<1>8. ASSUME NEW w \in Writers, Progress(w) PROVE ArtifactInv'
  <2>1. CASE Precheck(w) \/ Prepare(w) \/ Stage(w) \/ DecideChanged(w)
                \/ PromoteOverExisting(w)
    <3>1. /\ UNCHANGED <<store, job, approved, lock>>
          /\ pc'[w] \notin Persisting \cup {"remove", "copy"}
          /\ \A v \in Writers \ {w} : pc'[v] = pc[v]
          BY <1>1, <2>1
          DEF Precheck, Prepare, Stage, DecideChanged, PromoteOverExisting,
              GoTo, Persisting
    <3> QED BY <1>3, <3>1, ArtifactFrame
  <2>2. CASE Verify(w) \/ DecideUnchanged(w) \/ RejectPromotion(w)
    <3>1. /\ UNCHANGED <<store, job, approved>>
          /\ Release(w)
          /\ pc'[w] \notin Persisting \cup {"remove", "copy"}
          /\ \A v \in Writers \ {w} : pc'[v] = pc[v]
          BY <1>1, <2>2
          DEF Verify, DecideUnchanged, RejectPromotion, GoTo, Finish, Persisting
    <3> QED BY <1>4, <3>1, ArtifactFrame
  <2>3. CASE Link(w)
    <3>1. /\ UNCHANGED <<store, job, lock>>
          /\ \A v \in Writers \ {w} : pc'[v] = pc[v]
          /\ pc'[w] \notin {"remove", "copy"}
          BY <1>1, <2>3 DEF Link, Promoted, GoTo
    <3>2. /\ approved'[Content(w)] = "intact"
          /\ \A c \in Docs \X Hashes :
                c # Content(w) => approved'[c] = approved[c]
          BY <1>1, <2>3, JobType DEF Link
    <3> QED BY <1>3, <3>1, <3>2, ArtifactFrame
  <2>4. CASE CopyBegin(w)
    <3>1. /\ UNCHANGED <<store, job, lock>>
          /\ \A v \in Writers \ {w} : pc'[v] = pc[v]
          /\ pc'[w] = "copy"
          BY <1>1, <2>4 DEF CopyBegin, GoTo
    <3>2. /\ approved[Content(w)] = "absent"
          /\ approved'[Content(w)] = "partial"
          /\ \A c \in Docs \X Hashes :
                c # Content(w) => approved'[c] = approved[c]
          BY <1>1, <2>4, JobType DEF CopyBegin
    <3> QED BY <1>3, <3>1, <3>2, ArtifactFrame DEF Persisting
  <2>5. CASE CopyEnd(w)
    <3>1. /\ UNCHANGED <<store, job>>
          /\ \A v \in Writers \ {w} : pc'[v] = pc[v]
          /\ pc'[w] \notin {"remove", "copy"}
          /\ \A d \in Docs : lock'[d] # Server
          BY <1>1, <1>3, <1>4, <2>5 DEF CopyEnd, Promoted, GoTo
    <3>2. approved[Content(w)] = "partial"
          BY <2>5 DEF CopyEnd, ArtifactInv
    <3>3. /\ approved'[Content(w)] = "intact"
          /\ \A c \in Docs \X Hashes :
                c # Content(w) => approved'[c] = approved[c]
          BY <1>1, <2>5, <3>2, JobType DEF CopyEnd
    <3> QED BY <3>1, <3>3, ArtifactFrame
  <2>6. CASE AcceptExisting(w)
    <3>1. /\ UNCHANGED <<store, job, lock, approved>>
          /\ \A v \in Writers \ {w} : pc'[v] = pc[v]
          /\ pc'[w] \notin {"remove", "copy"}
          /\ approved'[Content(w)] = "intact"
          BY <1>1, <2>6 DEF AcceptExisting, Promoted
    <3> QED BY <1>3, <3>1, ArtifactFrame
  <2>7. CASE PersistDocument(w) \/ PersistStructured(w) \/ PersistChunks(w)
    <3>1. /\ UNCHANGED <<store, job, lock, approved>>
          /\ \A v \in Writers \ {w} : pc'[v] = pc[v]
          /\ pc[w] \in Persisting /\ pc'[w] \notin {"remove", "copy"}
          BY <1>1, <2>7
          DEF PersistDocument, PersistStructured, PersistChunks, GoTo, Persisting
    <3> QED BY <1>3, <3>1, ArtifactFrame
  <2>8. CASE Commit(w)
    <3>1. /\ pc'[w] \notin Persisting \cup {"remove", "copy"}
          /\ \A v \in Writers \ {w} : pc'[v] = pc[v]
          BY <1>1, <2>8 DEF Commit, Finish, Persisting
    <3> QED BY <1>4, <2>8, <3>1, ArtifactPublish DEF Commit
  <2>9. CASE CompensateStaged(w) \/ CompensatePromoted(w)
    <3>1. /\ UNCHANGED <<store, job, lock, approved>>
          /\ \A v \in Writers \ {w} : pc'[v] = pc[v]
          /\ pc'[w] \notin Persisting \cup {"copy"}
          /\ pc'[w] = "remove" => store[Doc(w)].hash # Hash(w)
          BY <1>1, <2>9
          DEF CompensateStaged, CompensatePromoted, Finish, GoTo, Persisting
    <3> QED BY <1>3, <3>1, ArtifactFrame
  <2>10. CASE RemoveUnreferenced(w)
        BY <2>10, ArtifactRemove
  <2> QED BY <1>8, <2>1, <2>2, <2>3, <2>4, <2>5, <2>6, <2>7, <2>8, <2>9, <2>10
          DEF Progress
<1>9. ASSUME NEW w \in Writers, Trouble(w) PROVE ArtifactInv'
  <2>1. CASE StageFails(w) \/ CompensateUnknown(w)
    <3>1. /\ UNCHANGED <<store, job, lock, approved>>
          /\ \A v \in Writers \ {w} : pc'[v] = pc[v]
          /\ pc'[w] \notin Persisting \cup {"remove", "copy"}
          BY <1>1, <2>1 DEF StageFails, CompensateUnknown, Finish, Persisting
    <3> QED BY <1>3, <3>1, ArtifactFrame
  <2>2. CASE FailsEarly(w) \/ Fails(w) \/ Crash(w)
    <3>1. /\ UNCHANGED <<store, job, approved>>
          /\ Release(w)
          /\ \A v \in Writers \ {w} : pc'[v] = pc[v]
          /\ pc'[w] \notin Persisting \cup {"remove", "copy"}
          BY <1>1, <1>2, <2>2
          DEF FailsEarly, Fails, Crash, Finish, GoTo, Persisting
    <3> QED BY <1>4, <3>1, ArtifactFrame
  <2>3. CASE CommitFails(w)
    <3>1. /\ UNCHANGED <<job, approved>>
          /\ Release(w)
          /\ pc[w] = "commit"
          /\ \A v \in Writers \ {w} : pc'[v] = pc[v]
          /\ pc'[w] \notin Persisting \cup {"remove", "copy"}
          /\ Publish(Doc(w), txn[w]) \/ UNCHANGED store
          BY <1>1, <1>2, <2>3 DEF CommitFails, GoTo, Persisting
    <3> QED BY <1>4, <3>1, ArtifactFrame, ArtifactPublish
  <2> QED BY <1>9, <2>1, <2>2, <2>3 DEF Trouble
<1>10. ASSUME NEW d \in Docs, Settle(d) PROVE ArtifactInv'
      BY <1>3, <1>10 DEF Settle
<1>11. CASE UNCHANGED vars
      BY <1>11 DEF vars, ArtifactInv, ArtifactBacked, Doc, Hash, Content
<1> QED BY <1>5, <1>6, <1>7, <1>8, <1>9, <1>10, <1>11 DEF Next

\* When no two writers are given the same content of a document and no COMMIT
\* is left in doubt, every published row keeps its artifact, through failures,
\* compensations, kills and the copying fallback of promote.
THEOREM ArtifactsBacked ==
    ASSUME ExclusiveContent, "indoubt" \notin CommitFaults
    PROVE  Spec => []ArtifactBacked
<1>1. PublicationInv /\ PublicationInv' /\ ArtifactInv /\ [Next]_vars => ArtifactInv'
      BY ArtifactStep DEF PublicationInv
<1>2. ArtifactInv => ArtifactBacked
      BY DEF ArtifactInv
<1> QED BY <1>1, <1>2, ArtifactInit, PublicationCorrect, PTL DEF Spec

-----------------------------------------------------------------------------
(* What a call leaves behind.  Nothing is assumed of the jobs or of COMMIT:  *)
(* writers may share content, and commits may be left in doubt.              *)

\* The writer has put the artifact of its content in place, and answers for it.
Holds(w) == pc[w] \in Persisting \cup {"copy", "remove"} \/ (pc[w] = "compensate" /\ promoted[w])

InLog(c) == \E i \in DOMAIN log[c[1]] : log[c[1]][i] = c[2]

\* The local flag of the coordinator, and the .tmp file of the writer's token, stage by stage.
LocalInv(w) ==
    /\ promoted[w] => pc[w] \in Persisting \cup {"compensate", "remove"}
    /\ pc[w] \in Persisting \cup {"remove"} => promoted[w]
    /\ staged[w] =>
          \/ pc[w] \in {"enter", "decide", "promote", "existing", "copy"}
          \/ pc[w] = "compensate" /\ ~promoted[w]
          \/ pc[w] = "idle" /\ Content(w) \in faulted

LeftoverInv ==
    /\ \A w \in Writers : LocalInv(w)
    /\ \A c \in Docs \X Hashes : approved[c] # "absent" =>
          c \in faulted \/ InLog(c) \/ \E w \in Writers : Content(w) = c /\ Holds(w)

\* No commit is ever forgotten.
LEMMA PublishGrows ==
    ASSUME TypeOK, NEW d \in Docs, NEW e \in KS!Entry, Publish(d, e)
    PROVE  \A x \in Docs : \A i \in DOMAIN log[x] :
              i \in DOMAIN log'[x] /\ log'[x][i] = log[x][i]
<1>1. log[d] \in Seq(Hashes \cup {NoHash}) /\ e.hash \in Hashes \cup {NoHash}
      BY EntryFields DEF TypeOK
<1>2. log'[d] = Append(log[d], e.hash) /\ \A x \in Docs : x # d => log'[x] = log[x]
      BY DEF TypeOK, Publish
<1>3. \A i \in DOMAIN log[d] : i \in DOMAIN log'[d] /\ log'[d][i] = log[d][i]
      BY <1>1, <1>2
<1> QED BY <1>2, <1>3

\* A step of w that leaves the other writers and the other artifacts alone, forgets neither commits
\* nor faults, and explains the artifact of w unless somebody else still does.
LEMMA LeftoverFrame ==
    ASSUME LeftoverInv, TypeOK, NEW w \in Writers, UNCHANGED job,
           \A v \in Writers \ {w} : /\ pc'[v] = pc[v] /\ promoted'[v] = promoted[v]
                                   /\ staged'[v] = staged[v],
           \A x \in Docs : \A i \in DOMAIN log[x] :
              i \in DOMAIN log'[x] /\ log'[x][i] = log[x][i],
           faulted \subseteq faulted',
           \A c \in Docs \X Hashes : c # Content(w) => approved'[c] = approved[c],
           LocalInv(w)',
           approved'[Content(w)] # "absent" =>
              \/ Content(w) \in faulted' \/ InLog(Content(w))' \/ Holds(w)'
              \/ approved[Content(w)] # "absent" /\ ~Holds(w)
    PROVE  LeftoverInv'
<1>1. \A v \in Writers : Content(v)' = Content(v) /\ Content(v) \in Docs \X Hashes
      BY JobType DEF Doc, Hash, Content
<1>2. ASSUME NEW v \in Writers, v # w PROVE LocalInv(v)' /\ (Holds(v) => Holds(v)')
      BY <1>1, <1>2 DEF LeftoverInv, LocalInv, Holds
<1>3. ASSUME NEW c \in Docs \X Hashes, InLog(c) PROVE InLog(c)'
      BY <1>3 DEF InLog
<1>4. ASSUME NEW c \in Docs \X Hashes, approved'[c] # "absent"
      PROVE  c \in faulted' \/ InLog(c)' \/ \E v \in Writers : Content(v)' = c /\ Holds(v)'
  <2>1. CASE c # Content(w)
        BY <1>1, <1>2, <1>3, <1>4, <2>1 DEF LeftoverInv
  <2>2. CASE c = Content(w)
        BY <1>1, <1>2, <1>3, <1>4, <2>2 DEF LeftoverInv
  <2> QED BY <2>1, <2>2
<1> QED BY <1>2, <1>4 DEF LeftoverInv

LEMMA LeftoverInit == Init => LeftoverInv
BY DEF Init, LeftoverInv, LocalInv, Persisting

\* What the helpers of the actions do to the other writers.
LEMMA LocalFrames ==
    ASSUME TypeOK, NEW w \in Writers
    PROVE  /\ \A s : GoTo(w, s) => /\ pc'[w] = s /\ promoted' = promoted
                                   /\ \A v \in Writers \ {w} : pc'[v] = pc[v]
           /\ \A s, n : Finish(w, s, n) =>
                 /\ pc'[w] = "idle" /\ ~promoted'[w]
                 /\ \A v \in Writers \ {w} : pc'[v] = pc[v] /\ promoted'[v] = promoted[v]
           /\ Discard(w) => ~staged'[w] /\ \A v \in Writers \ {w} : staged'[v] = staged[v]
           /\ Promoted(w) =>
                 /\ pc'[w] = "document" /\ promoted'[w] /\ ~staged'[w]
                 /\ \A v \in Writers \ {w} : /\ pc'[v] = pc[v] /\ promoted'[v] = promoted[v]
                                             /\ staged'[v] = staged[v]
BY DEF TypeOK, GoTo, Finish, Discard, Promoted

LEMMA LeftoverStart ==
    ASSUME LeftoverInv, TypeOK, NEW w \in Writers, Start(w)
    PROVE  LeftoverInv'
<1>1. /\ pc[w] = "idle" /\ pc'[w] = "precheck" /\ ~staged'[w]
      /\ UNCHANGED <<log, approved, promoted, faulted>>
      /\ \A v \in Writers \ {w} :
            pc'[v] = pc[v] /\ staged'[v] = staged[v] /\ Content(v)' = Content(v)
      BY DEF TypeOK, Start, Doc, Hash, Content
<1>2. LocalInv(w)'
      BY <1>1 DEF LeftoverInv, LocalInv, Persisting
<1>3. ~Holds(w)
      BY <1>1 DEF Holds, Persisting
<1>4. ASSUME NEW v \in Writers, v # w PROVE LocalInv(v)' /\ Holds(v)' = Holds(v)
      BY <1>1, <1>4 DEF LeftoverInv, LocalInv, Holds
<1>5. \A c \in Docs \X Hashes : InLog(c)' = InLog(c)
      BY <1>1 DEF InLog
<1>6. ASSUME NEW c \in Docs \X Hashes, approved'[c] # "absent"
      PROVE  c \in faulted' \/ InLog(c)' \/ \E v \in Writers : Content(v)' = c /\ Holds(v)'
      BY <1>1, <1>3, <1>4, <1>5, <1>6 DEF LeftoverInv
<1> QED BY <1>2, <1>4, <1>6 DEF LeftoverInv

\* A step of w that leaves the files and the log alone.
LEMMA LeftoverLocal ==
    ASSUME LeftoverInv, TypeOK, NEW w \in Writers, UNCHANGED <<job, log, approved>>,
           \A v \in Writers \ {w} : /\ pc'[v] = pc[v] /\ promoted'[v] = promoted[v]
                                   /\ staged'[v] = staged[v],
           faulted \subseteq faulted', LocalInv(w)',
           Holds(w) => Holds(w)' \/ Content(w) \in faulted' \/ InLog(Content(w))
    PROVE  LeftoverInv'
<1>1. InLog(Content(w))' = InLog(Content(w))
      BY DEF InLog, Content, Doc, Hash
<1> QED BY <1>1, LeftoverFrame

\* A transaction that commits logs the content its writer was given.
LEMMA CommitLogs ==
    ASSUME PublicationInv, NEW w \in Writers, pc[w] = "commit", Publish(Doc(w), txn[w]), UNCHANGED job
    PROVE  InLog(Content(w))'
<1>1. /\ Doc(w) \in Docs /\ txn[w] \in KS!Entry /\ Content(w)' = <<Doc(w), Hash(w)>>
      /\ Doc(w)' = Doc(w)
      BY JobType DEF PublicationInv, TypeOK, Content, Doc, Hash
<1>2. txn[w].hash = Hash(w) /\ txn[w].hash \in Hashes /\ txn[w].version = store[Doc(w)].version + 1
      BY ReadyToCommit, JobType DEF PublicationInv
<1>3. txn[w].version \in DOMAIN log'[Doc(w)] /\ log'[Doc(w)][txn[w].version] = Hash(w)
      BY <1>1, <1>2, PublishHistory DEF PublicationInv
<1> QED BY <1>1, <1>3 DEF InLog

LEMMA LeftoverProgress ==
    ASSUME LeftoverInv, PublicationInv, NEW w \in Writers, Progress(w)
    PROVE  LeftoverInv'
<1>1. TypeOK /\ LocalInv(w) /\ Content(w) \in Docs \X Hashes
      BY JobType DEF LeftoverInv, PublicationInv
<1>2. pc \in [Writers -> Stages] /\ staged \in [Writers -> BOOLEAN]
      /\ promoted \in [Writers -> BOOLEAN]
      /\ approved \in [Docs \X Hashes -> {"absent", "partial", "intact"}]
      BY <1>1 DEF TypeOK
<1> DEFINE Others == \A v \in Writers \ {w} :
                        pc'[v] = pc[v] /\ promoted'[v] = promoted[v] /\ staged'[v] = staged[v]
<1>3. CASE Precheck(w) \/ Prepare(w) \/ DecideChanged(w) \/ PromoteOverExisting(w)
              \/ PersistDocument(w) \/ PersistStructured(w) \/ PersistChunks(w)
  <2>1. /\ UNCHANGED <<job, log, approved, faulted, promoted, staged>>
        /\ \A v \in Writers \ {w} : pc'[v] = pc[v]
        /\ \/ pc[w] = "precheck" /\ pc'[w] \in {"verify", "prepare"}
           \/ pc[w] = "prepare" /\ pc'[w] = "stage"
           \/ pc[w] \in {"decide", "promote"} /\ pc'[w] \in {"promote", "existing"}
           \/ pc[w] \in Persisting /\ pc'[w] \in Persisting
        BY <1>2, <1>3
        DEF Precheck, Prepare, DecideChanged, PromoteOverExisting, PersistDocument,
            PersistStructured, PersistChunks, GoTo, Persisting
  <2>2. LocalInv(w)' /\ (Holds(w) => Holds(w)')
        BY <1>1, <2>1 DEF LocalInv, Holds, Persisting
  <2> QED BY <1>1, <2>1, <2>2, LeftoverLocal
<1>4. CASE Stage(w)
  <2>1. /\ UNCHANGED <<job, log, approved, faulted, promoted>> /\ pc[w] = "stage" /\ pc'[w] = "enter"
        /\ \A v \in Writers \ {w} : pc'[v] = pc[v] /\ staged'[v] = staged[v]
        BY <1>2, <1>4 DEF Stage, GoTo
  <2>2. LocalInv(w)' /\ ~Holds(w)
        BY <1>1, <2>1 DEF LocalInv, Holds, Persisting
  <2> QED BY <1>1, <2>1, <2>2, LeftoverLocal
<1>5. CASE Verify(w) \/ DecideUnchanged(w) \/ RejectPromotion(w)
  <2>1. /\ UNCHANGED <<job, log, approved, faulted>> /\ Others
        /\ pc[w] \in {"verified", "decide", "promote", "existing"}
        /\ \/ /\ pc'[w] \in {"idle", "prepare"} /\ pc[w] \in {"verified", "decide"}
              /\ promoted'[w] \in {FALSE, promoted[w]}
              /\ (pc[w] = "verified" /\ staged'[w] = staged[w]) \/ ~staged'[w]
           \/ pc'[w] = "compensate" /\ promoted'[w] = promoted[w] /\ pc[w] # "verified"
        BY <1>2, <1>5 DEF Verify, DecideUnchanged, RejectPromotion, GoTo, Finish, Discard
  <2>2. LocalInv(w)' /\ ~Holds(w)
        BY <1>1, <1>2, <2>1 DEF LocalInv, Holds, Persisting
  <2> QED BY <1>1, <2>1, <2>2, LeftoverLocal
<1>6. CASE Link(w)
  <2>1. /\ UNCHANGED <<job, log>> /\ Others /\ faulted \subseteq faulted' /\ pc[w] = "promote"
        /\ \A c \in Docs \X Hashes : c # Content(w) => approved'[c] = approved[c]
        /\ \/ pc'[w] = "document" /\ promoted'[w] /\ ~staged'[w]
           \/ pc'[w] = "existing" /\ promoted'[w] = promoted[w] /\ Content(w) \in faulted'
        BY <1>2, <1>6 DEF Link, Promoted, GoTo, Fault, Discard
  <2>2. LocalInv(w)' /\ (Holds(w)' \/ Content(w) \in faulted')
        BY <1>1, <2>1 DEF LocalInv, Holds, Persisting
  <2> QED BY <1>1, <2>1, <2>2, LeftoverFrame
<1>7. CASE CopyBegin(w)
  <2>1. /\ UNCHANGED <<job, log, faulted, promoted, staged>> /\ Others
        /\ pc[w] = "promote" /\ pc'[w] = "copy"
        /\ \A c \in Docs \X Hashes : c # Content(w) => approved'[c] = approved[c]
        BY <1>2, <1>7 DEF CopyBegin, GoTo
  <2>2. LocalInv(w)' /\ Holds(w)'
        BY <1>1, <2>1 DEF LocalInv, Holds, Persisting
  <2> QED BY <1>1, <2>1, <2>2, LeftoverFrame
<1>8. CASE CopyEnd(w)
  <2>1. /\ UNCHANGED <<job, log>> /\ Others /\ faulted \subseteq faulted' /\ pc[w] = "copy"
        /\ \A c \in Docs \X Hashes : c # Content(w) => approved'[c] = approved[c]
        /\ \/ pc'[w] = "document" /\ promoted'[w] /\ ~staged'[w]
           \/ pc'[w] = "compensate" /\ promoted'[w] = promoted[w] /\ Content(w) \in faulted'
        BY <1>2, <1>8 DEF CopyEnd, Promoted, GoTo, Fault, Discard
  <2>2. LocalInv(w)' /\ (Holds(w)' \/ Content(w) \in faulted')
        BY <1>1, <2>1 DEF LocalInv, Holds, Persisting
  <2> QED BY <1>1, <2>1, <2>2, LeftoverFrame
<1>9. CASE AcceptExisting(w)
  <2>1. /\ UNCHANGED <<job, log, approved, faulted>> /\ Others /\ pc[w] = "existing"
        /\ pc'[w] = "document" /\ promoted'[w] /\ ~staged'[w]
        BY <1>2, <1>9 DEF AcceptExisting, Promoted, Discard
  <2>2. LocalInv(w)' /\ Holds(w)'
        BY <1>1, <2>1 DEF LocalInv, Holds, Persisting
  <2> QED BY <1>1, <2>1, <2>2, LeftoverLocal
<1>10. CASE Commit(w)
  <2>1. /\ UNCHANGED <<job, approved, faulted, staged>> /\ Others
        /\ pc[w] = "commit" /\ pc'[w] = "idle" /\ ~promoted'[w]
        BY <1>2, <1>10 DEF Commit, Finish
  <2>2. LocalInv(w)'
        BY <1>1, <2>1 DEF LocalInv, Persisting
  <2>3. InLog(Content(w))'
        BY <1>10, CommitLogs DEF Commit
  <2>4. txn[w] \in KS!Entry /\ Doc(w) \in Docs
        BY <1>1, JobType DEF TypeOK
  <2> QED BY <1>1, <1>10, <2>1, <2>2, <2>3, <2>4, PublishGrows, LeftoverFrame DEF Commit
<1>11. CASE CompensateStaged(w)
  <2>1. /\ UNCHANGED <<job, log, approved>> /\ Others /\ faulted \subseteq faulted'
        /\ pc[w] = "compensate" /\ ~promoted[w] /\ pc'[w] = "idle" /\ ~promoted'[w]
        /\ (~staged'[w] \/ Content(w) \in faulted')
        /\ Content(w)' = Content(w)
        BY <1>2, <1>11 DEF CompensateStaged, Finish, Discard, Fault, Content, Doc, Hash
  <2>2. LocalInv(w)' /\ ~Holds(w)
        BY <1>1, <2>1 DEF LocalInv, Holds, Persisting
  <2> QED BY <1>1, <2>1, <2>2, LeftoverLocal
<1>12. CASE CompensatePromoted(w)
  <2>1. /\ UNCHANGED <<job, log, approved, faulted, staged>> /\ Others
        /\ pc[w] = "compensate" /\ promoted[w]
        /\ \/ pc'[w] = "idle" /\ ~promoted'[w] /\ store[Doc(w)].hash = Hash(w)
           \/ pc'[w] = "remove" /\ promoted'[w] = promoted[w]
        BY <1>2, <1>12 DEF CompensatePromoted, Finish, GoTo
  <2>2. LocalInv(w)'
        BY <1>1, <2>1 DEF LocalInv, Persisting
  <2>3. store[Doc(w)].hash = Hash(w) => InLog(Content(w))
        BY <1>1, CurrentHash DEF PublicationInv, InLog, Content
  <2>4. Holds(w)' \/ InLog(Content(w))
        BY <2>1, <2>3 DEF Holds
  <2> QED BY <1>1, <2>1, <2>2, <2>4, LeftoverLocal
<1>13. CASE RemoveUnreferenced(w)
  <2>1. /\ UNCHANGED <<job, log, staged>> /\ Others /\ faulted \subseteq faulted'
        /\ pc[w] = "remove" /\ pc'[w] = "idle" /\ ~promoted'[w]
        /\ (approved'[Content(w)] = "absent" \/ Content(w) \in faulted')
        /\ \A c \in Docs \X Hashes : c # Content(w) => approved'[c] = approved[c]
        BY <1>1, <1>2, <1>13 DEF RemoveUnreferenced, Finish, Fault
  <2>2. LocalInv(w)'
        BY <1>1, <2>1 DEF LocalInv, Persisting
  <2> QED BY <1>1, <2>1, <2>2, LeftoverFrame
<1> QED BY <1>3, <1>4, <1>5, <1>6, <1>7, <1>8, <1>9, <1>10, <1>11, <1>12, <1>13 DEF Progress

LEMMA LeftoverTrouble ==
    ASSUME LeftoverInv, PublicationInv, NEW w \in Writers, Trouble(w)
    PROVE  LeftoverInv'
<1>1. TypeOK /\ LocalInv(w) /\ Content(w) \in Docs \X Hashes
      BY JobType DEF LeftoverInv, PublicationInv
<1>2. pc \in [Writers -> Stages] /\ staged \in [Writers -> BOOLEAN]
      /\ promoted \in [Writers -> BOOLEAN]
      BY <1>1 DEF TypeOK
<1> DEFINE Others == \A v \in Writers \ {w} :
                        pc'[v] = pc[v] /\ promoted'[v] = promoted[v] /\ staged'[v] = staged[v]
<1>3. CASE StageFails(w) \/ CompensateUnknown(w) \/ Crash(w)
  <2>1. /\ UNCHANGED <<job, log, approved>> /\ Others
        /\ faulted \subseteq faulted' /\ Content(w) \in faulted' /\ Content(w)' = Content(w)
        /\ pc'[w] = "idle" /\ ~promoted'[w]
        BY <1>2, <1>3
        DEF StageFails, CompensateUnknown, Crash, LeaveInDoubt, Finish, Fault, Content, Doc, Hash
  <2>2. LocalInv(w)'
        BY <1>1, <2>1 DEF LocalInv, Persisting
  <2> QED BY <1>1, <2>1, <2>2, LeftoverLocal
<1>4. CASE FailsEarly(w)
  <2>1. /\ UNCHANGED <<job, log, approved, faulted, staged>> /\ Others
        /\ pc[w] \in Unguarded /\ pc'[w] = "idle" /\ ~promoted'[w]
        BY <1>2, <1>4 DEF FailsEarly, Finish
  <2>2. LocalInv(w)' /\ ~Holds(w)
        BY <1>1, <2>1 DEF LocalInv, Holds, Unguarded, Persisting
  <2> QED BY <1>1, <2>1, <2>2, LeftoverLocal
<1>5. CASE Fails(w)
  <2>1. /\ UNCHANGED <<job, log, approved, promoted, staged>> /\ Others
        /\ pc[w] \in Guarded /\ pc'[w] = "compensate"
        /\ faulted \subseteq faulted' /\ (pc[w] = "copy" => Content(w) \in faulted')
        BY <1>2, <1>5 DEF Fails, GoTo, Fault
  <2>2. LocalInv(w)' /\ (Holds(w) => Holds(w)' \/ Content(w) \in faulted')
        BY <1>1, <2>1 DEF LocalInv, Holds, Guarded, Persisting
  <2> QED BY <1>1, <2>1, <2>2, LeftoverLocal
<1>6. CASE CommitFails(w)
  <2>1. /\ UNCHANGED <<job, approved, promoted, staged, faulted>> /\ Others
        /\ pc[w] = "commit" /\ pc'[w] = "compensate"
        /\ Publish(Doc(w), txn[w]) \/ UNCHANGED log
        BY <1>2, <1>6 DEF CommitFails, LeaveInDoubt, GoTo
  <2>2. LocalInv(w)' /\ Holds(w)'
        BY <1>1, <2>1 DEF LocalInv, Holds, Persisting
  <2>3. txn[w] \in KS!Entry /\ Doc(w) \in Docs
        BY <1>1, JobType DEF TypeOK
  <2>4. \A x \in Docs : \A i \in DOMAIN log[x] : i \in DOMAIN log'[x] /\ log'[x][i] = log[x][i]
        BY <1>1, <2>1, <2>3, PublishGrows
  <2> QED BY <1>1, <2>1, <2>2, <2>4, LeftoverFrame
<1> QED BY <1>3, <1>4, <1>5, <1>6 DEF Trouble

LEMMA LeftoverStep ==
    ASSUME LeftoverInv, PublicationInv, [Next]_vars
    PROVE  LeftoverInv'
<1>1. TypeOK /\ \A w \in Writers : LocalInv(w)
      BY DEF LeftoverInv, PublicationInv
<1>2. ASSUME NEW w \in Writers, Acquire(w) PROVE LeftoverInv'
  <2>1. /\ UNCHANGED <<job, log, approved, faulted, promoted, staged>>
        /\ \A v \in Writers \ {w} : pc'[v] = pc[v]
        /\ \/ pc[w] = "verify" /\ pc'[w] = "verified"
           \/ pc[w] = "enter" /\ pc'[w] = "decide"
        BY <1>1, <1>2 DEF TypeOK, Acquire, GoTo
  <2>2. LocalInv(w)' /\ ~Holds(w)
        BY <1>1, <2>1 DEF LocalInv, Holds, Persisting
  <2> QED BY <1>1, <2>1, <2>2, LeftoverLocal
<1>3. ASSUME NEW w \in Writers, CleanupStaleStaging(w) PROVE LeftoverInv'
  <2>1. /\ UNCHANGED <<job, log, approved, faulted, promoted, pc>> /\ ~staged'[w]
        /\ \A v \in Writers \ {w} : staged'[v] = staged[v]
        BY <1>1, <1>3 DEF TypeOK, CleanupStaleStaging, Discard
  <2>2. LocalInv(w)' /\ (Holds(w) => Holds(w)')
        BY <1>1, <2>1 DEF LocalInv, Holds
  <2> QED BY <1>1, <2>1, <2>2, LeftoverLocal
<1>4. ASSUME NEW d \in Docs, Settle(d) PROVE LeftoverInv'
  <2>1. /\ UNCHANGED <<job, approved, faulted, promoted, staged, pc>>
        /\ Publish(d, doubt[d]) \/ UNCHANGED log
        BY <1>4 DEF Settle
  <2>2. doubt[d] \in KS!Entry
        BY <1>1 DEF TypeOK
  <2>3. \A x \in Docs : \A i \in DOMAIN log[x] : i \in DOMAIN log'[x] /\ log'[x][i] = log[x][i]
        BY <1>1, <2>1, <2>2, PublishGrows
  <2>4. \A c \in Docs \X Hashes : InLog(c) => InLog(c)'
        BY <2>3 DEF InLog
  <2>5. \A w \in Writers : Content(w)' = Content(w) /\ Holds(w)' = Holds(w) /\ LocalInv(w)'
        BY <1>1, <2>1 DEF Content, Doc, Hash, Holds, LocalInv
  <2> QED BY <2>1, <2>4, <2>5 DEF LeftoverInv
<1>5. CASE UNCHANGED vars
      BY <1>5 DEF vars, LeftoverInv, LocalInv, InLog, Holds, Content, Doc, Hash
<1> QED BY <1>1, <1>2, <1>3, <1>4, <1>5, LeftoverStart, LeftoverProgress, LeftoverTrouble DEF Next

\* What is left behind is accounted for, at every moment of every call.
THEOREM LeftoversKnown == Spec => []LeftoverInv
BY LeftoverInit, LeftoverStep, PublicationCorrect, PTL DEF Spec

\* Every early return and every exception path of ingest disposes of the staged file: one that a
\* call leaves behind when it ends is due to a kill or to a file operation that failed.
THEOREM StagingCleaned == Spec => []NoStagingLeak
<1>1. LeftoverInv => NoStagingLeak
      BY DEF LeftoverInv, LocalInv, NoStagingLeak
<1> QED BY <1>1, LeftoversKnown, PTL

\* A failed call takes back what it promoted: an artifact that no version used and no call handles
\* is due to a kill or to a cleanup that failed, even when writers share contents.
THEOREM ArtifactsExplained == Spec => []NoUnexplainedArtifact
<1>1. LeftoverInv => NoUnexplainedArtifact
      BY DEF LeftoverInv, NoUnexplainedArtifact, InLog, Holds, Persisting
<1> QED BY <1>1, LeftoversKnown, PTL
=============================================================================
