---------------------------- MODULE MCIngestion ----------------------------
(* Instances of Ingestion for TLC. *)
EXTENDS Ingestion, TLC

CONSTANTS w1, w2, d1, d2, pA, pB, pC, hA, hB, hC

\* Payloads a, b and c are different texts.
OneHashEach == (pA :> hA) @@ (pB :> hB) @@ (pC :> hC)

JobsFor(docs, payloads) == [doc : docs, payload : payloads]

\* Both writers may be given either text of one document.
SharedJobs == [w \in Writers |-> JobsFor({d1}, {pA, pB})]

\* The first writer alternates between two texts, the other has its own.
ExclusiveJobs == (w1 :> JobsFor({d1}, {pA, pB})) @@ (w2 :> JobsFor({d1}, {pC}))
=============================================================================
