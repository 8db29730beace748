SPECIFICATION Spec
CONSTANTS
    w1 = w1
    w2 = w2
    d1 = d1
    d2 = d2
    pA = pA
    pB = pB
    pC = pC
    hA = hA
    hB = hB
    hC = hC
    Writers = {w1, w2}
    Docs = {d1}
    Payloads = {pA, pB, pC}
    Structured = {pA, pC}
    Hashes = {hA, hB, hC}
    ContentHash <- OneHashEach
    NoHash = NoHash
    NoPayload = NoPayload
    Free = Free
    Server = Server
    Jobs <- SharedJobs
    CommitFaults = {"refused"}
    MaxVersion = 2
INVARIANT ArtifactBacked
