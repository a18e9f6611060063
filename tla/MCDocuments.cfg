SPECIFICATION FairSpec
CONSTANTS
    d1 = d1
    d2 = d2
    c1 = c1
    c2 = c2
    w1 = w1
    w2 = w2
    r1 = r1
    r2 = r2
    g1 = g1
    g2 = g2
    g3 = g3
    NoDoc = NoDoc
    Docs <- MCDocs
    Chunks <- MCChunks
    DocOf <- MCDocsOf
    Asked <- MCAsked
    Gens <- MCGens
    Workers <- MCWorker
    Requests <- MCRequest
    CleanMayFail = FALSE
    MaxOps = 4
    MaxCrashes = 0
INVARIANTS CompletedInv DeletedLeavesNothing
PROPERTIES EventuallySettles
CHECK_DEADLOCK FALSE
