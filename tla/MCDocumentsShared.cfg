SPECIFICATION Spec
CONSTANTS
    d1 = d1
    d2 = d2
    c1 = c1
    c2 = c2
    w1 = w1
    w2 = w2
    r1 = r1
    r2 = r2
    g1 = g1
    g2 = g2
    g3 = g3
    NoDoc = NoDoc
    Docs <- MCDoc
    Chunks <- MCChunk
    DocOf <- MCDocOf
    Asked <- MCAsked
    Gens <- MCGens
    Workers <- MCWorkers
    Requests <- MCRequests
    CleanMayFail = TRUE
    MaxOps = 2
    MaxCrashes = 1
INVARIANTS SegmentsSearchable
PROPERTIES NeglectedForCause
CHECK_DEADLOCK FALSE
