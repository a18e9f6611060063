SPECIFICATION FairLimitSpec
CONSTANTS
    p1 = p1
    p2 = p2
    t1 = t1
    t2 = t2
    i1 = i1
    i2 = i2
    i3 = i3
    i4 = i4
    Processes <- MCProcesses
    Threads <- MCThreads
    ProcessOf <- MCProcessOf
    Ids <- MCIds
    NoId = NoId
    Limits <- MCZeroOrTwo
    MaxLimit = 2
    NoLimit = NoLimit
    MaxCrashes = 1
INVARIANTS LimitTypeOK BoundedOvershoot LiveAreCounted
PROPERTIES KeepsServing
