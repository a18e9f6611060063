SPECIFICATION FairSpec
CONSTANTS
    n0 = n0
    n1 = n1
    n2 = n2
    n3 = n3
    n4 = n4
    n5 = n5
    n6 = n6
    r0 = r0
    b1 = b1
    b2 = b2
    b3 = b3
    b4 = b4
    b5 = b5
    b6 = b6
    p1 = p1
    p2 = p2
    p3 = p3
    Nodes <- MCTwiceNodes
    Parallels <- MCTwiceParallels
    Runners <- MCTwiceRunners
    Root = r0
    Route <- MCTwiceRoute
    ParallelOf <- MCTwiceParallelOf
    MayEnd <- MCNone
    Handled <- MCNone
    PoolSize = 2
    Limits <- MCNoLimits
PROPERTIES RunIsLimitedInTime
CHECK_DEADLOCK FALSE
