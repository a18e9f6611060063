SPECIFICATION FairSpec
CONSTANTS
    t1 = t1
    t2 = t2
    c1 = c1
    c2 = c2
    c3 = c3
    Tabs <- MCTabs
    Calls <- MCCalls
    TabOf <- MCTabOf
    Streams = {c1}
    MayLeave = {t2}
    Timeout = 1
    MaxPairs = 3
INVARIANTS LockInv RefusedOnlyAfterOverlap StoredPairUsable
PROPERTIES EveryCallSettles
CHECK_DEADLOCK FALSE
