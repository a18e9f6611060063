SPECIFICATION FairSpec
CONSTANTS
    n1 = n1
    n2 = n2
    alice = alice
    bob = bob
    Nodes <- MCNodes
    Users <- MCUsers
    Owner = alice
    NoNode = NoNode
    NoUser = NoUser
    Streaming = FALSE
    RedisMayFail = FALSE
    MaxPings = 0
    MaxChunks = 0
    MaxAhead = 2
PROPERTIES TaskEnds
CHECK_DEADLOCK FALSE
