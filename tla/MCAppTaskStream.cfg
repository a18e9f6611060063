SPECIFICATION Spec
SYMMETRY NodeSymmetry
CONSTANTS
    n1 = n1
    n2 = n2
    alice = alice
    bob = bob
    Nodes <- MCNodes
    Users <- MCUsers
    Owner = alice
    NoNode = NoNode
    NoUser = NoUser
    Streaming = TRUE
    RedisMayFail = TRUE
    MaxPings = 1
    MaxChunks = 1
    MaxAhead = 2
INVARIANTS TypeOK NeverEndsSilently OneFinishPerAuthor NodesAgreeWithRun
PROPERTIES RecordsOneRun
CHECK_DEADLOCK FALSE
