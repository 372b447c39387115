SPECIFICATION FairSpec
CONSTANTS
    ann = ann
    ben = ben
    ann1 = ann1
    ann2 = ann2
    ben1 = ben1
    None = None
    Route = {ann1, ann2, ben1}
    PeerOf <- MCPeerOf
    Paired <- MCPaired
    Link = ann2
    Limit = 2
    MaxLearned = 2
    MaxHeard = 2
    MaxFails = 1
    MaxMoves = 1
    MaxDrops = 1
INVARIANTS
    StoppedStaysDown
PROPERTIES
    NoPeerForgotten
    Reconnects
CHECK_DEADLOCK FALSE
