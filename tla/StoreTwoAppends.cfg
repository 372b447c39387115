SPECIFICATION Spec
CONSTANTS
    me = me
    bob = bob
    carol = carol
    p1 = p1
    q1 = q1
    p2 = p2
    b1 = b1
    b2 = b2
    b3 = b3
    x2 = x2
    y3 = y3
    c2 = c2
    c3 = c3
    bad = bad
    None = None
    Author <- MCAuthor
    Event <- MCEvent
    AuthorOf <- MCAuthorOf
    SeqOf <- MCSeqOf
    PrevOf <- MCPrevOf
    TargetOf <- MCTargetOf
    Valid <- MCValid
    Me = me
    Remote = {}
    MaxPending = 2
    MaxPendingPerAuthor = 2
    MaxQueue = 2
    MaxCount = 3
    MaxCrashes = 0
    MaxFailures = 0
INVARIANTS
    OwnAppendsSerialised
