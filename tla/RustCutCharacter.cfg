SPECIFICATION Spec
CONSTANTS
    me = me
    bob = bob
    carol = carol
    p1 = p1
    q1 = q1
    b1 = b1
    b2 = b2
    b3 = b3
    x2 = x2
    c2 = c2
    pic = pic
    clip = clip
    None = None
    Torn = Torn
    Cut = Cut
    Me = me
    Author <- MCAuthor
    Event <- MCEvent
    AuthorOf <- MCAuthorOf
    SeqOf <- MCSeqOf
    PrevOf <- MCPrevOf
    TargetOf <- MCTargetOf
    Valid <- MCEvent
    Remote = {b1, b2, b3, x2, c2}
    Blob = {pic, clip}
    MediaOf <- MCMediaOf
    MaxPending = 2
    MaxPendingPerAuthor = 2
    MaxAttempts = 2
    Round = {1, 2}
    MaxCrashes = 1
    MaxTears = 1
INVARIANTS
    StartsAgain
CHECK_DEADLOCK FALSE
