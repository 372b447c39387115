SPECIFICATION Spec
CONSTANTS
    me = me
    bob = bob
    carol = carol
    m1 = m1
    m2 = m2
    m3 = m3
    m4 = m4
    m5 = m5
    b1 = b1
    b2 = b2
    b3 = b3
    b4 = b4
    b5 = b5
    b6 = b6
    c1 = c1
    c2 = c2
    c3 = c3
    c4 = c4
    c5 = c5
    none = none
    Author = {me, bob, carol}
    Event <- MCEvent
    AuthorOf <- MCAuthorOf
    SeqOf <- MCSeqOf
    Body <- MCBody
    IdOrder <- MCIdOrder
    Viewer = me
    Limit = 3
    MediaLimit = 5
    SearchLimit = 2
    Query <- MCQuery
    Hides <- MCHides
    Lists <- MCLists
    Storing = TRUE
    MaxRefreshes = 1
INVARIANTS
    ProfileByTime
CHECK_DEADLOCK FALSE
