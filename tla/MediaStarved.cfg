SPECIFICATION FairSpec
CONSTANTS
    x = x
    y = y
    z = z
    e1 = e1
    e2 = e2
    p = p
    q = q
    None = None
    Blob = {x, y, z}
    Peer = {p}
    Event <- MCEvent
    Media <- MCMedia
    Gone = {x, z}
    PublicRouting = TRUE
    MaxWanted = 2
    MaxConcurrent = 1
    MaxScans = 2
    MaxFaults = 0
PROPERTIES
    AskedUntilSomeoneHasIt
