SPECIFICATION Spec
CONSTANTS
    phone = phone
    relay = relay
    Peer = {phone, relay}
    Syncers = {phone}
    MaxConn <- MCMaxConn
    MaxNews = 1
INVARIANTS
    GuardHasOwner
    NewsReachesEveryone
    AccountsConnected
CHECK_DEADLOCK FALSE
