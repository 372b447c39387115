SPECIFICATION FairSpec
CONSTANTS
    pc = pc
    phone = phone
    tablet = tablet
    alice = alice
    bob = bob
    None = None
    Peer = {pc, phone, tablet}
    Author = {alice}
    Home <- MCHome
    Call <- MCChainCalls
    Batch = 1
    MaxMessages = 2
    Window = 1
    MaxLen = 1
    MaxCuts = 1
    RustChoices = {{phone}}
    MaxCrashes = 1
PROPERTIES
    Converges
