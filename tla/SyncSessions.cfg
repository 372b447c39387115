SPECIFICATION Spec
CONSTANTS
    pc = pc
    phone = phone
    tablet = tablet
    alice = alice
    bob = bob
    None = None
    Peer = {pc, phone}
    Author = {alice, bob}
    Home <- MCHome
    Call <- MCOneCall
    Batch = 1
    MaxMessages = 1
    Window = 1
    MaxLen = 2
    MaxCuts = 1
    RustChoices = {{}, {phone}}
    MaxCrashes = 1
INVARIANTS
    SyncInOrder
    SessionsComplete
    TurnsNeverBlock
    CopiesOfHome
