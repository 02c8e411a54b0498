SPECIFICATION Spec
CONSTANTS
    ann = ann
    bob = bob
    bot = bot
    Torn = Torn
    Peer = {ann, bob}
    Self = bot
    Inbound <- Messages
    DiskFaults = FALSE
    MaxMsg = 3
    MaxStops = 2
    MaxLogin = 1
INVARIANTS NoReplay RepliesUseLatestToken
PROPERTY ImplementsAtMostOnce
