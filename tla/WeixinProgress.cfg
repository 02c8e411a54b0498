SPECIFICATION FairSpec
CONSTANTS
    ann = ann
    bob = bob
    bot = bot
    Torn = Torn
    Peer = {ann}
    Self = bot
    Inbound <- MessagesFew
    DiskFaults = TRUE
    MaxMsg = 3
    MaxStops = 2
    MaxLogin = 1
INVARIANTS TypeOK LossOnlyAtStop
PROPERTY EveryMessageSettled
