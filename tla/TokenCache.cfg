SPECIFICATION FairSpec
CONSTANTS
    h1 = h1
    h2 = h2
    Handler = {h1, h2}
    Job = {"send", "qr"}
    Grant = {3}
    Margin = 2
    QRTtl = 2
    Latency = 1
    Transit = 1
    MaxTime = 5
    None = None
INVARIANTS TypeOK AskedOnce NeverExpiresMidRequest PictureRecent
PROPERTY EveryCallReturns
