SPECIFICATION Spec
CONSTANTS
    s1 = s1
    s2 = s2
    d1 = d1
    d2 = d2
    app = app
    apk = apk
    zip = zip
    Server = {s1, s2}
    Device = {d1, d2}
    Release = {app, apk, zip}
    IOS = {app}
    Reserved = {zip}
    Explicit = FALSE
    Serial = TRUE
    Ttl = 1
    MaxTime = 3
    MaxSecret = 2
    Torn = Torn
    None = None
SYMMETRY Interchangeable
INVARIANTS TypeOK LinksHonoured GoesCold
