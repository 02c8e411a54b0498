SPECIFICATION Spec
CONSTANTS
    App = {a1}
    Version = {v1, v2, v3}
    Channel = {c1}
    Platform = {android, generic}
    Ios = ios
    Content = {b1, b2}
    Readable = {}
    Named = {}
    Given = {None}
    Writer = {w1, w2}
    Collector = {g1}
    KeepLast = 1
    OlderThan = 0
    MaxTime = 0
    MaxRowid = 3
    Faults = TRUE
    Window = FALSE
    None = None
SYMMETRY OpenSymmetry
INVARIANTS
    ShieldIsExact
PROPERTIES
    ReleaseImmutable
    KeepLastRespected
