SPECIFICATION Spec
CONSTANTS
    App = {a1}
    Version = {v1, v2}
    Channel = {c1, c2}
    Platform = {ios}
    Ios = ios
    Content = {b1, b2}
    Readable = {b1, b2}
    Named = {b1}
    Given = {id1}
    Writer = {w1}
    Collector = {g1, g2}
    KeepLast = 1
    OlderThan = 1
    MaxTime = 1
    MaxRowid = 3
    Faults = TRUE
    Window = TRUE
    None = None
SYMMETRY Symmetry
INVARIANTS
    TypeOK
    NoDangling
    InfoMatchesBlob
PROPERTIES
    KeepLastRespected
    OnlyOldYanksDeleted
    ImplementsReleaseSpec
