SPECIFICATION Spec
CONSTANTS
    App = {a1}
    Version = {v1, v2}
    Channel = {c1}
    Platform = {ios}
    Ios = ios
    Content = {b1}
    Readable = {b1}
    Named = {b1}
    Given = {None}
    Writer = {w1}
    Collector = {g1}
    KeepLast = 0
    OlderThan = 0
    MaxTime = 0
    MaxRowid = 2
    Faults = FALSE
    Window = FALSE
    None = None
SYMMETRY Symmetry
INVARIANTS
    NoDangling
