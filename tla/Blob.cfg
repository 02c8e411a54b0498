SPECIFICATION Spec
CONSTANTS
    Backends = {"fs", "s3"}
    Procs = {p1, p2}
    Files = {f1, f2}
    NoTemp = NoTemp
    a = a
    b = b
    Contents = {a, b}
    Size <- Sizes
    Offsets = {0, 1, 3}
INVARIANTS TypeOK WholeObjects InPlace NoLitter
PROPERTY Implements
SYMMETRY Symmetry
