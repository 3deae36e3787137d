SPECIFICATION Spec
CONSTANTS
    Clients = {c1, c2}
    Limit = 2
    Window = 3
    MaxTime = 7
SYMMETRY Interchangeable
INVARIANTS
    TypeOK
    NoWindowOverflows
    OnlyFullWindowsRefuse
