SPECIFICATION Spec
CONSTANTS
    p1 = p1
    p2 = p2
    p3 = p3
    Process = {p1, p2, p3}
    None = None
    Interval = 2
    MaxLate = 1
    MaxBusy = 0
SYMMETRY Symmetry
CHECK_DEADLOCK FALSE
INVARIANTS
    TypeOK
    KnowersCheck
    RoomsSpared
    GoneForgotten
PROPERTIES
    MutualStays
