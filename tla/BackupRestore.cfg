CONSTANTS
    None = None
    Mixed = Mixed
    Child = {c1, p1}
    Preset = {p1}
    Open = {c1}
    Content = {v1, v2}
    Faults = {"step", "removal", "rollback", "cleanup", "request", "crash"}
    MaxFaults = 3
SPECIFICATION Spec
INVARIANTS
    TypeOK
    AllOrNothing
    NothingLost
SYMMETRY ContentSymmetry
VIEW View
