CONSTANTS
    None = None
    Entity = {h, i1}
    Host = h
    Token = {r1, r2}
    Workers = 2
    Ops = {"provision", "adopt", "delete", "workshop", "plugins", "rerun"}
    Faults = {"playbook", "raise", "crash", "webcrash", "enqueue"}
SYMMETRY TokenSymmetry
VIEW View
SPECIFICATION Spec
INVARIANTS
    TypeOK
    HoldersLocked
    LocksReturned
    NoOrphanMachine
PROPERTIES
    OneAtATime
CHECK_DEADLOCK FALSE
