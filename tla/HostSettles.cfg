CONSTANTS
    None = None
    Entity = {h, i1}
    Host = h
    Token = {r1, r2}
    Workers = 2
    Ops = {"provision", "delete", "resize", "rerun"}
    Faults = {"playbook", "crash", "webcrash", "enqueue"}
SPECIFICATION FairSpec
PROPERTIES
    HostSettles
CHECK_DEADLOCK FALSE
