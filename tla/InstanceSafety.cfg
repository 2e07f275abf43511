\* Everything that can go wrong except a job that outlives its lock.
CONSTANTS
    Entity = {i1}
    Token = {r1, r2}
    None = None
    Workers = 2
    LanHook = TRUE
    Ops = {"deploy", "restart", "stop", "start", "config", "lan", "delete"}
    Faults = {"playbook", "timeout", "exception", "crash", "webcrash", "invalid",
              "enqueue"}
SPECIFICATION Spec
SYMMETRY TokenSymmetry
INVARIANTS
    TypeOK
    OwnerHoldsLock
    StatusTruth
PROPERTIES
    ExclusionSpec
