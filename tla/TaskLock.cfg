\* Three entities, so that acquire_locks can fail half way; three operations, so
\* that two tasks and a backup meet.
CONSTANTS
    Entity = {1, 2, 3}
    Token = {t1, t2, t3}
    None = None
    Overrun = FALSE
SPECIFICATION FairSpec
INVARIANTS
    TypeOK
    MaintenanceExclusive
    HeldIsOwned
    NothingLeftBehind
PROPERTIES
    ExclusionSpec
    LocksRecover
