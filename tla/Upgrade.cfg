\* Two instances, any two faults of the job that owns the host: a failed step,
\* then a failed rollback, a crash, then another in the recovery, ...
SPECIFICATION Spec
CONSTANTS
    Instances = {1, 2}
    Jobs = {1, 2}
    Users = {}
    Backup = FALSE
    Faults = {"playbook", "unseen", "crash"}
    Budget = 2
    MaxToken = 4
    Upgrades = 1
INVARIANTS
    TypeOK
    JournalCovers
    RunsOneRuntime
PROPERTIES
    UpgradeOutcome
    AtomicSpec
CHECK_DEADLOCK FALSE
