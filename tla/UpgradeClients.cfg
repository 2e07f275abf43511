\* A user and a backup get in the way of the upgrade of one instance, and one
\* thing goes wrong.
SPECIFICATION FairSpec
CONSTANTS
    Instances = {1}
    Jobs = {1, 2}
    Users = {u1}
    Backup = TRUE
    Faults = {"playbook", "timeout", "unseen", "crash", "enqueue"}
    Budget = 1
    MaxToken = 7
    Upgrades = 1
INVARIANTS
    UsersExcluded
    RestoreAlone
PROPERTIES
    ReservationEnds
CHECK_DEADLOCK FALSE
