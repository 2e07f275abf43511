\* A worker is given up on and goes on later, during the same upgrade of the
\* host or the next.
SPECIFICATION Spec
CONSTANTS
    Instances = {1}
    Jobs = {1, 2}
    Users = {}
    Backup = FALSE
    Faults = {"playbook", "stall"}
    Budget = 2
    MaxToken = 4
    Upgrades = 2
PROPERTIES
    TerminalIsFinal
    RemoteFenced
CHECK_DEADLOCK FALSE
