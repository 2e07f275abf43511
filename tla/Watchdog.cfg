CONSTANTS
    Unit = {1}
    Strikes = 2
    RateMax = 2
    Window = 9
    Grace = 1
    Delay = 2
    MaxFaults = 2
    Faults = {"systemctl", "error", "watchdog"}
SPECIFICATION FairSpec
INVARIANTS
    TypeOK
    RateLimited
PROPERTIES
    RestartsOnlyTheStuck
    HungIsRestarted
