\* A job timeout is the only thing that goes wrong.
CONSTANTS
    Entity = {i1}
    Token = {r1}
    None = None
    Workers = 2
    LanHook = FALSE
    Ops = {"restart"}
    Faults = {"timeout"}
SPECIFICATION FairSpec
PROPERTIES
    Settles
