\* What the code recovers from: failing playbooks and workers that die. (A job
\* timeout and a delete that raises are not: see README.)
CONSTANTS
    Entity = {i1}
    Token = {r1, r2}
    None = None
    Workers = 2
    LanHook = FALSE
    Ops = {"deploy", "restart", "stop", "start", "config", "lan", "delete"}
    Faults = {"playbook", "crash"}
SPECIFICATION FairSpec
PROPERTIES
    Settles
