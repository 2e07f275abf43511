---------------------------- MODULE AtomicUpgrade ----------------------------
(***************************************************************************)
(* What a host runtime upgrade promises, said without jobs, tokens, locks  *)
(* or journals (ui/task_logic/host_runtime_upgrade.py:1-26): the whole     *)
(* host moves to the new runtime or the whole host stays on the old one,   *)
(* and in between the host is reserved.                                    *)
(***************************************************************************)
CONSTANT Instances

VARIABLES reserved,   \* an upgrade is in progress
          runtime     \* the runtime the host and each instance's files are for

atomicVars == <<reserved, runtime>>

Runtime == {"minqlx", "minqlxtended", "between"}

All(r) == [i \in Instances |-> r]

Init ==
    /\ reserved = FALSE
    /\ runtime = All("minqlx")

\* Only a host on the old runtime is upgraded.
Reserve ==
    /\ ~reserved
    /\ runtime = All("minqlx")
    /\ reserved' = TRUE
    /\ UNCHANGED runtime

Work ==
    /\ reserved
    /\ runtime' \in [Instances -> Runtime]
    /\ UNCHANGED reserved

Finish ==
    /\ reserved
    /\ \E r \in {"minqlx", "minqlxtended"} : runtime = All(r)
    /\ reserved' = FALSE
    /\ UNCHANGED runtime

Next == Reserve \/ Work \/ Finish

Spec == Init /\ [][Next]_atomicVars
=============================================================================
